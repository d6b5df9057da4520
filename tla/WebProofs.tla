------------------------------ MODULE WebProofs ------------------------------
(***************************************************************************)
(* Theorems about Web: the table of clients of the server.                 *)
(***************************************************************************)
EXTENDS Web, FiniteSetTheorems, TLAPS

-----------------------------------------------------------------------------
(* The table of the server                                                   *)

Clients == Users \cup Browsers

InBacklog(c) == \E i \in DOMAIN backlog : backlog[i] = c

\* The slot the parent is about to fill is free, and a connection is waiting
\* once, or accepted, or not made.
TableInv ==
    /\ Server!ServerTypeOK
    /\ parent = "accept" => clientFd[slot] = Nobody
    /\ \A i, j \in DOMAIN backlog : backlog[i] = backlog[j] => i = j
    /\ \A c \in Clients :
          /\ InBacklog(c) => child[c] = "none" /\ link[c] # "new"
          /\ link[c] = "new" => child[c] = "none"
          /\ requests[c] + answers[c] <= MaxRequests
    /\ parent # "exited" =>
          \A c \in Clients :
             /\ child[c] = "none" => \A s \in Server!Slots : clientFd[s] # c
             /\ child[c] # "none" =>
                   \E s \in Server!Slots :
                      clientFd[s] = c /\ \A t \in Server!Slots : clientFd[t] = c => t = s

LEMMA SlotFacts ==
    /\ \A s \in Server!Slots : (s + 1) % MaxClients \in Server!Slots
    /\ 0 \in Server!Slots
    /\ Nobody \notin Clients
BY WebAssumption, ProxyAssumption DEF Server!Slots, Clients

LEMMA TableInvInit == Server!ServerInit => TableInv
<1> SUFFICES ASSUME Server!ServerInit PROVE TableInv
  OBVIOUS
<1>1. Server!ServerTypeOK
  BY SlotFacts, WebAssumption DEF Server!ServerInit, Server!ServerTypeOK
<1> QED
  BY <1>1, SlotFacts, WebAssumption DEF Server!ServerInit, TableInv, InBacklog, Clients

\* What clients and children do on a connection that is there.
LEMMA TableInvKept ==
    ASSUME TableInv, Server!ServerTypeOK',
           UNCHANGED <<parent, slot, clientFd, backlog>>,
           \A c \in Clients : child'[c] = "none" <=> child[c] = "none",
           \A c \in Clients : link'[c] = "new" <=> link[c] = "new",
           \A c \in Clients : requests'[c] + answers'[c] <= MaxRequests
    PROVE  TableInv'
BY DEF TableInv, InBacklog

LEMMA TableInvClients ==
    ASSUME TableInv, NEW c \in Clients,
           \/ Server!SendRequest(c) \/ Server!ReadAnswer(c) \/ Server!Leave(c)
           \/ Server!Answer(c) \/ Server!ClientExited(c)
    PROVE  TableInv'
<1>0. /\ Server!ServerTypeOK /\ c \in Users \cup Browsers /\ MaxRequests \in Nat
      /\ \A d \in Clients : requests[d] + answers[d] <= MaxRequests
      /\ requests \in [Clients -> 0 .. MaxRequests]
      /\ answers \in [Clients -> 0 .. MaxRequests]
  BY WebAssumption DEF TableInv, Clients, Server!ServerTypeOK
<1>1. CASE Server!SendRequest(c)
  <2>1. requests' = [requests EXCEPT ![c] = requests[c] + 1] /\ answers' = answers
        /\ requests[c] + answers[c] < MaxRequests
    BY <1>1 DEF Server!SendRequest
  <2>2. requests'[c] \in 0 .. MaxRequests
    BY <1>0, <2>1
  <2>3. \A d \in Clients : requests'[d] + answers'[d] <= MaxRequests
    BY <1>0, <2>1
  <2>4. Server!ServerTypeOK'
    BY <1>0, <1>1, <2>2 DEF Server!SendRequest, Server!ServerTypeOK
  <2> QED
    BY <1>1, <2>3, <2>4, TableInvKept DEF Server!SendRequest
<1>2. CASE Server!ReadAnswer(c)
  <2>1. answers' = [answers EXCEPT ![c] = answers[c] - 1] /\ requests' = requests
        /\ answers[c] > 0
    BY <1>2 DEF Server!ReadAnswer
  <2>2. answers'[c] \in 0 .. MaxRequests
    BY <1>0, <2>1
  <2>3. \A d \in Clients : requests'[d] + answers'[d] <= MaxRequests
    BY <1>0, <2>1
  <2>4. Server!ServerTypeOK'
    BY <1>0, <1>2, <2>2 DEF Server!ReadAnswer, Server!ServerTypeOK
  <2> QED
    BY <1>2, <2>3, <2>4, TableInvKept DEF Server!ReadAnswer
<1>3. CASE Server!Leave(c)
  <2>1. Server!ServerTypeOK'
    BY <1>0, <1>3 DEF Server!Leave, Server!ServerTypeOK
  <2> QED
    BY <1>0, <1>3, <2>1, TableInvKept DEF Server!Leave, Server!ServerTypeOK, Clients
<1>4. CASE Server!Answer(c)
  <2>1. requests' = [requests EXCEPT ![c] = 0] /\ requests[c] > 0
    BY <1>4 DEF Server!Answer
  <2>2. answers' = [answers EXCEPT ![c] = answers[c] + 1] \/ answers' = answers
    <3>1. CASE link[c] = "open"
      BY <1>4, <3>1 DEF Server!Answer
    <3>2. CASE link[c] # "open"
      <4>1. answers' = [answers EXCEPT ![c] = answers[c]]
        BY <1>4, <3>2 DEF Server!Answer
      <4> QED
        BY <1>0, <4>1
    <3> QED
      BY <3>1, <3>2
  <2>3. requests'[c] \in 0 .. MaxRequests /\ answers'[c] \in 0 .. MaxRequests
    BY <1>0, <2>1, <2>2
  <2>4. \A d \in Clients : requests'[d] + answers'[d] <= MaxRequests
    BY <1>0, <2>1, <2>2
  <2>5. answers' \in [Clients -> 0 .. MaxRequests]
    BY <1>0, <2>2, <2>3
  <2>6. Server!ServerTypeOK'
    BY <1>0, <1>4, <2>1, <2>3, <2>5 DEF Server!Answer, Server!ServerTypeOK, Clients
  <2> QED
    BY <1>4, <2>4, <2>6, TableInvKept DEF Server!Answer
<1>5. CASE Server!ClientExited(c)
  <2>1. Server!ServerTypeOK'
    BY <1>0, <1>5 DEF Server!ClientExited, Server!ServerTypeOK
  <2> QED
    BY <1>0, <1>5, <2>1, TableInvKept
    DEF Server!ClientExited, Server!ServerTypeOK, Clients, TableInv
<1> QED
  BY <1>1, <1>2, <1>3, <1>4, <1>5

LEMMA TableInvConnect ==
    ASSUME TableInv, NEW c \in Clients, Server!ConnectServer(c)
    PROVE  TableInv'
<1>0. /\ Server!ServerTypeOK /\ c \in Users \cup Browsers
      /\ link[c] = "new" /\ child[c] = "none"
      /\ link' = [link EXCEPT ![c] = "open"]
      /\ backlog' = Append(backlog, c) /\ backlog \in Seq(Clients)
      /\ UNCHANGED <<parent, slot, clientFd, child, requests, answers>>
  BY DEF TableInv, Clients, Server!ConnectServer, Server!ServerTypeOK
<1>1. Server!ServerTypeOK'
  BY <1>0 DEF Server!ServerTypeOK
<1>2. \A i \in DOMAIN backlog : backlog[i] # c /\ backlog[i] \in Clients
  BY <1>0 DEF TableInv, InBacklog
<1>3. /\ Len(backlog') = Len(backlog) + 1
      /\ \A i \in 1 .. Len(backlog) : backlog'[i] = backlog[i]
      /\ backlog'[Len(backlog) + 1] = c
      /\ DOMAIN backlog' = 1 .. Len(backlog) + 1
      /\ DOMAIN backlog = 1 .. Len(backlog)
  BY <1>0
<1>4. \A i, j \in DOMAIN backlog' : backlog'[i] = backlog'[j] => i = j
  BY <1>2, <1>3 DEF TableInv
<1>5. \A d \in Clients : InBacklog(d)' => d = c \/ InBacklog(d)
  BY <1>3 DEF InBacklog
<1>6. \A d \in Clients :
          /\ InBacklog(d)' => child'[d] = "none" /\ link'[d] # "new"
          /\ link'[d] = "new" => child'[d] = "none"
          /\ requests'[d] + answers'[d] <= MaxRequests
  BY <1>0, <1>5 DEF TableInv, Server!ServerTypeOK, Clients
<1> QED
  BY <1>0, <1>1, <1>4, <1>6 DEF TableInv

LEMMA TableInvAccept ==
    ASSUME TableInv, Server!Accept
    PROVE  TableInv'
<1> DEFINE h == Head(backlog)
<1>0. /\ Server!ServerTypeOK /\ backlog \in Seq(Clients) /\ backlog # <<>>
      /\ h \in Clients /\ h = backlog[1] /\ 1 \in DOMAIN backlog
      /\ slot \in Server!Slots /\ clientFd[slot] = Nobody /\ parent = "accept"
      /\ clientFd' = [clientFd EXCEPT ![slot] = h]
      /\ clientFd \in [Server!Slots -> Clients \cup {Nobody}]
      /\ child \in [Clients -> {"none", "serving", "exited", "unforked"}]
      /\ backlog' = Tail(backlog) /\ parent' = "seek"
      /\ UNCHANGED <<slot, link, requests, answers>>
  BY DEF TableInv, Clients, Server!Accept, Server!ServerTypeOK
<1>1. PICK forked \in {"serving", "unforked"} : child' = [child EXCEPT ![h] = forked]
  BY DEF Server!Accept
<1>2. h # Nobody /\ InBacklog(h) /\ child[h] = "none"
  BY <1>0, SlotFacts DEF TableInv, InBacklog
<1> HIDE DEF h
<1>3. /\ Len(backlog) \in Nat \ {0} /\ DOMAIN backlog = 1 .. Len(backlog)
      /\ DOMAIN backlog' = 1 .. Len(backlog) - 1 /\ backlog' \in Seq(Clients)
      /\ \A i \in 1 .. Len(backlog) - 1 : backlog'[i] = backlog[i + 1]
  BY <1>0
<1>4. Server!ServerTypeOK'
  BY <1>0, <1>1, <1>3 DEF Server!ServerTypeOK, Clients
<1>5. \A i, j \in DOMAIN backlog' : backlog'[i] = backlog'[j] => i = j
  BY <1>3 DEF TableInv
<1>6. \A d \in Clients : InBacklog(d)' => InBacklog(d) /\ d # h
  BY <1>0, <1>3 DEF TableInv, InBacklog
<1>7. \A d \in Clients :
          /\ InBacklog(d)' => child'[d] = "none" /\ link'[d] # "new"
          /\ link'[d] = "new" => child'[d] = "none"
          /\ requests'[d] + answers'[d] <= MaxRequests
  BY <1>0, <1>1, <1>2, <1>6 DEF TableInv
<1>8. /\ \A s \in Server!Slots : clientFd'[s] = IF s = slot THEN h ELSE clientFd[s]
      /\ \A d \in Clients : d # h => child'[d] = child[d]
      /\ child'[h] # "none"
  BY <1>0, <1>1
<1>9. ASSUME NEW d \in Clients
      PROVE  /\ child'[d] = "none" => \A s \in Server!Slots : clientFd'[s] # d
             /\ child'[d] # "none" =>
                   \E s \in Server!Slots :
                      clientFd'[s] = d /\ \A t \in Server!Slots : clientFd'[t] = d => t = s
  <2>1. CASE d = h
    <3>1. \A s \in Server!Slots : clientFd[s] # h
      BY <1>0, <1>2 DEF TableInv
    <3> QED
      BY <1>0, <1>8, <2>1, <3>1
  <2>2. CASE d # h
    <3>1. \A s \in Server!Slots : clientFd'[s] = d <=> clientFd[s] = d
      BY <1>0, <1>8, <2>2, SlotFacts
    <3>2. child'[d] = child[d]
      BY <1>8, <2>2
    <3> QED
      BY <1>0, <3>1, <3>2 DEF TableInv
  <2> QED
    BY <2>1, <2>2
<1> QED
  BY <1>0, <1>4, <1>5, <1>7, <1>9 DEF TableInv

LEMMA TableInvParent ==
    ASSUME TableInv, Server!AcceptFails \/ Server!SeekSlot
    PROVE  TableInv'
<1>1. CASE Server!AcceptFails
  <2>1. Server!ServerTypeOK'
    BY <1>1 DEF TableInv, Server!AcceptFails, Server!ServerTypeOK
  <2> QED
    BY <1>1, <2>1 DEF TableInv, InBacklog, Server!AcceptFails
<1>2. CASE Server!SeekSlot
  <2>0. /\ parent = "seek" /\ slot \in Server!Slots
        /\ UNCHANGED <<clientFd, backlog, link, child, requests, answers>>
    BY <1>2 DEF TableInv, Server!SeekSlot, Server!ServerTypeOK
  <2>1. CASE clientFd[slot] # Nobody
    <3>1. slot' \in Server!Slots /\ parent' = parent
      BY <1>2, <2>0, <2>1, SlotFacts DEF Server!SeekSlot
    <3>2. Server!ServerTypeOK'
      BY <2>0, <3>1 DEF TableInv, Server!ServerTypeOK
    <3> QED
      BY <2>0, <3>1, <3>2 DEF TableInv, InBacklog
  <2>2. CASE clientFd[slot] = Nobody
    <3>1. slot' = slot /\ parent' = "accept"
      BY <1>2, <2>2 DEF Server!SeekSlot
    <3>2. Server!ServerTypeOK'
      BY <2>0, <3>1 DEF TableInv, Server!ServerTypeOK
    <3> QED
      BY <2>0, <2>2, <3>1, <3>2 DEF TableInv, InBacklog
  <2> QED
    BY <2>1, <2>2
<1> QED
  BY <1>1, <1>2

LEMMA TableInvNext == TableInv /\ [Next]_vars => TableInv'
<1> SUFFICES ASSUME TableInv, [Next]_vars PROVE TableInv'
  OBVIOUS
<1>1. ASSUME UNCHANGED serverVars PROVE TableInv'
  BY <1>1 DEF serverVars, TableInv, InBacklog, Server!ServerTypeOK
<1>2. CASE UNCHANGED vars
  BY <1>1, <1>2 DEF vars
<1>3. CASE ParentStep
  BY <1>1, <1>3 DEF ParentStep
<1>4. CASE ServerStep
  <2>1. ASSUME NEW c \in Users \cup Browsers, Server!Answer(c) \/ Server!ClientExited(c)
        PROVE  TableInv'
    BY <2>1, TableInvClients DEF Clients
  <2> QED
    BY <1>4, <2>1, TableInvAccept, TableInvParent DEF ServerStep, Server!ServerNext
<1>5. ASSUME NEW b \in Browsers, BrowserStep(b) PROVE TableInv'
  BY <1>5, TableInvClients, TableInvConnect DEF BrowserStep, Clients
<1>6. ASSUME NEW u \in Users, UserStep(u) PROVE TableInv'
  BY <1>1, <1>6 DEF UserStep
<1>7. ASSUME NEW u \in Users, ChildStep(u) PROVE TableInv'
  <2>1. \/ UNCHANGED serverVars \/ Server!ConnectServer(u) \/ Server!SendRequest(u)
        \/ Server!Leave(u) \/ Server!ReadAnswer(u)
    BY <1>7 DEF ChildStep, AskOther, AskWebServer
  <2> QED
    BY <1>1, <2>1, TableInvClients, TableInvConnect DEF Clients
<1> QED
  BY <1>2, <1>3, <1>4, <1>5, <1>6, <1>7 DEF Next

\* The operator that WebServer.tla takes from FiniteSets is this one.
LEMMA SameCardinality == ASSUME NEW S PROVE Server!Cardinality(S) = Cardinality(S)
BY DEF Server!Cardinality, Cardinality

LEMMA TableMeaning == TableInv => SlotsNeverReused
<1> SUFFICES ASSUME TableInv, parent # "exited", NEW c \in Clients
             PROVE  child[c] # "none" <=>
                       Server!Cardinality({s \in Server!Slots : clientFd[s] = c}) = 1
  BY DEF SlotsNeverReused, Server!SlotsNeverReused, Clients
<1> DEFINE S == {s \in Server!Slots : clientFd[s] = c}
<1>1. CASE child[c] = "none"
  <2>1. S = {}
    BY <1>1 DEF TableInv
  <2>2. Cardinality(S) = 0
    BY <2>1, FS_EmptySet
  <2> QED
    BY <1>1, <2>2, SameCardinality
<1>2. CASE child[c] # "none"
  <2>1. \E s : S = {s}
    BY <1>2 DEF TableInv
  <2>2. Cardinality(S) = 1
    BY <2>1, FS_Singleton
  <2> QED
    BY <1>2, <2>2, SameCardinality
<1> QED
  BY <1>1, <1>2

\* Every client the server ever accepted has one slot of its table to itself,
\* for every size of the table and every number of clients: the table is
\* never cleared, and maxClients is a limit on the server's whole life.
THEOREM SlotsAreNeverReused == Spec => []SlotsNeverReused
<1>1. Init => TableInv
  BY TableInvInit DEF Init
<1> QED
  BY <1>1, TableMeaning, TableInvNext, PTL DEF Spec
=============================================================================
