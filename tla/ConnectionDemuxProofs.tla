------------------------ MODULE ConnectionDemuxProofs ------------------------
(***************************************************************************)
(* Theorems about ConnectionDemux: the table of requests, the queue of     *)
(* completed connections and new_socket, whatever the receive thread, the  *)
(* transport threads and the application do to each other.                 *)
(***************************************************************************)
EXTENDS ConnectionDemux, FiniteSetTheorems, TLAPS

-----------------------------------------------------------------------------
(* The invariant                                                             *)

\* The receive thread has a TCP connection in its hands.
Handling == listener \in {"read", "scan", "room", "find", "count", "create"}

\* A TCP connection is in one place: the kernel's queue, new_socket or one
\* mysocket; none was made by a client that has not connected.
Places ==
    /\ \A i, j \in DOMAIN tcpQueue : tcpQueue[i] = tcpQueue[j] => i = j
    /\ \A i \in DOMAIN tcpQueue :
          /\ tcpQueue[i] # newSocket /\ client[tcpQueue[i]] # "new"
          /\ \A sd \in Sds : peer[sd] # tcpQueue[i]
    /\ newSocket # Null => client[newSocket] # "new"
    /\ Handling => newSocket # Null
    /\ \A sd \in Sds : peer[sd] # Null => client[peer[sd]] # "new"
    /\ \A sd \in Sds : conn[sd] # "free" => peer[sd] # Null
    /\ OneOwner

\* myaccept() has taken a request out of completed_queue.
Taking == app \in {"clear", "free", "count", "return"}

Queued(sd) == conn[sd] \in {"handshake", "complete"}

\* A request in the table is that of a queued mysocket, which has no other; only
\* the mysocket that myaccept() is about to return may have none.  The slot
\* found for a new request stays free until it is filled.
Requests ==
    /\ \A s \in Slots : queue[s].sd \in Sds =>
          Queued(queue[s].sd) /\ queue[s].peer = peer[queue[s].sd]
    /\ \A s, t \in Slots : queue[s].sd \in Sds /\ queue[s].sd = queue[t].sd => s = t
    /\ \A sd \in Sds : Queued(sd) /\ sd # taken => \E s \in Slots : queue[s].sd = sd
    /\ listener \in {"count", "create"} => entry \in Slots /\ Free(entry)
    /\ app = "closing" => listener = "ended"

\* What myaccept() has taken.
Taken ==
    /\ Taking => taken \in Sds /\ conn[taken] = "complete" /\ slot \in Slots
    /\ app \in {"idle", "join", "closing", "closed"} => taken = Null
    /\ app = "clear" => queue[slot].sd = taken
    /\ app = "free" => queue[slot].sd = Cleared
    /\ app # "dead" => \A s \in Slots : queue[s].sd = Cleared => app = "free" /\ s = slot
    /\ fault = "none" => app # "dead"
    /\ app \in {"free", "count", "return"} => \A s \in Slots : queue[s].sd # taken

\* What is in completed_queue, which myclose() of the listener leaves behind.
Completed ==
    app \notin {"closing", "dead"} =>
        /\ \A i, j \in DOMAIN completed : completed[i] = completed[j] => i = j
        /\ \A i \in DOMAIN completed :
              /\ queue[completed[i]].sd \in Sds
              /\ conn[queue[completed[i]].sd] = "complete"
              /\ app = "clear" => completed[i] # slot

Count == IF Taking THEN 1 ELSE 0

\* What was established is what was accepted, then what is being taken, then
\* what is in completed_queue; a client is established once.
Order ==
    /\ \A i, j \in DOMAIN order : order[i] = order[j] => i = j
    /\ \A i \in DOMAIN order :
          /\ client[order[i]] # "new" /\ order[i] # newSocket
          /\ \A j \in DOMAIN tcpQueue : order[i] # tcpQueue[j]
          /\ \A sd \in Sds : conn[sd] = "handshake" => order[i] # peer[sd]
    /\ Len(got) <= Len(order)
    /\ \A i \in 1 .. Len(got) : got[i] = order[i]
    /\ app \notin {"closing", "closed", "dead"} =>
          /\ Len(order) = Len(got) + Count + Len(completed)
          /\ Taking => order[Len(got) + 1] = peer[taken]
          /\ \A i \in 1 .. Len(completed) :
                order[Len(got) + Count + i] = peer[queue[completed[i]].sd]

Inv == TypeOK /\ Places /\ Requests /\ Taken /\ Completed /\ Order

LEMMA Distinct ==
    /\ Null \notin Clients /\ Null \notin Sds /\ Cleared \notin Sds /\ Cleared # Null
    /\ MaxLen \in Nat \ {0} /\ CountMod \in Nat /\ CountMod > MaxLen + 1
    /\ 0 \in 0 .. MaxLen /\ 0 \in 0 .. CountMod - 1
BY DemuxAssumption

LEMMA CountIsUnsigned == \A n \in Int : n % CountMod \in 0 .. CountMod - 1
BY Distinct

LEMMA InvInit == Init => Inv
<1> SUFFICES ASSUME Init PROVE Inv
  OBVIOUS
<1>1. TypeOK
  BY Distinct DEF Init, TypeOK, Slots, Request
<1>2. Places
  BY Distinct DEF Init, Places, OneOwner, Handling
<1>3. Requests /\ Taken /\ Completed
  BY Distinct DEF Init, Requests, Taken, Completed, Taking, Queued, Slots, Request
<1>4. Order
  BY DEF Init, Order, Taking, Count
<1> QED
  BY <1>1, <1>2, <1>3, <1>4 DEF Inv

-----------------------------------------------------------------------------
(* Steps that leave the tables alone                                         *)

\* The receive thread moves, a client does, or the application from one place
\* to another where as much is taken.
LEMMA InvQuiet ==
    ASSUME Inv, TypeOK',
           UNCHANGED <<tcpQueue, newSocket, queue, completed, conn, peer, slot, taken,
                       order, got>>,
           \A c \in Clients : client'[c] = "new" => client[c] = "new",
           Handling' => Handling,
           listener' \in {"count", "create"} =>
              \/ listener \in {"count", "create"} /\ entry' = entry
              \/ entry' \in Slots /\ Free(entry'),
           app' = "closing" => listener' = listener \/ listener' = "ended",
           \/ app' = app /\ fault' = fault
           \/ app = "count" /\ app' = "return" /\ fault' = fault
           \/ app = "idle" /\ app' = "join" /\ fault' = fault
           \/ app' = "dead" /\ fault' # "none"
    PROVE  Inv'
<1>1. Places'
  <2>1. \A i \in DOMAIN tcpQueue : tcpQueue[i] \in Clients
    BY DEF Inv, TypeOK
  <2> QED
    BY <2>1 DEF Inv, TypeOK, Places, OneOwner
<1>2. Requests'
  BY DEF Inv, Requests, Queued, Free
<1>3. Taken'
  BY DEF Inv, Taken, Taking
<1>4. Completed'
  BY DEF Inv, Completed
<1>5. Order'
  <2>1. \A i \in DOMAIN order : order[i] \in Clients
    BY DEF Inv, TypeOK
  <2>2. app' # "dead" => Taking' = Taking /\ Count' = Count
    BY DEF Taking, Count
  <2> QED
    BY <2>1, <2>2 DEF Inv, Order
<1> QED
  BY <1>1, <1>2, <1>3, <1>4, <1>5 DEF Inv

LEMMA InvClients ==
    ASSUME Inv, NEW c \in Clients, SendSyn(c) \/ Leave(c)
    PROVE  Inv'
<1>1. TypeOK'
  BY DEF Inv, TypeOK, SendSyn, Leave, listenVars, connVars, appVars, historyVars
<1>2. \A d \in Clients : client'[d] = "new" => client[d] = "new"
  BY DEF Inv, TypeOK, SendSyn, Leave
<1> QED
  BY <1>1, <1>2, InvQuiet
  DEF SendSyn, Leave, listenVars, connVars, appVars, historyVars, Handling

LEMMA InvListenerMoves ==
    ASSUME Inv, \/ PollExit \/ ReadSyn \/ ScanRequests \/ CheckRoom \/ FindSlot
                \/ CountRequest
    PROVE  Inv'
<1>1. TypeOK'
  <2>1. CASE PollExit \/ ReadSyn \/ CheckRoom
    BY <2>1 DEF Inv, TypeOK, PollExit, ReadSyn, CheckRoom, connVars, appVars, historyVars
  <2>2. CASE ScanRequests
    BY <2>2 DEF Inv, TypeOK, ScanRequests, Abort, connVars, historyVars
  <2>3. CASE FindSlot
    BY <2>3 DEF Inv, TypeOK, FindSlot, Abort, connVars, historyVars, Slots
  <2>4. CASE CountRequest
    <3>1. curLen' \in 0 .. CountMod - 1
      BY <2>4, CountIsUnsigned DEF Inv, TypeOK, CountRequest
    <3> QED
      BY <2>4, <3>1 DEF Inv, TypeOK, CountRequest, connVars, appVars, historyVars
  <2> QED
    BY <2>1, <2>2, <2>3, <2>4
<1>2. UNCHANGED <<tcpQueue, newSocket, queue, completed, conn, peer, slot, taken,
                  order, got, client>>
  BY DEF PollExit, ReadSyn, ScanRequests, CheckRoom, FindSlot, CountRequest,
         connVars, appVars, historyVars
<1>3. /\ Handling' => Handling
      /\ listener # "ended"
      /\ listener' \in {"count", "create"} =>
            \/ listener \in {"count", "create"} /\ entry' = entry
            \/ entry' \in Slots /\ Free(entry')
  BY DEF PollExit, ReadSyn, ScanRequests, CheckRoom, FindSlot, CountRequest, Handling,
         Abort
<1>4. \/ app' = app /\ fault' = fault
      \/ app' = "dead" /\ fault' # "none"
  BY DEF PollExit, ReadSyn, ScanRequests, CheckRoom, FindSlot, CountRequest, Abort,
         appVars
<1> QED
  BY <1>1, <1>2, <1>3, <1>4, InvQuiet DEF Inv, Requests

LEMMA InvAppMoves ==
    ASSUME Inv, ReadCount \/ CloseListener
    PROVE  Inv'
<1>1. TypeOK'
  BY DEF Inv, TypeOK, ReadCount, CloseListener, Abort, listenVars, connVars, historyVars
<1>2. UNCHANGED <<tcpQueue, newSocket, queue, completed, conn, peer, slot, taken,
                  order, got, client, entry>>
  BY DEF ReadCount, CloseListener, listenVars, connVars, historyVars
<1>3. /\ Handling' => Handling
      /\ listener' \in {"count", "create"} => listener \in {"count", "create"}
      /\ listener' = listener \/ listener' = "dead"
  BY DEF ReadCount, CloseListener, Handling, Abort, listenVars
<1>4. \/ app = "count" /\ app' = "return" /\ fault' = fault /\ listener' = listener
      \/ app = "idle" /\ app' = "join" /\ fault' = fault /\ listener' = listener
      \/ app' = "dead" /\ fault' # "none"
  BY DEF ReadCount, CloseListener, Abort, listenVars
<1> QED
  BY <1>1, <1>2, <1>3, <1>4, InvQuiet

-----------------------------------------------------------------------------
(* Steps that move a TCP connection                                          *)

\* Facts about sequences that the provers need in front of them.
LEMMA TailFacts ==
    ASSUME NEW S, NEW q \in Seq(S), q # <<>>
    PROVE  /\ Len(q) \in Nat \ {0} /\ DOMAIN q = 1 .. Len(q)
           /\ Head(q) = q[1] /\ Head(q) \in S /\ Tail(q) \in Seq(S)
           /\ Len(Tail(q)) = Len(q) - 1 /\ DOMAIN Tail(q) = 1 .. Len(q) - 1
           /\ \A i \in 1 .. Len(q) - 1 : Tail(q)[i] = q[i + 1]
OBVIOUS

LEMMA AppendFacts ==
    ASSUME NEW S, NEW q \in Seq(S), NEW e \in S
    PROVE  /\ Append(q, e) \in Seq(S) /\ Len(q) \in Nat /\ DOMAIN q = 1 .. Len(q)
           /\ Len(Append(q, e)) = Len(q) + 1 /\ DOMAIN Append(q, e) = 1 .. Len(q) + 1
           /\ \A i \in 1 .. Len(q) : Append(q, e)[i] = q[i]
           /\ Append(q, e)[Len(q) + 1] = e
OBVIOUS

LEMMA InvConnect ==
    ASSUME Inv, NEW c \in Clients, Connect(c)
    PROVE  Inv'
<1>0. /\ client[c] = "new" /\ client' = [client EXCEPT ![c] = "connected"]
      /\ tcpQueue' = Append(tcpQueue, c)
      /\ UNCHANGED <<newSocket, listener, entry, seen, queue, completed, curLen, conn,
                     peer, app, slot, taken, counted, fault, order, got>>
  BY DEF Connect, listenVars, connVars, appVars, historyVars
<1>1. /\ tcpQueue' \in Seq(Clients) /\ Len(tcpQueue) \in Nat
      /\ DOMAIN tcpQueue = 1 .. Len(tcpQueue) /\ DOMAIN tcpQueue' = 1 .. Len(tcpQueue) + 1
      /\ \A i \in 1 .. Len(tcpQueue) : tcpQueue'[i] = tcpQueue[i]
      /\ tcpQueue'[Len(tcpQueue) + 1] = c
  BY <1>0, AppendFacts DEF Inv, TypeOK
<1>2. TypeOK'
  BY <1>0, <1>1 DEF Inv, TypeOK
<1>3. \A d \in Clients : client'[d] = "new" => client[d] = "new" /\ d # c
  BY <1>0 DEF Inv, TypeOK
<1>4. client'[c] # "new"
  BY <1>0 DEF Inv, TypeOK
<1>5. Places'
  <2>1. \A i \in DOMAIN tcpQueue : tcpQueue[i] \in Clients /\ tcpQueue[i] # c
    BY <1>0 DEF Inv, TypeOK, Places
  <2>2. newSocket # c /\ \A sd \in Sds : peer[sd] # c
    BY <1>0, Distinct DEF Inv, TypeOK, Places
  <2>3. \A i, j \in DOMAIN tcpQueue' : tcpQueue'[i] = tcpQueue'[j] => i = j
    BY <1>1, <2>1 DEF Inv, Places
  <2>4. \A i \in DOMAIN tcpQueue' :
          /\ tcpQueue'[i] # newSocket' /\ client'[tcpQueue'[i]] # "new"
          /\ \A sd \in Sds : peer'[sd] # tcpQueue'[i]
    BY <1>0, <1>1, <1>3, <1>4, <2>1, <2>2 DEF Inv, Places
  <2> QED
    BY <1>0, <1>3, <2>3, <2>4 DEF Inv, TypeOK, Places, OneOwner, Handling
<1>6. (Requests /\ Taken /\ Completed)'
  BY <1>0 DEF Inv, Requests, Taken, Completed, Taking, Queued, Free
<1>7. Order'
  <2>1. \A i \in DOMAIN order : order[i] \in Clients /\ order[i] # c
    BY <1>0 DEF Inv, TypeOK, Order
  <2> QED
    BY <1>0, <1>1, <1>3, <2>1 DEF Inv, Order, Count, Taking
<1> QED
  BY <1>2, <1>5, <1>6, <1>7 DEF Inv

LEMMA InvAccept ==
    ASSUME Inv, Accept
    PROVE  Inv'
<1>0. /\ tcpQueue \in Seq(Clients) /\ tcpQueue # <<>> /\ tcpQueue' = Tail(tcpQueue)
      /\ ~Handling
      /\ app \notin {"join", "closing", "closed"}
      /\ UNCHANGED <<client, entry, seen, queue, completed, curLen, conn, peer, slot,
                     taken, counted, order, got>>
  BY DEF Accept, Inv, TypeOK, connVars, historyVars, ExitRequested, Handling
<1>1. /\ Len(tcpQueue) \in Nat \ {0} /\ DOMAIN tcpQueue = 1 .. Len(tcpQueue)
      /\ Head(tcpQueue) = tcpQueue[1] /\ Head(tcpQueue) \in Clients
      /\ tcpQueue' \in Seq(Clients)
      /\ DOMAIN tcpQueue' = 1 .. Len(tcpQueue) - 1
      /\ \A i \in 1 .. Len(tcpQueue) - 1 : tcpQueue'[i] = tcpQueue[i + 1]
  BY <1>0, TailFacts
<1>2. \/ /\ newSocket' = newSocket /\ listener' = "dead" /\ app' = "dead"
         /\ fault' = "new_socket"
      \/ /\ newSocket = Null /\ newSocket' = Head(tcpQueue) /\ listener' = "read"
         /\ UNCHANGED <<app, fault>>
  BY DEF Accept, Abort
<1>3. TypeOK'
  BY <1>0, <1>1, <1>2 DEF Inv, TypeOK
<1>4. \A i \in DOMAIN tcpQueue' :
         /\ i + 1 \in DOMAIN tcpQueue /\ tcpQueue'[i] = tcpQueue[i + 1]
         /\ tcpQueue'[i] # tcpQueue[1]
  BY <1>1 DEF Inv, Places
<1>5. Places'
  <2>1. \A i, j \in DOMAIN tcpQueue' : tcpQueue'[i] = tcpQueue'[j] => i = j
    BY <1>1 DEF Inv, Places
  <2>2. \A i \in DOMAIN tcpQueue' :
          /\ tcpQueue'[i] # newSocket' /\ client'[tcpQueue'[i]] # "new"
          /\ \A sd \in Sds : peer'[sd] # tcpQueue'[i]
    BY <1>0, <1>1, <1>2, <1>4 DEF Inv, Places
  <2>3. newSocket' # Null => /\ client'[newSocket'] # "new"
                             /\ \A sd \in Sds : peer'[sd] # newSocket'
    BY <1>0, <1>1, <1>2 DEF Inv, Places, OneOwner
  <2>4. Handling' => newSocket' # Null
    BY <1>1, <1>2, Distinct DEF Handling
  <2> QED
    BY <1>0, <2>1, <2>2, <2>3, <2>4 DEF Inv, Places, OneOwner
<1>6. (Requests /\ Taken /\ Completed)'
  BY <1>0, <1>2 DEF Inv, Requests, Taken, Completed, Taking, Queued, Free
<1>7. Order'
  <2>1. \A i \in DOMAIN order : order[i] # newSocket'
    BY <1>1, <1>2 DEF Inv, Order
  <2>2. app' # "dead" => Taking' = Taking /\ Count' = Count /\ app' = app
    BY <1>2 DEF Taking, Count
  <2> QED
    BY <1>0, <1>1, <1>4, <2>1, <2>2 DEF Inv, Order
<1> QED
  BY <1>3, <1>5, <1>6, <1>7 DEF Inv

LEMMA InvNewConnection ==
    ASSUME Inv, NewConnection
    PROVE  Inv'
<1>0. /\ listener = "create" /\ listener' = "poll" /\ entry' = 0 /\ seen' = 0
      /\ newSocket \in Clients /\ entry \in Slots /\ Free(entry)
      /\ UNCHANGED <<client, tcpQueue, completed, app, slot, taken, counted, fault,
                     order, got>>
  BY DEF NewConnection, Inv, TypeOK, Requests, Places, Handling, appVars, historyVars
<1>1. CASE /\ curLen' = OneLess(curLen) /\ UNCHANGED <<queue, conn, peer, newSocket>>
  <2>1. curLen' \in 0 .. CountMod - 1
    BY <1>1, CountIsUnsigned DEF Inv, TypeOK, OneLess
  <2>2. TypeOK'
    BY <1>0, <1>1, <2>1, Distinct DEF Inv, TypeOK
  <2> QED
    BY <1>0, <1>1, <2>2, InvQuiet DEF Handling, Inv, Requests
<1>2. ASSUME NEW sd \in Sds,
             conn[sd] = "free",
             conn' = [conn EXCEPT ![sd] = "handshake"],
             peer' = [peer EXCEPT ![sd] = newSocket],
             queue' = [queue EXCEPT ![entry] = Request(sd, newSocket)],
             newSocket' = Null, UNCHANGED curLen
      PROVE  Inv'
  <2>0. /\ conn \in [Sds -> {"free", "handshake", "complete", "accepted"}]
        /\ peer \in [Sds -> Clients \cup {Null}]
        /\ queue \in [Slots -> [sd : Sds \cup {Null, Cleared}, peer : Clients \cup {Null}]]
    BY DEF Inv, TypeOK
  <2>1. /\ \A d \in Sds : d # sd => conn'[d] = conn[d] /\ peer'[d] = peer[d]
        /\ conn'[sd] = "handshake" /\ peer'[sd] = newSocket
        /\ \A s \in Slots : s # entry => queue'[s] = queue[s]
        /\ queue'[entry].sd = sd /\ queue'[entry].peer = newSocket
        /\ queue[entry].sd = Null
    BY <1>0, <1>2, <2>0 DEF Request, Free
  <2>2. TypeOK'
    BY <1>0, <1>2, Distinct DEF Inv, TypeOK, Request
  <2>3. Places'
    <3>1. \A d \in Sds : peer'[d] # Null => d = sd \/ (peer'[d] = peer[d] /\ peer[d] # newSocket)
      BY <2>1 DEF Inv, Places, OneOwner
    <3>2. \A i \in DOMAIN tcpQueue : tcpQueue[i] \in Clients
      BY DEF Inv, TypeOK
    <3>3. \A i \in DOMAIN tcpQueue' :
            /\ tcpQueue'[i] # newSocket' /\ client'[tcpQueue'[i]] # "new"
            /\ \A d \in Sds : peer'[d] # tcpQueue'[i]
      BY <1>0, <1>2, <2>1, <3>2, Distinct DEF Inv, Places
    <3>4. \A d \in Sds : /\ peer'[d] # Null => client'[peer'[d]] # "new"
                         /\ conn'[d] # "free" => peer'[d] # Null
      BY <1>0, <2>1, Distinct DEF Inv, Places
    <3>5. OneOwner'
      BY <1>2, <2>1, <3>1 DEF Inv, Places, OneOwner
    <3> QED
      BY <1>0, <1>2, <3>3, <3>4, <3>5 DEF Inv, Places, Handling
  <2>4. \A s \in Slots : queue[s].sd # sd
    BY <1>2 DEF Inv, Requests, Queued
  <2>5. taken # sd \/ ~Taking
    BY <1>2 DEF Inv, Taken
  <2>6. Requests'
    <3>1. \A s \in Slots : queue'[s].sd \in Sds =>
            /\ conn'[queue'[s].sd] \in {"handshake", "complete"}
            /\ queue'[s].peer = peer'[queue'[s].sd]
      BY <2>1, <2>4 DEF Inv, Requests, Queued
    <3>2. \A s, t \in Slots : queue'[s].sd \in Sds /\ queue'[s].sd = queue'[t].sd => s = t
      BY <2>1, <2>4 DEF Inv, Requests
    <3>3. \A d \in Sds : Queued(d)' /\ d # taken' => \E s \in Slots : queue'[s].sd = d
      <4>1. ASSUME NEW d \in Sds, d # sd, Queued(d)', d # taken'
            PROVE  \E s \in Slots : queue'[s].sd = d
        <5>1. PICK s \in Slots : queue[s].sd = d
          BY <1>0, <2>1, <4>1 DEF Inv, Requests, Queued
        <5>2. s # entry
          BY <2>1, <5>1, Distinct
        <5> QED
          BY <2>1, <5>1, <5>2
      <4> QED
        BY <1>0, <2>1, <4>1
    <3> QED
      BY <1>0, <3>1, <3>2, <3>3 DEF Inv, Requests, Queued
  <2>7. Taken'
    <3>1. Taking => conn'[taken] = "complete"
      BY <2>1, <2>5 DEF Inv, Taken
    <3>2. app \in {"clear", "free"} => slot # entry
      BY <2>1, Distinct DEF Inv, Taken, Taking
    <3>3. \A s \in Slots : queue'[s].sd = Cleared => queue[s].sd = Cleared
      BY <2>1, Distinct
    <3>4. app \in {"free", "count", "return"} => \A s \in Slots : queue'[s].sd # taken
      BY <2>1, <2>5 DEF Inv, Taken, Taking
    <3> QED
      BY <1>0, <2>1, <3>1, <3>2, <3>3, <3>4 DEF Inv, Taken, Taking
  <2>8. app \notin {"closing", "dead"} =>
          \A i \in DOMAIN completed :
             /\ completed[i] \in Slots /\ completed[i] # entry
             /\ queue[completed[i]].sd \in Sds /\ queue[completed[i]].sd # sd
    BY <1>2, <2>1, Distinct DEF Inv, TypeOK, Completed
  <2>9. Completed'
    BY <1>0, <2>1, <2>8 DEF Inv, Completed
  <2>10. Order'
    <3>1. \A i \in DOMAIN order : order[i] \in Clients
      BY DEF Inv, TypeOK
    <3>2. \A i \in DOMAIN order : order[i] # newSocket' /\ order[i] # newSocket
      BY <1>2, <3>1, Distinct DEF Inv, Order
    <3>5. \A i \in DOMAIN order, d \in Sds : conn'[d] = "handshake" => order[i] # peer'[d]
      BY <2>1, <3>2 DEF Inv, Order
    <3>3. Taking => taken # sd /\ taken \in Sds
      BY <2>5 DEF Inv, Taken
    <3>4. app \notin {"closing", "dead"} =>
            \A i \in 1 .. Len(completed) :
               peer'[queue'[completed[i]].sd] = peer[queue[completed[i]].sd]
      <4>1. DOMAIN completed = 1 .. Len(completed)
        BY DEF Inv, TypeOK
      <4> QED
        BY <2>1, <2>8, <4>1
    <3> QED
      BY <1>0, <2>1, <3>2, <3>3, <3>4, <3>5 DEF Inv, Order, Count, Taking
  <2> QED
    BY <2>2, <2>3, <2>6, <2>7, <2>9, <2>10 DEF Inv
<1> QED
  BY <1>1, <1>2 DEF NewConnection, connVars, PassedOn

-----------------------------------------------------------------------------
(* A handshake ends                                                          *)

LEMMA InvComplete ==
    ASSUME Inv, NEW sd \in Sds, Complete(sd)
    PROVE  Inv'
<1> DEFINE found == CHOOSE s \in Slots : queue[s].sd = sd
<1>0. /\ fault = "none" /\ app # "closing" /\ app # "dead"
      /\ conn[sd] = "handshake" /\ conn' = [conn EXCEPT ![sd] = "complete"]
      /\ completed' = Append(completed, found)
      /\ order' = Append(order, peer[sd])
      /\ client[peer[sd]] = "syn"
      /\ UNCHANGED <<client, tcpQueue, newSocket, listener, entry, seen, queue, curLen,
                     peer, app, slot, taken, counted, fault, got>>
  BY DEF Complete, Writing, PutLast, listenVars, appVars, Inv, Taken
<1>1. taken # sd
  BY <1>0, Distinct DEF Inv, TypeOK, Taken, Taking
<1>2. \E s \in Slots : queue[s].sd = sd
  BY <1>0, <1>1 DEF Inv, Requests, Queued
<1>3. found \in Slots /\ queue[found].sd = sd
  BY <1>2
<1> HIDE DEF found
<1>4. /\ peer[sd] \in Clients
      /\ \A d \in Sds : d # sd => conn'[d] = conn[d] /\ peer[d] # peer[sd]
      /\ conn'[sd] = "complete"
  BY <1>0, Distinct DEF Inv, TypeOK, Places, OneOwner
<1>5. /\ completed' \in Seq(Slots) /\ Len(completed) \in Nat
      /\ DOMAIN completed = 1 .. Len(completed)
      /\ DOMAIN completed' = 1 .. Len(completed) + 1 /\ Len(completed') = Len(completed) + 1
      /\ \A i \in 1 .. Len(completed) : completed'[i] = completed[i]
      /\ completed'[Len(completed) + 1] = found
  BY <1>0, <1>3, AppendFacts DEF Inv, TypeOK
<1>6. /\ order' \in Seq(Clients) /\ Len(order) \in Nat
      /\ DOMAIN order = 1 .. Len(order)
      /\ DOMAIN order' = 1 .. Len(order) + 1 /\ Len(order') = Len(order) + 1
      /\ \A i \in 1 .. Len(order) : order'[i] = order[i]
      /\ order'[Len(order) + 1] = peer[sd]
  BY <1>0, <1>4, AppendFacts DEF Inv, TypeOK
<1>7. TypeOK'
  BY <1>0, <1>5, <1>6 DEF Inv, TypeOK
<1>8. Places'
  BY <1>0, <1>4 DEF Inv, TypeOK, Places, OneOwner, Handling
<1>9. Requests'
  <2>1. \A d \in Sds : Queued(d)' <=> Queued(d)
    BY <1>0, <1>4 DEF Queued
  <2> QED
    BY <1>0, <2>1 DEF Inv, Requests, Free
<1>10. Taken'
  BY <1>0, <1>1, <1>4 DEF Inv, Taken, Taking
<1>11. \A i \in DOMAIN completed : completed[i] # found /\ queue[completed[i]].sd # sd
  BY <1>0, <1>3 DEF Inv, Completed
<1>12. Completed'
  <2>1. app = "clear" => found # slot
    BY <1>1, <1>3 DEF Inv, Taken
  <2>2. \A i, j \in DOMAIN completed' : completed'[i] = completed'[j] => i = j
    BY <1>0, <1>5, <1>11 DEF Inv, Completed
  <2>3. \A i \in DOMAIN completed' :
           /\ queue[completed'[i]].sd \in Sds
           /\ conn'[queue[completed'[i]].sd] = "complete"
           /\ app = "clear" => completed'[i] # slot
    BY <1>0, <1>3, <1>4, <1>5, <1>11, <2>1 DEF Inv, Completed
  <2> QED
    BY <1>0, <2>2, <2>3 DEF Completed
<1>13. Order'
  <2>1. \A i \in DOMAIN order : order[i] # peer[sd]
    BY <1>0 DEF Inv, Order
  <2>2. \A i, j \in DOMAIN order' : order'[i] = order'[j] => i = j
    BY <1>6, <2>1 DEF Inv, Order
  <2>3. /\ client[peer[sd]] # "new" /\ peer[sd] # newSocket
        /\ \A j \in DOMAIN tcpQueue : peer[sd] # tcpQueue[j]
    BY <1>0, <1>4, Distinct DEF Inv, Places, OneOwner
  <2>4. \A i \in DOMAIN order' :
          /\ client'[order'[i]] # "new" /\ order'[i] # newSocket'
          /\ \A j \in DOMAIN tcpQueue' : order'[i] # tcpQueue'[j]
    BY <1>0, <1>6, <2>3 DEF Inv, Order
  <2>5. \A i \in DOMAIN order', d \in Sds : conn'[d] = "handshake" => order'[i] # peer'[d]
    BY <1>0, <1>4, <1>6 DEF Inv, Order
  <2>6. Len(got) \in Nat /\ Len(got') <= Len(order')
        /\ \A i \in 1 .. Len(got') : got'[i] = order'[i]
    BY <1>0, <1>6 DEF Inv, TypeOK, Order
  <2>7. app \notin {"closing", "closed", "dead"} =>
          /\ Len(order') = Len(got) + Count + Len(completed')
          /\ Taking => order'[Len(got) + 1] = peer[taken]
          /\ \A i \in 1 .. Len(completed') :
                order'[Len(got) + Count + i] = peer[queue[completed'[i]].sd]
    <3> SUFFICES ASSUME app \notin {"closing", "closed", "dead"}
                 PROVE  /\ Len(order') = Len(got) + Count + Len(completed')
                        /\ Taking => order'[Len(got) + 1] = peer[taken]
                        /\ \A i \in 1 .. Len(completed') :
                              order'[Len(got) + Count + i] = peer[queue[completed'[i]].sd]
      OBVIOUS
    <3>1. /\ Len(order) = Len(got) + Count + Len(completed) /\ Count \in {0, 1}
          /\ Taking => order[Len(got) + 1] = peer[taken] /\ Count = 1
          /\ \A i \in 1 .. Len(completed) :
                order[Len(got) + Count + i] = peer[queue[completed[i]].sd]
      BY DEF Inv, Order, Count
    <3>2. Taking => order'[Len(got) + 1] = peer[taken]
      BY <1>5, <1>6, <2>6, <3>1
    <3>3. \A i \in 1 .. Len(completed) :
             order'[Len(got) + Count + i] = peer[queue[completed'[i]].sd]
      BY <1>5, <1>6, <2>6, <3>1
    <3>4. order'[Len(got) + Count + Len(completed')]
             = peer[queue[completed'[Len(completed')]].sd]
      BY <1>3, <1>5, <1>6, <2>6, <3>1
    <3>5. \A i \in 1 .. Len(completed') : i \in 1 .. Len(completed) \/ i = Len(completed')
      BY <1>5
    <3>6. Len(order') = Len(got) + Count + Len(completed')
      <4>1. Len(order) \in Nat /\ Len(order') = Len(order) + 1
        BY <1>6
      <4>2. Len(completed) \in Nat /\ Len(completed') = Len(completed) + 1
        BY <1>5
      <4>3. /\ Len(order) = Len(got) + Count + Len(completed)
            /\ Count \in {0, 1} /\ Len(got) \in Nat
        BY <2>6, <3>1
      <4> QED
        BY <4>1, <4>2, <4>3
    <3> QED
      BY <3>2, <3>3, <3>4, <3>5, <3>6
  <2>8. Taking' = Taking /\ Count' = Count
    BY <1>0 DEF Taking, Count
  <2> QED
    BY <1>0, <2>2, <2>4, <2>5, <2>6, <2>7, <2>8 DEF Order
<1> QED
  BY <1>7, <1>8, <1>9, <1>10, <1>12, <1>13 DEF Inv

-----------------------------------------------------------------------------
(* myaccept()                                                                *)

\* The steps of myaccept() leave the receive thread and the clients alone.
LEMMA PlacesKept ==
    ASSUME Inv, UNCHANGED <<client, tcpQueue, newSocket, listener>>,
           \A sd \in Sds : \/ peer'[sd] = peer[sd] /\ (conn'[sd] # "free" => conn[sd] # "free")
                           \/ peer'[sd] = Null /\ conn'[sd] = "free"
    PROVE  Places'
<1>1. OneOwner'
  BY DEF Inv, Places, OneOwner
<1>2. \A i \in DOMAIN tcpQueue : tcpQueue[i] \in Clients
  BY DEF Inv, TypeOK
<1> QED
  BY <1>1, <1>2, Distinct DEF Inv, Places, Handling

LEMMA InvDequeue ==
    ASSUME Inv, DequeueConnection
    PROVE  Inv'
<1>0. /\ app = "idle" /\ completed # <<>> /\ completed \in Seq(Slots)
      /\ slot' = Head(completed) /\ taken' = queue[Head(completed)].sd
      /\ completed' = Tail(completed) /\ app' = "clear"
      /\ UNCHANGED <<client, tcpQueue, newSocket, listener, entry, seen, queue, curLen,
                     conn, peer, counted, fault, order, got>>
  BY DEF DequeueConnection, listenVars, connVars, historyVars, Inv, TypeOK
<1>1. /\ Len(completed) \in Nat \ {0} /\ DOMAIN completed = 1 .. Len(completed)
      /\ Head(completed) = completed[1] /\ Head(completed) \in Slots
      /\ completed' \in Seq(Slots) /\ Len(completed') = Len(completed) - 1
      /\ DOMAIN completed' = 1 .. Len(completed) - 1
      /\ \A i \in 1 .. Len(completed) - 1 : completed'[i] = completed[i + 1]
  BY <1>0, TailFacts
<1>2. /\ slot' \in Slots /\ taken' \in Sds /\ queue[slot'].sd = taken'
      /\ conn[taken'] = "complete"
  BY <1>0, <1>1 DEF Inv, Completed
<1>3. taken = Null
  BY <1>0 DEF Inv, Taken
<1>4. TypeOK'
  <2>1. slot' \in 0 .. MaxLen + 1
    BY <1>2, Distinct DEF Slots
  <2> QED
    BY <1>0, <1>1, <1>2, <2>1 DEF Inv, TypeOK
<1>5. Places'
  BY <1>0, PlacesKept
<1>6. Requests'
  BY <1>0, <1>3, Distinct DEF Inv, Requests, Queued, Free
<1>7. Taken'
  BY <1>0, <1>2 DEF Inv, Taken, Taking
<1>8. Completed'
  <2>1. \A i \in DOMAIN completed' :
          /\ i + 1 \in DOMAIN completed /\ completed'[i] = completed[i + 1]
          /\ completed'[i] # slot'
    BY <1>0, <1>1 DEF Inv, Completed
  <2> QED
    BY <1>0, <1>1, <2>1 DEF Inv, Completed
<1>9. Order'
  <2>1. /\ Count = 0 /\ Count' = 1 /\ Len(got) \in Nat
    BY <1>0 DEF Count, Taking, Inv, TypeOK
  <2>2. /\ Len(order) = Len(got) + Len(completed)
        /\ \A i \in 1 .. Len(completed) : order[Len(got) + i] = peer[queue[completed[i]].sd]
    BY <1>0, <2>1 DEF Inv, Order
  <2>3. order[Len(got) + 1] = peer[taken']
    BY <1>0, <1>1, <2>2
  <2>4. \A i \in 1 .. Len(completed') :
           order[Len(got) + 1 + i] = peer[queue[completed'[i]].sd]
    BY <1>1, <2>1, <2>2
  <2> QED
    BY <1>0, <1>1, <2>1, <2>2, <2>3, <2>4 DEF Inv, Order
<1> QED
  BY <1>4, <1>5, <1>6, <1>7, <1>8, <1>9 DEF Inv

\* memset() and the assignment of the sd: the request that is freed is neither
\* in completed_queue nor the slot found for a new one.
LEMMA InvFreeRequest ==
    ASSUME Inv, ClearRequest \/ FreeRequest
    PROVE  Inv'
<1>0. /\ app \in {"clear", "free"} /\ slot \in Slots /\ taken \in Sds
      /\ UNCHANGED <<client, tcpQueue, newSocket, listener, entry, seen, completed,
                     curLen, conn, peer, slot, taken, counted, fault, order, got>>
  BY DEF ClearRequest, FreeRequest, listenVars, connVars, historyVars, Inv, Taken, Taking
<1>1. /\ \A s \in Slots : s # slot => queue'[s] = queue[s]
      /\ queue'[slot].sd \notin Sds
      /\ queue' \in [Slots -> [sd : Sds \cup {Null, Cleared}, peer : Clients \cup {Null}]]
  BY <1>0, Distinct DEF ClearRequest, FreeRequest, Inv, TypeOK, Request
<1>2. app' \in {"free", "count"}
  BY DEF ClearRequest, FreeRequest
<1>3. TypeOK'
  BY <1>0, <1>1, <1>2 DEF Inv, TypeOK
<1>4. Places'
  BY <1>0, PlacesKept
<1>5. queue[slot].sd # Null
  BY <1>0, Distinct DEF ClearRequest, FreeRequest, Inv, Taken
<1>6. Requests'
  <2>1. \A sd \in Sds : sd # taken => queue[slot].sd # sd
    BY <1>0, Distinct DEF Inv, Taken
  <2>2. listener \in {"count", "create"} => entry \in Slots /\ queue'[entry].sd = Null
    BY <1>0, <1>1, <1>5 DEF Inv, Requests, Free
  <2>3. \A s, t \in Slots : queue'[s].sd \in Sds /\ queue'[s].sd = queue'[t].sd => s = t
    BY <1>0, <1>1 DEF Inv, Requests
  <2>4. \A sd \in Sds : Queued(sd) /\ sd # taken => \E s \in Slots : queue'[s].sd = sd
    BY <1>0, <1>1, <2>1 DEF Inv, Requests
  <2> QED
    BY <1>0, <1>1, <1>2, <2>2, <2>3, <2>4 DEF Inv, Requests, Queued, Free
<1>7. Taken'
  <2>1. \A s \in Slots : queue'[s].sd # taken
    <3>1. CASE app = "clear"
      BY <1>0, <1>1, <3>1 DEF Inv, Taken, Requests
    <3>2. CASE app = "free"
      BY <1>0, <1>1, <3>2 DEF Inv, Taken
    <3> QED
      BY <1>0, <3>1, <3>2
  <2>2. CASE ClearRequest
    BY <1>0, <1>1, <2>1, <2>2 DEF Inv, Taken, Taking, ClearRequest, TypeOK, Request
  <2>3. CASE FreeRequest
    <3>1. queue'[slot].sd = Null /\ app = "free" /\ app' = "count"
      BY <1>0, <2>3 DEF FreeRequest, Inv, TypeOK, Request
    <3> QED
      BY <1>0, <1>1, <2>1, <3>1, Distinct DEF Inv, Taken, Taking
  <2> QED
    BY <2>2, <2>3
<1>8. \A i \in DOMAIN completed : completed[i] \in Slots /\ completed[i] # slot
  BY <1>0, Distinct DEF Inv, TypeOK, Completed, Taken
<1>9. Completed'
  BY <1>0, <1>1, <1>2, <1>8 DEF Inv, Completed
<1>10. Order'
  <2>1. /\ Count = 1 /\ Count' = 1 /\ Taking /\ Taking'
        /\ DOMAIN completed = 1 .. Len(completed)
    BY <1>0, <1>2 DEF Count, Taking, Inv, TypeOK
  <2>2. \A i \in 1 .. Len(completed) : queue'[completed[i]] = queue[completed[i]]
    BY <1>1, <1>8, <2>1
  <2> QED
    BY <1>0, <1>2, <2>1, <2>2 DEF Inv, Order
<1> QED
  BY <1>3, <1>4, <1>6, <1>7, <1>9, <1>10 DEF Inv

LEMMA InvAcceptReturns ==
    ASSUME Inv, AcceptReturns
    PROVE  Inv'
<1>0. /\ app = "return" /\ app' = "idle" /\ Taking /\ ~Taking'
      /\ curLen' = OneLess(counted) /\ conn' = [conn EXCEPT ![taken] = "accepted"]
      /\ got' = Append(got, peer[taken])
      /\ slot' = 0 /\ taken' = Null /\ counted' = 0
      /\ UNCHANGED <<client, tcpQueue, newSocket, listener, entry, seen, queue,
                     completed, peer, fault, order>>
  BY DEF AcceptReturns, listenVars, Taking
<1>1. /\ taken \in Sds /\ conn[taken] = "complete" /\ \A s \in Slots : queue[s].sd # taken
  BY <1>0 DEF Inv, Taken
<1>2. /\ \A sd \in Sds : sd # taken => conn'[sd] = conn[sd]
      /\ conn'[taken] = "accepted" /\ peer[taken] \in Clients
  BY <1>0, <1>1 DEF Inv, TypeOK, Places
<1>3. /\ got' \in Seq(Clients) /\ Len(got) \in Nat /\ Len(got') = Len(got) + 1
      /\ \A i \in 1 .. Len(got) : got'[i] = got[i]
      /\ got'[Len(got) + 1] = peer[taken]
  BY <1>0, <1>2, AppendFacts DEF Inv, TypeOK
<1>4. TypeOK'
  <2>1. curLen' \in 0 .. CountMod - 1
    BY <1>0, CountIsUnsigned DEF Inv, TypeOK, OneLess
  <2>2. slot' \in 0 .. MaxLen + 1 /\ counted' \in 0 .. CountMod - 1
    BY <1>0, Distinct
  <2> QED
    BY <1>0, <1>3, <2>1, <2>2 DEF Inv, TypeOK
<1>5. Places'
  BY <1>0, <1>1, <1>2, PlacesKept
<1>6. Requests'
  BY <1>0, <1>1, <1>2 DEF Inv, Requests, Queued, Free
<1>7. Taken'
  BY <1>0 DEF Inv, Taken, Taking
<1>8. Completed'
  <2>1. \A i \in DOMAIN completed : completed[i] \in Slots
    BY DEF Inv, TypeOK
  <2> QED
    BY <1>0, <1>1, <1>2, <2>1 DEF Inv, Completed
<1>9. Order'
  <2>1. Count = 1 /\ Count' = 0 /\ Len(completed) \in Nat
    BY <1>0 DEF Count, Inv, TypeOK
  <2>2. /\ Len(order) = Len(got) + 1 + Len(completed)
        /\ order[Len(got) + 1] = peer[taken]
        /\ \A i \in 1 .. Len(completed) :
              order[Len(got) + 1 + i] = peer[queue[completed[i]].sd]
        /\ \A i \in 1 .. Len(got) : got[i] = order[i]
    BY <1>0, <2>1 DEF Inv, Order
  <2>3. Len(got') <= Len(order) /\ \A i \in 1 .. Len(got') : got'[i] = order[i]
    BY <1>3, <2>1, <2>2
  <2>4. \A sd \in Sds : conn'[sd] = "handshake" => conn[sd] = "handshake"
    BY <1>2
  <2>5. /\ \A i, j \in DOMAIN order' : order'[i] = order'[j] => i = j
        /\ \A i \in DOMAIN order' :
              /\ client'[order'[i]] # "new" /\ order'[i] # newSocket'
              /\ \A j \in DOMAIN tcpQueue' : order'[i] # tcpQueue'[j]
              /\ \A sd \in Sds : conn'[sd] = "handshake" => order'[i] # peer'[sd]
    BY <1>0, <2>4 DEF Inv, Order
  <2>6. Len(order') = Len(got') + Count' + Len(completed')
    BY <1>0, <1>3, <2>1, <2>2
  <2>7. \A i \in 1 .. Len(completed') :
           order'[Len(got') + Count' + i] = peer'[queue'[completed'[i]].sd]
    BY <1>0, <1>3, <2>1, <2>2
  <2> QED
    BY <1>0, <2>3, <2>5, <2>6, <2>7 DEF Order
<1> QED
  BY <1>4, <1>5, <1>6, <1>7, <1>8, <1>9 DEF Inv

-----------------------------------------------------------------------------
(* myclose()                                                                 *)

LEMMA InvCloseAccepted ==
    ASSUME Inv, NEW sd \in Sds, CloseAccepted(sd)
    PROVE  Inv'
<1>0. /\ app = "idle" /\ conn[sd] = "accepted" /\ taken = Null
      /\ conn' = [conn EXCEPT ![sd] = "free"] /\ peer' = [peer EXCEPT ![sd] = Null]
      /\ UNCHANGED <<client, tcpQueue, newSocket, listener, entry, seen, queue,
                     completed, curLen, app, slot, taken, counted, fault, order, got>>
  BY DEF CloseAccepted, listenVars, appVars, historyVars, Inv, Taken
<1>1. /\ \A d \in Sds : d # sd => conn'[d] = conn[d] /\ peer'[d] = peer[d]
      /\ conn'[sd] = "free" /\ peer'[sd] = Null
  BY <1>0 DEF Inv, TypeOK
<1>2. TypeOK'
  BY <1>0 DEF Inv, TypeOK
<1>3. Places'
  BY <1>0, <1>1, PlacesKept
<1>4. /\ \A s \in Slots : queue[s].sd # sd
      /\ \A d \in Sds : Queued(d)' <=> Queued(d)
  BY <1>0, <1>1 DEF Inv, Requests, Queued
<1>5. Requests'
  <2>1. \A s \in Slots : queue[s].sd \in Sds =>
          /\ conn'[queue[s].sd] \in {"handshake", "complete"}
          /\ queue[s].peer = peer'[queue[s].sd]
    BY <1>1, <1>4 DEF Inv, Requests, Queued
  <2> QED
    BY <1>0, <1>4, <2>1 DEF Inv, Requests, Queued, Free
<1>6. Taken'
  BY <1>0 DEF Inv, Taken, Taking
<1>7. \A i \in DOMAIN completed :
         queue[completed[i]].sd \in Sds /\ queue[completed[i]].sd # sd
  BY <1>0 DEF Inv, Completed
<1>8. Completed'
  BY <1>0, <1>1, <1>7 DEF Inv, Completed
<1>9. Order'
  <2>1. /\ Count = 0 /\ Count' = 0 /\ ~Taking /\ ~Taking'
        /\ DOMAIN completed = 1 .. Len(completed)
    BY <1>0 DEF Count, Taking, Inv, TypeOK
  <2>2. \A i \in 1 .. Len(completed) :
           peer'[queue[completed[i]].sd] = peer[queue[completed[i]].sd]
    BY <1>1, <1>7, <2>1
  <2>3. \A d \in Sds : conn'[d] = "handshake" => conn[d] = "handshake" /\ peer'[d] = peer[d]
    BY <1>1
  <2> QED
    BY <1>0, <2>1, <2>2, <2>3 DEF Inv, Order
<1> QED
  BY <1>2, <1>3, <1>5, <1>6, <1>8, <1>9 DEF Inv

LEMMA InvJoined ==
    ASSUME Inv, Joined
    PROVE  Inv'
<1>0. /\ app = "join" /\ app' = "closing" /\ listener = "ended" /\ slot' = 1
      /\ UNCHANGED <<client, tcpQueue, newSocket, listener, entry, seen, queue,
                     completed, curLen, conn, peer, taken, counted, fault, order, got>>
  BY DEF Joined, listenVars, connVars, historyVars
<1>1. slot' \in 0 .. MaxLen + 1
  BY <1>0, Distinct
<1>2. TypeOK'
  BY <1>0, <1>1 DEF Inv, TypeOK
<1>3. Places'
  BY <1>0, PlacesKept
<1>4. (Requests /\ Taken /\ Completed /\ Order)'
  BY <1>0 DEF Inv, Requests, Taken, Completed, Order, Taking, Queued, Free
<1> QED
  BY <1>2, <1>3, <1>4 DEF Inv

LEMMA InvCloseQueued ==
    ASSUME Inv, CloseQueued
    PROVE  Inv'
<1>0. /\ app = "closing" /\ slot \in Slots /\ listener = "ended" /\ taken = Null
      /\ slot' = slot + 1
      /\ queue' = [queue EXCEPT ![slot] = Request(Null, Null)]
      /\ UNCHANGED <<client, tcpQueue, newSocket, listener, entry, seen, completed,
                     curLen, app, taken, counted, fault, order, got>>
  BY DEF CloseQueued, listenVars, historyVars, Inv, Requests, Taken
<1>1. /\ \A s \in Slots : s # slot => queue'[s] = queue[s]
      /\ queue'[slot].sd = Null
      /\ queue' \in [Slots -> [sd : Sds \cup {Null, Cleared}, peer : Clients \cup {Null}]]
  BY <1>0 DEF Inv, TypeOK, Request
<1>2. slot' \in 0 .. MaxLen + 1
  BY <1>0, Distinct DEF Slots
<1>3. \A d \in Sds :
         \/ d # queue[slot].sd /\ conn'[d] = conn[d] /\ peer'[d] = peer[d]
         \/ d = queue[slot].sd /\ conn'[d] = "free" /\ peer'[d] = Null
  <2>1. CASE Free(slot)
    BY <2>1, Distinct DEF CloseQueued, Free
  <2>2. CASE ~Free(slot)
    <3>1. /\ conn' = [conn EXCEPT ![queue[slot].sd] = "free"]
          /\ peer' = [peer EXCEPT ![queue[slot].sd] = Null]
      BY <2>2 DEF CloseQueued
    <3> QED
      BY <3>1 DEF Inv, TypeOK
  <2> QED
    BY <2>1, <2>2
<1>4. /\ conn' \in [Sds -> {"free", "handshake", "complete", "accepted"}]
      /\ peer' \in [Sds -> Clients \cup {Null}]
  <2>1. CASE Free(slot)
    BY <2>1 DEF CloseQueued, Inv, TypeOK
  <2>2. CASE ~Free(slot)
    BY <2>2 DEF CloseQueued, Inv, TypeOK
  <2> QED
    BY <2>1, <2>2
<1>5. TypeOK'
  BY <1>0, <1>1, <1>2, <1>4 DEF Inv, TypeOK
<1>6. Places'
  BY <1>0, <1>3, PlacesKept
<1>7. Requests'
  <2>1. \A s \in Slots : queue'[s].sd \in Sds =>
          /\ s # slot /\ queue[s].sd # queue[slot].sd
          /\ conn'[queue'[s].sd] \in {"handshake", "complete"}
          /\ queue'[s].peer = peer'[queue'[s].sd]
    <3> SUFFICES ASSUME NEW s \in Slots, queue'[s].sd \in Sds
                 PROVE  /\ s # slot /\ queue[s].sd # queue[slot].sd
                        /\ conn'[queue'[s].sd] \in {"handshake", "complete"}
                        /\ queue'[s].peer = peer'[queue'[s].sd]
      OBVIOUS
    <3>1. s # slot /\ queue'[s] = queue[s]
      BY <1>1, Distinct
    <3>2. queue[s].sd \in Sds /\ queue[s].sd # queue[slot].sd
      BY <1>0, <3>1 DEF Inv, Requests
    <3>3. Queued(queue[s].sd) /\ queue[s].peer = peer[queue[s].sd]
      BY <3>2 DEF Inv, Requests
    <3> QED
      BY <1>3, <3>1, <3>2, <3>3 DEF Queued
  <2>2. \A s, t \in Slots : queue'[s].sd \in Sds /\ queue'[s].sd = queue'[t].sd => s = t
    BY <1>1, Distinct DEF Inv, Requests
  <2>3. ASSUME NEW d \in Sds, Queued(d)' PROVE \E s \in Slots : queue'[s].sd = d
    <3>1. Queued(d) /\ d # queue[slot].sd
      BY <1>3, <2>3 DEF Queued
    <3>2. PICK s \in Slots : queue[s].sd = d
      BY <1>0, <3>1, Distinct DEF Inv, Requests
    <3> QED
      BY <1>1, <3>1, <3>2
  <2> QED
    BY <1>0, <2>1, <2>2, <2>3 DEF Requests, Queued
<1>8. Taken'
  BY <1>0, <1>1, Distinct DEF Inv, Taken, Taking
<1>9. Completed' /\ Order'
  <2>1. \A d \in Sds : conn'[d] = "handshake" => conn[d] = "handshake" /\ peer'[d] = peer[d]
    BY <1>3
  <2> QED
    BY <1>0, <2>1 DEF Inv, Completed, Order
<1> QED
  BY <1>5, <1>6, <1>7, <1>8, <1>9 DEF Inv

LEMMA InvCloseReturns ==
    ASSUME Inv, CloseReturns
    PROVE  Inv'
<1>0. /\ app = "closing" /\ app' = "closed" /\ completed' = <<>> /\ slot' = 0
      /\ UNCHANGED <<client, tcpQueue, newSocket, listener, entry, seen, queue, curLen,
                     conn, peer, taken, counted, fault, order, got>>
  BY DEF CloseReturns, listenVars, connVars, historyVars
<1>1. slot' \in 0 .. MaxLen + 1 /\ completed' \in Seq(Slots)
  BY <1>0, Distinct
<1>2. TypeOK'
  BY <1>0, <1>1 DEF Inv, TypeOK
<1>3. Places'
  BY <1>0, PlacesKept
<1>4. (Requests /\ Taken /\ Completed /\ Order)'
  BY <1>0 DEF Inv, Requests, Taken, Completed, Order, Taking, Queued, Free
<1> QED
  BY <1>2, <1>3, <1>4 DEF Inv

-----------------------------------------------------------------------------
(* The theorems                                                              *)

LEMMA InvNext == Inv /\ [Next]_vars => Inv'
<1> SUFFICES ASSUME Inv, [Next]_vars PROVE Inv'
  OBVIOUS
<1>1. CASE UNCHANGED vars
  <2>1. UNCHANGED <<client, tcpQueue, newSocket, listener, entry, seen, queue, completed,
                    curLen, conn, peer, app, slot, taken, counted, fault, order, got>>
    BY <1>1 DEF vars
  <2>2. TypeOK'
    BY <2>1 DEF Inv, TypeOK
  <2> QED
    BY <2>1, <2>2, InvQuiet DEF Handling
<1>2. CASE \E c \in Clients : Connect(c) \/ SendSyn(c) \/ Leave(c)
  BY <1>2, InvConnect, InvClients
<1>3. CASE ListenerStep
  BY <1>3, InvListenerMoves, InvAccept, InvNewConnection DEF ListenerStep
<1>4. CASE \E sd \in Sds : Complete(sd) \/ CloseAccepted(sd)
  BY <1>4, InvComplete, InvCloseAccepted
<1>5. CASE MyAccept
  BY <1>5, InvDequeue, InvFreeRequest, InvAppMoves, InvAcceptReturns DEF MyAccept
<1>6. CASE MyClose
  BY <1>6, InvAppMoves, InvJoined, InvCloseQueued, InvCloseReturns DEF MyClose
<1> QED
  BY <1>1, <1>2, <1>3, <1>4, <1>5, <1>6 DEF Next

LEMMA InvMeaning == Inv => TypeOK /\ RequestsAreFound /\ AcceptsInOrder /\ OneOwner
<1> SUFFICES ASSUME Inv PROVE TypeOK /\ RequestsAreFound /\ AcceptsInOrder /\ OneOwner
  OBVIOUS
<1>1. ASSUME NEW sd \in Sds, Queued(sd), sd # taken
      PROVE  Cardinality({s \in Slots : queue[s] = Request(sd, peer[sd])}) = 1
  <2>1. PICK s \in Slots : queue[s].sd = sd
    BY <1>1 DEF Inv, Requests
  <2>2. \A t \in Slots : queue[t].sd = sd => t = s
    BY <2>1 DEF Inv, Requests
  <2>3. queue[s] = Request(sd, peer[sd])
    <3>1. queue[s].peer = peer[sd]
      BY <2>1 DEF Inv, Requests
    <3> QED
      BY <2>1, <3>1 DEF Inv, TypeOK, Request
  <2>4. {t \in Slots : queue[t] = Request(sd, peer[sd])} = {s}
    BY <2>2, <2>3 DEF Request
  <2> QED
    BY <2>4, FS_Singleton
<1>2. RequestsAreFound
  BY <1>1 DEF Inv, Completed, RequestsAreFound, Queued
<1>3. AcceptsInOrder
  <2>1. /\ got \in Seq(Clients) /\ order \in Seq(Clients) /\ Len(got) <= Len(order)
        /\ \A i \in 1 .. Len(got) : got[i] = order[i]
        /\ \A i, j \in DOMAIN order : order[i] = order[j] => i = j
    BY DEF Inv, TypeOK, Order
  <2>2. SubSeq(got, 1, Len(got)) = SubSeq(order, 1, Len(got))
    BY <2>1
  <2>3. \A i, j \in DOMAIN got : got[i] = got[j] => i = j
    BY <2>1
  <2> QED
    BY <2>1, <2>2, <2>3 DEF AcceptsInOrder, IsPrefix, IsInjective
<1> QED
  BY <1>2, <1>3 DEF Inv, Places

\* The types of ConnectionDemux, for every backlog and number of descriptors.
THEOREM TypeCorrect == Spec => []TypeOK
BY InvInit, InvNext, InvMeaning, PTL DEF Spec

\* For every backlog and every number of clients and descriptors: a transport
\* thread that ends its handshake finds its request in the table, which the
\* receive thread and myaccept() change without a common lock; the slot that is
\* found free for a new request is still free when it is filled, and the
\* requests in completed_queue are those of completed connections.
THEOREM TableIsSound == Spec => []RequestsAreFound
BY InvInit, InvNext, InvMeaning, PTL DEF Spec

\* myaccept() returns the connections in the order in which they were
\* established, each once.
THEOREM AcceptsAreInOrder == Spec => []AcceptsInOrder
BY InvInit, InvNext, InvMeaning, PTL DEF Spec

\* Two mysockets never share a TCP connection, although new_socket is one field
\* of the listener through which all of them are passed on.
THEOREM SocketsAreOwned == Spec => []OneOwner
BY InvInit, InvNext, InvMeaning, PTL DEF Spec

=============================================================================
