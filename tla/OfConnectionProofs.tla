-------------------------- MODULE OfConnectionProofs --------------------------
(***************************************************************************)
(* Theorems about OfConnection: the flag `sending' that send() reads       *)
(* without the lock is never FALSE while the DeferredSender has data, and  *)
(* therefore the bytes of one thread stay in the order it sent them.       *)
(***************************************************************************)
EXTENDS OfConnection, SequenceTheorems, TLAPS

-----------------------------------------------------------------------------
(* Sequences of bytes                                                        *)

LEMMA PartsAreBytes ==
    ASSUME NEW s \in Seq(Byte), NEW n \in 0 .. Len(s)
    PROVE  Front(s, n) \in Seq(Byte) /\ Rest(s, n) \in Seq(Byte)
<1>1. /\ Len(Front(s, n)) = n
      /\ \A i \in 1 .. n : Front(s, n)[i] = s[i]
      /\ Front(s, n) \in Seq(Byte)
  BY DEF Front
<1>2. Rest(s, n) \in Seq(Byte)
  BY DEF Rest
<1> QED
  BY <1>1, <1>2

LEMMA NewBytesAreBytes ==
    ASSUME NEW t \in Threads, NEW c \in Connections, handed[c][t] \in Nat
    PROVE  NewBytes(t, c) \in Seq(Byte)
<1>1. NewBytes(t, c) \in [1 .. Size -> Byte]
  BY OfAssumption DEF NewBytes, Byte
<1> QED
  BY <1>1, OfAssumption

\* Nothing can be taken from an entry that is not there.
LEMMA RestOfNothing == \A n \in 0 .. Len(<<>>) : Rest(<<>>, n) = <<>>
BY DEF Rest

-----------------------------------------------------------------------------
(* The invariant                                                             *)

\* The strengthening: a thread that is in send() is in that of a connection.
Inv ==
    /\ TypeOK
    /\ \A t \in Threads : pc[t] # "idle" => con[t] \in Connections
    /\ SendingHonest

LEMMA InvInit == Init => Inv
<1> SUFFICES ASSUME Init PROVE Inv
  OBVIOUS
<1>1. handed \in [Connections -> [Threads -> Nat]]
  BY DEF Init
<1>2. <<>> \in Seq(Byte)
  OBVIOUS
<1>3. TypeOK
  BY <1>1, <1>2 DEF Init, TypeOK
<1>4. HasEntry = {}
  BY DEF Init, HasEntry
<1> QED
  BY <1>3, <1>4 DEF Init, Inv, SendingHonest

\* What leaves the deferred data and the flag alone.
LEMMA InvKept ==
    ASSUME Inv, TypeOK', UNCHANGED <<deferred, sending>>,
           \A t \in Threads : pc'[t] # "idle" => con'[t] \in Connections
    PROVE  Inv'
BY DEF Inv, SendingHonest, HasEntry

LEMMA InvSend ==
    ASSUME Inv, NEW t \in Threads, NEW c \in Connections, Send(t, c)
    PROVE  Inv'
<1>1. handed[c][t] \in Nat /\ NewBytes(t, c) \in Seq(Byte)
  BY NewBytesAreBytes DEF Inv, TypeOK
<1>2. handed' \in [Connections -> [Threads -> Nat]]
  <2>1. handed' = [handed EXCEPT ![c] = [handed[c] EXCEPT ![t] = handed[c][t] + Size]]
    BY DEF Inv, TypeOK, Send
  <2>2. [handed[c] EXCEPT ![t] = handed[c][t] + Size] \in [Threads -> Nat]
    BY <1>1, OfAssumption DEF Inv, TypeOK
  <2> QED
    BY <2>1, <2>2 DEF Inv, TypeOK
<1>3. TypeOK'
  BY <1>1, <1>2 DEF Inv, TypeOK, Send
<1>4. \A u \in Threads : pc'[u] # "idle" => con'[u] \in Connections
  BY DEF Inv, TypeOK, Send
<1> QED
  BY <1>3, <1>4, InvKept DEF Send

\* The types after send() has returned, and that it is in no connection.
LEMMA AfterLeave ==
    ASSUME Inv, NEW t \in Threads, Leave(t)
    PROVE  /\ pc' \in [Threads -> {"idle", "direct", "defer"}]
           /\ con' \in [Threads -> Connections \cup {Null}]
           /\ data' \in [Threads -> Seq(Byte)]
           /\ \A u \in Threads : pc'[u] # "idle" => con'[u] \in Connections
BY DEF Inv, TypeOK, Leave

LEMMA SocketTypes ==
    ASSUME Inv, NEW c \in Connections, NEW s \in Seq(Byte)
    PROVE  /\ \A n \in 0 .. Len(s) : Takes(c, s, n) => wire' \in [Connections -> Seq(Byte)]
           /\ Disconnect(c) => /\ disconnected' \subseteq Connections
                               /\ sock' \in [Connections -> {"open", "shut", "closed"}]
<1>1. ASSUME NEW n \in 0 .. Len(s), Takes(c, s, n)
      PROVE  wire' \in [Connections -> Seq(Byte)]
  <2>1. Front(s, n) \in Seq(Byte)
    BY PartsAreBytes
  <2>2. wire[c] \o Front(s, n) \in Seq(Byte)
    BY <2>1 DEF Inv, TypeOK
  <2> QED
    BY <1>1, <2>2 DEF Inv, TypeOK, Takes
<1>2. Disconnect(c) => /\ disconnected' \subseteq Connections
                       /\ sock' \in [Connections -> {"open", "shut", "closed"}]
  BY DEF Inv, TypeOK, Disconnect
<1> QED
  BY <1>1, <1>2

LEMMA InvDirect ==
    ASSUME Inv, NEW t \in Threads, Direct(t)
    PROVE  Inv'
<1>0. /\ con[t] \in Connections /\ data[t] \in Seq(Byte) /\ pc[t] = "direct"
      /\ UNCHANGED <<handed, deferred, sending, sender, selected>>
  BY DEF Inv, TypeOK, Direct
<1>1. ASSUME NEW n \in 0 .. Len(data[t]), Takes(con[t], data[t], n),
             IF n = Len(data[t])
             THEN Leave(t)
             ELSE /\ data' = [data EXCEPT ![t] = Rest(@, n)]
                  /\ pc' = [pc EXCEPT ![t] = "defer"]
                  /\ UNCHANGED con,
             UNCHANGED <<sock, disconnected>>
      PROVE  Inv'
  <2>1. wire' \in [Connections -> Seq(Byte)]
    BY <1>0, <1>1, SocketTypes
  <2>2. CASE n = Len(data[t])
    <3>1. TypeOK'
      BY <1>0, <1>1, <2>1, <2>2, AfterLeave DEF Inv, TypeOK
    <3> QED
      BY <1>0, <1>1, <2>2, <3>1, AfterLeave, InvKept
  <2>3. CASE n # Len(data[t])
    <3>1. Rest(data[t], n) \in Seq(Byte)
      BY <1>0, PartsAreBytes
    <3>2. /\ data' = [data EXCEPT ![t] = Rest(data[t], n)]
          /\ pc' = [pc EXCEPT ![t] = "defer"] /\ con' = con
      BY <1>1, <2>3
    <3>3. TypeOK'
      BY <1>0, <1>1, <2>1, <3>1, <3>2 DEF Inv, TypeOK
    <3>4. \A u \in Threads : pc'[u] # "idle" => con'[u] \in Connections
      BY <1>0, <3>2 DEF Inv, TypeOK
    <3> QED
      BY <1>0, <3>3, <3>4, InvKept
  <2> QED
    BY <2>2, <2>3
<1>2. ASSUME Disconnect(con[t]), Leave(t), wire' = wire PROVE Inv'
  <2>1. TypeOK'
    BY <1>0, <1>2, SocketTypes, AfterLeave DEF Inv, TypeOK
  <2> QED
    BY <1>0, <1>2, <2>1, AfterLeave, InvKept
<1> QED
  BY <1>1, <1>2 DEF Direct

LEMMA InvDefer ==
    ASSUME Inv, NEW t \in Threads, Defer(t)
    PROVE  Inv'
<1>1. /\ con[t] \in Connections /\ sending' = TRUE /\ Leave(t)
      /\ deferred' = [deferred EXCEPT ![con[t]] = deferred[con[t]] \o data[t]]
      /\ UNCHANGED <<handed, wire, sock, disconnected, sender, selected>>
  BY DEF Inv, Defer
<1>2. deferred[con[t]] \o data[t] \in Seq(Byte)
  BY <1>1 DEF Inv, TypeOK
<1>3. TypeOK'
  BY <1>1, <1>2, AfterLeave DEF Inv, TypeOK
<1> QED
  BY <1>1, <1>3, AfterLeave DEF Inv, SendingHonest

LEMMA InvSelect ==
    ASSUME Inv, \/ Select \/ Selected \/ \E c \in Connections : Close(c)
    PROVE  Inv'
<1>0. UNCHANGED <<pc, con, deferred, sending>>
  BY DEF Select, Selected, Close
<1>1. TypeOK'
  <2>1. CASE Select
    BY <2>1 DEF Inv, TypeOK, Select, HasEntry
  <2>2. CASE Selected
    BY <2>2 DEF Inv, TypeOK, Selected
  <2>3. CASE \E c \in Connections : Close(c)
    BY <2>3 DEF Inv, TypeOK, Close
  <2> QED
    BY <2>1, <2>2, <2>3
<1> QED
  BY <1>0, <1>1, InvKept DEF Inv

\* An entry never comes back by itself, and the flag is cleared only with the
\* last entry.
LEMMA InvFlush ==
    ASSUME Inv, NEW c \in Connections, Flush(c)
    PROVE  Inv'
<1>0. /\ deferred[c] \in Seq(Byte) /\ deferred \in [Connections -> Seq(Byte)]
      /\ selected \subseteq Connections
      /\ UNCHANGED <<pc, con, data, handed>>
  BY DEF Inv, TypeOK, Flush
<1>1. ASSUME NEW left, GoOn(left), left \subseteq Connections
      PROVE  /\ selected' \subseteq Connections
             /\ sender' \in {"loop", "select", "write", "dead"}
  BY <1>1 DEF GoOn
<1>2. ASSUME NEW n \in 0 .. Len(deferred[c]), Takes(c, deferred[c], n),
             deferred' = [deferred EXCEPT ![c] = Rest(@, n)],
             IF n = Len(deferred[c]) /\ HasEntry = {c}
             THEN sending' = FALSE /\ GoOn({})
             ELSE UNCHANGED sending /\ GoOn(selected \ {c}),
             UNCHANGED <<sock, disconnected>>
      PROVE  Inv'
  <2>1. wire' \in [Connections -> Seq(Byte)] /\ Rest(deferred[c], n) \in Seq(Byte)
    BY <1>0, <1>2, SocketTypes, PartsAreBytes
  <2>2. deferred' = [deferred EXCEPT ![c] = Rest(deferred[c], n)]
    BY <1>2
  <2>3. deferred[c] = <<>> => deferred'[c] = <<>>
    BY <1>0, <2>2, RestOfNothing
  <2>4. HasEntry' \subseteq HasEntry
    BY <1>0, <2>2, <2>3 DEF HasEntry
  <2>5. CASE n = Len(deferred[c]) /\ HasEntry = {c}
    <3>1. sending' = FALSE /\ GoOn({})
      BY <1>2, <2>5
    <3>2. Rest(deferred[c], n) = <<>>
      BY <1>0, <2>5 DEF Rest
    <3>3. HasEntry' = {}
      BY <1>0, <2>2, <2>4, <2>5, <3>2 DEF HasEntry
    <3>4. selected' \subseteq Connections /\ sender' \in {"loop", "select", "write", "dead"}
      BY <1>1, <3>1
    <3>5. deferred' \in [Connections -> Seq(Byte)] /\ sending' \in BOOLEAN
      BY <1>0, <2>1, <2>2, <3>1
    <3>6. TypeOK'
      BY <1>0, <1>2, <2>1, <3>4, <3>5 DEF Inv, TypeOK
    <3> QED
      BY <1>0, <3>3, <3>6 DEF Inv, SendingHonest
  <2>6. CASE ~(n = Len(deferred[c]) /\ HasEntry = {c})
    <3>1. sending' = sending /\ GoOn(selected \ {c})
      BY <1>2, <2>6
    <3>2. selected' \subseteq Connections /\ sender' \in {"loop", "select", "write", "dead"}
      BY <1>0, <1>1, <3>1
    <3>3. deferred' \in [Connections -> Seq(Byte)] /\ sending' \in BOOLEAN
      BY <1>0, <2>1, <2>2, <3>1 DEF Inv, TypeOK
    <3>4. TypeOK'
      BY <1>0, <1>2, <2>1, <3>2, <3>3 DEF Inv, TypeOK
    <3> QED
      BY <1>0, <2>4, <3>1, <3>4 DEF Inv, SendingHonest
  <2> QED
    BY <2>5, <2>6
<1>3. ASSUME Disconnect(c), deferred' = [deferred EXCEPT ![c] = <<>>],
             GoOn(selected \ {c}), UNCHANGED <<wire, sending>>
      PROVE  Inv'
  <2>1. <<>> \in Seq(Byte)
    OBVIOUS
  <2>2. TypeOK'
    BY <1>0, <1>1, <1>3, <2>1, SocketTypes DEF Inv, TypeOK
  <2>3. HasEntry' \subseteq HasEntry
    BY <1>0, <1>3 DEF HasEntry
  <2> QED
    BY <1>0, <1>3, <2>2, <2>3 DEF Inv, SendingHonest
<1> QED
  BY <1>2, <1>3 DEF Flush

LEMMA InvNext == Inv /\ [Next]_vars => Inv'
<1> SUFFICES ASSUME Inv, [Next]_vars PROVE Inv'
  OBVIOUS
<1>1. CASE UNCHANGED vars
  BY <1>1 DEF vars, Inv, TypeOK, SendingHonest, HasEntry
<1>2. CASE Next
  BY <1>2, InvSend, InvDirect, InvDefer, InvSelect, InvFlush DEF Next
<1> QED
  BY <1>1, <1>2

-----------------------------------------------------------------------------
(* The order of the bytes of one thread                                      *)

BytesOf(s, t) == {i \in DOMAIN s : s[i].thread = t}

\* FirstInOrder, element by element.
LEMMA FirstInOrderMeans ==
    ASSUME NEW s, NEW t, NEW n
    PROVE  FirstInOrder(s, t, n) <=>
             /\ \A i \in BytesOf(s, t) : s[i].place \in 1 .. n
             /\ \A k \in 1 .. n : \E i \in BytesOf(s, t) : s[i].place = k
             /\ \A i, j \in BytesOf(s, t) : i < j => s[i].place < s[j].place
<1>1. {s[i].place : i \in BytesOf(s, t)} = 1 .. n <=>
         /\ \A i \in BytesOf(s, t) : s[i].place \in 1 .. n
         /\ \A k \in 1 .. n : \E i \in BytesOf(s, t) : s[i].place = k
  OBVIOUS
<1> QED
  BY <1>1 DEF FirstInOrder, BytesOf

\* Nothing is said of where the bytes are, but for their order.
LEMMA Moved ==
    ASSUME NEW s \in Seq(Byte), NEW q \in Seq(Byte), NEW t, NEW n, NEW f,
           \A i \in BytesOf(s, t) : /\ i \in Int /\ f[i] \in Int
                                    /\ f[i] \in BytesOf(q, t)
                                    /\ q[f[i]].place = s[i].place,
           \A i, j \in BytesOf(s, t) : i < j => f[i] < f[j],
           \A k \in BytesOf(q, t) : \E i \in BytesOf(s, t) : f[i] = k
    PROVE  FirstInOrder(s, t, n) <=> FirstInOrder(q, t, n)
<1>1. ASSUME FirstInOrder(s, t, n) PROVE FirstInOrder(q, t, n)
  <2>1. /\ \A i \in BytesOf(s, t) : s[i].place \in 1 .. n
        /\ \A k \in 1 .. n : \E i \in BytesOf(s, t) : s[i].place = k
        /\ \A i, j \in BytesOf(s, t) : i < j => s[i].place < s[j].place
    BY <1>1, FirstInOrderMeans
  <2>2. \A k \in BytesOf(q, t) : q[k].place \in 1 .. n
    BY <2>1
  <2>3. ASSUME NEW k \in 1 .. n PROVE \E j \in BytesOf(q, t) : q[j].place = k
    <3>1. PICK i \in BytesOf(s, t) : s[i].place = k
      BY <2>1
    <3> QED
      BY <3>1
  <2>4. ASSUME NEW k \in BytesOf(q, t), NEW l \in BytesOf(q, t), k < l
        PROVE  q[k].place < q[l].place
    <3>1. PICK i \in BytesOf(s, t) : f[i] = k
      OBVIOUS
    <3>2. PICK j \in BytesOf(s, t) : f[j] = l
      OBVIOUS
    <3>3. i < j
      <4>1. f[i] < f[j] /\ f[i] \in Int /\ f[j] \in Int
        BY <2>4, <3>1, <3>2
      <4>2. i # j /\ ~(j < i) /\ i \in Int /\ j \in Int
        BY <4>1
      <4> QED
        BY <4>2
    <3> QED
      BY <2>1, <3>1, <3>2, <3>3
  <2> QED
    BY <2>2, <2>3, <2>4, FirstInOrderMeans
<1>2. ASSUME FirstInOrder(q, t, n) PROVE FirstInOrder(s, t, n)
  <2>1. /\ \A i \in BytesOf(q, t) : q[i].place \in 1 .. n
        /\ \A k \in 1 .. n : \E i \in BytesOf(q, t) : q[i].place = k
        /\ \A i, j \in BytesOf(q, t) : i < j => q[i].place < q[j].place
    BY <1>2, FirstInOrderMeans
  <2>2. \A i \in BytesOf(s, t) : s[i].place \in 1 .. n
    BY <2>1
  <2>3. ASSUME NEW k \in 1 .. n PROVE \E j \in BytesOf(s, t) : s[j].place = k
    <3>1. PICK l \in BytesOf(q, t) : q[l].place = k
      BY <2>1
    <3>2. PICK i \in BytesOf(s, t) : f[i] = l
      OBVIOUS
    <3> QED
      BY <3>1, <3>2
  <2>4. \A i, j \in BytesOf(s, t) : i < j => s[i].place < s[j].place
    BY <2>1
  <2> QED
    BY <2>2, <2>3, <2>4, FirstInOrderMeans
<1> QED
  BY <1>1, <1>2

\* What is between two pieces does not matter to a thread that has no part of it.
LEMMA Between ==
    ASSUME NEW s \in Seq(Byte), NEW x \in Seq(Byte), NEW q \in Seq(Byte),
           NEW t, NEW n, \A i \in DOMAIN x : x[i].thread # t
    PROVE  FirstInOrder(s \o q, t, n) <=> FirstInOrder((s \o x) \o q, t, n)
<1> DEFINE a == s \o q
           b == (s \o x) \o q
           f == [i \in BytesOf(a, t) |-> IF i <= Len(s) THEN i ELSE i + Len(x)]
<1>1. Len(s) \in Nat /\ Len(x) \in Nat /\ Len(q) \in Nat
  OBVIOUS
<1>2. /\ a \in Seq(Byte) /\ DOMAIN a = 1 .. Len(s) + Len(q)
      /\ \A i \in 1 .. Len(s) : a[i] = s[i]
      /\ \A i \in 1 .. Len(q) : a[Len(s) + i] = q[i]
  OBVIOUS
<1>3. /\ b \in Seq(Byte) /\ DOMAIN b = 1 .. Len(s) + Len(x) + Len(q)
      /\ \A i \in 1 .. Len(s) : b[i] = s[i]
      /\ \A i \in 1 .. Len(x) : b[Len(s) + i] = x[i]
      /\ \A i \in 1 .. Len(q) : b[Len(s) + Len(x) + i] = q[i]
  <2>1. /\ s \o x \in Seq(Byte) /\ Len(s \o x) = Len(s) + Len(x)
        /\ \A i \in 1 .. Len(s) : (s \o x)[i] = s[i]
        /\ \A i \in 1 .. Len(x) : (s \o x)[Len(s) + i] = x[i]
    OBVIOUS
  <2>2. /\ b \in Seq(Byte) /\ DOMAIN b = 1 .. Len(s \o x) + Len(q)
        /\ \A i \in 1 .. Len(s \o x) : b[i] = (s \o x)[i]
        /\ \A i \in 1 .. Len(q) : b[Len(s \o x) + i] = q[i]
    BY <2>1
  <2>3. \A i \in 1 .. Len(s) : i \in 1 .. Len(s \o x)
    BY <2>1, <1>1
  <2>4. \A i \in 1 .. Len(x) : Len(s) + i \in 1 .. Len(s \o x)
    BY <2>1, <1>1
  <2> QED
    BY <2>1, <2>2, <2>3, <2>4
<1> HIDE DEF a, b
<1>4. \A i \in DOMAIN x : x[i].thread # t
  OBVIOUS
<1>5. ASSUME NEW i \in BytesOf(a, t)
      PROVE  /\ i \in Int /\ f[i] \in Int /\ f[i] \in BytesOf(b, t)
             /\ b[f[i]].place = a[i].place
             /\ f[i] = IF i <= Len(s) THEN i ELSE i + Len(x)
  <2>1. i \in 1 .. Len(s) + Len(q) /\ a[i].thread = t
    BY <1>2 DEF BytesOf
  <2>2. CASE i <= Len(s)
    <3>1. i \in 1 .. Len(s) /\ i \in 1 .. Len(s) + Len(x) + Len(q)
      BY <1>1, <2>1, <2>2
    <3> QED
      BY <1>2, <1>3, <2>1, <2>2, <3>1 DEF BytesOf
  <2>3. CASE ~(i <= Len(s))
    <3>1. PICK k \in 1 .. Len(q) : i = Len(s) + k
      <4>1. i - Len(s) \in 1 .. Len(q) /\ i = Len(s) + (i - Len(s))
        BY <1>1, <2>1, <2>3
      <4> QED
        BY <4>1
    <3>2. i + Len(x) = Len(s) + Len(x) + k
          /\ Len(s) + Len(x) + k \in 1 .. Len(s) + Len(x) + Len(q)
      BY <1>1, <3>1
    <3>3. b[i + Len(x)] = q[k] /\ a[i] = q[k]
      BY <1>2, <1>3, <3>1, <3>2
    <3> QED
      BY <1>1, <1>3, <2>1, <2>3, <3>2, <3>3 DEF BytesOf
  <2> QED
    BY <2>2, <2>3
<1>6. ASSUME NEW i \in BytesOf(a, t), NEW j \in BytesOf(a, t), i < j
      PROVE  f[i] < f[j]
  <2> HIDE DEF f
  <2> QED
    BY <1>1, <1>5, <1>6
<1>7. ASSUME NEW k \in BytesOf(b, t) PROVE \E i \in BytesOf(a, t) : f[i] = k
  <2>1. k \in 1 .. Len(s) + Len(x) + Len(q) /\ b[k].thread = t
    BY <1>3 DEF BytesOf
  <2>2. CASE k <= Len(s)
    <3>1. k \in 1 .. Len(s) /\ k \in 1 .. Len(s) + Len(q)
      BY <1>1, <2>1, <2>2
    <3>2. k \in BytesOf(a, t)
      BY <1>2, <1>3, <2>1, <3>1 DEF BytesOf
    <3> QED
      BY <2>2, <3>2
  <2>3. CASE Len(s) < k /\ k <= Len(s) + Len(x)
    <3>1. PICK i \in 1 .. Len(x) : k = Len(s) + i
      <4>1. k - Len(s) \in 1 .. Len(x) /\ k = Len(s) + (k - Len(s))
        BY <1>1, <2>1, <2>3
      <4> QED
        BY <4>1
    <3>2. b[k] = x[i] /\ i \in DOMAIN x
      BY <1>3, <3>1
    <3> QED
      BY <1>4, <2>1, <3>2
  <2>4. CASE Len(s) + Len(x) < k
    <3>1. PICK i \in 1 .. Len(q) : k = Len(s) + Len(x) + i
      <4>1. k - Len(s) - Len(x) \in 1 .. Len(q)
            /\ k = Len(s) + Len(x) + (k - Len(s) - Len(x))
        BY <1>1, <2>1, <2>4
      <4> QED
        BY <4>1
    <3>2. /\ Len(s) + i \in 1 .. Len(s) + Len(q) /\ ~(Len(s) + i <= Len(s))
          /\ (Len(s) + i) + Len(x) = k
      BY <1>1, <3>1
    <3>3. Len(s) + i \in BytesOf(a, t)
      BY <1>2, <1>3, <2>1, <3>1, <3>2 DEF BytesOf
    <3> QED
      BY <3>2, <3>3
  <2> QED
    BY <1>1, <2>1, <2>2, <2>3, <2>4
<1> HIDE DEF f
<1>8. FirstInOrder(a, t, n) <=> FirstInOrder(b, t, n)
  <2>1. a \in Seq(Byte) /\ b \in Seq(Byte)
    BY <1>2, <1>3
  <2>2. \A i \in BytesOf(a, t) : /\ i \in Int /\ f[i] \in Int
                                 /\ f[i] \in BytesOf(b, t)
                                 /\ b[f[i]].place = a[i].place
    BY <1>5
  <2>3. \A i, j \in BytesOf(a, t) : i < j => f[i] < f[j]
    BY <1>6
  <2>4. \A k \in BytesOf(b, t) : \E i \in BytesOf(a, t) : f[i] = k
    BY <1>7
  <2> QED
    BY <2>1, <2>2, <2>3, <2>4, Moved
<1> QED
  BY <1>8 DEF a, b

\* What a thread has just handed to send() follows its other bytes.
LEMMA Extended ==
    ASSUME NEW s \in Seq(Byte), NEW t \in Threads, NEW c \in Connections,
           handed[c][t] \in Nat, FirstInOrder(s, t, handed[c][t])
    PROVE  FirstInOrder(s \o NewBytes(t, c), t, handed[c][t] + Size)
<1>1. PICK h \in Nat : h = handed[c][t]
  OBVIOUS
<1> DEFINE x == [i \in 1 .. Size |-> [thread |-> t, place |-> h + i]]
           b == s \o x
<1>2. NewBytes(t, c) = x /\ x \in Seq(Byte) /\ Size \in Nat /\ Len(x) = Size
  <2>1. NewBytes(t, c) = x
    BY <1>1 DEF NewBytes
  <2>2. Size \in Nat
    BY OfAssumption
  <2>3. x \in [1 .. Size -> Byte] /\ DOMAIN x = 1 .. Size
    BY <2>2 DEF Byte
  <2> HIDE DEF x
  <2>4. x \in Seq(Byte)
    BY <2>2, <2>3
  <2>5. Len(x) \in Nat /\ 1 .. Len(x) = 1 .. Size
    BY <2>3, <2>4, LenProperties
  <2>6. Len(x) = Size
    <3>1. CASE Len(x) < Size
      <4>1. Size \in 1 .. Size /\ Size \notin 1 .. Len(x)
        BY <2>2, <2>5, <3>1
      <4> QED
        BY <2>5, <4>1
    <3>2. CASE Size < Len(x)
      <4>1. Len(x) \in 1 .. Len(x) /\ Len(x) \notin 1 .. Size
        BY <2>2, <2>5, <3>2
      <4> QED
        BY <2>5, <4>1
    <3> QED
      BY <2>2, <2>5, <3>1, <3>2
  <2> QED
    BY <2>1, <2>2, <2>4, <2>6
<1>3. \A i \in 1 .. Size : x[i].thread = t /\ x[i].place = h + i
  OBVIOUS
<1> HIDE DEF x
<1>4. /\ Len(s) \in Nat /\ DOMAIN s = 1 .. Len(s)
      /\ DOMAIN b = 1 .. Len(s) + Size
      /\ \A i \in 1 .. Len(s) : b[i] = s[i]
      /\ \A i \in 1 .. Size : b[Len(s) + i] = x[i]
  BY <1>2
<1>5. /\ \A i \in BytesOf(s, t) : s[i].place \in 1 .. h
      /\ \A k \in 1 .. h : \E i \in BytesOf(s, t) : s[i].place = k
      /\ \A i, j \in BytesOf(s, t) : i < j => s[i].place < s[j].place
  BY <1>1, FirstInOrderMeans
<1> HIDE DEF b
<1>6. \A i \in BytesOf(b, t) :
         \/ i \in BytesOf(s, t) /\ i \in Nat /\ i <= Len(s) /\ b[i] = s[i]
         \/ \E k \in 1 .. Size : i = Len(s) + k /\ b[i].place = h + k
  <2>1. TAKE i \in BytesOf(b, t)
  <2>2. i \in 1 .. Len(s) + Size /\ b[i].thread = t
    BY <1>4 DEF BytesOf
  <2>3. CASE i <= Len(s)
    BY <1>4, <2>2, <2>3 DEF BytesOf
  <2>4. CASE ~(i <= Len(s))
    <3>1. i - Len(s) \in 1 .. Size /\ i = Len(s) + (i - Len(s))
      BY <1>2, <1>4, <2>2, <2>4
    <3> QED
      BY <1>3, <1>4, <3>1
  <2> QED
    BY <2>3, <2>4
<1>7. \A i \in BytesOf(s, t) : i \in BytesOf(b, t) /\ b[i] = s[i]
  BY <1>2, <1>4 DEF BytesOf
<1>8. \A k \in 1 .. Size : Len(s) + k \in BytesOf(b, t) /\ b[Len(s) + k].place = h + k
  <2>1. TAKE k \in 1 .. Size
  <2>2. Len(s) + k \in 1 .. Len(s) + Size
    BY <1>2, <1>4
  <2>3. b[Len(s) + k] = x[k]
    BY <1>4
  <2> QED
    BY <1>3, <1>4, <2>2, <2>3 DEF BytesOf
<1>9. \A i \in BytesOf(b, t) : b[i].place \in 1 .. h + Size
  <2>1. TAKE i \in BytesOf(b, t)
  <2>2. CASE i \in BytesOf(s, t) /\ b[i] = s[i]
    <3>1. b[i].place \in 1 .. h
      BY <1>5, <2>2
    <3> QED
      BY <3>1, <1>2
  <2>3. CASE \E k \in 1 .. Size : i = Len(s) + k /\ b[i].place = h + k
    BY <2>3, <1>2
  <2> QED
    BY <1>6, <2>2, <2>3
<1>10. \A k \in 1 .. h + Size : \E i \in BytesOf(b, t) : b[i].place = k
  <2>1. TAKE k \in 1 .. h + Size
  <2>2. CASE k <= h
    <3>1. PICK i \in BytesOf(s, t) : s[i].place = k
      BY <1>5, <2>2
    <3> QED
      BY <1>7, <3>1
  <2>3. CASE ~(k <= h)
    <3>1. k - h \in 1 .. Size /\ h + (k - h) = k
      BY <1>2, <2>3
    <3> QED
      BY <1>8, <3>1
  <2> QED
    BY <2>2, <2>3
<1>11. ASSUME NEW i \in BytesOf(b, t), NEW j \in BytesOf(b, t), i < j
       PROVE  b[i].place < b[j].place
  <2>1. CASE /\ j \in BytesOf(s, t) /\ j <= Len(s) /\ j \in Nat /\ b[j] = s[j]
    <3>1. i \in BytesOf(s, t) /\ b[i] = s[i]
      <4>1. ASSUME NEW k \in 1 .. Size, i = Len(s) + k PROVE FALSE
        BY <4>1, <1>4, <1>11, <2>1
      <4> QED
        BY <4>1, <1>6
    <3> QED
      BY <1>5, <1>11, <2>1, <3>1
  <2>2. ASSUME NEW l \in 1 .. Size, j = Len(s) + l, b[j].place = h + l
        PROVE  b[i].place < b[j].place
    <3>1. CASE i \in BytesOf(s, t) /\ b[i] = s[i]
      <4>1. b[i].place \in 1 .. h
        BY <1>5, <3>1
      <4> QED
        BY <2>2, <4>1
    <3>2. ASSUME NEW k \in 1 .. Size, i = Len(s) + k, b[i].place = h + k
          PROVE  b[i].place < b[j].place
      BY <1>4, <1>11, <2>2, <3>2
    <3> QED
      BY <1>6, <3>1, <3>2
  <2> QED
    BY <1>6, <2>1, <2>2
<1>12. FirstInOrder(b, t, h + Size)
  BY <1>9, <1>10, <1>11, FirstInOrderMeans
<1> QED
  BY <1>1, <1>2, <1>12 DEF b

LEMMA FrontAndRest ==
    ASSUME NEW s \in Seq(Byte), NEW n \in 0 .. Len(s)
    PROVE  /\ Front(s, n) \in Seq(Byte) /\ Rest(s, n) \in Seq(Byte)
           /\ Front(s, n) \o Rest(s, n) = s
           /\ n = Len(s) => Front(s, n) = s
           /\ \A i \in DOMAIN Front(s, n) : \E k \in DOMAIN s : Front(s, n)[i] = s[k]
           /\ \A i \in DOMAIN Rest(s, n) : \E k \in DOMAIN s : Rest(s, n)[i] = s[k]
<1>0. Len(s) \in Nat /\ DOMAIN s = 1 .. Len(s) /\ n \in Nat /\ n <= Len(s)
  OBVIOUS
<1>1. /\ Front(s, n) \in Seq(Byte) /\ Len(Front(s, n)) = n
      /\ DOMAIN Front(s, n) = 1 .. n
      /\ \A i \in 1 .. n : Front(s, n)[i] = s[i]
  BY <1>0 DEF Front
<1>2. /\ Rest(s, n) \in Seq(Byte)
      /\ \A i \in DOMAIN Rest(s, n) : n + i \in DOMAIN s /\ Rest(s, n)[i] = s[n + i]
  <2>1. n + 1 \in Int /\ Len(s) \in Int /\ \A i \in n + 1 .. Len(s) : s[i] \in Byte
    BY <1>0
  <2>2. /\ Rest(s, n) \in Seq(Byte)
        /\ Len(Rest(s, n)) = IF n + 1 <= Len(s) THEN Len(s) - (n + 1) + 1 ELSE 0
        /\ \A i \in 1 .. Len(s) - (n + 1) + 1 : Rest(s, n)[i] = s[(n + 1) + i - 1]
    BY <2>1, SubSeqProperties DEF Rest
  <2>3. DOMAIN Rest(s, n) = 1 .. Len(Rest(s, n))
    BY <2>2, LenProperties
  <2>4. ASSUME NEW i \in DOMAIN Rest(s, n)
        PROVE  n + i \in DOMAIN s /\ Rest(s, n)[i] = s[n + i]
    <3>1. CASE n = Len(s)
      <4>1. ~(n + 1 <= Len(s))
        BY <1>0, <3>1
      <4>2. DOMAIN Rest(s, n) = 1 .. 0
        BY <2>2, <2>3, <4>1
      <4> QED
        BY <4>2
    <3>2. CASE n < Len(s)
      <4>1. n + 1 <= Len(s) /\ Len(s) - (n + 1) + 1 = Len(s) - n
        <5>1. \A x, y \in Nat : x < y => x + 1 <= y /\ y - (x + 1) + 1 = y - x
          OBVIOUS
        <5> QED
          BY <1>0, <3>2, <5>1
      <4>5. Len(Rest(s, n)) = Len(s) - (n + 1) + 1
        BY <2>2, <4>1
      <4>6. i \in 1 .. Len(Rest(s, n))
        BY <2>3
      <4>2. i \in 1 .. Len(s) - n /\ i \in 1 .. Len(s) - (n + 1) + 1
        BY <4>1, <4>5, <4>6
      <4>3. Rest(s, n)[i] = s[(n + 1) + i - 1]
        BY <2>2, <4>2
      <4>4. (n + 1) + i - 1 = n + i /\ n + i \in 1 .. Len(s)
        BY <1>0, <4>2
      <4> QED
        BY <1>0, <4>3, <4>4
    <3>3. n = Len(s) \/ n < Len(s)
      <4>1. \A x, y \in Nat : x <= y => x = y \/ x < y
        OBVIOUS
      <4> QED
        BY <1>0, <4>1
    <3> QED
      BY <3>1, <3>2, <3>3
  <2> QED
    BY <2>2, <2>4
<1>3. Front(s, n) \o Rest(s, n) = s
  <2>1. 1 \in 1 .. Len(s) + 1 /\ n \in 1 - 1 .. Len(s) /\ Len(s) \in n .. Len(s)
    BY <1>0
  <2>2. SubSeq(s, 1, n) \o SubSeq(s, n + 1, Len(s)) = SubSeq(s, 1, Len(s))
    BY <2>1, ConcatAdjacentSubSeq
  <2> QED
    BY <2>2, SubSeqFull DEF Front, Rest
<1>4. n = Len(s) => Front(s, n) = s
  BY <1>0, SubSeqFull DEF Front
<1>5. \A i \in DOMAIN Front(s, n) : i \in DOMAIN s /\ Front(s, n)[i] = s[i]
  BY <1>0, <1>1
<1>6. \A i \in DOMAIN Rest(s, n) : \E k \in DOMAIN s : Rest(s, n)[i] = s[k]
  BY <1>2
<1>7. \A i \in DOMAIN Front(s, n) : \E k \in DOMAIN s : Front(s, n)[i] = s[k]
  BY <1>5
<1> QED
  BY <1>1, <1>2, <1>3, <1>4, <1>6, <1>7

\* Where the bytes of a concatenation are from.
LEMMA JoinedFrom ==
    ASSUME NEW s \in Seq(Byte), NEW q \in Seq(Byte), NEW i \in DOMAIN (s \o q)
    PROVE  \/ i \in DOMAIN s /\ (s \o q)[i] = s[i]
           \/ \E k \in DOMAIN q : (s \o q)[i] = q[k]
<1>1. /\ Len(s) \in Nat /\ Len(q) \in Nat
      /\ DOMAIN s = 1 .. Len(s) /\ DOMAIN q = 1 .. Len(q)
      /\ i \in 1 .. Len(s) + Len(q)
      /\ \A k \in 1 .. Len(s) : (s \o q)[k] = s[k]
      /\ \A k \in 1 .. Len(q) : (s \o q)[Len(s) + k] = q[k]
  OBVIOUS
<1>2. CASE i <= Len(s)
  BY <1>1, <1>2
<1>3. CASE ~(i <= Len(s))
  <2>1. i - Len(s) \in 1 .. Len(q) /\ i = Len(s) + (i - Len(s))
    BY <1>1, <1>3
  <2> QED
    BY <1>1, <2>1
<1> QED
  BY <1>2, <1>3

\* The bytes a socket has taken, those that are deferred, those of one thread.
Three(w, f, h) == (w \o f) \o h

LEMMA Joined ==
    ASSUME NEW s \in Seq(Byte), NEW q \in Seq(Byte)
    PROVE  \E e \in Seq(Byte) : e = s \o q
<1>1. s \o q \in Seq(Byte)
  OBVIOUS
<1> QED
  BY <1>1, Zenon

LEMMA ThreeFlush ==
    ASSUME NEW w \in Seq(Byte), NEW y \in Seq(Byte), NEW z \in Seq(Byte), NEW h
    PROVE  Three(w \o y, z, h) = Three(w, y \o z, h)
<1>1. (w \o y) \o z = w \o (y \o z)
  BY ConcatAssociative
<1> QED
  BY <1>1, Zenon DEF Three

LEMMA ThreeDefer ==
    ASSUME NEW w \in Seq(Byte), NEW f \in Seq(Byte), NEW x \in Seq(Byte)
    PROVE  Three(w, f \o x, <<>>) = Three(w, f, x)
<1>1. (w \o f) \o x = w \o (f \o x)
  BY ConcatAssociative
<1>2. w \o (f \o x) \in Seq(Byte)
  OBVIOUS
<1>3. (w \o (f \o x)) \o <<>> = w \o (f \o x)
  BY <1>2, ConcatEmptySeq, Zenon
<1> QED
  BY <1>1, <1>3, Zenon DEF Three

LEMMA ThreeDeferOther ==
    ASSUME NEW w \in Seq(Byte), NEW f \in Seq(Byte), NEW x \in Seq(Byte),
           NEW h \in Seq(Byte), NEW u, NEW n, \A i \in DOMAIN x : x[i].thread # u,
           FirstInOrder(Three(w, f, h), u, n)
    PROVE  FirstInOrder(Three(w, f \o x, h), u, n)
<1>1. (w \o f) \o x = w \o (f \o x)
  BY ConcatAssociative
<1>2. PICK e \in Seq(Byte) : e = w \o f
  BY Joined
<1>3. FirstInOrder(e \o h, u, n)
  BY <1>2, Zenon DEF Three
<1>4. FirstInOrder((e \o x) \o h, u, n)
  BY <1>3, Between
<1> QED
  BY <1>1, <1>2, <1>4, Zenon DEF Three

LEMMA ThreeDirectOther ==
    ASSUME NEW w \in Seq(Byte), NEW f \in Seq(Byte), NEW y \in Seq(Byte),
           NEW h \in Seq(Byte), NEW u, NEW n, \A i \in DOMAIN y : y[i].thread # u,
           FirstInOrder(Three(w, f, h), u, n)
    PROVE  FirstInOrder(Three(w \o y, f, h), u, n)
<1>1. (w \o f) \o h = w \o (f \o h)
  BY ConcatAssociative
<1>2. PICK e \in Seq(Byte) : e = f \o h
  BY Joined
<1>3. FirstInOrder(w \o e, u, n)
  BY <1>1, <1>2, Zenon DEF Three
<1>4. FirstInOrder((w \o y) \o e, u, n)
  BY <1>3, Between
<1>5. PICK v \in Seq(Byte) : v = w \o y
  BY Joined
<1>6. (v \o f) \o h = v \o (f \o h)
  BY ConcatAssociative
<1> QED
  BY <1>2, <1>4, <1>5, <1>6, Zenon DEF Three

LEMMA ThreeDirectOwn ==
    ASSUME NEW w \in Seq(Byte), NEW f \in Seq(Byte), NEW y \in Seq(Byte),
           NEW z \in Seq(Byte), NEW t, NEW n, \A i \in DOMAIN f : f[i].thread # t,
           FirstInOrder(Three(w, f, y \o z), t, n)
    PROVE  FirstInOrder(Three(w \o y, f, z), t, n)
<1>1. PICK x \in Seq(Byte) : x = y \o z
  BY Joined
<1>2. FirstInOrder((w \o f) \o x, t, n)
  BY <1>1, Zenon DEF Three
<1>3. FirstInOrder(w \o x, t, n)
  BY <1>2, Between
<1>4. (w \o y) \o z = w \o (y \o z)
  BY ConcatAssociative
<1>5. PICK v \in Seq(Byte) : v = w \o y
  BY Joined
<1>6. FirstInOrder(v \o z, t, n)
  BY <1>1, <1>3, <1>4, <1>5, Zenon
<1>7. FirstInOrder((v \o f) \o z, t, n)
  BY <1>6, Between
<1> QED
  BY <1>5, <1>7, Zenon DEF Three

LEMMA ThreeSend ==
    ASSUME NEW w \in Seq(Byte), NEW f \in Seq(Byte), NEW t \in Threads,
           NEW c \in Connections, handed[c][t] \in Nat,
           FirstInOrder(Three(w, f, <<>>), t, handed[c][t])
    PROVE  FirstInOrder(Three(w, f, NewBytes(t, c)), t, handed[c][t] + Size)
<1>1. PICK e \in Seq(Byte) : e = w \o f
  BY Joined
<1>2. e \o <<>> = e
  BY ConcatEmptySeq
<1>3. FirstInOrder(e, t, handed[c][t])
  BY <1>1, <1>2, Zenon DEF Three
<1>4. FirstInOrder(e \o NewBytes(t, c), t, handed[c][t] + Size)
  BY <1>3, Extended
<1> QED
  BY <1>1, <1>4, Zenon DEF Three

-----------------------------------------------------------------------------
(* The steps keep the order                                                  *)

\* A thread has only bytes of its own in its hands; what it writes past the
\* DeferredSender meets none of its own bytes there.
Owned ==
    /\ \A t \in Threads : pc[t] = "idle" => con[t] = Null
    /\ \A t \in Threads : \A i \in DOMAIN data[t] : data[t][i].thread = t
    /\ \A t \in Threads : pc[t] = "direct" =>
          \A c \in Connections : \A i \in DOMAIN deferred[c] :
             deferred[c][i].thread # t

OrderInv == Owned /\ ThreadOrder

InHand(t, c) == IF con[t] = c THEN data[t] ELSE <<>>

LEMMA HeldIs ==
    ASSUME NEW t \in Threads, NEW c \in Connections
    PROVE  Held(t, c) = Three(wire[c], deferred[c], InHand(t, c))
BY Zenon DEF Held, InHand, Three

LEMMA HeldNext ==
    ASSUME NEW t \in Threads, NEW c \in Connections
    PROVE  Held(t, c)' = Three(wire'[c], deferred'[c], InHand(t, c)')
BY Zenon DEF Held, InHand, Three

LEMMA HeldTypes ==
    ASSUME TypeOK, NEW t \in Threads, NEW c \in Connections
    PROVE  /\ wire[c] \in Seq(Byte) /\ deferred[c] \in Seq(Byte)
           /\ data[t] \in Seq(Byte) /\ InHand(t, c) \in Seq(Byte)
<1>1. /\ wire[c] \in Seq(Byte) /\ deferred[c] \in Seq(Byte)
      /\ data[t] \in Seq(Byte) /\ <<>> \in Seq(Byte)
  BY EmptySeq DEF TypeOK
<1> QED
  BY <1>1 DEF InHand

\* What the order of the bytes of u on d is before and after a step.
LEMMA OrderStep ==
    ASSUME ThreadOrder, NEW d \in Connections, NEW u \in Threads,
           d \notin disconnected, handed'[d][u] = handed[d][u],
           FirstInOrder(Three(wire[d], deferred[d], InHand(u, d)), u, handed[d][u]) =>
             FirstInOrder(Three(wire'[d], deferred'[d], InHand(u, d)'), u, handed[d][u])
    PROVE  FirstInOrder(Held(u, d)', u, handed'[d][u])
<1>1. FirstInOrder(Held(u, d), u, handed[d][u])
  BY DEF ThreadOrder
<1> QED
  BY <1>1, HeldIs, HeldNext, Zenon

\* A step that leaves alone what there is of u on d.
LEMMA OrderKept ==
    ASSUME ThreadOrder, NEW d \in Connections, NEW u \in Threads,
           d \notin disconnected, handed'[d][u] = handed[d][u],
           wire'[d] = wire[d], deferred'[d] = deferred[d], InHand(u, d)' = InHand(u, d)
    PROVE  FirstInOrder(Held(u, d)', u, handed'[d][u])
BY OrderStep

\* It is enough to look at one thread and one connection that is still there.
LEMMA OrderNext ==
    ASSUME \A d \in Connections, u \in Threads : d \notin disconnected' =>
             FirstInOrder(Held(u, d)', u, handed'[d][u])
    PROVE  ThreadOrder'
BY DEF ThreadOrder

LEMMA OrderInit == Init => OrderInv
<1> SUFFICES ASSUME Init PROVE OrderInv
  OBVIOUS
<1>1. Owned
  BY DEF Init, Owned
<1>2. ASSUME NEW c \in Connections, NEW t \in Threads
      PROVE  FirstInOrder(Held(t, c), t, handed[c][t])
  <2>1. Held(t, c) = <<>> /\ handed[c][t] = 0
    BY DEF Held, Init
  <2>2. BytesOf(<<>>, t) = {} /\ 1 .. 0 = {}
    BY DEF BytesOf
  <2>3. FirstInOrder(<<>>, t, 0)
    BY <2>2, FirstInOrderMeans
  <2> QED
    BY <2>1, <2>3
<1> QED
  BY <1>1, <1>2 DEF OrderInv, ThreadOrder

LEMMA OrderOther ==
    ASSUME OrderInv,
           UNCHANGED <<pc, con, data, handed, wire, disconnected, deferred>>
    PROVE  OrderInv'
<1>1. Owned'
  BY DEF OrderInv, Owned
<1>2. ASSUME NEW d \in Connections, NEW u \in Threads, d \notin disconnected'
      PROVE  FirstInOrder(Held(u, d)', u, handed'[d][u])
  <2>1. InHand(u, d)' = InHand(u, d)
    BY DEF InHand
  <2> QED
    BY <1>2, <2>1, OrderKept DEF OrderInv
<1> QED
  BY <1>1, <1>2, OrderNext DEF OrderInv

LEMMA OrderSend ==
    ASSUME Inv, OrderInv, NEW t \in Threads, NEW c \in Connections, Send(t, c)
    PROVE  OrderInv'
<1>1. /\ pc[t] = "idle" /\ con[t] = Null /\ con[t] \notin Connections
      /\ pc' = [pc EXCEPT ![t] = IF sending THEN "defer" ELSE "direct"]
      /\ con' = [con EXCEPT ![t] = c] /\ data' = [data EXCEPT ![t] = NewBytes(t, c)]
      /\ handed' = [handed EXCEPT ![c][t] = @ + Size]
      /\ UNCHANGED <<wire, disconnected, deferred>>
  BY OfAssumption DEF Send, OrderInv, Owned
<1>2. /\ pc \in [Threads -> {"idle", "direct", "defer"}]
      /\ con \in [Threads -> Connections \cup {Null}]
      /\ data \in [Threads -> Seq(Byte)]
      /\ handed \in [Connections -> [Threads -> Nat]]
  BY DEF Inv, TypeOK
<1>3. Owned'
  <2>1. \A u \in Threads : pc'[u] = "idle" => con'[u] = Null
    BY <1>1, <1>2 DEF OrderInv, Owned
  <2>2. \A i \in DOMAIN NewBytes(t, c) : NewBytes(t, c)[i].thread = t
    BY DEF NewBytes
  <2>3. \A u \in Threads : \A i \in DOMAIN data'[u] : data'[u][i].thread = u
    BY <1>1, <1>2, <2>2 DEF OrderInv, Owned
  <2>4. ASSUME NEW u \in Threads, pc'[u] = "direct", NEW d \in Connections,
               NEW i \in DOMAIN deferred'[d]
        PROVE  deferred'[d][i].thread # u
    <3>1. CASE u = t
      <4>1. ~sending
        BY <1>1, <1>2, <2>4, <3>1
      <4>2. deferred[d] = <<>>
        BY <4>1 DEF Inv, SendingHonest, HasEntry
      <4> QED
        BY <1>1, <2>4, <4>2
    <3>2. CASE u # t
      BY <1>1, <1>2, <2>4, <3>2 DEF OrderInv, Owned
    <3> QED
      BY <3>1, <3>2
  <2> QED
    BY <2>1, <2>3, <2>4 DEF Owned
<1>4. ASSUME NEW d \in Connections, NEW u \in Threads, d \notin disconnected'
      PROVE  FirstInOrder(Held(u, d)', u, handed'[d][u])
  <2>1. d \notin disconnected /\ wire'[d] = wire[d] /\ deferred'[d] = deferred[d]
    BY <1>1, <1>4
  <2>2. CASE u = t /\ d = c
    <3>1. PICK w \in Seq(Byte), f \in Seq(Byte) : w = wire[c] /\ f = deferred[c]
      BY HeldTypes DEF Inv
    <3>2. InHand(t, c) = <<>> /\ InHand(t, c)' = NewBytes(t, c)
      BY <1>1, <1>2 DEF InHand
    <3>3. handed[c][t] \in Nat /\ handed'[c][t] = handed[c][t] + Size
      BY <1>1, <1>2
    <3>4. FirstInOrder(Held(t, c), t, handed[c][t])
      BY <2>1, <2>2 DEF OrderInv, ThreadOrder
    <3>5. FirstInOrder(Three(w, f, <<>>), t, handed[c][t])
      BY <3>1, <3>2, <3>4, HeldIs, Zenon
    <3>6. FirstInOrder(Three(w, f, NewBytes(t, c)), t, handed[c][t] + Size)
      BY <3>3, <3>5, ThreeSend
    <3>7. Held(t, c)' = Three(w, f, NewBytes(t, c))
      BY <2>1, <2>2, <3>1, <3>2, HeldNext, Zenon
    <3> QED
      BY <2>2, <3>3, <3>6, <3>7, Zenon
  <2>3. CASE ~(u = t /\ d = c)
    <3>1. handed'[d][u] = handed[d][u]
      BY <1>1, <1>2, <2>3
    <3>2. InHand(u, d)' = InHand(u, d)
      <4>1. CASE u # t
        BY <1>1, <1>2, <4>1 DEF InHand
      <4>2. CASE u = t
        <5>1. con[u] # d /\ con'[u] # d
          BY <1>1, <1>2, <2>3, <4>2
        <5> QED
          BY <5>1 DEF InHand
      <4> QED
        BY <4>1, <4>2
    <3> QED
      BY <2>1, <3>1, <3>2, OrderKept DEF OrderInv
  <2> QED
    BY <2>2, <2>3
<1> QED
  BY <1>3, <1>4, OrderNext DEF OrderInv

\* What returning from send() does to the hands of all threads.
LEMMA AfterReturn ==
    ASSUME TypeOK, NEW t \in Threads, con[t] \in Connections, Leave(t)
    PROVE  /\ pc'[t] = "idle" /\ con'[t] = Null /\ data'[t] = <<>>
           /\ \A u \in Threads : u # t => /\ pc'[u] = pc[u] /\ con'[u] = con[u]
                                          /\ data'[u] = data[u]
           /\ \A d \in Connections : InHand(t, d)' = <<>>
           /\ \A d \in Connections, u \in Threads :
                 ~(u = t /\ d = con[t]) => InHand(u, d)' = InHand(u, d)
<1>1. /\ pc'[t] = "idle" /\ con'[t] = Null /\ data'[t] = <<>>
      /\ \A u \in Threads : u # t => /\ pc'[u] = pc[u] /\ con'[u] = con[u]
                                     /\ data'[u] = data[u]
  BY DEF Leave, TypeOK
<1>2. ASSUME NEW d \in Connections PROVE InHand(t, d)' = <<>>
  BY <1>1, OfAssumption DEF InHand
<1>3. ASSUME NEW d \in Connections, NEW u \in Threads, ~(u = t /\ d = con[t])
      PROVE  InHand(u, d)' = InHand(u, d)
  <2>1. CASE u # t
    BY <1>1, <2>1 DEF InHand
  <2>2. CASE u = t
    <3>1. InHand(t, d) = <<>>
      BY <1>3, <2>2 DEF InHand
    <3> QED
      BY <1>2, <2>2, <3>1
  <2> QED
    BY <2>1, <2>2
<1> QED
  BY <1>1, <1>2, <1>3

LEMMA OrderDefer ==
    ASSUME Inv, OrderInv, NEW t \in Threads, Defer(t)
    PROVE  OrderInv'
<1>1. /\ con[t] \in Connections /\ Leave(t) /\ TypeOK
      /\ deferred' = [deferred EXCEPT ![con[t]] = deferred[con[t]] \o data[t]]
      /\ UNCHANGED <<handed, wire, disconnected>>
      /\ deferred \in [Connections -> Seq(Byte)] /\ data[t] \in Seq(Byte)
  BY DEF Inv, TypeOK, Defer
<1>2. PICK c \in Connections : c = con[t]
  BY <1>1
<1>3. PICK x \in Seq(Byte), f \in Seq(Byte) : x = data[t] /\ f = deferred[c]
  BY <1>1
<1>4. /\ deferred'[c] = f \o x
      /\ \A d \in Connections : d # c => deferred'[d] = deferred[d]
  BY <1>1, <1>2, <1>3
<1>5. \A i \in DOMAIN x : x[i].thread = t
  BY <1>3 DEF OrderInv, Owned
<1>6. Owned'
  <2>1. \A u \in Threads : pc'[u] = "idle" => con'[u] = Null
    BY <1>1, AfterReturn DEF OrderInv, Owned
  <2>2. \A u \in Threads : \A i \in DOMAIN data'[u] : data'[u][i].thread = u
    BY <1>1, AfterReturn DEF OrderInv, Owned
  <2>3. ASSUME NEW u \in Threads, pc'[u] = "direct", NEW d \in Connections,
               NEW i \in DOMAIN deferred'[d]
        PROVE  deferred'[d][i].thread # u
    <3>1. u # t /\ pc[u] = "direct"
      BY <1>1, <2>3, AfterReturn
    <3>2. \A k \in DOMAIN deferred[d] : deferred[d][k].thread # u
      BY <3>1 DEF OrderInv, Owned
    <3>3. CASE d = c
      <4>1. i \in DOMAIN (f \o x) /\ deferred'[d][i] = (f \o x)[i]
        BY <1>4, <2>3, <3>3
      <4>2. \/ i \in DOMAIN f /\ (f \o x)[i] = f[i]
            \/ \E k \in DOMAIN x : (f \o x)[i] = x[k]
        BY <4>1, JoinedFrom
      <4>3. \A k \in DOMAIN f : f[k].thread # u
        BY <1>3, <3>2, <3>3
      <4> QED
        BY <1>5, <3>1, <4>1, <4>2, <4>3, Zenon
    <3>4. CASE d # c
      BY <1>4, <2>3, <3>2, <3>4
    <3> QED
      BY <3>3, <3>4
  <2> QED
    BY <2>1, <2>2, <2>3 DEF Owned
<1>7. ASSUME NEW d \in Connections, NEW u \in Threads, d \notin disconnected'
      PROVE  FirstInOrder(Held(u, d)', u, handed'[d][u])
  <2>1. d \notin disconnected /\ wire'[d] = wire[d] /\ handed'[d][u] = handed[d][u]
    BY <1>1, <1>7
  <2>2. CASE d # c
    <3>1. deferred'[d] = deferred[d] /\ InHand(u, d)' = InHand(u, d)
      BY <1>1, <1>2, <1>4, <2>2, AfterReturn
    <3> QED
      BY <2>1, <3>1, OrderKept DEF OrderInv
  <2>3. CASE d = c
    <3>1. PICK w \in Seq(Byte), h \in Seq(Byte) : w = wire[d] /\ h = InHand(u, d)
      BY <1>1, HeldTypes
    <3>2. FirstInOrder(Three(w, f, h), u, handed[d][u]) =>
             FirstInOrder(Three(w, f \o x, InHand(u, d)'), u, handed[d][u])
      <4>1. CASE u = t
        <5>1. h = x /\ InHand(u, d)' = <<>>
          BY <1>1, <1>2, <1>3, <2>3, <3>1, <4>1, AfterReturn DEF InHand
        <5>2. Three(w, f \o x, <<>>) = Three(w, f, x)
          BY ThreeDefer
        <5> QED
          BY <5>1, <5>2, Zenon
      <4>2. CASE u # t
        <5>1. InHand(u, d)' = h
          BY <1>1, <3>1, <4>2, AfterReturn
        <5>2. \A i \in DOMAIN x : x[i].thread # u
          BY <1>5, <4>2
        <5>3. FirstInOrder(Three(w, f, h), u, handed[d][u]) =>
                 FirstInOrder(Three(w, f \o x, h), u, handed[d][u])
          BY <5>2, ThreeDeferOther
        <5> QED
          BY <5>1, <5>3, Zenon
      <4> QED
        BY <4>1, <4>2
    <3>3. FirstInOrder(Three(wire[d], deferred[d], InHand(u, d)), u, handed[d][u]) =>
             FirstInOrder(Three(wire'[d], deferred'[d], InHand(u, d)'), u, handed[d][u])
      BY <1>3, <1>4, <2>1, <2>3, <3>1, <3>2, Zenon
    <3> QED
      BY <2>1, <3>3, OrderStep DEF OrderInv
  <2> QED
    BY <2>2, <2>3
<1> QED
  BY <1>6, <1>7, OrderNext DEF OrderInv

\* The socket takes the first n bytes of what a thread has in its hands; the
\* rest, which may be nothing, is still there.
LEMMA OrderTaken ==
    ASSUME Inv, OrderInv, NEW t \in Threads, NEW n \in 0 .. Len(data[t]),
           NEW c \in Connections, c = con[t],
           pc[t] = "direct", Takes(con[t], data[t], n),
           UNCHANGED <<handed, deferred, disconnected>>,
           InHand(t, c)' = Rest(data[t], n),
           \A d \in Connections, u \in Threads :
              ~(u = t /\ d = con[t]) => InHand(u, d)' = InHand(u, d)
    PROVE  ThreadOrder'
<1>1. /\ TypeOK /\ data[t] \in Seq(Byte) /\ wire \in [Connections -> Seq(Byte)]
  BY DEF Inv, TypeOK
<1>2. c = con[t]
  OBVIOUS
<1>3. PICK x \in Seq(Byte), f \in Seq(Byte), w \in Seq(Byte) :
         x = data[t] /\ f = deferred[c] /\ w = wire[c]
  BY <1>1, HeldTypes
<1>4. PICK y \in Seq(Byte), z \in Seq(Byte) : y = Front(x, n) /\ z = Rest(x, n)
  BY <1>3, FrontAndRest
<1>5. x = y \o z /\ \A i \in DOMAIN y : y[i].thread = t
  <2>1. \A i \in DOMAIN x : x[i].thread = t
    BY <1>3 DEF OrderInv, Owned
  <2>2. /\ Front(x, n) \o Rest(x, n) = x
        /\ \A i \in DOMAIN Front(x, n) : \E k \in DOMAIN x : Front(x, n)[i] = x[k]
    BY <1>3, FrontAndRest
  <2> QED
    BY <1>4, <2>1, <2>2, Zenon
<1>6. /\ wire'[c] = w \o y
      /\ \A d \in Connections : d # c => wire'[d] = wire[d]
  BY <1>1, <1>2, <1>3, <1>4 DEF Takes
<1>7. ASSUME NEW d \in Connections, NEW u \in Threads, d \notin disconnected'
      PROVE  FirstInOrder(Held(u, d)', u, handed'[d][u])
  <2>1. /\ d \notin disconnected /\ deferred'[d] = deferred[d]
        /\ handed'[d][u] = handed[d][u]
    BY <1>7
  <2>2. CASE d # c
    <3>1. wire'[d] = wire[d] /\ InHand(u, d)' = InHand(u, d)
      BY <1>2, <1>6, <2>2
    <3> QED
      BY <2>1, <3>1, OrderKept DEF OrderInv
  <2>3. CASE d = c
    <3>1. PICK h \in Seq(Byte) : h = InHand(u, d)
      BY <1>1, HeldTypes
    <3>2. FirstInOrder(Three(w, f, h), u, handed[d][u]) =>
             FirstInOrder(Three(w \o y, f, InHand(u, d)'), u, handed[d][u])
      <4>1. CASE u = t
        <5>1. h = y \o z /\ InHand(u, d)' = z
          <6>1. InHand(t, c) = data[t]
            BY <1>2, Zenon DEF InHand
          <6>2. h = x
            BY <1>3, <2>3, <3>1, <4>1, <6>1
          <6>3. InHand(u, d)' = z
            BY <1>3, <1>4, <2>3, <4>1
          <6> QED
            BY <1>5, <6>2, <6>3, Zenon
        <5>2. \A i \in DOMAIN f : f[i].thread # u
          BY <1>3, <4>1 DEF OrderInv, Owned
        <5>3. FirstInOrder(Three(w, f, y \o z), u, handed[d][u]) =>
                 FirstInOrder(Three(w \o y, f, z), u, handed[d][u])
          BY <5>2, ThreeDirectOwn
        <5> QED
          BY <5>1, <5>3, Zenon
      <4>2. CASE u # t
        <5>1. InHand(u, d)' = h
          BY <3>1, <4>2
        <5>2. \A i \in DOMAIN y : y[i].thread # u
          BY <1>5, <4>2
        <5>3. FirstInOrder(Three(w, f, h), u, handed[d][u]) =>
                 FirstInOrder(Three(w \o y, f, h), u, handed[d][u])
          BY <5>2, ThreeDirectOther
        <5> QED
          BY <5>1, <5>3, Zenon
      <4> QED
        BY <4>1, <4>2
    <3>3. FirstInOrder(Three(wire[d], deferred[d], InHand(u, d)), u, handed[d][u]) =>
             FirstInOrder(Three(wire'[d], deferred'[d], InHand(u, d)'), u, handed[d][u])
      BY <1>3, <1>6, <2>1, <2>3, <3>1, <3>2, Zenon
    <3> QED
      BY <2>1, <3>3, OrderStep DEF OrderInv
  <2> QED
    BY <2>2, <2>3
<1> QED
  BY <1>7, OrderNext

LEMMA OrderDirect ==
    ASSUME Inv, OrderInv, NEW t \in Threads, Direct(t)
    PROVE  OrderInv'
<1>1. /\ con[t] \in Connections /\ TypeOK /\ data[t] \in Seq(Byte)
      /\ pc[t] = "direct" /\ UNCHANGED <<handed, deferred>>
      /\ pc \in [Threads -> {"idle", "direct", "defer"}]
      /\ data \in [Threads -> Seq(Byte)]
  BY DEF Inv, TypeOK, Direct
<1>2. ASSUME Leave(t) PROVE Owned'
  <2>1. \A u \in Threads : pc'[u] = "idle" => con'[u] = Null
    BY <1>1, <1>2, AfterReturn DEF OrderInv, Owned
  <2>2. \A u \in Threads : \A i \in DOMAIN data'[u] : data'[u][i].thread = u
    BY <1>1, <1>2, AfterReturn DEF OrderInv, Owned
  <2>3. \A u \in Threads : pc'[u] = "direct" => pc[u] = "direct"
    BY <1>1, <1>2, AfterReturn
  <2> QED
    BY <1>1, <2>1, <2>2, <2>3 DEF OrderInv, Owned
<1>3. PICK c \in Connections : c = con[t]
  BY <1>1
<1>4. ASSUME NEW n \in 0 .. Len(data[t]), Takes(con[t], data[t], n),
             IF n = Len(data[t])
             THEN Leave(t)
             ELSE /\ data' = [data EXCEPT ![t] = Rest(@, n)]
                  /\ pc' = [pc EXCEPT ![t] = "defer"]
                  /\ UNCHANGED con,
             UNCHANGED <<sock, disconnected>>
      PROVE  OrderInv'
  <2>1. CASE n = Len(data[t])
    <3>1. Leave(t)
      BY <1>4, <2>1
    <3>2. Rest(data[t], n) = <<>>
      BY <1>1, <2>1 DEF Rest
    <3>3. InHand(t, c)' = Rest(data[t], n)
      BY <1>1, <3>1, <3>2, AfterReturn
    <3>4. \A d \in Connections, u \in Threads :
              ~(u = t /\ d = con[t]) => InHand(u, d)' = InHand(u, d)
      BY <1>1, <3>1, AfterReturn
    <3>5. ThreadOrder'
      BY <1>1, <1>4, <1>3, <3>3, <3>4, OrderTaken
    <3> QED
      BY <1>2, <3>1, <3>5 DEF OrderInv
  <2>2. CASE n # Len(data[t])
    <3>1. /\ data' = [data EXCEPT ![t] = Rest(data[t], n)]
          /\ pc' = [pc EXCEPT ![t] = "defer"] /\ con' = con
      BY <1>4, <2>2
    <3>2. data'[t] = Rest(data[t], n) /\ \A u \in Threads : u # t => data'[u] = data[u]
      BY <1>1, <3>1
    <3>3. Owned'
      <4>1. \A i \in DOMAIN data[t] : data[t][i].thread = t
        BY DEF OrderInv, Owned
      <4>2. \A i \in DOMAIN Rest(data[t], n) :
               \E k \in DOMAIN data[t] : Rest(data[t], n)[i] = data[t][k]
        BY <1>1, FrontAndRest
      <4>3. \A i \in DOMAIN Rest(data[t], n) : Rest(data[t], n)[i].thread = t
        BY <4>1, <4>2, Zenon
      <4>4. \A u \in Threads : \A i \in DOMAIN data'[u] : data'[u][i].thread = u
        BY <3>2, <4>3 DEF OrderInv, Owned
      <4>5. \A u \in Threads : /\ pc'[u] = "direct" => pc[u] = "direct"
                               /\ pc'[u] = "idle" => pc[u] = "idle"
        BY <1>1, <3>1
      <4> QED
        BY <1>1, <3>1, <4>4, <4>5 DEF OrderInv, Owned
    <3>4. InHand(t, c)' = Rest(data[t], n)
      <4>1. con'[t] = c
        BY <1>3, <3>1
      <4> QED
        BY <3>2, <4>1 DEF InHand
    <3>5. \A d \in Connections, u \in Threads :
              ~(u = t /\ d = con[t]) => InHand(u, d)' = InHand(u, d)
      BY <3>1, <3>2 DEF InHand
    <3>6. ThreadOrder'
      BY <1>1, <1>4, <1>3, <3>4, <3>5, OrderTaken
    <3> QED
      BY <3>3, <3>6 DEF OrderInv
  <2> QED
    BY <2>1, <2>2
<1>5. ASSUME Disconnect(con[t]), Leave(t), wire' = wire PROVE OrderInv'
  <2>1. ASSUME NEW d \in Connections, NEW u \in Threads, d \notin disconnected'
        PROVE  FirstInOrder(Held(u, d)', u, handed'[d][u])
    <3>1. d # con[t] /\ d \notin disconnected
      BY <1>5, <2>1 DEF Disconnect
    <3>2. InHand(u, d)' = InHand(u, d)
      BY <1>1, <1>5, <3>1, AfterReturn
    <3> QED
      BY <1>1, <1>5, <3>1, <3>2, OrderKept DEF OrderInv
  <2> QED
    BY <1>2, <1>5, <2>1, OrderNext DEF OrderInv
<1> QED
  BY <1>4, <1>5 DEF Direct

LEMMA OrderFlush ==
    ASSUME Inv, OrderInv, NEW c \in Connections, Flush(c)
    PROVE  OrderInv'
<1>1. /\ TypeOK /\ deferred \in [Connections -> Seq(Byte)]
      /\ wire \in [Connections -> Seq(Byte)]
      /\ UNCHANGED <<pc, con, data, handed>>
  BY DEF Inv, TypeOK, Flush
<1>2. \A u \in Threads, d \in Connections : InHand(u, d)' = InHand(u, d)
  BY <1>1 DEF InHand
<1>3. ASSUME \A d \in Connections : \A i \in DOMAIN deferred'[d] :
               \E k \in DOMAIN deferred[d] : deferred'[d][i] = deferred[d][k]
      PROVE  Owned'
  <2>1. ASSUME NEW u \in Threads, pc'[u] = "direct", NEW d \in Connections,
               NEW i \in DOMAIN deferred'[d]
        PROVE  deferred'[d][i].thread # u
    <3>1. \A k \in DOMAIN deferred[d] : deferred[d][k].thread # u
      BY <1>1, <2>1 DEF OrderInv, Owned
    <3> QED
      BY <1>3, <2>1, <3>1, Zenon
  <2> QED
    BY <1>1, <2>1 DEF OrderInv, Owned
<1>4. ASSUME NEW n \in 0 .. Len(deferred[c]), Takes(c, deferred[c], n),
             deferred' = [deferred EXCEPT ![c] = Rest(@, n)],
             UNCHANGED disconnected
      PROVE  OrderInv'
  <2>1. PICK f \in Seq(Byte), w \in Seq(Byte) : f = deferred[c] /\ w = wire[c]
    BY <1>1
  <2>2. PICK y \in Seq(Byte), z \in Seq(Byte) : y = Front(f, n) /\ z = Rest(f, n)
    BY <1>4, <2>1, FrontAndRest
  <2>3. f = y \o z /\ \A i \in DOMAIN z : \E k \in DOMAIN f : z[i] = f[k]
    <3>1. /\ Front(f, n) \o Rest(f, n) = f
          /\ \A i \in DOMAIN Rest(f, n) : \E k \in DOMAIN f : Rest(f, n)[i] = f[k]
      BY <1>4, <2>1, FrontAndRest
    <3> QED
      BY <2>2, <3>1, Zenon
  <2>4. /\ wire'[c] = w \o y /\ deferred'[c] = z
        /\ \A d \in Connections : d # c => wire'[d] = wire[d] /\ deferred'[d] = deferred[d]
    BY <1>1, <1>4, <2>1, <2>2 DEF Takes
  <2>5. Owned'
    <3>1. ASSUME NEW d \in Connections, NEW i \in DOMAIN deferred'[d]
          PROVE  \E k \in DOMAIN deferred[d] : deferred'[d][i] = deferred[d][k]
      <4>1. CASE d = c
        BY <2>1, <2>3, <2>4, <3>1, <4>1, Zenon
      <4>2. CASE d # c
        BY <2>4, <3>1, <4>2
      <4> QED
        BY <4>1, <4>2
    <3> QED
      BY <1>3, <3>1
  <2>6. ASSUME NEW d \in Connections, NEW u \in Threads, d \notin disconnected'
        PROVE  FirstInOrder(Held(u, d)', u, handed'[d][u])
    <3>1. /\ d \notin disconnected /\ InHand(u, d)' = InHand(u, d)
          /\ handed'[d][u] = handed[d][u]
      BY <1>1, <1>2, <1>4, <2>6
    <3>2. CASE d # c
      BY <2>4, <3>1, <3>2, OrderKept DEF OrderInv
    <3>3. CASE d = c
      <4>1. PICK h \in Seq(Byte) : h = InHand(u, d)
        BY <1>1, HeldTypes
      <4>2. Three(w \o y, z, h) = Three(w, y \o z, h)
        BY ThreeFlush
      <4>3. Three(wire'[d], deferred'[d], InHand(u, d)')
              = Three(wire[d], deferred[d], InHand(u, d))
        BY <2>1, <2>3, <2>4, <3>1, <3>3, <4>1, <4>2, Zenon
      <4>4. FirstInOrder(Three(wire[d], deferred[d], InHand(u, d)), u, handed[d][u]) =>
               FirstInOrder(Three(wire'[d], deferred'[d], InHand(u, d)'), u, handed[d][u])
        BY <4>3, Zenon
      <4> QED
        BY <3>1, <4>4, OrderStep DEF OrderInv
    <3> QED
      BY <3>2, <3>3
  <2> QED
    BY <2>5, <2>6, OrderNext DEF OrderInv
<1>5. ASSUME Disconnect(c), deferred' = [deferred EXCEPT ![c] = <<>>], wire' = wire
      PROVE  OrderInv'
  <2>1. \A d \in Connections : deferred'[d] = IF d = c THEN <<>> ELSE deferred[d]
    BY <1>1, <1>5
  <2>2. Owned'
    BY <1>3, <2>1
  <2>3. ASSUME NEW d \in Connections, NEW u \in Threads, d \notin disconnected'
        PROVE  FirstInOrder(Held(u, d)', u, handed'[d][u])
    <3>1. d # c /\ d \notin disconnected
      BY <1>5, <2>3 DEF Disconnect
    <3>2. wire'[d] = wire[d] /\ deferred'[d] = deferred[d]
      BY <1>5, <2>1, <3>1
    <3> QED
      BY <1>1, <1>2, <3>1, <3>2, OrderKept DEF OrderInv
  <2> QED
    BY <2>2, <2>3, OrderNext DEF OrderInv
<1> QED
  BY <1>4, <1>5 DEF Flush

LEMMA OrderStays == Inv /\ OrderInv /\ [Next]_vars => OrderInv'
<1> SUFFICES ASSUME Inv, OrderInv, [Next]_vars PROVE OrderInv'
  OBVIOUS
<1>1. CASE UNCHANGED vars
  BY <1>1, OrderOther DEF vars
<1>2. CASE \/ Select \/ Selected \/ \E c \in Connections : Close(c)
  BY <1>2, OrderOther DEF Select, Selected, Close
<1>3. CASE \E t \in Threads : Direct(t) \/ Defer(t)
  BY <1>3, OrderDirect, OrderDefer
<1>4. CASE \E c \in Connections : Flush(c) \/ \E t \in Threads : Send(t, c)
  BY <1>4, OrderFlush, OrderSend
<1> QED
  BY <1>1, <1>2, <1>3, <1>4 DEF Next

-----------------------------------------------------------------------------
(* The theorems                                                              *)

\* Every variable keeps its type, for any number of threads and connections
\* and any size of messages.
THEOREM TypeCorrect == Spec => []TypeOK
<1>1. Inv => TypeOK
  BY DEF Inv
<1> QED
  BY <1>1, InvInit, InvNext, PTL DEF Spec

\* Nobody writes around data that waits: the flag is set as long as the
\* DeferredSender has data of any connection, however errors, the threads that
\* send and the one that writes interleave.
THEOREM FlagIsHonest == Spec => []SendingHonest
<1>1. Inv => SendingHonest
  BY DEF Inv
<1> QED
  BY <1>1, InvInit, InvNext, PTL DEF Spec

\* Whatever the threads and the DeferredSender do to each other, the bytes of
\* one thread on a connection that is not lost are its first bytes, each once
\* and in the order of send(), in what the socket has taken, then what waits at
\* the DeferredSender, then what is still in the hands of the thread.
THEOREM ThreadsKeepOrder == Spec => []ThreadOrder
<1>1. Init => Inv /\ OrderInv
  BY InvInit, OrderInit
<1>2. Inv /\ OrderInv /\ [Next]_vars => (Inv /\ OrderInv)'
  BY InvNext, OrderStays
<1>3. OrderInv => ThreadOrder
  BY DEF OrderInv
<1> QED
  BY <1>1, <1>2, <1>3, PTL DEF Spec

=============================================================================
