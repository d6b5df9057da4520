------------------------------ MODULE VnsProofs ------------------------------
(***************************************************************************)
(* Theorems about Vns: the types of its state, the session between each    *)
(* router and the bridge, what the two ends know of the interfaces, and    *)
(* the packets a router is sent.                                           *)
(***************************************************************************)
EXTENDS Vns, SequenceTheorems, TLAPS

-----------------------------------------------------------------------------
(* The invariant                                                             *)

\* What a router in each step of its session may have sent, packets apart, that
\* the bridge has not read.
RequestFrom ==
    [s \in Waiting |->
       CASE s = "status" -> {"AUTH_REPLY"} [] s = "rtable" -> {"OPEN_TEMPLATE"}
         [] s = "open" -> {"OPEN"} [] OTHER -> {}]

\* The places of a client in the list: one, once the bridge has accepted it.
At(r) == {i \in DOMAIN srclients : srclients[i] = r}

\* A connection begins empty; while the bridge is about to greet a client, the
\* client has been sent nothing but packets.
Connected(r) ==
    /\ conn[r] = "none" <=> router[r] = "new"
    /\ conn[r] \in {"none", "backlog"} =>
          /\ router[r] \in {"new", "auth"} \cup Ended
          /\ toRouter[r] = <<>> /\ heard[r] = <<>>
          /\ At(r) = {}
    /\ conn[r] # "open" => toBridge[r] = <<>>
    /\ conn[r] = "open" => At(r) # {}
    /\ greeting = r => conn[r] = "open"
    /\ greeting = r /\ router[r] \in Waiting =>
          router[r] = "auth" /\ ControlsIn(toRouter[r]) = {}

\* At most one message of the session between a router and the bridge, an answer
\* among A or a request among R.
Step(q, b, A, R) ==
    /\ AtMostOne(ControlsIn(q)) /\ AtMostOne(ControlsIn(b))
    /\ ControlsIn(q) = {} \/ ControlsIn(b) = {}
    /\ \A i \in ControlsIn(q) : q[i].type \in A
    /\ \A i \in ControlsIn(b) : b[i].type \in R

InStep(r) == router[r] \in Waiting =>
    Step(toRouter[r], toBridge[r], Awaited[router[r]], RequestFrom[router[r]])

\* The hardware information names every interface, and comes after the bridge
\* has mapped them all.
Known(r) ==
    /\ router[r] = "ready" => iflist[r] = Interfaces /\ interfaces
    /\ \A i \in DOMAIN toRouter[r] : toRouter[r][i].type = "HWINFO" =>
          toRouter[r][i].intfs = Interfaces /\ interfaces
    /\ \A i \in DOMAIN toRouter[r] : IsPacket(toRouter[r][i]) =>
          toRouter[r][i].packet >= 1
    /\ \A i \in DOMAIN toBridge[r] : IsPacket(toBridge[r][i]) =>
          toBridge[r][i].intfs \subseteq mapped

\* The packets read and the packets in q are those from first to last.
Feed(h, q, first, last) ==
    /\ \A k \in DOMAIN h : h[k] = first + k - 1
    /\ first + Len(h) <= last + 1
    /\ \A i \in PacketsIn(q) : q[i].packet \in first + Len(h) .. last
    /\ \A n \in first + Len(h) .. last : \E i \in PacketsIn(q) : q[i].packet = n
    /\ \A i, j \in PacketsIn(q) : i < j => q[i].packet < q[j].packet

\* The last packet that was broadcast to the client at place i of the list.
LastAt(i) == IF position > 0 /\ i >= position
             THEN Len(packets) - 1 ELSE Len(packets)

Fed(r) == conn[r] = "open" /\ router[r] \in Waiting =>
    \A i \in At(r) : Feed(heard[r], toRouter[r], joined[r], LastAt(i))

Shared ==
    /\ interfaces => mapped = Interfaces
    /\ position > 0 => packets # <<>>

Session(r) == Connected(r) /\ InStep(r) /\ Known(r) /\ Fed(r)

SessionInv == TypeOK /\ Shared /\ \A r \in Routers : Session(r)

-----------------------------------------------------------------------------
(* Sequences of messages                                                     *)

LEMMA Single == ASSUME NEW S, NEW q \in Seq(S), NEW m \in S
                PROVE  q \o <<m>> = Append(q, m)
  BY AppendIsConcat

LEMMA Nothing == ASSUME NEW S, NEW q \in Seq(S)
                 PROVE  q \o <<>> = q
  BY ConcatEmptySeq

\* Append, element by element.
LEMMA Appended ==
  ASSUME NEW S, NEW q \in Seq(S), NEW m \in S
  PROVE  /\ Append(q, m) \in Seq(S)
         /\ Len(Append(q, m)) = Len(q) + 1
         /\ DOMAIN Append(q, m) = DOMAIN q \cup {Len(q) + 1}
         /\ \A i \in DOMAIN q : Append(q, m)[i] = q[i]
         /\ Append(q, m)[Len(q) + 1] = m
         /\ \A i \in DOMAIN q : i \in Nat /\ i < Len(q) + 1
         /\ Len(q) \in Nat
  <1>1. /\ Append(q, m) \in Seq(S)
        /\ Len(Append(q, m)) = Len(q) + 1
        /\ \A i \in 1 .. Len(q) : Append(q, m)[i] = q[i]
        /\ Append(q, m)[Len(q) + 1] = m
    BY AppendProperties
  <1>2. DOMAIN q = 1 .. Len(q) /\ Len(q) \in Nat
    BY LenProperties
  <1>3. DOMAIN Append(q, m) = 1 .. Len(Append(q, m))
    BY <1>1, LenProperties
  <1> QED BY <1>1, <1>2, <1>3

\* Tail, element by element.
LEMMA Shifted ==
  ASSUME NEW S, NEW q \in Seq(S), q # <<>>
  PROVE  /\ Tail(q) \in Seq(S)
         /\ Head(q) = q[1] /\ Head(q) \in S
         /\ 1 \in DOMAIN q
         /\ \A i \in DOMAIN Tail(q) : /\ i \in Nat /\ i >= 1 /\ i + 1 \in DOMAIN q
                                      /\ Tail(q)[i] = q[i + 1]
         /\ \A j \in DOMAIN q : j \in Nat /\ j >= 1
         /\ \A j \in DOMAIN q : j # 1 => j - 1 \in DOMAIN Tail(q)
  <1>1. /\ Len(q) \in Nat /\ Len(q) >= 1 /\ DOMAIN q = 1 .. Len(q)
    BY LenProperties, EmptySeq
  <1>2. /\ Head(q) \in S /\ Tail(q) \in Seq(S)
        /\ Len(Tail(q)) = Len(q) - 1
        /\ \A i \in 1 .. Len(Tail(q)) : Tail(q)[i] = q[i + 1]
    BY HeadTailProperties
  <1>3. Head(q) = q[1]
    BY <1>1
  <1>4. DOMAIN Tail(q) = 1 .. Len(q) - 1
    BY <1>2, LenProperties
  <1> QED BY <1>1, <1>2, <1>3, <1>4

LEMMA EmptyIsSeq == ASSUME NEW S PROVE <<>> \in Seq(S) /\ DOMAIN <<>> = {} /\ Len(<<>>) = 0
  BY EmptySeq, LenProperties

-----------------------------------------------------------------------------
(* Step: the messages of a session that are on their way                     *)

\* What sending a message does to the places of the controls.
LEMMA ControlsOfAppend ==
  ASSUME NEW q \in Seq(Message), NEW m \in Message
  PROVE  /\ IsPacket(m) => ControlsIn(Append(q, m)) = ControlsIn(q)
         /\ IsControl(m) => ControlsIn(Append(q, m)) = ControlsIn(q) \cup {Len(q) + 1}
         /\ \A i \in ControlsIn(q) : Append(q, m)[i] = q[i]
  BY Appended DEF ControlsIn, IsControl, IsPacket

\* What reading a message does to them.
LEMMA ControlsOfTail ==
  ASSUME NEW q \in Seq(Message), q # <<>>
  PROVE  /\ \A i \in ControlsIn(Tail(q)) : /\ i \in Nat /\ i + 1 \in ControlsIn(q)
                                           /\ i + 1 # 1
                                           /\ Tail(q)[i] = q[i + 1]
         /\ IsControl(Head(q)) => 1 \in ControlsIn(q) /\ q[1] = Head(q)
  BY Shifted DEF ControlsIn

LEMMA StepPacketSent ==
  ASSUME NEW q \in Seq(Message), NEW b, NEW m \in Message, NEW A, NEW R,
         IsPacket(m), Step(q, b, A, R)
  PROVE  Step(Append(q, m), b, A, R)
  BY ControlsOfAppend DEF Step

LEMMA StepPacketAsked ==
  ASSUME NEW q, NEW b \in Seq(Message), NEW m \in Message, NEW A, NEW R,
         IsPacket(m), Step(q, b, A, R)
  PROVE  Step(q, Append(b, m), A, R)
  BY ControlsOfAppend DEF Step

LEMMA StepPacketRead ==
  ASSUME NEW q \in Seq(Message), NEW b, NEW A, NEW R,
         q # <<>>, Step(q, b, A, R)
  PROVE  Step(Tail(q), b, A, R)
  <1>1. ControlsIn(q) = {} => ControlsIn(Tail(q)) = {}
    BY ControlsOfTail
  <1>2. ASSUME NEW i \in ControlsIn(Tail(q)) PROVE Tail(q)[i].type \in A
    <2>1. i + 1 \in ControlsIn(q) /\ Tail(q)[i] = q[i + 1]
      BY ControlsOfTail
    <2> QED BY <2>1 DEF Step
  <1>3. AtMostOne(ControlsIn(Tail(q)))
    <2>1. SUFFICES ASSUME NEW x \in ControlsIn(Tail(q)), NEW y \in ControlsIn(Tail(q))
                   PROVE  x = y
      BY DEF AtMostOne
    <2>2. x + 1 \in ControlsIn(q) /\ y + 1 \in ControlsIn(q) /\ x \in Nat /\ y \in Nat
      BY ControlsOfTail
    <2>3. x + 1 = y + 1
      BY <2>2 DEF Step, AtMostOne
    <2> QED BY <2>2, <2>3
  <1> QED BY <1>1, <1>2, <1>3 DEF Step

LEMMA StepPacketHandled ==
  ASSUME NEW q, NEW b \in Seq(Message), NEW A, NEW R,
         b # <<>>, Step(q, b, A, R)
  PROVE  Step(q, Tail(b), A, R)
  <1>1. Step(b, q, R, A)
    BY DEF Step
  <1>2. Step(Tail(b), q, R, A)
    BY <1>1, StepPacketRead
  <1> QED BY <1>2 DEF Step

\* The one message of the session is read: there is none left.
LEMMA StepRead ==
  ASSUME NEW q \in Seq(Message), NEW b, NEW A, NEW R,
         q # <<>>, Step(q, b, A, R), IsControl(Head(q))
  PROVE  /\ Head(q).type \in A
         /\ ControlsIn(Tail(q)) = {} /\ ControlsIn(b) = {}
  <1>1. 1 \in ControlsIn(q) /\ q[1] = Head(q)
    BY ControlsOfTail
  <1>2. ControlsIn(Tail(q)) = {}
    BY <1>1, ControlsOfTail DEF Step, AtMostOne
  <1> QED BY <1>1, <1>2 DEF Step

LEMMA StepHandled ==
  ASSUME NEW q, NEW b \in Seq(Message), NEW A, NEW R,
         b # <<>>, Step(q, b, A, R), IsControl(Head(b))
  PROVE  /\ Head(b).type \in R
         /\ ControlsIn(Tail(b)) = {} /\ ControlsIn(q) = {}
  <1>1. Step(b, q, R, A)
    BY DEF Step
  <1> QED BY <1>1, StepRead

LEMMA StepEmpty ==
  ASSUME NEW q, NEW b, NEW A, NEW R, ControlsIn(q) = {}, ControlsIn(b) = {}
  PROVE  Step(q, b, A, R)
  BY DEF Step, AtMostOne

LEMMA StepAnswered ==
  ASSUME NEW q \in Seq(Message), NEW b, NEW m \in Message, NEW A, NEW R,
         ControlsIn(q) = {}, ControlsIn(b) = {}, IsControl(m), m.type \in A
  PROVE  Step(Append(q, m), b, A, R)
  <1>1. ControlsIn(Append(q, m)) = {Len(q) + 1} /\ Append(q, m)[Len(q) + 1] = m
    BY ControlsOfAppend, Appended
  <1> QED BY <1>1 DEF Step, AtMostOne

LEMMA StepAsked ==
  ASSUME NEW q, NEW b \in Seq(Message), NEW m \in Message, NEW A, NEW R,
         ControlsIn(q) = {}, ControlsIn(b) = {}, IsControl(m), m.type \in R
  PROVE  Step(q, Append(b, m), A, R)
  <1>1. Step(Append(b, m), q, R, A)
    BY StepAnswered
  <1> QED BY <1>1 DEF Step

-----------------------------------------------------------------------------
(* Feed: the packets a router has read and is sent                           *)

LEMMA FeedStarts ==
  ASSUME NEW last \in Int
  PROVE  Feed(<<>>, <<>>, last + 1, last)
  BY EmptyIsSeq DEF Feed, PacketsIn

LEMMA FeedControlSent ==
  ASSUME NEW h, NEW q \in Seq(Message), NEW m \in Message, NEW first, NEW last,
         IsControl(m), Feed(h, q, first, last)
  PROVE  Feed(h, Append(q, m), first, last)
  <1>1. PacketsIn(Append(q, m)) = PacketsIn(q)
    BY Appended DEF PacketsIn, IsPacket, IsControl
  <1>2. \A i \in PacketsIn(q) : Append(q, m)[i] = q[i]
    BY Appended DEF PacketsIn
  <1> QED BY <1>1, <1>2 DEF Feed

LEMMA FeedPacketSent ==
  ASSUME NEW h \in Seq(Int), NEW q \in Seq(Message), NEW m \in Message,
         NEW first \in Int, NEW last \in Int,
         IsPacket(m), m.packet = last + 1, Feed(h, q, first, last)
  PROVE  Feed(h, Append(q, m), first, last + 1)
  <1> DEFINE a == Append(q, m)
             n == Len(q) + 1
             s == first + Len(h)
  <1>0. s \in Int
    BY LenProperties
  <1>1. PacketsIn(a) = PacketsIn(q) \cup {n} /\ n \notin PacketsIn(q)
    BY Appended DEF PacketsIn, IsPacket
  <1>2. /\ \A i \in PacketsIn(q) : a[i] = q[i] /\ i \in Nat /\ i < n
        /\ a[n] = m /\ n \in Nat
    BY Appended DEF PacketsIn
  <1>3. /\ \A k \in DOMAIN h : h[k] = first + k - 1
        /\ s <= last + 1
        /\ \A i \in PacketsIn(q) : q[i].packet \in s .. last
        /\ \A k \in s .. last : \E i \in PacketsIn(q) : q[i].packet = k
        /\ \A i, j \in PacketsIn(q) : i < j => q[i].packet < q[j].packet
    BY DEF Feed
  <1> HIDE DEF a, n, s
  <1>4. \A i \in PacketsIn(a) : a[i].packet \in s .. (last + 1)
    BY <1>0, <1>1, <1>2, <1>3
  <1>5. \A k \in s .. (last + 1) : \E i \in PacketsIn(a) : a[i].packet = k
    <2>1. TAKE k \in s .. (last + 1)
    <2>2. CASE k = last + 1
      BY <2>2, <1>1, <1>2
    <2>3. CASE k # last + 1
      <3>1. k \in s .. last
        BY <2>3, <1>0
      <3>2. PICK i \in PacketsIn(q) : q[i].packet = k
        BY <3>1, <1>3
      <3> QED BY <3>2, <1>1, <1>2
    <2> QED BY <2>2, <2>3
  <1>6. ASSUME NEW i \in PacketsIn(a), NEW j \in PacketsIn(a), i < j
        PROVE  a[i].packet < a[j].packet
    <2>1. CASE j = n
      <3>1. i \in PacketsIn(q)
        BY <1>1, <1>2, <1>6, <2>1
      <3>2. q[i].packet \in s .. last
        BY <3>1, <1>3
      <3>3. a[i] = q[i] /\ a[j] = m
        BY <3>1, <2>1, <1>2
      <3>4. q[i].packet < last + 1
        BY <3>2, <1>0
      <3> QED BY <3>3, <3>4
    <2>2. CASE i = n /\ j # n
      BY <2>2, <1>1, <1>2, <1>6
    <2>3. CASE i # n /\ j # n
      BY <2>3, <1>1, <1>2, <1>3, <1>6
    <2> QED BY <2>1, <2>2, <2>3
  <1>7. s <= last + 1 + 1
    BY <1>0, <1>3
  <1> QED BY <1>3, <1>4, <1>5, <1>6, <1>7 DEF Feed, a, s

\* Places of the packets after one message has been read.
LEMMA PacketsOfTail ==
  ASSUME NEW q \in Seq(Message), q # <<>>
  PROVE  /\ \A i \in PacketsIn(Tail(q)) : /\ i \in Nat /\ i >= 1
                                          /\ i + 1 \in PacketsIn(q)
                                          /\ Tail(q)[i] = q[i + 1]
         /\ \A j \in PacketsIn(q) : j # 1 =>
               /\ j \in Nat /\ j - 1 \in PacketsIn(Tail(q))
               /\ Tail(q)[j - 1] = q[j]
         /\ IsPacket(Head(q)) <=> 1 \in PacketsIn(q)
         /\ Head(q) = q[1]
  <1>1. ASSUME NEW j \in PacketsIn(q), j # 1
        PROVE  j \in Nat /\ j - 1 \in PacketsIn(Tail(q)) /\ Tail(q)[j - 1] = q[j]
    <2>1. j \in Nat /\ j - 1 \in DOMAIN Tail(q) /\ j \in DOMAIN q
      BY <1>1, Shifted DEF PacketsIn
    <2>2. Tail(q)[j - 1] = q[(j - 1) + 1]
      BY <2>1, Shifted
    <2>3. (j - 1) + 1 = j
      BY <2>1
    <2> QED BY <1>1, <2>1, <2>2, <2>3 DEF PacketsIn
  <1> QED BY <1>1, Shifted DEF PacketsIn

LEMMA FeedControlRead ==
  ASSUME NEW h, NEW q \in Seq(Message), NEW first, NEW last,
         q # <<>>, ~IsPacket(Head(q)), Feed(h, q, first, last)
  PROVE  Feed(h, Tail(q), first, last)
  <1>1. 1 \notin PacketsIn(q)
    BY PacketsOfTail
  <1>2. \A i \in PacketsIn(Tail(q)) : Tail(q)[i].packet \in first + Len(h) .. last
    BY PacketsOfTail DEF Feed
  <1>3. ASSUME NEW n \in first + Len(h) .. last
        PROVE  \E i \in PacketsIn(Tail(q)) : Tail(q)[i].packet = n
    <2>1. PICK j \in PacketsIn(q) : q[j].packet = n
      BY <1>3 DEF Feed
    <2>2. j - 1 \in PacketsIn(Tail(q)) /\ Tail(q)[j - 1] = q[j]
      BY <1>1, PacketsOfTail
    <2> QED BY <2>1, <2>2
  <1>4. ASSUME NEW i \in PacketsIn(Tail(q)), NEW j \in PacketsIn(Tail(q)), i < j
        PROVE  Tail(q)[i].packet < Tail(q)[j].packet
    <2>1. i \in Nat /\ i + 1 \in PacketsIn(q) /\ Tail(q)[i] = q[i + 1]
      BY PacketsOfTail
    <2>2. j \in Nat /\ j + 1 \in PacketsIn(q) /\ Tail(q)[j] = q[j + 1]
      BY PacketsOfTail
    <2>3. i + 1 < j + 1
      BY <1>4, <2>1, <2>2
    <2> QED BY <2>1, <2>2, <2>3 DEF Feed
  <1> QED BY <1>2, <1>3, <1>4 DEF Feed

LEMMA FeedPacketRead ==
  ASSUME NEW h \in Seq(Int), NEW q \in Seq(Message), NEW first \in Int, NEW last \in Int,
         q # <<>>, IsPacket(Head(q)), Feed(h, q, first, last)
  PROVE  Feed(Append(h, Head(q).packet), Tail(q), first, last)
  <1> DEFINE t == Tail(q)
             s == first + Len(h)
             p == Head(q).packet
             g == Append(h, p)
  <1>0. s \in Int /\ Len(h) \in Nat
    BY LenProperties
  <1>1. 1 \in PacketsIn(q) /\ Head(q) = q[1]
    BY PacketsOfTail
  <1>2. /\ \A k \in DOMAIN h : h[k] = first + k - 1
        /\ s <= last + 1
        /\ \A i \in PacketsIn(q) : q[i].packet \in s .. last
        /\ \A k \in s .. last : \E i \in PacketsIn(q) : q[i].packet = k
        /\ \A i, j \in PacketsIn(q) : i < j => q[i].packet < q[j].packet
    BY DEF Feed
  <1>3. \A i \in PacketsIn(t) : /\ i \in Nat /\ i >= 1
                                /\ i + 1 \in PacketsIn(q) /\ t[i] = q[i + 1]
    BY PacketsOfTail
  <1>4. \A j \in PacketsIn(q) : j # 1 => /\ j \in Nat /\ j - 1 \in PacketsIn(t)
                                         /\ t[j - 1] = q[j]
    BY PacketsOfTail
  <1>5. p = q[1].packet
    BY <1>1
  <1>6. \A j \in PacketsIn(q) : j \in Nat /\ j >= 1
    BY Shifted DEF PacketsIn
  <1> HIDE DEF t, s, p
  <1>7. p = s
    <2>1. p \in s .. last
      BY <1>1, <1>2, <1>5
    <2>2. s \in s .. last
      BY <2>1, <1>0
    <2>3. PICK j \in PacketsIn(q) : q[j].packet = s
      BY <2>2, <1>2
    <2>4. CASE j = 1
      BY <2>3, <2>4, <1>5
    <2>5. CASE j # 1
      <3>1. 1 < j
        BY <2>5, <1>6
      <3>2. q[1].packet < q[j].packet
        BY <3>1, <1>1, <1>2
      <3> QED BY <3>2, <2>1, <2>3, <1>0, <1>5
    <2> QED BY <2>4, <2>5
  <1>8. /\ Len(g) = Len(h) + 1 /\ DOMAIN g = DOMAIN h \cup {Len(h) + 1}
        /\ \A k \in DOMAIN h : g[k] = h[k]
        /\ g[Len(h) + 1] = p
    BY <1>7, <1>0, Appended
  <1> HIDE DEF g
  <1>9. \A k \in DOMAIN g : g[k] = first + k - 1
    <2>1. p = first + (Len(h) + 1) - 1
      BY <1>7, <1>0 DEF s
    <2> QED BY <2>1, <1>2, <1>8
  <1>10. first + Len(g) = s + 1
    BY <1>8, <1>0 DEF s
  <1>11. \A i \in PacketsIn(t) : t[i].packet \in s + 1 .. last
    <2>1. TAKE i \in PacketsIn(t)
    <2>2. i + 1 \in PacketsIn(q) /\ 1 < i + 1 /\ t[i] = q[i + 1]
      BY <1>3
    <2>3. q[1].packet < q[i + 1].packet
      BY <2>2, <1>1, <1>2
    <2>4. q[i + 1].packet \in s .. last
      BY <2>2, <1>2
    <2> QED BY <2>2, <2>3, <2>4, <1>0, <1>5, <1>7
  <1>12. \A k \in s + 1 .. last : \E i \in PacketsIn(t) : t[i].packet = k
    <2>1. TAKE k \in s + 1 .. last
    <2>2. k \in s .. last /\ k # s
      BY <1>0
    <2>3. PICK j \in PacketsIn(q) : q[j].packet = k
      BY <2>2, <1>2
    <2>4. j # 1
      BY <2>2, <2>3, <1>5, <1>7
    <2> QED BY <2>3, <2>4, <1>4
  <1>13. ASSUME NEW i \in PacketsIn(t), NEW j \in PacketsIn(t), i < j
         PROVE  t[i].packet < t[j].packet
    <2>1. /\ i + 1 < j + 1 /\ i + 1 \in PacketsIn(q) /\ j + 1 \in PacketsIn(q)
          /\ t[i] = q[i + 1] /\ t[j] = q[j + 1]
      BY <1>13, <1>3
    <2> QED BY <2>1, <1>2
  <1>14. s + 1 <= last + 1
    BY <1>0, <1>1, <1>2, <1>5, <1>7
  <1> QED BY <1>9, <1>10, <1>11, <1>12, <1>13, <1>14 DEF Feed, t, g, p

-----------------------------------------------------------------------------
(* What a step leaves alone                                                  *)

\* A step that does not touch router p or its connection.
Untouched(p) ==
    /\ router'[p] = router[p] /\ iflist'[p] = iflist[p] /\ heard'[p] = heard[p]
    /\ toRouter'[p] = toRouter[p] /\ toBridge'[p] = toBridge[p]
    /\ conn'[p] = conn[p] /\ joined'[p] = joined[p]

\* A step that leaves the broadcast where it is.
SameBroadcast == position' = position /\ packets' = packets

LEMMA LastAtKept ==
  ASSUME NEW i, SameBroadcast
  PROVE  LastAt(i)' = LastAt(i)
  BY DEF LastAt, SameBroadcast

\* The session of a router no step touches goes on as it was.
LEMMA SessionFrame ==
  ASSUME NEW p \in Routers, Session(p), Untouched(p),
         greeting' = p => greeting = p,
         At(p)' = At(p),
         mapped \subseteq mapped', interfaces => interfaces',
         \A i \in At(p) : LastAt(i)' = LastAt(i)
  PROVE  Session(p)'
  <1>1. Connected(p)'
    BY DEF Session, Connected, Untouched
  <1>2. InStep(p)'
    BY DEF Session, InStep, Untouched
  <1>3. Known(p)'
    BY DEF Session, Known, Untouched
  <1>4. Fed(p)'
    BY DEF Session, Fed, Untouched
  <1> QED BY <1>1, <1>2, <1>3, <1>4 DEF Session

\* The same for a step of the routers.
LEMMA RouterFrame ==
  ASSUME NEW p \in Routers, Session(p), Untouched(p),
         UNCHANGED <<srclients, greeting, poxVars>>
  PROVE  Session(p)'
  <1>1. At(p)' = At(p)
    BY DEF At
  <1>2. \A i \in At(p) : LastAt(i)' = LastAt(i)
    BY LastAtKept DEF SameBroadcast, poxVars
  <1> QED BY <1>1, <1>2, SessionFrame DEF poxVars

-----------------------------------------------------------------------------
(* The steps of a router                                                     *)

LEMMA SessionConnect ==
  ASSUME SessionInv, NEW r \in Routers, Connect(r)
  PROVE  SessionInv'
  <1>1. TypeOK'
    BY DEF SessionInv, TypeOK, Connect, poxVars, Waiting
  <1>2. Shared'
    BY DEF SessionInv, Shared, Connect, poxVars
  <1>3. ASSUME NEW p \in Routers, p # r PROVE Session(p)'
    <2>1. Untouched(p)
      BY <1>3 DEF SessionInv, TypeOK, Connect, Untouched
    <2>2. UNCHANGED <<srclients, greeting, poxVars>>
      BY DEF Connect
    <2> QED BY <2>1, <2>2, RouterFrame DEF SessionInv
  <1>4. Session(r)'
    <2>1. /\ router'[r] = "auth" /\ conn'[r] = "backlog" /\ router[r] = "new"
          /\ UNCHANGED <<iflist, heard, toRouter, toBridge, srclients, greeting,
                         poxVars, joined>>
      BY DEF SessionInv, TypeOK, Connect
    <2>2. /\ conn[r] = "none" /\ toRouter[r] = <<>> /\ heard[r] = <<>>
          /\ toBridge[r] = <<>> /\ At(r) = {} /\ greeting # r
      BY <2>1 DEF SessionInv, Session, Connected
    <2>3. Connected(r)'
      BY <2>1, <2>2 DEF Connected, At, Ended
    <2>4. InStep(r)'
      <3>1. ControlsIn(<<>>) = {}
        BY EmptyIsSeq DEF ControlsIn
      <3> QED BY <2>1, <2>2, <3>1, StepEmpty DEF InStep
    <2>5. Known(r)'
      BY <2>1, <2>2, EmptyIsSeq DEF Known
    <2>6. Fed(r)'
      BY <2>1 DEF Fed
    <2> QED BY <2>3, <2>4, <2>5, <2>6 DEF Session
  <1> QED BY <1>1, <1>2, <1>3, <1>4 DEF SessionInv

LEMMA SessionExit ==
  ASSUME SessionInv, NEW r \in Routers, NEW how \in Ended,
         router[r] # "new", Exit(r, how)
  PROVE  SessionInv'
  <1>1. TypeOK'
    BY EmptyIsSeq DEF SessionInv, TypeOK, Exit, poxVars
  <1>2. Shared'
    BY DEF SessionInv, Shared, Exit, poxVars
  <1>3. ASSUME NEW p \in Routers, p # r PROVE Session(p)'
    <2>1. Untouched(p)
      BY <1>3 DEF SessionInv, TypeOK, Exit, Untouched
    <2>2. UNCHANGED <<srclients, greeting, poxVars>>
      BY DEF Exit
    <2> QED BY <2>1, <2>2, RouterFrame DEF SessionInv
  <1>4. Session(r)'
    <2>1. /\ router'[r] = how /\ toRouter'[r] = <<>>
          /\ UNCHANGED <<iflist, heard, toBridge, conn, srclients, greeting, poxVars>>
      BY DEF SessionInv, TypeOK, Exit
    <2>2. how \notin Waiting /\ how # "new"
      BY DEF Waiting, Ended
    <2>3. Connected(r)'
      BY <2>1, <2>2 DEF SessionInv, Session, Connected, At
    <2>4. InStep(r)'
      BY <2>1, <2>2 DEF InStep
    <2>5. Known(r)'
      BY <2>1, <2>2, EmptyIsSeq DEF SessionInv, Session, Known, poxVars, Waiting
    <2>6. Fed(r)'
      BY <2>1, <2>2 DEF Fed
    <2> QED BY <2>3, <2>4, <2>5, <2>6 DEF Session
  <1> QED BY <1>1, <1>2, <1>3, <1>4 DEF SessionInv

\* The sequences of the state, apart from the rest of it.
LEMMA Sequences ==
  ASSUME TypeOK, NEW r \in Routers
  PROVE  /\ toRouter[r] \in Seq(Message) /\ toBridge[r] \in Seq(Message)
         /\ heard[r] \in Seq(1 .. MaxPackets) /\ heard[r] \in Seq(Int)
         /\ joined[r] \in Int
  <1>1. heard[r] \in Seq(1 .. MaxPackets)
    BY DEF TypeOK
  <1>2. heard[r] \in Seq(Int)
    <2>1. 1 .. MaxPackets \subseteq Int
      OBVIOUS
    <2> QED BY <1>1, <2>1, SeqMonotonic
  <1>3. joined[r] \in Int
    BY VnsAssumption DEF TypeOK
  <1> QED BY <1>1, <1>2, <1>3 DEF TypeOK

\* A router reads the message it expects and answers it: one end of the session
\* goes on to the next step and the other is asked for it.
LEMMA SessionReadControl ==
  ASSUME SessionInv, NEW r \in Routers, NEW from, NEW to, NEW type \in Requests,
         <<from, to, type>> \in {<<"auth", "status", "AUTH_REPLY">>,
                                 <<"status", "rtable", "OPEN_TEMPLATE">>,
                                 <<"status", "open", "OPEN">>},
         ReadControl(r, from, to), Write(r, Control(type))
  PROVE  SessionInv'
  <1> DEFINE q == toRouter[r]
             b == toBridge[r]
             m == Control(type)
  <1>1. /\ q \in Seq(Message) /\ b \in Seq(Message) /\ q # <<>>
        /\ router[r] = from /\ conn[r] # "reset" /\ from \in Waiting /\ from # "ready"
        /\ to \in Waiting /\ to # "auth" /\ to # "ready"
        /\ UNCHANGED <<iflist, heard, srclients, greeting, poxVars, joined, bridge,
                       unanswered>>
        /\ Head(q).type = Expected[from]
    BY Sequences DEF SessionInv, ReadControl, Received, Waiting
  <1>2. m \in Message /\ IsControl(m) /\ m.type \in RequestFrom[to]
    BY VnsAssumption DEF Control, Message, IsControl, RequestFrom, Waiting, Requests
  <1>3. IsControl(Head(q))
    BY <1>1 DEF Expected, IsControl
  <1>4. Step(q, b, Awaited[from], RequestFrom[from])
    BY <1>1 DEF SessionInv, Session, InStep
  <1>5. ControlsIn(Tail(q)) = {} /\ ControlsIn(b) = {}
    BY <1>1, <1>3, <1>4, StepRead
  <1>6. 1 \in ControlsIn(q)
    BY <1>1, <1>3, ControlsOfTail
  <1>7. greeting # r
    BY <1>1, <1>6 DEF SessionInv, Session, Connected
  <1>8. conn[r] \in {"open", "closed"}
    BY <1>1 DEF SessionInv, TypeOK, Session, Connected, Waiting
  <1>9. Tail(q) \in Seq(Message) /\ Append(b, m) \in Seq(Message)
    BY <1>1, <1>2, Shifted, Appended
  <1>10. /\ router' = [router EXCEPT ![r] = to]
         /\ toRouter' = [toRouter EXCEPT ![r] = Tail(q)]
    BY DEF ReadControl
  <1>11. \/ /\ conn[r] = "open" /\ UNCHANGED conn
            /\ toBridge' = [toBridge EXCEPT ![r] = Append(b, m)]
         \/ /\ conn[r] = "closed" /\ UNCHANGED toBridge
            /\ conn' = [conn EXCEPT ![r] = "reset"]
    BY <1>8 DEF Write, Open
  <1>12. TypeOK'
    BY <1>1, <1>9, <1>10, <1>11 DEF SessionInv, TypeOK, poxVars
  <1>13. Shared'
    BY <1>1 DEF SessionInv, Shared, poxVars
  <1>14. ASSUME NEW p \in Routers, p # r PROVE Session(p)'
    <2>1. Untouched(p)
      BY <1>1, <1>10, <1>11, <1>14 DEF SessionInv, TypeOK, Untouched
    <2> QED BY <2>1, <1>1, RouterFrame DEF SessionInv
  <1>15. Session(r)'
    <2>1. /\ router'[r] = to /\ toRouter'[r] = Tail(q)
          /\ \/ conn[r] = "open" /\ conn'[r] = "open" /\ toBridge'[r] = Append(b, m)
             \/ conn[r] = "closed" /\ conn'[r] = "reset" /\ toBridge'[r] = b
      BY <1>10, <1>11 DEF SessionInv, TypeOK
    <2>2. Connected(r)'
      <3>1. At(r)' = At(r)
        BY <1>1 DEF At
      <3> QED BY <2>1, <3>1, <1>1, <1>7 DEF SessionInv, Session, Connected, Waiting
    <2>3. InStep(r)'
      <3>1. Step(Tail(q), Append(b, m), Awaited[to], RequestFrom[to])
        BY <1>1, <1>2, <1>5, StepAsked
      <3>2. Step(Tail(q), b, Awaited[to], RequestFrom[to])
        BY <1>5, StepEmpty
      <3>3. (RequestFrom[to])' = RequestFrom[to] /\ (Awaited[to])' = Awaited[to]
        BY DEF RequestFrom, Awaited
      <3> QED BY <2>1, <3>1, <3>2, <3>3 DEF InStep
    <2>4. Known(r)'
      <3>1. /\ router'[r] # "ready" /\ interfaces' = interfaces /\ mapped' = mapped
            /\ iflist' = iflist
        BY <2>1, <1>1 DEF poxVars
      <3>2. Known(r)
        BY DEF SessionInv, Session
      <3>3. \A i \in DOMAIN Tail(q) : i + 1 \in DOMAIN q /\ Tail(q)[i] = q[i + 1]
        BY <1>1, Shifted
      <3>4. \A i \in DOMAIN toBridge'[r] :
               IsPacket(toBridge'[r][i]) => /\ i \in DOMAIN b
                                            /\ toBridge'[r][i] = b[i]
        BY <2>1, <1>1, <1>2, Appended DEF IsPacket, IsControl
      <3> QED BY <2>1, <3>1, <3>2, <3>3, <3>4 DEF Known
    <2>5. Fed(r)'
      <3>1. SUFFICES ASSUME conn'[r] = "open", NEW i \in At(r)
                     PROVE  Feed(heard[r], Tail(q), joined[r], LastAt(i))
        <4>1. At(r)' = At(r) /\ \A i : LastAt(i)' = LastAt(i)
          BY <1>1, LastAtKept DEF At, SameBroadcast, poxVars
        <4> QED BY <4>1, <2>1, <1>1 DEF Fed
      <3>2. Feed(heard[r], q, joined[r], LastAt(i))
        BY <3>1, <2>1, <1>1 DEF SessionInv, Session, Fed
      <3>3. ~IsPacket(Head(q))
        BY <1>3 DEF IsPacket, IsControl
      <3> QED BY <3>2, <3>3, <1>1, FeedControlRead
    <2> QED BY <2>2, <2>3, <2>4, <2>5 DEF Session
  <1> QED BY <1>12, <1>13, <1>14, <1>15 DEF SessionInv

\* What reading one message does to Known, whatever else the step does.
LEMMA KnownRead ==
  ASSUME NEW r \in Routers, toRouter[r] \in Seq(Message), toRouter[r] # <<>>,
         Known(r), toRouter'[r] = Tail(toRouter[r]), toBridge'[r] = toBridge[r],
         mapped' = mapped, interfaces' = interfaces,
         router'[r] = "ready" => iflist'[r] = Interfaces /\ interfaces
  PROVE  Known(r)'
  <1>1. \A i \in DOMAIN toRouter'[r] : /\ i + 1 \in DOMAIN toRouter[r]
                                       /\ toRouter'[r][i] = toRouter[r][i + 1]
    BY Shifted
  <1> QED BY <1>1 DEF Known

LEMMA SessionReadHwinfo ==
  ASSUME SessionInv, NEW r \in Routers, ReadHwinfo(r)
  PROVE  SessionInv'
  <1>1. CASE Exit(r, "ended")
    <2>1. router[r] # "new"
      BY DEF ReadHwinfo
    <2> QED BY <2>1, <1>1, SessionExit DEF Ended
  <1>2. CASE /\ router' = [router EXCEPT ![r] = "ready"]
             /\ iflist' = [iflist EXCEPT ![r] = @ \cup Head(toRouter[r]).intfs]
             /\ toRouter' = [toRouter EXCEPT ![r] = Tail(@)]
             /\ UNCHANGED <<heard, toBridge, conn, bridge, srclients, greeting,
                            poxVars, joined, unanswered>>
    <2> DEFINE q == toRouter[r]
               b == toBridge[r]
    <2>1. /\ q \in Seq(Message) /\ b \in Seq(Message) /\ q # <<>>
          /\ router[r] \in {"open", "ready"} /\ router[r] \in Waiting
          /\ router[r] # "auth"
          /\ Head(q).type = "HWINFO" /\ Head(q) \in Message
          /\ Tail(q) \in Seq(Message)
      BY Sequences, Shifted DEF SessionInv, ReadHwinfo, Received
    <2>2. Head(q).intfs = Interfaces /\ interfaces
      BY <2>1, Shifted DEF SessionInv, Session, Known
    <2>3. IsControl(Head(q)) /\ ~IsPacket(Head(q))
      BY <2>1 DEF IsControl, IsPacket
    <2>4. ControlsIn(Tail(q)) = {} /\ ControlsIn(b) = {}
      BY <2>1, <2>3, StepRead DEF SessionInv, Session, InStep
    <2>5. TypeOK'
      <3>1. iflist[r] \cup Head(q).intfs \in SUBSET Interfaces
        BY <2>2 DEF SessionInv, TypeOK
      <3> QED BY <1>2, <2>1, <3>1 DEF SessionInv, TypeOK, poxVars, Waiting
    <2>6. Shared'
      BY <1>2 DEF SessionInv, Shared, poxVars
    <2>7. ASSUME NEW p \in Routers, p # r PROVE Session(p)'
      <3>1. Untouched(p)
        BY <1>2, <2>7 DEF SessionInv, TypeOK, Untouched
      <3> QED BY <3>1, <1>2, RouterFrame DEF SessionInv
    <2>8. Session(r)'
      <3>1. /\ router'[r] = "ready" /\ toRouter'[r] = Tail(q)
            /\ iflist'[r] = iflist[r] \cup Interfaces
            /\ conn'[r] = conn[r] /\ toBridge'[r] = b
            /\ UNCHANGED <<heard, srclients, greeting, poxVars, joined>>
        BY <1>2, <2>2 DEF SessionInv, TypeOK
      <3>2. iflist'[r] = Interfaces
        BY <3>1 DEF SessionInv, TypeOK
      <3>3. At(r)' = At(r) /\ \A i : LastAt(i)' = LastAt(i)
        BY <3>1, LastAtKept DEF At, SameBroadcast, poxVars
      <3>4. Connected(r)'
        BY <3>1, <3>3, <2>1 DEF SessionInv, Session, Connected, Waiting, Ended
      <3>5. InStep(r)'
        BY <3>1, <2>4, StepEmpty DEF InStep
      <3>6. Known(r)'
        BY <3>1, <3>2, <2>1, <2>2, KnownRead DEF SessionInv, Session, poxVars
      <3>7. Fed(r)'
        <4>1. SUFFICES ASSUME conn[r] = "open", NEW i \in At(r)
                       PROVE  Feed(heard[r], Tail(q), joined[r], LastAt(i))
          BY <3>1, <3>3 DEF Fed
        <4>2. Feed(heard[r], q, joined[r], LastAt(i))
          BY <4>1, <2>1 DEF SessionInv, Session, Fed
        <4> QED BY <4>2, <2>1, <2>3, FeedControlRead
      <3> QED BY <3>4, <3>5, <3>6, <3>7 DEF Session
    <2> QED BY <2>5, <2>6, <2>7, <2>8 DEF SessionInv
  <1> QED BY <1>1, <1>2 DEF ReadHwinfo

LEMMA SessionReadPacket ==
  ASSUME SessionInv, NEW r \in Routers, ReadPacket(r)
  PROVE  SessionInv'
  <1>1. CASE Exit(r, "crashed")
    <2>1. router[r] # "new"
      BY DEF ReadPacket
    <2> QED BY <2>1, <1>1, SessionExit DEF Ended
  <1>2. CASE /\ heard' = [heard EXCEPT ![r] = Append(@, Head(toRouter[r]).packet)]
             /\ toRouter' = [toRouter EXCEPT ![r] = Tail(@)]
             /\ UNCHANGED <<router, iflist, toBridge, conn, bridge, srclients,
                            greeting, poxVars, joined, unanswered>>
    <2> DEFINE q == toRouter[r]
               b == toBridge[r]
               n == Head(q).packet
    <2>1. /\ q \in Seq(Message) /\ b \in Seq(Message) /\ q # <<>>
          /\ heard[r] \in Seq(1 .. MaxPackets)
          /\ heard[r] \in Seq(Int) /\ joined[r] \in Int
          /\ router[r] \in {"open", "ready"} /\ router[r] \in Waiting
          /\ IsPacket(Head(q)) /\ Head(q) \in Message
          /\ Tail(q) \in Seq(Message)
      BY Sequences, Shifted DEF SessionInv, ReadPacket, Received, IsPacket
    <2>2. n \in 1 .. MaxPackets
      <3>1. n >= 1
        BY <2>1, Shifted DEF SessionInv, Session, Known
      <3>2. n \in 0 .. MaxPackets
        BY <2>1 DEF Message
      <3> QED BY <3>1, <3>2
    <2>3. TypeOK'
      <3>1. Append(heard[r], n) \in Seq(1 .. MaxPackets)
        BY <2>1, <2>2, AppendProperties
      <3> HIDE DEF n
      <3> QED BY <1>2, <2>1, <3>1 DEF SessionInv, TypeOK, poxVars, n
    <2>4. Shared'
      BY <1>2 DEF SessionInv, Shared, poxVars
    <2>5. ASSUME NEW p \in Routers, p # r PROVE Session(p)'
      <3>1. Untouched(p)
        BY <1>2, <2>5 DEF SessionInv, TypeOK, Untouched
      <3> QED BY <3>1, <1>2, RouterFrame DEF SessionInv
    <2>6. Session(r)'
      <3>1. /\ router'[r] = router[r] /\ toRouter'[r] = Tail(q)
            /\ heard'[r] = Append(heard[r], n)
            /\ UNCHANGED <<iflist, conn, toBridge, srclients, greeting, poxVars, joined>>
        BY <1>2 DEF SessionInv, TypeOK
      <3>2. At(r)' = At(r) /\ \A i : LastAt(i)' = LastAt(i)
        BY <3>1, LastAtKept DEF At, SameBroadcast, poxVars
      <3>3. Connected(r)'
        BY <3>1, <3>2, <2>1 DEF SessionInv, Session, Connected, Waiting, Ended
      <3>4. InStep(r)'
        <4>1. (RequestFrom[router[r]])' = RequestFrom[router[r]]
              /\ (Awaited[router[r]])' = Awaited[router[r]]
          BY <3>1 DEF RequestFrom, Awaited
        <4> QED BY <3>1, <4>1, <2>1, StepPacketRead DEF SessionInv, Session, InStep
      <3>5. Known(r)'
        <4>1. Known(r)
          BY DEF SessionInv, Session
        <4>2. router'[r] = "ready" => iflist'[r] = Interfaces /\ interfaces
          BY <4>1, <3>1 DEF Known
        <4> QED BY <4>1, <4>2, <3>1, <2>1, KnownRead DEF poxVars
      <3>6. Fed(r)'
        <4>1. SUFFICES ASSUME conn[r] = "open", NEW i \in At(r)
                       PROVE  Feed(Append(heard[r], n), Tail(q), joined[r], LastAt(i))
          BY <3>1, <3>2 DEF Fed
        <4>2. Feed(heard[r], q, joined[r], LastAt(i))
          BY <4>1, <2>1 DEF SessionInv, Session, Fed
        <4>3. LastAt(i) \in Int
          BY LenProperties DEF SessionInv, TypeOK, LastAt
        <4> QED BY <4>2, <4>3, <2>1, FeedPacketRead
      <3> QED BY <3>3, <3>4, <3>5, <3>6 DEF Session
    <2> QED BY <2>3, <2>4, <2>5, <2>6 DEF SessionInv
  <1> QED BY <1>1, <1>2 DEF ReadPacket

LEMMA SessionRead ==
  ASSUME SessionInv, NEW r \in Routers, Read(r)
  PROVE  SessionInv'
  <1>1. ASSUME NEW how \in Ended, router[r] \in Waiting \/ router[r] \in DOMAIN Expected,
               Exit(r, how)
        PROVE  SessionInv'
    BY <1>1, SessionExit DEF Waiting, Expected
  <1>2. CASE Unexpected(r)
    BY <1>1, <1>2 DEF Unexpected, Ended
  <1>3. CASE ReadAuthRequest(r)
    <2>1. CASE ReadControl(r, "auth", "status") /\ Write(r, Control("AUTH_REPLY"))
      BY <2>1, SessionReadControl DEF Requests
    <2>2. CASE Received(r) /\ router[r] = "auth" /\ Exit(r, "ended")
      BY <1>1, <2>2 DEF Received, Ended
    <2> QED BY <1>3, <2>1, <2>2 DEF ReadAuthRequest
  <1>4. CASE ReadAuthStatus(r)
    BY <1>4, SessionReadControl DEF ReadAuthStatus, Requests
  <1>5. CASE ReadHwinfo(r)
    BY <1>5, SessionReadHwinfo
  <1>6. CASE ReadPacket(r)
    BY <1>6, SessionReadPacket
  <1>7. CASE ReadNothing(r)
    BY <1>1, <1>7 DEF ReadNothing, Ended
  <1>8. CASE ReadError(r)
    BY <1>1, <1>8 DEF ReadError, Ended
  <1> QED BY <1>2, <1>3, <1>4, <1>5, <1>6, <1>7, <1>8 DEF Read

LEMMA SessionQuit ==
  ASSUME SessionInv, NEW r \in Routers, Quit(r)
  PROVE  SessionInv'
  BY SessionExit DEF Quit, Waiting, Ended

LEMMA SessionSendPacket ==
  ASSUME SessionInv, NEW r \in Routers, NEW i \in Interfaces, SendPacket(r, i)
  PROVE  SessionInv'
  <1> DEFINE b == toBridge[r]
             m == Packet(i, 0)
  <1>1. /\ b \in Seq(Message) /\ router[r] = "ready" /\ router[r] \in Waiting
        /\ UNCHANGED <<router, iflist, heard, toRouter, bridge, srclients, greeting,
                       poxVars, joined, unanswered>>
    BY Sequences DEF SessionInv, SendPacket, routerVars, Waiting
  <1>2. m \in Message /\ IsPacket(m) /\ m.intfs = {i}
    BY VnsAssumption DEF Packet, Message, IsPacket
  <1>3. mapped = Interfaces
    BY <1>1 DEF SessionInv, Session, Known, Shared
  <1>4. conn[r] \in {"open", "closed"}
    BY <1>1 DEF SessionInv, TypeOK, Session, Connected, Ended, SendPacket
  <1>5. \/ /\ conn[r] = "open" /\ UNCHANGED conn
           /\ toBridge' = [toBridge EXCEPT ![r] = Append(b, m)]
        \/ /\ conn[r] = "closed" /\ UNCHANGED toBridge
           /\ conn' = [conn EXCEPT ![r] = "reset"]
    BY <1>4 DEF SendPacket, Write, Open
  <1>6. Append(b, m) \in Seq(Message)
    BY <1>1, <1>2, Appended
  <1>7. TypeOK'
    BY <1>1, <1>5, <1>6 DEF SessionInv, TypeOK, poxVars
  <1>8. Shared'
    BY <1>1 DEF SessionInv, Shared, poxVars
  <1>9. ASSUME NEW p \in Routers, p # r PROVE Session(p)'
    <2>1. Untouched(p)
      BY <1>1, <1>5, <1>9 DEF SessionInv, TypeOK, Untouched
    <2> QED BY <2>1, <1>1, RouterFrame DEF SessionInv
  <1>10. Session(r)'
    <2>1. \/ conn[r] = "open" /\ conn'[r] = "open" /\ toBridge'[r] = Append(b, m)
          \/ conn[r] = "closed" /\ conn'[r] = "reset" /\ toBridge'[r] = b
      BY <1>5 DEF SessionInv, TypeOK
    <2>2. At(r)' = At(r) /\ \A k : LastAt(k)' = LastAt(k)
      BY <1>1, LastAtKept DEF At, SameBroadcast, poxVars
    <2>3. Connected(r)'
      BY <2>1, <2>2, <1>1 DEF SessionInv, Session, Connected
    <2>4. InStep(r)'
      <3>1. (RequestFrom[router[r]])' = RequestFrom[router[r]]
            /\ (Awaited[router[r]])' = Awaited[router[r]]
        BY <1>1 DEF RequestFrom, Awaited
      <3>2. Step(toRouter[r], b, Awaited[router[r]], RequestFrom[router[r]])
        BY <1>1 DEF SessionInv, Session, InStep
      <3>3. Step(toRouter[r], Append(b, m), Awaited[router[r]], RequestFrom[router[r]])
        BY <3>2, <1>1, <1>2, StepPacketAsked
      <3> QED BY <2>1, <3>1, <3>2, <3>3, <1>1 DEF InStep
    <2>5. Known(r)'
      <3>1. \A k \in DOMAIN toBridge'[r] :
               IsPacket(toBridge'[r][k]) => toBridge'[r][k].intfs \subseteq mapped
        <4>1. \A k \in DOMAIN b : IsPacket(b[k]) => b[k].intfs \subseteq mapped
          BY DEF SessionInv, Session, Known
        <4>2. CASE toBridge'[r] = Append(b, m)
          BY <4>1, <4>2, <1>1, <1>2, <1>3, Appended
        <4> QED BY <4>1, <4>2, <2>1
      <3>2. UNCHANGED <<router, iflist, toRouter, interfaces, mapped>>
        BY <1>1 DEF poxVars
      <3>3. Known(r)
        BY DEF SessionInv, Session
      <3> QED BY <3>1, <3>2, <3>3 DEF Known
    <2>6. Fed(r)'
      BY <2>1, <2>2, <1>1 DEF SessionInv, Session, Fed
    <2> QED BY <2>3, <2>4, <2>5, <2>6 DEF Session
  <1> QED BY <1>7, <1>8, <1>9, <1>10 DEF SessionInv

-----------------------------------------------------------------------------
(* The steps of the reactor                                                  *)

LEMMA SessionAccept ==
  ASSUME SessionInv, NEW r \in Routers, Accept(r)
  PROVE  SessionInv'
  <1>0. PICK n : n = Len(srclients) + 1
    OBVIOUS
  <1>1. /\ conn[r] = "backlog" /\ toRouter[r] = <<>> /\ toBridge[r] = <<>>
        /\ heard[r] = <<>> /\ At(r) = {} /\ router[r] \in {"auth"} \cup Ended
    BY DEF SessionInv, Session, Connected, Accept
  <1>2. /\ UNCHANGED <<router, iflist, heard, toRouter, toBridge, bridge, mapped,
                       interfaces, packets, position, unanswered>>
        /\ srclients' = Append(srclients, r) /\ greeting' = r
        /\ conn' = [conn EXCEPT ![r] = "open"]
        /\ joined' = [joined EXCEPT ![r] = IF position = 0
                                           THEN Len(packets) + 1 ELSE Len(packets)]
    BY DEF Accept, routerVars, poxVars
  <1>3. srclients \in Seq(Routers) /\ IsInjective(srclients) /\ n \in Nat
    BY <1>0, LenProperties DEF SessionInv, TypeOK
  <1>4. /\ srclients' \in Seq(Routers) /\ Len(srclients') = n
        /\ DOMAIN srclients' = DOMAIN srclients \cup {n} /\ n \notin DOMAIN srclients
        /\ \A i \in DOMAIN srclients : srclients'[i] = srclients[i]
        /\ srclients'[n] = r
    BY <1>0, <1>2, <1>3, Appended
  <1>5. Len(packets) \in 0 .. MaxPackets /\ position \in 0 .. n
    BY <1>0, LenProperties DEF SessionInv, TypeOK
  <1>6. TypeOK'
    <2>1. IsInjective(srclients')
      BY <1>1, <1>3, <1>4 DEF IsInjective, At
    <2>2. position' \in 0 .. Len(srclients') + 1
      BY <1>2, <1>3, <1>4, <1>5
    <2>3. joined' \in [Routers -> 0 .. MaxPackets + 1]
      <3>1. (IF position = 0 THEN Len(packets) + 1 ELSE Len(packets))
              \in 0 .. MaxPackets + 1
        BY <1>5, VnsAssumption
      <3> QED BY <1>2, <3>1 DEF SessionInv, TypeOK
    <2> QED BY <1>2, <1>4, <2>1, <2>2, <2>3 DEF SessionInv, TypeOK
  <1>7. Shared'
    BY <1>2 DEF SessionInv, Shared
  <1>8. ASSUME NEW p \in Routers, p # r PROVE Session(p)'
    <2>1. Untouched(p)
      BY <1>2, <1>8 DEF SessionInv, TypeOK, Untouched
    <2>2. At(p)' = At(p)
      BY <1>4, <1>8 DEF At
    <2>3. \A i : LastAt(i)' = LastAt(i)
      BY <1>2, LastAtKept DEF SameBroadcast
    <2> QED BY <2>1, <2>2, <2>3, <1>2, <1>8, SessionFrame DEF SessionInv
  <1>9. Session(r)'
    <2>1. At(r)' = {n}
      BY <1>1, <1>4 DEF At
    <2>2. conn'[r] = "open"
      BY <1>2 DEF SessionInv, TypeOK
    <2>3. ControlsIn(<<>>) = {}
      BY EmptyIsSeq DEF ControlsIn
    <2>4. Connected(r)'
      BY <2>1, <2>2, <2>3, <1>1, <1>2 DEF Connected, Waiting, Ended
    <2>5. InStep(r)'
      BY <2>3, <1>1, <1>2, StepEmpty DEF InStep
    <2>6. Known(r)'
      <3>1. Known(r)
        BY DEF SessionInv, Session
      <3>2. UNCHANGED <<router, iflist, toRouter, toBridge, interfaces, mapped>>
        BY <1>2
      <3> QED BY <3>1, <3>2 DEF Known
    <2>7. Fed(r)'
      <3>1. LastAt(n)' = IF position = 0 THEN Len(packets) ELSE Len(packets) - 1
        BY <1>2, <1>3, <1>5 DEF LastAt
      <3>2. joined'[r] = LastAt(n)' + 1 /\ LastAt(n)' \in Int
        BY <3>1, <1>2, <1>5 DEF SessionInv, TypeOK
      <3>3. Feed(<<>>, <<>>, LastAt(n)' + 1, LastAt(n)')
        BY <3>2, FeedStarts
      <3>4. heard'[r] = <<>> /\ toRouter'[r] = <<>>
        BY <1>1, <1>2
      <3> QED BY <2>1, <3>2, <3>3, <3>4 DEF Fed
    <2> QED BY <2>4, <2>5, <2>6, <2>7 DEF Session
  <1> QED BY <1>6, <1>7, <1>8, <1>9 DEF SessionInv

\* What one more message to a router does to Known.
LEMMA KnownSent ==
  ASSUME NEW r \in Routers, toRouter[r] \in Seq(Message), NEW m \in Message,
         Known(r), toRouter'[r] = Append(toRouter[r], m),
         m.type = "HWINFO" => m.intfs = Interfaces /\ interfaces,
         IsPacket(m) => m.packet >= 1,
         \A i \in DOMAIN toBridge'[r] : \E j \in DOMAIN toBridge[r] :
            toBridge'[r][i] = toBridge[r][j],
         UNCHANGED <<router, iflist, mapped, interfaces>>
  PROVE  Known(r)'
  <1>1. \A i \in DOMAIN toRouter'[r] : \/ toRouter'[r][i] = m
                                       \/ /\ i \in DOMAIN toRouter[r]
                                          /\ toRouter'[r][i] = toRouter[r][i]
    BY Appended
  <1> QED BY <1>1 DEF Known

LEMMA SessionGreet ==
  ASSUME SessionInv, Greet
  PROVE  SessionInv'
  <1>0. PICK r \in Routers : r = greeting
    BY DEF SessionInv, TypeOK, Greet
  <1> DEFINE q == toRouter[r]
             m == Control("AUTH_REQUEST")
  <1>1. /\ q \in Seq(Message) /\ conn[r] = "open"
        /\ greeting' = Null /\ Null \notin Routers
        /\ UNCHANGED <<router, iflist, heard, toBridge, conn, bridge, srclients,
                       mapped, interfaces, packets, position, joined, unanswered>>
        /\ router[r] \in Waiting => router[r] = "auth" /\ ControlsIn(q) = {}
    BY <1>0, Sequences, VnsAssumption
    DEF SessionInv, Session, Connected, Greet, routerVars, poxVars
  <1>2. m \in Message /\ m.type = "AUTH_REQUEST" /\ IsControl(m) /\ ~IsPacket(m)
    BY VnsAssumption DEF Control, Controls, Message, IsControl, IsPacket
  <1>3. CASE router[r] \in Waiting /\ toRouter' = [toRouter EXCEPT ![r] = Append(q, m)]
    <2>1. Append(q, m) \in Seq(Message)
      BY <1>1, <1>2, Appended
    <2>2. TypeOK'
      BY <1>1, <1>3, <2>1 DEF SessionInv, TypeOK
    <2>3. Shared'
      BY <1>1 DEF SessionInv, Shared
    <2>4. /\ \A p \in Routers : At(p)' = At(p)
          /\ \A i : LastAt(i)' = LastAt(i)
      BY <1>1, LastAtKept DEF At, SameBroadcast
    <2>5. ASSUME NEW p \in Routers, p # r PROVE Session(p)'
      <3>1. Untouched(p)
        BY <1>1, <1>3, <2>5 DEF SessionInv, TypeOK, Untouched
      <3> QED BY <3>1, <1>1, <2>4, SessionFrame DEF SessionInv
    <2>6. Session(r)'
      <3>1. toRouter'[r] = Append(q, m)
        BY <1>3 DEF SessionInv, TypeOK
      <3>2. Connected(r)'
        BY <3>1, <1>1, <2>4 DEF SessionInv, Session, Connected
      <3>3. InStep(r)'
        <4>1. ControlsIn(toBridge[r]) = {}
          <5>1. RequestFrom["auth"] = {}
            BY DEF RequestFrom, Waiting
          <5> QED BY <5>1, <1>1, <1>3 DEF SessionInv, Session, InStep, Step
        <4>2. m.type \in Awaited["auth"]
          BY <1>2 DEF Awaited, Waiting
        <4>3. Step(Append(q, m), toBridge[r], Awaited["auth"], RequestFrom["auth"])
          BY <4>1, <4>2, <1>1, <1>2, <1>3, StepAnswered
        <4>4. router[r] = "auth" /\ router' = router /\ toBridge' = toBridge
          BY <1>1, <1>3
        <4>5. (RequestFrom[router[r]])' = RequestFrom["auth"]
              /\ (Awaited[router[r]])' = Awaited["auth"]
          BY <4>4 DEF RequestFrom, Awaited
        <4> QED BY <4>3, <4>4, <4>5, <3>1 DEF InStep
      <3>4. Known(r)'
        <4>1. Known(r)
          BY DEF SessionInv, Session
        <4>2. \A i \in DOMAIN toBridge'[r] : \E j \in DOMAIN toBridge[r] :
                 toBridge'[r][i] = toBridge[r][j]
          BY <1>1
        <4>3. UNCHANGED <<router, iflist, mapped, interfaces>>
          BY <1>1
        <4>4. m.type # "HWINFO"
          BY <1>2
        <4> HIDE DEF m
        <4> QED BY <4>1, <4>2, <4>3, <4>4, <3>1, <1>1, <1>2, KnownSent
      <3>5. Fed(r)'
        <4>1. SUFFICES ASSUME NEW i \in At(r)
                       PROVE  Feed(heard[r], Append(q, m), joined[r], LastAt(i))
          <5>1. At(r)' = At(r) /\ heard'[r] = heard[r] /\ joined'[r] = joined[r]
            BY <1>1, <2>4
          <5> HIDE DEF m
          <5> QED BY <5>1, <3>1, <2>4 DEF Fed
        <4>2. Feed(heard[r], q, joined[r], LastAt(i))
          BY <4>1, <1>1, <1>3 DEF SessionInv, Session, Fed
        <4> QED BY <4>2, <1>1, <1>2, FeedControlSent
      <3> QED BY <3>2, <3>3, <3>4, <3>5 DEF Session
    <2> QED BY <2>2, <2>3, <2>5, <2>6 DEF SessionInv
  <1>4. CASE router[r] \notin Waiting /\ UNCHANGED toRouter
    <2>1. TypeOK' /\ Shared'
      BY <1>1, <1>4 DEF SessionInv, TypeOK, Shared
    <2>2. ASSUME NEW p \in Routers PROVE Session(p)'
      <3>1. Untouched(p)
        BY <1>1, <1>4 DEF Untouched
      <3>2. At(p)' = At(p) /\ \A i : LastAt(i)' = LastAt(i)
        BY <1>1, LastAtKept DEF At, SameBroadcast
      <3> QED BY <3>1, <3>2, <1>1, SessionFrame DEF SessionInv
    <2> QED BY <2>1, <2>2 DEF SessionInv
  <1>5. \/ router[r] \in Waiting /\ toRouter' = [toRouter EXCEPT ![r] = Append(q, m)]
        \/ router[r] \notin Waiting /\ UNCHANGED toRouter
    <2>1. q \o <<m>> = Append(q, m)
      BY <1>1, <1>2, Single
    <2> HIDE DEF m
    <2> QED BY <2>1, <1>0, <1>1 DEF Greet, Delivered, m
  <1> QED BY <1>3, <1>4, <1>5

\* The bridge closes a connection, with what is on its way to it.
LEMMA SessionClosed ==
  ASSUME SessionInv, NEW r \in Routers, NEW how \in {"closed", "reset"},
         conn[r] = "open", greeting # r,
         conn' = [conn EXCEPT ![r] = how], toBridge' = [toBridge EXCEPT ![r] = <<>>],
         unanswered' = unanswered,
         UNCHANGED <<routerVars, toRouter, bridge, srclients, greeting, poxVars, joined>>
  PROVE  SessionInv'
  <1>1. UNCHANGED <<router, iflist, heard, toRouter, bridge, srclients, greeting,
                    mapped, interfaces, packets, position, joined>>
    BY DEF routerVars, poxVars
  <1>2. TypeOK'
    BY <1>1, EmptyIsSeq DEF SessionInv, TypeOK
  <1>3. Shared'
    BY <1>1 DEF SessionInv, Shared
  <1>4. ASSUME NEW p \in Routers, p # r PROVE Session(p)'
    <2>1. Untouched(p)
      BY <1>1, <1>4 DEF SessionInv, TypeOK, Untouched
    <2> QED BY <2>1, RouterFrame DEF SessionInv
  <1>5. Session(r)'
    <2>1. conn'[r] = how /\ toBridge'[r] = <<>>
      BY DEF SessionInv, TypeOK
    <2>2. Connected(r)'
      BY <2>1, <1>1 DEF SessionInv, Session, Connected
    <2>3. InStep(r)'
      <3>1. ControlsIn(<<>>) = {}
        BY EmptyIsSeq DEF ControlsIn
      <3>2. (RequestFrom[router[r]])' = RequestFrom[router[r]]
            /\ (Awaited[router[r]])' = Awaited[router[r]]
        BY <1>1 DEF RequestFrom, Awaited
      <3> QED BY <2>1, <3>1, <3>2, <1>1 DEF SessionInv, Session, InStep, Step, AtMostOne
    <2>4. Known(r)'
      <3>1. Known(r)
        BY DEF SessionInv, Session
      <3> QED BY <2>1, <3>1, <1>1, EmptyIsSeq DEF Known
    <2>5. Fed(r)'
      BY <2>1 DEF Fed
    <2> QED BY <2>2, <2>3, <2>4, <2>5 DEF Session
  <1> QED BY <1>2, <1>3, <1>4, <1>5 DEF SessionInv

\* The answer to a request is one message of the session, or nothing.
LEMMA Answers ==
  ASSUME SessionInv, NEW m \in Message
  PROVE  \/ Answer(m.type) = <<>>
         \/ /\ m.type = "AUTH_REPLY"
            /\ Answer(m.type) = <<Control("AUTH_STATUS")>>
         \/ /\ m.type = "OPEN" /\ interfaces
            /\ Answer(m.type) = <<HardwareInfo>>
  <1>1. CASE m.type = "AUTH_REPLY"
    BY <1>1 DEF Answer
  <1>2. CASE m.type = "OPEN"
    BY <1>2 DEF Answer
  <1>3. CASE m.type # "AUTH_REPLY" /\ m.type # "OPEN"
    BY <1>3 DEF Answer
  <1> QED BY <1>1, <1>2, <1>3

\* The bridge has read a message and does not answer it.
LEMMA SessionIgnored ==
  ASSUME SessionInv, NEW r \in Routers, conn[r] = "open", toBridge[r] # <<>>,
         toBridge' = [toBridge EXCEPT ![r] = Tail(@)], unanswered' \subseteq Routers,
         UNCHANGED <<routerVars, toRouter, conn, bridge, srclients, greeting, poxVars,
                     joined>>
  PROVE  SessionInv'
  <1> DEFINE b == toBridge[r]
  <1>1. UNCHANGED <<router, iflist, heard, toRouter, conn, bridge, srclients,
                    greeting, mapped, interfaces, packets, position, joined>>
    BY DEF routerVars, poxVars
  <1>2. b \in Seq(Message) /\ Tail(b) \in Seq(Message)
    BY Sequences, Shifted DEF SessionInv
  <1>3. TypeOK'
    BY <1>1, <1>2 DEF SessionInv, TypeOK
  <1>4. Shared'
    BY <1>1 DEF SessionInv, Shared
  <1>5. ASSUME NEW p \in Routers, p # r PROVE Session(p)'
    <2>1. Untouched(p)
      BY <1>1, <1>5 DEF SessionInv, TypeOK, Untouched
    <2> QED BY <2>1, RouterFrame DEF SessionInv
  <1>6. Session(r)'
    <2>1. toBridge'[r] = Tail(b)
      BY DEF SessionInv, TypeOK
    <2>2. At(r)' = At(r) /\ \A i : LastAt(i)' = LastAt(i)
      BY <1>1, LastAtKept DEF At, SameBroadcast
    <2>3. Connected(r)'
      BY <2>1, <2>2, <1>1 DEF SessionInv, Session, Connected
    <2>4. InStep(r)'
      <3>1. (RequestFrom[router[r]])' = RequestFrom[router[r]]
            /\ (Awaited[router[r]])' = Awaited[router[r]]
        BY <1>1 DEF RequestFrom, Awaited
      <3>2. router[r] \in Waiting =>
               Step(toRouter[r], Tail(b), Awaited[router[r]], RequestFrom[router[r]])
        BY <1>2, StepPacketHandled DEF SessionInv, Session, InStep
      <3> QED BY <2>1, <3>1, <3>2, <1>1 DEF InStep
    <2>5. Known(r)'
      <3>1. Known(r)
        BY DEF SessionInv, Session
      <3>2. \A i \in DOMAIN Tail(b) : i + 1 \in DOMAIN b /\ Tail(b)[i] = b[i + 1]
        BY <1>2, Shifted
      <3> QED BY <2>1, <3>1, <3>2, <1>1 DEF Known
    <2>6. Fed(r)'
      BY <2>2, <1>1 DEF SessionInv, Session, Fed
    <2> QED BY <2>3, <2>4, <2>5, <2>6 DEF Session
  <1> QED BY <1>3, <1>4, <1>5, <1>6 DEF SessionInv

\* The bridge has read a request of a router that waits for the answer.
LEMMA SessionAnswered ==
  ASSUME SessionInv, NEW r \in Routers, conn[r] = "open", toBridge[r] # <<>>,
         greeting # r, router[r] \in Waiting, NEW a \in Message,
         \/ Head(toBridge[r]).type = "AUTH_REPLY" /\ a = Control("AUTH_STATUS")
         \/ Head(toBridge[r]).type = "OPEN" /\ a = HardwareInfo /\ interfaces,
         toRouter' = [toRouter EXCEPT ![r] = Append(@, a)],
         toBridge' = [toBridge EXCEPT ![r] = Tail(@)], unanswered' \subseteq Routers,
         UNCHANGED <<routerVars, conn, bridge, srclients, greeting, poxVars, joined>>
  PROVE  SessionInv'
  <1> DEFINE q == toRouter[r]
             b == toBridge[r]
  <1>1. UNCHANGED <<router, iflist, heard, conn, bridge, srclients,
                    greeting, mapped, interfaces, packets, position, joined>>
    BY DEF routerVars, poxVars
  <1>2. /\ q \in Seq(Message) /\ b \in Seq(Message) /\ Tail(b) \in Seq(Message)
        /\ Append(q, a) \in Seq(Message)
    BY Sequences, Shifted, Appended DEF SessionInv
  <1>3. /\ IsControl(Head(b)) /\ IsControl(a) /\ ~IsPacket(a)
        /\ a.type = "HWINFO" => a.intfs = Interfaces /\ interfaces
    BY DEF IsControl, IsPacket, Control, HardwareInfo
  <1>4. TypeOK'
    BY <1>1, <1>2 DEF SessionInv, TypeOK
  <1>5. Shared'
    BY <1>1 DEF SessionInv, Shared
  <1>6. ASSUME NEW p \in Routers, p # r PROVE Session(p)'
    <2>1. Untouched(p)
      BY <1>1, <1>6 DEF SessionInv, TypeOK, Untouched
    <2> QED BY <2>1, RouterFrame DEF SessionInv
  <1>7. Session(r)'
    <2>1. toBridge'[r] = Tail(b) /\ toRouter'[r] = Append(q, a)
      BY DEF SessionInv, TypeOK
    <2>2. At(r)' = At(r) /\ \A i : LastAt(i)' = LastAt(i)
      BY <1>1, LastAtKept DEF At, SameBroadcast
    <2>3. Connected(r)'
      BY <2>1, <2>2, <1>1 DEF SessionInv, Session, Connected
    <2>4. InStep(r)'
      <3>1. (RequestFrom[router[r]])' = RequestFrom[router[r]]
            /\ (Awaited[router[r]])' = Awaited[router[r]]
        BY <1>1 DEF RequestFrom, Awaited
      <3>2. Step(q, b, Awaited[router[r]], RequestFrom[router[r]])
        BY DEF SessionInv, Session, InStep
      <3>3. /\ Head(b).type \in RequestFrom[router[r]]
            /\ ControlsIn(Tail(b)) = {} /\ ControlsIn(q) = {}
        BY <3>2, <1>2, <1>3, StepHandled
      <3>4. a.type \in Awaited[router[r]]
        <4>1. CASE router[r] = "status"
          <5>1. RequestFrom["status"] = {"AUTH_REPLY"} /\ Awaited["status"] = {"AUTH_STATUS"}
            BY DEF RequestFrom, Awaited, Waiting
          <5> QED BY <5>1, <4>1, <3>3 DEF Control
        <4>2. CASE router[r] = "open"
          <5>1. RequestFrom["open"] = {"OPEN"} /\ Awaited["open"] = {"HWINFO"}
            BY DEF RequestFrom, Awaited, Waiting
          <5> QED BY <5>1, <4>2, <3>3 DEF HardwareInfo
        <4>3. CASE router[r] = "rtable"
          <5>1. RequestFrom["rtable"] = {"OPEN_TEMPLATE"}
            BY DEF RequestFrom, Waiting
          <5> QED BY <5>1, <4>3, <3>3
        <4>4. CASE router[r] \in {"auth", "ready"}
          <5>1. RequestFrom["auth"] = {} /\ RequestFrom["ready"] = {}
            BY DEF RequestFrom, Waiting
          <5> QED BY <5>1, <4>4, <3>3
        <4> QED BY <4>1, <4>2, <4>3, <4>4 DEF Waiting
      <3>5. Step(Append(q, a), Tail(b), Awaited[router[r]], RequestFrom[router[r]])
        BY <3>3, <3>4, <1>2, <1>3, StepAnswered
      <3> QED BY <2>1, <3>1, <3>5, <1>1 DEF InStep
    <2>5. Known(r)'
      <3>1. Known(r)
        BY DEF SessionInv, Session
      <3>2. \A i \in DOMAIN toBridge'[r] : \E j \in DOMAIN toBridge[r] :
               toBridge'[r][i] = toBridge[r][j]
        BY <2>1, <1>2, Shifted
      <3>3. UNCHANGED <<router, iflist, mapped, interfaces>>
        BY <1>1
      <3> QED BY <2>1, <3>1, <3>2, <3>3, <1>2, <1>3, KnownSent
    <2>6. Fed(r)'
      <3>1. SUFFICES ASSUME NEW i \in At(r)
                     PROVE  Feed(heard[r], Append(q, a), joined[r], LastAt(i))
        BY <2>1, <2>2, <1>1 DEF Fed
      <3>2. Feed(heard[r], q, joined[r], LastAt(i))
        BY <3>1 DEF SessionInv, Session, Fed
      <3> QED BY <3>2, <1>2, <1>3, FeedControlSent
    <2> QED BY <2>3, <2>4, <2>5, <2>6 DEF Session
  <1> QED BY <1>4, <1>5, <1>6, <1>7 DEF SessionInv

LEMMA SessionHandle ==
  ASSUME SessionInv, NEW r \in Routers, Handle(r)
  PROVE  SessionInv'
  <1> DEFINE b == toBridge[r]
             m == Head(b)
  <1>1. /\ conn[r] = "open" /\ b # <<>> /\ greeting # r
        /\ b \in Seq(Message) /\ m \in Message
        /\ toRouter[r] \in Seq(Message)
        /\ UNCHANGED <<routerVars, bridge, greeting, poxVars, joined>>
    BY Sequences, Shifted, VnsAssumption DEF SessionInv, Handle, Idle
  <1>2. CASE Raises(m)
    <2>1. Close(r) /\ UNCHANGED <<toRouter, unanswered>>
      BY <1>2 DEF Handle
    <2>2. CASE Tail(b) = <<>>
      BY <2>1, <2>2, <1>1, SessionClosed DEF Close, Listed
    <2>3. CASE Tail(b) # <<>>
      BY <2>1, <2>3, <1>1, SessionClosed DEF Close, Listed
    <2> QED BY <2>2, <2>3
  <1>3. CASE ~Raises(m)
    <2>1. /\ toRouter' = Delivered(r, Answer(m.type))
          /\ toBridge' = [toBridge EXCEPT ![r] = Tail(@)]
          /\ unanswered' \in {unanswered, unanswered \cup {r}}
          /\ UNCHANGED <<conn, srclients>>
      BY <1>3 DEF Handle
    <2>2. unanswered' \subseteq Routers
      BY <2>1 DEF SessionInv, TypeOK
    <2>3. CASE router[r] \notin Waiting \/ Answer(m.type) = <<>>
      <3>1. [toRouter EXCEPT ![r] = @ \o <<>>] = toRouter
        <4>1. toRouter[r] \o <<>> = toRouter[r]
          BY <1>1, Nothing
        <4> QED BY <4>1 DEF SessionInv, TypeOK
      <3>2. UNCHANGED toRouter
        BY <2>1, <2>3, <3>1 DEF Delivered
      <3> QED BY <2>1, <2>2, <3>2, <1>1, SessionIgnored
    <2>4. ASSUME router[r] \in Waiting, NEW a \in Message, Answer(m.type) = <<a>>,
                 \/ m.type = "AUTH_REPLY" /\ a = Control("AUTH_STATUS")
                 \/ m.type = "OPEN" /\ a = HardwareInfo /\ interfaces
          PROVE  SessionInv'
      <3>1. toRouter[r] \o <<a>> = Append(toRouter[r], a)
        BY <1>1, <2>4, Single
      <3>2. toRouter' = [toRouter EXCEPT ![r] = Append(@, a)]
        BY <3>1, <2>1, <2>4, <1>1 DEF Delivered
      <3> QED BY <2>1, <2>2, <2>4, <3>2, <1>1, SessionAnswered
    <2>5. Control("AUTH_STATUS") \in Message /\ HardwareInfo \in Message
      BY VnsAssumption DEF Control, HardwareInfo, Message, Controls
    <2> QED BY <2>3, <2>4, <2>5, <1>1, Answers
  <1> QED BY <1>2, <1>3

LEMMA SessionDisconnected ==
  ASSUME SessionInv, NEW r \in Routers, Disconnected(r)
  PROVE  SessionInv'
  BY SessionClosed, VnsAssumption DEF Disconnected, Idle, Listed

-----------------------------------------------------------------------------
(* The steps of the POX thread, and the end of POX                           *)

\* The places of the list and the numbers of the packets.
LEMMA Numbers ==
  ASSUME TypeOK
  PROVE  /\ Len(srclients) \in Nat /\ DOMAIN srclients = 1 .. Len(srclients)
         /\ position \in Nat /\ position \in 0 .. Len(srclients) + 1
         /\ packets \in Seq(Interfaces)
         /\ Len(packets) \in Nat /\ Len(packets) <= MaxPackets
  <1>1. srclients \in Seq(Routers) /\ packets \in Seq(Interfaces)
        /\ position \in 0 .. Len(srclients) + 1 /\ Len(packets) <= MaxPackets
    BY DEF TypeOK
  <1>2. /\ Len(srclients) \in Nat /\ DOMAIN srclients = 1 .. Len(srclients)
        /\ Len(packets) \in Nat
    BY <1>1, LenProperties
  <1> QED BY <1>1, <1>2

\* A step of the POX thread that sends nothing.
LEMMA SessionSilent ==
  ASSUME SessionInv, TypeOK', Shared', mapped \subseteq mapped',
         interfaces => interfaces',
         UNCHANGED <<routerVars, linkVars, bridge, srclients, greeting, joined>>,
         \A i \in DOMAIN srclients : LastAt(i)' = LastAt(i)
  PROVE  SessionInv'
  <1>1. SUFFICES ASSUME NEW p \in Routers PROVE Session(p)'
    BY DEF SessionInv
  <1>2. Untouched(p)
    BY DEF Untouched, routerVars, linkVars
  <1>3. At(p)' = At(p) /\ \A i \in At(p) : LastAt(i)' = LastAt(i)
    BY DEF At
  <1> QED BY <1>2, <1>3, SessionFrame DEF SessionInv

LEMMA SessionMapInterface ==
  ASSUME SessionInv, NEW i \in Interfaces, MapInterface(i)
  PROVE  SessionInv'
  <1>1. /\ mapped' = mapped \cup {i} /\ ~interfaces /\ bridge = "up"
        /\ UNCHANGED <<routerVars, linkVars, bridge, srclients, greeting, joined>>
        /\ UNCHANGED <<interfaces, packets, position, unanswered>>
    BY DEF MapInterface
  <1>2. TypeOK'
    BY <1>1 DEF SessionInv, TypeOK, routerVars, linkVars
  <1>3. Shared'
    BY <1>1 DEF SessionInv, Shared
  <1>4. \A k \in DOMAIN srclients : LastAt(k)' = LastAt(k)
    BY <1>1, LastAtKept DEF SameBroadcast
  <1> QED BY <1>1, <1>2, <1>3, <1>4, SessionSilent

LEMMA SessionSetInterfaces ==
  ASSUME SessionInv, SetInterfaces
  PROVE  SessionInv'
  <1>1. /\ interfaces' = TRUE /\ mapped = Interfaces
        /\ UNCHANGED <<routerVars, linkVars, bridge, srclients, greeting, joined>>
        /\ UNCHANGED <<mapped, packets, position, unanswered>>
    BY DEF SetInterfaces, AllMapped
  <1>2. TypeOK'
    BY <1>1 DEF SessionInv, TypeOK, routerVars, linkVars
  <1>3. Shared'
    BY <1>1 DEF SessionInv, Shared
  <1>4. \A k \in DOMAIN srclients : LastAt(k)' = LastAt(k)
    BY <1>1, LastAtKept DEF SameBroadcast
  <1> QED BY <1>1, <1>2, <1>3, <1>4, SessionSilent

LEMMA SessionPacketIn ==
  ASSUME SessionInv, NEW i \in Interfaces, PacketIn(i)
  PROVE  SessionInv'
  <1>1. /\ position = 0 /\ position' = 1 /\ Len(packets) < MaxPackets
        /\ packets' = Append(packets, i)
        /\ UNCHANGED <<routerVars, linkVars, bridge, srclients, greeting, joined>>
        /\ UNCHANGED <<mapped, interfaces, unanswered>>
    BY DEF PacketIn
  <1>2. /\ packets' \in Seq(Interfaces) /\ Len(packets') = Len(packets) + 1
        /\ Len(packets) \in Nat /\ packets' # <<>>
    <2>1. packets \in Seq(Interfaces) /\ Len(packets) \in Nat
      BY Numbers DEF SessionInv
    <2>2. Append(packets, i) \in Seq(Interfaces)
          /\ Len(Append(packets, i)) = Len(packets) + 1
          /\ Append(packets, i) # <<>>
      BY <2>1, AppendProperties
    <2> QED BY <2>1, <2>2, <1>1
  <1>3. TypeOK'
    <2>1. position' \in 0 .. Len(srclients) + 1
      BY <1>1, LenProperties DEF SessionInv, TypeOK
    <2>2. Len(packets') <= MaxPackets
      BY <1>1, <1>2, VnsAssumption
    <2>3. srclients' = srclients
      BY <1>1
    <2> QED BY <1>1, <1>2, <2>1, <2>2, <2>3 DEF SessionInv, TypeOK, routerVars, linkVars
  <1>4. Shared'
    BY <1>1, <1>2 DEF SessionInv, Shared
  <1>5. ASSUME NEW k \in DOMAIN srclients
        PROVE  LastAt(k)' = LastAt(k)
    <2>1. k \in Nat /\ k >= 1
      BY Numbers DEF SessionInv
    <2>2. LastAt(k) = Len(packets)
      BY <1>1 DEF LastAt
    <2>3. LastAt(k)' = Len(packets') - 1
      BY <1>1, <2>1 DEF LastAt
    <2> QED BY <2>2, <2>3, <1>2
  <1> QED BY <1>1, <1>3, <1>4, <1>5, SessionSilent

LEMMA SessionBroadcastEnds ==
  ASSUME SessionInv, BroadcastEnds
  PROVE  SessionInv'
  <1>1. /\ position > Len(srclients) /\ position' = 0
        /\ UNCHANGED <<routerVars, linkVars, bridge, srclients, greeting, joined>>
        /\ UNCHANGED <<mapped, interfaces, packets, unanswered>>
    BY DEF BroadcastEnds
  <1>2. TypeOK'
    BY <1>1, LenProperties DEF SessionInv, TypeOK, routerVars, linkVars
  <1>3. Shared'
    BY <1>1 DEF SessionInv, Shared
  <1>4. ASSUME NEW k \in DOMAIN srclients
        PROVE  LastAt(k)' = LastAt(k)
    <2>1. k \in 1 .. Len(srclients) /\ Len(srclients) \in Nat /\ position \in Nat
      BY Numbers DEF SessionInv
    <2>2. LastAt(k) = Len(packets)
      BY <1>1, <2>1 DEF LastAt
    <2>3. LastAt(k)' = Len(packets)
      BY <1>1 DEF LastAt
    <2> QED BY <2>2, <2>3
  <1> QED BY <1>1, <1>2, <1>3, <1>4, SessionSilent

\* A packet is broadcast to one more client, unless it is gone.
LEMMA SessionBroadcastNext ==
  ASSUME SessionInv, BroadcastNext
  PROVE  SessionInv'
  <1>0. PICK at : at = position
    OBVIOUS
  <1>1. /\ at \in DOMAIN srclients /\ at \in Nat /\ at >= 1 /\ position = at
        /\ at \in 1 .. Len(srclients) /\ Len(srclients) \in Nat
    <2>1. at \in DOMAIN srclients
      BY <1>0 DEF BroadcastNext
    <2> QED BY <2>1, <1>0, Numbers DEF SessionInv
  <1>2. PICK r \in Routers : r = srclients[at]
    BY <1>1, ElementOfSeq DEF SessionInv, TypeOK
  <1>3. PICK n : n = Len(packets)
    OBVIOUS
  <1>4. n \in Nat /\ n >= 1 /\ n <= MaxPackets
    <2>1. packets # <<>> /\ packets \in Seq(Interfaces)
      BY <1>1 DEF SessionInv, Shared, TypeOK
    <2> QED BY <2>1, <1>3, EmptySeq, LenProperties DEF SessionInv, TypeOK
  <1>5. PICK m \in Message : m = Packet(Last(packets), n) /\ IsPacket(m)
                             /\ m.packet = n /\ m.type = "PACKET"
    <2>1. Last(packets) \in Interfaces
      <3>1. n \in 1 .. Len(packets)
        BY <1>3, <1>4
      <3> QED BY <3>1, <1>3, ElementOfSeq DEF SessionInv, TypeOK, Last
    <2>2. Packet(Last(packets), n) \in Message
      BY <2>1, <1>4, VnsAssumption DEF Packet, Message
    <2> QED BY <2>2 DEF Packet, IsPacket
  <1>6. PICK q \in Seq(Message) : q = toRouter[r]
    BY Sequences DEF SessionInv
  <1>7. /\ position' = at + 1
        /\ toRouter' = Delivered(r, <<m>>)
        /\ UNCHANGED <<router, iflist, heard, toBridge, conn, bridge, srclients,
                       greeting, mapped, interfaces, packets, joined, unanswered>>
    BY <1>0, <1>2, <1>3, <1>5 DEF BroadcastNext, routerVars
  <1>8. \/ /\ conn[r] = "open" /\ router[r] \in Waiting
           /\ toRouter' = [toRouter EXCEPT ![r] = Append(q, m)]
        \/ /\ ~(conn[r] = "open" /\ router[r] \in Waiting)
           /\ UNCHANGED toRouter
    <2>1. q \o <<m>> = Append(q, m)
      BY Single
    <2> QED BY <2>1, <1>6, <1>7 DEF Delivered
  <1>9. Append(q, m) \in Seq(Message)
    BY Appended
  <1>10. TypeOK'
    <2>1. position' \in 0 .. Len(srclients) + 1 /\ srclients' = srclients
      BY <1>1, <1>7
    <2>2. toRouter' \in [Routers -> Seq(Message)]
      BY <1>8, <1>9 DEF SessionInv, TypeOK
    <2> QED BY <2>1, <2>2, <1>7 DEF SessionInv, TypeOK
  <1>11. Shared'
    BY <1>1, <1>7 DEF SessionInv, Shared
  <1>12. \A p \in Routers : At(p)' = At(p)
    BY <1>7 DEF At
  <1>13. ASSUME NEW p \in Routers, p # r PROVE Session(p)'
    <2>1. Untouched(p)
      BY <1>7, <1>8, <1>13 DEF SessionInv, TypeOK, Untouched
    <2>2. ASSUME NEW i \in At(p) PROVE LastAt(i)' = LastAt(i)
      <3>1. i # at /\ i \in Nat
        <4>1. i \in DOMAIN srclients /\ srclients[i] = p
          BY DEF At
        <4>2. i \in Nat
          BY <4>1, Numbers DEF SessionInv
        <4> QED BY <4>1, <4>2, <1>2, <1>13
      <3>2. i >= at <=> i >= at + 1
        BY <3>1, <1>1
      <3>3. LastAt(i)' = IF i >= at + 1 THEN Len(packets) - 1 ELSE Len(packets)
        BY <1>1, <1>7 DEF LastAt
      <3>4. LastAt(i) = IF i >= at THEN Len(packets) - 1 ELSE Len(packets)
        BY <1>1 DEF LastAt
      <3> QED BY <3>2, <3>3, <3>4
    <2> QED BY <2>1, <2>2, <1>7, <1>12, SessionFrame DEF SessionInv
  <1>14. Session(r)'
    <2>1. \/ toRouter'[r] = Append(q, m) /\ conn[r] = "open" /\ router[r] \in Waiting
          \/ toRouter'[r] = q /\ ~(conn[r] = "open" /\ router[r] \in Waiting)
      BY <1>6, <1>8 DEF SessionInv, TypeOK
    <2>2. Connected(r)'
      <3>1. ControlsIn(Append(q, m)) = ControlsIn(q)
        BY <1>5, ControlsOfAppend
      <3> QED BY <2>1, <3>1, <1>6, <1>7, <1>12 DEF SessionInv, Session, Connected
    <2>3. InStep(r)'
      <3>1. (RequestFrom[router[r]])' = RequestFrom[router[r]]
            /\ (Awaited[router[r]])' = Awaited[router[r]]
        BY <1>7 DEF RequestFrom, Awaited
      <3>2. ASSUME router[r] \in Waiting
            PROVE  /\ Step(q, toBridge[r], Awaited[router[r]], RequestFrom[router[r]])
                   /\ Step(Append(q, m), toBridge[r], Awaited[router[r]],
                           RequestFrom[router[r]])
        BY <3>2, <1>5, <1>6, StepPacketSent DEF SessionInv, Session, InStep
      <3> QED BY <2>1, <3>1, <3>2, <1>7 DEF InStep
    <2>4. Known(r)'
      <3>1. Known(r)
        BY DEF SessionInv, Session
      <3>2. CASE toRouter'[r] = Append(q, m)
        <4>1. \A i \in DOMAIN toBridge'[r] : \E j \in DOMAIN toBridge[r] :
                 toBridge'[r][i] = toBridge[r][j]
          BY <1>7
        <4>2. UNCHANGED <<router, iflist, mapped, interfaces>>
          BY <1>7
        <4>3. m.type # "HWINFO" /\ m.packet >= 1
          BY <1>4, <1>5
        <4> QED BY <3>1, <3>2, <4>1, <4>2, <4>3, <1>6, KnownSent
      <3>3. CASE toRouter'[r] = toRouter[r]
        BY <3>1, <3>3, <1>7 DEF Known
      <3> QED BY <2>1, <3>2, <3>3, <1>6
    <2>5. Fed(r)'
      <3>1. SUFFICES ASSUME conn[r] = "open", router[r] \in Waiting, NEW i \in At(r)
                     PROVE  Feed(heard[r], Append(q, m), joined[r], LastAt(i)')
        BY <2>1, <1>7, <1>12 DEF Fed
      <3>2. i = at
        BY <1>1, <1>2 DEF At, SessionInv, TypeOK, IsInjective
      <3>3. LastAt(at) = n - 1
        BY <1>1, <1>3 DEF LastAt
      <3>4. LastAt(i)' = n
        <4>1. ~(i >= at + 1)
          BY <3>2, <1>1
        <4> QED BY <4>1, <1>1, <1>3, <1>7 DEF LastAt
      <3>5. Feed(heard[r], q, joined[r], n - 1)
        BY <3>1, <3>2, <3>3, <1>6 DEF SessionInv, Session, Fed
      <3>6. heard[r] \in Seq(Int) /\ joined[r] \in Int
        BY Sequences DEF SessionInv
      <3>7. n - 1 \in Int /\ m.packet = (n - 1) + 1 /\ (n - 1) + 1 = n
        BY <1>4, <1>5
      <3>8. Feed(heard[r], Append(q, m), joined[r], (n - 1) + 1)
        BY <3>5, <3>6, <3>7, <1>5, FeedPacketSent
      <3> QED BY <3>4, <3>7, <3>8
    <2> QED BY <2>2, <2>3, <2>4, <2>5 DEF Session
  <1> QED BY <1>10, <1>11, <1>13, <1>14 DEF SessionInv

LEMMA SessionStop ==
  ASSUME SessionInv, Stop
  PROVE  SessionInv'
  <1>1. /\ bridge' = "stopped" /\ greeting' = Null /\ position' = 0
        /\ toBridge' = [r \in Routers |-> <<>>]
        /\ UNCHANGED <<router, iflist, heard, toRouter, srclients, mapped, interfaces,
                       packets, joined, unanswered>>
    BY DEF Stop, routerVars
  <1>2. /\ conn' \in [Routers -> {"none", "closed", "reset"}]
        /\ \A p \in Routers : conn'[p] = "none" <=> conn[p] = "none"
    <2>1. conn' = [r \in Routers |->
                    IF ~Open(r) THEN conn[r]
                    ELSE IF conn[r] = "backlog" \/ toBridge[r] # <<>> THEN "reset"
                    ELSE "closed"]
      BY DEF Stop
    <2>2. \A p \in Routers : ~Open(p) => conn[p] \in {"none", "closed", "reset"}
      BY DEF SessionInv, TypeOK, Open
    <2>3. \A p \in Routers : Open(p) => conn[p] # "none"
      BY DEF Open
    <2> QED BY <2>1, <2>2, <2>3
  <1>3. TypeOK'
    <2>1. toBridge' \in [Routers -> Seq(Message)]
      BY <1>1, EmptyIsSeq
    <2>2. conn' \in [Routers -> {"none", "backlog", "open", "closed", "reset"}]
      BY <1>2
    <2>3. position' \in 0 .. Len(srclients) + 1 /\ srclients' = srclients
      BY <1>1, LenProperties DEF SessionInv, TypeOK
    <2> QED BY <1>1, <2>1, <2>2, <2>3 DEF SessionInv, TypeOK
  <1>4. Shared'
    BY <1>1 DEF SessionInv, Shared
  <1>5. ASSUME NEW p \in Routers PROVE Session(p)'
    <2>1. /\ toBridge'[p] = <<>> /\ conn'[p] \in {"none", "closed", "reset"}
          /\ conn'[p] = "none" <=> conn[p] = "none"
      BY <1>1, <1>2
    <2>2. Connected(p)'
      <3>1. At(p)' = At(p) /\ greeting' # p
        BY <1>1, VnsAssumption DEF At
      <3> QED BY <2>1, <3>1, <1>1 DEF SessionInv, Session, Connected
    <2>3. InStep(p)'
      <3>1. ControlsIn(<<>>) = {}
        BY EmptyIsSeq DEF ControlsIn
      <3>2. (RequestFrom[router[p]])' = RequestFrom[router[p]]
            /\ (Awaited[router[p]])' = Awaited[router[p]]
        BY <1>1 DEF RequestFrom, Awaited
      <3> QED BY <2>1, <3>1, <3>2, <1>1 DEF SessionInv, Session, InStep, Step, AtMostOne
    <2>4. Known(p)'
      <3>1. Known(p)
        BY DEF SessionInv, Session
      <3> QED BY <2>1, <3>1, <1>1, EmptyIsSeq DEF Known
    <2>5. Fed(p)'
      BY <2>1 DEF Fed
    <2> QED BY <2>2, <2>3, <2>4, <2>5 DEF Session
  <1> QED BY <1>3, <1>4, <1>5 DEF SessionInv

-----------------------------------------------------------------------------
(* The theorems                                                              *)

LEMMA SessionInit == ASSUME Init PROVE SessionInv
  <1>1. <<>> \in Seq(Message) /\ <<>> \in Seq(1 .. MaxPackets)
        /\ <<>> \in Seq(Routers) /\ <<>> \in Seq(Interfaces)
        /\ Len(<<>>) = 0 /\ DOMAIN <<>> = {}
    BY EmptyIsSeq
  <1>2. TypeOK
    <2>1. IsInjective(srclients)
      BY <1>1 DEF Init, IsInjective
    <2>2. /\ router \in [Routers -> {"new"} \cup Waiting \cup Ended]
          /\ iflist \in [Routers -> SUBSET Interfaces]
          /\ heard \in [Routers -> Seq(1 .. MaxPackets)]
          /\ toRouter \in [Routers -> Seq(Message)]
          /\ toBridge \in [Routers -> Seq(Message)]
          /\ conn \in [Routers -> {"none", "backlog", "open", "closed", "reset"}]
      BY <1>1 DEF Init
    <2>3. /\ srclients \in Seq(Routers) /\ packets \in Seq(Interfaces)
          /\ Len(packets) <= MaxPackets /\ position \in 0 .. Len(srclients) + 1
      BY <1>1, VnsAssumption DEF Init
    <2>4. joined \in [Routers -> 0 .. MaxPackets + 1]
      BY VnsAssumption DEF Init
    <2>5. bridge \in {"up", "stopped"} /\ greeting \in Routers \cup {Null}
          /\ mapped \subseteq Interfaces /\ interfaces \in BOOLEAN
          /\ unanswered \subseteq Routers
      BY DEF Init
    <2> QED BY <2>1, <2>2, <2>3, <2>4, <2>5 DEF TypeOK
  <1>3. Shared
    BY DEF Init, Shared
  <1>4. ASSUME NEW p \in Routers PROVE Session(p)
    <2>1. /\ router[p] = "new" /\ iflist[p] = {} /\ heard[p] = <<>>
          /\ toRouter[p] = <<>> /\ toBridge[p] = <<>> /\ conn[p] = "none"
          /\ srclients = <<>> /\ greeting # p
      BY VnsAssumption DEF Init
    <2>2. Connected(p)
      BY <2>1, <1>1 DEF Connected, At
    <2>3. InStep(p) /\ Fed(p)
      BY <2>1 DEF InStep, Fed, Waiting
    <2>4. Known(p)
      BY <2>1, <1>1 DEF Known
    <2> QED BY <2>2, <2>3, <2>4 DEF Session
  <1> QED BY <1>2, <1>3, <1>4 DEF SessionInv

LEMMA SessionStutter == ASSUME SessionInv, UNCHANGED vars PROVE SessionInv'
  <1>1. UNCHANGED <<routerVars, linkVars, bridge, srclients, greeting, joined>>
        /\ UNCHANGED <<mapped, interfaces, packets, position, unanswered>>
    BY DEF vars, poxVars
  <1>2. TypeOK' /\ Shared'
    BY <1>1 DEF SessionInv, TypeOK, Shared, routerVars, linkVars
  <1>3. \A k \in DOMAIN srclients : LastAt(k)' = LastAt(k)
    BY <1>1, LastAtKept DEF SameBroadcast
  <1> QED BY <1>1, <1>2, <1>3, SessionSilent

\* The invariant of the sessions, whatever the routers, the reactor and the POX
\* thread do.
THEOREM SessionAlways == Spec => []SessionInv
  <1>1. Init => SessionInv
    BY SessionInit
  <1>2. SessionInv /\ [Next]_vars => SessionInv'
    <2>1. SUFFICES ASSUME SessionInv, [Next]_vars PROVE SessionInv'
      OBVIOUS
    <2>2. ASSUME NEW r \in Routers, Connect(r) \/ Read(r) \/ Quit(r) PROVE SessionInv'
      BY <2>1, <2>2, SessionConnect, SessionRead, SessionQuit
    <2>3. ASSUME NEW r \in Routers, NEW i \in Interfaces, SendPacket(r, i)
          PROVE  SessionInv'
      BY <2>1, <2>3, SessionSendPacket
    <2>4. CASE Reactor
      <3>1. ASSUME NEW r \in Routers, Accept(r) \/ Handle(r) \/ Disconnected(r)
            PROVE  SessionInv'
        BY <2>1, <3>1, SessionAccept, SessionHandle, SessionDisconnected
      <3> QED BY <2>1, <2>4, <3>1, SessionGreet DEF Reactor
    <2>5. CASE Pox
      <3>1. ASSUME NEW i \in Interfaces, MapInterface(i) \/ PacketIn(i)
            PROVE  SessionInv'
        BY <2>1, <3>1, SessionMapInterface, SessionPacketIn
      <3> QED BY <2>1, <2>5, <3>1, SessionSetInterfaces, SessionBroadcastNext,
                 SessionBroadcastEnds DEF Pox
    <2>6. CASE Stop
      BY <2>1, <2>6, SessionStop
    <2>7. CASE UNCHANGED vars
      BY <2>1, <2>7, SessionStutter
    <2> QED BY <2>1, <2>2, <2>3, <2>4, <2>5, <2>6, <2>7 DEF Next
  <1> QED BY <1>1, <1>2, PTL DEF Spec

\* The types of the state of the routers, their connections and the bridge.
THEOREM TypeCorrect == Spec => []TypeOK
  <1>1. SessionInv => TypeOK
    BY DEF SessionInv
  <1> QED BY <1>1, SessionAlways, PTL

\* sr_read_from_server_expect() and _handle_recv_msg() keep in step: at most one
\* message of a session is on its way, and it is the one the router waits for.
THEOREM SessionsKeepInStep == Spec => []SessionInStep
  <1>1. SessionInv => SessionInStep
    BY DEF SessionInv, Session, InStep, Step, SessionInStep
  <1> QED BY <1>1, SessionAlways, PTL

\* A ready router knows the interface of every packet it is sent, and
\* _handle_packet_msg() the port of every interface a router sends through.
THEOREM EveryInterfaceIsKnown == Spec => []InterfacesKnown
  <1>1. ASSUME SessionInv, NEW r \in Routers, router[r] = "ready",
               NEW i \in DOMAIN toRouter[r]
        PROVE  KnowsInterface(r, toRouter[r][i])
    <2>1. toRouter[r][i] \in Message
      BY <1>1, Sequences, ElementOfSeq, LenProperties DEF SessionInv
    <2>2. iflist[r] = Interfaces
      BY <1>1 DEF SessionInv, Session, Known
    <2> QED BY <2>1, <2>2 DEF KnowsInterface, Message
  <1>2. SessionInv => InterfacesKnown
    BY <1>1 DEF SessionInv, Session, Known, InterfacesKnown
  <1> QED BY <1>2, SessionAlways, PTL

\* broadcast() sends each connected router every packet from the one it joined
\* at on, once and in order, although the list grows while it goes through it.
THEOREM BroadcastSkipsNobody == Spec => []NoPacketSkipped
  <1>1. ASSUME SessionInv, NEW r \in Routers, conn[r] = "open", router[r] \in Waiting
        PROVE  Feed(heard[r], toRouter[r], joined[r], LastSent(r))
    <2>1. PICK i \in DOMAIN srclients : srclients[i] = r
      BY <1>1 DEF SessionInv, Session, Connected, At
    <2>2. Position(r) = i
      <3>1. Position(r) \in DOMAIN srclients /\ srclients[Position(r)] = r
        BY <2>1 DEF Position
      <3> QED BY <2>1, <3>1, <1>1 DEF SessionInv, TypeOK, IsInjective
    <2>3. LastSent(r) = LastAt(i)
      BY <2>2 DEF LastSent, LastAt
    <2> QED BY <1>1, <2>1, <2>3 DEF SessionInv, Session, Fed, At
  <1>2. ASSUME SessionInv, NEW r \in Routers, conn[r] = "open", router[r] \in Waiting
        PROVE  {toRouter[r][i].packet : i \in PacketsIn(toRouter[r])}
                 = joined[r] + Len(heard[r]) .. LastSent(r)
    BY <1>1, <1>2 DEF Feed
  <1>3. SessionInv => NoPacketSkipped
    BY <1>1, <1>2 DEF NoPacketSkipped, Feed
  <1> QED BY <1>3, SessionAlways, PTL
=============================================================================
