----------------------------- MODULE StcpProofs -----------------------------
(***************************************************************************)
(* Theorems about Stcp and FileTransfer.  Part 1: types.  Part 2: Stcp     *)
(* implements ByteStream.  Part 3: sequence numbers, that is the window,   *)
(* the acknowledgements, the FINs and the asserts.  Part 4: the two        *)
(* programs of FileTransfer, which rest on parts 1 to 3; these use nothing *)
(* of FileTransfer.                                                        *)
(***************************************************************************)
EXTENDS FileTransfer, SequenceTheorems, FiniteSetTheorems, TLAPS

-----------------------------------------------------------------------------
(***************************************************************************)
(* Part 1: types.                                                          *)
(***************************************************************************)
-----------------------------------------------------------------------------
(* Facts about the operators of Stcp.                                        *)

LEMMA PeerFacts ==
    \A e \in Ends : Peer(e) \in Ends /\ Peer(e) # e /\ Peer(Peer(e)) = e
BY DEF Ends, Active, Passive, Peer

LEMMA PlusType ==
    ASSUME NEW a \in Nat, NEW b \in Nat
    PROVE  Plus(a, b) \in SeqNum
<1>1. SeqMod \in Nat /\ SeqMod > 0
  BY StcpAssumption
<1>2. a + b \in Nat
  OBVIOUS
<1> QED
  BY <1>1, <1>2 DEF Plus, SeqNum

LEMMA HeaderType ==
    ASSUME NEW flags \in Flags, NEW seq \in SeqNum, NEW ack \in SeqNum
    PROVE  Header(flags, seq, ack) \in Packet
BY DEF Header, Packet

LEMMA NoPacketType == NoPacket \in Packet
BY StcpAssumption DEF NoPacket, Packet, Flags, SeqNum

LEMMA PortionType ==
    ASSUME NEW b \in Buffer, NEW room \in Int
    PROVE  Portion(b, room) \in Buffer
BY DEF Portion, Buffer, Size

LEMMA LeftoverType ==
    ASSUME NEW q \in Seq(Buffer), q # <<>>, NEW room \in Int
    PROVE  Leftover(q, room) \in Seq(Buffer)
<1> DEFINE b == Head(q)
           rest == [lo |-> b.lo + room, hi |-> b.hi]
<1>1. b \in Buffer /\ Tail(q) \in Seq(Buffer) /\ 1 \in 1 .. Len(q)
  OBVIOUS
<1>2. CASE 0 <= room /\ room < Size(b)
  <2>1. rest \in Buffer
    BY <1>1, <1>2 DEF Buffer, Size
  <2>2. [q EXCEPT ![1] = rest] \in Seq(Buffer)
    BY <1>1, <2>1, ExceptSeq
  <2> QED
    BY <1>2, <2>2 DEF Leftover
<1>3. CASE ~(0 <= room /\ room < Size(b))
  BY <1>1, <1>3 DEF Leftover
<1> QED
  BY <1>2, <1>3

LEMMA SendRoomType ==
    ASSUME TypeOK, NEW e \in Ends
    PROVE  SendRoom(e) \in Int
<1>1. /\ nextSeq[e] \in Int /\ ackSeq[e] \in Int /\ adWin[e] \in Int
      /\ SeqMod \in Nat /\ SeqMod > 0
      /\ MaxPayload \in Int
  BY StcpAssumption DEF TypeOK, SeqNum
<1>2. Distance(nextSeq[e], ackSeq[e]) \in Int
  BY <1>1 DEF Distance
<1> QED
  BY <1>1, <1>2 DEF SendRoom, Least

-----------------------------------------------------------------------------
(* The steps of the network.                                                 *)

NetOK ==
    /\ inbound \in [Ends -> Seq(Packet)]
    /\ ready \in [Ends -> Nat]
    /\ \A e \in Ends : ready[e] <= Len(inbound[e])
    /\ rx \in [Ends -> BOOLEAN]
    /\ up \in [Ends -> BOOLEAN]
    /\ reset \in [Ends -> BOOLEAN]

LEMMA SentType ==
    ASSUME NEW queues \in [Ends -> Seq(Packet)], NEW e \in Ends,
           NEW p \in Packet
    PROVE  /\ Sent(queues, e, p) \in [Ends -> Seq(Packet)]
           /\ \A f \in Ends : Len(Sent(queues, e, p)[f]) >= Len(queues[f])
BY PeerFacts DEF Sent

LEMMA SendNetOK ==
    ASSUME NetOK, NEW e \in Ends, NEW p \in Packet, Send(e, p)
    PROVE  NetOK' /\ ready' = ready
<1>1. /\ inbound' \in [Ends -> Seq(Packet)]
      /\ \A f \in Ends : Len(inbound'[f]) >= Len(inbound[f])
  BY SentType DEF NetOK, Send
<1>2. ready' = ready /\ rx' = rx /\ up' = up /\ reset' \in [Ends -> BOOLEAN]
  BY DEF NetOK, Send, AnswerTo
<1>3. \A f \in Ends : ready'[f] <= Len(inbound'[f])
  <2> TAKE f \in Ends
  <2>1. /\ Len(inbound[f]) \in Nat /\ Len(inbound'[f]) \in Nat
        /\ ready[f] \in Nat /\ ready[f] <= Len(inbound[f])
    BY <1>1 DEF NetOK
  <2> QED
    BY <1>1, <1>2, <2>1
<1> QED
  BY <1>1, <1>2, <1>3 DEF NetOK

LEMMA TakeNetOK ==
    ASSUME NetOK, NEW e \in Ends, ready[e] > 0, Take(e)
    PROVE  /\ NetOK'
           /\ Head(inbound[e]) \in Packet
BY DEF NetOK, Take

LEMMA TakeAndSendNetOK ==
    ASSUME NetOK, NEW e \in Ends, NEW p \in Packet, ready[e] > 0,
           TakeAndSend(e, p)
    PROVE  /\ NetOK'
           /\ ready' = [ready EXCEPT ![e] = @ - 1]
<1> DEFINE queues == [inbound EXCEPT ![e] = Tail(@)]
<1>1. /\ queues \in [Ends -> Seq(Packet)]
      /\ Len(queues[e]) = Len(inbound[e]) - 1
      /\ \A f \in Ends \ {e} : queues[f] = inbound[f]
  BY DEF NetOK
<1>2. /\ inbound' \in [Ends -> Seq(Packet)]
      /\ \A f \in Ends : Len(inbound'[f]) >= Len(queues[f])
  BY <1>1, SentType DEF TakeAndSend
<1>3. /\ ready' = [ready EXCEPT ![e] = @ - 1]
      /\ ready' \in [Ends -> Nat]
  BY DEF TakeAndSend, NetOK
<1>4. \A f \in Ends : ready'[f] <= Len(inbound'[f])
  BY <1>1, <1>2, <1>3 DEF NetOK
<1>5. rx' = rx /\ up' = up /\ reset' \in [Ends -> BOOLEAN]
  BY DEF TakeAndSend, AnswerTo, NetOK
<1> QED
  BY <1>2, <1>3, <1>4, <1>5 DEF NetOK

LEMMA HeadIsPacket ==
    ASSUME NetOK, NEW e \in Ends, ready[e] > 0
    PROVE  Head(inbound[e]) \in Packet
BY DEF NetOK

LEMMA DisconnectNetOK ==
    ASSUME NetOK, NEW e \in Ends, Disconnect(e)
    PROVE  NetOK'
BY PeerFacts DEF NetOK, Disconnect

-----------------------------------------------------------------------------
(* Type correctness.  TypeOK is not inductive: what a step takes out of a    *)
(* queue is there because the event that announced it is still pending, and  *)
(* ctx->fin stays below 5 because the close request is reported only once.   *)

Pending(e) ==
    /\ "APP_DATA" \in ev[e] => appRecvQ[e] # <<>>
    /\ "NETWORK_DATA" \in ev[e] => ready[e] > 0
    /\ ev[e] # {} => st[e] = "established"
    /\ "APP_CLOSE_REQUESTED" \in ev[e] => ~closeReq[e]

FinBound(e) ==
    /\ st[e] \in Handshaking => fin[e] = 0
    /\ st[e] = "established" =>
          \/ fin[e] <= 2
          \/ /\ fin[e] = 3
             /\ ~closeReq[e] /\ app[e] # "open"
             /\ "APP_CLOSE_REQUESTED" \notin ev[e]
    /\ (closeReq[e] \/ "APP_CLOSE_REQUESTED" \in ev[e]) => app[e] = "closing"

TypeInv == TypeOK /\ \A e \in Ends : Pending(e) /\ FinBound(e)

LEMMA TypeInit == Init => TypeInv
BY StcpAssumption
   DEF Init, TypeInv, TypeOK, Pending, FinBound, Ends, States, Handshaking,
       Active, Passive, SeqNum, Events

LEMMA SeqNumFacts ==
    /\ 0 \in SeqNum
    /\ \A a \in SeqNum : Plus(a, 1) \in SeqNum
<1>1. 0 \in SeqNum /\ SeqNum \subseteq Nat /\ 1 \in Nat
  BY StcpAssumption DEF SeqNum
<1> QED
  BY <1>1, PlusType

LEMMA TypeNet == TypeOK => NetOK
BY DEF TypeOK, NetOK

LEMMA TypeHandshake ==
    ASSUME TypeInv, NEW e \in Ends, Handshake(e)
    PROVE  TypeInv'
<1> USE DEF TypeInv
<1>0. NetOK
  BY TypeNet
<1>1. CASE SendSyn(e)
  <2>1. Header("SYN", nextSeq[e], 0) \in Packet
    BY SeqNumFacts, HeaderType DEF Flags, TypeOK
  <2>2. NetOK' /\ ready' = ready
    BY <1>0, <1>1, <2>1, SendNetOK DEF SendSyn
  <2>3. TypeOK'
    BY SeqNumFacts, <1>1, <2>2
    DEF SendSyn, TypeOK, NetOK, appVars, States, Handshaking
  <2>4. \A f \in Ends : Pending(f)' /\ FinBound(f)'
    BY <1>1, <2>2
    DEF SendSyn, TypeOK, Pending, FinBound, appVars, Handshaking
  <2> QED
    BY <2>3, <2>4
<1>2. CASE RecvSyn(e)
  <2> DEFINE p == Head(inbound[e])
             answer == Header("SYN_ACK", nextSeq[e], Plus(p.seq, 1))
  <2>1. ready[e] > 0 /\ p \in Packet /\ p.seq \in SeqNum
    BY <1>0, <1>2, HeadIsPacket DEF RecvSyn, Packet
  <2>2. answer \in Packet
    BY <2>1, SeqNumFacts, HeaderType DEF Flags, TypeOK
  <2>3. /\ NetOK'
        /\ ready' = [ready EXCEPT ![e] = @ - 1]
    <3>1. CASE TakeAndSend(e, answer)
      BY <1>0, <2>1, <2>2, <3>1, TakeAndSendNetOK
    <3>2. CASE Take(e)
      BY <1>0, <2>1, <3>2, TakeNetOK DEF Take
    <3> QED
      BY <1>2, <3>1, <3>2 DEF RecvSyn
  <2>4. TypeOK'
    <3>1. /\ nextSeq' \in [Ends -> SeqNum]
          /\ yAck' \in [Ends -> SeqNum]
          /\ st' \in [Ends -> States]
      <4>1. Plus(p.seq, 1) \in SeqNum /\ Plus(nextSeq[e], 1) \in SeqNum
        BY <2>1, SeqNumFacts DEF TypeOK
      <4>2. \/ nextSeq' = [nextSeq EXCEPT ![e] = Plus(@, 1)]
            \/ nextSeq' = nextSeq
        BY <1>2 DEF RecvSyn
      <4>3. \/ yAck' = [yAck EXCEPT ![e] = Plus(p.seq, 1)]
            \/ yAck' = yAck
        BY <1>2 DEF RecvSyn
      <4>4. st' = [st EXCEPT ![e] = "syn_rcvd"] \/ st' = st
        BY <1>2 DEF RecvSyn
      <4>5. nextSeq' \in [Ends -> SeqNum]
        BY <4>1, <4>2 DEF TypeOK
      <4>6. yAck' \in [Ends -> SeqNum]
        BY <4>1, <4>3 DEF TypeOK
      <4> QED
        BY <4>4, <4>5, <4>6 DEF TypeOK, States, Handshaking
    <3> QED
      BY <1>2, <2>3, <3>1 DEF RecvSyn, TypeOK, NetOK, appVars
  <2>5. \A f \in Ends : Pending(f)' /\ FinBound(f)'
    BY <1>2, <2>3
    DEF RecvSyn, TypeOK, Pending, FinBound, appVars, Handshaking
  <2> QED
    BY <2>4, <2>5
<1>3. CASE RecvSynAck(e)
  <2> DEFINE p == Head(inbound[e])
             answer == Header("ACK", nextSeq[e], Plus(p.seq, 1))
  <2>1. /\ ready[e] > 0 /\ p \in Packet
        /\ p.seq \in SeqNum /\ p.ack \in SeqNum /\ p.win \in {0, Window}
    BY <1>0, <1>3, HeadIsPacket DEF RecvSynAck, Packet
  <2>2. answer \in Packet
    BY <2>1, SeqNumFacts, HeaderType DEF Flags, TypeOK
  <2>3. /\ NetOK'
        /\ ready' = [ready EXCEPT ![e] = @ - 1]
    <3>1. CASE TakeAndSend(e, answer)
      BY <1>0, <2>1, <2>2, <3>1, TakeAndSendNetOK
    <3>2. CASE Take(e)
      BY <1>0, <2>1, <3>2, TakeNetOK DEF Take
    <3> QED
      BY <1>3, <3>1, <3>2 DEF RecvSynAck
  <2>4. TypeOK'
    <3>1. /\ ackSeq' \in [Ends -> SeqNum]
          /\ yAck' \in [Ends -> SeqNum]
          /\ adWin' \in [Ends -> {0, Window}]
          /\ st' \in [Ends -> States]
      <4>1. Plus(p.seq, 1) \in SeqNum
        BY <2>1, SeqNumFacts DEF TypeOK
      <4>2. \/ ackSeq' = [ackSeq EXCEPT ![e] = p.ack]
            \/ ackSeq' = ackSeq
        BY <1>3 DEF RecvSynAck
      <4>3. \/ yAck' = [yAck EXCEPT ![e] = Plus(p.seq, 1)]
            \/ yAck' = yAck
        BY <1>3 DEF RecvSynAck
      <4>4. \/ adWin' = [adWin EXCEPT ![e] = p.win]
            \/ adWin' = adWin
        BY <1>3 DEF RecvSynAck
      <4>5. st' = [st EXCEPT ![e] = "established"] \/ st' = st
        BY <1>3 DEF RecvSynAck
      <4>6. ackSeq' \in [Ends -> SeqNum] /\ adWin' \in [Ends -> {0, Window}]
        BY <2>1, <4>2, <4>4 DEF TypeOK
      <4>7. yAck' \in [Ends -> SeqNum]
        BY <4>1, <4>3 DEF TypeOK
      <4> QED
        BY <4>5, <4>6, <4>7 DEF TypeOK, States, Handshaking
    <3> QED
      BY <1>3, <2>3, <3>1 DEF RecvSynAck, TypeOK, NetOK, appVars
  <2>5. \A f \in Ends : Pending(f)' /\ FinBound(f)'
    BY <1>3, <2>3
    DEF RecvSynAck, TypeOK, Pending, FinBound, appVars, Handshaking
  <2> QED
    BY <2>4, <2>5
<1>4. CASE RecvHandshakeAck(e)
  <2> DEFINE p == Head(inbound[e])
  <2>1. /\ ready[e] > 0
        /\ p.ack \in SeqNum /\ p.win \in {0, Window}
    BY <1>0, <1>4, HeadIsPacket DEF RecvHandshakeAck, Packet
  <2>2. NetOK' /\ ready' = [ready EXCEPT ![e] = @ - 1]
    BY <1>0, <1>4, <2>1, TakeNetOK DEF RecvHandshakeAck, Take
  <2>3. TypeOK'
    BY <1>4, <2>1, <2>2
    DEF RecvHandshakeAck, TypeOK, NetOK, appVars, States, Handshaking
  <2>4. \A f \in Ends : Pending(f)' /\ FinBound(f)'
    BY <1>4, <2>2
    DEF RecvHandshakeAck, TypeOK, Pending, FinBound, appVars, Handshaking
  <2> QED
    BY <2>3, <2>4
<1> QED
  BY <1>1, <1>2, <1>3, <1>4 DEF Handshake

LEMMA TypeAbort ==
    ASSUME TypeInv, NEW e \in Ends, Abort(e)
    PROVE  TypeInv'
<1> USE DEF TypeInv
<1>1. NetOK'
  BY TypeNet, DisconnectNetOK DEF Abort
<1>2. TypeOK'
  <2>1. /\ app' = [app EXCEPT ![e] = "dead"]
        /\ st' = [st EXCEPT ![e] = "abort"]
        /\ ev' = [ev EXCEPT ![e] = {}]
        /\ appRecvQ' = [appRecvQ EXCEPT ![e] = <<>>]
        /\ appSendQ' = [appSendQ EXCEPT ![e] = <<>>]
        /\ closeReq' = [closeReq EXCEPT ![e] = FALSE]
        /\ UNCHANGED <<written, rcvd, eof, nextSeq, ackSeq, adWin, yAck, fin>>
    BY DEF Abort
  <2> QED
    BY <1>1, <2>1 DEF TypeOK, NetOK, States
<1>3. \A f \in Ends : Pending(f)' /\ FinBound(f)'
  <2>1. \A f \in Ends \ {e} : ready'[f] = ready[f]
    BY DEF Abort, Disconnect, TypeOK
  <2> QED
    BY <2>1 DEF Abort, TypeOK, Pending, FinBound, Handshaking
<1> QED
  BY <1>2, <1>3

LEMMA TypeWaitForEvent ==
    ASSUME TypeInv, NEW e \in Ends, WaitForEvent(e)
    PROVE  TypeInv'
<1> USE DEF TypeInv
<1>1. Bits(e) \in SUBSET Events
  BY DEF Bits
<1>2. TypeOK'
  BY <1>1
  DEF WaitForEvent, TypeOK, appVars, netVars, seqVars
<1>3. \A f \in Ends : Pending(f)' /\ FinBound(f)'
  BY DEF WaitForEvent, TypeOK, Pending, FinBound, Bits, CloseReported,
         Handshaking, appVars, netVars
<1> QED
  BY <1>2, <1>3

LEMMA TypeHandleAppData ==
    ASSUME TypeInv, NEW e \in Ends, HandleAppData(e)
    PROVE  TypeInv'
<1> USE DEF TypeInv
<1> DEFINE b == Portion(Head(appRecvQ[e]), SendRoom(e))
           p == [Header("DATA", nextSeq[e], yAck[e])
                   EXCEPT !.lo = b.lo, !.hi = b.hi]
<1>1. /\ SendRoom(e) \in Int
      /\ appRecvQ[e] # <<>> /\ appRecvQ[e] \in Seq(Buffer)
      /\ Head(appRecvQ[e]) \in Buffer
      /\ nextSeq[e] \in SeqNum /\ yAck[e] \in SeqNum
  BY SendRoomType DEF HandleAppData, TypeOK, Pending
<1>2. b \in Buffer /\ Leftover(appRecvQ[e], SendRoom(e)) \in Seq(Buffer)
  BY <1>1, PortionType, LeftoverType
<1>3. p \in Packet
  BY <1>1, <1>2 DEF Header, Packet, Buffer, Flags
<1>4. NetOK' /\ ready' = ready
  <2>1. CASE Send(e, p)
    BY <2>1, <1>3, TypeNet, SendNetOK
  <2>2. CASE UNCHANGED netVars
    BY <2>2, TypeNet DEF netVars, NetOK
  <2> QED
    BY <2>1, <2>2 DEF HandleAppData
<1>5. nextSeq' \in [Ends -> SeqNum]
  <2>1. Size(b) \in Nat /\ nextSeq[e] \in Nat
    BY <1>1, <1>2, StcpAssumption DEF Buffer, Size, SeqNum
  <2>2. Plus(nextSeq[e], Size(b)) \in SeqNum
    BY <2>1, PlusType
  <2> QED
    BY <2>2 DEF HandleAppData, TypeOK
<1>6. appRecvQ' \in [Ends -> Seq(Buffer)] /\ ev' \in [Ends -> SUBSET Events]
  BY <1>2 DEF HandleAppData, TypeOK
<1>7. TypeOK'
  BY <1>4, <1>5, <1>6 DEF HandleAppData, TypeOK, NetOK, appVars
<1>8. \A f \in Ends : Pending(f)' /\ FinBound(f)'
  BY <1>4
  DEF HandleAppData, TypeOK, Pending, FinBound, Handshaking, appVars
<1> QED
  BY <1>7, <1>8
\* What is known of the packet the loop is about to handle.
LEMMA PacketFacts ==
    ASSUME TypeInv, NEW e \in Ends, HandlesPacket(e),
           NEW p, p = Head(inbound[e])
    PROVE  /\ ready[e] > 0 /\ st[e] = "established" /\ fin[e] \in 0 .. 3
           /\ p \in Packet
           /\ p.seq \in SeqNum /\ p.ack \in SeqNum /\ p.win \in {0, Window}
           /\ p.lo \in Nat /\ p.hi \in Nat /\ p.lo <= p.hi
<1>1. ready[e] > 0 /\ st[e] = "established" /\ fin[e] \in 0 .. 3
  BY DEF TypeInv, TypeOK, HandlesPacket, Pending, FinBound
<1>2. p \in Packet
  BY <1>1, TypeNet, HeadIsPacket DEF TypeInv
<1> QED
  BY <1>1, <1>2 DEF Packet

LEMMA AckedByType ==
    ASSUME TypeOK, NEW e \in Ends, NEW p \in Packet
    PROVE  AckedBy(e, p) \in SeqNum
BY DEF AckedBy, Greatest, TypeOK, Packet

LEMMA AckForType ==
    ASSUME TypeOK, NEW e \in Ends, NEW p \in Packet
    PROVE  AckFor(e, p) \in SeqNum
<1>1. p.seq \in Nat /\ Size(p) \in Nat
  BY StcpAssumption DEF Packet, Size, SeqNum
<1>2. Plus(p.seq, Size(p)) \in SeqNum
  BY <1>1, PlusType
<1> QED
  BY <1>2 DEF AckFor, Greatest, TypeOK

LEMMA TypeHandleAck ==
    ASSUME TypeInv, NEW e \in Ends, HandleAck(e)
    PROVE  TypeInv'
<1> DEFINE p == Head(inbound[e])
<1> HIDE DEF p
<1>0. HandlesPacket(e) /\ p = Head(inbound[e])
  BY DEF HandleAck, p
<1>1. /\ ready[e] > 0 /\ st[e] = "established" /\ p \in Packet
      /\ p.win \in {0, Window}
  BY <1>0, PacketFacts
<1>2. AckedBy(e, p) \in SeqNum
  BY <1>1, AckedByType DEF TypeInv
<1>3. CASE Abort(e)
  BY <1>3, TypeAbort
<1>4. CASE /\ Take(e)
           /\ adWin' = [adWin EXCEPT ![e] = p.win]
           /\ ackSeq' = [ackSeq EXCEPT ![e] = AckedBy(e, p)]
           /\ ev' = [ev EXCEPT ![e] = @ \ {"NETWORK_DATA"}]
           /\ UNCHANGED <<appVars, appRecvQ, appSendQ, closeReq, st,
                          nextSeq, yAck, fin>>
  <2>1. NetOK' /\ ready' = [ready EXCEPT ![e] = @ - 1]
    BY <1>1, <1>4, TypeNet, TakeNetOK DEF TypeInv, Take
  <2>2. ackSeq' \in [Ends -> SeqNum] /\ adWin' \in [Ends -> {0, Window}]
    BY <1>1, <1>2, <1>4 DEF TypeInv, TypeOK
  <2>3. TypeOK'
    BY <1>4, <2>1, <2>2 DEF TypeInv, TypeOK, NetOK, appVars
  <2>4. \A f \in Ends : Pending(f)' /\ FinBound(f)'
    BY <1>4, <2>1
    DEF TypeInv, TypeOK, Pending, FinBound, Handshaking, appVars
  <2> QED
    BY <2>3, <2>4 DEF TypeInv
<1> QED
  BY <1>3, <1>4 DEF HandleAck, p

LEMMA TypeHandleFinAck ==
    ASSUME TypeInv, NEW e \in Ends, HandleFinAck(e)
    PROVE  TypeInv'
<1> DEFINE p == Head(inbound[e])
<1> HIDE DEF p
<1>0. HandlesPacket(e) /\ p = Head(inbound[e])
  BY DEF HandleFinAck, p
<1>1. /\ ready[e] > 0 /\ st[e] = "established" /\ fin[e] \in 0 .. 3
      /\ p \in Packet
  BY <1>0, PacketFacts
<1>2. /\ Take(e) /\ CountFin(e)
      /\ ackSeq' = [ackSeq EXCEPT ![e] = AckedBy(e, p)]
      /\ UNCHANGED <<appVars, appRecvQ, appSendQ, closeReq, nextSeq, adWin,
                     yAck>>
  BY DEF HandleFinAck, p
<1>3. NetOK' /\ ready' = [ready EXCEPT ![e] = @ - 1]
  BY <1>1, <1>2, TypeNet, TakeNetOK DEF TypeInv, Take
<1>4. AckedBy(e, p) \in SeqNum
  BY <1>1, AckedByType DEF TypeInv
<1>5. /\ ackSeq' \in [Ends -> SeqNum]
      /\ fin' \in [Ends -> 0 .. 4]
      /\ st' \in [Ends -> States]
      /\ ev' \in [Ends -> SUBSET Events]
  BY <1>1, <1>2, <1>4 DEF TypeInv, TypeOK, CountFin, States
<1>6. TypeOK'
  BY <1>2, <1>3, <1>5 DEF TypeInv, TypeOK, NetOK, appVars
<1>7. \A f \in Ends : Pending(f)' /\ FinBound(f)'
  BY <1>1, <1>2, <1>3
  DEF TypeInv, TypeOK, CountFin, FinsExchanged, Pending, FinBound,
      Handshaking, appVars
<1> QED
  BY <1>6, <1>7 DEF TypeInv

LEMMA TypeHandleFin ==
    ASSUME TypeInv, NEW e \in Ends, HandleFin(e)
    PROVE  TypeInv'
<1>0. HandlesPacket(e)
  BY DEF HandleFin
<1>1. ready[e] > 0 /\ st[e] = "established" /\ fin[e] \in 0 .. 3
  BY <1>0, PacketFacts
<1>2. Header("ACK", nextSeq[e], yAck[e]) \in Packet
  BY HeaderType DEF TypeInv, TypeOK, Flags
<1>3. NetOK' /\ ready' = [ready EXCEPT ![e] = @ - 1]
  BY <1>1, <1>2, TypeNet, TakeAndSendNetOK DEF TypeInv, HandleFin
<1>4. EofBuffer \in Buffer
  BY DEF EofBuffer, Buffer
<1>5. /\ fin' \in [Ends -> 0 .. 4]
      /\ st' \in [Ends -> States]
      /\ ev' \in [Ends -> SUBSET Events]
      /\ appSendQ' \in [Ends -> Seq(Buffer)]
  BY <1>1, <1>4 DEF HandleFin, TypeInv, TypeOK, CountFin, States
<1>6. TypeOK'
  BY <1>3, <1>5 DEF HandleFin, TypeInv, TypeOK, NetOK, appVars, seqVars
<1>7. \A f \in Ends : Pending(f)' /\ FinBound(f)'
  BY <1>1, <1>3
  DEF HandleFin, TypeInv, TypeOK, CountFin, FinsExchanged, Pending, FinBound,
      Handshaking, appVars
<1> QED
  BY <1>6, <1>7 DEF TypeInv

LEMMA TypeHandlePayload ==
    ASSUME TypeInv, NEW e \in Ends, HandlePayload(e)
    PROVE  TypeInv'
<1> DEFINE p == Head(inbound[e])
           answer == Header("ACK", nextSeq[e], AckFor(e, p))
           buffer == [lo |-> p.lo, hi |-> p.hi]
<1> HIDE DEF p
<1>0. HandlesPacket(e) /\ p = Head(inbound[e])
  BY DEF HandlePayload, p
<1>1. /\ ready[e] > 0 /\ st[e] = "established" /\ p \in Packet
      /\ p.lo \in Nat /\ p.hi \in Nat /\ p.lo <= p.hi
  BY <1>0, PacketFacts
<1>2. AckFor(e, p) \in SeqNum
  BY <1>1, AckForType DEF TypeInv
<1>3. answer \in Packet
  BY <1>2, HeaderType DEF TypeInv, TypeOK, Flags
<1>4. buffer \in Buffer
  BY <1>1 DEF Buffer
<1>5. /\ TakeAndSend(e, answer)
      /\ yAck' = [yAck EXCEPT ![e] = AckFor(e, p)]
      /\ ev' = [ev EXCEPT ![e] = @ \ {"NETWORK_DATA"}]
      /\ UNCHANGED <<appVars, appRecvQ, closeReq, st, nextSeq, ackSeq, adWin,
                     fin>>
      /\ \/ appSendQ' = [appSendQ EXCEPT ![e] = Append(@, buffer)]
         \/ appSendQ' = [appSendQ EXCEPT ![e] = @]
  BY DEF HandlePayload, p
<1>6. NetOK' /\ ready' = [ready EXCEPT ![e] = @ - 1]
  BY <1>1, <1>3, <1>5, TypeNet, TakeAndSendNetOK DEF TypeInv
<1>7. yAck' \in [Ends -> SeqNum] /\ appSendQ' \in [Ends -> Seq(Buffer)]
  <2>1. yAck' \in [Ends -> SeqNum]
    BY <1>2, <1>5 DEF TypeInv, TypeOK
  <2>2. appSendQ' \in [Ends -> Seq(Buffer)]
    <3>1. appSendQ \in [Ends -> Seq(Buffer)]
      BY DEF TypeInv, TypeOK
    <3>2. Append(appSendQ[e], buffer) \in Seq(Buffer)
      BY <1>4, <3>1, AppendProperties
    <3> HIDE DEF buffer
    <3> QED
      BY <1>5, <3>1, <3>2
  <2> QED
    BY <2>1, <2>2
<1>8. TypeOK'
  BY <1>5, <1>6, <1>7 DEF TypeInv, TypeOK, NetOK, appVars
<1>9. \A f \in Ends : Pending(f)' /\ FinBound(f)'
  BY <1>5, <1>6 DEF TypeInv, TypeOK, Pending, FinBound, Handshaking, appVars
<1> QED
  BY <1>8, <1>9 DEF TypeInv

LEMMA TypeHandleClose ==
    ASSUME TypeInv, NEW e \in Ends, HandleClose(e)
    PROVE  TypeInv'
<1>1. Header("FIN", nextSeq[e], yAck[e]) \in Packet
  BY HeaderType DEF TypeInv, TypeOK, Flags
<1>2. NetOK' /\ ready' = ready
  BY <1>1, TypeNet, SendNetOK DEF TypeInv, HandleClose
<1>3. st[e] = "established" /\ fin[e] \in 0 .. 2
  <2>1. "APP_CLOSE_REQUESTED" \in ev[e] /\ fin[e] \in 0 .. 4
    BY DEF HandleClose, TypeInv, TypeOK
  <2>2. Pending(e) /\ FinBound(e)
    BY DEF TypeInv
  <2> QED
    BY <2>1, <2>2 DEF Pending, FinBound
<1>4. nextSeq' \in [Ends -> SeqNum] /\ fin' \in [Ends -> 0 .. 4]
  BY <1>3, SeqNumFacts DEF HandleClose, TypeInv, TypeOK
<1>5. TypeOK'
  BY <1>2, <1>4 DEF HandleClose, TypeInv, TypeOK, NetOK, appVars
<1>6. \A f \in Ends : Pending(f)' /\ FinBound(f)'
  BY <1>2, <1>3
  DEF HandleClose, TypeInv, TypeOK, Pending, FinBound, Handshaking, appVars
<1> QED
  BY <1>5, <1>6 DEF TypeInv

LEMMA TypeThreadExit ==
    ASSUME TypeInv, NEW e \in Ends, ThreadExit(e)
    PROVE  TypeInv'
<1>1. EofBuffer \in Buffer
  BY DEF EofBuffer, Buffer
<1>2. TypeOK'
  BY <1>1
  DEF ThreadExit, TypeInv, TypeOK, States, appVars, netVars, seqVars
<1>3. \A f \in Ends : Pending(f)' /\ FinBound(f)'
  BY DEF ThreadExit, TypeInv, TypeOK, Pending, FinBound, Handshaking, appVars,
         netVars
<1> QED
  BY <1>2, <1>3 DEF TypeInv

LEMMA TypeRecvThread ==
    ASSUME TypeInv, NEW e \in Ends, RecvThread(e)
    PROVE  TypeInv'
<1>1. CASE RecvPacket(e)
  <2>1. TypeOK'
    BY <1>1 DEF RecvPacket, TypeInv, TypeOK, appVars, seqVars
  <2>2. \A f \in Ends : Pending(f)' /\ FinBound(f)'
    BY <1>1
    DEF RecvPacket, TypeInv, TypeOK, Pending, FinBound, Handshaking, appVars
  <2> QED
    BY <2>1, <2>2 DEF TypeInv
<1>2. CASE RecvEof(e)
  <2>1. /\ inbound' \in [Ends -> Seq(Packet)]
        /\ ready' \in [Ends -> Nat] /\ rx' \in [Ends -> BOOLEAN]
        /\ \A f \in Ends : ready'[f] <= Len(inbound'[f])
    BY <1>2, NoPacketType DEF RecvEof, TypeInv, TypeOK
  <2>2. TypeOK'
    BY <1>2, <2>1 DEF RecvEof, TypeInv, TypeOK, appVars, seqVars
  <2>3. \A f \in Ends : Pending(f)' /\ FinBound(f)'
    BY <1>2
    DEF RecvEof, TypeInv, TypeOK, Pending, FinBound, Handshaking, appVars
  <2> QED
    BY <2>2, <2>3 DEF TypeInv
<1>3. CASE AssertPoll(e)
  BY <1>3, TypeAbort DEF AssertPoll
<1> QED
  BY <1>1, <1>2, <1>3 DEF RecvThread

LEMMA TypeMyWrite ==
    ASSUME TypeInv, NEW e \in Ends, NEW n \in Nat, MyWrite(e, n)
    PROVE  TypeInv'
<1>1. [lo |-> written[e], hi |-> written[e] + n] \in Buffer
  BY DEF Buffer, TypeInv, TypeOK
<1>2. TypeOK'
  BY <1>1 DEF MyWrite, TypeInv, TypeOK, netVars, seqVars
<1>3. \A f \in Ends : Pending(f)' /\ FinBound(f)'
  BY DEF MyWrite, TypeInv, TypeOK, Pending, FinBound, Handshaking, netVars
<1> QED
  BY <1>2, <1>3 DEF TypeInv

LEMMA TypeMyRead ==
    ASSUME TypeInv, NEW e \in Ends, NEW len \in Nat, MyRead(e, len)
    PROVE  TypeInv'
<1> DEFINE b == Portion(Head(appSendQ[e]), len)
<1>1. /\ appSendQ \in [Ends -> Seq(Buffer)]
      /\ rcvd \in [Ends -> Nat] /\ eof \in [Ends -> BOOLEAN]
  BY DEF TypeInv, TypeOK
<1>2. /\ appSendQ' \in [Ends -> Seq(Buffer)]
      /\ rcvd' \in [Ends -> Nat] /\ eof' \in [Ends -> BOOLEAN]
  <2>1. CASE eof[e]
    BY <1>1, <2>1 DEF MyRead
  <2>2. CASE ~eof[e]
    <3>1. appSendQ[e] # <<>> /\ appSendQ[e] \in Seq(Buffer)
      BY <1>1, <2>2 DEF MyRead
    <3>2. /\ Head(appSendQ[e]) \in Buffer
          /\ b \in Buffer /\ Leftover(appSendQ[e], len) \in Seq(Buffer)
      BY <3>1, PortionType, LeftoverType
    <3>3. Size(b) \in Nat
      BY <3>2 DEF Buffer, Size
    <3> HIDE DEF b
    <3>4. /\ \/ eof' = [eof EXCEPT ![e] = TRUE] /\ UNCHANGED rcvd
             \/ rcvd' = [rcvd EXCEPT ![e] = @ + Size(b)] /\ UNCHANGED eof
          /\ appSendQ' = [appSendQ EXCEPT ![e] = Leftover(@, len)]
      BY <2>2 DEF MyRead, b
    <3>5. rcvd[e] + Size(b) \in Nat
      BY <1>1, <3>3
    <3> QED
      BY <1>1, <3>2, <3>4, <3>5
  <2> QED
    BY <2>1, <2>2
<1>3. TypeOK'
  BY <1>2 DEF MyRead, TypeInv, TypeOK, netVars, seqVars
<1>4. \A f \in Ends : Pending(f)' /\ FinBound(f)'
  BY DEF MyRead, TypeInv, TypeOK, Pending, FinBound, Handshaking, netVars
<1> QED
  BY <1>3, <1>4 DEF TypeInv

LEMMA TypeMyClose ==
    ASSUME TypeInv, NEW e \in Ends, MyClose(e)
    PROVE  TypeInv'
<1>1. TypeOK'
  BY DEF MyClose, TypeInv, TypeOK, netVars, seqVars
<1>2. \A f \in Ends : Pending(f)' /\ FinBound(f)'
  BY DEF MyClose, TypeInv, TypeOK, Pending, FinBound, Connected, Handshaking,
         netVars
<1> QED
  BY <1>1, <1>2 DEF TypeInv

LEMMA TypeMyCloseReturns ==
    ASSUME TypeInv, NEW e \in Ends, MyCloseReturns(e)
    PROVE  TypeInv'
<1>1. NetOK'
  BY TypeNet, DisconnectNetOK DEF MyCloseReturns, TypeInv
<1>2. TypeOK'
  <2>1. /\ app' = [app EXCEPT ![e] = "closed"]
        /\ appRecvQ' = [appRecvQ EXCEPT ![e] = <<>>]
        /\ appSendQ' = [appSendQ EXCEPT ![e] = <<>>]
        /\ closeReq' = [closeReq EXCEPT ![e] = FALSE]
        /\ UNCHANGED <<written, rcvd, eof, st, ev, seqVars, fin>>
    BY DEF MyCloseReturns
  <2> QED
    BY <1>1, <2>1 DEF TypeInv, TypeOK, NetOK, seqVars
<1>3. \A f \in Ends \ {e} : ready'[f] = ready[f]
  BY DEF MyCloseReturns, Disconnect, TypeInv, TypeOK
<1>4. \A f \in Ends : Pending(f)' /\ FinBound(f)'
  BY <1>3
  DEF MyCloseReturns, TypeInv, TypeOK, Pending, FinBound, Handshaking
<1> QED
  BY <1>2, <1>4 DEF TypeInv

LEMMA TypeNext == TypeInv /\ [Next]_vars => TypeInv'
<1> SUFFICES ASSUME TypeInv, [Next]_vars PROVE TypeInv'
  OBVIOUS
<1>1. CASE UNCHANGED vars
  BY <1>1
  DEF vars, TypeInv, TypeOK, Pending, FinBound
<1>2. ASSUME NEW e \in Ends, Handshake(e) PROVE TypeInv'
  BY <1>2, TypeHandshake
<1>3. ASSUME NEW e \in Ends, ControlLoop(e) PROVE TypeInv'
  BY <1>3, TypeWaitForEvent, TypeHandleAppData, TypeAbort, TypeHandleAck,
     TypeHandleFinAck, TypeHandleFin, TypeHandlePayload, TypeHandleClose,
     TypeThreadExit
  DEF ControlLoop, AssertDataSent
<1>4. ASSUME NEW e \in Ends, RecvThread(e) PROVE TypeInv'
  BY <1>4, TypeRecvThread
<1>5. ASSUME NEW e \in Ends, Application(e) PROVE TypeInv'
  <2>1. ASSUME NEW n \in 1 .. MaxBytes[e] - written[e], MyWrite(e, n)
        PROVE  TypeInv'
    <3>1. n \in Nat
      BY StcpAssumption DEF TypeInv, TypeOK
    <3> QED
      BY <2>1, <3>1, TypeMyWrite
  <2>2. ASSUME NEW len \in 1 .. MaxRead, MyRead(e, len) PROVE TypeInv'
    <3>1. len \in Nat
      BY StcpAssumption
    <3> QED
      BY <2>2, <3>1, TypeMyRead
  <2> QED
    BY <1>5, <2>1, <2>2, TypeMyClose, TypeMyCloseReturns DEF Application
<1> QED
  BY <1>1, <1>2, <1>3, <1>4, <1>5 DEF Next

\* Every variable keeps its type, for all windows, payload sizes and amounts
\* of data: no handler takes from an empty queue, and ctx->fin never exceeds 4.
THEOREM TypeCorrect == Spec => []TypeOK
<1>1. TypeInv => TypeOK
  BY DEF TypeInv
<1> QED
  BY <1>1, TypeInit, TypeNext, PTL DEF Spec

-----------------------------------------------------------------------------
(***************************************************************************)
(* Part 2: a byte stream in each direction.                                *)
(***************************************************************************)
-----------------------------------------------------------------------------
(* Queues of buffers or packets that hold one interval of a stream.          *)

Piece(t) == t.lo \in Nat /\ t.hi \in Nat /\ t.lo <= t.hi

\* q holds the positions from a to b - 1, in this order.
Chain(q, a, b) ==
    /\ a \in Nat /\ b \in Nat /\ a <= b
    /\ Positions(q) = a .. b - 1
    /\ \A i, j \in DOMAIN q : i < j /\ Size(q[i]) > 0 /\ Size(q[j]) > 0
                                 => q[i].hi <= q[j].lo

LEMMA ChainEmpty ==
    ASSUME NEW a \in Nat
    PROVE  Chain(<<>>, a, a)
BY DEF Chain, Positions

LEMMA PositionsOf ==
    ASSUME NEW q, NEW x
    PROVE  x \in Positions(q) <=> \E i \in DOMAIN q : x \in q[i].lo .. q[i].hi - 1
BY DEF Positions

LEMMA ChainAppend ==
    ASSUME NEW T, \A t \in T : Piece(t), NEW q \in Seq(T), NEW t \in T,
           NEW a, NEW b, Chain(q, a, b), Size(t) = 0 \/ t.lo = b
    PROVE  Chain(Append(q, t), a, IF Size(t) = 0 THEN b ELSE t.hi)
<1> DEFINE r == Append(q, t)
           c == IF Size(t) = 0 THEN b ELSE t.hi
<1>1. /\ t.lo \in Nat /\ t.hi \in Nat /\ t.lo <= t.hi
      /\ a \in Nat /\ b \in Nat /\ a <= b
      /\ Positions(q) = a .. b - 1
      /\ \A i \in DOMAIN q : q[i].lo \in Nat /\ q[i].hi \in Nat /\ q[i].lo <= q[i].hi
  BY DEF Chain, Piece
<1>2. /\ Len(q) \in Nat /\ DOMAIN q = 1 .. Len(q) /\ DOMAIN r = 1 .. Len(q) + 1
      /\ r[Len(q) + 1] = t /\ \A i \in DOMAIN q : r[i] = q[i]
  OBVIOUS
<1> HIDE DEF r
<1>3. c \in Nat /\ b <= c /\ (Size(t) = 0 => c = b) /\ (Size(t) # 0 => c = t.hi /\ t.lo = b)
  BY <1>1 DEF Size
<1> HIDE DEF c
<1>4. Positions(r) = a .. c - 1
  <2>1. ASSUME NEW x \in Positions(r) PROVE x \in a .. c - 1
    <3>1. PICK i \in DOMAIN r : x \in r[i].lo .. r[i].hi - 1
      BY PositionsOf
    <3>2. CASE i = Len(q) + 1
      BY <1>1, <1>2, <1>3, <3>1, <3>2 DEF Size
    <3>3. CASE i \in DOMAIN q
      <4>1. x \in Positions(q)
        BY <1>2, <3>1, <3>3, PositionsOf
      <4> QED
        BY <4>1, <1>1, <1>3
    <3> QED
      BY <1>2, <3>2, <3>3
  <2>2. ASSUME NEW x \in a .. c - 1 PROVE x \in Positions(r)
    <3>1. CASE x < b
      <4>1. x \in Positions(q)
        BY <1>1, <1>3, <3>1
      <4>2. PICK i \in DOMAIN q : x \in q[i].lo .. q[i].hi - 1
        BY <4>1, PositionsOf
      <4> QED
        BY <4>2, <1>2, PositionsOf
    <3>2. CASE ~(x < b)
      <4>1. x \in r[Len(q) + 1].lo .. r[Len(q) + 1].hi - 1
        BY <1>1, <1>2, <1>3, <3>2
      <4> QED
        BY <4>1, <1>2, PositionsOf
    <3> QED
      BY <3>1, <3>2
  <2> QED
    BY <2>1, <2>2
<1>5. ASSUME NEW i \in DOMAIN r, NEW j \in DOMAIN r, i < j, Size(r[i]) > 0, Size(r[j]) > 0
      PROVE  r[i].hi <= r[j].lo
  <2>1. i \in DOMAIN q
    BY <1>2, <1>5
  <2>2. CASE j \in DOMAIN q
    BY <1>2, <1>5, <2>1, <2>2 DEF Chain
  <2>3. CASE j = Len(q) + 1
    <3>1. r[j] = t /\ t.lo = b
      BY <1>2, <1>3, <1>5, <2>3
    <3>2. q[i].hi - 1 \in q[i].lo .. q[i].hi - 1
      BY <1>1, <1>2, <1>5, <2>1 DEF Size
    <3>3. q[i].hi - 1 \in a .. b - 1
      BY <3>2, <2>1, <1>1, PositionsOf
    <3> QED
      BY <3>1, <3>3, <2>1, <1>1, <1>2
  <2> QED
    BY <1>2, <2>2, <2>3
<1> QED
  BY <1>1, <1>3, <1>4, <1>5 DEF Chain, r, c

LEMMA ChainHead ==
    ASSUME NEW T, \A t \in T : Piece(t), NEW q \in Seq(T), q # <<>>,
           NEW a, NEW b, Chain(q, a, b)
    PROVE  /\ Size(Head(q)) > 0 => Head(q).lo = a
           /\ Size(Head(q)) # 0 => Size(Head(q)) > 0
           /\ Head(q).hi <= b \/ Size(Head(q)) = 0
<1>1. /\ a \in Nat /\ b \in Nat /\ a <= b /\ Positions(q) = a .. b - 1
      /\ \A i \in DOMAIN q : q[i].lo \in Nat /\ q[i].hi \in Nat /\ q[i].lo <= q[i].hi
  BY DEF Chain, Piece
<1>2. 1 \in DOMAIN q /\ Head(q) = q[1] /\ DOMAIN q \subseteq Nat /\ \A i \in DOMAIN q : 1 <= i
  OBVIOUS
<1>3. Size(q[1]) # 0 => Size(q[1]) > 0
  BY <1>1, <1>2 DEF Size
<1>4. ASSUME Size(q[1]) > 0 PROVE q[1].lo = a /\ q[1].hi <= b
  <2>1. q[1].lo \in q[1].lo .. q[1].hi - 1 /\ q[1].hi - 1 \in q[1].lo .. q[1].hi - 1
    BY <1>1, <1>2, <1>4 DEF Size
  <2>2. q[1].lo \in a .. b - 1 /\ q[1].hi - 1 \in a .. b - 1
    BY <2>1, <1>1, <1>2, PositionsOf
  <2>3. a \in a .. b - 1
    BY <2>2, <1>1
  <2>4. PICK i \in DOMAIN q : a \in q[i].lo .. q[i].hi - 1
    BY <2>3, <1>1, PositionsOf
  <2>5. CASE i = 1
    BY <2>2, <2>4, <2>5, <1>1, <1>2
  <2>6. CASE i # 1
    <3>1. 1 < i /\ Size(q[i]) > 0
      BY <1>1, <1>2, <2>4, <2>6 DEF Size
    <3>2. q[1].hi <= q[i].lo
      BY <3>1, <1>2, <1>4 DEF Chain
    <3> QED
      BY <3>2, <2>2, <2>4, <1>1, <1>2
  <2> QED
    BY <2>5, <2>6
<1> QED
  BY <1>2, <1>3, <1>4

\* The head is cut to what lies at or behind c, be it all or nothing of it.
LEMMA ChainCut ==
    ASSUME NEW T, \A t \in T : Piece(t), NEW q \in Seq(T), q # <<>>,
           NEW a, NEW b, Chain(q, a, b), Size(Head(q)) > 0,
           NEW c \in Nat, a <= c, c < Head(q).hi,
           NEW t, t.lo = c, t.hi = Head(q).hi
    PROVE  Chain([q EXCEPT ![1] = t], c, b)
<1> DEFINE r == [q EXCEPT ![1] = t]
<1>1. /\ a \in Nat /\ b \in Nat /\ a <= b /\ Positions(q) = a .. b - 1
      /\ \A i \in DOMAIN q : q[i].lo \in Nat /\ q[i].hi \in Nat /\ q[i].lo <= q[i].hi
  BY DEF Chain, Piece
<1>2. 1 \in DOMAIN q /\ Head(q) = q[1] /\ DOMAIN q \subseteq Nat /\ \A i \in DOMAIN q : 1 <= i
  OBVIOUS
<1>3. DOMAIN r = DOMAIN q /\ r[1] = t /\ \A i \in DOMAIN q : i # 1 => r[i] = q[i]
  BY <1>2
<1> HIDE DEF r
<1>4. q[1].lo = a /\ q[1].hi <= b /\ Size(q[1]) > 0
  BY <1>2, <1>1, ChainHead DEF Size
<1>5. \A i \in DOMAIN q : i # 1 /\ Size(q[i]) > 0 => q[1].hi <= q[i].lo
  BY <1>2, <1>4 DEF Chain
<1>6. Positions(r) = c .. b - 1
  <2>1. ASSUME NEW x \in Positions(r) PROVE x \in c .. b - 1
    <3>1. PICK i \in DOMAIN r : x \in r[i].lo .. r[i].hi - 1
      BY PositionsOf
    <3>2. CASE i = 1
      BY <1>1, <1>2, <1>3, <1>4, <3>1, <3>2
    <3>3. CASE i # 1
      <4>1. r[i] = q[i] /\ i \in DOMAIN q
        BY <1>3, <3>3
      <4>2. x \in a .. b - 1
        BY <1>1, <3>1, <4>1, PositionsOf
      <4>3. Size(q[i]) > 0
        BY <1>1, <3>1, <4>1 DEF Size
      <4> QED
        BY <1>1, <1>2, <1>5, <3>1, <3>3, <4>1, <4>2, <4>3
    <3> QED
      BY <3>2, <3>3
  <2>2. ASSUME NEW x \in c .. b - 1 PROVE x \in Positions(r)
    <3>1. x \in a .. b - 1
      BY <1>1
    <3>2. PICK i \in DOMAIN q : x \in q[i].lo .. q[i].hi - 1
      BY <3>1, <1>1, PositionsOf
    <3>3. CASE i = 1
      <4>1. x \in r[1].lo .. r[1].hi - 1
        BY <1>1, <1>2, <1>3, <3>2, <3>3
      <4> QED
        BY <4>1, <1>2, <1>3, PositionsOf
    <3>4. CASE i # 1
      BY <1>3, <3>2, <3>4, PositionsOf
    <3> QED
      BY <3>3, <3>4
  <2> QED
    BY <2>1, <2>2
<1>7. ASSUME NEW i \in DOMAIN r, NEW j \in DOMAIN r, i < j, Size(r[i]) > 0, Size(r[j]) > 0
      PROVE  r[i].hi <= r[j].lo
  <2>1. j # 1 /\ r[j] = q[j] /\ j \in DOMAIN q
    BY <1>2, <1>3, <1>7
  <2>2. CASE i = 1
    BY <1>2, <1>3, <1>5, <1>7, <2>1, <2>2
  <2>3. CASE i # 1
    BY <1>3, <1>7, <2>1, <2>3 DEF Chain
  <2> QED
    BY <2>2, <2>3
<1> QED
  BY <1>1, <1>2, <1>4, <1>6, <1>7 DEF Chain, r

LEMMA ChainTail ==
    ASSUME NEW T, \A t \in T : Piece(t), NEW q \in Seq(T), q # <<>>,
           NEW a, NEW b, Chain(q, a, b)
    PROVE  Chain(Tail(q), IF Size(Head(q)) = 0 THEN a ELSE Head(q).hi, b)
<1> DEFINE r == Tail(q)
           c == IF Size(Head(q)) = 0 THEN a ELSE Head(q).hi
<1>1. /\ a \in Nat /\ b \in Nat /\ a <= b /\ Positions(q) = a .. b - 1
      /\ \A i \in DOMAIN q : q[i].lo \in Nat /\ q[i].hi \in Nat /\ q[i].lo <= q[i].hi
  BY DEF Chain, Piece
<1>2. /\ Len(q) \in Nat /\ Len(q) > 0 /\ DOMAIN q = 1 .. Len(q) /\ Head(q) = q[1]
      /\ DOMAIN r = 1 .. Len(q) - 1
      /\ \A i \in 1 .. Len(q) - 1 : r[i] = q[i + 1]
  OBVIOUS
<1> HIDE DEF r
<1>3. /\ Size(q[1]) > 0 => q[1].lo = a /\ q[1].hi <= b
      /\ Size(q[1]) # 0 => Size(q[1]) > 0
  BY <1>2, <1>1, ChainHead DEF Size
<1>4. /\ c \in Nat /\ a <= c /\ c <= b
      /\ Size(q[1]) = 0 => c = a /\ q[1].lo = q[1].hi
      /\ Size(q[1]) # 0 => c = q[1].hi /\ q[1].lo = a /\ a < c
  BY <1>1, <1>2, <1>3 DEF Size
<1> HIDE DEF c
<1>5. Positions(r) = c .. b - 1
  <2>1. ASSUME NEW x \in Positions(r) PROVE x \in c .. b - 1
    <3>1. PICK k \in DOMAIN r : x \in r[k].lo .. r[k].hi - 1
      BY PositionsOf
    <3>2. PICK i \in DOMAIN q : i = k + 1 /\ r[k] = q[i] /\ i > 1
      BY <1>2
    <3>3. x \in a .. b - 1
      BY <1>1, <3>1, <3>2, PositionsOf
    <3>4. Size(q[i]) > 0
      BY <1>1, <3>1, <3>2 DEF Size
    <3>5. Size(q[1]) > 0 => q[1].hi <= q[i].lo
      BY <1>2, <3>2, <3>4 DEF Chain
    <3> QED
      BY <1>1, <1>2, <1>3, <1>4, <3>1, <3>2, <3>3, <3>5
  <2>2. ASSUME NEW x \in c .. b - 1 PROVE x \in Positions(r)
    <3>1. x \in a .. b - 1
      BY <1>1, <1>4
    <3>2. PICK i \in DOMAIN q : x \in q[i].lo .. q[i].hi - 1
      BY <3>1, <1>1, PositionsOf
    <3>3. i # 1
      BY <1>1, <1>2, <1>4, <3>2
    <3>4. i - 1 \in DOMAIN r /\ r[i - 1] = q[i]
      BY <1>2, <3>3
    <3> QED
      BY <3>2, <3>4, PositionsOf
  <2> QED
    BY <2>1, <2>2
<1>6. ASSUME NEW i \in DOMAIN r, NEW j \in DOMAIN r, i < j, Size(r[i]) > 0, Size(r[j]) > 0
      PROVE  r[i].hi <= r[j].lo
  <2>1. /\ i + 1 \in DOMAIN q /\ j + 1 \in DOMAIN q /\ i + 1 < j + 1
        /\ r[i] = q[i + 1] /\ r[j] = q[j + 1]
    BY <1>2, <1>6
  <2> QED
    BY <1>6, <2>1 DEF Chain
<1> QED
  BY <1>1, <1>4, <1>5, <1>6 DEF Chain, r, c

LEMMA ChainNothing ==
    ASSUME NEW q, NEW a, NEW b, Chain(q, a, b),
           \A i \in DOMAIN q : q[i].lo \in Nat /\ q[i].hi \in Nat /\ Size(q[i]) = 0
    PROVE  a = b
<1>1. a \in Nat /\ b \in Nat /\ a <= b /\ Positions(q) = a .. b - 1
  BY DEF Chain
<1>2. \A i \in DOMAIN q : q[i].lo .. q[i].hi - 1 = {}
  BY DEF Size
<1>3. ~(a \in Positions(q))
  BY <1>2, PositionsOf
<1> QED
  BY <1>1, <1>3

LEMMA BufferFacts ==
    /\ \A t \in Buffer : Piece(t)
    /\ \A t \in Packet : Piece(t)
    /\ \A t \in Buffer \cup Packet : Size(t) \in Nat
BY DEF Buffer, Packet, Piece, Size

\* The first part of the head is taken out, and what is left stays in front.
LEMMA ChainLeftover ==
    ASSUME NEW q \in Seq(Buffer), q # <<>>, NEW a, NEW b, Chain(q, a, b),
           NEW room \in Int,
           NEW t, t = Portion(Head(q), room)
    PROVE  /\ t \in Buffer /\ Size(t) \in Nat
           /\ Size(t) > 0 => t.lo = a /\ a + Size(t) = t.hi
           /\ Chain(Leftover(q, room), a + Size(t), b)
<1>1. /\ Head(q) \in Buffer /\ a \in Nat /\ b \in Nat
      /\ Head(q).lo \in Nat /\ Head(q).hi \in Nat /\ Head(q).lo <= Head(q).hi
  BY DEF Chain, Buffer
<1>2. t \in Buffer /\ Size(t) \in Nat
  BY <1>1, PortionType, BufferFacts
<1>3. Size(Head(q)) > 0 => Head(q).lo = a
  BY ChainHead, BufferFacts
<1>4. CASE 0 <= room /\ room < Size(Head(q))
  <2>0. Head(q).lo = a
    BY <1>1, <1>3, <1>4 DEF Size
  <2>1. t = [lo |-> a, hi |-> a + room] /\ Size(t) = room
    BY <1>1, <1>4, <2>0 DEF Portion, Size
  <2> DEFINE rest == [lo |-> a + room, hi |-> Head(q).hi]
  <2>2. Leftover(q, room) = [q EXCEPT ![1] = rest]
    BY <1>4, <2>0 DEF Leftover
  <2>3. a + room \in Nat /\ a <= a + room /\ a + room < Head(q).hi /\ Size(Head(q)) > 0
    BY <1>1, <1>3, <1>4 DEF Size
  <2>4. Chain([q EXCEPT ![1] = rest], a + room, b)
    BY <2>3, ChainCut, BufferFacts
  <2> QED
    BY <1>1, <1>2, <2>1, <2>2, <2>4
<1>5. CASE ~(0 <= room /\ room < Size(Head(q)))
  <2>1. t = Head(q) /\ Leftover(q, room) = Tail(q)
    BY <1>5 DEF Portion, Leftover
  <2>2. Chain(Tail(q), IF Size(t) = 0 THEN a ELSE t.hi, b)
    BY <2>1, ChainTail, BufferFacts
  <2>3. IF Size(t) = 0 THEN a + Size(t) = a ELSE t.lo = a /\ a + Size(t) = t.hi
    BY <1>1, <1>2, <1>3, <2>1 DEF Size
  <2> QED
    BY <1>2, <2>1, <2>2, <2>3
<1> QED
  BY <1>4, <1>5

LEMMA ChainCardinality ==
    ASSUME NEW q, NEW a, NEW b, Chain(q, a, b)
    PROVE  Cardinality(Positions(q)) = b - a
<1>1. a \in Nat /\ b \in Nat /\ a <= b /\ Positions(q) = a .. b - 1
  BY DEF Chain
<1>2. Cardinality(a .. b - 1) = IF a > b - 1 THEN 0 ELSE (b - 1) - a + 1
  BY <1>1, FS_Interval
<1> QED
  BY <1>1, <1>2

-----------------------------------------------------------------------------
(* What a queue of packets, or of buffers for an application, is made of.    *)

NoData(q)   == \A i \in DOMAIN q : Size(q[i]) = 0
DataOnly(q) == \A i \in DOMAIN q : Size(q[i]) # 0 => q[i].flags = "DATA"
HasFin(q)   == \E i \in DOMAIN q : q[i].flags = "FIN"
FinsLast(q) == \A i, j \in DOMAIN q :
                  i < j /\ q[i].flags = "FIN" => Size(q[j]) = 0
HasEnd(q)   == \E i \in DOMAIN q : Size(q[i]) = 0
EndsLast(q) == \A i, j \in DOMAIN q :
                  i < j /\ Size(q[i]) = 0 => Size(q[j]) = 0

LEMMA QueueAppend ==
    ASSUME NEW T, NEW q \in Seq(T), NEW t \in T
    PROVE  /\ DOMAIN Append(q, t) = DOMAIN q \cup {Len(q) + 1}
           /\ \A i \in DOMAIN q : i < Len(q) + 1 /\ Append(q, t)[i] = q[i]
           /\ Append(q, t)[Len(q) + 1] = t
           /\ Len(q) + 1 \in Nat /\ DOMAIN q \subseteq Nat
OBVIOUS

LEMMA QueueTail ==
    ASSUME NEW T, NEW q \in Seq(T), q # <<>>
    PROVE  /\ \A i \in DOMAIN Tail(q) : i + 1 \in DOMAIN q /\ Tail(q)[i] = q[i + 1]
           /\ Head(q) = q[1] /\ 1 \in DOMAIN q
           /\ DOMAIN Tail(q) \subseteq Nat \ {0}
OBVIOUS

LEMMA PacketsEmpty ==
    /\ NoData(<<>>) /\ DataOnly(<<>>) /\ ~HasFin(<<>>) /\ FinsLast(<<>>)
    /\ ~HasEnd(<<>>) /\ EndsLast(<<>>)
BY DEF NoData, DataOnly, HasFin, FinsLast, HasEnd, EndsLast

LEMMA PacketsAppend ==
    ASSUME NEW q \in Seq(Packet), NEW t \in Packet,
           DataOnly(q), FinsLast(q),
           Size(t) # 0 => t.flags = "DATA" /\ ~HasFin(q)
    PROVE  /\ DataOnly(Append(q, t)) /\ FinsLast(Append(q, t))
           /\ HasFin(Append(q, t)) => HasFin(q) \/ t.flags = "FIN"
           /\ NoData(q) /\ Size(t) = 0 => NoData(Append(q, t))
<1> DEFINE r == Append(q, t)
           k == Len(q) + 1
<1>1. /\ DOMAIN r = DOMAIN q \cup {k} /\ \A i \in DOMAIN q : i < k /\ r[i] = q[i]
      /\ r[k] = t /\ k \in Nat /\ DOMAIN q \subseteq Nat
  BY QueueAppend
<1> HIDE DEF r, k
<1>2. DataOnly(r) /\ (HasFin(r) => HasFin(q) \/ t.flags = "FIN")
  BY <1>1 DEF DataOnly, HasFin
<1>3. NoData(q) /\ Size(t) = 0 => NoData(r)
  BY <1>1 DEF NoData
<1>4. FinsLast(r)
  <2> SUFFICES ASSUME NEW i \in DOMAIN r, NEW j \in DOMAIN r, i < j, r[i].flags = "FIN"
               PROVE  Size(r[j]) = 0
    BY DEF FinsLast
  <2>1. i \in DOMAIN q /\ r[i] = q[i]
    BY <1>1
  <2>2. CASE j \in DOMAIN q
    BY <1>1, <2>1, <2>2 DEF FinsLast
  <2>3. CASE j = k
    BY <1>1, <2>1, <2>3 DEF HasFin
  <2> QED
    BY <1>1, <2>2, <2>3
<1> QED
  BY <1>2, <1>3, <1>4 DEF r

LEMMA PacketsTail ==
    ASSUME NEW q \in Seq(Packet), q # <<>>, DataOnly(q), FinsLast(q)
    PROVE  /\ DataOnly(Tail(q)) /\ FinsLast(Tail(q))
           /\ HasFin(Tail(q)) => HasFin(q)
           /\ NoData(q) => NoData(Tail(q)) /\ Size(Head(q)) = 0
           /\ Head(q).flags # "DATA" => Size(Head(q)) = 0
           /\ Head(q).flags = "FIN" => HasFin(q) /\ NoData(Tail(q))
<1> DEFINE r == Tail(q)
<1>1. /\ \A i \in DOMAIN r : i + 1 \in DOMAIN q /\ r[i] = q[i + 1]
      /\ Head(q) = q[1] /\ 1 \in DOMAIN q /\ DOMAIN r \subseteq Nat \ {0}
  BY QueueTail
<1> HIDE DEF r
<1>2. DataOnly(r) /\ (HasFin(r) => HasFin(q))
  BY <1>1 DEF DataOnly, HasFin
<1>3. NoData(q) => NoData(r) /\ Size(Head(q)) = 0
  BY <1>1 DEF NoData
<1>4. FinsLast(r)
  <2> SUFFICES ASSUME NEW i \in DOMAIN r, NEW j \in DOMAIN r, i < j, r[i].flags = "FIN"
               PROVE  Size(r[j]) = 0
    BY DEF FinsLast
  <2>1. /\ i + 1 \in DOMAIN q /\ j + 1 \in DOMAIN q /\ i + 1 < j + 1
        /\ r[i] = q[i + 1] /\ r[j] = q[j + 1]
    BY <1>1
  <2> QED
    BY <2>1 DEF FinsLast
<1>5. Head(q).flags # "DATA" => Size(Head(q)) = 0
  BY <1>1 DEF DataOnly
<1>6. ASSUME Head(q).flags = "FIN" PROVE HasFin(q) /\ NoData(r)
  <2>1. \A i \in DOMAIN r : 1 < i + 1
    BY <1>1
  <2> QED
    BY <1>1, <1>6, <2>1 DEF HasFin, NoData, FinsLast
<1> QED
  BY <1>2, <1>3, <1>4, <1>5, <1>6 DEF r

LEMMA EndsAppend ==
    ASSUME NEW q \in Seq(Buffer), NEW t \in Buffer, EndsLast(q),
           HasEnd(q) => Size(t) = 0
    PROVE  /\ EndsLast(Append(q, t))
           /\ HasEnd(Append(q, t)) => HasEnd(q) \/ Size(t) = 0
<1> DEFINE r == Append(q, t)
           k == Len(q) + 1
<1>1. /\ DOMAIN r = DOMAIN q \cup {k} /\ \A i \in DOMAIN q : i < k /\ r[i] = q[i]
      /\ r[k] = t /\ k \in Nat /\ DOMAIN q \subseteq Nat
  BY QueueAppend
<1> HIDE DEF r, k
<1>2. HasEnd(r) => HasEnd(q) \/ Size(t) = 0
  BY <1>1 DEF HasEnd
<1>3. EndsLast(r)
  <2> SUFFICES ASSUME NEW i \in DOMAIN r, NEW j \in DOMAIN r, i < j, Size(r[i]) = 0
               PROVE  Size(r[j]) = 0
    BY DEF EndsLast
  <2>1. i \in DOMAIN q /\ r[i] = q[i]
    BY <1>1
  <2>2. CASE j \in DOMAIN q
    BY <1>1, <2>1, <2>2 DEF EndsLast
  <2>3. CASE j = k
    BY <1>1, <2>1, <2>3 DEF HasEnd
  <2> QED
    BY <1>1, <2>2, <2>3
<1> QED
  BY <1>2, <1>3 DEF r

LEMMA EndsLeftover ==
    ASSUME NEW q \in Seq(Buffer), q # <<>>, EndsLast(q), NEW room \in Int
    PROVE  /\ EndsLast(Leftover(q, room))
           /\ HasEnd(Leftover(q, room)) => HasEnd(q)
           /\ Size(Head(q)) = 0 => NoData(q) /\ HasEnd(q)
<1>1. \A i \in DOMAIN q : q[i].lo \in Nat /\ q[i].hi \in Nat
  BY DEF Buffer
<1>2. Head(q) = q[1] /\ 1 \in DOMAIN q /\ \A i \in DOMAIN q : i \in Nat /\ 1 <= i
  OBVIOUS
<1>3. Size(Head(q)) = 0 => NoData(q) /\ HasEnd(q)
  BY <1>2 DEF EndsLast, NoData, HasEnd
<1>4. CASE 0 <= room /\ room < Size(Head(q))
  <2> DEFINE rest == [lo |-> Head(q).lo + room, hi |-> Head(q).hi]
             r == [q EXCEPT ![1] = rest]
  <2>1. Leftover(q, room) = r
    BY <1>4 DEF Leftover
  <2>2. Size(rest) # 0
    BY <1>1, <1>2, <1>4 DEF Size
  <2>3. DOMAIN r = DOMAIN q /\ r[1] = rest /\ \A i \in DOMAIN q : i # 1 => r[i] = q[i]
    BY <1>2
  <2> HIDE DEF r, rest
  <2>4. HasEnd(r) => HasEnd(q)
    BY <2>2, <2>3 DEF HasEnd
  <2>5. EndsLast(r)
    BY <1>2, <2>2, <2>3 DEF EndsLast
  <2> QED
    BY <1>3, <2>1, <2>4, <2>5
<1>5. CASE ~(0 <= room /\ room < Size(Head(q)))
  <2> DEFINE r == Tail(q)
  <2>1. Leftover(q, room) = r
    BY <1>5 DEF Leftover
  <2>2. /\ \A i \in DOMAIN r : i + 1 \in DOMAIN q /\ r[i] = q[i + 1]
        /\ DOMAIN r \subseteq Nat \ {0}
    BY QueueTail
  <2> HIDE DEF r
  <2>3. HasEnd(r) => HasEnd(q)
    BY <2>2 DEF HasEnd
  <2>4. EndsLast(r)
    <3> SUFFICES ASSUME NEW i \in DOMAIN r, NEW j \in DOMAIN r, i < j, Size(r[i]) = 0
                 PROVE  Size(r[j]) = 0
      BY DEF EndsLast
    <3>1. /\ i + 1 \in DOMAIN q /\ j + 1 \in DOMAIN q /\ i + 1 < j + 1
          /\ r[i] = q[i + 1] /\ r[j] = q[j + 1]
      BY <2>2
    <3> QED
      BY <3>1 DEF EndsLast
  <2> QED
    BY <1>3, <2>1, <2>3, <2>4
<1> QED
  BY <1>4, <1>5

-----------------------------------------------------------------------------
(* One direction of the connection, from the application of Peer(e) to that  *)
(* of e: the three queues hold what was written and not yet read, in order.  *)

\* The end of the stream is on its way to the application of e.
Finishing(e) == HasFin(inbound[e]) \/ (app[e] = "open" /\ fin[e] > 0)

Flow(e, m, n) ==
    /\ Chain(appSendQ[e], rcvd[e], m)
    /\ Chain(inbound[e], m, n)
    /\ \/ Chain(appRecvQ[Peer(e)], n, written[Peer(e)])
       \/ /\ app[Peer(e)] \notin {"open", "closing"}
          /\ appRecvQ[Peer(e)] = <<>>
          /\ n <= written[Peer(e)]
    /\ Finishing(e) => n = written[Peer(e)]

Ending(e) ==
    /\ DataOnly(inbound[e]) /\ FinsLast(inbound[e])
    /\ Finishing(e) => app[Peer(e)] # "open" /\ appRecvQ[Peer(e)] = <<>>
    /\ app[e] = "open" /\ fin[e] > 0 => NoData(inbound[e])
    /\ app[e] = "open" => /\ EndsLast(appSendQ[e])
                          /\ HasEnd(appSendQ[e]) => fin[e] > 0
    /\ eof[e] => app[Peer(e)] # "open"

Direction(e) ==
    /\ Ending(e)
    /\ up[e] => \E m, n \in Nat : Flow(e, m, n)

LEMMA DirectionTypes ==
    ASSUME TypeOK, NEW e \in Ends
    PROVE  /\ inbound[e] \in Seq(Packet) /\ appSendQ[e] \in Seq(Buffer)
           /\ rcvd[e] \in Nat /\ fin[e] \in Nat
           /\ Peer(e) \in Ends
           /\ appRecvQ[Peer(e)] \in Seq(Buffer) /\ written[Peer(e)] \in Nat
<1>1. Peer(e) \in Ends
  BY PeerFacts
<1>2. fin[e] \in 0 .. 4
  BY DEF TypeOK
<1> QED
  BY <1>1, <1>2 DEF TypeOK

\* Nothing moves; the application may have closed the connection.
LEMMA DirectionRests ==
    ASSUME TypeOK, NEW e \in Ends, Direction(e),
           UNCHANGED <<inbound[e], appSendQ[e], rcvd[e], eof[e], up[e]>>,
           UNCHANGED <<appRecvQ[Peer(e)], written[Peer(e)]>>,
           app'[Peer(e)] = app[Peer(e)] \/ (app[Peer(e)] = "open" /\ app'[Peer(e)] = "closing"),
           app'[e] = "open" => app[e] = "open" /\ fin'[e] = fin[e]
    PROVE  Direction(e)'
<1>1. Finishing(e)' => Finishing(e)
  BY DEF Finishing
<1>2. Ending(e)'
  BY <1>1 DEF Direction, Ending
<1>3. ASSUME NEW m \in Nat, NEW n \in Nat, Flow(e, m, n) PROVE Flow(e, m, n)'
  BY <1>1, <1>3 DEF Flow
<1> QED
  BY <1>2, <1>3 DEF Direction

\* A packet without data arrives; a FIN only when the peer has nothing to send.
LEMMA DirectionGetsHeader ==
    ASSUME TypeOK, NEW e \in Ends, Direction(e),
           NEW t \in Packet, Size(t) = 0,
           t.flags = "FIN" => app[Peer(e)] = "closing" /\ appRecvQ[Peer(e)] = <<>>,
           inbound'[e] = Append(inbound[e], t),
           UNCHANGED <<appSendQ[e], rcvd[e], eof[e], up[e]>>,
           UNCHANGED <<appRecvQ[Peer(e)], written[Peer(e)], app[Peer(e)]>>,
           app'[e] = "open" => app[e] = "open" /\ fin'[e] = fin[e]
    PROVE  Direction(e)'
<1>1. /\ DataOnly(inbound'[e]) /\ FinsLast(inbound'[e])
      /\ HasFin(inbound'[e]) => HasFin(inbound[e]) \/ t.flags = "FIN"
      /\ NoData(inbound[e]) => NoData(inbound'[e])
  BY PacketsAppend, DirectionTypes DEF Direction, Ending
<1>2. Finishing(e)' => Finishing(e) \/ t.flags = "FIN"
  BY <1>1 DEF Finishing
<1>3. Ending(e)'
  BY <1>1, <1>2 DEF Direction, Ending
<1>4. ASSUME NEW m \in Nat, NEW n \in Nat, Flow(e, m, n) PROVE Flow(e, m, n)'
  <2>1. Chain(inbound'[e], m, n)
    BY <1>4, DirectionTypes, BufferFacts, ChainAppend DEF Flow
  <2>2. t.flags = "FIN" => n = written[Peer(e)]
    <3>1. ASSUME Chain(<<>>, n, written[Peer(e)]) PROVE n = written[Peer(e)]
      BY <3>1, ChainNothing
    <3> QED
      BY <1>4, <3>1 DEF Flow
  <2> QED
    BY <1>2, <1>4, <2>1, <2>2 DEF Flow
<1> QED
  BY <1>3, <1>4 DEF Direction

\* A packet without data is taken out; the first FIN is not ignored.
LEMMA DirectionTakesHeader ==
    ASSUME TypeOK, NEW e \in Ends, Direction(e),
           inbound[e] # <<>>, Size(Head(inbound[e])) = 0,
           inbound'[e] = Tail(inbound[e]),
           UNCHANGED <<appSendQ[e], rcvd[e], eof[e], up[e], app[e]>>,
           UNCHANGED <<appRecvQ[Peer(e)], written[Peer(e)], app[Peer(e)]>>,
           fin'[e] = fin[e] \/ (fin[e] > 0 /\ fin'[e] > 0)
    PROVE  Direction(e)'
<1>1. /\ DataOnly(inbound'[e]) /\ FinsLast(inbound'[e])
      /\ HasFin(inbound'[e]) => HasFin(inbound[e])
      /\ NoData(inbound[e]) => NoData(inbound'[e])
  BY PacketsTail, DirectionTypes DEF Direction, Ending
<1>2. Finishing(e)' => Finishing(e)
  BY <1>1 DEF Finishing
<1>3. Ending(e)'
  BY <1>1, <1>2 DEF Direction, Ending
<1>4. ASSUME NEW m \in Nat, NEW n \in Nat, Flow(e, m, n) PROVE Flow(e, m, n)'
  <2>1. Chain(inbound'[e], m, n)
    BY <1>4, DirectionTypes, BufferFacts, ChainTail DEF Flow
  <2> QED
    BY <1>2, <1>4, <2>1 DEF Flow
<1> QED
  BY <1>3, <1>4 DEF Direction

\* A zero-length buffer is queued behind the data, in exchange for a FIN or when
\* the loop has ended after one.
LEMMA DirectionQueuesEnd ==
    ASSUME TypeOK, NEW e \in Ends, Direction(e),
           \/ inbound'[e] = inbound[e] /\ fin[e] > 0
           \/ /\ inbound[e] # <<>> /\ Head(inbound[e]).flags = "FIN"
              /\ inbound'[e] = Tail(inbound[e]),
           appSendQ'[e] = Append(appSendQ[e], EofBuffer), fin'[e] > 0,
           UNCHANGED <<rcvd[e], eof[e], up[e], app[e]>>,
           UNCHANGED <<appRecvQ[Peer(e)], written[Peer(e)], app[Peer(e)]>>
    PROVE  Direction(e)'
<1>1. /\ DataOnly(inbound'[e]) /\ FinsLast(inbound'[e])
      /\ HasFin(inbound'[e]) => HasFin(inbound[e])
      /\ app[e] = "open" => Finishing(e) /\ NoData(inbound'[e])
      /\ inbound'[e] = inbound[e] \/ Size(Head(inbound[e])) = 0
  BY PacketsTail, DirectionTypes DEF Direction, Ending, Finishing
<1>2. Finishing(e)' => Finishing(e)
  BY <1>1 DEF Finishing
<1>3. EofBuffer \in Buffer /\ Size(EofBuffer) = 0
  BY DEF EofBuffer, Buffer, Size
<1>4. app[e] = "open" => EndsLast(appSendQ'[e])
  BY <1>3, EndsAppend, DirectionTypes DEF Direction, Ending
<1>5. Ending(e)'
  BY <1>1, <1>2, <1>4 DEF Direction, Ending
<1>6. ASSUME NEW m \in Nat, NEW n \in Nat, Flow(e, m, n) PROVE Flow(e, m, n)'
  <2>1. Chain(inbound'[e], m, n)
    BY <1>1, <1>6, DirectionTypes, BufferFacts, ChainTail DEF Flow
  <2>2. Chain(appSendQ'[e], rcvd[e], m)
    BY <1>3, <1>6, DirectionTypes, BufferFacts, ChainAppend DEF Flow
  <2> QED
    BY <1>2, <1>6, <2>1, <2>2 DEF Flow
<1> QED
  BY <1>5, <1>6 DEF Direction

\* The payload at the head goes up.
LEMMA DirectionQueuesData ==
    ASSUME TypeOK, NEW e \in Ends, Direction(e),
           inbound[e] # <<>>, Size(Head(inbound[e])) > 0,
           inbound'[e] = Tail(inbound[e]),
           NEW b, b = [lo |-> Head(inbound[e]).lo, hi |-> Head(inbound[e]).hi],
           appSendQ'[e] = Append(appSendQ[e], b),
           UNCHANGED <<rcvd[e], eof[e], up[e], app[e], fin[e]>>,
           UNCHANGED <<appRecvQ[Peer(e)], written[Peer(e)], app[Peer(e)]>>
    PROVE  Direction(e)'
<1>1. /\ DataOnly(inbound'[e]) /\ FinsLast(inbound'[e])
      /\ HasFin(inbound'[e]) => HasFin(inbound[e])
      /\ ~NoData(inbound[e])
  BY PacketsTail, DirectionTypes DEF Direction, Ending
<1>2. Finishing(e)' => Finishing(e)
  BY <1>1 DEF Finishing
<1>3. b \in Buffer /\ Size(b) = Size(Head(inbound[e]))
  <2>1. Head(inbound[e]) \in Packet
    BY DirectionTypes
  <2> QED
    BY <2>1 DEF Buffer, Size, Packet
<1>4. app[e] = "open" => /\ EndsLast(appSendQ'[e])
                         /\ ~HasEnd(appSendQ'[e])
                         /\ ~(fin[e] > 0)
  BY <1>1, <1>3, EndsAppend, DirectionTypes DEF Direction, Ending
<1>5. Ending(e)'
  BY <1>1, <1>2, <1>4 DEF Direction, Ending
<1>6. ASSUME NEW m \in Nat, NEW n \in Nat, Flow(e, m, n)
      PROVE  b.hi \in Nat /\ Flow(e, b.hi, n)'
  <2>1. b.lo = m /\ b.hi = Head(inbound[e]).hi /\ b.hi \in Nat
    BY <1>3, <1>6, DirectionTypes, BufferFacts, ChainHead DEF Flow, Buffer
  <2>2. Chain(inbound'[e], b.hi, n)
    <3>1. Chain(Tail(inbound[e]), IF Size(Head(inbound[e])) = 0 THEN m
                                  ELSE Head(inbound[e]).hi, n)
      BY <1>6, DirectionTypes, BufferFacts, ChainTail DEF Flow
    <3> QED
      BY <2>1, <3>1
  <2>3. Chain(appSendQ'[e], rcvd[e], b.hi)
    <3>1. Chain(Append(appSendQ[e], b), rcvd[e], IF Size(b) = 0 THEN m ELSE b.hi)
      <4>1. Chain(appSendQ[e], rcvd[e], m) /\ b.lo = m /\ appSendQ[e] \in Seq(Buffer)
        BY <1>6, <2>1, DirectionTypes DEF Flow
      <4> QED
        BY <1>3, <4>1, BufferFacts, ChainAppend
    <3> QED
      BY <1>3, <3>1
  <2> QED
    BY <1>2, <1>6, <2>1, <2>2, <2>3 DEF Flow
<1> QED
  BY <1>5, <1>6 DEF Direction

\* myread() takes the front of app_send_queue.
LEMMA DirectionIsRead ==
    ASSUME TypeOK, NEW e \in Ends, Direction(e), app[e] = "open",
           appSendQ[e] # <<>>, NEW len \in Int,
           NEW b, b = Portion(Head(appSendQ[e]), len),
           appSendQ'[e] = Leftover(appSendQ[e], len),
           rcvd'[e] = rcvd[e] + Size(b),
           Size(Head(appSendQ[e])) = 0 \/ eof'[e] = eof[e],
           UNCHANGED <<inbound[e], up[e], app[e], fin[e]>>,
           UNCHANGED <<appRecvQ[Peer(e)], written[Peer(e)], app[Peer(e)]>>
    PROVE  Direction(e)'
<1>1. Finishing(e)' = Finishing(e)
  BY DEF Finishing
<1>2. /\ EndsLast(appSendQ'[e]) /\ (HasEnd(appSendQ'[e]) => HasEnd(appSendQ[e]))
      /\ Size(Head(appSendQ[e])) = 0 => HasEnd(appSendQ[e])
  BY EndsLeftover, DirectionTypes DEF Direction, Ending
<1>3. eof'[e] = eof[e] \/ Finishing(e)
  BY <1>2 DEF Direction, Ending, Finishing
<1>4. Ending(e)'
  BY <1>1, <1>2, <1>3 DEF Direction, Ending
<1>5. ASSUME NEW m \in Nat, NEW n \in Nat, Flow(e, m, n) PROVE Flow(e, m, n)'
  <2>1. Chain(appSendQ'[e], rcvd'[e], m)
    <3>1. Chain(appSendQ[e], rcvd[e], m) /\ appSendQ[e] \in Seq(Buffer)
      BY <1>5, DirectionTypes DEF Flow
    <3>2. Chain(Leftover(appSendQ[e], len), rcvd[e] + Size(b), m)
      BY <3>1, ChainLeftover
    <3> QED
      BY <3>2
  <2> QED
    BY <1>1, <1>5, <2>1 DEF Flow
<1> QED
  BY <1>4, <1>5 DEF Direction

\* The end itself is closed, or its process dies.
LEMMA DirectionIsCut ==
    ASSUME TypeOK, NEW e \in Ends, Direction(e),
           inbound'[e] = <<>>, ~up'[e], app'[e] # "open",
           UNCHANGED eof[e], UNCHANGED app[Peer(e)]
    PROVE  Direction(e)'
<1>1. ~Finishing(e)'
  BY PacketsEmpty DEF Finishing
<1> QED
  BY <1>1, PacketsEmpty DEF Direction, Ending

\* The transport takes the front of app_recv_queue and sends it, unless the
\* other end has closed its socket.
LEMMA DirectionSendsData ==
    ASSUME TypeOK, NEW e \in Ends, Direction(e), app[Peer(e)] \in {"open", "closing"},
           appRecvQ[Peer(e)] # <<>>, NEW room \in Int,
           NEW b, b = Portion(Head(appRecvQ[Peer(e)]), room),
           NEW t \in Packet, t.flags = "DATA", t.lo = b.lo, t.hi = b.hi,
           appRecvQ'[Peer(e)] = Leftover(appRecvQ[Peer(e)], room),
           inbound'[e] = IF up[e] /\ Size(b) > 0 THEN Append(inbound[e], t)
                         ELSE inbound[e],
           UNCHANGED <<appSendQ[e], rcvd[e], eof[e], up[e], app[e], fin[e]>>,
           UNCHANGED <<written[Peer(e)], app[Peer(e)]>>
    PROVE  Direction(e)'
<1>1. ~HasFin(inbound[e]) /\ ~Finishing(e)
  BY DEF Direction, Ending, Finishing
<1>2. /\ DataOnly(inbound'[e]) /\ FinsLast(inbound'[e])
      /\ ~HasFin(inbound'[e])
  BY <1>1, PacketsAppend, DirectionTypes DEF Direction, Ending
<1>3. ~Finishing(e)'
  BY <1>1, <1>2 DEF Finishing
<1>4. Ending(e)'
  BY <1>1, <1>2, <1>3 DEF Direction, Ending, Finishing
<1>5. ASSUME NEW m \in Nat, NEW n \in Nat, Flow(e, m, n), up[e]
      PROVE  n + Size(b) \in Nat /\ Flow(e, m, n + Size(b))'
  <2>1. Chain(appRecvQ[Peer(e)], n, written[Peer(e)])
    BY <1>5 DEF Flow
  <2>2. /\ Size(b) \in Nat /\ b.lo \in Nat /\ b.hi \in Nat
        /\ Size(b) > 0 => b.lo = n /\ n + Size(b) = b.hi
        /\ Chain(appRecvQ'[Peer(e)], n + Size(b), written[Peer(e)])
    <3> DEFINE q == appRecvQ[Peer(e)]
               w == written[Peer(e)]
    <3>1. /\ q \in Seq(Buffer) /\ q # <<>> /\ Chain(q, n, w)
          /\ b = Portion(Head(q), room)
          /\ appRecvQ'[Peer(e)] = Leftover(q, room)
      BY <2>1, DirectionTypes
    <3> HIDE DEF q, w
    <3>2. /\ b \in Buffer /\ Size(b) \in Nat
          /\ Size(b) > 0 => b.lo = n /\ n + Size(b) = b.hi
          /\ Chain(Leftover(q, room), n + Size(b), w)
      BY <3>1, ChainLeftover
    <3> QED
      BY <3>1, <3>2 DEF Buffer, w
  <2>3. Size(t) = Size(b)
    BY DEF Size
  <2>4. Chain(inbound'[e], m, n + Size(b))
    <3>1. CASE Size(b) > 0
      <4>1. Chain(Append(inbound[e], t), m, IF Size(t) = 0 THEN n ELSE t.hi)
        BY <1>5, <2>2, <3>1, DirectionTypes, BufferFacts, ChainAppend DEF Flow
      <4> QED
        BY <1>5, <2>2, <2>3, <3>1, <4>1
    <3>2. CASE Size(b) = 0
      BY <1>5, <2>2, <3>2 DEF Flow
    <3> QED
      BY <2>2, <3>1, <3>2
  <2> QED
    BY <1>3, <1>5, <2>2, <2>4 DEF Flow
<1> QED
  BY <1>4, <1>5 DEF Direction

\* mywrite() appends to app_recv_queue.
LEMMA DirectionIsWritten ==
    ASSUME TypeOK, NEW e \in Ends, Direction(e), app[Peer(e)] = "open",
           NEW k \in Nat,
           NEW b, b = [lo |-> written[Peer(e)], hi |-> written[Peer(e)] + k],
           appRecvQ'[Peer(e)] = Append(appRecvQ[Peer(e)], b),
           written'[Peer(e)] = written[Peer(e)] + k,
           UNCHANGED <<inbound[e], appSendQ[e], rcvd[e], eof[e], up[e], app[e], fin[e]>>,
           UNCHANGED app[Peer(e)]
    PROVE  Direction(e)'
<1>1. ~Finishing(e) /\ Finishing(e)' = Finishing(e)
  BY DEF Direction, Ending, Finishing
<1>2. Ending(e)'
  BY <1>1 DEF Direction, Ending
<1>3. ASSUME NEW m \in Nat, NEW n \in Nat, Flow(e, m, n) PROVE Flow(e, m, n)'
  <2>1. Chain(appRecvQ[Peer(e)], n, written[Peer(e)])
    BY <1>3 DEF Flow
  <2>2. /\ b \in Buffer /\ Size(b) = k /\ b.lo = written[Peer(e)]
        /\ b.hi = written[Peer(e)] + k
    <3>1. written[Peer(e)] \in Nat
      BY DirectionTypes
    <3> QED
      BY <3>1 DEF Buffer, Size
  <2>3. Chain(Append(appRecvQ[Peer(e)], b), n,
              IF Size(b) = 0 THEN written[Peer(e)] ELSE b.hi)
    <3>1. appRecvQ[Peer(e)] \in Seq(Buffer)
      BY DirectionTypes
    <3> QED
      BY <2>1, <2>2, <3>1, BufferFacts, ChainAppend
  <2>4. Chain(appRecvQ'[Peer(e)], n, written'[Peer(e)])
    <3>1. (IF Size(b) = 0 THEN written[Peer(e)] ELSE b.hi) = written'[Peer(e)]
      BY <2>2, DirectionTypes
    <3> QED
      BY <2>3, <3>1
  <2> QED
    BY <1>1, <1>3, <2>4 DEF Flow
<1> QED
  BY <1>2, <1>3 DEF Direction

\* The peer is closed, or its process dies: what it has not sent is lost.
LEMMA DirectionIsAbandoned ==
    ASSUME TypeOK, NEW e \in Ends, Direction(e),
           app'[Peer(e)] \notin {"open", "closing"}, appRecvQ'[Peer(e)] = <<>>,
           UNCHANGED <<inbound[e], appSendQ[e], rcvd[e], eof[e], up[e], app[e], fin[e]>>,
           UNCHANGED written[Peer(e)]
    PROVE  Direction(e)'
<1>1. Finishing(e)' = Finishing(e)
  BY DEF Finishing
<1>2. Ending(e)'
  BY <1>1 DEF Direction, Ending
<1>3. ASSUME NEW m \in Nat, NEW n \in Nat, Flow(e, m, n) PROVE Flow(e, m, n)'
  <2>1. n <= written[Peer(e)]
    BY <1>3 DEF Flow, Chain
  <2> QED
    BY <1>1, <1>3, <2>1 DEF Flow
<1> QED
  BY <1>2, <1>3 DEF Direction

-----------------------------------------------------------------------------
(* The threads of one end, and the handshake: no data is on its way to an    *)
(* end before that end waits for it, and the ACK that ends the handshake is   *)
(* the first packet behind it.                                               *)

Thread(e) ==
    /\ up[e] <=> app[e] \in {"open", "closing"}
    /\ up[e] \/ st[e] \in {"exited", "abort"}
    /\ "APP_CLOSE_REQUESTED" \in ev[e] => appRecvQ[e] = <<>>
    /\ st[e] \in {"done", "exited"} => fin[e] > 0

Early == st[Active] \in {"init", "syn_sent"}

Opening ==
    /\ st[Active] \notin {"listen", "syn_rcvd"}
    /\ st[Passive] \notin {"init", "syn_sent"}
    /\ st[Passive] = "listen" => Early
    /\ Early =>
          /\ up[Active] /\ up[Passive] /\ ~reset[Active] /\ ~reset[Passive]
          /\ st[Passive] \in {"listen", "syn_rcvd"}
          /\ NoData(inbound[Active])
          /\ st[Passive] = "listen" => inbound[Active] = <<>>
          /\ st[Active] = "init" \/ st[Passive] = "syn_rcvd" => inbound[Passive] = <<>>
          /\ st[Active] = "init" => st[Passive] = "listen"
          /\ st[Active] = "syn_sent" /\ st[Passive] = "listen" =>
                \E t \in Packet : t.flags = "SYN" /\ inbound[Passive] = <<t>>
    /\ ~Early /\ st[Passive] = "syn_rcvd" =>
          inbound[Passive] # <<>> /\ Head(inbound[Passive]).flags = "ACK"

Good == Opening /\ \A e \in Ends : Thread(e) /\ Direction(e)

StreamInv == TypeInv /\ Good

LEMMA TwoEnds ==
    ASSUME NEW e \in Ends, NEW f \in Ends
    PROVE  f = e \/ f = Peer(e)
BY DEF Ends, Active, Passive, Peer

LEMMA NotEarly ==
    ASSUME Opening, NEW e \in Ends, st[e] \notin Handshaking
    PROVE  ~Early
BY DEF Opening, Early, Handshaking, Ends

LEMMA OpeningKept ==
    ASSUME TypeOK, Opening, ~Early, NEW e \in Ends,
           st'[e] = st[e] \/ st'[e] \notin Handshaking,
           st'[Peer(e)] = st[Peer(e)],
           st'[Passive] = "syn_rcvd" =>
              \/ inbound'[Passive] = inbound[Passive]
              \/ \E t \in Packet : inbound'[Passive] = Append(inbound[Passive], t)
    PROVE  Opening'
<1>1. /\ st'[Active] = st[Active] \/ st'[Active] \notin Handshaking
      /\ st'[Passive] = st[Passive] \/ st'[Passive] \notin Handshaking
  BY DEF Ends, Active, Passive, Peer
<1>2. ~Early' /\ st'[Active] \notin {"listen", "syn_rcvd"}
      /\ st'[Passive] \notin {"init", "syn_sent", "listen"}
  BY <1>1 DEF Early, Opening, Handshaking
<1>3. ASSUME st'[Passive] = "syn_rcvd"
      PROVE  inbound'[Passive] # <<>> /\ Head(inbound'[Passive]).flags = "ACK"
  <2>1. st[Passive] = "syn_rcvd" /\ inbound[Passive] \in Seq(Packet)
    BY <1>1, <1>3 DEF Handshaking, TypeOK, Ends
  <2>2. inbound[Passive] # <<>> /\ Head(inbound[Passive]).flags = "ACK"
    BY <2>1 DEF Opening
  <2>3. ASSUME NEW t \in Packet, inbound'[Passive] = Append(inbound[Passive], t)
        PROVE  inbound'[Passive] # <<>> /\ Head(inbound'[Passive]) = Head(inbound[Passive])
    BY <2>1, <2>2, <2>3
  <2> QED
    BY <1>3, <2>2, <2>3
<1> QED
  BY <1>2, <1>3 DEF Opening

-----------------------------------------------------------------------------
(* What the steps of the network do to the packets on their way.             *)

LEMMA SendEffect ==
    ASSUME TypeOK, NEW e \in Ends, NEW p \in Packet, Send(e, p)
    PROVE  /\ inbound'[e] = inbound[e]
           /\ inbound'[Peer(e)] = IF up[Peer(e)] THEN Append(inbound[Peer(e)], p)
                                  ELSE inbound[Peer(e)]
           /\ up' = up
           /\ up[Peer(e)] => reset' = reset
BY PeerFacts DEF TypeOK, Send, Sent, AnswerTo

LEMMA TakeEffect ==
    ASSUME TypeOK, NEW e \in Ends, ready[e] > 0, Take(e)
    PROVE  /\ inbound[e] # <<>> /\ inbound[e] \in Seq(Packet)
           /\ inbound'[e] = Tail(inbound[e])
           /\ inbound'[Peer(e)] = inbound[Peer(e)]
           /\ up' = up /\ reset' = reset
BY PeerFacts DEF TypeOK, Take

LEMMA TakeAndSendEffect ==
    ASSUME TypeOK, NEW e \in Ends, NEW p \in Packet, ready[e] > 0, TakeAndSend(e, p)
    PROVE  /\ inbound[e] # <<>> /\ inbound[e] \in Seq(Packet)
           /\ inbound'[e] = Tail(inbound[e])
           /\ inbound'[Peer(e)] = IF up[Peer(e)] THEN Append(inbound[Peer(e)], p)
                                  ELSE inbound[Peer(e)]
           /\ up' = up
           /\ up[Peer(e)] => reset' = reset
<1>1. inbound[e] # <<>> /\ inbound[e] \in Seq(Packet)
  BY DEF TypeOK
<1> QED
  BY <1>1, PeerFacts DEF TypeOK, TakeAndSend, Sent, AnswerTo

LEMMA DisconnectEffect ==
    ASSUME TypeOK, NEW e \in Ends, Disconnect(e)
    PROVE  /\ inbound'[e] = <<>> /\ ~up'[e]
           /\ inbound'[Peer(e)] = inbound[Peer(e)]
           /\ up'[Peer(e)] = up[Peer(e)]
BY PeerFacts DEF TypeOK, Disconnect

LEMMA HeaderSize ==
    ASSUME NEW flags, NEW seq, NEW ack
    PROVE  Size(Header(flags, seq, ack)) = 0 /\ Header(flags, seq, ack).flags = flags
BY DEF Header, Size

\* The end f of a direction whose sender e sends a packet without data.
LEMMA DirectionAfterSend ==
    ASSUME TypeOK, NEW e \in Ends, Direction(Peer(e)),
           NEW t \in Packet, Size(t) = 0,
           t.flags = "FIN" => app[e] = "closing" /\ appRecvQ[e] = <<>>,
           inbound'[Peer(e)] = IF up[Peer(e)] THEN Append(inbound[Peer(e)], t)
                               ELSE inbound[Peer(e)],
           up' = up,
           UNCHANGED <<app, eof, rcvd, written, appRecvQ>>,
           UNCHANGED <<appSendQ[Peer(e)], fin[Peer(e)]>>
    PROVE  Direction(Peer(e))'
<1>1. Peer(e) \in Ends /\ Peer(Peer(e)) = e
  BY PeerFacts
<1>2. CASE up[Peer(e)]
  BY <1>1, <1>2, DirectionGetsHeader
<1>3. CASE ~up[Peer(e)]
  BY <1>1, <1>3, DirectionRests
<1> QED
  BY <1>2, <1>3

-----------------------------------------------------------------------------
(* Every step keeps what was said of the threads and the two directions.     *)

LEMMA GoodSendSyn ==
    ASSUME StreamInv, NEW e \in Ends, SendSyn(e)
    PROVE  Good'
<1> DEFINE t == Header("SYN", nextSeq[e], 0)
<1>0. TypeOK /\ Opening /\ Direction(e) /\ Direction(Peer(e)) /\ Peer(e) \in Ends
      /\ \A f \in Ends : Thread(f)
  BY PeerFacts DEF StreamInv, TypeInv, Good
<1>1. t \in Packet /\ Size(t) = 0 /\ t.flags = "SYN"
  BY <1>0, HeaderSize, HeaderType, SeqNumFacts DEF TypeOK, Flags
<1> HIDE DEF t
<1>2. /\ inbound'[e] = inbound[e]
      /\ inbound'[Peer(e)] = IF up[Peer(e)] THEN Append(inbound[Peer(e)], t)
                             ELSE inbound[Peer(e)]
      /\ up' = up /\ (up[Peer(e)] => reset' = reset)
  BY <1>0, <1>1, SendEffect DEF SendSyn, t
<1>3. /\ st[e] = "init" /\ st' = [st EXCEPT ![e] = "syn_sent"] /\ st \in [Ends -> States]
      /\ UNCHANGED <<app, written, rcvd, eof, appRecvQ, appSendQ, ev, fin>>
  BY <1>0 DEF SendSyn, appVars, TypeOK
<1>4. e = Active /\ Peer(e) = Passive /\ Early /\ st[Passive] = "listen"
      /\ up[Passive] /\ inbound[Passive] = <<>> /\ inbound[Active] = <<>>
  BY <1>0, <1>3 DEF Opening, Early, Ends, Peer, Active, Passive
<1>5. Opening'
  <2>1. inbound'[Passive] = <<t>> /\ inbound'[Active] = <<>> /\ reset' = reset
    BY <1>2, <1>4
  <2>2. st'[Active] = "syn_sent" /\ st'[Passive] = "listen"
    BY <1>3, <1>4 DEF Ends, Active, Passive
  <2>3. Early'
    BY <2>2 DEF Early
  <2> QED
    BY <1>0, <1>1, <1>2, <1>4, <2>1, <2>2, <2>3, PacketsEmpty DEF Opening
<1>6. Direction(Peer(e))'
  BY <1>0, <1>1, <1>2, <1>3, DirectionAfterSend
<1>7. Direction(e)'
  BY <1>0, <1>2, <1>3, DirectionRests
<1>8. \A f \in Ends : Thread(f)'
  BY <1>0, <1>2, <1>3 DEF Thread
<1> QED
  BY <1>5, <1>6, <1>7, <1>8, TwoEnds DEF Good

LEMMA GoodRecvSyn ==
    ASSUME StreamInv, NEW e \in Ends, RecvSyn(e)
    PROVE  Good'
<1> DEFINE p == Head(inbound[e])
           t == Header("SYN_ACK", nextSeq[e], Plus(p.seq, 1))
<1>0. TypeOK /\ Opening /\ Direction(e) /\ Direction(Peer(e)) /\ Peer(e) \in Ends
      /\ \A f \in Ends : Thread(f)
  BY PeerFacts DEF StreamInv, TypeInv, Good
<1>1. /\ st[e] = "listen" /\ ready[e] > 0 /\ inbound[e] # <<>>
      /\ UNCHANGED <<app, written, rcvd, eof, appRecvQ, appSendQ, ev, fin>>
      /\ st \in [Ends -> States]
  BY <1>0 DEF RecvSyn, appVars, TypeOK
<1>2. /\ e = Passive /\ Peer(e) = Active /\ st[Active] = "syn_sent"
      /\ up[Active] /\ up[Passive] /\ ~reset[Active] /\ ~reset[Passive]
      /\ inbound[Active] = <<>>
  BY <1>0, <1>1 DEF Opening, Early, Ends, Peer, Active, Passive
<1>3. PICK syn \in Packet : syn.flags = "SYN" /\ inbound[Passive] = <<syn>>
  BY <1>0, <1>1, <1>2 DEF Opening, Early
<1>4. p = syn /\ p \in Packet /\ p.flags = "SYN" /\ Tail(inbound[e]) = <<>>
  BY <1>2, <1>3
<1>5. t \in Packet /\ Size(t) = 0 /\ t.flags = "SYN_ACK"
  <2>1. p.seq \in SeqNum
    BY <1>4 DEF Packet
  <2> QED
    BY <1>0, <2>1, HeaderSize, HeaderType, SeqNumFacts DEF TypeOK, Flags
<1>6. TakeAndSend(e, t) /\ st' = [st EXCEPT ![e] = "syn_rcvd"]
  BY <1>4 DEF RecvSyn
<1> HIDE DEF t
<1>7. /\ inbound'[e] = <<>> /\ inbound'[e] = Tail(inbound[e])
      /\ inbound'[Peer(e)] = IF up[Peer(e)] THEN Append(inbound[Peer(e)], t)
                             ELSE inbound[Peer(e)]
      /\ inbound'[Active] = <<t>>
      /\ up' = up /\ reset' = reset
  <2>1. /\ inbound'[e] = Tail(inbound[e])
        /\ inbound'[Peer(e)] = IF up[Peer(e)] THEN Append(inbound[Peer(e)], t)
                               ELSE inbound[Peer(e)]
        /\ up' = up /\ (up[Peer(e)] => reset' = reset)
    BY <1>0, <1>1, <1>5, <1>6, TakeAndSendEffect
  <2>2. Append(<<>>, t) = <<t>>
    OBVIOUS
  <2> QED
    BY <1>2, <1>4, <2>1, <2>2
<1>8. Opening'
  <2>1. st'[Active] = "syn_sent" /\ st'[Passive] = "syn_rcvd"
    BY <1>1, <1>2, <1>6 DEF Ends, Active, Passive
  <2>2. Early'
    BY <2>1 DEF Early
  <2>3. NoData(inbound'[Active])
    BY <1>5, <1>7 DEF NoData
  <2> QED
    BY <1>2, <1>7, <2>1, <2>2, <2>3 DEF Opening
<1>9. Direction(Peer(e))'
  BY <1>0, <1>1, <1>5, <1>7, DirectionAfterSend
<1>10. Direction(e)'
  <2>1. Size(p) = 0
    BY <1>0, <1>1, <1>4, PacketsTail, DirectionTypes DEF Direction, Ending
  <2> QED
    BY <1>0, <1>1, <1>7, <2>1, DirectionTakesHeader
<1>11. \A f \in Ends : Thread(f)'
  BY <1>0, <1>1, <1>2, <1>6, <1>7 DEF Thread
<1> QED
  BY <1>8, <1>9, <1>10, <1>11, TwoEnds DEF Good

LEMMA GoodRecvSynAck ==
    ASSUME StreamInv, NEW e \in Ends, RecvSynAck(e)
    PROVE  Good'
<1> DEFINE p == Head(inbound[e])
           t == Header("ACK", nextSeq[e], Plus(p.seq, 1))
<1>0. TypeOK /\ Opening /\ Direction(e) /\ Direction(Peer(e)) /\ Peer(e) \in Ends
      /\ \A f \in Ends : Thread(f)
  BY PeerFacts DEF StreamInv, TypeInv, Good
<1>1. /\ st[e] = "syn_sent" /\ ready[e] > 0 /\ inbound[e] # <<>>
      /\ inbound[e] \in Seq(Packet)
      /\ UNCHANGED <<app, written, rcvd, eof, appRecvQ, appSendQ, ev, fin>>
      /\ st \in [Ends -> States]
  BY <1>0 DEF RecvSynAck, appVars, TypeOK
<1>2. /\ e = Active /\ Peer(e) = Passive /\ Early
      /\ up[Active] /\ up[Passive] /\ ~reset[Active] /\ ~reset[Passive]
      /\ st[Passive] = "syn_rcvd" /\ inbound[Passive] = <<>> /\ NoData(inbound[Active])
  BY <1>0, <1>1 DEF Opening, Early, Ends, Peer, Active, Passive
<1>3. p \in Packet /\ p.seq \in SeqNum /\ Size(p) = 0 /\ NoData(Tail(inbound[e]))
  <2>1. p \in Packet
    BY <1>1
  <2> QED
    BY <1>0, <1>1, <1>2, <2>1, PacketsTail DEF Packet, Direction, Ending
<1>4. t \in Packet /\ Size(t) = 0 /\ t.flags = "ACK"
  BY <1>0, <1>3, HeaderSize, HeaderType, SeqNumFacts DEF TypeOK, Flags
<1>5. CASE TakeAndSend(e, t) /\ st' = [st EXCEPT ![e] = "established"]
  <2> HIDE DEF t
  <2>1. /\ inbound'[e] = Tail(inbound[e])
        /\ inbound'[Peer(e)] = IF up[Peer(e)] THEN Append(inbound[Peer(e)], t)
                               ELSE inbound[Peer(e)]
        /\ inbound'[Passive] = <<t>>
        /\ up' = up
    <3>1. /\ inbound'[e] = Tail(inbound[e])
          /\ inbound'[Peer(e)] = IF up[Peer(e)] THEN Append(inbound[Peer(e)], t)
                                 ELSE inbound[Peer(e)]
          /\ up' = up
      BY <1>0, <1>1, <1>4, <1>5, TakeAndSendEffect
    <3>2. Append(<<>>, t) = <<t>>
      OBVIOUS
    <3> QED
      BY <1>2, <3>1, <3>2
  <2>2. Opening'
    <3>1. st'[Active] = "established" /\ st'[Passive] = "syn_rcvd"
      BY <1>1, <1>2, <1>5 DEF Ends, Active, Passive
    <3>2. ~Early'
      BY <3>1 DEF Early
    <3> QED
      BY <1>4, <2>1, <3>1, <3>2 DEF Opening
  <2>3. Direction(Peer(e))'
    BY <1>0, <1>1, <1>4, <2>1, DirectionAfterSend
  <2>4. Direction(e)'
    BY <1>0, <1>1, <1>3, <2>1, DirectionTakesHeader
  <2>5. \A f \in Ends : Thread(f)'
    BY <1>0, <1>1, <1>2, <1>5, <2>1 DEF Thread
  <2> QED
    BY <2>2, <2>3, <2>4, <2>5, TwoEnds DEF Good
<1>6. CASE Take(e) /\ st' = st
  <2>1. /\ inbound'[e] = Tail(inbound[e]) /\ inbound'[Peer(e)] = inbound[Peer(e)]
        /\ up' = up /\ reset' = reset
    BY <1>0, <1>1, <1>6, TakeEffect
  <2>2. Opening'
    <3>1. Early' /\ st' = st /\ inbound'[Passive] = <<>> /\ NoData(inbound'[Active])
      BY <1>2, <1>3, <1>6, <2>1 DEF Early
    <3> QED
      BY <1>0, <1>1, <1>2, <2>1, <3>1 DEF Opening
  <2>3. Direction(Peer(e))'
    BY <1>0, <1>1, <2>1, DirectionRests
  <2>4. Direction(e)'
    BY <1>0, <1>1, <1>3, <2>1, DirectionTakesHeader
  <2>5. \A f \in Ends : Thread(f)'
    BY <1>0, <1>1, <1>6, <2>1 DEF Thread
  <2> QED
    BY <2>2, <2>3, <2>4, <2>5, TwoEnds DEF Good
<1> QED
  BY <1>5, <1>6 DEF RecvSynAck

LEMMA GoodRecvHandshakeAck ==
    ASSUME StreamInv, NEW e \in Ends, RecvHandshakeAck(e)
    PROVE  Good'
<1> DEFINE p == Head(inbound[e])
<1>0. TypeOK /\ Opening /\ Direction(e) /\ Direction(Peer(e)) /\ Peer(e) \in Ends
      /\ \A f \in Ends : Thread(f)
  BY PeerFacts DEF StreamInv, TypeInv, Good
<1>1. /\ st[e] = "syn_rcvd" /\ ready[e] > 0 /\ inbound[e] # <<>> /\ Take(e)
      /\ inbound[e] \in Seq(Packet)
      /\ UNCHANGED <<app, written, rcvd, eof, appRecvQ, appSendQ, ev, fin>>
      /\ st \in [Ends -> States]
  BY <1>0 DEF RecvHandshakeAck, appVars, TypeOK
<1>2. e = Passive /\ ~Early /\ p.flags = "ACK"
  BY <1>0, <1>1 DEF Opening, Ends, Active, Passive
<1>3. st' = [st EXCEPT ![e] = "established"]
  BY <1>2 DEF RecvHandshakeAck
<1>4. Size(p) = 0
  BY <1>0, <1>1, <1>2, PacketsTail DEF Direction, Ending
<1>5. /\ inbound'[e] = Tail(inbound[e]) /\ inbound'[Peer(e)] = inbound[Peer(e)]
      /\ up' = up
  BY <1>0, <1>1, TakeEffect
<1>6. Opening'
  <2>1. st'[Passive] = "established" /\ st'[Peer(e)] = st[Peer(e)] /\ st'[e] = "established"
    BY <1>1, <1>2, <1>3, PeerFacts DEF Ends
  <2> QED
    BY <1>0, <1>2, <2>1, OpeningKept DEF Handshaking
<1>7. Direction(Peer(e))'
  BY <1>0, <1>1, <1>5, DirectionRests
<1>8. Direction(e)'
  BY <1>0, <1>1, <1>4, <1>5, DirectionTakesHeader
<1>9. \A f \in Ends : Thread(f)'
  BY <1>0, <1>1, <1>3, <1>5 DEF Thread
<1> QED
  BY <1>6, <1>7, <1>8, <1>9, TwoEnds DEF Good

\* An end beyond the handshake, for the steps of its transport thread.
LEMMA EstablishedFacts ==
    ASSUME StreamInv, NEW e \in Ends, ev[e] # {}
    PROVE  /\ st[e] = "established" /\ ~Early /\ up[e]
           /\ app[e] \in {"open", "closing"}
<1>1. Pending(e) /\ Thread(e) /\ Opening
  BY DEF StreamInv, TypeInv, Good
<1>2. st[e] = "established" /\ up[e] /\ app[e] \in {"open", "closing"}
  BY <1>1 DEF Pending, Thread
<1>3. ~Early
  BY <1>1, <1>2, NotEarly DEF Handshaking
<1> QED
  BY <1>2, <1>3

LEMMA GoodAbort ==
    ASSUME StreamInv, NEW e \in Ends, Abort(e), ~Early
    PROVE  Good'
<1>0. TypeOK /\ Opening /\ Direction(e) /\ Direction(Peer(e)) /\ Peer(e) \in Ends
      /\ Peer(e) # e /\ Peer(Peer(e)) = e
      /\ \A f \in Ends : Thread(f)
  BY PeerFacts DEF StreamInv, TypeInv, Good
<1>1. /\ inbound'[e] = <<>> /\ ~up'[e] /\ inbound'[Peer(e)] = inbound[Peer(e)]
      /\ up'[Peer(e)] = up[Peer(e)]
  BY <1>0, DisconnectEffect DEF Abort
<1>2. /\ st'[e] = "abort" /\ st'[Peer(e)] = st[Peer(e)]
      /\ app'[e] = "dead" /\ app'[Peer(e)] = app[Peer(e)]
      /\ ev'[e] = {} /\ ev'[Peer(e)] = ev[Peer(e)]
      /\ appRecvQ'[e] = <<>> /\ appRecvQ'[Peer(e)] = appRecvQ[Peer(e)]
      /\ appSendQ'[Peer(e)] = appSendQ[Peer(e)]
      /\ UNCHANGED <<written, rcvd, eof, fin>>
  BY <1>0 DEF Abort, TypeOK
<1>3. Opening'
  <2>1. st'[Passive] = "syn_rcvd" => inbound'[Passive] = inbound[Passive]
    BY <1>1, <1>2, TwoEnds DEF Ends
  <2> QED
    BY <1>0, <1>2, <2>1, OpeningKept DEF Handshaking
<1>4. Direction(e)'
  BY <1>0, <1>1, <1>2, DirectionIsCut
<1>5. Direction(Peer(e))'
  BY <1>0, <1>1, <1>2, DirectionIsAbandoned
<1>6. Thread(e)' /\ Thread(Peer(e))'
  BY <1>0, <1>1, <1>2 DEF Thread
<1> QED
  BY <1>3, <1>4, <1>5, <1>6, TwoEnds DEF Good

LEMMA GoodWaitForEvent ==
    ASSUME StreamInv, NEW e \in Ends, WaitForEvent(e)
    PROVE  Good'
<1>0. TypeOK /\ Opening /\ Direction(e) /\ Direction(Peer(e)) /\ Peer(e) \in Ends
      /\ \A f \in Ends : Thread(f)
  BY PeerFacts DEF StreamInv, TypeInv, Good
<1>1. /\ UNCHANGED <<app, written, rcvd, eof, inbound, up, reset, appRecvQ, appSendQ, st, fin>>
      /\ ev' = [ev EXCEPT ![e] = Bits(e)] /\ ev \in [Ends -> SUBSET Events]
  BY <1>0 DEF WaitForEvent, appVars, netVars, TypeOK
<1>2. Opening'
  BY <1>0, <1>1 DEF Opening, Early
<1>3. Direction(e)' /\ Direction(Peer(e))'
  BY <1>0, <1>1, DirectionRests
<1>4. "APP_CLOSE_REQUESTED" \in Bits(e) => appRecvQ[e] = <<>>
  BY DEF Bits, CloseReported
<1>5. \A f \in Ends : Thread(f)'
  BY <1>0, <1>1, <1>4 DEF Thread
<1> QED
  BY <1>2, <1>3, <1>5, TwoEnds DEF Good

LEMMA GoodHandleAppData ==
    ASSUME StreamInv, NEW e \in Ends, HandleAppData(e)
    PROVE  Good'
<1> DEFINE room == SendRoom(e)
           b == Portion(Head(appRecvQ[e]), room)
           t == [Header("DATA", nextSeq[e], yAck[e]) EXCEPT !.lo = b.lo, !.hi = b.hi]
<1>0. TypeOK /\ Opening /\ Direction(e) /\ Direction(Peer(e)) /\ Peer(e) \in Ends
      /\ Peer(e) # e /\ Peer(Peer(e)) = e
      /\ \A f \in Ends : Thread(f)
  BY PeerFacts DEF StreamInv, TypeInv, Good
<1>1. /\ appRecvQ[e] # <<>> /\ appRecvQ[e] \in Seq(Buffer) /\ "APP_DATA" \in ev[e]
      /\ room \in Int /\ b \in Buffer /\ Size(b) \in Nat
  <2>1. appRecvQ[e] # <<>> /\ appRecvQ[e] \in Seq(Buffer) /\ "APP_DATA" \in ev[e]
    BY DEF HandleAppData, StreamInv, TypeInv, Pending, TypeOK
  <2>2. room \in Int /\ Head(appRecvQ[e]) \in Buffer
    BY <1>0, <2>1, SendRoomType
  <2>3. b \in Buffer
    BY <2>2, PortionType
  <2> QED
    BY <2>1, <2>2, <2>3, BufferFacts
<1>2. t \in Packet /\ t.flags = "DATA" /\ t.lo = b.lo /\ t.hi = b.hi
  BY <1>0, <1>1 DEF TypeOK, Header, Packet, Buffer, Flags
<1>3. /\ appRecvQ' = [appRecvQ EXCEPT ![e] = Leftover(@, room)]
      /\ ev' = [ev EXCEPT ![e] = @ \ {"APP_DATA"}]
      /\ UNCHANGED <<app, written, rcvd, eof, appSendQ, st, fin>>
      /\ IF Size(b) > 0 THEN Send(e, t) ELSE UNCHANGED <<inbound, up>>
  BY DEF HandleAppData, appVars, netVars
<1>4. appRecvQ'[e] = Leftover(appRecvQ[e], room) /\ appRecvQ'[Peer(e)] = appRecvQ[Peer(e)]
  BY <1>0, <1>3 DEF TypeOK
<1> HIDE DEF room, t
<1>5. /\ inbound'[e] = inbound[e] /\ up' = up
      /\ inbound'[Peer(e)] = IF up[Peer(e)] /\ Size(b) > 0 THEN Append(inbound[Peer(e)], t)
                             ELSE inbound[Peer(e)]
  BY <1>0, <1>2, <1>3, SendEffect
<1>6. st[e] = "established" /\ ~Early /\ up[e] /\ app[e] \in {"open", "closing"}
  BY <1>1, EstablishedFacts
<1>7. Opening'
  <2>1. \A f \in Ends : inbound'[f] = inbound[f] \/ inbound'[f] = Append(inbound[f], t)
    BY <1>5, TwoEnds
  <2> QED
    BY <1>0, <1>2, <1>3, <1>6, <2>1, OpeningKept DEF Ends
<1>8. Direction(e)'
  BY <1>0, <1>3, <1>4, <1>5, DirectionRests
<1>9. Direction(Peer(e))'
  <2> DEFINE f == Peer(e)
  <2>1. /\ f \in Ends /\ Peer(f) = e /\ Direction(f)
        /\ inbound'[f] = IF up[f] /\ Size(b) > 0 THEN Append(inbound[f], t) ELSE inbound[f]
    BY <1>0, <1>5
  <2> HIDE DEF f
  <2>2. Direction(f)'
    BY <1>0, <1>1, <1>2, <1>3, <1>4, <1>5, <1>6, <2>1, DirectionSendsData DEF b
  <2> QED
    BY <2>2 DEF f
<1>10. \A f \in Ends : Thread(f)'
  <2>1. "APP_CLOSE_REQUESTED" \notin ev[e]
    BY <1>0, <1>1 DEF Thread
  <2>2. Thread(e)' /\ Thread(Peer(e))'
    BY <1>0, <1>3, <1>4, <1>5, <2>1 DEF Thread, TypeOK
  <2> QED
    BY <2>2, TwoEnds
<1> QED
  BY <1>7, <1>8, <1>9, <1>10, TwoEnds DEF Good

LEMMA GoodHandleAck ==
    ASSUME StreamInv, NEW e \in Ends, HandleAck(e)
    PROVE  Good'
<1> DEFINE p == Head(inbound[e])
<1>0. TypeOK /\ Opening /\ Direction(e) /\ Direction(Peer(e)) /\ Peer(e) \in Ends
      /\ \A f \in Ends : Thread(f)
  BY PeerFacts DEF StreamInv, TypeInv, Good
<1>1. /\ "NETWORK_DATA" \in ev[e] /\ HandlesPacket(e) /\ p.flags = "ACK"
      /\ ready[e] > 0
  BY DEF HandleAck, HandlesPacket, StreamInv, TypeInv, Pending
<1>2. st[e] = "established" /\ ~Early /\ up[e] /\ app[e] \in {"open", "closing"}
  BY <1>1, EstablishedFacts
<1>3. CASE Abort(e)
  BY <1>2, <1>3, GoodAbort
<1>4. CASE /\ Take(e)
           /\ ev' = [ev EXCEPT ![e] = @ \ {"NETWORK_DATA"}]
           /\ UNCHANGED <<app, written, rcvd, eof, appRecvQ, appSendQ, st, fin>>
  <2>1. /\ inbound[e] # <<>> /\ inbound[e] \in Seq(Packet)
        /\ inbound'[e] = Tail(inbound[e]) /\ inbound'[Peer(e)] = inbound[Peer(e)]
        /\ up' = up /\ reset' = reset
    BY <1>0, <1>1, <1>4, TakeEffect
  <2>2. Size(p) = 0
    BY <1>0, <1>1, <2>1, PacketsTail DEF Direction, Ending
  <2>3. Opening'
    <3>1. st'[Passive] = "syn_rcvd" => inbound'[Passive] = inbound[Passive]
      BY <1>2, <1>4, <2>1, TwoEnds DEF Ends
    <3> QED
      BY <1>0, <1>2, <1>4, <3>1, OpeningKept
  <2>4. Direction(e)'
    BY <1>0, <1>4, <2>1, <2>2, DirectionTakesHeader
  <2>5. Direction(Peer(e))'
    BY <1>0, <1>4, <2>1, DirectionRests
  <2>6. \A f \in Ends : Thread(f)'
    BY <1>0, <1>4, <2>1 DEF Thread, TypeOK
  <2> QED
    BY <2>3, <2>4, <2>5, <2>6, TwoEnds DEF Good
<1> QED
  BY <1>3, <1>4 DEF HandleAck, appVars

LEMMA CountFinEffect ==
    ASSUME TypeOK, NEW e \in Ends, CountFin(e)
    PROVE  /\ fin'[e] = fin[e] + 1 /\ fin'[e] > 0 /\ fin'[Peer(e)] = fin[Peer(e)]
           /\ ev'[e] = {} /\ ev'[Peer(e)] = ev[Peer(e)]
           /\ st'[e] \in {st[e], "done"} /\ st'[Peer(e)] = st[Peer(e)]
<1>1. fin[e] \in 0 .. 4 /\ Peer(e) # e /\ Peer(e) \in Ends
  BY PeerFacts DEF TypeOK
<1> QED
  BY <1>1 DEF TypeOK, CountFin

LEMMA GoodHandleFinAck ==
    ASSUME StreamInv, NEW e \in Ends, HandleFinAck(e)
    PROVE  Good'
<1> DEFINE p == Head(inbound[e])
<1>0. TypeOK /\ Opening /\ Direction(e) /\ Direction(Peer(e)) /\ Peer(e) \in Ends
      /\ \A f \in Ends : Thread(f)
  BY PeerFacts DEF StreamInv, TypeInv, Good
<1>1. /\ "NETWORK_DATA" \in ev[e] /\ p.flags = "ACK" /\ ready[e] > 0
      /\ fin[e] > 0 /\ Take(e) /\ CountFin(e)
      /\ UNCHANGED <<app, written, rcvd, eof, appRecvQ, appSendQ>>
  BY DEF HandleFinAck, HandlesPacket, StreamInv, TypeInv, Pending, appVars
<1>2. st[e] = "established" /\ ~Early /\ up[e] /\ app[e] \in {"open", "closing"}
  BY <1>1, EstablishedFacts
<1>3. /\ inbound[e] # <<>> /\ inbound[e] \in Seq(Packet)
      /\ inbound'[e] = Tail(inbound[e]) /\ inbound'[Peer(e)] = inbound[Peer(e)]
      /\ up' = up
  BY <1>0, <1>1, TakeEffect
<1>4. /\ fin'[e] > 0 /\ fin'[Peer(e)] = fin[Peer(e)]
      /\ ev'[e] = {} /\ ev'[Peer(e)] = ev[Peer(e)]
      /\ st'[e] \in {st[e], "done"} /\ st'[Peer(e)] = st[Peer(e)]
  BY <1>0, <1>1, CountFinEffect
<1>5. Size(p) = 0
  BY <1>0, <1>1, <1>3, PacketsTail DEF Direction, Ending
<1>6. Opening'
  <2>1. st'[Passive] = "syn_rcvd" => inbound'[Passive] = inbound[Passive]
    BY <1>2, <1>3, <1>4, TwoEnds DEF Ends
  <2> QED
    BY <1>0, <1>2, <1>4, <2>1, OpeningKept DEF Handshaking
<1>7. Direction(e)'
  BY <1>0, <1>1, <1>3, <1>4, <1>5, DirectionTakesHeader
<1>8. Direction(Peer(e))'
  BY <1>0, <1>1, <1>3, <1>4, DirectionRests
<1>9. Thread(e)' /\ Thread(Peer(e))'
  BY <1>0, <1>1, <1>2, <1>3, <1>4 DEF Thread
<1> QED
  BY <1>6, <1>7, <1>8, <1>9, TwoEnds DEF Good

LEMMA GoodHandleFin ==
    ASSUME StreamInv, NEW e \in Ends, HandleFin(e)
    PROVE  Good'
<1> DEFINE p == Head(inbound[e])
           t == Header("ACK", nextSeq[e], yAck[e])
<1>0. TypeOK /\ Opening /\ Direction(e) /\ Direction(Peer(e)) /\ Peer(e) \in Ends
      /\ Peer(e) # e
      /\ \A f \in Ends : Thread(f)
  BY PeerFacts DEF StreamInv, TypeInv, Good
<1>1. /\ "NETWORK_DATA" \in ev[e] /\ p.flags = "FIN" /\ ready[e] > 0
      /\ TakeAndSend(e, t) /\ CountFin(e)
      /\ UNCHANGED <<app, written, rcvd, eof, appRecvQ>>
      /\ appSendQ'[e] = Append(appSendQ[e], EofBuffer)
      /\ appSendQ'[Peer(e)] = appSendQ[Peer(e)]
  BY <1>0 DEF HandleFin, HandlesPacket, StreamInv, TypeInv, Pending, appVars, TypeOK
<1>2. st[e] = "established" /\ ~Early /\ up[e] /\ app[e] \in {"open", "closing"}
  BY <1>1, EstablishedFacts
<1>3. t \in Packet /\ Size(t) = 0 /\ t.flags = "ACK"
  BY <1>0, HeaderSize, HeaderType DEF TypeOK, Flags
<1> HIDE DEF t
<1>4. /\ inbound[e] # <<>> /\ inbound'[e] = Tail(inbound[e])
      /\ inbound'[Peer(e)] = IF up[Peer(e)] THEN Append(inbound[Peer(e)], t)
                             ELSE inbound[Peer(e)]
      /\ up' = up
  BY <1>0, <1>1, <1>3, TakeAndSendEffect
<1>5. /\ fin'[e] > 0 /\ fin'[Peer(e)] = fin[Peer(e)]
      /\ ev'[e] = {} /\ ev'[Peer(e)] = ev[Peer(e)]
      /\ st'[e] \in {st[e], "done"} /\ st'[Peer(e)] = st[Peer(e)]
  BY <1>0, <1>1, CountFinEffect
<1>6. Opening'
  <2>1. st'[Passive] = "syn_rcvd" => \/ inbound'[Passive] = inbound[Passive]
                                     \/ inbound'[Passive] = Append(inbound[Passive], t)
    BY <1>2, <1>4, <1>5, TwoEnds DEF Ends
  <2> QED
    BY <1>0, <1>2, <1>3, <1>5, <2>1, OpeningKept DEF Handshaking
<1>7. Direction(e)'
  BY <1>0, <1>1, <1>4, <1>5, DirectionQueuesEnd
<1>8. Direction(Peer(e))'
  BY <1>0, <1>1, <1>3, <1>4, <1>5, DirectionAfterSend
<1>9. Thread(e)' /\ Thread(Peer(e))'
  BY <1>0, <1>1, <1>2, <1>4, <1>5 DEF Thread
<1> QED
  BY <1>6, <1>7, <1>8, <1>9, TwoEnds DEF Good

LEMMA GoodHandlePayload ==
    ASSUME StreamInv, NEW e \in Ends, HandlePayload(e)
    PROVE  Good'
<1> DEFINE p == Head(inbound[e])
           t == Header("ACK", nextSeq[e], AckFor(e, p))
           b == [lo |-> p.lo, hi |-> p.hi]
<1>0. TypeOK /\ Opening /\ Direction(e) /\ Direction(Peer(e)) /\ Peer(e) \in Ends
      /\ Peer(e) # e
      /\ \A f \in Ends : Thread(f)
  BY PeerFacts DEF StreamInv, TypeInv, Good
<1>1. /\ "NETWORK_DATA" \in ev[e] /\ HandlesPacket(e) /\ ready[e] > 0
      /\ TakeAndSend(e, t)
      /\ UNCHANGED <<app, written, rcvd, eof, appRecvQ, st, fin>>
      /\ ev'[e] = ev[e] \ {"NETWORK_DATA"} /\ ev'[Peer(e)] = ev[Peer(e)]
      /\ appSendQ'[e] = IF Size(p) > 0 THEN Append(appSendQ[e], b) ELSE appSendQ[e]
      /\ appSendQ'[Peer(e)] = appSendQ[Peer(e)]
  BY <1>0 DEF HandlePayload, HandlesPacket, StreamInv, TypeInv, Pending, appVars, TypeOK
<1>2. st[e] = "established" /\ ~Early /\ up[e] /\ app[e] \in {"open", "closing"}
  BY <1>1, EstablishedFacts
<1>3. p \in Packet /\ Size(p) \in Nat
  BY <1>1, PacketFacts, BufferFacts DEF StreamInv
<1>4. t \in Packet /\ Size(t) = 0 /\ t.flags = "ACK"
  BY <1>0, <1>3, AckForType, HeaderSize, HeaderType DEF TypeOK, Flags
<1> HIDE DEF t
<1>5. /\ inbound[e] # <<>> /\ inbound'[e] = Tail(inbound[e])
      /\ inbound'[Peer(e)] = IF up[Peer(e)] THEN Append(inbound[Peer(e)], t)
                             ELSE inbound[Peer(e)]
      /\ up' = up
  BY <1>0, <1>1, <1>4, TakeAndSendEffect
<1>6. Opening'
  <2>1. st'[Passive] = "syn_rcvd" => \/ inbound'[Passive] = inbound[Passive]
                                     \/ inbound'[Passive] = Append(inbound[Passive], t)
    BY <1>1, <1>2, <1>5, TwoEnds DEF Ends
  <2> QED
    BY <1>0, <1>1, <1>2, <1>4, <2>1, OpeningKept
<1>7. Direction(e)'
  <2>1. CASE Size(p) > 0
    BY <1>0, <1>1, <1>5, <2>1, DirectionQueuesData
  <2>2. CASE Size(p) = 0
    BY <1>0, <1>1, <1>5, <2>2, DirectionTakesHeader
  <2> QED
    BY <1>3, <2>1, <2>2
<1>8. Direction(Peer(e))'
  BY <1>0, <1>1, <1>4, <1>5, DirectionAfterSend
<1>9. Thread(e)' /\ Thread(Peer(e))'
  BY <1>0, <1>1, <1>5 DEF Thread
<1> QED
  BY <1>6, <1>7, <1>8, <1>9, TwoEnds DEF Good

LEMMA GoodHandleClose ==
    ASSUME StreamInv, NEW e \in Ends, HandleClose(e)
    PROVE  Good'
<1> DEFINE t == Header("FIN", nextSeq[e], yAck[e])
<1>0. TypeOK /\ Opening /\ Direction(e) /\ Direction(Peer(e)) /\ Peer(e) \in Ends
      /\ Peer(e) # e
      /\ \A f \in Ends : Thread(f)
  BY PeerFacts DEF StreamInv, TypeInv, Good
<1>1. /\ "APP_CLOSE_REQUESTED" \in ev[e]
      /\ Send(e, t)
      /\ UNCHANGED <<app, written, rcvd, eof, appRecvQ, appSendQ, st>>
      /\ fin'[Peer(e)] = fin[Peer(e)]
      /\ ev'[e] = {} /\ ev'[Peer(e)] = ev[Peer(e)]
  BY <1>0 DEF HandleClose, appVars, TypeOK
<1>2. st[e] = "established" /\ ~Early /\ up[e]
  BY <1>1, EstablishedFacts
<1>3. app[e] = "closing" /\ appRecvQ[e] = <<>>
  BY <1>0, <1>1 DEF StreamInv, TypeInv, FinBound, Thread
<1>4. t \in Packet /\ Size(t) = 0 /\ t.flags = "FIN"
  BY <1>0, HeaderSize, HeaderType DEF TypeOK, Flags
<1> HIDE DEF t
<1>5. /\ inbound'[e] = inbound[e]
      /\ inbound'[Peer(e)] = IF up[Peer(e)] THEN Append(inbound[Peer(e)], t)
                             ELSE inbound[Peer(e)]
      /\ up' = up
  BY <1>0, <1>1, <1>4, SendEffect
<1>6. Opening'
  <2>1. \A f \in Ends : inbound'[f] = inbound[f] \/ inbound'[f] = Append(inbound[f], t)
    BY <1>5, TwoEnds
  <2> QED
    BY <1>0, <1>1, <1>2, <1>4, <2>1, OpeningKept DEF Ends
<1>7. Direction(e)'
  BY <1>0, <1>1, <1>3, <1>5, DirectionRests
<1>8. Direction(Peer(e))'
  BY <1>0, <1>1, <1>3, <1>4, <1>5, DirectionAfterSend
<1>9. Thread(e)' /\ Thread(Peer(e))'
  BY <1>0, <1>1, <1>2, <1>5 DEF Thread
<1> QED
  BY <1>6, <1>7, <1>8, <1>9, TwoEnds DEF Good

LEMMA GoodThreadExit ==
    ASSUME StreamInv, NEW e \in Ends, ThreadExit(e)
    PROVE  Good'
<1>0. TypeOK /\ Opening /\ Direction(e) /\ Direction(Peer(e)) /\ Peer(e) \in Ends
      /\ Peer(e) # e
      /\ \A f \in Ends : Thread(f)
  BY PeerFacts DEF StreamInv, TypeInv, Good
<1>1. /\ st[e] = "done" /\ st'[e] = "exited" /\ st'[Peer(e)] = st[Peer(e)]
      /\ UNCHANGED <<app, written, rcvd, eof, appRecvQ, inbound, up, ev, fin>>
      /\ appSendQ'[e] = Append(appSendQ[e], EofBuffer)
      /\ appSendQ'[Peer(e)] = appSendQ[Peer(e)]
  BY <1>0 DEF ThreadExit, appVars, netVars, TypeOK
<1>2. fin[e] > 0 /\ ~Early
  BY <1>0, <1>1, NotEarly DEF Thread, Handshaking
<1>3. Opening'
  BY <1>0, <1>1, <1>2, OpeningKept DEF Handshaking
<1>4. Direction(e)'
  BY <1>0, <1>1, <1>2, DirectionQueuesEnd
<1>5. Direction(Peer(e))'
  BY <1>0, <1>1, DirectionRests
<1>6. Thread(e)' /\ Thread(Peer(e))'
  BY <1>0, <1>1, <1>2 DEF Thread
<1> QED
  BY <1>3, <1>4, <1>5, <1>6, TwoEnds DEF Good

LEMMA GoodRecvThread ==
    ASSUME StreamInv, NEW e \in Ends, RecvThread(e)
    PROVE  Good'
<1>0. TypeOK /\ Opening /\ Direction(e) /\ Direction(Peer(e)) /\ Peer(e) \in Ends
      /\ Peer(e) # e
      /\ \A f \in Ends : Thread(f)
  BY PeerFacts DEF StreamInv, TypeInv, Good
<1>1. CASE RecvPacket(e)
  <2>1. UNCHANGED <<app, written, rcvd, eof, appRecvQ, appSendQ, inbound, up, reset, st, ev, fin>>
    BY <1>1 DEF RecvPacket, appVars
  <2>2. Opening'
    BY <1>0, <2>1 DEF Opening, Early
  <2>3. Direction(e)' /\ Direction(Peer(e))'
    BY <1>0, <2>1, DirectionRests
  <2>4. \A f \in Ends : Thread(f)'
    BY <1>0, <2>1 DEF Thread
  <2> QED
    BY <2>2, <2>3, <2>4, TwoEnds DEF Good
<1>2. CASE RecvEof(e)
  <2>1. /\ UNCHANGED <<app, written, rcvd, eof, appRecvQ, appSendQ, up, st, ev, fin>>
        /\ ~up[Peer(e)]
        /\ inbound'[e] = Append(inbound[e], NoPacket)
        /\ inbound'[Peer(e)] = inbound[Peer(e)]
    BY <1>0, <1>2 DEF RecvEof, appVars, TypeOK
  <2>2. NoPacket \in Packet /\ Size(NoPacket) = 0 /\ NoPacket.flags = "DATA"
    BY NoPacketType DEF NoPacket, Size
  <2>3. ~Early
    BY <1>0, <2>1 DEF Opening, Ends
  <2>4. Opening'
    <3>1. \A f \in Ends : inbound'[f] = inbound[f] \/ inbound'[f] = Append(inbound[f], NoPacket)
      BY <2>1, TwoEnds
    <3> QED
      BY <1>0, <2>1, <2>2, <2>3, <3>1, OpeningKept DEF Ends
  <2>5. Direction(e)'
    BY <1>0, <2>1, <2>2, DirectionGetsHeader
  <2>6. Direction(Peer(e))'
    BY <1>0, <2>1, DirectionRests
  <2>7. \A f \in Ends : Thread(f)'
    BY <1>0, <2>1 DEF Thread
  <2> QED
    BY <2>4, <2>5, <2>6, <2>7, TwoEnds DEF Good
<1>3. CASE AssertPoll(e)
  <2>1. ~Early
    BY <1>0, <1>3 DEF AssertPoll, Opening, Ends
  <2> QED
    BY <1>3, <2>1, GoodAbort DEF AssertPoll
<1> QED
  BY <1>1, <1>2, <1>3 DEF RecvThread

LEMMA GoodMyWrite ==
    ASSUME StreamInv, NEW e \in Ends, NEW n \in Nat, MyWrite(e, n)
    PROVE  Good'
<1> DEFINE b == [lo |-> written[e], hi |-> written[e] + n]
<1>0. TypeOK /\ Opening /\ Direction(e) /\ Direction(Peer(e)) /\ Peer(e) \in Ends
      /\ Peer(e) # e /\ Peer(Peer(e)) = e
      /\ \A f \in Ends : Thread(f)
  BY PeerFacts DEF StreamInv, TypeInv, Good
<1>1. /\ app[e] = "open"
      /\ UNCHANGED <<app, rcvd, eof, appSendQ, inbound, up, reset, st, ev, fin>>
      /\ appRecvQ'[e] = Append(appRecvQ[e], b) /\ appRecvQ'[Peer(e)] = appRecvQ[Peer(e)]
      /\ written'[e] = written[e] + n /\ written'[Peer(e)] = written[Peer(e)]
  BY <1>0 DEF MyWrite, netVars, TypeOK
<1>2. Opening'
  BY <1>0, <1>1 DEF Opening, Early
<1>3. Direction(e)'
  BY <1>0, <1>1, DirectionRests
<1>4. Direction(Peer(e))'
  <2> DEFINE f == Peer(e)
  <2>1. f \in Ends /\ Peer(f) = e /\ Direction(f)
    BY <1>0
  <2> HIDE DEF f
  <2>2. Direction(f)'
    BY <1>0, <1>1, <2>1, DirectionIsWritten
  <2> QED
    BY <2>2 DEF f
<1>5. "APP_CLOSE_REQUESTED" \notin ev[e]
  BY <1>1 DEF StreamInv, TypeInv, FinBound
<1>6. Thread(e)' /\ Thread(Peer(e))'
  BY <1>0, <1>1, <1>5 DEF Thread
<1> QED
  BY <1>2, <1>3, <1>4, <1>6, TwoEnds DEF Good

\* What a myread() that does not stop at once at the end of file does.
LEMMA MyReadEffect ==
    ASSUME StreamInv, NEW e \in Ends, NEW len \in Nat \ {0}, MyRead(e, len), ~eof[e],
           NEW b, b = Portion(Head(appSendQ[e]), len)
    PROVE  /\ app[e] = "open" /\ appSendQ[e] # <<>> /\ appSendQ[e] \in Seq(Buffer)
           /\ b \in Buffer /\ Size(b) \in Nat
           /\ Size(b) = 0 => Size(Head(appSendQ[e])) = 0
           /\ appSendQ' = [appSendQ EXCEPT ![e] = Leftover(@, len)]
           /\ IF Size(b) = 0 THEN eof' = [eof EXCEPT ![e] = TRUE] /\ rcvd' = rcvd
              ELSE rcvd' = [rcvd EXCEPT ![e] = @ + Size(b)] /\ eof' = eof
           /\ UNCHANGED <<app, written, appRecvQ, inbound, up, reset, st, ev, fin>>
<1>1. appSendQ[e] # <<>> /\ appSendQ[e] \in Seq(Buffer)
  BY DEF MyRead, StreamInv, TypeInv, TypeOK
<1>2. Head(appSendQ[e]) \in Buffer
  BY <1>1
<1>3. b \in Buffer /\ Size(b) \in Nat /\ Size(Head(appSendQ[e])) \in Nat
  BY <1>2, PortionType, BufferFacts
<1>4. Size(b) = 0 => Size(Head(appSendQ[e])) = 0
  BY <1>2 DEF Portion, Size, Buffer
<1> QED
  BY <1>1, <1>3, <1>4 DEF MyRead, netVars

LEMMA GoodMyRead ==
    ASSUME StreamInv, NEW e \in Ends, NEW len \in Nat \ {0}, MyRead(e, len)
    PROVE  Good'
<1> DEFINE b == Portion(Head(appSendQ[e]), len)
<1>0. TypeOK /\ Opening /\ Direction(e) /\ Direction(Peer(e)) /\ Peer(e) \in Ends
      /\ Peer(e) # e /\ Peer(Peer(e)) = e
      /\ \A f \in Ends : Thread(f)
  BY PeerFacts DEF StreamInv, TypeInv, Good
<1>1. UNCHANGED <<app, written, appRecvQ, inbound, up, reset, st, ev, fin>>
  BY DEF MyRead, netVars
<1>2. Opening'
  BY <1>0, <1>1 DEF Opening, Early
<1>3. \A f \in Ends : Thread(f)'
  BY <1>0, <1>1 DEF Thread
<1>4. CASE eof[e]
  <2>1. UNCHANGED <<rcvd, eof, appSendQ>>
    BY <1>4 DEF MyRead
  <2>2. Direction(e)' /\ Direction(Peer(e))'
    BY <1>0, <1>1, <2>1, DirectionRests
  <2> QED
    BY <1>2, <1>3, <2>2, TwoEnds DEF Good
<1>5. CASE ~eof[e]
  <2>1. /\ app[e] = "open" /\ appSendQ[e] # <<>> /\ appSendQ[e] \in Seq(Buffer)
        /\ Size(b) \in Nat /\ (Size(b) = 0 => Size(Head(appSendQ[e])) = 0)
        /\ appSendQ' = [appSendQ EXCEPT ![e] = Leftover(@, len)]
        /\ IF Size(b) = 0 THEN eof' = [eof EXCEPT ![e] = TRUE] /\ rcvd' = rcvd
           ELSE rcvd' = [rcvd EXCEPT ![e] = @ + Size(b)] /\ eof' = eof
    BY <1>5, MyReadEffect
  <2>2. /\ rcvd'[e] = rcvd[e] + Size(b) /\ rcvd'[Peer(e)] = rcvd[Peer(e)]
        /\ Size(Head(appSendQ[e])) = 0 \/ eof'[e] = eof[e]
        /\ eof'[Peer(e)] = eof[Peer(e)]
        /\ appSendQ'[e] = Leftover(appSendQ[e], len)
        /\ appSendQ'[Peer(e)] = appSendQ[Peer(e)]
    <3>1. rcvd \in [Ends -> Nat] /\ eof \in [Ends -> BOOLEAN] /\ appSendQ \in [Ends -> Seq(Buffer)]
      BY <1>0 DEF TypeOK
    <3> HIDE DEF b
    <3> QED
      BY <1>0, <2>1, <3>1
  <2>3. Direction(e)'
    BY <1>0, <1>1, <2>1, <2>2, DirectionIsRead
  <2>4. Direction(Peer(e))'
    BY <1>0, <1>1, <2>2, DirectionRests
  <2> QED
    BY <1>2, <1>3, <2>3, <2>4, TwoEnds DEF Good
<1> QED
  BY <1>4, <1>5

LEMMA GoodMyClose ==
    ASSUME StreamInv, NEW e \in Ends, MyClose(e)
    PROVE  Good'
<1>0. TypeOK /\ Opening /\ Direction(e) /\ Direction(Peer(e)) /\ Peer(e) \in Ends
      /\ Peer(e) # e /\ Peer(Peer(e)) = e
      /\ \A f \in Ends : Thread(f)
  BY PeerFacts DEF StreamInv, TypeInv, Good
<1>1. /\ app[e] = "open" /\ app'[e] = "closing" /\ app'[Peer(e)] = app[Peer(e)]
      /\ UNCHANGED <<written, rcvd, eof, appRecvQ, appSendQ, inbound, up, reset, st, ev, fin>>
  BY <1>0 DEF MyClose, netVars, TypeOK
<1>2. Opening'
  BY <1>0, <1>1 DEF Opening, Early
<1>3. Direction(e)' /\ Direction(Peer(e))'
  BY <1>0, <1>1, DirectionRests
<1>4. Thread(e)' /\ Thread(Peer(e))'
  BY <1>0, <1>1 DEF Thread
<1> QED
  BY <1>2, <1>3, <1>4, TwoEnds DEF Good

LEMMA GoodMyCloseReturns ==
    ASSUME StreamInv, NEW e \in Ends, MyCloseReturns(e)
    PROVE  Good'
<1>0. TypeOK /\ Opening /\ Direction(e) /\ Direction(Peer(e)) /\ Peer(e) \in Ends
      /\ Peer(e) # e /\ Peer(Peer(e)) = e
      /\ \A f \in Ends : Thread(f)
  BY PeerFacts DEF StreamInv, TypeInv, Good
<1>1. /\ inbound'[e] = <<>> /\ ~up'[e] /\ inbound'[Peer(e)] = inbound[Peer(e)]
      /\ up'[Peer(e)] = up[Peer(e)]
  BY <1>0, DisconnectEffect DEF MyCloseReturns
<1>2. /\ st[e] = "exited" /\ app'[e] = "closed" /\ app'[Peer(e)] = app[Peer(e)]
      /\ appRecvQ'[e] = <<>> /\ appRecvQ'[Peer(e)] = appRecvQ[Peer(e)]
      /\ appSendQ'[Peer(e)] = appSendQ[Peer(e)]
      /\ UNCHANGED <<written, rcvd, eof, st, ev, fin>>
  BY <1>0 DEF MyCloseReturns, TypeOK, seqVars
<1>3. Opening'
  <2>1. ~Early
    BY <1>0, <1>2, NotEarly DEF Handshaking
  <2>2. st'[Passive] = "syn_rcvd" => inbound'[Passive] = inbound[Passive]
    BY <1>1, <1>2, TwoEnds DEF Ends
  <2> QED
    BY <1>0, <1>2, <2>1, <2>2, OpeningKept
<1>4. Direction(e)'
  BY <1>0, <1>1, <1>2, DirectionIsCut
<1>5. Direction(Peer(e))'
  BY <1>0, <1>1, <1>2, DirectionIsAbandoned
<1>6. Thread(e)' /\ Thread(Peer(e))'
  BY <1>0, <1>1, <1>2 DEF Thread
<1> QED
  BY <1>3, <1>4, <1>5, <1>6, TwoEnds DEF Good

LEMMA StreamInit == Init => StreamInv
<1> SUFFICES ASSUME Init PROVE StreamInv
  OBVIOUS
<1>1. TypeInv
  BY TypeInit
<1>2. /\ \A e \in Ends : /\ app[e] = "open" /\ written[e] = 0 /\ rcvd[e] = 0 /\ ~eof[e]
                         /\ appRecvQ[e] = <<>> /\ appSendQ[e] = <<>> /\ inbound[e] = <<>>
                         /\ up[e] /\ ~reset[e] /\ ev[e] = {} /\ fin[e] = 0
      /\ st[Active] = "init" /\ st[Passive] = "listen"
  BY DEF Init, Ends, Active, Passive
<1>3. Opening
  BY <1>2, PacketsEmpty DEF Opening, Early, Ends
<1>4. \A e \in Ends : Thread(e)
  BY <1>2 DEF Thread, Ends
<1>5. ASSUME NEW e \in Ends PROVE Direction(e)
  <2>1. Peer(e) \in Ends
    BY PeerFacts
  <2>2. ~Finishing(e)
    BY <1>2, PacketsEmpty DEF Finishing
  <2>3. Ending(e)
    BY <1>2, <2>2, PacketsEmpty DEF Ending
  <2>4. Flow(e, 0, 0)
    BY <1>2, <2>1, <2>2, ChainEmpty DEF Flow
  <2> QED
    BY <2>3, <2>4 DEF Direction
<1> QED
  BY <1>1, <1>3, <1>4, <1>5 DEF StreamInv, Good

LEMMA StreamNext == StreamInv /\ [Next]_vars => StreamInv'
<1> SUFFICES ASSUME StreamInv, [Next]_vars PROVE StreamInv'
  OBVIOUS
<1>1. TypeInv'
  BY TypeNext DEF StreamInv
<1>2. CASE UNCHANGED vars
  <2>1. UNCHANGED <<app, written, rcvd, eof, appRecvQ, appSendQ, inbound, up, reset, st, ev, fin>>
    BY <1>2 DEF vars
  <2>2. Opening'
    BY <2>1 DEF StreamInv, Good, Opening, Early
  <2>3. \A e \in Ends : Thread(e)'
    BY <2>1 DEF StreamInv, Good, Thread
  <2>4. \A e \in Ends : Direction(e)'
    BY <2>1, DirectionRests DEF StreamInv, TypeInv, Good
  <2> QED
    BY <1>1, <2>2, <2>3, <2>4 DEF StreamInv, Good
<1>3. ASSUME NEW e \in Ends, Handshake(e) PROVE Good'
  BY <1>3, GoodSendSyn, GoodRecvSyn, GoodRecvSynAck, GoodRecvHandshakeAck DEF Handshake
<1>4. ASSUME NEW e \in Ends, ControlLoop(e) PROVE Good'
  <2>1. CASE AssertDataSent(e)
    BY <2>1, EstablishedFacts, GoodAbort DEF AssertDataSent
  <2> QED
    BY <1>4, <2>1, GoodWaitForEvent, GoodHandleAppData, GoodHandleAck, GoodHandleFinAck,
       GoodHandleFin, GoodHandlePayload, GoodHandleClose, GoodThreadExit
    DEF ControlLoop
<1>5. ASSUME NEW e \in Ends, RecvThread(e) PROVE Good'
  BY <1>5, GoodRecvThread
<1>6. ASSUME NEW e \in Ends, Application(e) PROVE Good'
  <2>1. ASSUME NEW n \in 1 .. MaxBytes[e] - written[e], MyWrite(e, n) PROVE Good'
    <3>1. n \in Nat
      BY StcpAssumption DEF StreamInv, TypeInv, TypeOK
    <3> QED
      BY <2>1, <3>1, GoodMyWrite
  <2>2. ASSUME NEW len \in 1 .. MaxRead, MyRead(e, len) PROVE Good'
    <3>1. len \in Nat \ {0}
      BY StcpAssumption
    <3> QED
      BY <2>2, <3>1, GoodMyRead
  <2> QED
    BY <1>6, <2>1, <2>2, GoodMyClose, GoodMyCloseReturns DEF Application
<1> QED
  BY <1>1, <1>2, <1>3, <1>4, <1>5, <1>6 DEF Next, StreamInv

-----------------------------------------------------------------------------
(* Each step is a step of ByteStream or changes nothing of it.               *)

LEMMA StreamStarts == Init => Stream!Init
<1> SUFFICES ASSUME Init PROVE Stream!Init
  OBVIOUS
<1>1. \A e \in Ends : Positions(appSendQ[e]) = {}
  BY DEF Init, Positions
<1> QED
  BY <1>1 DEF Stream!Init, Init

LEMMA PositionsAppend ==
    ASSUME NEW T, NEW q \in Seq(T), NEW t \in T
    PROVE  Positions(Append(q, t)) = Positions(q) \cup t.lo .. t.hi - 1
<1> DEFINE r == Append(q, t)
           k == Len(q) + 1
<1>1. /\ DOMAIN r = DOMAIN q \cup {k} /\ \A i \in DOMAIN q : r[i] = q[i]
      /\ r[k] = t
  BY QueueAppend
<1> HIDE DEF r, k
<1>2. ASSUME NEW x PROVE x \in Positions(r) <=> x \in Positions(q) \/ x \in t.lo .. t.hi - 1
  BY <1>1, PositionsOf
<1> QED
  BY <1>2 DEF r

\* ByteStream has its own copy of FiniteSets.
LEMMA SameCardinality ==
    ASSUME NEW S
    PROVE  Stream!Cardinality(S) = Cardinality(S)
BY DEF Stream!Cardinality, Cardinality

\* What a chain of buffers tells about the bytes that can be read.
LEMMA ReadableFacts ==
    ASSUME TypeOK, NEW e \in Ends, NEW m \in Nat, NEW n \in Nat, Flow(e, m, n)
    PROVE  /\ Positions(appSendQ[e]) = rcvd[e] .. m - 1 /\ rcvd[e] <= m
           /\ Cardinality(Positions(appSendQ[e])) = m - rcvd[e]
           /\ Stream!CameUp(e) = m
           /\ m <= n /\ n <= written[Peer(e)]
<1>1. /\ Chain(appSendQ[e], rcvd[e], m) /\ rcvd[e] \in Nat
      /\ Positions(appSendQ[e]) = rcvd[e] .. m - 1 /\ rcvd[e] <= m
      /\ m <= n /\ n <= written[Peer(e)]
  BY DirectionTypes DEF Flow, Chain
<1>2. Cardinality(Positions(appSendQ[e])) = m - rcvd[e]
  BY <1>1, ChainCardinality
<1>3. Stream!CameUp(e) = rcvd[e] + Cardinality(Positions(appSendQ[e]))
  <2>1. [f \in Ends |-> Positions(appSendQ[f])][e] = Positions(appSendQ[e])
    OBVIOUS
  <2> QED
    BY <2>1, SameCardinality DEF Stream!CameUp
<1> QED
  BY <1>1, <1>2, <1>3

LEMMA StreamWrite ==
    ASSUME StreamInv, NEW e \in Ends, NEW n \in Nat \ {0}, MyWrite(e, n)
    PROVE  Stream!Next
<1>1. /\ written' = [written EXCEPT ![e] = @ + n] /\ written \in [Ends -> Nat]
      /\ app' = app /\ rcvd' = rcvd /\ eof' = eof /\ appSendQ' = appSendQ
      /\ app[e] = "open"
  BY DEF MyWrite, StreamInv, TypeInv, TypeOK
<1>2. ~eof[Peer(e)]
  BY <1>1, PeerFacts DEF StreamInv, Good, Direction, Ending
<1>3. Stream!Write(e)
  BY <1>1, <1>2 DEF Stream!Write
<1> QED
  BY <1>3 DEF Stream!Next

LEMMA StreamDeliver ==
    ASSUME StreamInv, NEW e \in Ends, HandlePayload(e)
    PROVE  Stream!Next \/ UNCHANGED Stream!vars
<1> DEFINE p == Head(inbound[e])
           b == [lo |-> p.lo, hi |-> p.hi]
<1>1. /\ TypeOK /\ Direction(e) /\ "NETWORK_DATA" \in ev[e] /\ HandlesPacket(e)
      /\ ready[e] > 0 /\ appSendQ \in [Ends -> Seq(Buffer)]
      /\ app' = app /\ written' = written /\ rcvd' = rcvd /\ eof' = eof
      /\ appSendQ' = [appSendQ EXCEPT ![e] = IF Size(p) > 0 THEN Append(@, b) ELSE @]
  BY DEF HandlePayload, HandlesPacket, StreamInv, TypeInv, TypeOK, Pending, Good, appVars
<1>2. up[e] /\ p \in Packet /\ b \in Buffer /\ inbound[e] # <<>> /\ inbound[e] \in Seq(Packet)
  BY <1>1, EstablishedFacts, PacketFacts DEF StreamInv, Buffer, TypeInv, TypeOK
<1>3. CASE Size(p) > 0
  <2>1. PICK m \in Nat, n \in Nat : Flow(e, m, n)
    BY <1>1, <1>2 DEF Direction
  <2>2. /\ Stream!CameUp(e) = m /\ n <= written[Peer(e)]
        /\ written[Peer(e)] \in Nat
    BY <1>1, <2>1, ReadableFacts, DirectionTypes
  <2>3. p.lo = m /\ p.hi <= n /\ p.hi \in Nat /\ m < p.hi
    <3>1. Chain(inbound[e], m, n)
      BY <2>1 DEF Flow
    <3>2. p.lo = m /\ p.hi <= n
      BY <1>2, <1>3, <3>1, ChainHead, BufferFacts
    <3> HIDE DEF p
    <3> QED
      BY <1>2, <1>3, <3>2 DEF Packet, Size
  <2>4. Positions(Append(appSendQ[e], b)) = Positions(appSendQ[e]) \cup m .. p.hi - 1
    <3>1. appSendQ[e] \in Seq(Buffer) /\ b.lo = m /\ b.hi = p.hi
      BY <1>1, <2>3
    <3> QED
      BY <1>2, <3>1, PositionsAppend
  <2>5. p.hi \in Stream!CameUp(e) + 1 .. written[Peer(e)]
    BY <2>2, <2>3
  <2>6. [f \in Ends |-> Positions(appSendQ[f])]'
           = [[f \in Ends |-> Positions(appSendQ[f])]
                EXCEPT ![e] = @ \cup Stream!CameUp(e) .. p.hi - 1]
    <3>1. appSendQ' = [appSendQ EXCEPT ![e] = Append(@, b)]
      BY <1>1, <1>3
    <3> HIDE DEF b, p
    <3> QED
      BY <1>1, <2>2, <2>4, <3>1
  <2>7. Stream!Deliver(e)
    BY <1>1, <2>5, <2>6 DEF Stream!Deliver
  <2> QED
    BY <2>7 DEF Stream!Next
<1>4. CASE ~(Size(p) > 0)
  <2>1. appSendQ' = appSendQ
    BY <1>1, <1>4
  <2> QED
    BY <1>1, <2>1 DEF Stream!vars
<1> QED
  BY <1>3, <1>4

LEMMA StreamRead ==
    ASSUME StreamInv, NEW e \in Ends, NEW len \in Nat \ {0}, MyRead(e, len)
    PROVE  Stream!Next \/ UNCHANGED Stream!vars
<1> DEFINE b == Portion(Head(appSendQ[e]), len)
           readable == [f \in Ends |-> Positions(appSendQ[f])]
<1>1. /\ TypeOK /\ Direction(e) /\ appSendQ \in [Ends -> Seq(Buffer)]
      /\ eof \in [Ends -> BOOLEAN] /\ rcvd \in [Ends -> Nat]
      /\ app' = app /\ written' = written /\ app[e] = "open" /\ up[e]
  BY DEF MyRead, StreamInv, TypeInv, TypeOK, Good, Thread
<1>2. CASE eof[e]
  BY <1>1, <1>2 DEF MyRead, Stream!vars
<1>3. CASE ~eof[e]
  <2>1. /\ appSendQ[e] # <<>> /\ appSendQ[e] \in Seq(Buffer)
        /\ Size(b) \in Nat /\ (Size(b) = 0 => Size(Head(appSendQ[e])) = 0)
        /\ appSendQ' = [appSendQ EXCEPT ![e] = Leftover(@, len)]
        /\ IF Size(b) = 0 THEN eof' = [eof EXCEPT ![e] = TRUE] /\ rcvd' = rcvd
           ELSE rcvd' = [rcvd EXCEPT ![e] = @ + Size(b)] /\ eof' = eof
    BY <1>3, MyReadEffect
  <2>2. PICK m \in Nat, n \in Nat : Flow(e, m, n)
    BY <1>1 DEF Direction
  <2>3. /\ Positions(appSendQ[e]) = rcvd[e] .. m - 1 /\ rcvd[e] <= m /\ rcvd[e] \in Nat
        /\ Cardinality(Positions(appSendQ[e])) = m - rcvd[e]
    BY <1>1, <2>2, ReadableFacts
  <2>4. Chain(Leftover(appSendQ[e], len), rcvd[e] + Size(b), m)
    <3>1. Chain(appSendQ[e], rcvd[e], m)
      BY <2>2 DEF Flow
    <3>2. len \in Int /\ b = Portion(Head(appSendQ[e]), len)
      OBVIOUS
    <3> HIDE DEF b
    <3> QED
      BY <2>1, <3>1, <3>2, ChainLeftover
  <2>5. /\ Positions(Leftover(appSendQ[e], len)) = rcvd[e] + Size(b) .. m - 1
        /\ rcvd[e] + Size(b) <= m
    BY <2>4 DEF Chain
  <2>6. readable' = [readable EXCEPT ![e] = rcvd[e] + Size(b) .. m - 1]
    <3> HIDE DEF b
    <3> QED
      BY <1>1, <2>1, <2>5
  <2>7. CASE Size(b) = 0
    <3>1. readable' = readable
      <4>1. readable[e] = rcvd[e] + Size(b) .. m - 1
        BY <2>3, <2>7
      <4>2. readable = [readable EXCEPT ![e] = readable[e]]
        OBVIOUS
      <4> HIDE DEF readable
      <4> QED
        BY <2>6, <4>1, <4>2
    <3>2. HasEnd(appSendQ[e]) /\ NoData(appSendQ[e])
      BY <1>1, <2>1, <2>7, EndsLeftover DEF Direction, Ending
    <3>3. NoData(inbound[e]) /\ Finishing(e)
      BY <1>1, <3>2 DEF Direction, Ending, Finishing
    <3>4. rcvd[e] = m
      <4>1. \A i \in DOMAIN appSendQ[e] : appSendQ[e][i].lo \in Nat /\ appSendQ[e][i].hi \in Nat
        BY <2>1 DEF Buffer
      <4> QED
        BY <2>2, <3>2, <4>1, ChainNothing DEF Flow, NoData
    <3>5. m = n
      <4>1. \A i \in DOMAIN inbound[e] : inbound[e][i].lo \in Nat /\ inbound[e][i].hi \in Nat
        <5>1. inbound[e] \in Seq(Packet)
          BY <1>1, DirectionTypes
        <5> QED
          BY <5>1 DEF Packet
      <4> QED
        BY <2>2, <3>3, <4>1, ChainNothing DEF Flow, NoData
    <3>6. rcvd[e] = written[Peer(e)]
      BY <2>2, <3>3, <3>4, <3>5 DEF Flow
    <3>7. {f \in Ends : eof'[f]} = {f \in Ends : eof[f]} \cup {e}
      BY <1>1, <2>1, <2>7
    <3>8. Stream!ReadEnd(e)
      BY <1>1, <2>1, <2>7, <3>1, <3>6, <3>7 DEF Stream!ReadEnd
    <3> QED
      BY <3>8 DEF Stream!Next
  <2>8. CASE Size(b) > 0
    <3>1. Size(b) \in 1 .. Cardinality(Positions(appSendQ[e]))
      BY <2>1, <2>3, <2>5, <2>8
    <3>2. readable' = [readable EXCEPT ![e] = @ \ (rcvd[e] .. rcvd[e] + Size(b) - 1)]
      <4>1. rcvd[e] + Size(b) .. m - 1
               = (rcvd[e] .. m - 1) \ (rcvd[e] .. rcvd[e] + Size(b) - 1)
        BY <2>1, <2>3, <2>5
      <4> QED
        BY <2>3, <2>6, <4>1
    <3>3. rcvd' = [rcvd EXCEPT ![e] = @ + Size(b)] /\ eof' = eof
      BY <2>1, <2>8
    <3> HIDE DEF b
    <3>4. Stream!Read(e)
      <4>1. readable[e] = Positions(appSendQ[e])
        OBVIOUS
      <4>2. \E k \in 1 .. Stream!Cardinality(readable[e]) :
               /\ rcvd' = [rcvd EXCEPT ![e] = @ + k]
               /\ readable' = [readable EXCEPT ![e] = @ \ (rcvd[e] .. rcvd[e] + k - 1)]
        <5> HIDE DEF readable
        <5> QED
          BY <3>1, <3>2, <3>3, <4>1, SameCardinality
      <4>3. e \in {f \in Ends : app[f] = "open"}
        BY <1>1
      <4> QED
        BY <1>1, <3>3, <4>2, <4>3, Zenon DEF Stream!Read
    <3> QED
      BY <3>4 DEF Stream!Next
  <2> QED
    BY <2>1, <2>7, <2>8
<1> QED
  BY <1>2, <1>3

LEMMA StreamClose ==
    ASSUME StreamInv, NEW e \in Ends,
           MyClose(e) \/ MyCloseReturns(e) \/ Abort(e)
    PROVE  Stream!Next
<1>1. /\ app \in [Ends -> {"open", "closing", "closed", "dead"}]
      /\ appSendQ \in [Ends -> Seq(Buffer)]
      /\ written' = written /\ rcvd' = rcvd /\ eof' = eof
  BY DEF MyClose, MyCloseReturns, Abort, StreamInv, TypeInv, TypeOK
<1>2. {f \in Ends : app'[f] = "open"} = {f \in Ends : app[f] = "open"} \ {e}
  <2>1. \E a \in {"closing", "closed", "dead"} : app' = [app EXCEPT ![e] = a]
    BY DEF MyClose, MyCloseReturns, Abort
  <2> QED
    BY <1>1, <2>1
<1>3. \/ appSendQ' = appSendQ
      \/ appSendQ' = [appSendQ EXCEPT ![e] = <<>>]
  BY DEF MyClose, MyCloseReturns, Abort
<1>4. Positions(<<>>) = {}
  BY DEF Positions
<1>5. [f \in Ends |-> Positions(appSendQ'[f])] \in
         {[f \in Ends |-> Positions(appSendQ[f])],
          [[f \in Ends |-> Positions(appSendQ[f])] EXCEPT ![e] = {}]}
  BY <1>1, <1>3, <1>4
<1>6. Stream!Close(e)
  BY <1>1, <1>2, <1>5 DEF Stream!Close
<1> QED
  BY <1>6 DEF Stream!Next

\* The steps of which the applications see nothing.
LEMMA StreamRests ==
    ASSUME StreamInv, UNCHANGED <<app, written, rcvd, eof>>,
           \/ appSendQ' = appSendQ
           \/ \E e \in Ends : appSendQ' = [appSendQ EXCEPT ![e] = Append(@, EofBuffer)]
    PROVE  UNCHANGED Stream!vars
<1>1. appSendQ \in [Ends -> Seq(Buffer)] /\ EofBuffer \in Buffer
  BY DEF StreamInv, TypeInv, TypeOK, EofBuffer, Buffer
<1>2. \A e \in Ends : Positions(Append(appSendQ[e], EofBuffer)) = Positions(appSendQ[e])
  <2> TAKE e \in Ends
  <2>1. Positions(Append(appSendQ[e], EofBuffer))
           = Positions(appSendQ[e]) \cup EofBuffer.lo .. EofBuffer.hi - 1
    BY <1>1, PositionsAppend
  <2>2. EofBuffer.lo .. EofBuffer.hi - 1 = {}
    BY DEF EofBuffer
  <2> QED
    BY <2>1, <2>2
<1>3. \A e \in Ends : Positions(appSendQ'[e]) = Positions(appSendQ[e])
  BY <1>1, <1>2
<1> QED
  BY <1>3 DEF Stream!vars

LEMMA StreamStep ==
    ASSUME StreamInv, [Next]_vars
    PROVE  Stream!Next \/ UNCHANGED Stream!vars
<1>1. CASE UNCHANGED vars
  BY <1>1, StreamRests DEF vars
<1>2. ASSUME NEW e \in Ends, Handshake(e) PROVE UNCHANGED Stream!vars
  BY <1>2, StreamRests
  DEF Handshake, SendSyn, RecvSyn, RecvSynAck, RecvHandshakeAck, appVars
<1>3. ASSUME NEW e \in Ends, ControlLoop(e) PROVE Stream!Next \/ UNCHANGED Stream!vars
  <2>1. CASE WaitForEvent(e) \/ HandleAppData(e) \/ HandleFinAck(e) \/ HandleClose(e)
    BY <2>1, StreamRests
    DEF WaitForEvent, HandleAppData, HandleFinAck, HandleClose, appVars
  <2>2. CASE HandleFin(e) \/ ThreadExit(e)
    BY <2>2, StreamRests DEF HandleFin, ThreadExit, appVars
  <2>3. CASE HandleAck(e)
    BY <2>3, StreamRests, StreamClose DEF HandleAck, appVars
  <2>4. CASE AssertDataSent(e)
    BY <2>4, StreamClose DEF AssertDataSent
  <2> QED
    BY <1>3, <2>1, <2>2, <2>3, <2>4, StreamDeliver DEF ControlLoop
<1>4. ASSUME NEW e \in Ends, RecvThread(e) PROVE Stream!Next \/ UNCHANGED Stream!vars
  BY <1>4, StreamRests, StreamClose
  DEF RecvThread, RecvPacket, RecvEof, AssertPoll, appVars
<1>5. ASSUME NEW e \in Ends, Application(e) PROVE Stream!Next \/ UNCHANGED Stream!vars
  <2>1. ASSUME NEW n \in 1 .. MaxBytes[e] - written[e], MyWrite(e, n) PROVE Stream!Next
    <3>1. n \in Nat \ {0}
      BY StcpAssumption DEF StreamInv, TypeInv, TypeOK
    <3> QED
      BY <2>1, <3>1, StreamWrite
  <2>2. ASSUME NEW len \in 1 .. MaxRead, MyRead(e, len)
        PROVE  Stream!Next \/ UNCHANGED Stream!vars
    <3>1. len \in Nat \ {0}
      BY StcpAssumption
    <3> QED
      BY <2>2, <3>1, StreamRead
  <2> QED
    BY <1>5, <2>1, <2>2, StreamClose DEF Application
<1> QED
  BY <1>1, <1>2, <1>3, <1>4, <1>5 DEF Next

\* A connection is a byte stream in each direction, for every window, payload
\* size, read size and amount of data, and whatever happens to the connection:
\* myread() returns what the peer wrote, in order, and the end of file only
\* behind its last byte.
THEOREM StcpImplementsByteStream == Spec => IsByteStream
<1>1. StreamInv /\ [Next]_vars => [Stream!Next]_(Stream!vars)
  BY StreamStep
<1>2. Spec => []StreamInv
  BY StreamInit, StreamNext, PTL DEF Spec
<1> QED
  BY <1>1, <1>2, StreamStarts, PTL DEF Spec, IsByteStream, Stream!Spec

-----------------------------------------------------------------------------
(***************************************************************************)
(* Part 3: sequence numbers.                                               *)
(***************************************************************************)
-----------------------------------------------------------------------------
(* The invariant.  As long as no sequence number wraps, position n of a      *)
(* stream has sequence number n + 1, and a FIN the one behind the last byte. *)

\* The 32 bits of a sequence number suffice for what the applications write,
\* the SYN and the FIN.
NoWrap == \A e \in Ends : MaxBytes[e] + 2 < SeqMod
Fits   == \A e \in Ends : written[e] + 2 < SeqMod

\* Bytes of its own stream that e has sent, and bytes of the other one that e
\* has taken from the network.
SentUpTo(e)  == IF nextSeq[e] = 0 THEN 0 ELSE Least(nextSeq[e] - 1, written[e])
TakenUpTo(e) == IF yAck[e] = 0 THEN 0 ELSE yAck[e] - 1

\* The close request of the application of e is consumed: the FIN was sent,
\* or dropped with the other events of an iteration that counted a FIN.
CloseHandled(e) ==
    /\ app[e] # "open" /\ ~closeReq[e]
    /\ "APP_CLOSE_REQUESTED" \notin ev[e]

Sending(e) ==
    /\ CloseHandled(e) => appRecvQ[e] = <<>>
    /\ up[e] => Chain(appRecvQ[e], SentUpTo(e), written[e])
    /\ \/ nextSeq[e] <= written[e] + 1
       \/ nextSeq[e] = written[e] + 2 /\ CloseHandled(e)
    /\ SentUpTo(e) + 1 <= ackSeq[e] + Window

Stage(e) ==
    /\ st[e] \in {"init", "listen"} => nextSeq[e] = 0 /\ yAck[e] = 0
    /\ st[e] = "syn_sent" => nextSeq[e] = 1 /\ yAck[e] = 0
    /\ st[e] = "syn_rcvd" => nextSeq[e] = 1 /\ yAck[e] = 1
    /\ st[e] \in Handshaking => written[e] = 0 /\ app[e] = "open"
    /\ st[e] = "established" => nextSeq[e] >= 1 /\ yAck[e] >= 1 /\ adWin[e] = Window

Own(e) == Sending(e) /\ Stage(e)

Broken(e) == /\ reset[e] => ~up[Peer(e)]
             /\ st[e] = "abort" => ~up[Peer(e)]

Counters(e) == ackSeq[e] <= yAck[Peer(e)] /\ yAck[Peer(e)] <= nextSeq[e]

\* A packet of an application that has written up to last.
Signed(p, last) ==
    /\ Size(p) > 0 => p.seq = p.lo + 1
    /\ Size(p) = 0 /\ p.flags \notin {"ACK", "FIN"} => p.seq = 0
    /\ p.flags # "DATA" => p.win = Window
    /\ p.flags = "FIN" => p.seq = last + 1

OnlyAck(p) == p = NoPacket \/ p.flags = "ACK"

AllSigned(q, last) == \A i \in DOMAIN q : Signed(q[i], last)
AllAcked(q, a)     == \A i \in DOMAIN q : q[i].ack <= a
AcksBehind(q)      == \A i, j \in DOMAIN q :
                         i < j /\ q[i].flags = "FIN" => OnlyAck(q[j])

\* The packets on their way to e.
Wire(e) ==
    /\ AllAcked(inbound[e], yAck[Peer(e)])
    /\ AllSigned(inbound[e], written[Peer(e)])
    /\ AcksBehind(inbound[e])
    /\ HasFin(inbound[e]) => CloseHandled(Peer(e))
    /\ up[e] => Chain(inbound[e], TakenUpTo(e), SentUpTo(Peer(e)))
    /\ up[e] \/ NoData(inbound[e])

Numbered == \A e \in Ends : Own(e) /\ Broken(e) /\ Counters(e) /\ Wire(e)

SequenceInv == StreamInv /\ Numbered

-----------------------------------------------------------------------------
(* Arithmetic.                                                               *)

LEMMA SeqModFacts ==
    /\ SeqMod \in Nat /\ SeqMod > 4 /\ 2 * (Window + 2) <= SeqMod
    /\ Window \in Nat /\ Window > 0
    /\ SeqNum = 0 .. SeqMod - 1
BY StcpAssumption DEF SeqNum

LEMMA PlusExact ==
    ASSUME NEW a \in Nat, NEW b \in Nat, a + b < SeqMod
    PROVE  Plus(a, b) = a + b
<1>1. SeqMod \in Nat /\ a + b \in Nat
  BY SeqModFacts
<1> QED
  BY <1>1 DEF Plus

LEMMA DistanceExact ==
    ASSUME NEW a \in Nat, NEW b \in Nat, b <= a, a <= b + Window + 1
    PROVE  Distance(a, b) = a - b
<1>1. SeqMod \in Nat /\ Window \in Nat /\ 2 * (Window + 2) <= SeqMod
  BY SeqModFacts
<1>2. a - b \in Nat /\ 2 * (a - b) < SeqMod /\ a - b < SeqMod
  BY <1>1
<1>3. (a - b) % SeqMod = a - b
  BY <1>1, <1>2
<1> QED
  BY <1>1, <1>2, <1>3 DEF Distance

LEMMA NumberTypes ==
    ASSUME TypeOK, NEW e \in Ends
    PROVE  /\ nextSeq[e] \in Nat /\ ackSeq[e] \in Nat /\ yAck[e] \in Nat
           /\ nextSeq[e] < SeqMod
           /\ written[e] \in Nat /\ SentUpTo(e) \in Nat /\ TakenUpTo(e) \in Nat
           /\ SentUpTo(e) <= written[e]
           /\ inbound[e] \in Seq(Packet) /\ appRecvQ[e] \in Seq(Buffer)
           /\ Peer(e) \in Ends /\ Peer(e) # e /\ Peer(Peer(e)) = e
<1>1. /\ nextSeq[e] \in SeqNum /\ ackSeq[e] \in SeqNum /\ yAck[e] \in SeqNum
      /\ written[e] \in Nat
      /\ inbound[e] \in Seq(Packet) /\ appRecvQ[e] \in Seq(Buffer)
  BY DEF TypeOK
<1>2. Peer(e) \in Ends /\ Peer(e) # e /\ Peer(Peer(e)) = e
  BY PeerFacts
<1> QED
  BY <1>1, <1>2, SeqModFacts DEF SentUpTo, TakenUpTo, Least

LEMMA PacketTypes ==
    ASSUME NEW p \in Packet
    PROVE  /\ p.seq \in Nat /\ p.ack \in Nat /\ p.lo \in Nat /\ p.hi \in Nat
           /\ p.lo <= p.hi /\ Size(p) \in Nat /\ p.flags \in Flags
           /\ Size(p) = p.hi - p.lo
<1>1. p.seq \in SeqNum /\ p.ack \in SeqNum
  BY DEF Packet
<1> QED
  BY <1>1, SeqModFacts DEF Packet, Size

-----------------------------------------------------------------------------
(* Queues of signed packets.                                                 *)

LEMMA SignedAppend ==
    ASSUME NEW q \in Seq(Packet), NEW t \in Packet, NEW a, NEW last,
           AllAcked(q, a), t.ack <= a,
           AllSigned(q, last), Signed(t, last),
           AcksBehind(q), HasFin(q) => OnlyAck(t)
    PROVE  /\ AllAcked(Append(q, t), a) /\ AllSigned(Append(q, t), last)
           /\ AcksBehind(Append(q, t))
           /\ HasFin(Append(q, t)) => HasFin(q) \/ t.flags = "FIN"
<1> DEFINE r == Append(q, t)
           k == Len(q) + 1
<1>1. /\ DOMAIN r = DOMAIN q \cup {k} /\ \A i \in DOMAIN q : i < k /\ r[i] = q[i]
      /\ r[k] = t /\ k \in Nat /\ DOMAIN q \subseteq Nat
  BY QueueAppend
<1> HIDE DEF r, k
<1>2. AllAcked(r, a) /\ AllSigned(r, last)
  BY <1>1 DEF AllAcked, AllSigned
<1>3. HasFin(r) => HasFin(q) \/ t.flags = "FIN"
  BY <1>1 DEF HasFin
<1>4. AcksBehind(r)
  <2> SUFFICES ASSUME NEW i \in DOMAIN r, NEW j \in DOMAIN r, i < j, r[i].flags = "FIN"
               PROVE  OnlyAck(r[j])
    BY DEF AcksBehind
  <2>1. i \in DOMAIN q /\ r[i] = q[i]
    BY <1>1
  <2>2. CASE j \in DOMAIN q
    BY <1>1, <2>1, <2>2 DEF AcksBehind
  <2>3. CASE j = k
    BY <1>1, <2>1, <2>3 DEF HasFin
  <2> QED
    BY <1>1, <2>2, <2>3
<1> QED
  BY <1>2, <1>3, <1>4 DEF r

LEMMA SignedTail ==
    ASSUME NEW q \in Seq(Packet), q # <<>>, NEW a, NEW last,
           AllAcked(q, a), AllSigned(q, last), AcksBehind(q)
    PROVE  /\ AllAcked(Tail(q), a) /\ AllSigned(Tail(q), last)
           /\ AcksBehind(Tail(q)) /\ (HasFin(Tail(q)) => HasFin(q))
           /\ Head(q) \in Packet /\ Head(q).ack <= a /\ Signed(Head(q), last)
           /\ Head(q).flags = "FIN" => HasFin(q)
<1> DEFINE r == Tail(q)
<1>1. /\ \A i \in DOMAIN r : i + 1 \in DOMAIN q /\ r[i] = q[i + 1]
      /\ Head(q) = q[1] /\ 1 \in DOMAIN q /\ DOMAIN r \subseteq Nat \ {0}
  BY QueueTail
<1>2. Head(q) \in Packet
  OBVIOUS
<1> HIDE DEF r
<1>3. AllAcked(r, a) /\ AllSigned(r, last) /\ (HasFin(r) => HasFin(q))
  BY <1>1 DEF AllAcked, AllSigned, HasFin
<1>4. Head(q).ack <= a /\ Signed(Head(q), last) /\ (Head(q).flags = "FIN" => HasFin(q))
  BY <1>1 DEF AllAcked, AllSigned, HasFin
<1>5. AcksBehind(r)
  <2> SUFFICES ASSUME NEW i \in DOMAIN r, NEW j \in DOMAIN r, i < j, r[i].flags = "FIN"
               PROVE  OnlyAck(r[j])
    BY DEF AcksBehind
  <2>1. /\ i + 1 \in DOMAIN q /\ j + 1 \in DOMAIN q /\ i + 1 < j + 1
        /\ r[i] = q[i + 1] /\ r[j] = q[j + 1]
    BY <1>1
  <2> QED
    BY <2>1 DEF AcksBehind
<1> QED
  BY <1>2, <1>3, <1>4, <1>5 DEF r

LEMMA SignedEmpty ==
    ASSUME NEW a, NEW last
    PROVE  AllAcked(<<>>, a) /\ AllSigned(<<>>, last) /\ AcksBehind(<<>>) /\ ~HasFin(<<>>)
BY DEF AllAcked, AllSigned, AcksBehind, HasFin

\* More is acknowledged, and more may be written while there is no FIN.
LEMMA SignedLater ==
    ASSUME NEW q \in Seq(Packet), NEW a \in Nat, NEW b \in Nat, a <= b,
           NEW last, NEW next, last = next \/ ~HasFin(q),
           AllAcked(q, a), AllSigned(q, last)
    PROVE  AllAcked(q, b) /\ AllSigned(q, next)
<1>1. \A i \in DOMAIN q : q[i].ack \in Nat
  BY PacketTypes
<1>2. AllAcked(q, b)
  BY <1>1 DEF AllAcked
<1>3. AllSigned(q, next)
  BY DEF AllSigned, Signed, HasFin
<1> QED
  BY <1>2, <1>3

-----------------------------------------------------------------------------
(* One direction.                                                            *)

\* No packet comes or goes.
LEMMA WireRests ==
    ASSUME TypeOK, TypeOK', NEW e \in Ends, Wire(e),
           inbound'[e] = inbound[e], yAck'[e] = yAck[e], up'[e] = up[e],
           yAck[Peer(e)] <= yAck'[Peer(e)],
           written'[Peer(e)] = written[Peer(e)] \/ ~CloseHandled(Peer(e)),
           CloseHandled(Peer(e)) => CloseHandled(Peer(e))',
           SentUpTo(Peer(e))' = SentUpTo(Peer(e)) \/ ~up[e]
    PROVE  Wire(e)'
<1>1. Peer(e) \in Ends /\ inbound[e] \in Seq(Packet)
  BY NumberTypes
<1>2. yAck[Peer(e)] \in Nat /\ yAck'[Peer(e)] \in Nat
  BY <1>1, SeqModFacts DEF TypeOK
<1>3. /\ AllAcked(inbound[e], yAck'[Peer(e)])
      /\ AllSigned(inbound[e], written'[Peer(e)])
  BY <1>1, <1>2, SignedLater DEF Wire
<1>4. TakenUpTo(e)' = TakenUpTo(e)
  BY DEF TakenUpTo
<1> QED
  BY <1>3, <1>4 DEF Wire

\* A packet comes.
LEMMA WireGets ==
    ASSUME TypeOK, TypeOK', NEW e \in Ends, Wire(e), NEW t \in Packet,
           inbound'[e] = Append(inbound[e], t), yAck'[e] = yAck[e], up'[e] = up[e],
           yAck[Peer(e)] <= yAck'[Peer(e)], t.ack <= yAck'[Peer(e)],
           written'[Peer(e)] = written[Peer(e)], Signed(t, written[Peer(e)]),
           CloseHandled(Peer(e)) => CloseHandled(Peer(e))' /\ OnlyAck(t),
           t.flags = "FIN" => CloseHandled(Peer(e))',
           \/ Size(t) = 0 /\ SentUpTo(Peer(e))' = SentUpTo(Peer(e))
           \/ /\ Size(t) > 0 /\ t.lo = SentUpTo(Peer(e))
              /\ t.hi = SentUpTo(Peer(e))' /\ up[e]
    PROVE  Wire(e)'
<1>1. Peer(e) \in Ends /\ inbound[e] \in Seq(Packet)
  BY NumberTypes
<1>2. yAck[Peer(e)] \in Nat /\ yAck'[Peer(e)] \in Nat
  BY <1>1, SeqModFacts DEF TypeOK
<1>3. AllAcked(inbound[e], yAck'[Peer(e)]) /\ AllSigned(inbound[e], written[Peer(e)])
  BY <1>1, <1>2, SignedLater DEF Wire
<1>4. /\ AllAcked(inbound'[e], yAck'[Peer(e)])
      /\ AllSigned(inbound'[e], written'[Peer(e)])
      /\ AcksBehind(inbound'[e])
      /\ HasFin(inbound'[e]) => HasFin(inbound[e]) \/ t.flags = "FIN"
  BY <1>1, <1>3, SignedAppend DEF Wire
<1>5. TakenUpTo(e)' = TakenUpTo(e)
  BY DEF TakenUpTo
<1>6. ASSUME up[e] PROVE Chain(inbound'[e], TakenUpTo(e), SentUpTo(Peer(e))')
  <2> DEFINE b == SentUpTo(Peer(e))
  <2>1. Chain(inbound[e], TakenUpTo(e), b)
    BY <1>6 DEF Wire
  <2>2. Size(t) = 0 \/ t.lo = b
    OBVIOUS
  <2>3. Chain(Append(inbound[e], t), TakenUpTo(e), IF Size(t) = 0 THEN b ELSE t.hi)
    BY <1>1, <2>1, <2>2, BufferFacts, ChainAppend
  <2>4. (IF Size(t) = 0 THEN b ELSE t.hi) = b'
    OBVIOUS
  <2> QED
    BY <2>3, <2>4
<1>7. up'[e] \/ NoData(inbound'[e])
  <2>1. CASE ~up[e]
    <3>1. /\ DOMAIN inbound'[e] = DOMAIN inbound[e] \cup {Len(inbound[e]) + 1}
          /\ \A i \in DOMAIN inbound[e] : inbound'[e][i] = inbound[e][i]
          /\ inbound'[e][Len(inbound[e]) + 1] = t
      BY <1>1, QueueAppend
    <3> QED
      BY <2>1, <3>1 DEF Wire, NoData
  <2> QED
    BY <2>1
<1> QED
  BY <1>4, <1>5, <1>6, <1>7 DEF Wire

\* The packet at the head is taken.
LEMMA WireTaken ==
    ASSUME TypeOK, NEW e \in Ends, Wire(e), inbound[e] # <<>>,
           inbound'[e] = Tail(inbound[e]), up'[e] = up[e],
           yAck'[Peer(e)] = yAck[Peer(e)], written'[Peer(e)] = written[Peer(e)],
           CloseHandled(Peer(e)) => CloseHandled(Peer(e))',
           SentUpTo(Peer(e))' = SentUpTo(Peer(e)),
           TakenUpTo(e)' = IF Size(Head(inbound[e])) = 0 THEN TakenUpTo(e)
                           ELSE Head(inbound[e]).hi
    PROVE  Wire(e)'
<1>1. inbound[e] \in Seq(Packet)
  BY NumberTypes
<1>2. /\ AllAcked(inbound'[e], yAck[Peer(e)])
      /\ AllSigned(inbound'[e], written[Peer(e)])
      /\ AcksBehind(inbound'[e])
      /\ HasFin(inbound'[e]) => HasFin(inbound[e])
  BY <1>1, SignedTail DEF Wire
<1>3. up[e] => Chain(inbound'[e], TakenUpTo(e)', SentUpTo(Peer(e)))
  BY <1>1, BufferFacts, ChainTail DEF Wire
<1>4. up'[e] \/ NoData(inbound'[e])
  <2>1. \A i \in DOMAIN Tail(inbound[e]) :
           i + 1 \in DOMAIN inbound[e] /\ Tail(inbound[e])[i] = inbound[e][i + 1]
    BY <1>1, QueueTail
  <2> QED
    BY <2>1 DEF Wire, NoData
<1> QED
  BY <1>2, <1>3, <1>4 DEF Wire

LEMMA WireCut ==
    ASSUME NEW e, inbound'[e] = <<>>, ~up'[e]
    PROVE  Wire(e)'
BY SignedEmpty, PacketsEmpty DEF Wire

\* What the head of the queue says of the packet.
LEMMA WireHead ==
    ASSUME TypeOK, NEW e \in Ends, Wire(e), inbound[e] # <<>>
    PROVE  /\ Head(inbound[e]) \in Packet
           /\ Head(inbound[e]).ack <= yAck[Peer(e)]
           /\ Signed(Head(inbound[e]), written[Peer(e)])
           /\ Head(inbound[e]).flags = "FIN" => CloseHandled(Peer(e))
           /\ up[e] /\ Size(Head(inbound[e])) > 0 =>
                 /\ Head(inbound[e]).lo = TakenUpTo(e)
                 /\ Head(inbound[e]).hi <= SentUpTo(Peer(e))
<1>1. inbound[e] \in Seq(Packet)
  BY NumberTypes
<1>2. /\ Head(inbound[e]) \in Packet
      /\ Head(inbound[e]).ack <= yAck[Peer(e)]
      /\ Signed(Head(inbound[e]), written[Peer(e)])
      /\ Head(inbound[e]).flags = "FIN" => CloseHandled(Peer(e))
  BY <1>1, SignedTail DEF Wire
<1>3. ASSUME up[e], Size(Head(inbound[e])) > 0
      PROVE  /\ Head(inbound[e]).lo = TakenUpTo(e)
             /\ Head(inbound[e]).hi <= SentUpTo(Peer(e))
  <2>1. Chain(inbound[e], TakenUpTo(e), SentUpTo(Peer(e)))
    BY <1>3 DEF Wire
  <2> QED
    BY <1>1, <1>3, <2>1, BufferFacts, ChainHead
<1> QED
  BY <1>2, <1>3

\* The state of an end that a step leaves alone.
LEMMA OwnRests ==
    ASSUME NEW e, Own(e),
           UNCHANGED <<app[e], closeReq[e], ev[e], appRecvQ[e], written[e], up[e]>>,
           UNCHANGED <<nextSeq[e], ackSeq[e], st[e], yAck[e], adWin[e]>>
    PROVE  Own(e)'
BY DEF Own, Sending, Stage, CloseHandled, SentUpTo

Untouched(f) ==
    /\ UNCHANGED <<app[f], closeReq[f], ev[f], appRecvQ[f], written[f], up[f]>>
    /\ UNCHANGED <<nextSeq[f], ackSeq[f], st[f], yAck[f], adWin[f]>>

LEMMA UntouchedFacts ==
    ASSUME NEW f, Untouched(f)
    PROVE  /\ CloseHandled(f)' = CloseHandled(f)
           /\ SentUpTo(f)' = SentUpTo(f) /\ TakenUpTo(f)' = TakenUpTo(f)
           /\ Own(f) => Own(f)'
<1>1. Own(f) => Own(f)'
  BY OwnRests DEF Untouched
<1> QED
  BY <1>1 DEF Untouched, CloseHandled, SentUpTo, TakenUpTo

LEMMA BrokenRests ==
    ASSUME NEW e \in Ends, Broken(e), ~up[Peer(e)] => ~up'[Peer(e)],
           reset'[e] = reset[e] \/ ~up'[Peer(e)],
           st'[e] = st[e] \/ st'[e] # "abort"
    PROVE  Broken(e)'
BY DEF Broken

\* What a step of the transport thread of e does to the resets.
LEMMA ResetEffect ==
    ASSUME TypeOK, NEW e \in Ends,
           \/ Take(e)
           \/ \E t \in Packet : Send(e, t) \/ TakeAndSend(e, t)
    PROVE  /\ up' = up /\ reset'[Peer(e)] = reset[Peer(e)]
           /\ reset'[e] = reset[e] \/ ~up[Peer(e)]
BY PeerFacts DEF Take, Send, TakeAndSend, AnswerTo, TypeOK

LEMMA SequenceFacts ==
    ASSUME SequenceInv, NEW e \in Ends
    PROVE  /\ TypeOK /\ StreamInv /\ Opening
           /\ Peer(e) \in Ends /\ Peer(e) # e /\ Peer(Peer(e)) = e
           /\ Own(e) /\ Broken(e) /\ Counters(e) /\ Wire(e)
           /\ Own(Peer(e)) /\ Broken(Peer(e)) /\ Counters(Peer(e)) /\ Wire(Peer(e))
           /\ Thread(e) /\ Pending(e) /\ FinBound(e) /\ DataOnly(inbound[e])
<1>1. Peer(e) \in Ends /\ Peer(e) # e /\ Peer(Peer(e)) = e
  BY PeerFacts
<1>2. TypeOK /\ StreamInv /\ Good /\ Numbered /\ Pending(e) /\ FinBound(e)
  BY DEF SequenceInv, StreamInv, TypeInv
<1>3. Thread(e) /\ Opening /\ DataOnly(inbound[e])
  BY <1>2 DEF Good, Direction, Ending
<1> QED
  BY <1>1, <1>2, <1>3 DEF Numbered

LEMMA NumberedFrom ==
    ASSUME NEW e \in Ends,
           Own(e)', Own(Peer(e))', Broken(e)', Broken(Peer(e))',
           Counters(e)', Counters(Peer(e))', Wire(e)', Wire(Peer(e))'
    PROVE  Numbered'
BY TwoEnds DEF Numbered

\* Neither the network nor a sequence number is concerned.
LEMMA NumberedLocally ==
    ASSUME SequenceInv, TypeOK', NEW e \in Ends,
           UNCHANGED <<inbound, up, reset, yAck, ackSeq>>,
           Untouched(Peer(e)), Own(e)', nextSeq'[e] = nextSeq[e],
           st'[e] = st[e] \/ st'[e] # "abort",
           CloseHandled(e) => CloseHandled(e)',
           written'[e] = written[e] \/ ~CloseHandled(e),
           SentUpTo(e)' = SentUpTo(e)
    PROVE  Numbered'
<1> DEFINE f == Peer(e)
<1>0. /\ TypeOK /\ f \in Ends /\ f # e /\ Peer(f) = e /\ Own(f)
      /\ Broken(e) /\ Counters(e) /\ Wire(e) /\ Broken(f) /\ Counters(f) /\ Wire(f)
  BY SequenceFacts
<1>1. /\ CloseHandled(f)' = CloseHandled(f) /\ SentUpTo(f)' = SentUpTo(f)
      /\ Own(f)' /\ nextSeq'[f] = nextSeq[f] /\ written'[f] = written[f]
      /\ st'[f] = st[f]
  BY <1>0, UntouchedFacts DEF Untouched
<1>2. yAck[e] \in Nat /\ yAck[f] \in Nat /\ yAck'[e] = yAck[e] /\ yAck'[f] = yAck[f]
  BY <1>0, NumberTypes
<1> HIDE DEF f
<1>3. Broken(e)' /\ Broken(f)'
  BY <1>0, <1>1, BrokenRests DEF f
<1>4. Counters(e)' /\ Counters(f)'
  BY <1>0, <1>1, <1>2 DEF Counters, f
<1>5. Wire(e)'
  <2>1. yAck[Peer(e)] <= yAck'[Peer(e)]
    BY <1>2 DEF f
  <2> QED
    BY <1>0, <1>1, <1>2, <2>1, WireRests DEF f
<1>6. Wire(f)'
  <2>1. yAck[Peer(f)] <= yAck'[Peer(f)]
    BY <1>0, <1>2
  <2>2. inbound'[f] = inbound[f] /\ up'[f] = up[f]
    OBVIOUS
  <2> QED
    BY <1>0, <1>2, <2>1, <2>2, WireRests
<1> QED
  BY <1>1, <1>3, <1>4, <1>5, <1>6, NumberedFrom DEF f

-----------------------------------------------------------------------------
(* The handshake.                                                            *)

LEMMA HeaderFields ==
    ASSUME NEW flags, NEW seq, NEW ack
    PROVE  /\ Size(Header(flags, seq, ack)) = 0
           /\ Header(flags, seq, ack).flags = flags /\ Header(flags, seq, ack).seq = seq
           /\ Header(flags, seq, ack).ack = ack /\ Header(flags, seq, ack).win = Window
BY DEF Header, Size

\* The end f of a direction whose sender e sends a packet without data.
LEMMA WireAfterHeader ==
    ASSUME TypeOK, TypeOK', NEW e \in Ends, Wire(Peer(e)),
           NEW t \in Packet, Size(t) = 0,
           inbound'[Peer(e)] = IF up[Peer(e)] THEN Append(inbound[Peer(e)], t)
                               ELSE inbound[Peer(e)],
           up' = up, yAck'[Peer(e)] = yAck[Peer(e)],
           yAck[e] <= yAck'[e], t.ack <= yAck'[e],
           written'[e] = written[e], Signed(t, written[e]),
           CloseHandled(e) => CloseHandled(e)' /\ OnlyAck(t),
           t.flags = "FIN" => CloseHandled(e)',
           SentUpTo(e)' = SentUpTo(e)
    PROVE  Wire(Peer(e))'
<1> DEFINE f == Peer(e)
<1>1. f \in Ends /\ Peer(f) = e
  BY PeerFacts
<1>2. /\ Wire(f) /\ yAck'[f] = yAck[f] /\ up'[f] = up[f]
      /\ inbound'[f] = IF up[f] THEN Append(inbound[f], t) ELSE inbound[f]
  OBVIOUS
<1> SUFFICES Wire(f)'
  OBVIOUS
<1> HIDE DEF f
<1>3. CASE up[f]
  BY <1>1, <1>2, <1>3, WireGets
<1>4. CASE ~up[f]
  BY <1>1, <1>2, <1>4, WireRests
<1> QED
  BY <1>3, <1>4

LEMMA NumberedSendSyn ==
    ASSUME SequenceInv, TypeOK', NEW e \in Ends, SendSyn(e)
    PROVE  Numbered'
<1> DEFINE f == Peer(e)
           t == Header("SYN", nextSeq[e], 0)
<1>0. /\ TypeOK /\ Opening /\ f \in Ends /\ f # e /\ Peer(f) = e
      /\ Own(e) /\ Broken(e) /\ Counters(e) /\ Wire(e)
      /\ Own(f) /\ Broken(f) /\ Counters(f) /\ Wire(f)
  BY SequenceFacts
<1>1. /\ st[e] = "init" /\ nextSeq[e] = 0 /\ yAck[e] = 0 /\ written[e] = 0
      /\ app[e] = "open"
  BY <1>0 DEF SendSyn, Own, Stage, Handshaking
<1>2. /\ t \in Packet /\ Size(t) = 0 /\ t.flags = "SYN" /\ t.seq = 0 /\ t.ack = 0
      /\ t.win = Window
  BY <1>0, <1>1, HeaderFields, HeaderType, SeqNumFacts DEF TypeOK, Flags
<1>3. Send(e, t)
  BY DEF SendSyn
<1> HIDE DEF t
<1>4. /\ inbound'[e] = inbound[e] /\ up' = up
      /\ inbound'[f] = IF up[f] THEN Append(inbound[f], t) ELSE inbound[f]
  BY <1>0, <1>2, <1>3, SendEffect
<1>5. nextSeq'[e] = 1
  <2>1. Plus(0, 1) = 1
    BY PlusExact, SeqModFacts
  <2> QED
    BY <1>0, <1>1, <2>1 DEF SendSyn, TypeOK
<1>6. /\ UNCHANGED <<app, written, appRecvQ, closeReq, ev, ackSeq, adWin, yAck>>
      /\ st'[e] = "syn_sent" /\ st'[f] = st[f] /\ nextSeq'[f] = nextSeq[f]
  BY <1>0 DEF SendSyn, appVars, TypeOK
<1>7. Untouched(f)
  BY <1>4, <1>6 DEF Untouched
<1>8. ~CloseHandled(e) /\ SentUpTo(e) = 0 /\ SentUpTo(e)' = 0
  BY <1>1, <1>5, <1>6 DEF CloseHandled, SentUpTo, Least
<1>9. Own(e)'
  <2>1. Stage(e)'
    BY <1>0, <1>1, <1>5, <1>6 DEF Stage, Handshaking
  <2>2. Sending(e)'
    <3>1. ~CloseHandled(e)'
      BY <1>1, <1>6 DEF CloseHandled
    <3> QED
      BY <1>0, <1>1, <1>4, <1>5, <1>6, <1>8, <3>1 DEF Own, Sending
  <2> QED
    BY <2>1, <2>2 DEF Own
<1>10. Broken(e)' /\ Broken(f)'
  BY <1>0, <1>2, <1>3, <1>6, ResetEffect, BrokenRests
<1>11. Counters(e)' /\ Counters(f)'
  <2>1. yAck[f] \in Nat /\ ackSeq[e] \in Nat /\ yAck[f] = 0
    BY <1>0, <1>1, NumberTypes DEF Counters
  <2> QED
    BY <1>0, <1>1, <1>5, <1>6, <2>1 DEF Counters
<1>12. yAck[e] \in Nat /\ yAck[f] \in Nat
  BY <1>0, NumberTypes
<1>13. Wire(e)'
  BY <1>0, <1>4, <1>6, <1>7, <1>12, UntouchedFacts, WireRests
<1>14. Wire(f)'
  BY <1>0, <1>2, <1>4, <1>6, <1>8, <1>12, WireAfterHeader DEF Signed
<1> QED
  BY <1>0, <1>7, <1>9, <1>10, <1>11, <1>13, <1>14, UntouchedFacts, NumberedFrom

LEMMA NumberedRecvSyn ==
    ASSUME SequenceInv, TypeOK', NEW e \in Ends, RecvSyn(e)
    PROVE  Numbered'
<1> DEFINE f == Peer(e)
           p == Head(inbound[e])
           t == Header("SYN_ACK", nextSeq[e], Plus(p.seq, 1))
<1>0. /\ TypeOK /\ Opening /\ f \in Ends /\ f # e /\ Peer(f) = e
      /\ Own(e) /\ Broken(e) /\ Counters(e) /\ Wire(e)
      /\ Own(f) /\ Broken(f) /\ Counters(f) /\ Wire(f) /\ DataOnly(inbound[e])
  BY SequenceFacts
<1>1. /\ st[e] = "listen" /\ nextSeq[e] = 0 /\ yAck[e] = 0 /\ written[e] = 0
      /\ app[e] = "open" /\ ready[e] > 0 /\ inbound[e] # <<>> /\ inbound[e] \in Seq(Packet)
  BY <1>0 DEF RecvSyn, Own, Stage, Handshaking, TypeOK
<1>2. /\ e = Passive /\ f = Active /\ st[f] = "syn_sent" /\ nextSeq[f] = 1 /\ yAck[f] = 0
  BY <1>0, <1>1 DEF Opening, Early, Ends, Peer, Active, Passive, Own, Stage
<1>3. p \in Packet /\ p.flags = "SYN" /\ Size(p) = 0 /\ p.seq = 0
  <2>1. PICK syn \in Packet : syn.flags = "SYN" /\ inbound[e] = <<syn>>
    BY <1>0, <1>1, <1>2 DEF Opening, Early
  <2>2. p = syn /\ p \in Packet
    BY <2>1
  <2>3. Size(p) = 0
    BY <1>1, <2>1, <2>2 DEF DataOnly, SequenceInv, StreamInv, Good, Direction, Ending
  <2>4. Signed(p, written[f])
    BY <1>0, <1>1, WireHead
  <2> QED
    BY <2>1, <2>2, <2>3, <2>4 DEF Signed
<1>4. Plus(0, 1) = 1
  BY PlusExact, SeqModFacts
<1>5. /\ t \in Packet /\ Size(t) = 0 /\ t.flags = "SYN_ACK" /\ t.seq = 0 /\ t.ack = 1
      /\ t.win = Window
  BY <1>0, <1>1, <1>3, <1>4, HeaderFields, HeaderType, SeqNumFacts DEF Flags
<1>6. TakeAndSend(e, t)
  BY <1>3 DEF RecvSyn
<1> HIDE DEF t
<1>7. /\ inbound'[e] = Tail(inbound[e]) /\ up' = up
      /\ inbound'[f] = IF up[f] THEN Append(inbound[f], t) ELSE inbound[f]
  BY <1>0, <1>1, <1>5, <1>6, TakeAndSendEffect
<1>8. /\ UNCHANGED <<app, written, appRecvQ, closeReq, ev, ackSeq, adWin>>
      /\ st'[e] = "syn_rcvd" /\ st'[f] = st[f] /\ nextSeq'[f] = nextSeq[f]
      /\ yAck'[f] = yAck[f] /\ nextSeq'[e] = 1 /\ yAck'[e] = 1
  BY <1>0, <1>1, <1>3, <1>4 DEF RecvSyn, appVars, TypeOK
<1>9. Untouched(f)
  BY <1>7, <1>8 DEF Untouched
<1>10. /\ ~CloseHandled(e) /\ SentUpTo(e) = 0 /\ SentUpTo(e)' = 0
       /\ TakenUpTo(e) = 0 /\ TakenUpTo(e)' = 0
  BY <1>1, <1>8 DEF CloseHandled, SentUpTo, TakenUpTo, Least
<1>11. Own(e)'
  <2>1. Stage(e)'
    BY <1>0, <1>1, <1>8 DEF Stage, Handshaking
  <2>2. Sending(e)'
    <3>1. ~CloseHandled(e)'
      BY <1>1, <1>8 DEF CloseHandled
    <3> QED
      BY <1>0, <1>1, <1>7, <1>8, <1>10, <3>1 DEF Own, Sending
  <2> QED
    BY <2>1, <2>2 DEF Own
<1>12. Broken(e)' /\ Broken(f)'
  BY <1>0, <1>5, <1>6, <1>8, ResetEffect, BrokenRests
<1>13. yAck[e] \in Nat /\ yAck[f] \in Nat /\ ackSeq[f] \in Nat /\ ackSeq[e] \in Nat
  BY <1>0, NumberTypes
<1>14. Counters(e)' /\ Counters(f)'
  BY <1>0, <1>1, <1>2, <1>8, <1>13 DEF Counters
<1>15. Wire(e)'
  BY <1>0, <1>1, <1>3, <1>7, <1>8, <1>9, <1>10, UntouchedFacts, WireTaken
<1>16. Wire(f)'
  BY <1>0, <1>1, <1>5, <1>7, <1>8, <1>10, <1>13, WireAfterHeader DEF Signed
<1> QED
  BY <1>0, <1>9, <1>11, <1>12, <1>14, <1>15, <1>16, UntouchedFacts, NumberedFrom

\* A packet without data is taken and nothing is sent.
LEMMA NumberedTakesHeader ==
    ASSUME SequenceInv, TypeOK', NEW e \in Ends, ready[e] > 0, Take(e),
           Size(Head(inbound[e])) = 0,
           Untouched(Peer(e)), Own(e)', UNCHANGED <<nextSeq, written, yAck>>,
           st'[e] # "abort",
           ackSeq'[e] <= yAck[Peer(e)],
           CloseHandled(e) => CloseHandled(e)', SentUpTo(e)' = SentUpTo(e)
    PROVE  Numbered'
<1> DEFINE f == Peer(e)
<1>0. /\ TypeOK /\ f \in Ends /\ f # e /\ Peer(f) = e
      /\ Broken(e) /\ Counters(e) /\ Wire(e)
      /\ Own(f) /\ Broken(f) /\ Counters(f) /\ Wire(f)
  BY SequenceFacts
<1>1. /\ inbound[e] # <<>> /\ inbound'[e] = Tail(inbound[e])
      /\ inbound'[f] = inbound[f] /\ up' = up
  BY <1>0, TakeEffect
<1>2. /\ CloseHandled(f)' = CloseHandled(f) /\ SentUpTo(f)' = SentUpTo(f) /\ Own(f)'
      /\ st'[f] = st[f] /\ ackSeq'[f] = ackSeq[f]
  BY <1>0, UntouchedFacts DEF Untouched
<1>3. Broken(e)' /\ Broken(f)'
  BY <1>0, <1>2, ResetEffect, BrokenRests
<1>4. Counters(e)' /\ Counters(f)'
  BY <1>0, <1>2 DEF Counters
<1>5. TakenUpTo(e)' = TakenUpTo(e)
  BY DEF TakenUpTo
<1>6. Wire(e)'
  BY <1>0, <1>1, <1>2, <1>5, WireTaken
<1>7. Wire(f)'
  <2>1. yAck[e] \in Nat
    BY <1>0, NumberTypes
  <2> QED
    BY <1>0, <1>1, <2>1, WireRests
<1> QED
  BY <1>2, <1>3, <1>4, <1>6, <1>7, NumberedFrom

LEMMA NumberedRecvSynAck ==
    ASSUME SequenceInv, TypeOK', NEW e \in Ends, RecvSynAck(e)
    PROVE  Numbered'
<1> DEFINE f == Peer(e)
           p == Head(inbound[e])
           t == Header("ACK", nextSeq[e], Plus(p.seq, 1))
<1>0. /\ TypeOK /\ Opening /\ f \in Ends /\ f # e /\ Peer(f) = e
      /\ Own(e) /\ Broken(e) /\ Counters(e) /\ Wire(e)
      /\ Own(f) /\ Broken(f) /\ Counters(f) /\ Wire(f) /\ DataOnly(inbound[e])
  BY SequenceFacts
<1>1. /\ st[e] = "syn_sent" /\ nextSeq[e] = 1 /\ yAck[e] = 0 /\ written[e] = 0
      /\ app[e] = "open" /\ ready[e] > 0 /\ inbound[e] # <<>> /\ inbound[e] \in Seq(Packet)
  BY <1>0 DEF RecvSynAck, Own, Stage, Handshaking, TypeOK
<1>2. /\ e = Active /\ f = Passive /\ st[f] = "syn_rcvd" /\ nextSeq[f] = 1 /\ yAck[f] = 1
      /\ NoData(inbound[e])
  BY <1>0, <1>1 DEF Opening, Early, Ends, Peer, Active, Passive, Own, Stage
<1>3. p \in Packet /\ p.ack \in Nat /\ p.ack <= yAck[f] /\ Signed(p, written[f]) /\ Size(p) = 0
  BY <1>0, <1>1, <1>2, WireHead, PacketTypes, PacketsTail DEF SequenceInv, StreamInv, Good, Direction, Ending
<1>4. yAck[e] \in Nat /\ yAck[f] \in Nat /\ ackSeq[f] \in Nat /\ ackSeq[e] \in Nat
  BY <1>0, NumberTypes
<1>5. CASE p.flags = "SYN_ACK"
  <2>1. p.seq = 0 /\ p.win = Window
    BY <1>3, <1>5 DEF Signed
  <2>2. Plus(0, 1) = 1
    BY PlusExact, SeqModFacts
  <2>3. t \in Packet /\ Size(t) = 0 /\ t.flags = "ACK" /\ t.ack = 1 /\ t.win = Window
    <3>1. nextSeq[e] \in SeqNum /\ Plus(p.seq, 1) = 1 /\ 1 \in SeqNum /\ "ACK" \in Flags
      BY <1>0, <2>1, <2>2, SeqNumFacts DEF TypeOK, Flags
    <3> QED
      BY <3>1, HeaderFields, HeaderType
  <2>4. TakeAndSend(e, t)
    BY <1>5 DEF RecvSynAck
  <2> HIDE DEF t
  <2>5. /\ inbound'[e] = Tail(inbound[e]) /\ up' = up
        /\ inbound'[f] = IF up[f] THEN Append(inbound[f], t) ELSE inbound[f]
    BY <1>0, <1>1, <2>3, <2>4, TakeAndSendEffect
  <2>6. /\ UNCHANGED <<app, written, appRecvQ, closeReq, ev, nextSeq>>
        /\ st'[e] = "established" /\ st'[f] = st[f] /\ ackSeq'[f] = ackSeq[f]
        /\ yAck'[f] = yAck[f] /\ adWin'[f] = adWin[f]
        /\ ackSeq'[e] = p.ack /\ yAck'[e] = 1 /\ adWin'[e] = Window
    BY <1>0, <1>1, <1>5, <2>1, <2>2 DEF RecvSynAck, appVars, TypeOK
  <2>7. Untouched(f)
    BY <2>5, <2>6 DEF Untouched
  <2>8. /\ ~CloseHandled(e) /\ SentUpTo(e) = 0 /\ SentUpTo(e)' = 0
        /\ TakenUpTo(e) = 0 /\ TakenUpTo(e)' = 0
    BY <1>1, <2>6 DEF CloseHandled, SentUpTo, TakenUpTo, Least
  <2>9. Own(e)'
    <3>1. Stage(e)'
      BY <1>0, <1>1, <2>6 DEF Stage, Handshaking
    <3>2. Sending(e)'
      <4>1. ~CloseHandled(e)'
        BY <1>1, <2>6 DEF CloseHandled
      <4> QED
        BY <1>0, <1>1, <1>3, <2>5, <2>6, <2>8, <4>1, SeqModFacts DEF Own, Sending
    <3> QED
      BY <3>1, <3>2 DEF Own
  <2>10. Broken(e)' /\ Broken(f)'
    BY <1>0, <2>3, <2>4, <2>6, ResetEffect, BrokenRests
  <2>11. Counters(e)' /\ Counters(f)'
    BY <1>0, <1>1, <1>2, <1>3, <1>4, <2>6 DEF Counters
  <2>12. Wire(e)'
    BY <1>0, <1>1, <1>3, <2>5, <2>6, <2>7, <2>8, UntouchedFacts, WireTaken
  <2>13. Wire(f)'
    BY <1>0, <1>1, <1>4, <2>3, <2>5, <2>6, <2>8, WireAfterHeader DEF Signed
  <2> QED
    BY <1>0, <2>7, <2>9, <2>10, <2>11, <2>12, <2>13, UntouchedFacts, NumberedFrom
<1>6. CASE p.flags # "SYN_ACK"
  <2>1. /\ Take(e)
        /\ UNCHANGED <<app, written, appRecvQ, closeReq, ev, nextSeq, ackSeq, adWin, yAck, st>>
    BY <1>6 DEF RecvSynAck, appVars
  <2>2. up' = up
    BY <2>1 DEF Take
  <2>3. Untouched(f) /\ Untouched(e)
    BY <2>1, <2>2 DEF Untouched
  <2>4. Own(e)' /\ CloseHandled(e)' = CloseHandled(e) /\ SentUpTo(e)' = SentUpTo(e)
    BY <1>0, <2>3, UntouchedFacts
  <2>5. st'[e] # "abort" /\ ackSeq'[e] <= yAck[f]
    BY <1>0, <1>1, <2>1 DEF Counters
  <2> QED
    BY <1>1, <1>3, <2>1, <2>3, <2>4, <2>5, NumberedTakesHeader
<1> QED
  BY <1>5, <1>6

LEMMA NumberedRecvHandshakeAck ==
    ASSUME SequenceInv, TypeOK', NEW e \in Ends, RecvHandshakeAck(e)
    PROVE  Numbered'
<1> DEFINE f == Peer(e)
           p == Head(inbound[e])
<1>0. /\ TypeOK /\ Opening /\ f \in Ends /\ f # e /\ Peer(f) = e
      /\ Own(e) /\ Counters(e) /\ Wire(e) /\ DataOnly(inbound[e])
  BY SequenceFacts
<1>1. /\ st[e] = "syn_rcvd" /\ nextSeq[e] = 1 /\ yAck[e] = 1 /\ written[e] = 0
      /\ app[e] = "open" /\ ready[e] > 0 /\ inbound[e] # <<>> /\ inbound[e] \in Seq(Packet)
      /\ Take(e)
  BY <1>0 DEF RecvHandshakeAck, Own, Stage, Handshaking, TypeOK
<1>2. p.flags = "ACK"
  BY <1>0, <1>1 DEF Opening, Ends, Active, Passive
<1>3. p.ack \in Nat /\ p.ack <= yAck[f] /\ p.win = Window /\ Size(p) = 0
  <2>1. p \in Packet /\ p.ack <= yAck[f] /\ Signed(p, written[f])
    BY <1>0, <1>1, WireHead
  <2>2. Size(p) = 0
    BY <1>1, <1>2, PacketsTail DEF SequenceInv, StreamInv, Good, Direction, Ending
  <2> QED
    BY <1>2, <2>1, <2>2, PacketTypes DEF Signed
<1>4. /\ UNCHANGED <<app, written, appRecvQ, closeReq, ev, nextSeq, yAck>> /\ up' = up
      /\ st'[e] = "established" /\ st'[f] = st[f] /\ ackSeq'[f] = ackSeq[f]
      /\ adWin'[f] = adWin[f] /\ ackSeq'[e] = p.ack /\ adWin'[e] = Window
  BY <1>0, <1>1, <1>2, <1>3 DEF RecvHandshakeAck, appVars, TypeOK, Take
<1>5. Untouched(f)
  BY <1>4 DEF Untouched
<1>6. ~CloseHandled(e) /\ SentUpTo(e) = 0 /\ SentUpTo(e)' = 0
  BY <1>1, <1>4 DEF CloseHandled, SentUpTo, Least
<1>7. Own(e)'
  <2>1. Stage(e)'
    BY <1>0, <1>1, <1>4 DEF Stage, Handshaking
  <2>2. Sending(e)'
    <3>1. ~CloseHandled(e)'
      BY <1>1, <1>4 DEF CloseHandled
    <3> QED
      BY <1>0, <1>1, <1>3, <1>4, <1>6, <3>1, SeqModFacts DEF Own, Sending
  <2> QED
    BY <2>1, <2>2 DEF Own
<1> QED
  BY <1>1, <1>3, <1>4, <1>5, <1>6, <1>7, NumberedTakesHeader

-----------------------------------------------------------------------------
(* Steps that send and take no packet.                                       *)

LEMMA NumberedWaitForEvent ==
    ASSUME SequenceInv, TypeOK', NEW e \in Ends, WaitForEvent(e)
    PROVE  Numbered'
<1>0. TypeOK /\ Peer(e) # e /\ Own(e) /\ FinBound(e) /\ Peer(e) \in Ends
  BY SequenceFacts
<1>1. /\ UNCHANGED <<app, written, inbound, up, reset, appRecvQ, st>>
      /\ UNCHANGED <<nextSeq, ackSeq, adWin, yAck>> /\ ev[e] = {}
  BY DEF WaitForEvent, appVars, netVars, seqVars
<1>2. /\ ev'[e] = Bits(e) /\ ev'[Peer(e)] = ev[Peer(e)]
      /\ closeReq'[e] = (closeReq[e] /\ ~CloseReported(e))
      /\ closeReq'[Peer(e)] = closeReq[Peer(e)]
  BY <1>0 DEF WaitForEvent, TypeOK
<1>3. "APP_CLOSE_REQUESTED" \in Bits(e) <=> CloseReported(e)
  BY DEF Bits, Events
<1>4. CloseHandled(e)' = CloseHandled(e)
  BY <1>1, <1>2, <1>3 DEF CloseHandled, CloseReported
<1>5. Untouched(Peer(e))
  BY <1>1, <1>2 DEF Untouched
<1>6. SentUpTo(e)' = SentUpTo(e) /\ Own(e)'
  BY <1>0, <1>1, <1>4 DEF SentUpTo, Own, Sending, Stage
<1> QED
  BY <1>0, <1>1, <1>4, <1>5, <1>6, NumberedLocally

LEMMA NumberedThreadExit ==
    ASSUME SequenceInv, TypeOK', NEW e \in Ends, ThreadExit(e)
    PROVE  Numbered'
<1>0. TypeOK /\ Peer(e) # e /\ Own(e) /\ Peer(e) \in Ends
  BY SequenceFacts
<1>1. /\ UNCHANGED <<app, written, inbound, up, reset, appRecvQ, closeReq, ev>>
      /\ UNCHANGED <<nextSeq, ackSeq, adWin, yAck>>
      /\ st'[e] = "exited" /\ st'[Peer(e)] = st[Peer(e)]
  BY <1>0 DEF ThreadExit, appVars, netVars, seqVars, TypeOK
<1>2. CloseHandled(e)' = CloseHandled(e) /\ SentUpTo(e)' = SentUpTo(e)
  BY <1>1 DEF CloseHandled, SentUpTo
<1>3. Untouched(Peer(e))
  BY <1>1 DEF Untouched
<1>4. Own(e)'
  BY <1>0, <1>1, <1>2 DEF Own, Sending, Stage, Handshaking
<1> QED
  BY <1>0, <1>1, <1>2, <1>3, <1>4, NumberedLocally

LEMMA NumberedRecvPacket ==
    ASSUME SequenceInv, TypeOK', NEW e \in Ends,
           RecvPacket(e) \/ \E len \in Nat : MyRead(e, len)
    PROVE  Numbered'
<1>0. TypeOK /\ Peer(e) # e /\ Own(e) /\ Peer(e) \in Ends
  BY SequenceFacts
<1>1. /\ UNCHANGED <<app, written, inbound, up, reset, appRecvQ, closeReq, ev, st>>
      /\ UNCHANGED <<nextSeq, ackSeq, adWin, yAck>>
  BY DEF RecvPacket, MyRead, appVars, netVars, seqVars
<1>2. Untouched(Peer(e)) /\ Untouched(e)
  BY <1>1 DEF Untouched
<1> QED
  BY <1>0, <1>1, <1>2, UntouchedFacts, NumberedLocally

LEMMA NumberedMyWrite ==
    ASSUME SequenceInv, TypeOK', NEW e \in Ends, NEW n \in Nat, MyWrite(e, n)
    PROVE  Numbered'
<1>0. TypeOK /\ Peer(e) # e /\ Own(e) /\ Thread(e) /\ Peer(e) \in Ends
  BY SequenceFacts
<1>1. /\ UNCHANGED <<app, inbound, up, reset, closeReq, ev, st>>
      /\ UNCHANGED <<nextSeq, ackSeq, adWin, yAck>>
      /\ app[e] = "open" /\ st[e] \notin Handshaking
      /\ written'[e] = written[e] + n /\ written'[Peer(e)] = written[Peer(e)]
      /\ appRecvQ'[e] = Append(appRecvQ[e], [lo |-> written[e], hi |-> written[e] + n])
      /\ appRecvQ'[Peer(e)] = appRecvQ[Peer(e)]
  BY <1>0 DEF MyWrite, Connected, appVars, netVars, seqVars, TypeOK
<1>2. /\ nextSeq[e] \in Nat /\ ackSeq[e] \in Nat /\ written[e] \in Nat
      /\ appRecvQ[e] \in Seq(Buffer)
  BY <1>0, NumberTypes
<1>3. ~CloseHandled(e) /\ ~CloseHandled(e)' /\ nextSeq[e] <= written[e] + 1
  BY <1>0, <1>1 DEF CloseHandled, Own, Sending
<1>4. SentUpTo(e)' = SentUpTo(e)
  BY <1>1, <1>2, <1>3 DEF SentUpTo, Least
<1>5. Untouched(Peer(e))
  BY <1>1 DEF Untouched
<1>6. ASSUME up[e] PROVE Chain(appRecvQ'[e], SentUpTo(e), written'[e])
  <2> DEFINE b == [lo |-> written[e], hi |-> written[e] + n]
             w == written[e]
  <2>1. Chain(appRecvQ[e], SentUpTo(e), w)
    BY <1>0, <1>6 DEF Own, Sending
  <2>2. b \in Buffer /\ Size(b) = n /\ b.lo = w /\ b.hi = w + n
    BY <1>2 DEF Buffer, Size
  <2> HIDE DEF b
  <2>3. Chain(Append(appRecvQ[e], b), SentUpTo(e), IF Size(b) = 0 THEN w ELSE b.hi)
    BY <1>2, <2>1, <2>2, BufferFacts, ChainAppend
  <2>4. (IF Size(b) = 0 THEN w ELSE b.hi) = written'[e]
    BY <1>1, <1>2, <2>2
  <2> QED
    BY <1>1, <2>3, <2>4 DEF b
<1>7. Own(e)'
  <2>1. Stage(e)'
    BY <1>0, <1>1 DEF Own, Stage
  <2>2. Sending(e)'
    <3>1. nextSeq'[e] <= written'[e] + 1
      BY <1>1, <1>2, <1>3
    <3> QED
      BY <1>0, <1>1, <1>3, <1>4, <1>6, <3>1 DEF Own, Sending
  <2> QED
    BY <2>1, <2>2 DEF Own
<1> QED
  BY <1>0, <1>1, <1>3, <1>4, <1>5, <1>7, NumberedLocally

LEMMA NumberedMyClose ==
    ASSUME SequenceInv, TypeOK', NEW e \in Ends, MyClose(e)
    PROVE  Numbered'
<1>0. TypeOK /\ Peer(e) # e /\ Own(e) /\ Peer(e) \in Ends
  BY SequenceFacts
<1>1. /\ UNCHANGED <<written, inbound, up, reset, appRecvQ, ev, st>>
      /\ UNCHANGED <<nextSeq, ackSeq, adWin, yAck>>
      /\ app[e] = "open" /\ st[e] \notin Handshaking
      /\ app'[Peer(e)] = app[Peer(e)] /\ closeReq'[Peer(e)] = closeReq[Peer(e)]
      /\ closeReq'[e] = TRUE
  BY <1>0 DEF MyClose, Connected, netVars, seqVars, TypeOK
<1>2. ~CloseHandled(e) /\ ~CloseHandled(e)' /\ SentUpTo(e)' = SentUpTo(e)
  BY <1>1 DEF CloseHandled, SentUpTo
<1>3. Untouched(Peer(e))
  BY <1>1 DEF Untouched
<1>4. Own(e)'
  BY <1>0, <1>1, <1>2 DEF Own, Sending, Stage
<1> QED
  BY <1>0, <1>1, <1>2, <1>3, <1>4, NumberedLocally

-----------------------------------------------------------------------------
(* The steps of control_loop() that send or take a packet.                   *)

\* What is known of an end with events to handle.
LEMMA HandlingFacts ==
    ASSUME SequenceInv, NEW e \in Ends, ev[e] # {}
    PROVE  /\ st[e] = "established" /\ up[e]
           /\ nextSeq[e] >= 1 /\ yAck[e] >= 1 /\ adWin[e] = Window
           /\ ackSeq[e] <= nextSeq[e]
<1>0. TypeOK /\ StreamInv /\ Own(e) /\ Counters(e) /\ Peer(e) \in Ends
  BY SequenceFacts
<1>1. st[e] = "established" /\ up[e]
  BY <1>0, EstablishedFacts
<1>2. ackSeq[e] \in Nat /\ nextSeq[e] \in Nat /\ yAck[Peer(e)] \in Nat
  BY <1>0, NumberTypes
<1> QED
  BY <1>0, <1>1, <1>2 DEF Own, Stage, Counters

LEMMA PortionFits ==
    ASSUME NEW b \in Buffer, NEW room \in Nat
    PROVE  Size(Portion(b, room)) <= room
BY DEF Portion, Buffer, Size

\* With data to send nothing wraps, and there is room for what was promised.
LEMMA RoomFacts ==
    ASSUME SequenceInv, NEW e \in Ends, "APP_DATA" \in ev[e]
    PROVE  /\ ~CloseHandled(e) /\ appRecvQ[e] # <<>>
           /\ nextSeq[e] = SentUpTo(e) + 1 /\ nextSeq[e] <= written[e] + 1
           /\ SendRoom(e) \in Nat
           /\ nextSeq[e] + SendRoom(e) <= ackSeq[e] + Window
<1>0. TypeOK /\ Own(e) /\ Pending(e)
  BY SequenceFacts
<1>1. st[e] = "established" /\ nextSeq[e] >= 1 /\ adWin[e] = Window /\ ackSeq[e] <= nextSeq[e]
  BY HandlingFacts
<1>2. appRecvQ[e] # <<>> /\ ~CloseHandled(e)
  BY <1>0 DEF Pending, Own, Sending
<1>3. nextSeq[e] \in Nat /\ ackSeq[e] \in Nat /\ written[e] \in Nat
  BY <1>0, NumberTypes
<1>4. nextSeq[e] <= written[e] + 1 /\ SentUpTo(e) + 1 <= ackSeq[e] + Window
  BY <1>0, <1>2 DEF Own, Sending
<1>5. nextSeq[e] = SentUpTo(e) + 1
  BY <1>1, <1>3, <1>4 DEF SentUpTo, Least
<1>6. Window \in Nat /\ MaxPayload \in Nat /\ nextSeq[e] <= ackSeq[e] + Window
  BY <1>4, <1>5, StcpAssumption
<1>7. Distance(nextSeq[e], ackSeq[e]) = nextSeq[e] - ackSeq[e]
  BY <1>1, <1>3, <1>6, DistanceExact
<1>8. SendRoom(e) = Least(MaxPayload, Window - (nextSeq[e] - ackSeq[e]))
  BY <1>1, <1>7 DEF SendRoom
<1>9. SendRoom(e) \in Nat /\ nextSeq[e] + SendRoom(e) <= ackSeq[e] + Window
  BY <1>3, <1>6, <1>8 DEF Least
<1> QED
  BY <1>2, <1>4, <1>5, <1>9

LEMMA NumberedHandleAppData ==
    ASSUME SequenceInv, Fits, TypeOK', NEW e \in Ends, HandleAppData(e)
    PROVE  Numbered'
<1> DEFINE f == Peer(e)
           room == SendRoom(e)
           b == Portion(Head(appRecvQ[e]), room)
           n == SentUpTo(e)
           t == [Header("DATA", nextSeq[e], yAck[e]) EXCEPT !.lo = b.lo, !.hi = b.hi]
<1>0. /\ TypeOK /\ f \in Ends /\ f # e /\ Peer(f) = e
      /\ Own(e) /\ Broken(e) /\ Counters(e) /\ Wire(e)
      /\ Own(f) /\ Broken(f) /\ Counters(f) /\ Wire(f)
  BY SequenceFacts
<1>1. "APP_DATA" \in ev[e] /\ st[e] = "established" /\ up[e]
  BY HandlingFacts DEF HandleAppData
<1>2. /\ ~CloseHandled(e) /\ appRecvQ[e] # <<>>
      /\ nextSeq[e] = n + 1 /\ nextSeq[e] <= written[e] + 1
      /\ room \in Nat /\ nextSeq[e] + room <= ackSeq[e] + Window
  BY <1>1, RoomFacts
<1>3. /\ nextSeq[e] \in Nat /\ ackSeq[e] \in Nat /\ written[e] \in Nat /\ n \in Nat
      /\ yAck[e] \in Nat /\ yAck[f] \in Nat /\ ackSeq[f] \in Nat /\ nextSeq[f] \in Nat
      /\ appRecvQ[e] \in Seq(Buffer) /\ Head(appRecvQ[e]) \in Buffer
  BY <1>0, <1>2, NumberTypes
<1>4. /\ b \in Buffer /\ Size(b) \in Nat /\ Size(b) <= room
      /\ Size(b) > 0 => b.lo = n /\ n + Size(b) = b.hi
      /\ Chain(Leftover(appRecvQ[e], room), n + Size(b), written[e])
  <2>1. Chain(appRecvQ[e], n, written[e])
    BY <1>0, <1>1 DEF Own, Sending
  <2>2. Size(b) <= room
    BY <1>2, <1>3, PortionFits
  <2>3. room \in Int
    BY <1>2
  <2> HIDE DEF room, n
  <2>4. /\ b \in Buffer /\ Size(b) \in Nat
        /\ Size(b) > 0 => b.lo = n /\ n + Size(b) = b.hi
        /\ Chain(Leftover(appRecvQ[e], room), n + Size(b), written[e])
    BY <1>2, <1>3, <2>1, <2>3, ChainLeftover
  <2> QED
    BY <2>2, <2>4
<1>5. n + Size(b) <= written[e] /\ nextSeq[e] + Size(b) < SeqMod
  <2>1. n + Size(b) <= written[e]
    BY <1>4 DEF Chain
  <2> QED
    BY <1>2, <1>3, <1>4, <2>1, SeqModFacts DEF Fits
<1>6. t \in Packet /\ t.flags = "DATA" /\ t.lo = b.lo /\ t.hi = b.hi
      /\ t.seq = nextSeq[e] /\ t.ack = yAck[e] /\ Size(t) = Size(b)
  BY <1>0, <1>4 DEF TypeOK, Header, Packet, Buffer, Flags, Size
<1>7. /\ appRecvQ'[e] = Leftover(appRecvQ[e], room) /\ appRecvQ'[f] = appRecvQ[f]
      /\ ev'[e] = ev[e] \ {"APP_DATA"} /\ ev'[f] = ev[f]
      /\ UNCHANGED <<app, written, closeReq, st, ackSeq, adWin, yAck>>
  BY <1>0 DEF HandleAppData, appVars, TypeOK
<1>8. IF Size(b) > 0 THEN Send(e, t) ELSE UNCHANGED <<inbound, up, reset>>
  BY DEF HandleAppData, netVars
<1>9. nextSeq'[e] = nextSeq[e] + Size(b) /\ nextSeq'[f] = nextSeq[f]
  <2>1. CASE Size(b) > 0
    <3>1. nextSeq' = [nextSeq EXCEPT ![e] = Plus(nextSeq[e], Size(b))]
      BY <2>1 DEF HandleAppData
    <3>2. Plus(nextSeq[e], Size(b)) = nextSeq[e] + Size(b)
      BY <1>3, <1>4, <1>5, PlusExact
    <3> QED
      BY <1>0, <3>1, <3>2 DEF TypeOK
  <2>2. CASE ~(Size(b) > 0)
    <3>1. nextSeq' = nextSeq /\ Size(b) = 0
      BY <1>4, <2>2 DEF HandleAppData
    <3> QED
      BY <1>3, <3>1
  <2> QED
    BY <2>1, <2>2
<1> HIDE DEF t, room, b
<1>10. /\ inbound'[e] = inbound[e] /\ up' = up
       /\ reset'[f] = reset[f] /\ (reset'[e] = reset[e] \/ ~up[f])
       /\ inbound'[f] = IF up[f] /\ Size(b) > 0 THEN Append(inbound[f], t)
                        ELSE inbound[f]
  <2>1. CASE Size(b) > 0
    BY <1>0, <1>6, <1>8, <2>1, SendEffect, ResetEffect
  <2>2. CASE ~(Size(b) > 0)
    BY <1>0, <1>8, <2>2
  <2> QED
    BY <2>1, <2>2
<1>11. Untouched(f)
  BY <1>7, <1>9, <1>10 DEF Untouched
<1>12. ~CloseHandled(e)' /\ SentUpTo(e)' = n + Size(b)
  <2>1. ~CloseHandled(e)'
    BY <1>2, <1>7 DEF CloseHandled
  <2>2. SentUpTo(e)' = n + Size(b)
    <3> HIDE DEF n
    <3>1. /\ nextSeq'[e] = n + Size(b) + 1 /\ nextSeq'[e] # 0
          /\ nextSeq'[e] - 1 = n + Size(b) /\ n + Size(b) <= written'[e]
          /\ written'[e] \in Nat /\ n + Size(b) \in Nat
      BY <1>2, <1>3, <1>4, <1>5, <1>7, <1>9
    <3> QED
      BY <3>1 DEF SentUpTo, Least
  <2> QED
    BY <2>1, <2>2
<1>13. Own(e)'
  <2>1. Stage(e)'
    <3>1. nextSeq'[e] >= 1
      BY <1>2, <1>3, <1>4, <1>9
    <3> QED
      BY <1>0, <1>1, <1>7, <3>1 DEF Own, Stage, Handshaking
  <2>2. Sending(e)'
    <3>1. nextSeq'[e] <= written'[e] + 1
      BY <1>2, <1>3, <1>4, <1>5, <1>7, <1>9
    <3>2. SentUpTo(e)' + 1 <= ackSeq'[e] + Window
      BY <1>2, <1>3, <1>4, <1>7, <1>12, SeqModFacts
    <3>3. Chain(appRecvQ'[e], SentUpTo(e)', written'[e])
      BY <1>4, <1>7, <1>12
    <3> QED
      BY <1>12, <3>1, <3>2, <3>3 DEF Sending
  <2> QED
    BY <2>1, <2>2 DEF Own
<1>14. Broken(e)' /\ Broken(f)'
  BY <1>0, <1>7, <1>10, BrokenRests
<1>15. Counters(e)' /\ Counters(f)'
  BY <1>0, <1>3, <1>4, <1>7, <1>9 DEF Counters
<1>16. Wire(e)'
  BY <1>0, <1>3, <1>7, <1>10, <1>11, UntouchedFacts, WireRests
<1>17. Wire(f)'
  <2>2. yAck[Peer(f)] <= yAck'[Peer(f)] /\ t.ack <= yAck'[Peer(f)]
        /\ ~CloseHandled(Peer(f)) /\ written'[Peer(f)] = written[Peer(f)]
    BY <1>0, <1>2, <1>3, <1>6, <1>7
  <2>3. CASE up[f] /\ Size(b) > 0
    <3>1. t.hi = SentUpTo(Peer(f))' /\ t.lo = SentUpTo(Peer(f)) /\ Size(t) > 0
      BY <1>0, <1>4, <1>6, <1>12, <2>3
    <3>2. /\ inbound'[f] = Append(inbound[f], t) /\ up[f] /\ up'[f] = up[f]
          /\ yAck'[f] = yAck[f]
      BY <1>7, <1>10, <2>3
    <3>3. Signed(t, written[Peer(f)]) /\ t.flags # "FIN"
      BY <1>0, <1>2, <1>3, <1>4, <1>6, <2>3 DEF Signed
    <3> HIDE DEF f, n
    <3>4. Wire(f)'
      BY <1>0, <1>6, <2>2, <3>1, <3>2, <3>3, WireGets
    <3> QED
      BY <3>4
  <2>4. CASE ~(up[f] /\ Size(b) > 0)
    <3>1. SentUpTo(Peer(f))' = SentUpTo(Peer(f)) \/ ~up[f]
      BY <1>0, <1>3, <1>4, <1>12, <2>4
    <3>2. inbound'[f] = inbound[f] /\ up'[f] = up[f] /\ yAck'[f] = yAck[f]
      BY <1>7, <1>10, <2>4
    <3> HIDE DEF f, n
    <3>3. Wire(f)'
      BY <1>0, <2>2, <3>1, <3>2, WireRests
    <3> QED
      BY <3>3
  <2> QED
    BY <2>3, <2>4
<1> QED
  BY <1>0, <1>11, <1>13, <1>14, <1>15, <1>16, <1>17, UntouchedFacts, NumberedFrom

-----------------------------------------------------------------------------
(* The packets control_loop() handles.                                       *)

LEMMA PacketWaiting ==
    ASSUME TypeInv, NEW e \in Ends, HandlesPacket(e)
    PROVE  /\ ready[e] > 0 /\ inbound[e] # <<>> /\ inbound[e] \in Seq(Packet)
           /\ Head(inbound[e]) \in Packet
<1>1. ready[e] > 0 /\ Head(inbound[e]) \in Packet
  BY PacketFacts
<1>2. inbound[e] \in Seq(Packet) /\ ready[e] <= Len(inbound[e]) /\ ready[e] \in Nat
  BY DEF TypeInv, TypeOK
<1>3. inbound[e] # <<>>
  BY <1>1, <1>2
<1> QED
  BY <1>1, <1>2, <1>3

\* Events are handled or dropped, and counters advance.
LEMMA OwnAdvances ==
    ASSUME SequenceInv, TypeOK', NEW e \in Ends, ev[e] # {},
           UNCHANGED <<app[e], closeReq[e], appRecvQ[e], written[e], up[e], nextSeq[e]>>,
           ev'[e] \subseteq ev[e], st'[e] \in {"established", "done"},
           ackSeq[e] <= ackSeq'[e], yAck[e] <= yAck'[e], adWin'[e] = Window
    PROVE  /\ Own(e)' /\ SentUpTo(e)' = SentUpTo(e)
           /\ CloseHandled(e) => CloseHandled(e)'
<1>0. TypeOK /\ Own(e) /\ Thread(e)
  BY SequenceFacts
<1>1. st[e] = "established" /\ nextSeq[e] >= 1 /\ yAck[e] >= 1
  BY HandlingFacts
<1>2. /\ nextSeq[e] \in Nat /\ ackSeq[e] \in Nat /\ yAck[e] \in Nat
      /\ ackSeq'[e] \in Nat /\ yAck'[e] \in Nat /\ SentUpTo(e) \in Nat
      /\ Window \in Nat
  <2>1. ackSeq'[e] \in SeqNum /\ yAck'[e] \in SeqNum
    BY DEF TypeOK
  <2> QED
    BY <1>0, <2>1, NumberTypes, SeqModFacts
<1>3. CloseHandled(e) => CloseHandled(e)'
  BY DEF CloseHandled
<1>4. SentUpTo(e)' = SentUpTo(e)
  BY DEF SentUpTo
<1>5. CloseHandled(e)' => appRecvQ'[e] = <<>>
  BY <1>0 DEF CloseHandled, Thread, Own, Sending
<1>6. SentUpTo(e) + 1 <= ackSeq[e] + Window
  BY <1>0 DEF Own, Sending
<1>7. SentUpTo(e)' + 1 <= ackSeq'[e] + Window
  BY <1>2, <1>4, <1>6
<1>8. Sending(e)'
  BY <1>0, <1>3, <1>4, <1>5, <1>7 DEF Own, Sending
<1>9. Stage(e)'
  <2>1. nextSeq'[e] >= 1 /\ yAck'[e] >= 1
    BY <1>1, <1>2
  <2> QED
    BY <2>1 DEF Stage, Handshaking
<1> QED
  BY <1>3, <1>4, <1>8, <1>9 DEF Own

LEMMA NumberedHandleAck ==
    ASSUME SequenceInv, TypeOK', NEW e \in Ends,
           HandleAck(e) \/ HandleFinAck(e)
    PROVE  Numbered'
<1> DEFINE f == Peer(e)
           p == Head(inbound[e])
<1>0. /\ TypeOK /\ TypeInv /\ f \in Ends /\ f # e /\ Peer(f) = e
      /\ Counters(e) /\ Counters(f) /\ Wire(e) /\ DataOnly(inbound[e])
  BY SequenceFacts DEF SequenceInv, StreamInv
<1>1. "NETWORK_DATA" \in ev[e] /\ p.flags = "ACK" /\ HandlesPacket(e)
  BY DEF HandleAck, HandleFinAck, HandlesPacket
<1>2. st[e] = "established" /\ adWin[e] = Window /\ up[e]
  BY <1>1, HandlingFacts
<1>3. ready[e] > 0 /\ inbound[e] # <<>> /\ inbound[e] \in Seq(Packet)
  BY <1>0, <1>1, PacketWaiting
<1>4. /\ p \in Packet /\ p.ack \in Nat /\ p.ack <= yAck[f] /\ p.win = Window
      /\ Size(p) = 0
  <2>1. p \in Packet /\ p.ack <= yAck[f] /\ Signed(p, written[f])
    BY <1>0, <1>3, WireHead
  <2>2. Size(p) = 0
    <3>1. 1 \in DOMAIN inbound[e] /\ p = inbound[e][1]
      BY <1>3
    <3> QED
      BY <1>0, <1>1, <3>1 DEF DataOnly
  <2> QED
    BY <1>1, <2>1, <2>2, PacketTypes DEF Signed
<1>5. /\ ackSeq[e] \in Nat /\ ackSeq[e] <= yAck[f] /\ yAck[f] <= nextSeq[e]
      /\ yAck[f] \in Nat /\ nextSeq[e] \in Nat /\ yAck[e] \in Nat
  BY <1>0, NumberTypes DEF Counters
<1>6. /\ AckedBy(e, p) \in Nat /\ ackSeq[e] <= AckedBy(e, p)
      /\ AckedBy(e, p) <= yAck[f] /\ nextSeq[e] >= AckedBy(e, p)
  BY <1>4, <1>5 DEF AckedBy, Greatest
<1>7. /\ Take(e) /\ UNCHANGED <<app, written, appRecvQ, closeReq, nextSeq, yAck>>
      /\ ackSeq' = [ackSeq EXCEPT ![e] = AckedBy(e, p)]
      /\ adWin'[e] = Window /\ adWin'[f] = adWin[f]
      /\ ev'[e] \subseteq ev[e] /\ ev'[f] = ev[f]
      /\ st'[e] \in {"established", "done"} /\ st'[f] = st[f]
  <2>1. CASE HandleAck(e)
    <3>1. /\ Take(e)
          /\ adWin' = [adWin EXCEPT ![e] = p.win]
          /\ ackSeq' = [ackSeq EXCEPT ![e] = AckedBy(e, p)]
          /\ ev' = [ev EXCEPT ![e] = @ \ {"NETWORK_DATA"}]
          /\ UNCHANGED <<appVars, appRecvQ, appSendQ, closeReq, st, nextSeq, yAck, fin>>
      BY <1>6, <2>1 DEF HandleAck
    <3>2. adWin'[e] = Window /\ adWin'[f] = adWin[f]
      BY <1>0, <1>4, <3>1 DEF TypeOK
    <3>3. ev'[e] \subseteq ev[e] /\ ev'[f] = ev[f]
      BY <1>0, <3>1 DEF TypeOK
    <3> QED
      BY <1>2, <3>1, <3>2, <3>3 DEF appVars
  <2>2. CASE HandleFinAck(e)
    <3>1. /\ Take(e) /\ CountFin(e)
          /\ ackSeq' = [ackSeq EXCEPT ![e] = AckedBy(e, p)]
          /\ UNCHANGED <<appVars, appRecvQ, appSendQ, closeReq, nextSeq, adWin, yAck>>
      BY <2>2 DEF HandleFinAck
    <3>2. ev'[e] \subseteq ev[e] /\ ev'[f] = ev[f]
      BY <1>0, <3>1, CountFinEffect
    <3>3. st'[e] \in {"established", "done"} /\ st'[f] = st[f]
      BY <1>0, <1>2, <3>1, CountFinEffect
    <3> QED
      BY <1>2, <3>1, <3>2, <3>3 DEF appVars
  <2> QED
    BY <2>1, <2>2
<1>8. ackSeq'[e] = AckedBy(e, p) /\ ackSeq'[f] = ackSeq[f]
  BY <1>0, <1>7 DEF TypeOK
<1>9. up' = up
  BY <1>7 DEF Take
<1>10. Untouched(f)
  BY <1>7, <1>8, <1>9 DEF Untouched
<1>11. ackSeq[e] <= ackSeq'[e] /\ yAck[e] <= yAck'[e] /\ ackSeq'[e] <= yAck[f]
  BY <1>5, <1>6, <1>7, <1>8
<1>12. /\ Own(e)' /\ SentUpTo(e)' = SentUpTo(e)
       /\ CloseHandled(e) => CloseHandled(e)'
  BY <1>1, <1>7, <1>9, <1>11, OwnAdvances
<1>13. st'[e] # "abort"
  BY <1>7
<1> QED
  BY <1>3, <1>4, <1>7, <1>10, <1>11, <1>12, <1>13, NumberedTakesHeader

\* A packet is taken and an ACK sent.
LEMMA NumberedAnswers ==
    ASSUME SequenceInv, TypeOK', NEW e \in Ends, ready[e] > 0,
           NEW t \in Packet, TakeAndSend(e, t),
           Size(t) = 0, t.flags = "ACK", t.win = Window, t.ack = yAck'[e],
           yAck[e] <= yAck'[e], yAck'[e] <= nextSeq[Peer(e)],
           Untouched(Peer(e)), Own(e)', UNCHANGED <<nextSeq, written, ackSeq>>,
           st'[e] # "abort",
           CloseHandled(e) => CloseHandled(e)', SentUpTo(e)' = SentUpTo(e),
           TakenUpTo(e)' = IF Size(Head(inbound[e])) = 0 THEN TakenUpTo(e)
                           ELSE Head(inbound[e]).hi
    PROVE  Numbered'
<1> DEFINE f == Peer(e)
<1>0. /\ TypeOK /\ f \in Ends /\ f # e /\ Peer(f) = e
      /\ Broken(e) /\ Counters(e) /\ Wire(e)
      /\ Own(f) /\ Broken(f) /\ Counters(f) /\ Wire(f)
  BY SequenceFacts
<1>1. /\ inbound[e] # <<>> /\ inbound'[e] = Tail(inbound[e]) /\ up' = up
      /\ inbound'[f] = IF up[f] THEN Append(inbound[f], t) ELSE inbound[f]
  BY <1>0, TakeAndSendEffect
<1>2. /\ CloseHandled(f)' = CloseHandled(f) /\ SentUpTo(f)' = SentUpTo(f) /\ Own(f)'
      /\ st'[f] = st[f] /\ yAck'[f] = yAck[f]
  BY <1>0, UntouchedFacts DEF Untouched
<1>3. Broken(e)' /\ Broken(f)'
  BY <1>0, <1>2, ResetEffect, BrokenRests
<1>4. /\ ackSeq[f] \in Nat /\ yAck[e] \in Nat /\ yAck[f] \in Nat /\ nextSeq[f] \in Nat
      /\ yAck'[e] \in Nat
  BY <1>0, NumberTypes, PacketTypes
<1>5. Counters(e)' /\ Counters(f)'
  BY <1>0, <1>2, <1>4 DEF Counters
<1>6. Wire(e)'
  BY <1>0, <1>1, <1>2, WireTaken
<1>7. Wire(f)'
  <2>1. Signed(t, written[e]) /\ OnlyAck(t) /\ t.flags # "FIN"
    BY DEF Signed, OnlyAck
  <2>2. t.ack <= yAck'[e]
    BY <1>4
  <2> QED
    BY <1>0, <1>1, <1>2, <2>1, <2>2, WireAfterHeader
<1> QED
  BY <1>2, <1>3, <1>5, <1>6, <1>7, NumberedFrom

LEMMA NumberedHandleFin ==
    ASSUME SequenceInv, TypeOK', NEW e \in Ends, HandleFin(e)
    PROVE  Numbered'
<1> DEFINE f == Peer(e)
           p == Head(inbound[e])
           t == Header("ACK", nextSeq[e], yAck[e])
<1>0. /\ TypeOK /\ TypeInv /\ f \in Ends /\ f # e /\ Peer(f) = e
      /\ Counters(f) /\ DataOnly(inbound[e])
  BY SequenceFacts DEF SequenceInv, StreamInv
<1>1. /\ "NETWORK_DATA" \in ev[e] /\ p.flags = "FIN" /\ HandlesPacket(e)
      /\ TakeAndSend(e, t) /\ CountFin(e)
      /\ UNCHANGED <<app, written, appRecvQ, closeReq, nextSeq, ackSeq, adWin, yAck>>
  BY DEF HandleFin, HandlesPacket, appVars, seqVars
<1>2. st[e] = "established" /\ adWin[e] = Window /\ up[e]
  BY <1>1, HandlingFacts
<1>3. ready[e] > 0 /\ inbound[e] # <<>> /\ inbound[e] \in Seq(Packet)
  BY <1>0, <1>1, PacketWaiting
<1>4. Size(p) = 0
  <2>1. 1 \in DOMAIN inbound[e] /\ p = inbound[e][1]
    BY <1>3
  <2> QED
    BY <1>0, <1>1, <2>1 DEF DataOnly
<1>5. t \in Packet /\ Size(t) = 0 /\ t.flags = "ACK" /\ t.win = Window /\ t.ack = yAck[e]
  <2>1. nextSeq[e] \in SeqNum /\ yAck[e] \in SeqNum /\ "ACK" \in Flags
    BY <1>0 DEF TypeOK, Flags
  <2> QED
    BY <2>1, HeaderFields, HeaderType
<1> HIDE DEF t
<1>6. /\ ev'[e] = {} /\ ev'[f] = ev[f]
      /\ st'[e] \in {"established", "done"} /\ st'[f] = st[f]
  BY <1>0, <1>1, <1>2, CountFinEffect
<1>7. up' = up
  BY <1>1 DEF TakeAndSend
<1>8. Untouched(f)
  BY <1>1, <1>6, <1>7 DEF Untouched
<1>9. /\ ackSeq[e] \in Nat /\ yAck[e] \in Nat
      /\ ackSeq[e] <= ackSeq'[e] /\ yAck[e] <= yAck'[e] /\ yAck'[e] <= nextSeq[f]
  BY <1>0, <1>1, NumberTypes DEF Counters
<1>10. /\ Own(e)' /\ SentUpTo(e)' = SentUpTo(e)
       /\ CloseHandled(e) => CloseHandled(e)'
  BY <1>1, <1>2, <1>6, <1>7, <1>9, OwnAdvances
<1>11. TakenUpTo(e)' = TakenUpTo(e)
  BY <1>1 DEF TakenUpTo
<1>12. st'[e] # "abort" /\ t.ack = yAck'[e]
  BY <1>1, <1>5, <1>6
<1> QED
  BY <1>1, <1>3, <1>4, <1>5, <1>8, <1>9, <1>10, <1>11, <1>12, NumberedAnswers

\* What an end acknowledges when it handles a payload, or nothing.
LEMMA AckExact ==
    ASSUME SequenceInv, Fits, NEW e \in Ends, HandlesPacket(e),
           NEW p, p = Head(inbound[e]), p.flags \notin {"ACK", "FIN"}
    PROVE  /\ Size(p) = 0 => AckFor(e, p) = yAck[e]
           /\ Size(p) # 0 => AckFor(e, p) = p.hi + 1
           /\ yAck[e] <= AckFor(e, p) /\ AckFor(e, p) <= nextSeq[Peer(e)]
<1> DEFINE f == Peer(e)
<1>0. /\ TypeOK /\ TypeInv /\ f \in Ends /\ Peer(f) = e
      /\ Counters(f) /\ Wire(e)
  BY SequenceFacts DEF SequenceInv, StreamInv
<1>1. yAck[e] >= 1 /\ up[e]
  BY HandlingFacts DEF HandlesPacket
<1>2. inbound[e] # <<>>
  BY <1>0, PacketWaiting
<1>3. /\ p \in Packet /\ Signed(p, written[f])
      /\ Size(p) > 0 => p.lo = TakenUpTo(e) /\ p.hi <= SentUpTo(f)
  BY <1>0, <1>1, <1>2, WireHead
<1>4. /\ p.seq \in Nat /\ p.lo \in Nat /\ p.hi \in Nat /\ Size(p) \in Nat
      /\ p.lo <= p.hi /\ Size(p) = p.hi - p.lo
  BY <1>3, PacketTypes
<1>5. /\ yAck[e] \in Nat /\ yAck[e] <= nextSeq[f] /\ nextSeq[f] \in Nat
      /\ written[f] \in Nat /\ SentUpTo(f) \in Nat /\ SentUpTo(f) <= written[f]
      /\ SeqMod \in Nat /\ SeqMod > 0
  BY <1>0, NumberTypes, SeqModFacts DEF Counters
<1>6. CASE Size(p) = 0
  <2>1. p.seq = 0
    BY <1>3, <1>6 DEF Signed
  <2>2. Plus(p.seq, Size(p)) = 0
    BY <1>5, <1>6, <2>1, PlusExact
  <2> QED
    BY <1>5, <1>6, <2>2 DEF AckFor, Greatest
<1>7. CASE Size(p) # 0
  <2>1. p.seq = p.lo + 1 /\ p.lo = yAck[e] - 1 /\ p.hi <= SentUpTo(f)
    BY <1>1, <1>3, <1>4, <1>5, <1>7 DEF Signed, TakenUpTo
  <2>2. p.seq + Size(p) = p.hi + 1 /\ p.hi + 1 < SeqMod
    BY <1>0, <1>4, <1>5, <2>1 DEF Fits
  <2>3. Plus(p.seq, Size(p)) = p.hi + 1
    BY <1>4, <2>2, PlusExact
  <2>4. AckFor(e, p) = p.hi + 1 /\ yAck[e] <= p.hi + 1
    BY <1>4, <1>5, <2>1, <2>3 DEF AckFor, Greatest
  <2>5. p.hi + 1 <= nextSeq[f]
    BY <1>4, <1>5, <1>7, <2>1 DEF SentUpTo, Least
  <2> QED
    BY <1>7, <2>4, <2>5
<1> QED
  BY <1>6, <1>7

LEMMA NumberedHandlePayload ==
    ASSUME SequenceInv, Fits, TypeOK', NEW e \in Ends, HandlePayload(e)
    PROVE  Numbered'
<1> DEFINE f == Peer(e)
           p == Head(inbound[e])
           a == AckFor(e, p)
           t == Header("ACK", nextSeq[e], a)
<1>0. /\ TypeOK /\ TypeInv /\ f \in Ends /\ f # e /\ Peer(f) = e
  BY SequenceFacts DEF SequenceInv, StreamInv
<1>1. /\ "NETWORK_DATA" \in ev[e] /\ p.flags \notin {"ACK", "FIN"} /\ HandlesPacket(e)
      /\ TakeAndSend(e, t)
      /\ yAck' = [yAck EXCEPT ![e] = a]
      /\ ev' = [ev EXCEPT ![e] = @ \ {"NETWORK_DATA"}]
      /\ UNCHANGED <<app, written, appRecvQ, closeReq, st, nextSeq, ackSeq, adWin>>
  BY DEF HandlePayload, HandlesPacket, appVars
<1>2. st[e] = "established" /\ adWin[e] = Window /\ up[e] /\ yAck[e] >= 1
  BY <1>1, HandlingFacts
<1>3. ready[e] > 0 /\ inbound[e] # <<>> /\ p \in Packet
  BY <1>0, <1>1, PacketWaiting
<1>4. /\ Size(p) = 0 => a = yAck[e]
      /\ Size(p) # 0 => a = p.hi + 1
      /\ yAck[e] <= a /\ a <= nextSeq[f]
  BY <1>1, AckExact
<1>5. a \in SeqNum
  BY <1>0, <1>3, AckForType
<1> HIDE DEF a
<1>6. t \in Packet /\ Size(t) = 0 /\ t.flags = "ACK" /\ t.win = Window /\ t.ack = a
  <2>1. nextSeq[e] \in SeqNum /\ "ACK" \in Flags
    BY <1>0 DEF TypeOK, Flags
  <2> QED
    BY <1>5, <2>1, HeaderFields, HeaderType
<1> HIDE DEF t
<1>7. /\ yAck'[e] = a /\ yAck'[f] = yAck[f]
      /\ ev'[e] \subseteq ev[e] /\ ev'[f] = ev[f]
  BY <1>0, <1>1 DEF TypeOK
<1>8. up' = up
  BY <1>1 DEF TakeAndSend
<1>9. Untouched(f)
  BY <1>1, <1>7, <1>8 DEF Untouched
<1>10. ackSeq[e] \in Nat /\ yAck[e] \in Nat /\ a \in Nat
  BY <1>0, <1>5, NumberTypes, SeqModFacts
<1>11. ackSeq[e] <= ackSeq'[e] /\ yAck[e] <= yAck'[e]
  BY <1>1, <1>4, <1>7, <1>10
<1>12. /\ Own(e)' /\ SentUpTo(e)' = SentUpTo(e)
       /\ CloseHandled(e) => CloseHandled(e)'
  BY <1>1, <1>2, <1>7, <1>8, <1>11, OwnAdvances
<1>13. TakenUpTo(e)' = IF Size(p) = 0 THEN TakenUpTo(e) ELSE p.hi
  <2>1. p.hi \in Nat
    BY <1>3, PacketTypes
  <2> QED
    BY <1>2, <1>4, <1>7, <1>10, <2>1 DEF TakenUpTo
<1>14. /\ st'[e] # "abort" /\ t.ack = yAck'[e] /\ yAck'[e] <= nextSeq[f]
  BY <1>1, <1>2, <1>4, <1>6, <1>7
<1> QED
  BY <1>1, <1>3, <1>6, <1>9, <1>11, <1>12, <1>13, <1>14, NumberedAnswers

-----------------------------------------------------------------------------
(* The close request, the end of the connection and the resets.              *)

LEMMA NumberedHandleClose ==
    ASSUME SequenceInv, Fits, TypeOK', NEW e \in Ends, HandleClose(e)
    PROVE  Numbered'
<1> DEFINE f == Peer(e)
           t == Header("FIN", nextSeq[e], yAck[e])
<1>0. /\ TypeOK /\ f \in Ends /\ f # e /\ Peer(f) = e
      /\ Own(e) /\ Broken(e) /\ Counters(e) /\ Wire(e)
      /\ Own(f) /\ Broken(f) /\ Counters(f) /\ Wire(f)
      /\ Thread(e) /\ Pending(e) /\ FinBound(e)
  BY SequenceFacts
<1>1. /\ "APP_CLOSE_REQUESTED" \in ev[e]
      /\ Send(e, t)
      /\ nextSeq' = [nextSeq EXCEPT ![e] = Plus(nextSeq[e], 1)]
      /\ UNCHANGED <<app, written, appRecvQ, closeReq, st, ackSeq, adWin, yAck>>
      /\ ev'[e] = {} /\ ev'[f] = ev[f]
  BY <1>0 DEF HandleClose, appVars, TypeOK
<1>2. /\ st[e] = "established" /\ up[e] /\ nextSeq[e] >= 1
  BY <1>1, HandlingFacts
<1>3. /\ app[e] = "closing" /\ ~closeReq[e] /\ appRecvQ[e] = <<>> /\ ~CloseHandled(e)
  BY <1>0, <1>1 DEF Pending, FinBound, Thread, CloseHandled
<1>4. /\ nextSeq[e] \in Nat /\ ackSeq[e] \in Nat /\ written[e] \in Nat
      /\ yAck[e] \in Nat /\ yAck[f] \in Nat /\ SentUpTo(e) \in Nat
  BY <1>0, NumberTypes
<1>5. nextSeq[e] = written[e] + 1 /\ SentUpTo(e) = written[e]
  <2>1. Chain(<<>>, SentUpTo(e), written[e]) /\ nextSeq[e] <= written[e] + 1
    BY <1>0, <1>2, <1>3 DEF Own, Sending
  <2>2. SentUpTo(e) = written[e]
    BY <2>1, ChainNothing
  <2> QED
    BY <1>2, <1>4, <2>1, <2>2 DEF SentUpTo, Least
<1>6. nextSeq'[e] = written[e] + 2 /\ nextSeq'[f] = nextSeq[f]
  <2>1. Plus(nextSeq[e], 1) = written[e] + 2
    BY <1>4, <1>5, PlusExact DEF Fits
  <2> QED
    BY <1>0, <1>1, <2>1 DEF TypeOK
<1>7. /\ t \in Packet /\ Size(t) = 0 /\ t.flags = "FIN" /\ t.win = Window
      /\ t.seq = written[e] + 1 /\ t.ack = yAck[e]
  <2>1. nextSeq[e] \in SeqNum /\ yAck[e] \in SeqNum /\ "FIN" \in Flags
    BY <1>0 DEF TypeOK, Flags
  <2> QED
    BY <1>5, <2>1, HeaderFields, HeaderType
<1> HIDE DEF t
<1>8. /\ inbound'[e] = inbound[e] /\ up' = up
      /\ inbound'[f] = IF up[f] THEN Append(inbound[f], t) ELSE inbound[f]
  BY <1>0, <1>1, <1>7, SendEffect
<1>9. Untouched(f)
  BY <1>1, <1>6, <1>8 DEF Untouched
<1>10. CloseHandled(e)' /\ SentUpTo(e)' = SentUpTo(e)
  <2>1. CloseHandled(e)'
    BY <1>1, <1>3 DEF CloseHandled
  <2>2. SentUpTo(e)' = written[e]
    BY <1>1, <1>4, <1>6 DEF SentUpTo, Least
  <2> QED
    BY <1>5, <2>1, <2>2
<1>11. Own(e)'
  <2>1. Sending(e)'
    BY <1>0, <1>1, <1>3, <1>6, <1>8, <1>10 DEF Own, Sending
  <2>2. Stage(e)'
    <3>1. nextSeq'[e] >= 1
      BY <1>4, <1>6
    <3> QED
      BY <1>0, <1>1, <1>2, <3>1 DEF Own, Stage, Handshaking
  <2> QED
    BY <2>1, <2>2 DEF Own
<1>12. Broken(e)' /\ Broken(f)'
  <2>1. reset'[f] = reset[f] /\ (reset'[e] = reset[e] \/ ~up[f])
    BY <1>0, <1>1, <1>7, ResetEffect
  <2> QED
    BY <1>0, <1>1, <1>8, <2>1, BrokenRests
<1>13. Counters(e)' /\ Counters(f)'
  BY <1>0, <1>1, <1>4, <1>5, <1>6 DEF Counters
<1>14. Wire(e)'
  BY <1>0, <1>1, <1>4, <1>8, <1>9, UntouchedFacts, WireRests
<1>15. Wire(f)'
  <2>1. Signed(t, written[e]) /\ yAck[e] <= yAck'[e] /\ t.ack <= yAck'[e]
        /\ yAck'[f] = yAck[f] /\ written'[e] = written[e]
    BY <1>1, <1>4, <1>7 DEF Signed
  <2> QED
    BY <1>0, <1>3, <1>7, <1>8, <1>10, <2>1, WireAfterHeader
<1> QED
  BY <1>9, <1>0, <1>11, <1>12, <1>13, <1>14, <1>15, UntouchedFacts, NumberedFrom

LEMMA NumberedRecvEof ==
    ASSUME SequenceInv, TypeOK', NEW e \in Ends, RecvEof(e)
    PROVE  Numbered'
<1> DEFINE f == Peer(e)
<1>0. /\ TypeOK /\ f \in Ends /\ f # e /\ Peer(f) = e
      /\ Own(e) /\ Broken(e) /\ Counters(e) /\ Wire(e)
      /\ Own(f) /\ Broken(f) /\ Counters(f) /\ Wire(f)
  BY SequenceFacts
<1>1. /\ UNCHANGED <<app, written, appRecvQ, closeReq, up, reset, st, ev>>
      /\ UNCHANGED <<nextSeq, ackSeq, adWin, yAck>>
      /\ inbound'[e] = Append(inbound[e], NoPacket) /\ inbound'[f] = inbound[f]
  BY <1>0 DEF RecvEof, appVars, seqVars, TypeOK
<1>2. Untouched(e) /\ Untouched(f)
  BY <1>1 DEF Untouched
<1>3. /\ NoPacket \in Packet /\ Size(NoPacket) = 0 /\ Signed(NoPacket, written[f])
      /\ OnlyAck(NoPacket) /\ NoPacket.flags # "FIN" /\ NoPacket.ack = 0
  BY NoPacketType DEF NoPacket, Size, Signed, OnlyAck
<1>4. yAck[e] \in Nat /\ yAck[f] \in Nat
  BY <1>0, NumberTypes
<1>5. yAck[f] <= yAck'[f] /\ NoPacket.ack <= yAck'[f] /\ yAck[e] <= yAck'[e]
  BY <1>1, <1>3, <1>4
<1>6. Broken(e)' /\ Broken(f)'
  BY <1>0, <1>1 DEF Broken
<1>7. Counters(e)' /\ Counters(f)'
  BY <1>0, <1>1 DEF Counters
<1>8. Wire(e)'
  BY <1>0, <1>1, <1>2, <1>3, <1>5, UntouchedFacts, WireGets
<1>9. Wire(f)'
  BY <1>0, <1>1, <1>2, <1>5, UntouchedFacts, WireRests
<1> QED
  BY <1>0, <1>2, <1>6, <1>7, <1>8, <1>9, UntouchedFacts, NumberedFrom

\* The socket of e is closed, and nothing of e is left to send.
LEMMA NumberedDisconnect ==
    ASSUME SequenceInv, TypeOK', NEW e \in Ends, Disconnect(e),
           Untouched(Peer(e)),
           UNCHANGED <<written, nextSeq, ackSeq, yAck>>,
           app'[e] # "open", ~closeReq'[e], ev'[e] = {}, appRecvQ'[e] = <<>>,
           st'[e] \in {"exited", "abort"}, st'[e] = "abort" => ~up[Peer(e)]
    PROVE  Numbered'
<1> DEFINE f == Peer(e)
<1>0. /\ TypeOK /\ f \in Ends /\ f # e /\ Peer(f) = e
      /\ Own(e) /\ Broken(e) /\ Counters(e) /\ Wire(e)
      /\ Own(f) /\ Broken(f) /\ Counters(f) /\ Wire(f)
  BY SequenceFacts
<1>1. /\ inbound'[e] = <<>> /\ ~up'[e] /\ inbound'[f] = inbound[f] /\ up'[f] = up[f]
      /\ reset'[e] = reset[e]
  <2>1. reset'[e] = reset[e]
    BY <1>0 DEF Disconnect, TypeOK
  <2> QED
    BY <1>0, <2>1, DisconnectEffect
<1>2. CloseHandled(e)' /\ SentUpTo(e)' = SentUpTo(e)
  BY DEF CloseHandled, SentUpTo
<1>3. Own(e)'
  <2>1. Sending(e)'
    BY <1>0, <1>1, <1>2 DEF Own, Sending
  <2>2. Stage(e)'
    BY DEF Stage, Handshaking
  <2> QED
    BY <2>1, <2>2 DEF Own
<1>4. Broken(e)' /\ Broken(f)'
  BY <1>0, <1>1 DEF Broken
<1>5. Counters(e)' /\ Counters(f)'
  BY <1>0 DEF Counters
<1>6. Wire(e)'
  BY <1>1, WireCut
<1>7. Wire(f)'
  <2>1. yAck[e] <= yAck'[e] /\ yAck'[f] = yAck[f]
    BY <1>0, NumberTypes
  <2> QED
    BY <1>0, <1>1, <1>2, <2>1, WireRests
<1> QED
  BY <1>0, <1>3, <1>4, <1>5, <1>6, <1>7, UntouchedFacts, NumberedFrom

LEMMA NumberedAbort ==
    ASSUME SequenceInv, TypeOK', NEW e \in Ends, reset[e], Abort(e)
    PROVE  Numbered'
<1>0. TypeOK /\ Peer(e) \in Ends /\ Peer(e) # e /\ Broken(e)
  BY SequenceFacts
<1>1. /\ Disconnect(e)
      /\ st' = [st EXCEPT ![e] = "abort"]
      /\ ev' = [ev EXCEPT ![e] = {}]
      /\ app' = [app EXCEPT ![e] = "dead"]
      /\ appRecvQ' = [appRecvQ EXCEPT ![e] = <<>>]
      /\ closeReq' = [closeReq EXCEPT ![e] = FALSE]
      /\ UNCHANGED <<written, nextSeq, ackSeq, adWin, yAck>>
  BY DEF Abort
<1>2. /\ st'[e] = "abort" /\ app'[e] # "open" /\ ~closeReq'[e] /\ ev'[e] = {}
      /\ appRecvQ'[e] = <<>> /\ ~up[Peer(e)]
  BY <1>0, <1>1 DEF TypeOK, Broken
<1>3. up'[Peer(e)] = up[Peer(e)]
  BY <1>0, <1>1, DisconnectEffect
<1>4. Untouched(Peer(e))
  BY <1>0, <1>1, <1>3 DEF Untouched, TypeOK
<1> QED
  BY <1>1, <1>2, <1>4, NumberedDisconnect

LEMMA NumberedMyCloseReturns ==
    ASSUME SequenceInv, TypeOK', NEW e \in Ends, MyCloseReturns(e)
    PROVE  Numbered'
<1>0. TypeOK /\ Peer(e) \in Ends /\ Peer(e) # e /\ Pending(e)
  BY SequenceFacts
<1>1. /\ Disconnect(e) /\ st[e] = "exited"
      /\ app' = [app EXCEPT ![e] = "closed"]
      /\ appRecvQ' = [appRecvQ EXCEPT ![e] = <<>>]
      /\ closeReq' = [closeReq EXCEPT ![e] = FALSE]
      /\ UNCHANGED <<written, nextSeq, ackSeq, adWin, yAck, st, ev>>
  BY DEF MyCloseReturns, seqVars
<1>2. /\ st'[e] = "exited" /\ app'[e] # "open" /\ ~closeReq'[e] /\ ev'[e] = {}
      /\ appRecvQ'[e] = <<>>
  BY <1>0, <1>1 DEF TypeOK, Pending
<1>3. up'[Peer(e)] = up[Peer(e)]
  BY <1>0, <1>1, DisconnectEffect
<1>4. Untouched(Peer(e))
  BY <1>0, <1>1, <1>3 DEF Untouched, TypeOK
<1> QED
  BY <1>1, <1>2, <1>4, NumberedDisconnect

-----------------------------------------------------------------------------
(* The invariant holds.                                                      *)

LEMMA NumberedInit == Init => Numbered
<1> SUFFICES ASSUME Init, NEW e \in Ends PROVE Own(e) /\ Broken(e) /\ Counters(e) /\ Wire(e)
  BY DEF Numbered
<1>1. /\ app[e] = "open" /\ written[e] = 0 /\ appRecvQ[e] = <<>> /\ inbound[e] = <<>>
      /\ up[e] /\ ~reset[e] /\ nextSeq[e] = 0 /\ ackSeq[e] = 0 /\ yAck[e] = 0
      /\ st[e] \in {"init", "listen"}
  BY DEF Init
<1>2. /\ Peer(e) \in Ends /\ nextSeq[Peer(e)] = 0 /\ yAck[Peer(e)] = 0
  BY PeerFacts DEF Init
<1>3. ~CloseHandled(e) /\ SentUpTo(e) = 0 /\ TakenUpTo(e) = 0 /\ SentUpTo(Peer(e)) = 0
  BY <1>1, <1>2 DEF CloseHandled, SentUpTo, TakenUpTo
<1>4. Chain(<<>>, 0, 0)
  BY ChainEmpty
<1>5. Own(e)
  BY <1>1, <1>3, <1>4, SeqModFacts DEF Own, Sending, Stage, Handshaking
<1>6. Broken(e) /\ Counters(e)
  BY <1>1, <1>2 DEF Broken, Counters
<1>7. Wire(e)
  BY <1>1, <1>3, <1>4, SignedEmpty DEF Wire
<1> QED
  BY <1>5, <1>6, <1>7

LEMMA NumberedNext ==
    ASSUME SequenceInv, Fits, TypeOK', [Next]_vars
    PROVE  Numbered'
<1>1. CASE UNCHANGED vars
  BY <1>1 DEF vars, SequenceInv, Numbered, Own, Sending, Stage, CloseHandled, SentUpTo,
              TakenUpTo, Broken, Counters, Wire
<1>2. ASSUME NEW e \in Ends, Handshake(e) PROVE Numbered'
  BY <1>2, NumberedSendSyn, NumberedRecvSyn, NumberedRecvSynAck, NumberedRecvHandshakeAck
     DEF Handshake
<1>3. ASSUME NEW e \in Ends, ControlLoop(e) PROVE Numbered'
  <2>1. CASE AssertDataSent(e)
    BY <2>1, NumberedAbort DEF AssertDataSent
  <2> QED
    BY <1>3, <2>1, NumberedWaitForEvent, NumberedHandleAppData, NumberedHandleAck,
       NumberedHandleFin, NumberedHandlePayload, NumberedHandleClose, NumberedThreadExit
    DEF ControlLoop
<1>4. ASSUME NEW e \in Ends, RecvThread(e) PROVE Numbered'
  BY <1>4, NumberedRecvPacket, NumberedRecvEof, NumberedAbort DEF RecvThread, AssertPoll
<1>5. ASSUME NEW e \in Ends, Application(e) PROVE Numbered'
  <2>1. ASSUME NEW n \in 1 .. MaxBytes[e] - written[e], MyWrite(e, n) PROVE Numbered'
    <3>1. n \in Nat
      BY StcpAssumption, SequenceFacts DEF TypeOK
    <3> QED
      BY <2>1, <3>1, NumberedMyWrite
  <2>2. ASSUME NEW len \in 1 .. MaxRead, MyRead(e, len) PROVE Numbered'
    <3>1. len \in Nat
      BY StcpAssumption
    <3> QED
      BY <2>2, <3>1, NumberedRecvPacket
  <2> QED
    BY <1>5, <2>1, <2>2, NumberedMyClose, NumberedMyCloseReturns DEF Application
<1> QED
  BY <1>1, <1>2, <1>3, <1>4, <1>5 DEF Next

\* No application writes more than its bound.
Bounded == \A e \in Ends : written[e] <= MaxBytes[e]

LEMMA WrittenStep ==
    ASSUME TypeOK, NEW e \in Ends,
           Handshake(e) \/ ControlLoop(e) \/ RecvThread(e) \/ Application(e)
    PROVE  \/ written' = written
           \/ \E n \in 1 .. MaxBytes[e] - written[e] :
                 written' = [written EXCEPT ![e] = @ + n]
<1>1. CASE Handshake(e)
  BY <1>1 DEF Handshake, SendSyn, RecvSyn, RecvSynAck, RecvHandshakeAck, appVars
<1>2. CASE ControlLoop(e)
  BY <1>2 DEF ControlLoop, WaitForEvent, HandleAppData, AssertDataSent, HandleAck,
              HandleFinAck, HandleFin, HandlePayload, HandleClose, ThreadExit, Abort, appVars
<1>3. CASE RecvThread(e)
  BY <1>3 DEF RecvThread, RecvPacket, RecvEof, AssertPoll, Abort, appVars
<1>4. CASE Application(e)
  BY <1>4 DEF Application, MyWrite, MyRead, MyClose, MyCloseReturns
<1> QED
  BY <1>1, <1>2, <1>3, <1>4

LEMMA BoundedNext == TypeOK /\ Bounded /\ [Next]_vars => Bounded'
<1> SUFFICES ASSUME TypeOK, Bounded, [Next]_vars, NEW f \in Ends
             PROVE  written'[f] <= MaxBytes[f]
  BY DEF Bounded
<1>0. \A d \in Ends : written[d] \in Nat /\ MaxBytes[d] \in Nat /\ written[d] <= MaxBytes[d]
  BY StcpAssumption DEF TypeOK, Bounded
<1>1. CASE UNCHANGED vars
  BY <1>0, <1>1 DEF vars
<1>2. CASE Next
  <2>1. PICK e \in Ends : Handshake(e) \/ ControlLoop(e) \/ RecvThread(e) \/ Application(e)
    BY <1>2 DEF Next
  <2>2. CASE written' = written
    BY <1>0, <2>2
  <2>3. ASSUME NEW n \in 1 .. MaxBytes[e] - written[e],
               written' = [written EXCEPT ![e] = @ + n]
        PROVE  written'[f] <= MaxBytes[f]
    <3>1. n \in Nat /\ written[e] + n <= MaxBytes[e]
      BY <1>0
    <3> QED
      BY <1>0, <2>3, <3>1 DEF TypeOK
  <2> QED
    BY <2>1, <2>2, <2>3, WrittenStep
<1> QED
  BY <1>1, <1>2

LEMMA FitsFromBound ==
    ASSUME NoWrap, TypeOK, Bounded
    PROVE  Fits
<1> SUFFICES ASSUME NEW e \in Ends PROVE written[e] + 2 < SeqMod
  BY DEF Fits
<1>1. written[e] \in Nat /\ MaxBytes[e] \in Nat /\ SeqMod \in Nat
  BY StcpAssumption DEF TypeOK
<1> QED
  BY <1>1 DEF NoWrap, Bounded

LEMMA SequenceInvariant ==
    ASSUME NoWrap
    PROVE  Spec => [](SequenceInv /\ Bounded)
<1>1. Init => SequenceInv /\ Bounded
  <2>1. Init => Bounded
    BY StcpAssumption DEF Init, Bounded
  <2> QED
    BY <2>1, StreamInit, NumberedInit DEF SequenceInv
<1>2. SequenceInv /\ Bounded /\ [Next]_vars => (SequenceInv /\ Bounded)'
  <2> SUFFICES ASSUME SequenceInv, Bounded, [Next]_vars
               PROVE  SequenceInv' /\ Bounded'
    OBVIOUS
  <2>1. StreamInv /\ TypeOK
    BY DEF SequenceInv, StreamInv, TypeInv
  <2>2. StreamInv'
    BY <2>1, StreamNext
  <2>3. TypeOK'
    BY <2>2 DEF StreamInv, TypeInv
  <2>4. Numbered'
    BY <2>1, <2>3, FitsFromBound, NumberedNext
  <2>5. Bounded'
    BY <2>1, BoundedNext
  <2> QED
    BY <2>2, <2>4, <2>5 DEF SequenceInv
<1> QED
  BY <1>1, <1>2, PTL DEF Spec

-----------------------------------------------------------------------------
(* What follows from it.                                                     *)

LEMMA WindowFollows == SequenceInv => WindowRespected
<1> SUFFICES ASSUME SequenceInv, NEW e \in Ends
             PROVE  /\ \A i, j \in DOMAIN inbound[e] :
                          IsData(inbound[e][i]) /\ IsData(inbound[e][j])
                             => inbound[e][j].hi - inbound[e][i].lo <= Window
                    /\ "APP_DATA" \in ev[e] => SendRoom(e) >= 0
  BY DEF WindowRespected
<1> DEFINE f == Peer(e)
           q == inbound[e]
<1>0. /\ TypeOK /\ f \in Ends /\ Peer(f) = e /\ Own(f) /\ Counters(f) /\ Wire(e) /\ Thread(e)
  BY SequenceFacts
<1>1. "APP_DATA" \in ev[e] => SendRoom(e) >= 0
  BY RoomFacts
<1>2. ASSUME NEW i \in DOMAIN q, NEW j \in DOMAIN q, IsData(q[i]), IsData(q[j])
      PROVE  q[j].hi - q[i].lo <= Window
  <2>1. /\ q \in Seq(Packet) /\ q[i] \in Packet /\ q[j] \in Packet
    BY <1>0, NumberTypes
  <2>2. /\ q[i].lo \in Nat /\ q[j].lo \in Nat /\ q[i].hi \in Nat /\ q[j].hi \in Nat
        /\ Size(q[i]) = q[i].hi - q[i].lo /\ Size(q[j]) = q[j].hi - q[j].lo
    BY <2>1, PacketTypes
  <2>3. CASE up[e]
    <3>1. Chain(q, TakenUpTo(e), SentUpTo(f))
      BY <1>0, <2>3 DEF Wire
    <3>2. q[i].lo >= TakenUpTo(e) /\ q[j].hi <= SentUpTo(f)
      <4>1. q[i].lo \in Positions(q) /\ q[j].hi - 1 \in Positions(q)
        BY <1>2, <2>2, PositionsOf DEF IsData
      <4> QED
        BY <2>2, <3>1, <4>1 DEF Chain
    <3>3. /\ SentUpTo(f) + 1 <= ackSeq[f] + Window /\ ackSeq[f] <= yAck[e]
          /\ ackSeq[f] \in Nat /\ yAck[e] \in Nat /\ SentUpTo(f) \in Nat
          /\ TakenUpTo(e) \in Nat /\ Window \in Nat
      BY <1>0, NumberTypes, SeqModFacts DEF Own, Sending, Counters
    <3>4. TakenUpTo(e) + 1 >= yAck[e]
      BY <3>3 DEF TakenUpTo
    <3> QED
      BY <2>2, <3>2, <3>3, <3>4
  <2>4. CASE ~up[e]
    BY <1>0, <1>2, <2>2, <2>4 DEF Wire, NoData, IsData
  <2> QED
    BY <2>3, <2>4
<1> QED
  BY <1>1, <1>2

LEMMA AcksFollow == SequenceInv => AcksAreHonest
BY DEF SequenceInv, Numbered, Counters, Wire, AllAcked, AcksAreHonest

LEMMA FinFollows == SequenceInv => FinIsLast
<1> SUFFICES ASSUME SequenceInv, NEW e \in Ends, NEW i \in DOMAIN inbound[e],
                    inbound[e][i].flags = "FIN"
             PROVE  /\ inbound[e][i].seq = written[Peer(e)] + 1
                    /\ \A j \in DOMAIN inbound[e] :
                          j > i /\ inbound[e][j] # NoPacket => inbound[e][j].flags = "ACK"
  BY DEF FinIsLast
<1>0. TypeOK /\ Wire(e)
  BY SequenceFacts
<1>1. inbound[e][i].seq = written[Peer(e)] + 1
  BY <1>0 DEF Wire, AllSigned, Signed
<1>2. ASSUME NEW j \in DOMAIN inbound[e], j > i PROVE OnlyAck(inbound[e][j])
  <2>1. inbound[e] \in Seq(Packet)
    BY <1>0, NumberTypes
  <2>2. i < j
    BY <1>2, <2>1
  <2> QED
    BY <1>0, <2>2 DEF Wire, AcksBehind
<1> QED
  BY <1>1, <1>2 DEF OnlyAck

LEMMA AssertsFollow == SequenceInv => AssertsHold
BY DEF SequenceInv, Numbered, Broken, AssertsHold

-----------------------------------------------------------------------------
(* The theorems.                                                             *)

\* Window: what the data packets on their way to an end hold never exceeds the
\* window that end advertises, and the max_len control_loop() computes from
\* rec_ad_win, next_seq and ack_seq is never negative, as long as no
\* application writes so much that a sequence number wraps.
THEOREM WindowIsRespected ==
    ASSUME NoWrap
    PROVE  Spec => []WindowRespected
BY SequenceInvariant, WindowFollows, PTL

\* Acknowledgements: neither ack_seq nor an acknowledgement on its way covers
\* a byte the peer has not passed up, and y_ack_seq never passes next_seq.
THEOREM AcknowledgementsAreHonest ==
    ASSUME NoWrap
    PROVE  Spec => []AcksAreHonest
BY SequenceInvariant, AcksFollow, PTL

\* FIN: it is numbered behind the last byte written, and only ACKs follow it.
THEOREM FinIsLastPacket ==
    ASSUME NoWrap
    PROVE  Spec => []FinIsLast
BY SequenceInvariant, FinFollows, PTL

\* Asserts: only a connection whose other end is gone makes one fail, so
\* next_seq >= ack_seq at transport.c:285 holds for every acknowledgement.
THEOREM NoAssertFails ==
    ASSUME NoWrap
    PROVE  Spec => []AssertsHold
BY SequenceInvariant, AssertsFollow, PTL

-----------------------------------------------------------------------------
(***************************************************************************)
(* Part 4: the file transfer.                                              *)
(***************************************************************************)
-----------------------------------------------------------------------------
(* What the two programs have said to each other.                            *)

ProgramTypes ==
    /\ client \in {"prompt", "line", "file", "end"}
    /\ server \in {"line", "reply", "file", "done", "end"}
    /\ requests \in Nat /\ fileLen \in Nat
    /\ lineLeft \in [Ends -> Nat]
    /\ length \in Nat /\ fileLeft \in Nat

\* Until the client ends, nobody closes, and nobody meets an end of file.
Quiet(e) == app[e] \in {"open", "dead"} /\ fin[e] = 0 /\ ~HasFin(inbound[e]) /\ ~eof[e]

NobodyCloses ==
    client # "end" => server \notin {"done", "end"} /\ \A e \in Ends : Quiet(e)

\* The server has not yet read all of the line of the request.
Asked ==
    /\ client = "line" /\ server = "line"
    /\ lineLeft[Client] = ReplyLen /\ lineLeft[Server] \in 1 .. RequestLen
    /\ written[Client] = rcvd[Server] + lineLeft[Server]
    /\ written[Server] = rcvd[Client] /\ fileLeft = 0

Understood ==
    /\ client = "line" /\ server = "reply"
    /\ lineLeft[Client] = ReplyLen
    /\ written[Server] = rcvd[Client] /\ fileLeft = 0

\* What the server has written and still has to write is what the client has
\* read and still has to read.
Answered ==
    /\ server = IF fileLeft > 0 THEN "file" ELSE "line"
    /\ \/ /\ client = "line" /\ lineLeft[Client] \in 1 .. ReplyLen
          /\ written[Server] + fileLeft = rcvd[Client] + lineLeft[Client] + fileLen
       \/ /\ client = "file" /\ length > 0
          /\ written[Server] + fileLeft = rcvd[Client] + length
       \/ /\ client = "prompt" /\ fileLeft = 0
          /\ written[Server] = rcvd[Client]

Conversation ==
    \/ Asked
    \/ /\ written[Client] = rcvd[Server] /\ lineLeft[Server] = RequestLen
       /\ Understood \/ Answered

TalkInv == /\ StreamInv /\ ProgramTypes /\ NobodyCloses
           /\ client # "end" => Conversation

LEMMA TwoPrograms ==
    /\ Client \in Ends /\ Server \in Ends /\ Client # Server
    /\ Peer(Client) = Server /\ Peer(Server) = Client
    /\ \A e \in Ends : e = Client \/ e = Server
BY DEF Client, Server, Ends, Peer, Active, Passive

-----------------------------------------------------------------------------
(* As long as nobody closes, no thread does anything a program would see:    *)
(* neither does an end count a FIN nor is one sent.                          *)

LEMMA FinAppend ==
    ASSUME NEW q \in Seq(Packet), NEW t \in Packet, ~HasFin(q), t.flags # "FIN"
    PROVE  ~HasFin(Append(q, t))
<1>1. /\ DOMAIN Append(q, t) = DOMAIN q \cup {Len(q) + 1}
      /\ \A i \in DOMAIN q : Append(q, t)[i] = q[i]
      /\ Append(q, t)[Len(q) + 1] = t
  BY QueueAppend
<1> QED
  BY <1>1 DEF HasFin

LEMMA FinTail ==
    ASSUME NEW q \in Seq(Packet), q # <<>>, ~HasFin(q)
    PROVE  ~HasFin(Tail(q)) /\ Head(q).flags # "FIN"
<1>1. /\ \A i \in DOMAIN Tail(q) : i + 1 \in DOMAIN q /\ Tail(q)[i] = q[i + 1]
      /\ Head(q) = q[1] /\ 1 \in DOMAIN q
  BY QueueTail
<1> QED
  BY <1>1 DEF HasFin

LEMMA QuietSends ==
    ASSUME TypeOK, \A f \in Ends : Quiet(f), NEW e \in Ends, NEW t \in Packet,
           t.flags # "FIN", Send(e, t) \/ (ready[e] > 0 /\ TakeAndSend(e, t)),
           UNCHANGED <<app, eof, fin>>
    PROVE  \A f \in Ends : Quiet(f)'
<1>1. /\ Peer(e) \in Ends /\ inbound[e] \in Seq(Packet) /\ inbound[Peer(e)] \in Seq(Packet)
      /\ ~HasFin(inbound[e]) /\ ~HasFin(inbound[Peer(e)])
  BY PeerFacts DEF TypeOK, Quiet
<1>2. /\ inbound'[e] \in {inbound[e], Tail(inbound[e])}
      /\ inbound'[e] # inbound[e] => inbound[e] # <<>>
      /\ inbound'[Peer(e)] \in {inbound[Peer(e)], Append(inbound[Peer(e)], t)}
  <2>1. CASE Send(e, t)
    BY <2>1, SendEffect
  <2>2. CASE ready[e] > 0 /\ TakeAndSend(e, t)
    BY <2>2, TakeAndSendEffect
  <2> QED
    BY <2>1, <2>2
<1>3. ~HasFin(inbound'[e])
  BY <1>1, <1>2, FinTail
<1>4. ~HasFin(inbound'[Peer(e)])
  BY <1>1, <1>2, FinAppend
<1> QED
  BY <1>3, <1>4, TwoEnds DEF Quiet

LEMMA QuietTakes ==
    ASSUME TypeOK, \A f \in Ends : Quiet(f), NEW e \in Ends,
           ready[e] > 0, Take(e), UNCHANGED <<app, eof, fin>>
    PROVE  \A f \in Ends : Quiet(f)'
<1>1. ~HasFin(inbound[e]) /\ ~HasFin(inbound[Peer(e)])
  BY PeerFacts DEF Quiet
<1>2. /\ inbound[e] # <<>> /\ inbound[e] \in Seq(Packet)
      /\ inbound'[e] = Tail(inbound[e]) /\ inbound'[Peer(e)] = inbound[Peer(e)]
  BY TakeEffect
<1>3. ~HasFin(inbound'[e])
  BY <1>1, <1>2, FinTail
<1> QED
  BY <1>1, <1>2, <1>3, TwoEnds DEF Quiet

LEMMA QuietAborts ==
    ASSUME TypeOK, \A f \in Ends : Quiet(f), NEW e \in Ends, Abort(e)
    PROVE  \A f \in Ends : Quiet(f)'
<1>1. inbound'[e] = <<>> /\ inbound'[Peer(e)] = inbound[Peer(e)]
  BY DisconnectEffect DEF Abort
<1>2. /\ app'[e] = "dead" /\ app'[Peer(e)] = app[Peer(e)]
      /\ UNCHANGED <<eof, fin>>
  BY PeerFacts DEF Abort, TypeOK
<1> QED
  BY <1>1, <1>2, TwoEnds, PacketsEmpty DEF Quiet

LEMMA QuietHandshake ==
    ASSUME StreamInv, \A f \in Ends : Quiet(f), NEW e \in Ends, Handshake(e)
    PROVE  (\A f \in Ends : Quiet(f)') /\ UNCHANGED <<written, rcvd>>
<1>0. TypeOK /\ nextSeq[e] \in SeqNum /\ 0 \in SeqNum
  BY SeqNumFacts DEF StreamInv, TypeInv, TypeOK
<1>1. UNCHANGED <<app, eof, fin, written, rcvd>>
  BY DEF Handshake, SendSyn, RecvSyn, RecvSynAck, RecvHandshakeAck, appVars
<1>2. CASE SendSyn(e)
  <2> DEFINE t == Header("SYN", nextSeq[e], 0)
  <2>1. t \in Packet /\ t.flags # "FIN"
    BY <1>0, HeaderSize, HeaderType DEF Flags
  <2>2. Send(e, t)
    BY <1>2 DEF SendSyn
  <2> HIDE DEF t
  <2> QED
    BY <1>0, <1>1, <2>1, <2>2, QuietSends
<1>3. ASSUME ready[e] > 0 PROVE Plus(Head(inbound[e]).seq, 1) \in SeqNum
  <2>1. Head(inbound[e]) \in Packet
    BY <1>0, <1>3, HeadIsPacket, TypeNet
  <2> QED
    BY <2>1, SeqNumFacts DEF Packet
<1>4. CASE RecvSyn(e)
  <2> DEFINE t == Header("SYN_ACK", nextSeq[e], Plus(Head(inbound[e]).seq, 1))
  <2>1. ready[e] > 0
    BY <1>4 DEF RecvSyn
  <2>2. t \in Packet /\ t.flags # "FIN"
    BY <1>0, <1>3, <2>1, HeaderSize, HeaderType DEF Flags
  <2>3. TakeAndSend(e, t) \/ Take(e)
    BY <1>4 DEF RecvSyn
  <2> HIDE DEF t
  <2> QED
    BY <1>0, <1>1, <2>1, <2>2, <2>3, QuietSends, QuietTakes
<1>5. CASE RecvSynAck(e)
  <2> DEFINE t == Header("ACK", nextSeq[e], Plus(Head(inbound[e]).seq, 1))
  <2>1. ready[e] > 0
    BY <1>5 DEF RecvSynAck
  <2>2. t \in Packet /\ t.flags # "FIN"
    BY <1>0, <1>3, <2>1, HeaderSize, HeaderType DEF Flags
  <2>3. TakeAndSend(e, t) \/ Take(e)
    BY <1>5 DEF RecvSynAck
  <2> HIDE DEF t
  <2> QED
    BY <1>0, <1>1, <2>1, <2>2, <2>3, QuietSends, QuietTakes
<1>6. CASE RecvHandshakeAck(e)
  <2>1. ready[e] > 0 /\ Take(e)
    BY <1>6 DEF RecvHandshakeAck
  <2> QED
    BY <1>0, <1>1, <2>1, QuietTakes
<1> QED
  BY <1>2, <1>4, <1>5, <1>6 DEF Handshake

LEMMA QuietLoop ==
    ASSUME StreamInv, \A f \in Ends : Quiet(f), NEW e \in Ends, ControlLoop(e)
    PROVE  (\A f \in Ends : Quiet(f)') /\ UNCHANGED <<written, rcvd>>
<1>0. /\ TypeOK /\ TypeInv /\ Thread(e) /\ Pending(e) /\ FinBound(e) /\ Quiet(e)
      /\ nextSeq[e] \in SeqNum /\ yAck[e] \in SeqNum
      /\ inbound[e] \in Seq(Packet)
  BY DEF StreamInv, TypeInv, TypeOK, Good
<1>1. CASE WaitForEvent(e)
  BY <1>1 DEF WaitForEvent, appVars, netVars, Quiet
<1>2. CASE HandleAppData(e)
  <2> DEFINE b == Portion(Head(appRecvQ[e]), SendRoom(e))
             t == [Header("DATA", nextSeq[e], yAck[e]) EXCEPT !.lo = b.lo, !.hi = b.hi]
  <2>1. b \in Buffer
    <3>1. appRecvQ[e] # <<>> /\ appRecvQ[e] \in Seq(Buffer)
      BY <1>0, <1>2 DEF HandleAppData, Pending, TypeOK
    <3>2. SendRoom(e) \in Int /\ Head(appRecvQ[e]) \in Buffer
      BY <1>0, <3>1, SendRoomType
    <3> QED
      BY <3>2, PortionType
  <2>2. t \in Packet /\ t.flags # "FIN"
    BY <1>0, <2>1 DEF TypeOK, Header, Packet, Buffer, Flags
  <2>3. /\ UNCHANGED <<app, written, rcvd, eof, fin>>
        /\ Send(e, t) \/ UNCHANGED inbound
    BY <1>2 DEF HandleAppData, appVars, netVars
  <2> HIDE DEF t
  <2>4. CASE Send(e, t)
    BY <1>0, <2>2, <2>3, <2>4, QuietSends
  <2>5. CASE UNCHANGED inbound
    BY <2>3, <2>5 DEF Quiet
  <2> QED
    BY <2>3, <2>4, <2>5
<1>3. CASE AssertDataSent(e)
  BY <1>0, <1>3, QuietAborts DEF AssertDataSent, Abort
<1>4. CASE HandleAck(e)
  <2>1. ready[e] > 0
    BY <1>0, <1>4 DEF HandleAck, HandlesPacket, Pending
  <2>2. UNCHANGED <<written, rcvd>>
    BY <1>4 DEF HandleAck, Abort, appVars
  <2>3. Abort(e) \/ (Take(e) /\ UNCHANGED <<app, eof, fin>>)
    BY <1>4 DEF HandleAck, appVars
  <2> QED
    BY <1>0, <2>1, <2>2, <2>3, QuietAborts, QuietTakes
<1>5. CASE HandleFinAck(e)
  BY <1>0, <1>5 DEF HandleFinAck, Quiet
<1>6. CASE HandleFin(e)
  <2>1. ready[e] > 0 /\ Head(inbound[e]).flags = "FIN"
    BY <1>0, <1>6 DEF HandleFin, HandlesPacket, Pending
  <2>2. inbound[e] # <<>>
    BY <1>0, <2>1 DEF TypeOK
  <2> QED
    BY <1>0, <2>1, <2>2, FinTail DEF Quiet
<1>7. CASE HandlePayload(e)
  <2> DEFINE p == Head(inbound[e])
             t == Header("ACK", nextSeq[e], AckFor(e, p))
  <2>1. ready[e] > 0 /\ HandlesPacket(e)
    BY <1>0, <1>7 DEF HandlePayload, HandlesPacket, Pending
  <2>2. p \in Packet
    BY <1>0, <2>1, PacketFacts
  <2>3. t \in Packet /\ t.flags # "FIN"
    <3>1. AckFor(e, p) \in SeqNum
      BY <1>0, <2>2, AckForType
    <3> QED
      BY <1>0, <3>1, HeaderSize, HeaderType DEF Flags
  <2>4. TakeAndSend(e, t) /\ UNCHANGED <<app, eof, fin, written, rcvd>>
    BY <1>7 DEF HandlePayload, appVars
  <2> HIDE DEF t
  <2> QED
    BY <1>0, <2>1, <2>3, <2>4, QuietSends
<1>8. CASE HandleClose(e)
  <2>1. ev[e] # {} /\ "APP_CLOSE_REQUESTED" \in ev[e]
    BY <1>8 DEF HandleClose
  <2> QED
    BY <1>0, <2>1 DEF FinBound, Quiet
<1>9. CASE ThreadExit(e)
  BY <1>0, <1>9 DEF ThreadExit, Thread, Quiet
<1> QED
  BY <1>1, <1>2, <1>3, <1>4, <1>5, <1>6, <1>7, <1>8, <1>9 DEF ControlLoop

LEMMA QuietRecvThread ==
    ASSUME StreamInv, \A f \in Ends : Quiet(f), NEW e \in Ends, RecvThread(e)
    PROVE  (\A f \in Ends : Quiet(f)') /\ UNCHANGED <<written, rcvd>>
<1>0. TypeOK /\ inbound[e] \in Seq(Packet) /\ ~HasFin(inbound[e])
  BY DEF StreamInv, TypeInv, TypeOK, Quiet
<1>1. CASE RecvPacket(e)
  BY <1>1 DEF RecvPacket, appVars, Quiet
<1>2. CASE RecvEof(e)
  <2>1. ~HasFin(Append(inbound[e], NoPacket))
    BY <1>0, FinAppend, NoPacketType DEF NoPacket
  <2>2. /\ inbound'[e] = Append(inbound[e], NoPacket)
        /\ inbound'[Peer(e)] = inbound[Peer(e)]
        /\ UNCHANGED <<app, eof, fin, written, rcvd>>
    BY <1>0, <1>2, PeerFacts DEF RecvEof, appVars, TypeOK
  <2> QED
    BY <2>1, <2>2, TwoEnds DEF Quiet
<1>3. CASE AssertPoll(e)
  BY <1>0, <1>3, QuietAborts DEF AssertPoll, Abort
<1> QED
  BY <1>1, <1>2, <1>3 DEF RecvThread

\* The threads of the library: while nobody closes, no program sees a step.
LEMMA QuietConnection ==
    ASSUME StreamInv, \A f \in Ends : Quiet(f), NEW e \in Ends, Connection(e)
    PROVE  (\A f \in Ends : Quiet(f)') /\ UNCHANGED <<written, rcvd>>
<1>1. ~MyCloseReturns(e)
  BY DEF MyCloseReturns, Quiet
<1> QED
  BY <1>1, QuietHandshake, QuietLoop, QuietRecvThread DEF Connection

-----------------------------------------------------------------------------
(* What a program reads was written by the other one.                        *)

LEMMA ReadWasWritten ==
    StreamInv => \A e \in Ends : app[e] = "open" => rcvd[e] <= written[Peer(e)]
<1> SUFFICES ASSUME StreamInv, NEW e \in Ends, app[e] = "open"
             PROVE  rcvd[e] <= written[Peer(e)]
  OBVIOUS
<1>1. TypeOK /\ Thread(e) /\ Direction(e)
  BY DEF StreamInv, TypeInv, Good
<1>2. PICK m \in Nat, n \in Nat : Flow(e, m, n)
  BY <1>1 DEF Thread, Direction
<1>3. rcvd[e] <= m /\ m <= n /\ n <= written[Peer(e)]
  BY <1>2 DEF Flow, Chain
<1> QED
  BY <1>1, <1>3, DirectionTypes

LEMMA StillWasWritten ==
    (StreamInv => \A e \in Ends : app[e] = "open" => rcvd[e] <= written[Peer(e)])'
BY ReadWasWritten, PTL

LEMMA QuietRead ==
    ASSUME StreamInv, \A f \in Ends : Quiet(f), NEW e \in Ends,
           NEW len \in Nat \ {0}, MyRead(e, len)
    PROVE  /\ \A f \in Ends : Quiet(f)'
           /\ ~eof'[e] /\ app'[e] = "open"
           /\ rcvd'[e] \in Nat /\ rcvd[e] < rcvd'[e] /\ rcvd'[e] <= rcvd[e] + len
           /\ rcvd'[Peer(e)] = rcvd[Peer(e)] /\ written' = written
<1> DEFINE b == Portion(Head(appSendQ[e]), len)
<1>0. /\ TypeOK /\ Direction(e) /\ ~eof[e] /\ fin[e] = 0 /\ rcvd[e] \in Nat
      /\ Peer(e) \in Ends /\ Peer(e) # e
  BY DirectionTypes, PeerFacts DEF StreamInv, TypeInv, Good, Quiet
<1>1. /\ app[e] = "open" /\ appSendQ[e] # <<>> /\ appSendQ[e] \in Seq(Buffer)
      /\ b \in Buffer /\ Size(b) \in Nat
      /\ Size(b) = 0 => Size(Head(appSendQ[e])) = 0
      /\ IF Size(b) = 0 THEN eof' = [eof EXCEPT ![e] = TRUE] /\ rcvd' = rcvd
         ELSE rcvd' = [rcvd EXCEPT ![e] = @ + Size(b)] /\ eof' = eof
      /\ UNCHANGED <<app, inbound, fin>>
  BY <1>0, MyReadEffect
<1>2. written' = written
  BY DEF MyRead
<1>3. Size(Head(appSendQ[e])) # 0
  <2>1. ~HasEnd(appSendQ[e])
    BY <1>0, <1>1 DEF Direction, Ending
  <2>2. Head(appSendQ[e]) = appSendQ[e][1] /\ 1 \in DOMAIN appSendQ[e]
    BY <1>1
  <2> QED
    BY <2>1, <2>2 DEF HasEnd
<1>4. Size(b) <= len
  <2>1. Head(appSendQ[e]) \in Buffer
    BY <1>1
  <2> QED
    BY <2>1 DEF Portion, Size, Buffer
<1> HIDE DEF b
<1>5. rcvd' = [rcvd EXCEPT ![e] = @ + Size(b)] /\ eof' = eof /\ Size(b) > 0
  BY <1>1, <1>3
<1>6. rcvd'[e] = rcvd[e] + Size(b) /\ rcvd'[Peer(e)] = rcvd[Peer(e)]
  BY <1>0, <1>5 DEF TypeOK
<1>7. \A f \in Ends : Quiet(f)'
  BY <1>1, <1>5 DEF Quiet
<1> QED
  BY <1>0, <1>1, <1>2, <1>4, <1>5, <1>6, <1>7

LEMMA QuietWrite ==
    ASSUME StreamInv, NEW e \in Ends, NEW n \in Nat, MyWrite(e, n)
    PROVE  /\ StreamInv'
           /\ (\A f \in Ends : Quiet(f)) => \A f \in Ends : Quiet(f)'
           /\ written'[e] = written[e] + n /\ written'[Peer(e)] = written[Peer(e)]
           /\ rcvd' = rcvd
<1>1. TypeOK /\ Peer(e) \in Ends /\ Peer(e) # e
  BY PeerFacts DEF StreamInv, TypeInv
<1>2. TypeInv'
  BY TypeMyWrite DEF StreamInv
<1>3. Good'
  BY GoodMyWrite
<1>4. written'[e] = written[e] + n /\ written'[Peer(e)] = written[Peer(e)]
  BY <1>1 DEF MyWrite, TypeOK
<1>5. rcvd' = rcvd
  BY DEF MyWrite
<1>6. (\A f \in Ends : Quiet(f)) => \A f \in Ends : Quiet(f)'
  BY DEF MyWrite, netVars, Quiet
<1> QED
  BY <1>2, <1>3, <1>4, <1>5, <1>6 DEF StreamInv

\* A step of one of the two ends that is one of Stcp keeps its invariant.
LEMMA StreamKept ==
    ASSUME StreamInv, NEW e \in Ends,
           \/ Handshake(e) \/ ControlLoop(e) \/ RecvThread(e) \/ MyCloseReturns(e)
           \/ MyClose(e) \/ \E len \in 1 .. MaxRead : MyRead(e, len)
    PROVE  StreamInv'
<1>1. Next
  BY DEF Next, Application
<1> QED
  BY <1>1, StreamNext

-----------------------------------------------------------------------------
(* Every step of the file transfer keeps the two programs in step.           *)

LEMMA TalkInit == FTInit => TalkInv
<1> SUFFICES ASSUME FTInit PROVE TalkInv
  OBVIOUS
<1>1. StreamInv
  BY StreamInit DEF FTInit
<1>2. ProgramTypes
  BY FileTransferAssumption DEF FTInit, ProgramTypes
<1>3. NobodyCloses
  BY PacketsEmpty DEF FTInit, Init, NobodyCloses, Quiet
<1>4. Conversation
  BY TwoPrograms DEF FTInit, Init, Conversation, Answered
<1> QED
  BY <1>1, <1>2, <1>3, <1>4 DEF TalkInv

LEMMA TalkTypes ==
    ASSUME TalkInv
    PROVE  /\ rcvd[Client] \in Nat /\ rcvd[Server] \in Nat
           /\ written[Client] \in Nat /\ written[Server] \in Nat
           /\ lineLeft[Client] \in Nat /\ lineLeft[Server] \in Nat
BY TwoPrograms DEF TalkInv, StreamInv, TypeInv, TypeOK, ProgramTypes

\* A program that reads what it has not been sent would have to wait.
LEMMA NothingToRead ==
    ASSUME TalkInv, client # "end", NEW e \in Ends, NEW len \in 1 .. MaxRead, MyRead(e, len)
    PROVE  /\ StreamInv' /\ \A f \in Ends : Quiet(f)'
           /\ ~eof'[e] /\ rcvd'[e] \in Nat
           /\ rcvd[e] < rcvd'[e] /\ rcvd'[e] <= rcvd[e] + len /\ rcvd'[e] <= written[Peer(e)]
           /\ rcvd'[Peer(e)] = rcvd[Peer(e)] /\ written' = written
<1>1. StreamInv'
  BY StreamKept DEF TalkInv
<1>2. len \in Nat \ {0}
  BY StcpAssumption
<1>3. /\ \A f \in Ends : Quiet(f)'
      /\ ~eof'[e] /\ app'[e] = "open"
      /\ rcvd'[e] \in Nat /\ rcvd[e] < rcvd'[e] /\ rcvd'[e] <= rcvd[e] + len
      /\ rcvd'[Peer(e)] = rcvd[Peer(e)] /\ written' = written
  BY <1>2, QuietRead DEF TalkInv, NobodyCloses
<1>4. (StreamInv => \A f \in Ends : app[f] = "open" => rcvd[f] <= written[Peer(f)])'
  BY StillWasWritten
<1>5. rcvd'[e] <= written[Peer(e)]
  BY <1>1, <1>3, <1>4
<1> QED
  BY <1>1, <1>3, <1>5

LEMMA TalkSendRequest ==
    ASSUME TalkInv, SendRequest
    PROVE  TalkInv'
<1>1. /\ client = "prompt" /\ MyWrite(Client, RequestLen) /\ requests' = requests + 1
      /\ fileLen' \in FileLens /\ client' = "line"
      /\ lineLeft' = [lineLeft EXCEPT ![Client] = ReplyLen]
      /\ server' = server /\ length' = length /\ fileLeft' = fileLeft
  BY DEF SendRequest
<1>2. /\ StreamInv /\ ProgramTypes /\ Conversation /\ server \notin {"done", "end"}
      /\ \A e \in Ends : Quiet(e)
  BY <1>1 DEF TalkInv, NobodyCloses
<1>3. ReplyLen \in Nat \ {0} /\ RequestLen \in Nat \ {0} /\ FileLens \subseteq Nat
  BY FileTransferAssumption
<1>4. /\ StreamInv' /\ \A f \in Ends : Quiet(f)'
      /\ written'[Client] = written[Client] + RequestLen
      /\ written'[Server] = written[Server] /\ rcvd' = rcvd
  BY <1>1, <1>2, <1>3, QuietWrite, TwoPrograms
<1>5. lineLeft'[Client] = ReplyLen /\ lineLeft'[Server] = lineLeft[Server]
      /\ lineLeft' \in [Ends -> Nat]
  BY <1>1, <1>2, <1>3, TwoPrograms DEF ProgramTypes
<1>6. ProgramTypes'
  BY <1>1, <1>2, <1>3, <1>5 DEF ProgramTypes
<1>7. /\ written[Client] = rcvd[Server] /\ lineLeft[Server] = RequestLen
      /\ fileLeft = 0 /\ server = "line" /\ written[Server] = rcvd[Client]
  BY <1>1, <1>2 DEF Conversation, Asked, Understood, Answered
<1>8. Asked'
  BY <1>1, <1>3, <1>4, <1>5, <1>7 DEF Asked
<1> QED
  BY <1>1, <1>2, <1>4, <1>6, <1>8 DEF TalkInv, NobodyCloses, Conversation

LEMMA TalkClientReadsLine ==
    ASSUME TalkInv, ClientReadsLine
    PROVE  TalkInv'
<1>1. /\ client = "line" /\ MyRead(Client, 1)
      /\ server' = server /\ requests' = requests /\ fileLen' = fileLen
      /\ fileLeft' = fileLeft
  BY DEF ClientReadsLine
<1>2. /\ StreamInv /\ ProgramTypes /\ Conversation /\ server \notin {"done", "end"}
  BY <1>1 DEF TalkInv, NobodyCloses
<1>3. 1 \in 1 .. MaxRead
  BY StcpAssumption
<1>4. /\ StreamInv' /\ \A f \in Ends : Quiet(f)'
      /\ ~eof'[Client] /\ rcvd'[Client] \in Nat
      /\ rcvd[Client] < rcvd'[Client] /\ rcvd'[Client] <= rcvd[Client] + 1
      /\ rcvd'[Client] <= written[Server]
      /\ rcvd'[Server] = rcvd[Server] /\ written' = written
  BY <1>1, <1>3, NothingToRead, TwoPrograms
<1>t. /\ rcvd[Client] \in Nat /\ written[Server] \in Nat /\ lineLeft[Client] \in Nat
      /\ fileLen \in Nat /\ fileLeft \in Nat
  BY <1>2, TalkTypes DEF ProgramTypes
<1>5. rcvd'[Client] = rcvd[Client] + 1
  BY <1>4, <1>t
<1>6. /\ server = IF fileLeft > 0 THEN "file" ELSE "line"
      /\ lineLeft[Client] \in 1 .. ReplyLen
      /\ written[Server] + fileLeft = rcvd[Client] + lineLeft[Client] + fileLen
      /\ written[Client] = rcvd[Server] /\ lineLeft[Server] = RequestLen
  BY <1>1, <1>2, <1>4, <1>t DEF Conversation, Asked, Understood, Answered
<1>7. /\ lineLeft' = [lineLeft EXCEPT ![Client] = @ - 1]
      /\ IF lineLeft[Client] > 1
         THEN client' = client /\ length' = length
         ELSE /\ length' = fileLen
              /\ client' = IF fileLen = 0 THEN "prompt" ELSE "file"
  BY <1>4 DEF ClientReadsLine
<1>8. lineLeft'[Client] = lineLeft[Client] - 1 /\ lineLeft'[Server] = lineLeft[Server]
      /\ lineLeft' \in [Ends -> Nat]
  BY <1>2, <1>6, <1>7, <1>t, TwoPrograms DEF ProgramTypes
<1>9. ProgramTypes'
  BY <1>1, <1>2, <1>7, <1>8 DEF ProgramTypes
<1>10. Answered'
  <2> DEFINE r == rcvd[Client]  r1 == rcvd'[Client]  w == written[Server]
             l == lineLeft[Client]
  <2>1. /\ r \in Nat /\ w \in Nat /\ l \in Nat /\ l >= 1 /\ r1 = r + 1 /\ r1 <= w
        /\ w + fileLeft = r + l + fileLen
    BY <1>4, <1>5, <1>6, <1>t
  <2>2. CASE l > 1
    <3>1. w + fileLeft = r1 + (l - 1) + fileLen /\ l - 1 >= 1
      BY <2>1, <2>2, <1>t
    <3>2. ReplyLen \in Nat /\ l - 1 \in 1 .. ReplyLen
      BY <2>1, <2>2, <1>6, FileTransferAssumption
    <3> QED
      BY <1>1, <1>4, <1>6, <1>7, <1>8, <2>2, <3>1, <3>2 DEF Answered
  <2>3. CASE ~(l > 1)
    <3>1. w + fileLeft = r1 + fileLen /\ (fileLen = 0 => fileLeft = 0 /\ w = r1)
      BY <2>1, <2>3, <1>t
    <3> QED
      BY <1>1, <1>4, <1>6, <1>7, <1>t, <2>3, <3>1 DEF Answered
  <2> QED
    BY <2>2, <2>3
<1> QED
  BY <1>1, <1>2, <1>4, <1>6, <1>8, <1>9, <1>10 DEF TalkInv, NobodyCloses, Conversation

LEMMA TalkClientReadsFile ==
    ASSUME TalkInv, ClientReadsFile
    PROVE  TalkInv'
<1> DEFINE len == Least(length, MaxRead)
<1>1. /\ client = "file" /\ MyRead(Client, len)
      /\ length' = length - (rcvd'[Client] - rcvd[Client])
      /\ server' = server /\ requests' = requests /\ fileLen' = fileLen
      /\ lineLeft' = lineLeft /\ fileLeft' = fileLeft
  BY DEF ClientReadsFile
<1>2. /\ StreamInv /\ ProgramTypes /\ Conversation /\ server \notin {"done", "end"}
  BY <1>1 DEF TalkInv, NobodyCloses
<1>t. /\ rcvd[Client] \in Nat /\ written[Server] \in Nat
      /\ length \in Nat /\ fileLeft \in Nat /\ lineLeft[Client] \in Nat /\ fileLen \in Nat
  BY <1>2, TalkTypes DEF ProgramTypes
<1>3. /\ server = IF fileLeft > 0 THEN "file" ELSE "line"
      /\ length > 0 /\ written[Server] + fileLeft = rcvd[Client] + length
      /\ written[Client] = rcvd[Server] /\ lineLeft[Server] = RequestLen
  BY <1>1, <1>2 DEF Conversation, Asked, Understood, Answered
<1>4. len \in 1 .. MaxRead /\ len <= length
  BY <1>3, <1>t, StcpAssumption DEF Least
<1> HIDE DEF len
<1>5. /\ StreamInv' /\ \A f \in Ends : Quiet(f)'
      /\ ~eof'[Client] /\ rcvd'[Client] \in Nat
      /\ rcvd[Client] < rcvd'[Client] /\ rcvd'[Client] <= rcvd[Client] + len
      /\ rcvd'[Client] <= written[Server]
      /\ rcvd'[Server] = rcvd[Server] /\ written' = written
  BY <1>1, <1>4, NothingToRead, TwoPrograms
<1>6. client' = IF length' = 0 THEN "prompt" ELSE "file"
  BY <1>5 DEF ClientReadsFile
<1>7. /\ length' \in Nat
      /\ written[Server] + fileLeft = rcvd'[Client] + length'
      /\ length' = 0 => fileLeft = 0 /\ written[Server] = rcvd'[Client]
  <2> DEFINE r == rcvd[Client]  r1 == rcvd'[Client]  w == written[Server]
  <2>1. /\ r \in Nat /\ w \in Nat /\ r1 \in Nat /\ r < r1 /\ r1 <= r + len /\ r1 <= w
        /\ w + fileLeft = r + length /\ length' = length - (r1 - r) /\ len <= length
        /\ len \in Int
    BY <1>1, <1>3, <1>4, <1>5, <1>t
  <2> HIDE DEF r, r1, w
  <2>2. /\ length' \in Nat /\ w + fileLeft = r1 + length'
        /\ length' = 0 => fileLeft = 0 /\ w = r1
    BY <2>1, <1>t
  <2> QED
    BY <2>2 DEF r1, w
<1>8. ProgramTypes'
  BY <1>1, <1>2, <1>6, <1>7 DEF ProgramTypes
<1>9. Answered'
  BY <1>1, <1>3, <1>5, <1>6, <1>7 DEF Answered
<1> QED
  BY <1>1, <1>2, <1>3, <1>5, <1>6, <1>8, <1>9 DEF TalkInv, NobodyCloses, Conversation

\* Whatever happens once the client has ended.
LEMMA TalkIsOver ==
    ASSUME client' = "end", StreamInv', ProgramTypes'
    PROVE  TalkInv'
BY DEF TalkInv, NobodyCloses

LEMMA TalkServerReadsLine ==
    ASSUME TalkInv, ServerReadsLine
    PROVE  TalkInv'
<1>1. /\ server = "line" /\ MyRead(Server, 1)
      /\ client' = client /\ requests' = requests /\ fileLen' = fileLen
      /\ length' = length /\ fileLeft' = fileLeft
  BY DEF ServerReadsLine
<1>2. StreamInv /\ ProgramTypes
  BY DEF TalkInv
<1>3. 1 \in 1 .. MaxRead
  BY StcpAssumption
<1>4. StreamInv'
  BY <1>1, <1>2, <1>3, StreamKept, TwoPrograms
<1>t. /\ rcvd[Server] \in Nat /\ written[Client] \in Nat /\ lineLeft[Server] \in Nat
      /\ RequestLen \in Nat /\ RequestLen >= 1
  BY TalkTypes, FileTransferAssumption
<1>5. ProgramTypes'
  <2>1. lineLeft' \in [Ends -> Nat] /\ server' \in {"line", "reply", "done"}
    BY <1>2, <1>t, TwoPrograms DEF ServerReadsLine, ProgramTypes
  <2> QED
    BY <1>1, <1>2, <2>1 DEF ProgramTypes
<1>6. CASE client = "end"
  BY <1>1, <1>4, <1>5, <1>6, TalkIsOver
<1>7. CASE client # "end"
  <2>1. Conversation
    BY <1>7 DEF TalkInv
  <2>2. /\ \A f \in Ends : Quiet(f)'
        /\ ~eof'[Server] /\ rcvd'[Server] \in Nat
        /\ rcvd[Server] < rcvd'[Server] /\ rcvd'[Server] <= rcvd[Server] + 1
        /\ rcvd'[Server] <= written[Client]
        /\ rcvd'[Client] = rcvd[Client] /\ written' = written
    BY <1>1, <1>3, <1>7, NothingToRead, TwoPrograms
  <2>3. rcvd'[Server] = rcvd[Server] + 1
    BY <2>2, <1>t
  <2>4. Asked
    BY <1>t, <2>1, <2>2 DEF Conversation
  <2>5. /\ lineLeft' = [lineLeft EXCEPT ![Server] = IF @ > 1 THEN @ - 1 ELSE RequestLen]
        /\ server' = IF lineLeft[Server] > 1 THEN "line" ELSE "reply"
    BY <2>2 DEF ServerReadsLine
  <2>6. /\ lineLeft'[Client] = lineLeft[Client]
        /\ lineLeft'[Server] = IF lineLeft[Server] > 1 THEN lineLeft[Server] - 1 ELSE RequestLen
    BY <1>2, <2>5, TwoPrograms DEF ProgramTypes
  <2>7. CASE lineLeft[Server] > 1
    <3>1. /\ lineLeft'[Server] \in 1 .. RequestLen
          /\ written[Client] = rcvd'[Server] + lineLeft'[Server]
      BY <1>t, <2>3, <2>4, <2>6, <2>7 DEF Asked
    <3>2. Asked'
      BY <1>1, <2>2, <2>4, <2>5, <2>6, <2>7, <3>1 DEF Asked
    <3> QED
      BY <1>1, <1>4, <1>5, <2>2, <2>5, <2>7, <3>2 DEF TalkInv, NobodyCloses, Conversation
  <2>8. CASE ~(lineLeft[Server] > 1)
    <3>1. written[Client] = rcvd'[Server] /\ lineLeft'[Server] = RequestLen
      BY <1>t, <2>3, <2>4, <2>6, <2>8 DEF Asked
    <3>2. Understood'
      BY <1>1, <2>2, <2>4, <2>5, <2>6, <2>8 DEF Asked, Understood
    <3> QED
      BY <1>1, <1>4, <1>5, <2>2, <2>5, <2>8, <3>1, <3>2 DEF TalkInv, NobodyCloses, Conversation
  <2> QED
    BY <2>7, <2>8
<1> QED
  BY <1>6, <1>7

LEMMA TalkServerReplies ==
    ASSUME TalkInv, ServerReplies
    PROVE  TalkInv'
<1>1. /\ server = "reply" /\ MyWrite(Server, ReplyLen) /\ fileLeft' = fileLen
      /\ server' = IF fileLen = 0 THEN "line" ELSE "file"
      /\ client' = client /\ requests' = requests /\ fileLen' = fileLen
      /\ lineLeft' = lineLeft /\ length' = length
  BY DEF ServerReplies
<1>2. /\ StreamInv /\ ProgramTypes /\ ReplyLen \in Nat /\ ReplyLen >= 1
      /\ fileLen \in Nat /\ rcvd[Client] \in Nat
  BY TalkTypes, FileTransferAssumption DEF TalkInv, ProgramTypes
<1>3. /\ StreamInv'
      /\ (\A f \in Ends : Quiet(f)) => \A f \in Ends : Quiet(f)'
      /\ written'[Server] = written[Server] + ReplyLen
      /\ written'[Client] = written[Client] /\ rcvd' = rcvd
  BY <1>1, <1>2, QuietWrite, TwoPrograms
<1>4. ProgramTypes'
  BY <1>1, <1>2 DEF ProgramTypes
<1>5. CASE client = "end"
  BY <1>1, <1>3, <1>4, <1>5, TalkIsOver
<1>6. CASE client # "end"
  <2>1. Conversation /\ \A f \in Ends : Quiet(f)
    BY <1>6 DEF TalkInv, NobodyCloses
  <2>2. /\ written[Client] = rcvd[Server] /\ lineLeft[Server] = RequestLen
        /\ client = "line" /\ lineLeft[Client] = ReplyLen
        /\ written[Server] = rcvd[Client]
    BY <1>1, <2>1 DEF Conversation, Asked, Understood, Answered
  <2>3. written'[Server] + fileLen = rcvd[Client] + ReplyLen + fileLen
    BY <1>2, <1>3, <2>2
  <2>4. ReplyLen \in 1 .. ReplyLen /\ (fileLen > 0 <=> fileLen # 0)
    BY <1>2
  <2>5. Answered'
    BY <1>1, <1>3, <2>2, <2>3, <2>4 DEF Answered
  <2> QED
    BY <1>1, <1>3, <1>4, <2>1, <2>2, <2>5 DEF TalkInv, NobodyCloses, Conversation
<1> QED
  BY <1>5, <1>6

LEMMA TalkServerSendsFile ==
    ASSUME TalkInv, ServerSendsFile
    PROVE  TalkInv'
<1>1. /\ server = "file" /\ MyWrite(Server, Chunk) /\ fileLeft' = fileLeft - Chunk
      /\ server' = IF fileLeft' = 0 THEN "line" ELSE "file"
      /\ client' = client /\ requests' = requests /\ fileLen' = fileLen
      /\ lineLeft' = lineLeft /\ length' = length
  BY DEF ServerSendsFile
<1>2. /\ StreamInv /\ ProgramTypes /\ fileLeft \in Nat
      /\ rcvd[Client] \in Nat /\ written[Server] \in Nat
  BY TalkTypes DEF TalkInv, ProgramTypes
<1>c. Chunk \in Nat /\ Chunk <= fileLeft
  BY <1>2, FileTransferAssumption DEF Chunk, Least
<1>3. /\ StreamInv'
      /\ (\A f \in Ends : Quiet(f)) => \A f \in Ends : Quiet(f)'
      /\ written'[Server] = written[Server] + Chunk
      /\ written'[Client] = written[Client] /\ rcvd' = rcvd
  BY <1>1, <1>2, <1>c, QuietWrite, TwoPrograms
<1>4. fileLeft' \in Nat /\ written'[Server] + fileLeft' = written[Server] + fileLeft
  BY <1>1, <1>2, <1>3, <1>c
<1>5. ProgramTypes'
  BY <1>1, <1>2, <1>4 DEF ProgramTypes
<1>6. CASE client = "end"
  BY <1>1, <1>3, <1>5, <1>6, TalkIsOver
<1>7. CASE client # "end"
  <2>1. Conversation /\ \A f \in Ends : Quiet(f)
    BY <1>7 DEF TalkInv, NobodyCloses
  <2>2. /\ written[Client] = rcvd[Server] /\ lineLeft[Server] = RequestLen /\ Answered
    BY <1>1, <2>1 DEF Conversation, Asked, Understood
  <2>3. fileLeft > 0
    BY <1>1, <2>2 DEF Answered
  <2>4. server' = IF fileLeft' > 0 THEN "file" ELSE "line"
    BY <1>1, <1>4
  <2>5. Answered'
    BY <1>1, <1>3, <1>4, <2>2, <2>3, <2>4 DEF Answered
  <2> QED
    BY <1>1, <1>3, <1>5, <2>1, <2>2, <2>4, <2>5 DEF TalkInv, NobodyCloses, Conversation
<1> QED
  BY <1>6, <1>7

LEMMA TalkCloses ==
    ASSUME TalkInv, ClientCloses \/ ServerCloses
    PROVE  TalkInv'
<1>1. /\ client' = "end" /\ server' \in {server, "end"}
      /\ UNCHANGED <<requests, fileLen, lineLeft, length, fileLeft>>
      /\ MyClose(Client) \/ MyClose(Server)
  BY DEF ClientCloses, ServerCloses, TalkInv, NobodyCloses
<1>2. StreamInv'
  BY <1>1, StreamKept, TwoPrograms DEF TalkInv
<1>3. ProgramTypes'
  BY <1>1 DEF TalkInv, ProgramTypes
<1> QED
  BY <1>1, <1>2, <1>3, TalkIsOver

LEMMA TalkConnection ==
    ASSUME TalkInv, NEW e \in Ends, Connection(e)
    PROVE  TalkInv'
<1>1. UNCHANGED <<client, server, requests, fileLen, lineLeft, length, fileLeft>>
  BY DEF Connection, ftVars
<1>2. StreamInv'
  BY StreamKept DEF Connection, TalkInv
<1>3. ProgramTypes'
  BY <1>1 DEF TalkInv, ProgramTypes
<1>4. CASE client = "end"
  BY <1>1, <1>2, <1>3, <1>4, TalkIsOver
<1>5. CASE client # "end"
  <2>1. (\A f \in Ends : Quiet(f)') /\ UNCHANGED <<written, rcvd>>
    BY <1>5, QuietConnection DEF TalkInv, NobodyCloses
  <2>2. Conversation'
    BY <1>1, <1>5, <2>1 DEF TalkInv, Conversation, Asked, Understood, Answered
  <2> QED
    BY <1>1, <1>2, <1>3, <1>5, <2>1, <2>2 DEF TalkInv, NobodyCloses
<1> QED
  BY <1>4, <1>5

LEMMA TalkNext == TalkInv /\ [FTNext]_allVars => TalkInv'
<1> SUFFICES ASSUME TalkInv, [FTNext]_allVars PROVE TalkInv'
  OBVIOUS
<1>1. CASE UNCHANGED allVars
  <2>1. UNCHANGED vars /\ UNCHANGED ftVars
    BY <1>1 DEF allVars
  <2>2. StreamInv'
    BY <2>1, StreamNext DEF TalkInv
  <2>3. ProgramTypes'
    BY <2>1 DEF TalkInv, ProgramTypes, ftVars
  <2>4. NobodyCloses'
    BY <2>1 DEF TalkInv, NobodyCloses, Quiet, vars, ftVars
  <2>5. client # "end" => Conversation'
    BY <2>1 DEF TalkInv, Conversation, Asked, Understood, Answered, vars, ftVars
  <2> QED
    BY <2>1, <2>2, <2>3, <2>4, <2>5 DEF TalkInv, ftVars
<1> QED
  BY <1>1, TalkSendRequest, TalkClientReadsLine, TalkClientReadsFile, TalkServerReadsLine,
     TalkServerReplies, TalkServerSendsFile, TalkCloses, TalkConnection
  DEF FTNext, ClientReads, ServerRuns

\* At its prompt the client has read every answer in full, and the server every
\* request; and no program ever meets an end of file in the middle of a line or
\* of a file (client.c:258), whatever the threads and the network do.
THEOREM ProgramsKeepInStep == FTSpec => []PromptInStep
<1>1. TalkInv => PromptInStep
  BY DEF TalkInv, ProgramTypes, Conversation, Asked, Understood, Answered, PromptInStep
<1> QED
  BY <1>1, TalkInit, TalkNext, PTL DEF FTSpec

-----------------------------------------------------------------------------
(* The life of the connection: the programs talk; then the client closes, and *)
(* nothing but acknowledgements and the two FINs is on its way.              *)

Unbroken == \A e \in Ends : st[e] # "abort" /\ app[e] # "dead" /\ ~reset[e]

Solid(q)   == \A i \in DOMAIN q : Size(q[i]) > 0
Plain(q)   == \A i \in DOMAIN q : q[i].flags = "ACK" \/ Size(q[i]) > 0
AllAcks(q) == \A i \in DOMAIN q : q[i].flags = "ACK"
AcksThenFin(q) ==
    /\ q # <<>>
    /\ \A i \in DOMAIN q : q[i].flags = IF i = Len(q) THEN "FIN" ELSE "ACK"
LastIsData(q) == q = <<>> \/ Size(q[Len(q)]) > 0

CloseWaits(e) == closeReq[e] \/ "APP_CLOSE_REQUESTED" \in ev[e]

\* The server still has something to read, or to write, or to send.
Busy == rcvd[Server] < written[Client] \/ server = "reply" \/ appRecvQ[Server] # <<>>

\* An acknowledgement of the server is never the last it sends: an answer follows.
Talking ==
    /\ client # "end"
    /\ Early => Len(inbound[Client]) <= 1
    /\ ~Early => /\ Plain(inbound[Client])
                 /\ LastIsData(inbound[Client]) \/ Busy
    /\ st[Server] # "listen" => Plain(inbound[Server])

Settled ==
    /\ client = "end" /\ server \in {"line", "done", "end"}
    /\ server = "line" => lineLeft[Server] = RequestLen /\ ~eof[Server]
    /\ written[Client] = rcvd[Server] /\ written[Server] = rcvd[Client]
    /\ \A e \in Ends : appRecvQ[e] = <<>>

\* The close request of the client, then its FIN, is on its way.
ClientClosing ==
    /\ server = "line" /\ app[Client] = "closing" /\ app[Server] = "open"
    /\ st[Client] = "established" /\ st[Server] \in {"syn_rcvd", "established"}
    /\ inbound[Client] = <<>> /\ fin[Server] = 0
    /\ \/ fin[Client] = 0 /\ CloseWaits(Client) /\ AllAcks(inbound[Server])
       \/ fin[Client] = 1 /\ ~CloseWaits(Client) /\ AcksThenFin(inbound[Server])

\* The server has taken the FIN; its ACK, and its own FIN, are on their way.
ServerClosing ==
    /\ app[Client] = "closing" /\ app[Server] = IF server = "end" THEN "closing" ELSE "open"
    /\ \A e \in Ends : st[e] = "established" /\ fin[e] \in 1 .. 2
    /\ inbound[Server] = <<>> /\ ~CloseWaits(Client)
    /\ CloseWaits(Server) <=> server = "end" /\ fin[Server] = 1
    /\ fin[Server] = 2 => server = "end"
    /\ Len(inbound[Client]) = (2 - fin[Client]) + (fin[Server] - 1)
    /\ fin[Client] = 1 => Head(inbound[Client]).flags = "ACK"
    /\ fin[Server] = 2 => inbound[Client][Len(inbound[Client])].flags = "FIN"

\* The client has counted its three steps, and all that is left is to take its
\* last ACK and to return.
BothClosing ==
    /\ server = "end" /\ \A e \in Ends : app[e] \in {"closing", "closed"} /\ ~CloseWaits(e)
    /\ \A e \in Ends : app[e] = "closed" => st[e] = "exited"
    /\ st[Client] \in {"done", "exited"} /\ ready[Client] = Len(inbound[Client])
    /\ \/ /\ st[Server] = "established" /\ fin[Server] = 2
          /\ inbound[Server] # <<>> /\ Head(inbound[Server]).flags = "ACK"
          /\ Len(inbound[Server]) > 1 => ready[Server] = Len(inbound[Server])
       \/ st[Server] \in {"done", "exited"} /\ ready[Server] = Len(inbound[Server])

Phase == Talking \/ (Settled /\ (ClientClosing \/ ServerClosing \/ BothClosing))

PhaseInv == Unbroken /\ (\A e \in Ends : Solid(appRecvQ[e])) /\ Phase

\* No sequence number wraps: w is a bound on what one request and its answer
\* make either program write.
Owed == IF rcvd[Server] < written[Client] \/ server = "reply" THEN ReplyLen + fileLen
        ELSE fileLeft
Budget(w) == /\ requests <= MaxRequests
             /\ fileLen \in FileLens \cup {0}
             /\ written[Client] <= requests * w
             /\ written[Server] + Owed <= requests * w

\* All the bytes that either program writes have sequence numbers of their own.
FilesFit(w) == /\ RequestLen <= w /\ \A n \in FileLens : ReplyLen + n <= w
               /\ MaxRequests * w + 2 < SeqMod

-----------------------------------------------------------------------------
(* Queues.                                                                   *)

LEMMA PlainQueues ==
    ASSUME NEW q \in Seq(Packet), NEW t \in Packet
    PROVE  /\ Plain(q) /\ (t.flags = "ACK" \/ Size(t) > 0) => Plain(Append(q, t))
           /\ AllAcks(q) /\ t.flags = "FIN" => AcksThenFin(Append(q, t))
           /\ Size(t) > 0 => LastIsData(Append(q, t))
<1> DEFINE r == Append(q, t)
<1>1. /\ DOMAIN r = DOMAIN q \cup {Len(q) + 1} /\ Len(r) = Len(q) + 1 /\ r # <<>>
      /\ \A i \in DOMAIN q : i < Len(q) + 1 /\ r[i] = q[i]
      /\ r[Len(q) + 1] = t /\ Len(q) + 1 \in Nat /\ DOMAIN q \subseteq Nat
  OBVIOUS
<1> HIDE DEF r
<1>2. Plain(q) /\ (t.flags = "ACK" \/ Size(t) > 0) => Plain(r)
  BY <1>1 DEF Plain
<1>3. AllAcks(q) /\ t.flags = "FIN" => AcksThenFin(r)
  BY <1>1 DEF AllAcks, AcksThenFin
<1>4. Size(t) > 0 => LastIsData(r)
  BY <1>1 DEF LastIsData
<1> QED
  BY <1>2, <1>3, <1>4 DEF r

LEMMA TailIsShorter ==
    ASSUME NEW T, NEW q \in Seq(T), q # <<>>
    PROVE  /\ Len(q) \in Nat /\ Len(q) >= 1 /\ Len(Tail(q)) = Len(q) - 1
           /\ \A i \in DOMAIN Tail(q) : i \in Nat
           /\ Len(q) = 1 => Tail(q) = <<>>
           /\ Len(q) # 1 => Tail(q) # <<>> /\ Tail(q)[Len(Tail(q))] = q[Len(q)]
<1>1. /\ Len(q) \in Nat /\ Len(q) >= 1 /\ Len(Tail(q)) = Len(q) - 1
      /\ \A i \in 1 .. Len(q) - 1 : Tail(q)[i] = q[i + 1]
      /\ Tail(q) \in Seq(T) /\ DOMAIN Tail(q) = 1 .. Len(q) - 1
  OBVIOUS
<1>2. ASSUME Len(q) = 1 PROVE Tail(q) = <<>>
  <2>1. Len(Tail(q)) = 0
    BY <1>1, <1>2
  <2>2. Tail(q) # <<>> => Len(Tail(q)) \in Nat \ {0}
    BY <1>1, EmptySeq
  <2> QED
    BY <2>1, <2>2
<1>3. ASSUME Len(q) # 1 PROVE Tail(q) # <<>> /\ Tail(q)[Len(Tail(q))] = q[Len(q)]
  <2>1. Len(q) - 1 \in 1 .. Len(q) - 1 /\ (Len(q) - 1) + 1 = Len(q)
    BY <1>1, <1>3
  <2>2. Tail(q)[Len(q) - 1] = q[Len(q)]
    BY <1>1, <2>1
  <2>3. Tail(q) # <<>>
    <3>1. Len(Tail(q)) # 0 /\ Len(<<>>) = 0
      BY <1>1, <1>3, EmptySeq
    <3> QED
      BY <3>1
  <2> QED
    BY <1>1, <2>2, <2>3
<1> QED
  BY <1>1, <1>2, <1>3

LEMMA PlainTails ==
    ASSUME NEW q \in Seq(Packet), q # <<>>
    PROVE  /\ Plain(q) => Plain(Tail(q)) /\ (Head(q).flags = "ACK" \/ Size(Head(q)) > 0)
           /\ LastIsData(q) => LastIsData(Tail(q))
           /\ AllAcks(q) => AllAcks(Tail(q)) /\ Head(q).flags = "ACK"
           /\ AcksThenFin(q) => \/ Head(q).flags = "ACK" /\ AcksThenFin(Tail(q))
                                \/ Head(q).flags = "FIN" /\ Tail(q) = <<>>
<1> DEFINE r == Tail(q)
<1>1. /\ \A i \in DOMAIN r : i + 1 \in DOMAIN q /\ r[i] = q[i + 1] /\ i \in Nat
      /\ Head(q) = q[1] /\ 1 \in DOMAIN q /\ Len(q) \in Nat /\ Len(q) >= 1
      /\ Len(r) = Len(q) - 1
      /\ Len(q) = 1 => r = <<>>
      /\ Len(q) # 1 => r # <<>> /\ r[Len(r)] = q[Len(q)]
  BY TailIsShorter, QueueTail
<1> HIDE DEF r
<1>2. Plain(q) => Plain(r) /\ (Head(q).flags = "ACK" \/ Size(Head(q)) > 0)
  BY <1>1 DEF Plain
<1>3. LastIsData(q) => LastIsData(r)
  BY <1>1 DEF LastIsData
<1>4. AllAcks(q) => AllAcks(r) /\ Head(q).flags = "ACK"
  BY <1>1 DEF AllAcks
<1>5. ASSUME AcksThenFin(q)
      PROVE  \/ Head(q).flags = "ACK" /\ AcksThenFin(r)
             \/ Head(q).flags = "FIN" /\ r = <<>>
  <2>1. CASE Len(q) = 1
    BY <1>1, <1>5, <2>1 DEF AcksThenFin
  <2>2. CASE Len(q) # 1
    <3>1. Head(q).flags = "ACK"
      BY <1>1, <1>5, <2>2 DEF AcksThenFin
    <3>2. \A i \in DOMAIN r : (i = Len(r) <=> i + 1 = Len(q))
      BY <1>1
    <3>3. AcksThenFin(r)
      BY <1>1, <1>5, <2>2, <3>2 DEF AcksThenFin
    <3> QED
      BY <3>1, <3>3
  <2> QED
    BY <2>1, <2>2
<1> QED
  BY <1>2, <1>3, <1>4, <1>5 DEF r

LEMMA SolidAppend ==
    ASSUME NEW q \in Seq(Buffer), NEW b \in Buffer, Solid(q), Size(b) > 0
    PROVE  Solid(Append(q, b)) /\ Append(q, b) # <<>>
<1>1. /\ DOMAIN Append(q, b) = DOMAIN q \cup {Len(q) + 1}
      /\ \A i \in DOMAIN q : Append(q, b)[i] = q[i]
      /\ Append(q, b)[Len(q) + 1] = b
  BY QueueAppend
<1>2. Append(q, b) # <<>>
  BY AppendProperties
<1> QED
  BY <1>1, <1>2 DEF Solid

\* What is left of a buffer that is sent in part, and that nothing is sent only
\* if the buffer stays.
LEMMA SolidLeftover ==
    ASSUME NEW q \in Seq(Buffer), q # <<>>, Solid(q), NEW room \in Int
    PROVE  /\ Solid(Leftover(q, room))
           /\ Size(Portion(Head(q), room)) > 0 \/ Leftover(q, room) # <<>>
<1>1. /\ Head(q) = q[1] /\ 1 \in DOMAIN q /\ Head(q) \in Buffer
      /\ \A i \in DOMAIN Tail(q) : i + 1 \in DOMAIN q /\ Tail(q)[i] = q[i + 1]
  OBVIOUS
<1>2. Head(q).lo \in Nat /\ Head(q).hi \in Nat /\ Size(Head(q)) > 0
  BY <1>1 DEF Buffer, Solid
<1>3. CASE 0 <= room /\ room < Size(Head(q))
  <2> DEFINE rest == [lo |-> Head(q).lo + room, hi |-> Head(q).hi]
             r == [q EXCEPT ![1] = rest]
  <2>1. Leftover(q, room) = r
    BY <1>3 DEF Leftover
  <2>2. Size(rest) > 0
    BY <1>2, <1>3 DEF Size
  <2>3. DOMAIN r = DOMAIN q /\ r[1] = rest /\ \A i \in DOMAIN q : i # 1 => r[i] = q[i]
    BY <1>1
  <2>4. r # <<>>
    BY <1>1, <2>3
  <2> HIDE DEF r, rest
  <2>5. Solid(r)
    BY <2>2, <2>3 DEF Solid
  <2> QED
    BY <2>1, <2>4, <2>5
<1>4. CASE ~(0 <= room /\ room < Size(Head(q)))
  <2>1. Leftover(q, room) = Tail(q) /\ Portion(Head(q), room) = Head(q)
    BY <1>4 DEF Leftover, Portion
  <2> QED
    BY <1>1, <1>2, <2>1 DEF Solid
<1> QED
  BY <1>3, <1>4

\* Data on its way, or waiting to be sent, has not been read.
LEMMA InTransit ==
    ASSUME StreamInv, NEW e \in Ends, app[e] = "open",
           \/ \E i \in DOMAIN inbound[e] : Size(inbound[e][i]) > 0
           \/ appRecvQ[Peer(e)] # <<>> /\ Solid(appRecvQ[Peer(e)])
    PROVE  rcvd[e] < written[Peer(e)]
<1>1. TypeOK /\ Thread(e) /\ Direction(e)
  BY DEF StreamInv, TypeInv, Good
<1>2. PICK m \in Nat, n \in Nat : Flow(e, m, n)
  BY <1>1 DEF Thread, Direction
<1>3. /\ inbound[e] \in Seq(Packet) /\ appRecvQ[Peer(e)] \in Seq(Buffer)
      /\ rcvd[e] \in Nat /\ written[Peer(e)] \in Nat
  BY <1>1, DirectionTypes
<1>4. rcvd[e] <= m /\ m <= n /\ n <= written[Peer(e)]
  BY <1>2 DEF Flow, Chain
<1>5. ASSUME NEW i \in DOMAIN inbound[e], Size(inbound[e][i]) > 0 PROVE m < n
  <2> DEFINE p == inbound[e][i]
  <2>1. p \in Packet
    BY <1>3
  <2>2. p.lo \in Nat /\ p.hi \in Nat /\ p.lo < p.hi
    BY <1>5, <2>1 DEF Packet, Size
  <2> HIDE DEF p
  <2>3. p.lo \in p.lo .. p.hi - 1
    BY <2>2
  <2>4. p.lo \in Positions(inbound[e])
    BY <2>3, PositionsOf DEF p
  <2> QED
    BY <1>2, <2>4 DEF Flow, Chain
<1>6. ASSUME appRecvQ[Peer(e)] # <<>>, Solid(appRecvQ[Peer(e)]) PROVE n < written[Peer(e)]
  <2> DEFINE q == appRecvQ[Peer(e)]
             b == q[1]
  <2>1. 1 \in DOMAIN q /\ b \in Buffer
    BY <1>3, <1>6
  <2>2. b.lo \in Nat /\ b.hi \in Nat /\ b.lo < b.hi
    BY <1>6, <2>1 DEF Buffer, Size, Solid
  <2>3. Chain(q, n, written[Peer(e)])
    BY <1>2, <1>6 DEF Flow
  <2>4. b.lo \in Positions(q)
    <3> HIDE DEF q
    <3>1. b.lo \in b.lo .. b.hi - 1
      BY <2>2
    <3> QED
      BY <2>1, <3>1, PositionsOf
  <2> HIDE DEF q, b
  <2> QED
    BY <2>3, <2>4, <1>3 DEF Chain
<1> QED
  BY <1>3, <1>4, <1>5, <1>6

-----------------------------------------------------------------------------
(* The threads.                                                              *)

LEMMA NobodyAborts ==
    ASSUME SequenceInv, Unbroken, NEW e \in Ends
    PROVE  /\ ~AssertDataSent(e) /\ ~AssertPoll(e)
           /\ HandleAck(e) => nextSeq[e] >= AckedBy(e, Head(inbound[e]))
<1>1. ~AssertDataSent(e) /\ ~AssertPoll(e)
  BY DEF AssertDataSent, AssertPoll, Unbroken
<1>2. ASSUME HandleAck(e) PROVE nextSeq[e] >= AckedBy(e, Head(inbound[e]))
  <2> DEFINE p == Head(inbound[e])
             f == Peer(e)
  <2>1. /\ f \in Ends /\ Peer(f) = e /\ TypeOK /\ TypeInv /\ Counters(e) /\ Counters(f)
        /\ Wire(e)
    BY SequenceFacts DEF SequenceInv, StreamInv
  <2>2. inbound[e] # <<>> /\ inbound[e] \in Seq(Packet) /\ p \in Packet
    BY <1>2, <2>1, PacketWaiting DEF HandleAck
  <2>3. p.ack <= yAck[f]
    <3>1. p = inbound[e][1] /\ 1 \in DOMAIN inbound[e]
      BY <2>2
    <3> QED
      BY <2>1, <3>1 DEF Wire, AllAcked
  <2>4. /\ p.ack \in Nat /\ yAck[f] \in Nat /\ nextSeq[e] \in Nat /\ ackSeq[e] \in Nat
    BY <2>1, <2>2, PacketTypes, NumberTypes
  <2>5. ackSeq[e] <= yAck[f] /\ yAck[f] <= nextSeq[e]
    BY <2>1 DEF Counters
  <2> HIDE DEF p, f
  <2> QED
    BY <2>3, <2>4, <2>5 DEF AckedBy, Greatest, p
<1> QED
  BY <1>1, <1>2

LEMMA ThreadsRest ==
    ASSUME NEW e \in Ends, Connection(e)
    PROVE  /\ UNCHANGED <<client, server, requests, fileLen, lineLeft, length, fileLeft>>
           /\ UNCHANGED <<written, rcvd, eof>>
<1>1. UNCHANGED <<client, server, requests, fileLen, lineLeft, length, fileLeft>>
  BY DEF Connection, ftVars
<1>2. CASE Handshake(e)
  BY <1>1, <1>2 DEF Handshake, SendSyn, RecvSyn, RecvSynAck, RecvHandshakeAck, appVars
<1>3. CASE ControlLoop(e)
  BY <1>1, <1>3 DEF ControlLoop, WaitForEvent, HandleAppData, AssertDataSent, HandleAck,
              HandleFinAck, HandleFin, HandlePayload, HandleClose, ThreadExit, Abort, appVars
<1>4. CASE RecvThread(e) \/ MyCloseReturns(e)
  BY <1>1, <1>4 DEF RecvThread, RecvPacket, RecvEof, AssertPoll, Abort, MyCloseReturns, appVars
<1> QED
  BY <1>1, <1>2, <1>3, <1>4 DEF Connection

\* As long as its peer is there, no thread of an end fails.
LEMMA UnbrokenKept ==
    ASSUME SequenceInv, Unbroken, NEW e \in Ends, up[Peer(e)],
           Handshake(e) \/ ControlLoop(e) \/ RecvThread(e)
    PROVE  Unbroken' /\ app' = app
<1>1. reset' = reset /\ app' = app /\ \A f \in Ends : st'[f] = st[f] \/ st'[f] # "abort"
  <2>0. TypeOK /\ st \in [Ends -> States] /\ ~AssertDataSent(e) /\ ~AssertPoll(e)
    BY NobodyAborts, SequenceFacts DEF TypeOK
  <2>1. CASE Handshake(e)
    BY <2>0, <2>1 DEF Handshake, SendSyn, RecvSyn, RecvSynAck, RecvHandshakeAck, Send, Take,
                      TakeAndSend, AnswerTo, appVars
  <2>2. CASE HandleAck(e)
    BY <2>2, NobodyAborts DEF HandleAck, Take, appVars
  <2>3. CASE ControlLoop(e) /\ ~HandleAck(e)
    BY <2>0, <2>3 DEF ControlLoop, WaitForEvent, HandleAppData, HandleFinAck, HandleFin,
                      HandlePayload, HandleClose, ThreadExit, CountFin, Send, Take,
                      TakeAndSend, AnswerTo, appVars, netVars
  <2>4. CASE RecvThread(e)
    BY <2>0, <2>4 DEF RecvThread, RecvPacket, RecvEof, appVars
  <2> QED
    BY <2>1, <2>2, <2>3, <2>4
<1> QED
  BY <1>1 DEF Unbroken

LEMMA SolidKept ==
    ASSUME SequenceInv, \A f \in Ends : Solid(appRecvQ[f]), NEW e \in Ends, Connection(e)
    PROVE  \A f \in Ends : Solid(appRecvQ'[f])
<1>0. TypeOK /\ Pending(e) /\ appRecvQ \in [Ends -> Seq(Buffer)]
  BY SequenceFacts DEF TypeOK
<1>1. CASE HandleAppData(e)
  <2>1. appRecvQ[e] # <<>> /\ appRecvQ[e] \in Seq(Buffer) /\ SendRoom(e) \in Int
    BY <1>0, <1>1, SendRoomType DEF HandleAppData, Pending
  <2>2. Solid(Leftover(appRecvQ[e], SendRoom(e)))
    BY <2>1, SolidLeftover
  <2>3. appRecvQ' = [appRecvQ EXCEPT ![e] = Leftover(@, SendRoom(e))]
    BY <1>1 DEF HandleAppData
  <2> QED
    BY <1>0, <2>2, <2>3
<1>2. CASE ~HandleAppData(e)
  <2>1. appRecvQ' = appRecvQ \/ appRecvQ' = [appRecvQ EXCEPT ![e] = <<>>]
    <3>1. CASE Handshake(e)
      BY <3>1 DEF Handshake, SendSyn, RecvSyn, RecvSynAck, RecvHandshakeAck
    <3>2. CASE ControlLoop(e)
      BY <1>2, <3>2 DEF ControlLoop, WaitForEvent, AssertDataSent, HandleAck, HandleFinAck,
                        HandleFin, HandlePayload, HandleClose, ThreadExit, Abort
    <3>3. CASE RecvThread(e) \/ MyCloseReturns(e)
      BY <3>3 DEF RecvThread, RecvPacket, RecvEof, AssertPoll, Abort, MyCloseReturns
    <3> QED
      BY <3>1, <3>2, <3>3 DEF Connection
  <2> QED
    BY <1>0, <2>1 DEF Solid
<1> QED
  BY <1>1, <1>2

-----------------------------------------------------------------------------
(* While the programs talk.                                                  *)

LEMMA TalkingFacts ==
    ASSUME SequenceInv, TalkInv, Unbroken, Talking, NEW e \in Ends
    PROVE  /\ app[e] = "open" /\ up[e] /\ fin[e] = 0 /\ ~HasFin(inbound[e]) /\ ~eof[e]
           /\ st[e] \notin {"done", "exited", "abort"}
           /\ ~closeReq[e] /\ "APP_CLOSE_REQUESTED" \notin ev[e]
<1>1. Thread(e) /\ FinBound(e)
  BY SequenceFacts
<1>2. Quiet(e)
  BY DEF TalkInv, NobodyCloses, Talking
<1> QED
  BY <1>1, <1>2 DEF Quiet, Unbroken, Thread, FinBound

\* Packets move between two ends that know each other.
LEMMA TalkingMoves ==
    ASSUME TypeOK, Talking, NEW e \in Ends, ~Early, ~Early', st[Server] # "listen",
           client' = client,
           \/ inbound'[e] = inbound[e]
           \/ inbound[e] # <<>> /\ inbound'[e] = Tail(inbound[e]),
           \/ inbound'[Peer(e)] = inbound[Peer(e)]
           \/ \E t \in Packet : /\ inbound'[Peer(e)] = Append(inbound[Peer(e)], t)
                                /\ Size(t) > 0 \/ (t.flags = "ACK" /\ (e = Server => Busy')),
           Busy => Busy' \/ LastIsData(inbound'[Client])
    PROVE  Talking'
<1>1. /\ inbound[e] \in Seq(Packet) /\ inbound[Peer(e)] \in Seq(Packet)
  BY PeerFacts DEF TypeOK
<1>2. Plain(inbound[e]) /\ Plain(inbound[Peer(e)])
  BY TwoPrograms DEF Talking
<1>3. /\ Plain(inbound'[e])
      /\ LastIsData(inbound[e]) => LastIsData(inbound'[e])
  BY <1>1, <1>2, PlainTails
<1>4. /\ Plain(inbound'[Peer(e)])
      /\ e = Server /\ LastIsData(inbound[Peer(e)]) => LastIsData(inbound'[Peer(e)]) \/ Busy'
  <2>1. CASE inbound'[Peer(e)] = inbound[Peer(e)]
    BY <1>2, <2>1
  <2>2. CASE inbound'[Peer(e)] # inbound[Peer(e)]
    <3>1. PICK t \in Packet : /\ inbound'[Peer(e)] = Append(inbound[Peer(e)], t)
                              /\ Size(t) > 0 \/ (t.flags = "ACK" /\ (e = Server => Busy'))
      BY <2>2
    <3> QED
      BY <1>1, <1>2, <3>1, PlainQueues
  <2> QED
    BY <2>1, <2>2
<1>5. Plain(inbound'[Client]) /\ Plain(inbound'[Server])
  BY <1>3, <1>4, TwoPrograms
<1>6. LastIsData(inbound'[Client]) \/ Busy'
  BY <1>3, <1>4, TwoPrograms DEF Talking
<1> QED
  BY <1>5, <1>6 DEF Talking

\* Nothing moves, and the server has no less to do.
LEMMA TalkingRests ==
    ASSUME Talking, client' # "end", UNCHANGED <<inbound, st>>, Busy => Busy'
    PROVE  Talking'
BY DEF Talking, Early, LastIsData

LEMMA TalkingHandshake ==
    ASSUME SequenceInv, TalkInv, Unbroken, Talking, NEW e \in Ends, Handshake(e),
           UNCHANGED ftVars
    PROVE  Talking'
<1>0. /\ TypeOK /\ Opening /\ up[Peer(e)] /\ inbound[e] \in Seq(Packet)
      /\ inbound[Peer(e)] \in Seq(Packet) /\ ready[e] <= Len(inbound[e])
      /\ st \in [Ends -> States] /\ Peer(e) # e /\ nextSeq[e] \in SeqNum
  BY SequenceFacts, TalkingFacts DEF TypeOK
<1>1. client' = client /\ server' = server /\ written' = written /\ rcvd' = rcvd
  BY ThreadsRest DEF Connection
<1>a. appRecvQ' = appRecvQ
  BY DEF Handshake, SendSyn, RecvSyn, RecvSynAck, RecvHandshakeAck
<1>b. Busy' = Busy
  BY <1>1, <1>a DEF Busy
<1>2. ASSUME ready[e] > 0 PROVE inbound[e] # <<>> /\ Plus(Head(inbound[e]).seq, 1) \in SeqNum
  <2>1. inbound[e] # <<>>
    BY <1>0, <1>2 DEF TypeOK
  <2>2. Head(inbound[e]) \in Packet
    BY <1>0, <2>1
  <2> QED
    BY <2>1, <2>2, SeqNumFacts DEF Packet
<1>3. CASE SendSyn(e)
  <2> DEFINE t == Header("SYN", nextSeq[e], 0)
  <2>1. /\ e = Client /\ st'[Client] = "syn_sent" /\ st'[Server] = st[Server]
        /\ Early /\ st[Server] = "listen"
    BY <1>0, <1>3, TwoPrograms DEF SendSyn, Opening, Early, Client, Server
  <2>2. t \in Packet
    BY <1>0, HeaderType, SeqNumFacts DEF Flags
  <2>3. inbound'[Client] = inbound[Client]
    BY <1>0, <1>3, <2>1, <2>2, SendEffect DEF SendSyn
  <2> QED
    BY <1>1, <2>1, <2>3 DEF Talking, Early, Client
<1>4. CASE RecvSyn(e)
  <2> DEFINE t == Header("SYN_ACK", nextSeq[e], Plus(Head(inbound[e]).seq, 1))
  <2>1. /\ e = Server /\ st[Server] = "listen" /\ ready[Server] > 0 /\ Early
        /\ inbound[Client] = <<>> /\ Client # Server
    BY <1>0, <1>4, TwoPrograms DEF RecvSyn, Opening, Client, Server
  <2>2. /\ Head(inbound[Server]).flags = "SYN" /\ Tail(inbound[Server]) = <<>>
    <3>1. st[Active] = "syn_sent"
      BY <1>0, <1>2, <2>1 DEF Opening, Early, Server
    <3>2. PICK x \in Packet : x.flags = "SYN" /\ inbound[Passive] = <<x>>
      BY <1>0, <2>1, <3>1 DEF Opening, Server
    <3> QED
      BY <3>2 DEF Server
  <2>3. t \in Packet /\ t.flags = "SYN_ACK"
    BY <1>0, <1>2, <2>1, HeaderType, HeaderSize DEF Flags
  <2>4. TakeAndSend(Server, t) /\ st'[Client] = st[Client]
    BY <1>0, <1>4, <2>1, <2>2, TwoPrograms DEF RecvSyn
  <2> HIDE DEF t
  <2>5. inbound'[Server] = <<>> /\ inbound'[Client] = Append(<<>>, t)
    BY <1>0, <2>1, <2>2, <2>3, <2>4, TakeAndSendEffect, TwoPrograms
  <2>6. Len(inbound'[Client]) = 1
    BY <2>3, <2>5
  <2>7. Early' /\ Plain(inbound'[Server])
    BY <2>1, <2>4, <2>5 DEF Early, Client, Plain
  <2> QED
    BY <1>1, <2>6, <2>7 DEF Talking
<1>5. CASE RecvSynAck(e)
  <2> DEFINE t == Header("ACK", nextSeq[e], Plus(Head(inbound[e]).seq, 1))
  <2>1. /\ e = Client /\ st[Client] = "syn_sent" /\ ready[Client] > 0 /\ Early
        /\ Len(inbound[Client]) <= 1 /\ st'[Server] = st[Server]
    BY <1>0, <1>5, TwoPrograms DEF RecvSynAck, Opening, Early, Client, Server, Talking
  <2>2. Tail(inbound[Client]) = <<>>
    BY <1>0, <1>2, <2>1, TailIsShorter
  <2>3. t \in Packet /\ t.flags = "ACK"
    BY <1>0, <1>2, <2>1, HeaderType, HeaderSize DEF Flags
  <2>4. TakeAndSend(Client, t) \/ Take(Client)
    BY <1>5, <2>1 DEF RecvSynAck
  <2> HIDE DEF t
  <2>5. /\ inbound'[Client] = <<>>
        /\ inbound'[Server] \in {inbound[Server], Append(inbound[Server], t)}
    BY <1>0, <2>1, <2>2, <2>3, <2>4, TakeAndSendEffect, TakeEffect, TwoPrograms
  <2>6. st'[Server] # "listen" => Plain(inbound'[Server])
    BY <1>0, <2>1, <2>3, <2>5, PlainQueues, TwoPrograms DEF Talking
  <2>7. Plain(<<>>) /\ LastIsData(<<>>) /\ Len(<<>>) <= 1
    BY EmptySeq DEF Plain, LastIsData
  <2> QED
    BY <1>1, <2>5, <2>6, <2>7 DEF Talking
<1>6. CASE RecvHandshakeAck(e)
  <2>1. ready[e] > 0 /\ st[e] = "syn_rcvd" /\ Take(e)
    BY <1>6 DEF RecvHandshakeAck
  <2>2. e = Server /\ ~Early /\ st'[Client] = st[Client] /\ Client # Server
    BY <1>0, <1>2, <1>6, <2>1, TwoPrograms DEF RecvHandshakeAck, Opening, Client, Server, Ends
  <2>3. /\ inbound[e] # <<>> /\ inbound'[e] = Tail(inbound[e])
        /\ inbound'[Peer(e)] = inbound[Peer(e)]
    BY <1>0, <2>1, TakeEffect
  <2>4. ~Early'
    BY <2>2 DEF Early, Client
  <2> QED
    BY <1>0, <1>1, <1>b, <2>1, <2>2, <2>3, <2>4, TalkingMoves
<1> QED
  BY <1>3, <1>4, <1>5, <1>6 DEF Handshake

LEMMA TalkingLoop ==
    ASSUME SequenceInv, TalkInv, PhaseInv, Talking, NEW e \in Ends, ControlLoop(e),
           UNCHANGED ftVars
    PROVE  Talking'
<1>0. /\ TypeOK /\ Opening /\ up[Peer(e)] /\ inbound[e] \in Seq(Packet) /\ Unbroken
      /\ fin[e] = 0 /\ ~HasFin(inbound[e]) /\ st[e] # "done" /\ app[e] = "open"
      /\ "APP_CLOSE_REQUESTED" \notin ev[e] /\ Peer(e) # e /\ Peer(e) \in Ends
      /\ StreamInv /\ TypeInv /\ Pending(e)
      /\ nextSeq[e] \in SeqNum /\ yAck[e] \in SeqNum
  BY SequenceFacts, TalkingFacts DEF TypeOK, PhaseInv, StreamInv
<1>1. client' = client /\ server' = server /\ written' = written /\ rcvd' = rcvd
  BY ThreadsRest DEF Connection
<1>2. ASSUME ev[e] # {}, \A f \in Ends : st'[f] = st[f]
      PROVE  ~Early /\ ~Early' /\ st[Server] # "listen"
  <2>1. ~Early
    BY <1>0, <1>2, EstablishedFacts
  <2> QED
    BY <1>0, <1>2, <2>1, TwoPrograms DEF Early, Opening, Client, Server
<1>3. CASE WaitForEvent(e)
  BY <1>1, <1>3, TalkingRests DEF WaitForEvent, netVars, Busy, Talking
<1>4. CASE HandleAppData(e)
  <2> DEFINE q == appRecvQ[e]
             b == Portion(Head(q), SendRoom(e))
             t == [Header("DATA", nextSeq[e], yAck[e]) EXCEPT !.lo = b.lo, !.hi = b.hi]
  <2>1. /\ "APP_DATA" \in ev[e] /\ q # <<>> /\ q \in Seq(Buffer) /\ SendRoom(e) \in Int
        /\ Head(q) \in Buffer /\ Solid(q)
    <3>1. /\ "APP_DATA" \in ev[e] /\ q # <<>> /\ q \in Seq(Buffer) /\ Solid(q)
      BY <1>0, <1>4 DEF HandleAppData, Pending, TypeOK, PhaseInv
    <3>2. SendRoom(e) \in Int
      BY <1>0, SendRoomType
    <3> QED
      BY <3>1, <3>2
  <2>2. b \in Buffer /\ Size(b) \in Nat
    BY <2>1, PortionType, BufferFacts
  <2>3. t \in Packet /\ Size(t) = Size(b)
    BY <1>0, <2>2 DEF TypeOK, Header, Packet, Buffer, Flags, Size
  <2>4. /\ IF Size(b) > 0 THEN Send(e, t) ELSE UNCHANGED inbound
        /\ appRecvQ' = [appRecvQ EXCEPT ![e] = Leftover(@, SendRoom(e))] /\ st' = st
    BY <1>4 DEF HandleAppData, netVars
  <2>5. /\ appRecvQ'[e] = Leftover(q, SendRoom(e)) /\ appRecvQ'[Peer(e)] = appRecvQ[Peer(e)]
        /\ Size(b) > 0 \/ appRecvQ'[e] # <<>>
    BY <1>0, <2>1, <2>4, SolidLeftover DEF TypeOK
  <2> HIDE DEF q, b, t
  <2>6. ~Early /\ ~Early' /\ st[Server] # "listen"
    BY <1>2, <2>1, <2>4
  <2>7. CASE Size(b) > 0
    <3>1. inbound'[e] = inbound[e] /\ inbound'[Peer(e)] = Append(inbound[Peer(e)], t)
      BY <1>0, <2>3, <2>4, <2>7, SendEffect
    <3>2. Size(t) > 0
      BY <2>3, <2>7
    <3>3. Busy => Busy' \/ LastIsData(inbound'[Client])
      <4>1. CASE e = Client
        BY <1>1, <2>5, <4>1, TwoPrograms DEF Busy
      <4>2. CASE e = Server
        <5>1. inbound'[Client] = Append(inbound[Client], t) /\ inbound[Client] \in Seq(Packet)
          BY <1>0, <3>1, <4>2, TwoPrograms DEF TypeOK
        <5> QED
          BY <2>3, <3>2, <5>1, PlainQueues
      <4> QED
        BY <4>1, <4>2, TwoPrograms
    <3> QED
      BY <1>0, <1>1, <2>3, <2>6, <3>1, <3>2, <3>3, TalkingMoves
  <2>8. CASE ~(Size(b) > 0)
    <3>1. inbound' = inbound /\ appRecvQ'[e] # <<>>
      BY <2>4, <2>5, <2>8
    <3>2. Busy => Busy'
      BY <1>1, <2>5, <3>1, TwoEnds, TwoPrograms DEF Busy
    <3> QED
      BY <1>1, <2>4, <3>1, <3>2, TalkingRests DEF Talking
  <2> QED
    BY <2>7, <2>8
<1>5. CASE HandleAck(e)
  <2>1. HandlesPacket(e) /\ ready[e] > 0 /\ ev[e] # {}
    BY <1>0, <1>5 DEF HandleAck, HandlesPacket, Pending
  <2>2. Take(e) /\ st' = st /\ appRecvQ' = appRecvQ
    BY <1>0, <1>5, NobodyAborts DEF HandleAck
  <2>3. /\ inbound[e] # <<>> /\ inbound'[e] = Tail(inbound[e])
        /\ inbound'[Peer(e)] = inbound[Peer(e)]
    BY <1>0, <2>1, <2>2, TakeEffect
  <2>4. ~Early /\ ~Early' /\ st[Server] # "listen"
    BY <1>2, <2>1, <2>2
  <2>5. Busy' = Busy
    BY <1>1, <2>2 DEF Busy
  <2> QED
    BY <1>0, <1>1, <2>3, <2>4, <2>5, TalkingMoves
<1>6. CASE HandlePayload(e)
  <2> DEFINE p == Head(inbound[e])
             t == Header("ACK", nextSeq[e], AckFor(e, p))
  <2>1. HandlesPacket(e) /\ ready[e] > 0 /\ ev[e] # {}
    BY <1>0, <1>6 DEF HandlePayload, HandlesPacket, Pending
  <2>2. /\ TakeAndSend(e, t) /\ st' = st /\ appRecvQ' = appRecvQ
        /\ p.flags \notin {"ACK", "FIN"}
    BY <1>6 DEF HandlePayload
  <2>3. p \in Packet /\ inbound[e] # <<>>
    BY <1>0, <2>1, PacketWaiting
  <2>4. t \in Packet /\ t.flags = "ACK"
    <3>1. AckFor(e, p) \in SeqNum
      BY <1>0, <2>3, AckForType
    <3> QED
      BY <1>0, <3>1, HeaderSize, HeaderType DEF Flags
  <2> HIDE DEF t
  <2>5. ~Early /\ ~Early' /\ st[Server] # "listen"
    BY <1>2, <2>1, <2>2
  <2>6. /\ inbound'[e] = Tail(inbound[e])
        /\ inbound'[Peer(e)] = Append(inbound[Peer(e)], t)
    BY <1>0, <2>1, <2>2, <2>4, TakeAndSendEffect
  <2>7. Size(p) > 0
    <3>1. Plain(inbound[e])
      BY <2>5, TwoPrograms DEF Talking
    <3> QED
      BY <1>0, <2>2, <2>3, <3>1, PlainTails
  <2>8. rcvd[e] < written[Peer(e)]
    <3>1. p = inbound[e][1] /\ 1 \in DOMAIN inbound[e]
      BY <1>0, <2>3
    <3> HIDE DEF p
    <3> QED
      BY <1>0, <2>7, <3>1, InTransit
  <2>9. Busy' = Busy /\ (e = Server => Busy)
    BY <1>1, <2>2, <2>8, TwoPrograms DEF Busy
  <2> QED
    BY <1>0, <1>1, <2>3, <2>4, <2>5, <2>6, <2>9, TalkingMoves
<1>7. ~HandleFin(e)
  <2> SUFFICES ASSUME HandleFin(e) PROVE FALSE
    OBVIOUS
  <2>1. HandlesPacket(e) /\ Head(inbound[e]).flags = "FIN"
    BY DEF HandleFin
  <2>2. inbound[e] # <<>>
    BY <1>0, <2>1, PacketWaiting
  <2> QED
    BY <1>0, <2>1, <2>2, FinTail
<1>8. /\ ~HandleFinAck(e) /\ ~HandleClose(e) /\ ~ThreadExit(e) /\ ~AssertDataSent(e)
  BY <1>0, NobodyAborts DEF HandleFinAck, HandleClose, ThreadExit
<1> QED
  BY <1>3, <1>4, <1>5, <1>6, <1>7, <1>8 DEF ControlLoop

LEMMA TalkingConnection ==
    ASSUME SequenceInv, TalkInv, PhaseInv, Talking, NEW e \in Ends, Connection(e)
    PROVE  Unbroken' /\ Talking'
<1>0. up[Peer(e)] /\ app[e] = "open" /\ Unbroken
  BY PeerFacts, TalkingFacts DEF PhaseInv
<1>1. ~MyCloseReturns(e)
  BY <1>0 DEF MyCloseReturns
<1>2. Unbroken'
  BY <1>0, <1>1, UnbrokenKept DEF Connection
<1>3. ASSUME RecvThread(e) PROVE Talking'
  <2>1. RecvPacket(e)
    BY <1>0, <1>3, NobodyAborts DEF RecvThread, RecvEof
  <2>2. UNCHANGED <<inbound, st, appRecvQ, client, server, written, rcvd>>
    BY <2>1, ThreadsRest DEF RecvPacket, Connection
  <2>3. Busy' = Busy /\ client' # "end"
    BY <2>2 DEF Busy, Talking
  <2> QED
    BY <2>2, <2>3, TalkingRests
<1> QED
  BY <1>0, <1>1, <1>2, <1>3, TalkingHandshake, TalkingLoop DEF Connection

\* A step of a program that moves no packet: mywrite() or myread().
LEMMA TalkingPrograms ==
    ASSUME SequenceInv, TalkInv, PhaseInv, Talking,
           SendRequest \/ ClientReads \/ ServerRuns
    PROVE  PhaseInv'
<1>0. /\ TypeOK /\ client # "end" /\ server \notin {"done", "end"} /\ Conversation
      /\ Unbroken /\ \A e \in Ends : Solid(appRecvQ[e])
  BY TwoPrograms, SequenceFacts DEF Talking, TalkInv, NobodyCloses, PhaseInv
<1>t. /\ rcvd[Server] \in Nat /\ written[Client] \in Nat /\ lineLeft[Server] \in Nat
      /\ written \in [Ends -> Nat] /\ appRecvQ \in [Ends -> Seq(Buffer)]
      /\ RequestLen \in Nat \ {0} /\ ReplyLen \in Nat \ {0} /\ ReadSize \in Nat \ {0}
      /\ MaxRead \in Nat \ {0}
  BY <1>0, TalkTypes, FileTransferAssumption, StcpAssumption DEF TypeOK
<1>r. ASSUME NEW e \in Ends, NEW n, MyRead(e, n)
      PROVE  UNCHANGED <<app, reset, st, inbound, appRecvQ, written>>
  BY <1>r DEF MyRead, netVars
<1>w. ASSUME NEW e \in Ends, NEW n \in Nat \ {0}, MyWrite(e, n)
      PROVE  /\ UNCHANGED <<app, reset, st, inbound, rcvd>>
             /\ \A f \in Ends : Solid(appRecvQ'[f])
             /\ appRecvQ'[e] # <<>> /\ appRecvQ'[Peer(e)] = appRecvQ[Peer(e)]
             /\ written'[e] = written[e] + n /\ written'[Peer(e)] = written[Peer(e)]
  <2> DEFINE b == [lo |-> written[e], hi |-> written[e] + n]
  <2>1. b \in Buffer /\ Size(b) > 0
    BY <1>t DEF Buffer, Size
  <2> HIDE DEF b
  <2>2. Solid(Append(appRecvQ[e], b)) /\ Append(appRecvQ[e], b) # <<>>
    BY <1>0, <1>t, <2>1, SolidAppend
  <2>3. appRecvQ' = [appRecvQ EXCEPT ![e] = Append(@, b)]
    BY <1>w DEF MyWrite, b
  <2>4. /\ UNCHANGED <<app, reset, st, inbound, rcvd>>
        /\ written' = [written EXCEPT ![e] = @ + n]
    BY <1>w DEF MyWrite, netVars
  <2>5. Peer(e) \in Ends /\ Peer(e) # e
    BY PeerFacts
  <2> QED
    BY <1>0, <1>t, <2>2, <2>3, <2>4, <2>5
<1>1. ASSUME SendRequest PROVE PhaseInv'
  <2>1. MyWrite(Client, RequestLen) /\ client' = "line" /\ server' = server
    BY <1>1 DEF SendRequest
  <2>2. /\ UNCHANGED <<app, reset, st, inbound, rcvd>>
        /\ \A f \in Ends : Solid(appRecvQ'[f])
        /\ appRecvQ'[Server] = appRecvQ[Server]
        /\ written'[Client] = written[Client] + RequestLen
    BY <1>t, <1>w, <2>1, TwoPrograms
  <2>3. Busy => Busy'
    BY <1>t, <2>1, <2>2 DEF Busy
  <2>4. Talking'
    BY <2>1, <2>2, <2>3, TalkingRests
  <2> QED
    BY <1>0, <2>2, <2>4 DEF PhaseInv, Phase, Unbroken
<1>2. ASSUME ClientReads PROVE PhaseInv'
  <2>1. /\ \E n \in 1 .. MaxRead : MyRead(Client, n)
        /\ client' \in {"prompt", "line", "file", "failed"} /\ server' = server
    <3>1. CASE ClientReadsLine
      <4>1. client' \in {client, "prompt", "line", "file", "failed"} /\ MyRead(Client, 1)
            /\ server' = server /\ client = "line"
        BY <3>1 DEF ClientReadsLine
      <4> QED
        BY <1>t, <4>1
    <3>2. CASE ClientReadsFile
      <4>1. length \in Nat /\ (client = "file" => length > 0)
        BY <1>0 DEF TalkInv, ProgramTypes, Conversation, Asked, Understood, Answered
      <4>2. client = "file" /\ MyRead(Client, Least(length, MaxRead)) /\ server' = server
            /\ client' \in {"failed", "prompt", "file"}
        BY <3>2 DEF ClientReadsFile
      <4>3. Least(length, MaxRead) \in 1 .. MaxRead
        BY <1>t, <4>1, <4>2 DEF Least
      <4> QED
        BY <4>2, <4>3
    <3> QED
      BY <1>2, <3>1, <3>2 DEF ClientReads
  <2>2. PICK n \in 1 .. MaxRead : MyRead(Client, n)
    BY <2>1
  <2>3. UNCHANGED <<app, reset, st, inbound, appRecvQ, written>>
    BY <1>r, <2>2, TwoPrograms
  <2>4. rcvd'[Server] = rcvd[Server]
    BY <1>0, <2>2, NothingToRead, TwoPrograms
  <2>5. Busy => Busy'
    BY <2>1, <2>3, <2>4 DEF Busy
  <2>6. Talking'
    BY <2>1, <2>3, <2>5, TalkingRests
  <2> QED
    BY <1>0, <2>3, <2>6 DEF PhaseInv, Phase, Unbroken
<1>3. ASSUME ServerReadsLine PROVE PhaseInv'
  <2>1. MyRead(Server, 1) /\ client' = client /\ server = "line" /\ 1 \in 1 .. MaxRead
    BY <1>3, <1>t DEF ServerReadsLine
  <2>2. UNCHANGED <<app, reset, st, inbound, appRecvQ, written>>
    BY <1>r, <2>1, TwoPrograms
  <2>3. /\ ~eof'[Server] /\ rcvd'[Server] \in Nat
        /\ rcvd[Server] < rcvd'[Server] /\ rcvd'[Server] <= rcvd[Server] + 1
        /\ rcvd'[Server] <= written[Client]
    BY <1>0, <2>1, NothingToRead, TwoPrograms
  <2>4. rcvd'[Server] = rcvd[Server] + 1
    BY <1>t, <2>3
  <2>5. written[Client] = rcvd[Server] + lineLeft[Server]
    BY <1>0, <1>t, <2>3 DEF Conversation, Asked
  <2>6. server' = IF lineLeft[Server] > 1 THEN "line" ELSE "reply"
    BY <1>3, <2>3 DEF ServerReadsLine
  <2>7. rcvd'[Server] < written[Client] \/ server' = "reply"
    BY <1>t, <2>4, <2>5, <2>6
  <2>8. Talking'
    BY <1>0, <2>1, <2>2, <2>7, TalkingRests DEF Busy
  <2> QED
    BY <1>0, <2>2, <2>8 DEF PhaseInv, Phase, Unbroken
<1>4. ASSUME ServerReplies \/ ServerSendsFile PROVE PhaseInv'
  <2>1. client' = client /\ \E n \in Nat \ {0} : MyWrite(Server, n)
    <3>1. CASE ServerReplies
      BY <1>t, <3>1 DEF ServerReplies
    <3>2. CASE ServerSendsFile
      <4>1. fileLeft \in Nat /\ (server = "file" => fileLeft > 0)
        BY <1>0 DEF TalkInv, ProgramTypes, Conversation, Asked, Understood, Answered
      <4>2. server = "file" /\ MyWrite(Server, Chunk) /\ client' = client
        BY <3>2 DEF ServerSendsFile
      <4>3. Chunk \in Nat \ {0}
        BY <1>t, <4>1, <4>2 DEF Chunk, Least
      <4> QED
        BY <4>2, <4>3
    <3> QED
      BY <1>4, <3>1, <3>2
  <2>2. PICK n \in Nat \ {0} : MyWrite(Server, n)
    BY <2>1
  <2>3. /\ UNCHANGED <<app, reset, st, inbound, rcvd>>
        /\ \A f \in Ends : Solid(appRecvQ'[f])
        /\ appRecvQ'[Server] # <<>>
    BY <1>w, <2>2, TwoPrograms
  <2>4. Talking'
    BY <1>0, <2>1, <2>3, TalkingRests DEF Busy
  <2> QED
    BY <1>0, <2>3, <2>4 DEF PhaseInv, Phase, Unbroken
<1>5. ~ServerCloses
  BY <1>0 DEF ServerCloses
<1> QED
  BY <1>1, <1>2, <1>3, <1>4, <1>5 DEF ServerRuns

\* At its prompt the client leaves nothing behind it.
LEMMA PromptSettles ==
    ASSUME SequenceInv, TalkInv, PhaseInv, Talking, ClientCloses
    PROVE  PhaseInv'
<1>0. /\ TypeOK /\ StreamInv /\ Opening /\ Unbroken /\ \A e \in Ends : Solid(appRecvQ[e])
  BY SequenceFacts, TwoPrograms DEF PhaseInv
<1>t. /\ rcvd \in [Ends -> Nat] /\ written \in [Ends -> Nat]
      /\ closeReq \in [Ends -> BOOLEAN]
      /\ \A e \in Ends : inbound[e] \in Seq(Packet) /\ st[e] \in States
  BY <1>0 DEF TypeOK
<1>1. /\ client' = "end" /\ MyClose(Client) /\ server' = server /\ lineLeft' = lineLeft
      /\ UNCHANGED <<written, rcvd, eof, appRecvQ, inbound, reset, st, fin, ev>>
  BY DEF ClientCloses, MyClose, netVars
<1>2. /\ \A e \in Ends : Quiet(e) /\ app[e] = "open" /\ fin[e] = 0 /\ ~eof[e]
      /\ st[Client] = "established" /\ ~Early
  <2>1. \A e \in Ends : Quiet(e) /\ app[e] = "open" /\ fin[e] = 0 /\ ~eof[e]
                        /\ st[e] \notin {"done", "exited", "abort"}
    BY TalkingFacts DEF TalkInv, NobodyCloses, Talking, PhaseInv
  <2>2. st[Client] \notin Handshaking
    BY <1>1 DEF MyClose, Connected
  <2> QED
    BY <1>t, <2>1, <2>2, TwoPrograms DEF States, Handshaking, Early, Client
<1>3. /\ server = "line" /\ lineLeft[Server] = RequestLen
      /\ written[Client] = rcvd[Server] /\ written[Server] = rcvd[Client]
  <2>1. client = "prompt" /\ Conversation
    BY DEF ClientCloses, TalkInv, ProgramTypes, Talking
  <2> QED
    BY <2>1 DEF Conversation, Asked, Understood, Answered
<1>4. st[Server] \in {"syn_rcvd", "established"}
  <2>1. st[Server] \notin {"init", "syn_sent", "listen"}
    BY <1>0, <1>2 DEF Opening, Server
  <2>2. st[Server] \notin {"done", "exited", "abort"}
    BY TwoPrograms, TalkingFacts DEF PhaseInv
  <2> QED
    BY <1>t, <2>1, <2>2, TwoPrograms DEF States, Handshaking
<1>5. ASSUME NEW e \in Ends
      PROVE  appRecvQ[Peer(e)] = <<>> /\ \A i \in DOMAIN inbound[e] : ~(Size(inbound[e][i]) > 0)
  <2>1. ~(rcvd[e] < written[Peer(e)])
    <3>1. rcvd[e] = written[Peer(e)] /\ rcvd[e] \in Nat
      BY <1>3, <1>t, TwoPrograms
    <3> QED
      BY <3>1
  <2>2. Solid(appRecvQ[Peer(e)])
    BY <1>0, PeerFacts
  <2>3. app[e] = "open"
    BY <1>2
  <2>4. ~(appRecvQ[Peer(e)] # <<>> /\ Solid(appRecvQ[Peer(e)]))
    BY <1>0, <2>1, <2>3, InTransit
  <2>5. ~ \E i \in DOMAIN inbound[e] : Size(inbound[e][i]) > 0
    BY <1>0, <2>1, <2>3, InTransit
  <2> QED
    BY <2>2, <2>4, <2>5
<1>6. appRecvQ[Client] = <<>> /\ appRecvQ[Server] = <<>> /\ ~Busy
  BY <1>3, <1>5, <1>t, TwoPrograms DEF Busy
<1>7. inbound[Client] = <<>>
  <2>1. LastIsData(inbound[Client])
    BY <1>2, <1>6 DEF Talking
  <2>2. ASSUME inbound[Client] # <<>> PROVE FALSE
    <3>1. Len(inbound[Client]) \in DOMAIN inbound[Client]
      BY <1>t, <2>2, TwoPrograms, TailIsShorter
    <3> QED
      BY <1>5, <2>1, <2>2, <3>1, TwoPrograms DEF LastIsData
  <2> QED
    BY <2>2
<1>8. AllAcks(inbound[Server])
  BY <1>4, <1>5, TwoPrograms DEF AllAcks, Plain, Talking
<1>9. app'[Client] = "closing" /\ app'[Server] = "open" /\ closeReq'[Client]
  BY <1>1, <1>2, <1>0, TwoPrograms DEF MyClose, TypeOK
<1>10. Settled'
  BY <1>1, <1>2, <1>3, <1>6, TwoPrograms DEF Settled
<1>11. ClientClosing'
  BY <1>1, <1>2, <1>3, <1>4, <1>7, <1>8, <1>9, TwoPrograms DEF ClientClosing, CloseWaits
<1>12. Unbroken'
  BY <1>0, <1>1, <1>9, TwoPrograms DEF Unbroken
<1> QED
  BY <1>0, <1>1, <1>10, <1>11, <1>12 DEF PhaseInv, Phase

-----------------------------------------------------------------------------
(* Once the client has ended.                                                *)

\* Behind the last byte of its peer, a program can only read an end of file,
\* and only once it has taken the FIN.
LEMMA EndOfFileRead ==
    ASSUME StreamInv, NEW e \in Ends, MyRead(e, 1), rcvd[e] = written[Peer(e)], ~eof[e]
    PROVE  fin[e] > 0 /\ eof'[e] /\ rcvd' = rcvd
<1> DEFINE b == Portion(Head(appSendQ[e]), 1)
<1>0. /\ TypeOK /\ Direction(e) /\ rcvd[e] \in Nat
      /\ 1 \in 1 .. MaxRead
  BY DirectionTypes, StcpAssumption DEF StreamInv, TypeInv, Good
<1>1. /\ app[e] = "open" /\ appSendQ[e] # <<>> /\ appSendQ[e] \in Seq(Buffer)
      /\ b \in Buffer /\ Size(b) \in Nat
      /\ Size(b) = 0 => Size(Head(appSendQ[e])) = 0
      /\ IF Size(b) = 0 THEN eof' = [eof EXCEPT ![e] = TRUE] /\ rcvd' = rcvd
         ELSE rcvd' = [rcvd EXCEPT ![e] = @ + Size(b)] /\ eof' = eof
      /\ UNCHANGED <<app, written>>
  BY MyReadEffect
<1> HIDE DEF b
<1>2. StreamInv'
  BY <1>0, StreamKept
<1>3. (StreamInv => \A f \in Ends : app[f] = "open" => rcvd[f] <= written[Peer(f)])'
  BY StillWasWritten
<1>4. rcvd'[e] <= rcvd[e]
  BY <1>1, <1>2, <1>3
<1>5. Size(b) = 0
  BY <1>0, <1>1, <1>4 DEF TypeOK
<1>6. HasEnd(appSendQ[e])
  <2>1. Head(appSendQ[e]) = appSendQ[e][1] /\ 1 \in DOMAIN appSendQ[e]
    BY <1>1
  <2> QED
    BY <1>1, <1>5, <2>1 DEF HasEnd
<1>7. fin[e] > 0
  BY <1>0, <1>1, <1>6 DEF Direction, Ending
<1> QED
  BY <1>0, <1>1, <1>5, <1>7 DEF TypeOK

LEMMA SettledPrograms ==
    ASSUME SequenceInv, TalkInv, PhaseInv, Settled, ClientClosing \/ ServerClosing \/ BothClosing,
           SendRequest \/ ClientCloses \/ ClientReads \/ ServerRuns
    PROVE  PhaseInv'
<1>0. /\ TypeOK /\ StreamInv /\ TypeInv /\ client = "end" /\ server \in {"line", "done", "end"}
      /\ Unbroken /\ \A e \in Ends : Solid(appRecvQ[e])
  BY SequenceFacts, TwoPrograms DEF PhaseInv, Settled, StreamInv
<1>1. CASE ServerReadsLine
  <2>1. /\ server = "line" /\ MyRead(Server, 1) /\ client' = client
        /\ lineLeft[Server] = RequestLen /\ ~eof[Server]
        /\ rcvd[Server] = written[Client]
        /\ UNCHANGED <<app, reset, st, ev, closeReq, fin, inbound, ready, appRecvQ, written>>
    BY <1>1 DEF ServerReadsLine, MyRead, netVars, Settled
  <2>2. fin[Server] > 0 /\ eof'[Server] /\ rcvd' = rcvd
    BY <1>0, <2>1, EndOfFileRead, TwoPrograms
  <2>3. server' = "done"
    BY <1>1, <2>1, <2>2 DEF ServerReadsLine
  <2>4. ServerClosing
    BY <2>1, <2>2 DEF ClientClosing, BothClosing
  <2>5. ServerClosing' /\ Settled'
    BY <1>0, <2>1, <2>2, <2>3, <2>4 DEF ServerClosing, Settled, CloseWaits
  <2> QED
    BY <1>0, <2>1, <2>5 DEF PhaseInv, Phase, Unbroken
<1>2. CASE ServerCloses
  <2>1. /\ server = "done" /\ server' = "end" /\ client' = client
        /\ app' = [app EXCEPT ![Server] = "closing"]
        /\ closeReq' = [closeReq EXCEPT ![Server] = TRUE]
        /\ UNCHANGED <<reset, st, ev, fin, inbound, ready, appRecvQ, written, rcvd>>
    BY <1>2 DEF ServerCloses, MyClose, netVars
  <2>2. /\ app'[Client] = app[Client] /\ app'[Server] = "closing" /\ closeReq'[Server]
        /\ closeReq'[Client] = closeReq[Client]
    BY <1>0, <2>1, TwoPrograms DEF TypeOK
  <2>3. ServerClosing
    BY <2>1 DEF ClientClosing, BothClosing
  <2>4. CloseWaits(Server)' /\ (CloseWaits(Client)' <=> CloseWaits(Client))
    BY <2>1, <2>2 DEF CloseWaits
  <2>5. fin[Server] = 1
    BY <2>1, <2>3, TwoPrograms DEF ServerClosing
  <2>6. ServerClosing' /\ Settled'
    BY <1>0, <2>1, <2>2, <2>3, <2>4, <2>5 DEF ServerClosing, Settled
  <2>7. Unbroken'
    BY <1>0, <2>1, <2>2, TwoPrograms DEF Unbroken
  <2> QED
    BY <1>0, <2>1, <2>6, <2>7 DEF PhaseInv, Phase
<1>3. /\ ~SendRequest /\ ~ClientCloses /\ ~ClientReads /\ ~ServerReplies /\ ~ServerSendsFile
  BY <1>0 DEF SendRequest, ClientCloses, ClientReads, ClientReadsLine, ClientReadsFile,
              ServerReplies, ServerSendsFile
<1> QED
  BY <1>1, <1>2, <1>3 DEF ServerRuns

\* A thread of e leaves alone what belongs to the other end, and, with nothing
\* left to send, takes part in the closing only.
LEMMA SettledThreads ==
    ASSUME SequenceInv, Settled, NEW e \in Ends, Connection(e)
    PROVE  /\ Settled' /\ ~HandleAppData(e)
           /\ app'[Peer(e)] = app[Peer(e)] /\ fin'[Peer(e)] = fin[Peer(e)]
           /\ st'[Peer(e)] = st[Peer(e)] /\ ready'[Peer(e)] = ready[Peer(e)]
           /\ (CloseWaits(Peer(e))' <=> CloseWaits(Peer(e)))
           /\ server' = server
<1>0. TypeOK /\ Pending(e) /\ Peer(e) \in Ends /\ Peer(e) # e /\ appRecvQ[e] = <<>>
  BY SequenceFacts DEF Settled
<1>1. ~HandleAppData(e) /\ ~AssertDataSent(e)
  BY <1>0 DEF HandleAppData, AssertDataSent, Pending
<1>2. /\ UNCHANGED <<client, server, requests, fileLen, lineLeft, length, fileLeft>>
      /\ UNCHANGED <<written, rcvd, eof>>
  BY ThreadsRest
<1>3. /\ appRecvQ' = appRecvQ \/ appRecvQ' = [appRecvQ EXCEPT ![e] = <<>>]
      /\ app'[Peer(e)] = app[Peer(e)] /\ fin'[Peer(e)] = fin[Peer(e)]
      /\ st'[Peer(e)] = st[Peer(e)] /\ ready'[Peer(e)] = ready[Peer(e)]
      /\ closeReq'[Peer(e)] = closeReq[Peer(e)] /\ ev'[Peer(e)] = ev[Peer(e)]
  <2>1. CASE Handshake(e)
    BY <1>0, <2>1 DEF Handshake, SendSyn, RecvSyn, RecvSynAck, RecvHandshakeAck, Send, Take,
                      TakeAndSend, appVars, TypeOK
  <2>2. CASE WaitForEvent(e) \/ HandleClose(e) \/ ThreadExit(e)
    BY <1>0, <2>2 DEF WaitForEvent, HandleClose, ThreadExit, Send, appVars, netVars, TypeOK
  <2>3. CASE HandleAck(e)
    BY <1>0, <2>3 DEF HandleAck, Take, Abort, Disconnect, appVars, TypeOK
  <2>4. CASE HandleFinAck(e) \/ HandleFin(e) \/ HandlePayload(e)
    BY <1>0, <2>4 DEF HandleFinAck, HandleFin, HandlePayload, CountFin, Take,
                      TakeAndSend, appVars, TypeOK
  <2>5. CASE RecvThread(e)
    BY <1>0, <2>5 DEF RecvThread, RecvPacket, RecvEof, AssertPoll, Abort, Disconnect,
                      appVars, TypeOK
  <2>6. CASE MyCloseReturns(e)
    BY <1>0, <2>6 DEF MyCloseReturns, Disconnect, TypeOK
  <2> QED
    BY <1>1, <2>1, <2>2, <2>3, <2>4, <2>5, <2>6 DEF Connection, ControlLoop
<1>4. \A f \in Ends : appRecvQ'[f] = <<>>
  BY <1>0, <1>3 DEF Settled, TypeOK
<1>5. Settled'
  BY <1>2, <1>4 DEF Settled
<1>6. CloseWaits(Peer(e))' <=> CloseWaits(Peer(e))
  BY <1>3 DEF CloseWaits
<1> QED
  BY <1>1, <1>2, <1>3, <1>5, <1>6

\* What the steps of control_loop() that matter to the closing do.
LEMMA WaitSettled ==
    ASSUME TypeOK, Settled, NEW e \in Ends, WaitForEvent(e)
    PROVE  /\ CloseWaits(e)' <=> CloseWaits(e)
           /\ UNCHANGED <<app, inbound, ready, st, fin, reset>>
<1>1. /\ ev[e] = {} /\ appRecvQ[e] = <<>>
      /\ ev'[e] = Bits(e) /\ closeReq'[e] = (closeReq[e] /\ ~CloseReported(e))
      /\ UNCHANGED <<app, inbound, ready, st, fin, reset>>
  BY DEF WaitForEvent, TypeOK, Settled, appVars, netVars
<1>2. "APP_CLOSE_REQUESTED" \in Bits(e) <=> closeReq[e]
  BY <1>1 DEF Bits, CloseReported, Events
<1> QED
  BY <1>1, <1>2 DEF CloseWaits, CloseReported

LEMMA CloseSends ==
    ASSUME SequenceInv, NEW e \in Ends, HandleClose(e), up[Peer(e)], fin[e] \in Nat
    PROVE  /\ CloseWaits(e) /\ ~CloseWaits(e)' /\ fin'[e] = fin[e] + 1
           /\ inbound'[e] = inbound[e]
           /\ \E t \in Packet : /\ t.flags = "FIN"
                                /\ inbound'[Peer(e)] = Append(inbound[Peer(e)], t)
           /\ UNCHANGED <<app, st, ready>>
<1> DEFINE t == Header("FIN", nextSeq[e], yAck[e])
<1>0. TypeOK /\ Pending(e) /\ nextSeq[e] \in SeqNum /\ yAck[e] \in SeqNum
  BY SequenceFacts DEF TypeOK
<1>1. /\ ev[e] = {"APP_CLOSE_REQUESTED"} /\ Send(e, t)
      /\ fin' = [fin EXCEPT ![e] = @ + 1] /\ ev' = [ev EXCEPT ![e] = {}]
      /\ closeReq' = closeReq /\ app' = app /\ st' = st /\ ready' = ready
  BY DEF HandleClose, Send, appVars
<1>2. t \in Packet /\ t.flags = "FIN"
  BY <1>0, HeaderType, HeaderSize DEF Flags
<1> HIDE DEF t
<1>3. ~closeReq[e]
  BY <1>0, <1>1 DEF Pending
<1>4. CloseWaits(e) /\ ~CloseWaits(e)' /\ fin'[e] = fin[e] + 1
  BY <1>0, <1>1, <1>3 DEF CloseWaits, TypeOK
<1>5. inbound'[e] = inbound[e] /\ inbound'[Peer(e)] = Append(inbound[Peer(e)], t)
  BY <1>0, <1>1, <1>2, SendEffect
<1> QED
  BY <1>1, <1>2, <1>4, <1>5

LEMMA FinAckTaken ==
    ASSUME SequenceInv, NEW e \in Ends, HandleFinAck(e)
    PROVE  /\ ready[e] > 0 /\ inbound[e] # <<>> /\ Head(inbound[e]).flags = "ACK"
           /\ inbound'[e] = Tail(inbound[e]) /\ inbound'[Peer(e)] = inbound[Peer(e)]
           /\ ready'[e] = ready[e] - 1
           /\ fin[e] > 0 /\ fin'[e] = fin[e] + 1
           /\ st'[e] = IF fin[e] + 1 > 2 THEN "done" ELSE st[e]
           /\ ~CloseWaits(e) => ~CloseWaits(e)'
           /\ ev[e] = {} \/ st[e] = "established"
           /\ UNCHANGED <<app, reset>>
<1>0. TypeOK /\ TypeInv /\ Pending(e)
  BY SequenceFacts DEF SequenceInv, StreamInv
<1>1. /\ HandlesPacket(e) /\ Head(inbound[e]).flags = "ACK" /\ fin[e] > 0
      /\ Take(e) /\ CountFin(e) /\ closeReq' = closeReq /\ app' = app
  BY DEF HandleFinAck, appVars
<1>2. ready[e] > 0
  BY <1>0, <1>1, PacketWaiting
<1>3. /\ inbound[e] # <<>> /\ inbound'[e] = Tail(inbound[e])
      /\ inbound'[Peer(e)] = inbound[Peer(e)] /\ reset' = reset
  BY <1>0, <1>1, <1>2, TakeEffect
<1>4. /\ ready'[e] = ready[e] - 1 /\ fin'[e] = fin[e] + 1 /\ ev'[e] = {}
      /\ st'[e] = IF fin[e] + 1 > 2 THEN "done" ELSE st[e]
  BY <1>0, <1>1 DEF Take, CountFin, FinsExchanged, TypeOK
<1> QED
  BY <1>0, <1>1, <1>2, <1>3, <1>4 DEF CloseWaits, Pending

LEMMA FinTaken ==
    ASSUME SequenceInv, NEW e \in Ends, HandleFin(e), up[Peer(e)]
    PROVE  /\ ready[e] > 0 /\ inbound[e] # <<>> /\ Head(inbound[e]).flags = "FIN"
           /\ inbound'[e] = Tail(inbound[e])
           /\ \E t \in Packet : /\ t.flags = "ACK"
                                /\ inbound'[Peer(e)] = Append(inbound[Peer(e)], t)
           /\ ready'[e] = ready[e] - 1 /\ fin'[e] = fin[e] + 1
           /\ st'[e] = IF fin[e] + 1 > 2 THEN "done" ELSE st[e]
           /\ ~CloseWaits(e) => ~CloseWaits(e)'
           /\ UNCHANGED <<app, reset>>
<1> DEFINE t == Header("ACK", nextSeq[e], yAck[e])
<1>0. TypeOK /\ TypeInv /\ Pending(e) /\ nextSeq[e] \in SeqNum /\ yAck[e] \in SeqNum
  BY SequenceFacts DEF SequenceInv, StreamInv, TypeOK
<1>1. /\ HandlesPacket(e) /\ Head(inbound[e]).flags = "FIN"
      /\ TakeAndSend(e, t) /\ CountFin(e) /\ closeReq' = closeReq /\ app' = app
  BY DEF HandleFin, appVars
<1>2. ready[e] > 0
  BY <1>0, <1>1, PacketWaiting
<1>3. t \in Packet /\ t.flags = "ACK"
  BY <1>0, HeaderType, HeaderSize DEF Flags
<1>4. ready'[e] = ready[e] - 1
  BY <1>0, <1>1 DEF TakeAndSend, TypeOK
<1> HIDE DEF t
<1>5. /\ inbound[e] # <<>> /\ inbound'[e] = Tail(inbound[e])
      /\ inbound'[Peer(e)] = Append(inbound[Peer(e)], t) /\ reset' = reset
  BY <1>0, <1>1, <1>2, <1>3, TakeAndSendEffect
<1>6. /\ fin'[e] = fin[e] + 1 /\ ev'[e] = {}
      /\ st'[e] = IF fin[e] + 1 > 2 THEN "done" ELSE st[e]
  BY <1>0, <1>1 DEF CountFin, FinsExchanged, TypeOK
<1> QED
  BY <1>1, <1>2, <1>3, <1>4, <1>5, <1>6 DEF CloseWaits

\* With nothing on its way to it, an end handles no packet.
LEMMA NothingInbound ==
    ASSUME SequenceInv, NEW e \in Ends, inbound[e] = <<>>
    PROVE  /\ ready[e] = 0 /\ ~HandlesPacket(e) /\ ~RecvPacket(e)
           /\ ~HandleAck(e) /\ ~HandleFinAck(e) /\ ~HandleFin(e) /\ ~HandlePayload(e)
<1>1. TypeOK /\ Pending(e) /\ Len(inbound[e]) = 0 /\ ready[e] \in Nat /\ ready[e] <= Len(inbound[e])
  BY SequenceFacts, EmptySeq DEF TypeOK
<1>2. ready[e] = 0
  BY <1>1
<1> QED
  BY <1>1, <1>2 DEF Pending, HandlesPacket, RecvPacket, HandleAck, HandleFinAck, HandleFin,
                    HandlePayload

LEMMA ClientCloseMoves ==
    ASSUME SequenceInv, PhaseInv, Settled, ClientClosing, NEW e \in Ends, Connection(e)
    PROVE  ClientClosing' \/ ServerClosing'
<1>0. /\ TypeOK /\ Opening /\ Unbroken
      /\ \A f \in Ends : up[f] /\ Pending(f) /\ FinBound(f) /\ inbound[f] \in Seq(Packet)
  <2>1. \A f \in Ends : TypeOK /\ Opening /\ Thread(f) /\ Pending(f) /\ FinBound(f)
    BY SequenceFacts
  <2>2. up[Client] /\ up[Server]
    BY <2>1, TwoPrograms DEF ClientClosing, Thread
  <2> QED
    BY <2>1, <2>2, TwoPrograms DEF TypeOK, PhaseInv
<1>1. /\ Settled' /\ ~HandleAppData(e) /\ server' = server
      /\ app'[Peer(e)] = app[Peer(e)] /\ fin'[Peer(e)] = fin[Peer(e)]
      /\ st'[Peer(e)] = st[Peer(e)]
      /\ (CloseWaits(Peer(e))' <=> CloseWaits(Peer(e)))
  BY SettledThreads
<1>2. ~MyCloseReturns(e) /\ ~ThreadExit(e) /\ ~AssertDataSent(e) /\ ~AssertPoll(e) /\ ~RecvEof(e)
  <2>1. st[e] \notin {"done", "exited"}
    BY TwoPrograms DEF ClientClosing
  <2>2. up[Peer(e)]
    BY <1>0, PeerFacts
  <2> QED
    BY <1>0, <2>1, <2>2, NobodyAborts DEF MyCloseReturns, ThreadExit, RecvEof
<1>3. CASE WaitForEvent(e)
  <2>1. CloseWaits(e)' <=> CloseWaits(e)
    BY <1>0, <1>3, WaitSettled
  <2>2. UNCHANGED <<app, inbound, ready, st, fin>>
    BY <1>0, <1>3, WaitSettled
  <2>3. CloseWaits(Client)' <=> CloseWaits(Client)
    BY <1>1, <2>1, TwoPrograms
  <2> QED
    BY <1>1, <2>2, <2>3 DEF ClientClosing
<1>4. CASE RecvPacket(e)
  <2>1. UNCHANGED <<app, inbound, st, fin, ev, closeReq>>
    BY <1>4 DEF RecvPacket, appVars
  <2> QED
    BY <1>1, <2>1 DEF ClientClosing, CloseWaits
<1>5. CASE e = Client
  <2>1. inbound[Client] = <<>> /\ st[Client] = "established" /\ Peer(e) = Server
    BY <1>5, TwoPrograms DEF ClientClosing
  <2>2. CASE HandleClose(e)
    <3>1. fin[Client] = 0 /\ AllAcks(inbound[Server]) /\ up[Server]
      <4>1. CloseWaits(Client)
        BY <1>5, <2>2 DEF HandleClose, CloseWaits
      <4> QED
        BY <1>0, <4>1, TwoPrograms DEF ClientClosing
    <3>2. /\ ~CloseWaits(Client)' /\ fin'[Client] = 1 /\ inbound'[Client] = <<>>
          /\ \E t \in Packet : t.flags = "FIN" /\ inbound'[Server] = Append(inbound[Server], t)
          /\ UNCHANGED <<app, st>>
      BY <1>5, <2>1, <2>2, <3>1, CloseSends
    <3>3. AcksThenFin(inbound'[Server])
      BY <1>0, <3>1, <3>2, PlainQueues, TwoPrograms
    <3> QED
      BY <1>1, <2>1, <3>2, <3>3 DEF ClientClosing
  <2>3. ~Handshake(e)
    BY <1>5, <2>1 DEF Handshake, SendSyn, RecvSyn, RecvSynAck, RecvHandshakeAck
  <2>4. ~HandleAck(e) /\ ~HandleFinAck(e) /\ ~HandleFin(e) /\ ~HandlePayload(e)
    BY <1>5, <2>1, NothingInbound
  <2> QED
    BY <1>2, <1>3, <1>4, <1>1, <2>2, <2>3, <2>4 DEF Connection, ControlLoop, RecvThread
<1>6. CASE e = Server
  <2>0. /\ Peer(e) = Client /\ fin[e] = 0 /\ inbound[e] \in Seq(Packet)
        /\ app[e] = "open" /\ ~CloseWaits(e) /\ ready \in [Ends -> Nat]
        /\ ready[e] <= Len(inbound[e])
    BY <1>0, <1>6, TwoPrograms DEF ClientClosing, FinBound, CloseWaits, TypeOK
  <2>k. ASSUME inbound[e] # <<>>, Head(inbound[e]).flags = "ACK",
               inbound'[e] = Tail(inbound[e]), inbound'[Peer(e)] = inbound[Peer(e)],
               app'[e] = app[e], fin'[e] = fin[e],
               st'[e] \in {"syn_rcvd", "established"}
        PROVE  ClientClosing'
    <3>1. /\ AllAcks(inbound[Server]) => AllAcks(inbound'[Server])
          /\ AcksThenFin(inbound[Server]) => AcksThenFin(inbound'[Server])
      BY <1>6, <2>0, <2>k, PlainTails
    <3> QED
      BY <1>1, <1>6, <2>0, <2>k, <3>1 DEF ClientClosing
  <2>1. CASE Handshake(e)
    <3>0. st[e] \in {"syn_rcvd", "established"}
      BY <1>6 DEF ClientClosing
    <3>1. st[e] = "syn_rcvd" /\ RecvHandshakeAck(e)
      <4>1. ~SendSyn(e) /\ ~RecvSyn(e) /\ ~RecvSynAck(e)
        BY <3>0 DEF SendSyn, RecvSyn, RecvSynAck
      <4>2. RecvHandshakeAck(e)
        BY <2>1, <4>1 DEF Handshake
      <4> QED
        BY <4>2 DEF RecvHandshakeAck
    <3>2. ready[e] > 0 /\ Take(e) /\ app' = app /\ fin' = fin
      BY <3>1 DEF RecvHandshakeAck, appVars
    <3>3. Head(inbound[e]).flags = "ACK"
      BY <1>0, <1>6, <3>1 DEF Opening, ClientClosing, Early, Client, Server
    <3>4. st'[e] = "established"
      BY <1>0, <3>1, <3>3 DEF RecvHandshakeAck, TypeOK
    <3> QED
      BY <1>0, <2>k, <3>2, <3>3, <3>4, TakeEffect
  <2>2. CASE HandleAck(e)
    <3>1. HandlesPacket(e) /\ Head(inbound[e]).flags = "ACK"
      BY <2>2 DEF HandleAck
    <3>2. Take(e) /\ st' = st /\ app' = app /\ fin' = fin
      BY <1>0, <2>2, NobodyAborts DEF HandleAck, appVars
    <3>3. ready[e] > 0
      BY <1>0, <3>1 DEF HandlesPacket, Pending
    <3>4. st'[e] \in {"syn_rcvd", "established"}
      BY <1>6, <3>2 DEF ClientClosing
    <3> QED
      BY <1>0, <2>k, <3>1, <3>2, <3>3, <3>4, TakeEffect
  <2>3. CASE HandleFin(e)
    <3>1. /\ inbound[e] # <<>> /\ Head(inbound[e]).flags = "FIN"
          /\ inbound'[e] = Tail(inbound[e])
          /\ fin'[e] = 1 /\ st'[e] = st[e] /\ ~CloseWaits(e)' /\ app' = app
      BY <1>0, <2>0, <2>3, FinTaken, TwoPrograms
    <3>2. \E t \in Packet : t.flags = "ACK" /\ inbound'[Client] = Append(inbound[Client], t)
      BY <1>0, <2>0, <2>3, FinTaken, TwoPrograms
    <3>3. fin[Client] = 1 /\ ~CloseWaits(Client) /\ inbound'[Server] = <<>>
      BY <1>6, <2>0, <3>1, PlainTails DEF ClientClosing
    <3>4. Len(inbound'[Client]) = 1 /\ Head(inbound'[Client]).flags = "ACK"
      <4>1. inbound[Client] = <<>>
        BY DEF ClientClosing
      <4>2. PICK t \in Packet : t.flags = "ACK" /\ inbound'[Client] = Append(<<>>, t)
        BY <3>2, <4>1
      <4> QED
        BY <4>2
    <3>5. st[Server] = "established"
      <4>1. ev[e] # {}
        BY <2>3 DEF HandleFin, HandlesPacket
      <4> QED
        BY <1>0, <1>6, <4>1 DEF Pending
    <3>6. /\ server' = "line" /\ app'[Client] = "closing" /\ app'[Server] = "open"
          /\ st'[Client] = "established" /\ st'[Server] = "established"
          /\ fin'[Client] = 1 /\ fin'[Server] = 1
          /\ ~CloseWaits(Client)' /\ ~CloseWaits(Server)'
      BY <1>1, <1>6, <2>0, <3>1, <3>3, <3>5 DEF ClientClosing
    <3>7. \A f \in Ends : st'[f] = "established" /\ fin'[f] \in 1 .. 2
      BY <3>6, TwoPrograms
    <3> QED
      BY <3>3, <3>4, <3>6, <3>7 DEF ServerClosing
  <2>4. ~HandleFinAck(e) /\ ~HandleClose(e)
    BY <2>0 DEF HandleFinAck, HandleClose, CloseWaits
  <2>5. ~HandlePayload(e)
    <3>1. ASSUME HandlePayload(e) PROVE FALSE
      <4>1. HandlesPacket(e) /\ Head(inbound[e]).flags \notin {"ACK", "FIN"}
        BY <3>1 DEF HandlePayload
      <4>2. inbound[e] # <<>>
        BY <1>0, <4>1, PacketWaiting DEF SequenceInv, StreamInv
      <4> QED
        BY <1>6, <2>0, <4>1, <4>2, PlainTails DEF ClientClosing
    <3> QED
      BY <3>1
  <2> QED
    BY <1>1, <1>2, <1>3, <1>4, <2>1, <2>2, <2>3, <2>4, <2>5 DEF Connection, ControlLoop, RecvThread
<1> QED
  BY <1>5, <1>6, TwoPrograms

LEMMA ServerCloseMoves ==
    ASSUME SequenceInv, PhaseInv, Settled, ServerClosing, NEW e \in Ends, Connection(e)
    PROVE  ServerClosing' \/ BothClosing'
<1>0. /\ TypeOK /\ Unbroken /\ ready \in [Ends -> Nat]
      /\ \A f \in Ends : /\ up[f] /\ Pending(f) /\ FinBound(f) /\ inbound[f] \in Seq(Packet)
                         /\ fin[f] \in 1 .. 2 /\ st[f] = "established"
                         /\ app[f] \in {"open", "closing"} /\ ready[f] <= Len(inbound[f])
  <2>1. \A f \in Ends : /\ TypeOK /\ Thread(f) /\ Pending(f) /\ FinBound(f)
                        /\ fin[f] \in 1 .. 2 /\ st[f] = "established"
    BY SequenceFacts DEF ServerClosing
  <2>2. \A f \in Ends : app[f] \in {"open", "closing"}
    BY TwoPrograms DEF ServerClosing
  <2> QED
    BY <2>1, <2>2, TwoPrograms DEF TypeOK, PhaseInv, Thread
<1>1. /\ Settled' /\ ~HandleAppData(e) /\ server' = server
      /\ app'[Peer(e)] = app[Peer(e)] /\ fin'[Peer(e)] = fin[Peer(e)]
      /\ st'[Peer(e)] = st[Peer(e)] /\ ready'[Peer(e)] = ready[Peer(e)]
      /\ (CloseWaits(Peer(e))' <=> CloseWaits(Peer(e)))
  BY SettledThreads
<1>2. /\ ~MyCloseReturns(e) /\ ~ThreadExit(e) /\ ~AssertDataSent(e) /\ ~AssertPoll(e)
      /\ ~RecvEof(e) /\ ~Handshake(e) /\ ~HandleAck(e)
  <2>1. up[Peer(e)]
    BY <1>0, PeerFacts
  <2> QED
    BY <1>0, <2>1, NobodyAborts DEF MyCloseReturns, ThreadExit, RecvEof, Handshake, SendSyn,
                                    RecvSyn, RecvSynAck, RecvHandshakeAck, HandleAck
<1>3. CASE WaitForEvent(e)
  <2>1. CloseWaits(e)' <=> CloseWaits(e)
    BY <1>0, <1>3, WaitSettled
  <2>2. UNCHANGED <<app, inbound, ready, st, fin>>
    BY <1>0, <1>3, WaitSettled
  <2>3. (CloseWaits(Client)' <=> CloseWaits(Client)) /\ (CloseWaits(Server)' <=> CloseWaits(Server))
    BY <1>1, <2>1, TwoPrograms
  <2> QED
    BY <1>1, <2>2, <2>3 DEF ServerClosing
<1>4. CASE RecvPacket(e)
  <2>1. UNCHANGED <<app, inbound, st, fin, ev, closeReq>>
    BY <1>4 DEF RecvPacket, appVars
  <2> QED
    BY <1>1, <2>1 DEF ServerClosing, CloseWaits
<1>5. CASE e = Client
  <2> DEFINE q == inbound[Client]
  <2>0. /\ Peer(e) = Server /\ q \in Seq(Packet) /\ ~CloseWaits(Client)
        /\ Len(q) = (2 - fin[Client]) + (fin[Server] - 1)
        /\ fin[Client] = 1 => Head(q).flags = "ACK"
        /\ fin[Server] = 2 => q[Len(q)].flags = "FIN" /\ server = "end"
        /\ fin[Client] \in 1 .. 2 /\ fin[Server] \in 1 .. 2
        /\ inbound[Server] = <<>> /\ st[Server] = "established" /\ up[Server]
        /\ ready[Client] \in Nat /\ ready[Client] <= Len(q)
    BY <1>0, <1>5, TwoPrograms DEF ServerClosing
  <2> HIDE DEF q
  <2>q. ASSUME q # <<>>
        PROVE  /\ Head(q) = q[1] /\ Len(Tail(q)) = Len(q) - 1 /\ Tail(q) \in Seq(Packet)
               /\ Len(q) # 1 => Tail(q)[Len(Tail(q))] = q[Len(q)]
               /\ Len(q) = 1 => Tail(q) = <<>>
               /\ Len(q) >= 1
               /\ fin[Client] = 2 => /\ fin[Server] = 2 /\ Len(q) = 1
                                     /\ Head(q).flags = "FIN" /\ server = "end"
    <3>1. /\ Head(q) = q[1] /\ Len(Tail(q)) = Len(q) - 1 /\ Tail(q) \in Seq(Packet)
          /\ Len(q) # 1 => Tail(q)[Len(Tail(q))] = q[Len(q)]
          /\ Len(q) = 1 => Tail(q) = <<>>
          /\ Len(q) >= 1
      <4>1. Head(q) = q[1] /\ Tail(q) \in Seq(Packet)
        BY <2>0, <2>q
      <4>2. /\ Len(Tail(q)) = Len(q) - 1 /\ Len(q) >= 1
            /\ Len(q) = 1 => Tail(q) = <<>>
            /\ Len(q) # 1 => Tail(q)[Len(Tail(q))] = q[Len(q)]
        BY <2>0, <2>q, TailIsShorter
      <4> QED
        BY <4>1, <4>2
    <3>2. fin[Client] = 2 => fin[Server] = 2 /\ Len(q) = 1
      BY <2>0, <3>1
    <3> QED
      BY <2>0, <3>1, <3>2
  <2>1. CASE HandleFinAck(e)
    <3>1. /\ q # <<>> /\ Head(q).flags = "ACK"
          /\ inbound'[Client] = Tail(q) /\ inbound'[Server] = inbound[Server]
          /\ fin'[Client] = fin[Client] + 1
          /\ st'[Client] = IF fin[Client] + 1 > 2 THEN "done" ELSE st[Client]
          /\ ~CloseWaits(Client)' /\ app' = app
      BY <1>5, <2>0, <2>1, FinAckTaken DEF q
    <3>2. fin[Client] = 1 /\ fin'[Client] = 2 /\ st'[Client] = "established"
      BY <1>0, <2>0, <2>q, <3>1, TwoPrograms
    <3>3. Len(inbound'[Client]) = fin[Server] - 1
      BY <2>0, <2>q, <3>1, <3>2
    <3>4. fin[Server] = 2 => inbound'[Client][Len(inbound'[Client])].flags = "FIN"
      BY <2>0, <2>q, <3>1, <3>2
    <3>5. fin'[Server] = fin[Server] /\ st'[Server] = "established"
      <4>1. fin'[Peer(e)] = fin[Peer(e)] /\ st'[Peer(e)] = st[Peer(e)]
        BY <1>1
      <4>2. Peer(e) = Server /\ st[Server] = "established"
        BY <2>0
      <4> QED
        BY <4>1, <4>2
    <3>6. \A f \in Ends : st'[f] = "established" /\ fin'[f] \in 1 .. 2
      <4>1. /\ st'[Client] = "established" /\ st'[Server] = "established"
            /\ fin'[Client] \in 1 .. 2 /\ fin'[Server] \in 1 .. 2
        BY <2>0, <3>2, <3>5
      <4> QED
        BY <4>1, TwoPrograms
    <3>7. CloseWaits(Server)' <=> CloseWaits(Server)
      BY <1>1, <2>0
    <3>8. Len(inbound'[Client]) = (2 - fin'[Client]) + (fin'[Server] - 1)
      BY <2>0, <3>2, <3>3, <3>5
    <3>9. /\ server' = server /\ app' = app /\ inbound'[Server] = <<>> /\ ~CloseWaits(Client)'
          /\ fin'[Client] # 1 /\ fin'[Server] = fin[Server]
      BY <1>1, <2>0, <3>1, <3>2, <3>5
    <3>10. /\ app'[Client] = "closing"
           /\ app'[Server] = IF server' = "end" THEN "closing" ELSE "open"
           /\ CloseWaits(Server)' <=> server' = "end" /\ fin'[Server] = 1
           /\ fin'[Server] = 2 => server' = "end"
      BY <3>7, <3>9 DEF ServerClosing
    <3>11. ServerClosing'
      BY <3>4, <3>6, <3>8, <3>9, <3>10 DEF ServerClosing
    <3> QED
      BY <3>11
  <2>2. CASE HandleFin(e)
    <3>1. /\ q # <<>> /\ Head(q).flags = "FIN" /\ ready[Client] > 0
          /\ inbound'[Client] = Tail(q) /\ ready'[Client] = ready[Client] - 1
          /\ fin'[Client] = fin[Client] + 1
          /\ st'[Client] = IF fin[Client] + 1 > 2 THEN "done" ELSE st[Client]
          /\ ~CloseWaits(Client)' /\ app' = app
      BY <1>5, <2>0, <2>2, FinTaken DEF q
    <3>2. \E t \in Packet : t.flags = "ACK" /\ inbound'[Server] = Append(<<>>, t)
      <4>1. \E t \in Packet : /\ t.flags = "ACK"
                             /\ inbound'[Peer(e)] = Append(inbound[Peer(e)], t)
        BY <2>0, <2>2, FinTaken
      <4> QED
        BY <2>0, <4>1
    <3>3. fin[Client] = 2 /\ fin[Server] = 2 /\ Len(q) = 1 /\ server = "end"
      <4>1. fin[Client] = 2
        BY <2>0, <3>1
      <4> QED
        BY <2>q, <3>1, <4>1
    <3>4. Tail(q) = <<>> /\ ready[Client] = 1
      BY <2>0, <2>q, <3>1, <3>3
    <3>5. /\ inbound'[Client] = <<>> /\ ready'[Client] = 0 /\ Len(inbound'[Client]) = 0
          /\ st'[Client] = "done"
      BY <3>1, <3>3, <3>4, EmptySeq
    <3>6. /\ inbound'[Server] # <<>> /\ Head(inbound'[Server]).flags = "ACK"
          /\ Len(inbound'[Server]) = 1
      BY <3>2
    <3>7. /\ st'[Server] = "established" /\ fin'[Server] = 2 /\ ~CloseWaits(Server)'
          /\ app'[Client] = "closing" /\ app'[Server] = "closing"
      <4>1. app[Client] = "closing" /\ app[Server] = "closing" /\ ~CloseWaits(Server)
        BY <3>3 DEF ServerClosing
      <4> QED
        BY <1>0, <1>1, <2>0, <3>1, <3>3, <4>1, TwoPrograms
    <3>8. /\ \A f \in Ends : app'[f] \in {"closing", "closed"} /\ ~CloseWaits(f)'
          /\ \A f \in Ends : app'[f] = "closed" => st'[f] = "exited"
      BY <3>1, <3>7, TwoPrograms
    <3>9. BothClosing'
      BY <1>1, <3>3, <3>5, <3>6, <3>7, <3>8 DEF BothClosing
    <3> QED
      BY <3>9
  <2>3. ~HandlePayload(e)
    <3>1. ASSUME HandlePayload(e) PROVE FALSE
      <4>1. HandlesPacket(e) /\ Head(inbound[e]).flags \notin {"ACK", "FIN"}
        BY <3>1 DEF HandlePayload
      <4>2. q # <<>>
        BY <1>5, <4>1, PacketWaiting DEF SequenceInv, StreamInv, q
      <4> QED
        BY <1>5, <2>0, <2>q, <4>1, <4>2 DEF q
    <3> QED
      BY <3>1
  <2>4. ~HandleClose(e)
    BY <1>5, <2>0 DEF HandleClose, CloseWaits
  <2> QED
    BY <1>1, <1>2, <1>3, <1>4, <2>1, <2>2, <2>3, <2>4 DEF Connection, ControlLoop, RecvThread
<1>6. CASE e = Server
  <2>0. /\ Peer(e) = Client /\ inbound[e] = <<>> /\ inbound[Client] \in Seq(Packet)
        /\ fin[Client] \in 1 .. 2 /\ fin[Server] \in 1 .. 2 /\ up[Client]
        /\ Len(inbound[Client]) = (2 - fin[Client]) + (fin[Server] - 1)
    BY <1>0, <1>6, TwoPrograms DEF ServerClosing
  <2>1. /\ ~HandleAck(e) /\ ~HandleFinAck(e) /\ ~HandleFin(e) /\ ~HandlePayload(e)
    BY <2>0, NothingInbound
  <2>2. CASE HandleClose(e)
    <3>0. fin[e] \in Nat
      BY <1>0
    <3>1. /\ CloseWaits(e) /\ ~CloseWaits(e)' /\ fin'[e] = fin[e] + 1
          /\ inbound'[e] = inbound[e]
          /\ UNCHANGED <<app, st>>
      BY <2>0, <2>2, <3>0, CloseSends
    <3>2. PICK t \in Packet : t.flags = "FIN" /\ inbound'[Client] = Append(inbound[Client], t)
      BY <2>0, <2>2, <3>0, CloseSends
    <3>3. server = "end" /\ fin[Server] = 1 /\ fin'[Server] = 2
      BY <1>6, <3>1 DEF ServerClosing
    <3>4. /\ Len(inbound'[Client]) = Len(inbound[Client]) + 1
          /\ inbound'[Client][Len(inbound'[Client])] = t
          /\ Len(inbound[Client]) > 0 => Head(inbound'[Client]) = Head(inbound[Client])
      BY <2>0, <3>2
    <3>5. fin'[Client] = fin[Client]
      BY <1>1, <2>0
    <3>6. fin'[Client] = 1 => Head(inbound'[Client]).flags = "ACK"
      <4>1. fin[Client] = 1 => Len(inbound[Client]) > 0
        BY <2>0, <3>3
      <4> QED
        BY <3>4, <3>5, <4>1 DEF ServerClosing
    <3>7. Len(inbound'[Client]) = (2 - fin'[Client]) + (fin'[Server] - 1)
      <4>1. Len(inbound[Client]) = 2 - fin[Client]
        BY <2>0, <3>3
      <4>2. Len(inbound'[Client]) = (2 - fin[Client]) + 1
        BY <3>4, <4>1
      <4> QED
        BY <2>0, <3>3, <3>5, <4>2
    <3>8. \A f \in Ends : st'[f] = "established" /\ fin'[f] \in 1 .. 2
      BY <1>0, <2>0, <3>1, <3>3, <3>5, TwoPrograms
    <3>9. ~CloseWaits(Client)' /\ ~CloseWaits(Server)'
      BY <1>1, <1>6, <2>0, <3>1 DEF ServerClosing
    <3> QED
      BY <1>1, <1>6, <2>0, <3>1, <3>2, <3>3, <3>4, <3>6, <3>7, <3>8, <3>9 DEF ServerClosing
  <2> QED
    BY <1>1, <1>2, <1>3, <1>4, <2>1, <2>2 DEF Connection, ControlLoop, RecvThread
<1> QED
  BY <1>5, <1>6, TwoPrograms

LEMMA BothCloseMoves ==
    ASSUME SequenceInv, PhaseInv, Settled, BothClosing, NEW e \in Ends, Connection(e)
    PROVE  BothClosing' /\ Unbroken'
<1> DEFINE Last == /\ st[Server] = "established" /\ fin[Server] = 2
                   /\ inbound[Server] # <<>> /\ Head(inbound[Server]).flags = "ACK"
                   /\ Len(inbound[Server]) > 1 => ready[Server] = Len(inbound[Server])
           Rest == /\ st[Server] \in {"done", "exited"}
                   /\ ready[Server] = Len(inbound[Server])
<1>0. /\ TypeOK /\ Unbroken /\ Pending(e) /\ FinBound(e) /\ inbound[e] \in Seq(Packet)
      /\ inbound[Peer(e)] \in Seq(Packet)
      /\ ready \in [Ends -> Nat] /\ ready[e] \in Nat /\ ready[e] <= Len(inbound[e])
      /\ st[e] \in {"established", "done", "exited"} /\ app[e] \in {"closing", "closed"}
      /\ ~CloseWaits(e) /\ (app[e] = "closed" => st[e] = "exited")
      /\ Peer(e) # e /\ Peer(e) \in Ends
  <2>1. TypeOK /\ Pending(e) /\ FinBound(e) /\ Peer(e) # e /\ Peer(e) \in Ends
    BY SequenceFacts
  <2> QED
    BY <2>1, TwoPrograms DEF BothClosing, TypeOK, PhaseInv
<1>1. /\ Settled' /\ ~HandleAppData(e) /\ server' = server
      /\ app'[Peer(e)] = app[Peer(e)] /\ fin'[Peer(e)] = fin[Peer(e)]
      /\ st'[Peer(e)] = st[Peer(e)] /\ ready'[Peer(e)] = ready[Peer(e)]
      /\ (CloseWaits(Peer(e))' <=> CloseWaits(Peer(e)))
  BY SettledThreads
<1>2. /\ ~AssertDataSent(e) /\ ~AssertPoll(e) /\ ~Handshake(e) /\ ~HandleClose(e)
  BY <1>0, NobodyAborts DEF Handshake, SendSyn, RecvSyn, RecvSynAck, RecvHandshakeAck,
                            HandleClose, CloseWaits
<1>3. ASSUME HandlesPacket(e) PROVE e = Server /\ Last /\ ready[e] > 0
  BY <1>0, <1>3, TwoPrograms DEF HandlesPacket, Pending, BothClosing
<1>4. ~HandleAck(e) /\ ~HandleFin(e) /\ ~HandlePayload(e)
  BY <1>3 DEF HandleAck, HandleFin, HandlePayload
\* The end that does not move, and what has to be shown of the one that does.
<1>5. ASSUME inbound'[Peer(e)] = inbound[Peer(e)], reset' = reset, ~CloseWaits(e)',
             app'[e] \in {"closing", "closed"}, app'[e] = "closed" => st'[e] = "exited",
             st'[e] \in {"established", "done", "exited"},
             e = Client => /\ st'[e] \in {"done", "exited"}
                           /\ ready'[e] = Len(inbound'[e]),
             e = Server => Last' \/ Rest'
      PROVE  BothClosing' /\ Unbroken'
  <2>1. e = Client => (Last => Last') /\ (Rest => Rest')
    BY <1>1, <1>5, TwoPrograms
  <2>2. Last' \/ Rest'
    BY <1>5, <2>1, TwoPrograms DEF BothClosing
  <2>3. st'[Client] \in {"done", "exited"} /\ ready'[Client] = Len(inbound'[Client])
    BY <1>1, <1>5, TwoPrograms DEF BothClosing
  <2>4. /\ \A f \in Ends : app'[f] \in {"closing", "closed"} /\ ~CloseWaits(f)'
        /\ \A f \in Ends : app'[f] = "closed" => st'[f] = "exited"
    <3>1. /\ app'[Peer(e)] \in {"closing", "closed"} /\ ~CloseWaits(Peer(e))'
          /\ app'[Peer(e)] = "closed" => st'[Peer(e)] = "exited"
      BY <1>0, <1>1 DEF BothClosing
    <3> QED
      BY <1>5, <3>1, TwoEnds
  <2>5. server' = "end"
    BY <1>1 DEF BothClosing
  <2>6. BothClosing'
    BY <2>2, <2>3, <2>4, <2>5 DEF BothClosing
  <2>7. Unbroken'
    <3>1. st'[Peer(e)] # "abort" /\ st'[e] # "abort"
      BY <1>0, <1>1, <1>5 DEF Unbroken
    <3> QED
      BY <1>0, <1>5, <2>4, <3>1, TwoEnds DEF Unbroken
  <2> QED
    BY <2>6, <2>7
<1>6. CASE WaitForEvent(e)
  <2>1. /\ ~CloseWaits(e)' /\ UNCHANGED <<app, inbound, ready, st, fin, reset>>
        /\ st[e] = "established"
    BY <1>0, <1>6, WaitSettled DEF WaitForEvent
  <2>2. e = Server /\ Last
    BY <2>1, TwoPrograms DEF BothClosing
  <2>3. Last'
    BY <2>1, <2>2
  <2> QED
    BY <1>0, <1>5, <2>1, <2>2, <2>3, TwoPrograms
<1>7. CASE HandleFinAck(e)
  <2>1. e = Server /\ Last
    BY <1>3, <1>7 DEF HandleFinAck
  <2>2. /\ ready[e] > 0 /\ inbound[e] # <<>>
        /\ inbound'[e] = Tail(inbound[e]) /\ inbound'[Peer(e)] = inbound[Peer(e)]
        /\ ready'[e] = ready[e] - 1 /\ ~CloseWaits(e)'
        /\ st'[e] = IF fin[e] + 1 > 2 THEN "done" ELSE st[e]
        /\ UNCHANGED <<app, reset>>
    BY <1>0, <1>7, FinAckTaken
  <2>3. st'[e] = "done"
    BY <2>1, <2>2
  <2>4. Len(inbound'[e]) = Len(inbound[e]) - 1 /\ Len(inbound[e]) \in Nat
    BY <1>0, <2>2, TailIsShorter
  <2>5. ready[e] = Len(inbound[e])
    BY <1>0, <2>1, <2>2, <2>4
  <2>6. Rest'
    BY <2>1, <2>2, <2>3, <2>4, <2>5
  <2>7. app[e] = "closing"
    BY <1>0, <2>1
  <2> QED
    BY <1>5, <2>1, <2>2, <2>3, <2>6, <2>7, TwoPrograms
<1>8. CASE ThreadExit(e)
  <2>1. /\ st[e] = "done" /\ st'[e] = "exited"
        /\ UNCHANGED <<app, inbound, ready, reset, closeReq, ev>>
    BY <1>0, <1>8 DEF ThreadExit, appVars, netVars, TypeOK
  <2>2. ~CloseWaits(e)'
    BY <1>0, <2>1 DEF CloseWaits
  <2>3. e = Server => Rest'
    BY <2>1, TwoPrograms DEF BothClosing
  <2>4. e = Client => ready'[e] = Len(inbound'[e])
    BY <2>1 DEF BothClosing
  <2> QED
    BY <1>0, <1>5, <2>1, <2>2, <2>3, <2>4
<1>9. CASE RecvPacket(e)
  <2>1. /\ ready[e] < Len(inbound[e]) /\ ready'[e] = ready[e] + 1
        /\ UNCHANGED <<app, inbound, reset, closeReq, ev, st, fin>>
    BY <1>0, <1>9 DEF RecvPacket, appVars
  <2>2. ~CloseWaits(e)'
    BY <1>0, <2>1 DEF CloseWaits
  <2>3. e = Server /\ Last /\ ~(Len(inbound[Server]) > 1)
    <3>1. ready[e] # Len(inbound[e])
      BY <1>0, <2>1
    <3> QED
      BY <3>1, TwoPrograms DEF BothClosing
  <2>4. Last'
    BY <2>1, <2>3
  <2> QED
    BY <1>0, <1>5, <2>1, <2>2, <2>3, <2>4, TwoPrograms
<1>10. CASE RecvEof(e)
  <2>1. /\ ready[e] = Len(inbound[e]) /\ ready'[e] = ready[e] + 1
        /\ inbound'[e] = Append(inbound[e], NoPacket) /\ inbound'[Peer(e)] = inbound[Peer(e)]
        /\ UNCHANGED <<app, reset, closeReq, ev, st, fin>>
    BY <1>0, <1>10 DEF RecvEof, appVars, TypeOK
  <2>2. /\ Len(inbound'[e]) = Len(inbound[e]) + 1
        /\ inbound[e] # <<>> => inbound'[e] # <<>> /\ Head(inbound'[e]) = Head(inbound[e])
    <3>1. NoPacket \in Packet
      BY NoPacketType
    <3> QED
      BY <1>0, <2>1, <3>1
  <2>3. ~CloseWaits(e)'
    BY <1>0, <2>1 DEF CloseWaits
  <2>4. ready'[e] = Len(inbound'[e])
    BY <2>1, <2>2
  <2>5. e = Server => Last' \/ Rest'
    BY <2>1, <2>2, <2>4 DEF BothClosing
  <2>6. e = Client => st'[e] \in {"done", "exited"}
    BY <2>1 DEF BothClosing
  <2> QED
    BY <1>0, <1>5, <2>1, <2>3, <2>4, <2>5, <2>6
<1>11. CASE MyCloseReturns(e)
  <2>1. /\ st[e] = "exited" /\ st' = st /\ app'[e] = "closed" /\ Disconnect(e)
        /\ closeReq'[e] = FALSE /\ ev' = ev /\ fin' = fin
    BY <1>0, <1>11 DEF MyCloseReturns, TypeOK
  <2>2. ready[e] = Len(inbound[e])
    BY <2>1, TwoPrograms DEF BothClosing
  <2>3. /\ reset' = reset /\ inbound'[e] = <<>> /\ ready'[e] = 0
        /\ inbound'[Peer(e)] = inbound[Peer(e)]
    BY <1>0, <2>1, <2>2 DEF Disconnect, TypeOK
  <2>4. ~CloseWaits(e)' /\ ready'[e] = Len(inbound'[e])
    BY <1>0, <2>1, <2>3, EmptySeq DEF CloseWaits
  <2>5. e = Server => Rest'
    BY <2>1, <2>4
  <2> QED
    BY <1>5, <2>1, <2>3, <2>4, <2>5
<1> QED
  BY <1>1, <1>2, <1>4, <1>6, <1>7, <1>8, <1>9, <1>10, <1>11 DEF Connection, ControlLoop, RecvThread

-----------------------------------------------------------------------------
(* Every step of the file transfer keeps the phase of the connection.        *)

LEMMA PhaseConnection ==
    ASSUME SequenceInv, TalkInv, PhaseInv, NEW e \in Ends, Connection(e)
    PROVE  PhaseInv'
<1>1. \A f \in Ends : Solid(appRecvQ'[f])
  BY SolidKept DEF PhaseInv
<1>2. CASE Talking
  BY <1>1, <1>2, TalkingConnection DEF PhaseInv, Phase
<1>3. CASE Settled /\ (ClientClosing \/ ServerClosing)
  <2>1. Settled'
    BY <1>3, SettledThreads
  <2>2. ClientClosing' \/ ServerClosing' \/ BothClosing'
    BY <1>3, ClientCloseMoves, ServerCloseMoves
  <2>3. up[Peer(e)] /\ ~MyCloseReturns(e) /\ Unbroken
    <3>1. Thread(Peer(e)) /\ app[Peer(e)] \in {"open", "closing"}
      BY <1>3, SequenceFacts, TwoPrograms DEF ClientClosing, ServerClosing
    <3>2. st[e] # "exited"
      BY <1>3, TwoPrograms DEF ClientClosing, ServerClosing
    <3> QED
      BY <3>1, <3>2 DEF Thread, MyCloseReturns, PhaseInv
  <2>4. Unbroken'
    BY <2>3, UnbrokenKept DEF Connection
  <2> QED
    BY <1>1, <2>1, <2>2, <2>4 DEF PhaseInv, Phase
<1>4. CASE Settled /\ BothClosing
  <2>1. Settled' /\ BothClosing' /\ Unbroken'
    BY <1>4, SettledThreads, BothCloseMoves
  <2> QED
    BY <1>1, <2>1 DEF PhaseInv, Phase
<1> QED
  BY <1>2, <1>3, <1>4 DEF PhaseInv, Phase

LEMMA PhaseNext ==
    ASSUME SequenceInv, TalkInv, PhaseInv, [FTNext]_allVars
    PROVE  PhaseInv'
<1>1. CASE UNCHANGED allVars
  BY <1>1 DEF allVars, vars, ftVars, PhaseInv, Unbroken, Phase, Talking, Early, Busy, Settled,
              ClientClosing, ServerClosing, BothClosing, CloseWaits
<1>2. CASE SendRequest \/ ClientCloses \/ ClientReads \/ ServerRuns
  <2>1. CASE Talking
    BY <1>2, <2>1, TalkingPrograms, PromptSettles
  <2>2. CASE Settled /\ (ClientClosing \/ ServerClosing \/ BothClosing)
    BY <1>2, <2>2, SettledPrograms
  <2> QED
    BY <2>1, <2>2 DEF PhaseInv, Phase
<1> QED
  BY <1>1, <1>2, PhaseConnection DEF FTNext

LEMMA PhaseInit == FTInit => PhaseInv
<1> SUFFICES ASSUME FTInit PROVE PhaseInv
  OBVIOUS
<1>1. /\ \A e \in Ends : /\ app[e] = "open" /\ ~reset[e] /\ appRecvQ[e] = <<>>
                         /\ inbound[e] = <<>> /\ st[e] # "abort"
      /\ st[Active] = "init" /\ st[Server] = "listen" /\ client = "prompt"
  BY DEF FTInit, Init, Server, Ends, Active, Passive
<1>2. Len(<<>>) <= 1 /\ Solid(<<>>)
  BY EmptySeq DEF Solid
<1>3. Talking
  BY <1>1, <1>2, TwoPrograms DEF Talking, Early
<1> QED
  BY <1>1, <1>2, <1>3 DEF PhaseInv, Phase, Unbroken

-----------------------------------------------------------------------------
(* The sequence numbers.                                                     *)

LEMMA Products ==
    ASSUME NEW a \in Nat, NEW b \in Nat, NEW w \in Nat
    PROVE  /\ a * w \in Nat /\ (a + 1) * w = a * w + w
           /\ a <= b => a * w <= b * w
<1>1. a * w \in Nat /\ (a + 1) * w = a * w + w
  OBVIOUS
<1>2. ASSUME a <= b PROVE a * w <= b * w
  <2>1. b - a \in Nat
    BY <1>2
  <2>2. (b - a) * w \in Nat /\ b * w = a * w + (b - a) * w /\ a * w \in Nat
    BY <2>1
  <2> QED
    BY <2>2
<1> QED
  BY <1>1, <1>2

LEMMA BudgetFits ==
    ASSUME NEW w \in Nat, FilesFit(w), Budget(w), StreamInv, ProgramTypes
    PROVE  Fits
<1>1. requests * w <= MaxRequests * w /\ requests * w \in Nat /\ MaxRequests * w \in Nat
  BY Products, FileTransferAssumption DEF Budget, ProgramTypes
<1>2. Owed \in Nat /\ written[Client] \in Nat /\ written[Server] \in Nat
  BY FileTransferAssumption, TwoPrograms DEF Owed, ProgramTypes, StreamInv, TypeInv, TypeOK
<1>3. written[Client] <= requests * w /\ written[Server] + Owed <= requests * w
      /\ MaxRequests * w + 2 < SeqMod /\ SeqMod \in Nat
  BY StcpAssumption DEF Budget, FilesFit
<1> DEFINE x == requests * w
           y == MaxRequests * w
<1>4. x <= y /\ x \in Nat /\ y \in Nat /\ written[Client] <= x /\ written[Server] + Owed <= x
      /\ y + 2 < SeqMod /\ SeqMod \in Nat
  BY <1>1, <1>3
<1> HIDE DEF x, y
<1>5. written[Client] + 2 < SeqMod /\ written[Server] + 2 < SeqMod
  BY <1>2, <1>4
<1> QED
  BY <1>5, TwoPrograms DEF Fits

LEMMA BudgetKept ==
    ASSUME NEW w \in Nat, FilesFit(w), TalkInv, TalkInv', PhaseInv, PhaseInv', Budget(w),
           [FTNext]_allVars
    PROVE  Budget(w)'
<1>t. /\ requests \in Nat /\ fileLen \in Nat /\ fileLeft \in Nat /\ StreamInv /\ TypeOK
      /\ written[Client] \in Nat /\ written[Server] \in Nat /\ rcvd[Server] \in Nat
      /\ rcvd \in [Ends -> Nat]
      /\ RequestLen \in Nat \ {0} /\ ReplyLen \in Nat \ {0} /\ FileLens \subseteq Nat
      /\ ReadSize \in Nat \ {0} /\ MaxRequests \in Nat /\ requests * w \in Nat
      /\ RequestLen <= w /\ \A n \in FileLens : ReplyLen + n <= w
      /\ client = "end" => Settled /\ server # "reply"
      /\ client' = "end" => Settled' /\ server' # "reply"
      /\ client # "end" => Conversation
  BY TalkTypes, FileTransferAssumption, Products
     DEF TalkInv, ProgramTypes, StreamInv, TypeInv, TypeOK, FilesFit, PhaseInv, Phase,
         Talking, Settled
\* A step that writes nothing.
<1>s. ASSUME UNCHANGED <<requests, fileLen, fileLeft, written>>, Owed' = Owed
      PROVE  Budget(w)'
  BY <1>s DEF Budget
<1>1. CASE \/ UNCHANGED allVars \/ ClientCloses \/ ClientReads
           \/ ServerCloses \/ \E e \in Ends : Connection(e)
  <2>1. /\ UNCHANGED <<requests, fileLen, fileLeft, written>> /\ rcvd'[Server] = rcvd[Server]
        /\ server = "reply" <=> server' = "reply"
    <3>1. CASE UNCHANGED allVars
      BY <3>1 DEF allVars, vars, ftVars
    <3>2. CASE ClientCloses \/ ServerCloses
      BY <3>2 DEF ClientCloses, ServerCloses, MyClose
    <3>3. CASE ClientReads
      BY <1>t, <3>3, TwoPrograms DEF ClientReads, ClientReadsLine, ClientReadsFile, MyRead
    <3>4. CASE \E e \in Ends : Connection(e)
      BY <3>4, ThreadsRest
    <3> QED
      BY <1>1, <3>1, <3>2, <3>3, <3>4
  <2>2. Owed' = Owed
    BY <2>1 DEF Owed
  <2> QED
    BY <1>s, <2>1, <2>2
<1>2. CASE ServerReadsLine
  <2>1. /\ server = "line" /\ MyRead(Server, 1) /\ client' = client
        /\ UNCHANGED <<requests, fileLen, fileLeft, written>>
    BY <1>2 DEF ServerReadsLine, MyRead
  <2>2. CASE client = "end"
    BY <1>s, <1>t, <2>1, <2>2 DEF Owed, Settled
  <2>3. CASE client # "end"
    <3>1. 1 \in 1 .. MaxRead
      BY StcpAssumption
    <3>2. /\ ~eof'[Server] /\ rcvd'[Server] \in Nat /\ rcvd[Server] < rcvd'[Server]
          /\ rcvd'[Server] <= rcvd[Server] + 1 /\ rcvd'[Server] <= written[Client]
      BY <2>1, <2>3, <3>1, NothingToRead, TwoPrograms
    <3>3. server' = IF lineLeft[Server] > 1 THEN "line" ELSE "reply"
      BY <1>2, <3>2 DEF ServerReadsLine
    <3>4. rcvd[Server] < written[Client]
      BY <1>t, <3>2
    <3>5. lineLeft[Server] \in Nat /\ written[Client] = rcvd[Server] + lineLeft[Server]
      BY <1>t, <2>3, <3>4, TalkTypes DEF Conversation, Asked
    <3>6. rcvd'[Server] < written[Client] \/ server' = "reply"
      BY <1>t, <3>2, <3>3, <3>5
    <3> QED
      BY <1>s, <2>1, <3>4, <3>6 DEF Owed
  <2> QED
    BY <2>2, <2>3
<1>3. CASE SendRequest
  <2>1. /\ client = "prompt" /\ requests < MaxRequests /\ MyWrite(Client, RequestLen)
        /\ requests' = requests + 1 /\ fileLen' \in FileLens
        /\ server' = server /\ fileLeft' = fileLeft
    BY <1>3 DEF SendRequest
  <2>2. /\ written'[Client] = written[Client] + RequestLen
        /\ written'[Server] = written[Server] /\ rcvd' = rcvd
    BY <1>t, <2>1, QuietWrite, TwoPrograms
  <2>3. /\ written[Client] = rcvd[Server] /\ server = "line" /\ fileLeft = 0
    BY <1>t, <2>1 DEF Conversation, Asked, Understood, Answered
  <2>4. Owed = 0
    BY <1>t, <2>3 DEF Owed
  <2>5. Owed' = ReplyLen + fileLen'
    BY <1>t, <2>2, <2>3 DEF Owed
  <2>6. requests' * w = requests * w + w
    BY <1>t, <2>1, Products
  <2>7. written[Client] <= requests * w /\ written[Server] <= requests * w
    BY <1>t, <2>4 DEF Budget
  <2> DEFINE x == requests * w
  <2>8. x \in Nat /\ requests' * w = x + w /\ written[Client] <= x /\ written[Server] <= x
    BY <1>t, <2>6, <2>7
  <2> HIDE DEF x
  <2>9. /\ written'[Client] <= x + w /\ written'[Server] + Owed' <= x + w
        /\ requests' <= MaxRequests
    BY <1>t, <2>1, <2>2, <2>5, <2>8
  <2> QED
    BY <2>1, <2>8, <2>9 DEF Budget
<1>4. CASE ServerReplies
  <2>1. /\ server = "reply" /\ MyWrite(Server, ReplyLen) /\ fileLeft' = fileLen
        /\ server' # "reply" /\ UNCHANGED <<client, requests, fileLen>>
    BY <1>4 DEF ServerReplies
  <2>2. /\ written'[Server] = written[Server] + ReplyLen
        /\ written'[Client] = written[Client] /\ rcvd' = rcvd
    BY <1>t, <2>1, QuietWrite, TwoPrograms
  <2>3. written[Client] = rcvd[Server]
    BY <1>t, <2>1 DEF Conversation, Asked, Understood, Answered
  <2>4. Owed = ReplyLen + fileLen /\ Owed' = fileLen
    BY <1>t, <2>1, <2>2, <2>3 DEF Owed
  <2>5. written'[Server] + Owed' = written[Server] + Owed
    BY <1>t, <2>2, <2>4
  <2> QED
    BY <2>1, <2>2, <2>5 DEF Budget
<1>5. CASE ServerSendsFile
  <2>1. /\ server = "file" /\ MyWrite(Server, Chunk) /\ fileLeft' = fileLeft - Chunk
        /\ server' # "reply" /\ UNCHANGED <<client, requests, fileLen>>
    BY <1>5 DEF ServerSendsFile
  <2>2. Chunk \in Nat
    BY <1>t DEF Chunk, Least
  <2>3. /\ written'[Server] = written[Server] + Chunk
        /\ written'[Client] = written[Client] /\ rcvd' = rcvd
    BY <1>t, <2>1, <2>2, QuietWrite, TwoPrograms
  <2>4. written[Client] = rcvd[Server]
    BY <1>t, <2>1 DEF Conversation, Asked, Understood, Answered, Settled
  <2>5. Owed = fileLeft /\ Owed' = fileLeft - Chunk
    BY <1>t, <2>1, <2>3, <2>4 DEF Owed
  <2>6. written'[Server] + Owed' = written[Server] + Owed
    BY <1>t, <2>2, <2>3, <2>5
  <2> QED
    BY <2>1, <2>3, <2>6 DEF Budget
<1> QED
  BY <1>1, <1>2, <1>3, <1>4, <1>5 DEF FTNext, ServerRuns

LEMMA TransferNumbered ==
    ASSUME SequenceInv, Fits, TypeOK', [FTNext]_allVars, ProgramTypes,
           Conversation \/ client = "end"
    PROVE  Numbered'
<1>1. CASE [Next]_vars
  BY <1>1, NumberedNext
<1>2. CASE SendRequest \/ ServerReplies \/ ServerSendsFile
  <2>1. ReadSize \in Nat /\ fileLeft \in Nat /\ RequestLen \in Nat /\ ReplyLen \in Nat
    BY FileTransferAssumption DEF ProgramTypes
  <2>2. Chunk \in Nat
    BY <2>1 DEF Chunk, Least
  <2>3. \E e \in Ends : \E n \in Nat : MyWrite(e, n)
    BY <1>2, <2>1, <2>2, TwoPrograms DEF SendRequest, ServerReplies, ServerSendsFile
  <2> QED
    BY <2>3, NumberedMyWrite
<1>3. CASE UNCHANGED allVars \/ ClientCloses \/ ServerCloses \/ \E e \in Ends : Connection(e)
  <2>1. CASE UNCHANGED allVars
    BY <1>1, <2>1 DEF allVars
  <2>2. CASE ClientCloses \/ ServerCloses
    BY <1>1, <2>2, TwoPrograms DEF ClientCloses, ServerCloses, Next, Application
  <2>3. CASE \E e \in Ends : Connection(e)
    BY <1>1, <2>3 DEF Connection, Next, Application
  <2> QED
    BY <1>3, <2>1, <2>2, <2>3
<1>4. CASE ClientReads \/ ServerReadsLine
  <2>1. MaxRead \in Nat \ {0} /\ length \in Nat
    BY StcpAssumption DEF ProgramTypes
  <2>2. \E e \in Ends : \E len \in 1 .. MaxRead : MyRead(e, len)
    <3>1. CASE ClientReadsLine \/ ServerReadsLine
      BY <2>1, <3>1, TwoPrograms DEF ClientReadsLine, ServerReadsLine
    <3>2. CASE ClientReadsFile
      <4>1. client = "file" /\ MyRead(Client, Least(length, MaxRead))
        BY <3>2 DEF ClientReadsFile
      <4>2. length > 0
        BY <4>1 DEF Conversation, Asked, Understood, Answered
      <4>3. Least(length, MaxRead) \in 1 .. MaxRead
        BY <2>1, <4>2 DEF Least
      <4> QED
        BY <4>1, <4>3, TwoPrograms
    <3> QED
      BY <1>4, <3>1, <3>2 DEF ClientReads
  <2>3. Next
    BY <2>2 DEF Next, Application
  <2> QED
    BY <1>1, <2>3
<1> QED
  BY <1>2, <1>3, <1>4 DEF FTNext, ServerRuns

-----------------------------------------------------------------------------
TransferInv(w) == SequenceInv /\ TalkInv /\ PhaseInv /\ Budget(w)

LEMMA TransferInit ==
    ASSUME NEW w \in Nat, FTInit PROVE TransferInv(w)
<1>1. Init
  BY DEF FTInit
<1>2. SequenceInv
  BY <1>1, StreamInit, NumberedInit DEF SequenceInv
<1>3. Budget(w)
  <2>1. /\ requests = 0 /\ fileLen = 0 /\ fileLeft = 0 /\ server = "line"
        /\ rcvd[Server] = 0 /\ written[Client] = 0 /\ written[Server] = 0
    BY <1>1, TwoPrograms DEF FTInit, Init
  <2>2. Owed = 0 /\ requests * w = 0
    BY <2>1 DEF Owed
  <2> QED
    BY <2>1, <2>2, FileTransferAssumption DEF Budget
<1> QED
  BY <1>2, <1>3, TalkInit, PhaseInit DEF TransferInv

LEMMA TransferNext ==
    ASSUME NEW w \in Nat, FilesFit(w), TransferInv(w), [FTNext]_allVars
    PROVE  TransferInv(w)'
<1>1. /\ SequenceInv /\ StreamInv /\ TalkInv /\ PhaseInv /\ Budget(w) /\ ProgramTypes
      /\ (Conversation \/ client = "end")
  BY DEF TransferInv, TalkInv
<1>2. TalkInv'
  BY <1>1, TalkNext
<1>3. StreamInv' /\ TypeOK'
  BY <1>2 DEF TalkInv, StreamInv, TypeInv
<1>4. PhaseInv'
  BY <1>1, PhaseNext
<1>5. Budget(w)'
  BY <1>1, <1>2, <1>4, BudgetKept
<1>6. Numbered'
  BY <1>1, <1>3, BudgetFits, TransferNumbered
<1> QED
  BY <1>2, <1>3, <1>4, <1>5, <1>6 DEF TransferInv, SequenceInv

LEMMA PhaseEndsLate ==
    ASSUME SequenceInv, TalkInv, PhaseInv PROVE NoEarlyEnd
<1>1. CASE Talking
  BY <1>1, TalkingFacts DEF PhaseInv, NoEarlyEnd
<1>2. CASE ClientClosing \/ ServerClosing
  <2>1. \A e \in Ends : st[e] \notin {"done", "exited", "abort"}
    BY <1>2, TwoPrograms DEF ClientClosing, ServerClosing
  <2> QED
    BY <2>1 DEF NoEarlyEnd
<1>3. CASE BothClosing
  BY <1>3 DEF BothClosing, NoEarlyEnd, PhaseInv, Unbroken
<1> QED
  BY <1>1, <1>2, <1>3 DEF PhaseInv, Phase

\* Closing: with the protocol of client.c and server.c the three steps counted
\* in ctx->fin are always the two FINs and the FIN-ACK (no acknowledgement of
\* data is still on its way when the client closes), so a control loop is left
\* only when both programs have called myclose(), and no assert fails.
THEOREM NoConnectionEndsEarly ==
    ASSUME NEW w \in Nat, FilesFit(w)
    PROVE  FTSpec => []NoEarlyEnd
<1>1. FTInit => TransferInv(w)
  BY TransferInit
<1>2. TransferInv(w) /\ [FTNext]_allVars => TransferInv(w)'
  BY TransferNext
<1>3. TransferInv(w) => NoEarlyEnd
  BY PhaseEndsLate DEF TransferInv
<1> QED
  BY <1>1, <1>2, <1>3, PTL DEF FTSpec

=============================================================================
