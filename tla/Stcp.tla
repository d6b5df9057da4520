-------------------------------- MODULE Stcp --------------------------------
(***************************************************************************)
(* One STCP connection of Project-3: the two mysockets at its ends, each   *)
(* with the three threads that work on it,                                 *)
(*                                                                         *)
(*   - the application thread, in mywrite(), myread() and myclose();       *)
(*   - the transport thread, in transport_init() and control_loop();       *)
(*   - the network receive thread, in network_recv_thread_func();          *)
(*                                                                         *)
(* the three queues of mysock_context_t they share, and the TCP socket     *)
(* that carries STCP packets from one end to the other.  Whatever one      *)
(* thread does while it holds data_ready_lock is one step.                 *)
(*                                                                         *)
(* A byte is its position in the stream of its writer, so a buffer or a    *)
(* payload is the interval lo .. hi-1 of the positions it holds; a buffer  *)
(* with lo = hi is the zero-length buffer that stands for end of file.     *)
(* Sequence numbers are the code's 32-bit numbers with SeqMod for 2^32.    *)
(***************************************************************************)
EXTENDS Integers, Sequences

CONSTANTS
    MaxPayload, \* maxPayloadSize, 516 in the code
    Window,     \* TH_Initial_Win, 3072 in the code
    SeqMod,     \* 2^32 in the code
    MaxBytes,   \* bound: how many bytes each application writes
    MaxRead     \* bound: the largest buf_len an application passes to myread()

Active  == "active"     \* the end whose application called myconnect()
Passive == "passive"    \* the end created by a SYN at a listening mysocket
Ends    == {Active, Passive}
Peer(e) == IF e = Active THEN Passive ELSE Active

ASSUME StcpAssumption ==
    /\ MaxPayload \in Nat \ {0}
    /\ Window \in Nat \ {0}
    /\ MaxRead \in Nat \ {0}
    /\ SeqMod \in Nat /\ 2 * (Window + 2) <= SeqMod
    /\ MaxBytes \in [Ends -> Nat]

VARIABLES
    \* the application thread
    app,        \* "open"; "closing": inside myclose(); "closed"; "dead"
    written,    \* bytes passed to mywrite() so far
    rcvd,       \* bytes returned by myread() so far
    eof,        \* mysock_context_t.eof: myread() returned 0
    \* the rest of mysock_context_t
    appRecvQ,   \* app_recv_queue: buffers coming from mywrite()
    appSendQ,   \* app_send_queue: buffers to be returned by myread()
    closeReq,   \* close_requested
    \* the network layer
    inbound,    \* packets sent to this end and not yet taken by its transport
    ready,      \* how many of them are in network_recv_queue (the oldest ones)
    rx,         \* the network receive thread runs
    up,         \* the TCP socket of this end is open
    reset,      \* the TCP connection of this end was reset by its peer
    \* the transport thread: where it is, and context_t
    st,         \* step of transport_init() and transport_thread_func()
    ev,         \* events of this iteration of control_loop() still to handle
    nextSeq, ackSeq, adWin, yAck, fin

appVars   == <<app, written, rcvd, eof>>
netVars   == <<inbound, ready, rx, up, reset>>
seqVars   == <<nextSeq, ackSeq, adWin, yAck>>
vars      == <<app, written, rcvd, eof, appRecvQ, appSendQ, closeReq,
               inbound, ready, rx, up, reset, st, ev,
               nextSeq, ackSeq, adWin, yAck, fin>>

-----------------------------------------------------------------------------
(* Data types *)

Events == {"APP_DATA", "NETWORK_DATA", "APP_CLOSE_REQUESTED"}
Flags  == {"SYN", "SYN_ACK", "ACK", "FIN", "DATA"}    \* "DATA": th_flags = 0

Handshaking == {"init", "syn_sent", "listen", "syn_rcvd"}
States == Handshaking \cup
          {"established", \* in control_loop()
           "done",        \* control_loop() was left, ctx->done is TRUE
           "exited",      \* transport_thread_func() has returned
           "abort"}       \* an assert of this process failed

SeqNum == 0 .. SeqMod - 1
Buffer == {b \in [lo : Nat, hi : Nat] : b.lo <= b.hi}
Size(b) == b.hi - b.lo
EofBuffer == [lo |-> 0, hi |-> 0]

Packet == {p \in [flags : Flags, seq : SeqNum, ack : SeqNum, win : {0, Window},
                  lo : Nat, hi : Nat] : p.lo <= p.hi}

\* A packet that carries nothing but its header.
Header(flags, seq, ack) ==
    [flags |-> flags, seq |-> seq, ack |-> ack, win |-> Window,
     lo |-> 0, hi |-> 0]

\* What control_loop() reads in its zeroed buffer when network_recv_queue gave
\* it the zero-length buffer of a receive thread that met end of file.  (If the
\* same iteration handled APP_DATA, the buffer holds those bytes instead; what
\* an application's bytes would mean as a header is not modelled.)
NoPacket == [flags |-> "DATA", seq |-> 0, ack |-> 0, win |-> 0,
             lo |-> 0, hi |-> 0]

Least(a, b)    == IF a < b THEN a ELSE b
Greatest(a, b) == IF a >= b THEN a ELSE b

\* Sequence number arithmetic of uint32_t, and the (int) of a difference.
Plus(a, b)  == (a + b) % SeqMod
Distance(a, b) == LET d == (a - b) % SeqMod
                  IN  IF 2 * d >= SeqMod THEN d - SeqMod ELSE d

-----------------------------------------------------------------------------
(* The initial state: myconnect() has created the active end, and a         *)
(* listening mysocket is ready to create the passive one.                    *)

Init ==
    /\ app      = [e \in Ends |-> "open"]
    /\ written  = [e \in Ends |-> 0]
    /\ rcvd     = [e \in Ends |-> 0]
    /\ eof      = [e \in Ends |-> FALSE]
    /\ appRecvQ = [e \in Ends |-> <<>>]
    /\ appSendQ = [e \in Ends |-> <<>>]
    /\ closeReq = [e \in Ends |-> FALSE]
    /\ inbound  = [e \in Ends |-> <<>>]
    /\ ready    = [e \in Ends |-> 0]
    /\ rx       = [e \in Ends |-> TRUE]
    /\ up       = [e \in Ends |-> TRUE]
    /\ reset    = [e \in Ends |-> FALSE]
    /\ st       = [e \in Ends |-> IF e = Active THEN "init" ELSE "listen"]
    /\ ev       = [e \in Ends |-> {}]
    /\ nextSeq  = [e \in Ends |-> 0]
    /\ ackSeq   = [e \in Ends |-> 0]
    /\ adWin    = [e \in Ends |-> 0]
    /\ yAck     = [e \in Ends |-> 0]
    /\ fin      = [e \in Ends |-> 0]

-----------------------------------------------------------------------------
(* The TCP socket under the packets: reliable and in order while both ends  *)
(* have it open.  A packet sent to a closed socket is lost, and answered     *)
(* with a reset.                                                             *)

\* queues, with p appended by e to what is on its way to its peer.
Sent(queues, e, p) ==
    IF up[Peer(e)] THEN [queues EXCEPT ![Peer(e)] = Append(@, p)] ELSE queues

AnswerTo(e) ==
    reset' = IF up[Peer(e)] THEN reset ELSE [reset EXCEPT ![e] = TRUE]

\* Transport thread: send a packet, or take one and send its answer.
Send(e, p)      == /\ inbound' = Sent(inbound, e, p)
                   /\ AnswerTo(e)
                   /\ UNCHANGED <<ready, rx, up>>
Take(e)         == /\ inbound' = [inbound EXCEPT ![e] = Tail(@)]
                   /\ ready' = [ready EXCEPT ![e] = @ - 1]
                   /\ UNCHANGED <<rx, up, reset>>
TakeAndSend(e, p) == /\ inbound' = Sent([inbound EXCEPT ![e] = Tail(@)], e, p)
                     /\ ready' = [ready EXCEPT ![e] = @ - 1]
                     /\ AnswerTo(e)
                     /\ UNCHANGED <<rx, up>>

\* The socket of e is closed, by myclose() or because its process died; what
\* the other end has sent and nobody has read makes TCP reset that end.
Disconnect(e) ==
    /\ up' = [up EXCEPT ![e] = FALSE]
    /\ rx' = [rx EXCEPT ![e] = FALSE]
    /\ reset' = IF ready[e] < Len(inbound[e])
                THEN [reset EXCEPT ![Peer(e)] = TRUE] ELSE reset
    /\ inbound' = [inbound EXCEPT ![e] = <<>>]
    /\ ready' = [ready EXCEPT ![e] = 0]

\* A failed assert ends the process of e.
Abort(e) ==
    /\ st' = [st EXCEPT ![e] = "abort"]
    /\ ev' = [ev EXCEPT ![e] = {}]
    /\ app' = [app EXCEPT ![e] = "dead"]
    /\ Disconnect(e)
    /\ appRecvQ' = [appRecvQ EXCEPT ![e] = <<>>]
    /\ appSendQ' = [appSendQ EXCEPT ![e] = <<>>]
    /\ closeReq' = [closeReq EXCEPT ![e] = FALSE]
    /\ UNCHANGED <<written, rcvd, eof, nextSeq, ackSeq, adWin, yAck, fin>>

-----------------------------------------------------------------------------
(* The three-way handshake of transport_init().  A packet with other flags   *)
(* than the awaited ones is taken and ignored.                               *)

SendSyn(e) ==
    /\ st[e] = "init"
    /\ Send(e, Header("SYN", nextSeq[e], 0))
    /\ nextSeq' = [nextSeq EXCEPT ![e] = Plus(@, 1)]
    /\ st' = [st EXCEPT ![e] = "syn_sent"]
    /\ UNCHANGED <<appVars, appRecvQ, appSendQ, closeReq, ev,
                   ackSeq, adWin, yAck, fin>>

RecvSyn(e) ==
    /\ st[e] = "listen"
    /\ ready[e] > 0
    /\ LET p == Head(inbound[e]) IN
       IF p.flags = "SYN"
       THEN /\ TakeAndSend(e, Header("SYN_ACK", nextSeq[e], Plus(p.seq, 1)))
            /\ nextSeq' = [nextSeq EXCEPT ![e] = Plus(@, 1)]
            /\ yAck' = [yAck EXCEPT ![e] = Plus(p.seq, 1)]
            /\ st' = [st EXCEPT ![e] = "syn_rcvd"]
       ELSE Take(e) /\ UNCHANGED <<nextSeq, yAck, st>>
    /\ UNCHANGED <<appVars, appRecvQ, appSendQ, closeReq, ev,
                   ackSeq, adWin, fin>>

RecvSynAck(e) ==
    /\ st[e] = "syn_sent"
    /\ ready[e] > 0
    /\ LET p == Head(inbound[e]) IN
       IF p.flags = "SYN_ACK"
       THEN /\ TakeAndSend(e, Header("ACK", nextSeq[e], Plus(p.seq, 1)))
            /\ ackSeq' = [ackSeq EXCEPT ![e] = p.ack]
            /\ adWin' = [adWin EXCEPT ![e] = p.win]
            /\ yAck' = [yAck EXCEPT ![e] = Plus(p.seq, 1)]
            /\ st' = [st EXCEPT ![e] = "established"]
       ELSE Take(e) /\ UNCHANGED <<ackSeq, adWin, yAck, st>>
    /\ UNCHANGED <<appVars, appRecvQ, appSendQ, closeReq, ev, nextSeq, fin>>

RecvHandshakeAck(e) ==
    /\ st[e] = "syn_rcvd"
    /\ ready[e] > 0
    /\ Take(e)
    /\ LET p == Head(inbound[e]) IN
       IF p.flags = "ACK"
       THEN /\ ackSeq' = [ackSeq EXCEPT ![e] = p.ack]
            /\ adWin' = [adWin EXCEPT ![e] = p.win]
            /\ st' = [st EXCEPT ![e] = "established"]
       ELSE UNCHANGED <<ackSeq, adWin, st>>
    /\ UNCHANGED <<appVars, appRecvQ, appSendQ, closeReq, ev,
                   nextSeq, yAck, fin>>

-----------------------------------------------------------------------------
(* control_loop(): one iteration waits for a set of events and then handles  *)
(* APP_DATA, NETWORK_DATA and APP_CLOSE_REQUESTED in that order.             *)

\* The close request is not reported before app_recv_queue is empty.
CloseReportedAtOnce(e) == closeReq[e]                               \* mutant
CloseReported(e) == closeReq[e] /\ appRecvQ[e] = <<>>

Bits(e) == {b \in Events :
              \/ b = "APP_DATA" /\ appRecvQ[e] # <<>>
              \/ b = "NETWORK_DATA" /\ ready[e] > 0
              \/ b = "APP_CLOSE_REQUESTED" /\ CloseReported(e)}

\* stcp_wait_for_event(): the close request is consumed by reporting it.
WaitForEvent(e) ==
    /\ st[e] = "established"
    /\ ev[e] = {}
    /\ Bits(e) # {}
    /\ ev' = [ev EXCEPT ![e] = Bits(e)]
    /\ closeReq' = [closeReq EXCEPT ![e] = @ /\ ~CloseReported(e)]
    /\ UNCHANGED <<appVars, netVars, appRecvQ, appSendQ, st, seqVars, fin>>

\* The max_len control_loop() passes to stcp_app_recv().
RoomBesideUnacked(e) == Least(MaxPayload, adWin[e])                 \* mutant
SendRoom(e) ==
    Least(MaxPayload, adWin[e] - Distance(nextSeq[e], ackSeq[e]))

\* What stcp_app_recv() gives of the buffer b for that max_len, a size_t: the
\* first max_len bytes, or all of it.
Portion(b, room) ==
    IF 0 <= room /\ room < Size(b) THEN [lo |-> b.lo, hi |-> b.lo + room] ELSE b

\* The queue once that portion of its first buffer is out.
LeftoverDropped(q, room) == Tail(q)                                 \* mutant
Leftover(q, room) ==
    LET b == Head(q) IN
    IF 0 <= room /\ room < Size(b)
    THEN [q EXCEPT ![1] = [lo |-> b.lo + room, hi |-> b.hi]]
    ELSE Tail(q)

\* A window that is full leaves the buffer where it is and sends nothing.
HandleAppData(e) ==
    /\ "APP_DATA" \in ev[e]
    /\ LET b == Portion(Head(appRecvQ[e]), SendRoom(e)) IN
       IF Size(b) > 0
       THEN /\ Send(e, [Header("DATA", nextSeq[e], yAck[e])
                          EXCEPT !.lo = b.lo, !.hi = b.hi])
            /\ nextSeq' = [nextSeq EXCEPT ![e] = Plus(@, Size(b))]
       ELSE UNCHANGED <<netVars, nextSeq>>
    /\ appRecvQ' = [appRecvQ EXCEPT ![e] = Leftover(@, SendRoom(e))]
    /\ ev' = [ev EXCEPT ![e] = @ \ {"APP_DATA"}]
    /\ UNCHANGED <<appVars, appSendQ, closeReq, st, ackSeq, adWin, yAck, fin>>

\* assert(sent == ...): the connection was reset and the write fails.
AssertDataSent(e) ==
    /\ "APP_DATA" \in ev[e]
    /\ reset[e]
    /\ Size(Portion(Head(appRecvQ[e]), SendRoom(e))) > 0
    /\ Abort(e)

HandlesPacket(e) == "NETWORK_DATA" \in ev[e] /\ "APP_DATA" \notin ev[e]

\* ack_seq after an acknowledgement.
FirstAckKept(e, p) == Least(p.ack, ackSeq[e])                       \* mutant
AckedBy(e, p) == Greatest(p.ack, ackSeq[e])

\* An ACK before any FIN was sent or received.
HandleAck(e) ==
    LET p == Head(inbound[e])
    IN  /\ HandlesPacket(e)
        /\ p.flags = "ACK"
        /\ fin[e] = 0
        /\ IF nextSeq[e] >= AckedBy(e, p)
           THEN /\ Take(e)
                /\ adWin' = [adWin EXCEPT ![e] = p.win]
                /\ ackSeq' = [ackSeq EXCEPT ![e] = AckedBy(e, p)]
                /\ ev' = [ev EXCEPT ![e] = @ \ {"NETWORK_DATA"}]
                /\ UNCHANGED <<appVars, appRecvQ, appSendQ, closeReq, st,
                               nextSeq, yAck, fin>>
           ELSE Abort(e)

\* ctx->fin > 2 ends the loop (break); if not, the next iteration starts
\* (continue), whatever other event this one still had to handle.
OneFinTooFew(e)  == fin[e] + 1 > 1                                  \* mutant
OneFinTooMany(e) == fin[e] + 1 > 3                                  \* mutant
FinsExchanged(e) == fin[e] + 1 > 2
CountFin(e) ==
    /\ fin' = [fin EXCEPT ![e] = @ + 1]
    /\ ev' = [ev EXCEPT ![e] = {}]
    /\ st' = [st EXCEPT ![e] = IF FinsExchanged(e) THEN "done" ELSE @]

\* Once a FIN was sent or received, every ACK is taken for a FIN-ACK.
HandleFinAck(e) ==
    LET p == Head(inbound[e]) IN
    /\ HandlesPacket(e)
    /\ p.flags = "ACK"
    /\ fin[e] > 0
    /\ Take(e)
    /\ CountFin(e)
    /\ ackSeq' = [ackSeq EXCEPT ![e] = AckedBy(e, p)]
    /\ UNCHANGED <<appVars, appRecvQ, appSendQ, closeReq, nextSeq, adWin, yAck>>

\* The FIN-ACK acknowledges y_ack_seq, which the FIN does not advance, and
\* stcp_fin_received() queues the end of file for the application.
HandleFin(e) ==
    LET p == Head(inbound[e]) IN
    /\ HandlesPacket(e)
    /\ p.flags = "FIN"
    /\ TakeAndSend(e, Header("ACK", nextSeq[e], yAck[e]))
    /\ CountFin(e)
    /\ appSendQ' = [appSendQ EXCEPT ![e] = Append(@, EofBuffer)]
    /\ UNCHANGED <<appVars, appRecvQ, closeReq, seqVars>>

\* The acknowledgement of a payload.
OneByteTooMany(e, p) == Greatest(Plus(p.seq, Size(p) + 1), yAck[e]) \* mutant
AckFor(e, p) == Greatest(Plus(p.seq, Size(p)), yAck[e])

\* Any other packet: payload, or the nothing that a receive thread left when
\* it met end of file, which is acknowledged as if it were a packet.  The
\* offset `early' of bytes received before is always 0: the assignment at
\* line 311 is to another variable of that name.
HandlePayload(e) ==
    LET p == Head(inbound[e])
    IN  /\ HandlesPacket(e)
        /\ p.flags \notin {"ACK", "FIN"}
        /\ appSendQ' = [appSendQ EXCEPT ![e] =
              IF Size(p) > 0 THEN Append(@, [lo |-> p.lo, hi |-> p.hi]) ELSE @]
        /\ TakeAndSend(e, Header("ACK", nextSeq[e], AckFor(e, p)))
        /\ yAck' = [yAck EXCEPT ![e] = AckFor(e, p)]
        /\ ev' = [ev EXCEPT ![e] = @ \ {"NETWORK_DATA"}]
        /\ UNCHANGED <<appVars, appRecvQ, closeReq, st, nextSeq, ackSeq, adWin,
                       fin>>

HandleClose(e) ==
    /\ ev[e] = {"APP_CLOSE_REQUESTED"}
    /\ Send(e, Header("FIN", nextSeq[e], yAck[e]))
    /\ nextSeq' = [nextSeq EXCEPT ![e] = Plus(@, 1)]
    /\ fin' = [fin EXCEPT ![e] = @ + 1]
    /\ ev' = [ev EXCEPT ![e] = {}]
    /\ UNCHANGED <<appVars, appRecvQ, appSendQ, closeReq, st,
                   ackSeq, adWin, yAck>>

\* transport_thread_func() after transport_init() has returned.
ThreadExit(e) ==
    /\ st[e] = "done"
    /\ st' = [st EXCEPT ![e] = "exited"]
    /\ appSendQ' = [appSendQ EXCEPT ![e] = Append(@, EofBuffer)]
    /\ UNCHANGED <<appVars, netVars, appRecvQ, closeReq, ev, seqVars, fin>>

-----------------------------------------------------------------------------
(* network_recv_thread_func()                                                *)

RecvPacket(e) ==
    /\ rx[e]
    /\ ready[e] < Len(inbound[e])
    /\ ready' = [ready EXCEPT ![e] = @ + 1]
    /\ UNCHANGED <<appVars, appRecvQ, appSendQ, closeReq, inbound, rx, up,
                   reset, st, ev, seqVars, fin>>

\* read() returns 0, or an error: the peer closed its socket.
RecvEof(e) ==
    /\ rx[e]
    /\ ~up[Peer(e)]
    /\ ready[e] = Len(inbound[e])
    /\ inbound' = [inbound EXCEPT ![e] = Append(@, NoPacket)]
    /\ ready' = [ready EXCEPT ![e] = @ + 1]
    /\ rx' = [rx EXCEPT ![e] = FALSE]
    /\ UNCHANGED <<appVars, appRecvQ, appSendQ, closeReq, up, reset, st, ev,
                   seqVars, fin>>

\* assert(!(fds[1].revents & POLLERR)): poll() reports the reset, unless a
\* failed write of the transport thread has consumed the error.
AssertPoll(e) == rx[e] /\ reset[e] /\ Abort(e)

-----------------------------------------------------------------------------
(* The application thread: mywrite(), myread() and myclose()                 *)

Connected(e) == st[e] \notin Handshaking

MyWrite(e, n) ==
    /\ app[e] = "open" /\ Connected(e)
    /\ appRecvQ' = [appRecvQ EXCEPT ![e] =
          Append(@, [lo |-> written[e], hi |-> written[e] + n])]
    /\ written' = [written EXCEPT ![e] = @ + n]
    /\ UNCHANGED <<app, rcvd, eof, appSendQ, closeReq, netVars, st, ev,
                   seqVars, fin>>

MyRead(e, len) ==
    /\ app[e] = "open" /\ Connected(e)
    /\ IF eof[e]
       THEN UNCHANGED <<rcvd, eof, appSendQ>>
       ELSE /\ appSendQ[e] # <<>>
            /\ LET b == Portion(Head(appSendQ[e]), len) IN
               IF Size(b) = 0
               THEN eof' = [eof EXCEPT ![e] = TRUE] /\ UNCHANGED rcvd
               ELSE rcvd' = [rcvd EXCEPT ![e] = @ + Size(b)] /\ UNCHANGED eof
            /\ appSendQ' = [appSendQ EXCEPT ![e] = Leftover(@, len)]
    /\ UNCHANGED <<app, written, appRecvQ, closeReq, netVars, st, ev,
                   seqVars, fin>>

MyClose(e) ==
    /\ app[e] = "open" /\ Connected(e)
    /\ app' = [app EXCEPT ![e] = "closing"]
    /\ closeReq' = [closeReq EXCEPT ![e] = TRUE]
    /\ UNCHANGED <<written, rcvd, eof, appRecvQ, appSendQ, netVars, st, ev,
                   seqVars, fin>>

\* pthread_join() has returned: myclose() stops the receive thread, frees the
\* queues and closes the socket.
MyCloseReturns(e) ==
    /\ app[e] = "closing"
    /\ st[e] = "exited"
    /\ app' = [app EXCEPT ![e] = "closed"]
    /\ Disconnect(e)
    /\ appRecvQ' = [appRecvQ EXCEPT ![e] = <<>>]
    /\ appSendQ' = [appSendQ EXCEPT ![e] = <<>>]
    /\ closeReq' = [closeReq EXCEPT ![e] = FALSE]
    /\ UNCHANGED <<written, rcvd, eof, st, ev, seqVars, fin>>

-----------------------------------------------------------------------------
Handshake(e) ==
    SendSyn(e) \/ RecvSyn(e) \/ RecvSynAck(e) \/ RecvHandshakeAck(e)

ControlLoop(e) ==
    \/ WaitForEvent(e)
    \/ HandleAppData(e) \/ AssertDataSent(e)
    \/ HandleAck(e) \/ HandleFinAck(e) \/ HandleFin(e) \/ HandlePayload(e)
    \/ HandleClose(e)
    \/ ThreadExit(e)

RecvThread(e) == RecvPacket(e) \/ RecvEof(e) \/ AssertPoll(e)

\* An application that does whatever the mysocket interface lets it do.
Application(e) ==
    \/ \E n \in 1 .. MaxBytes[e] - written[e] : MyWrite(e, n)
    \/ \E len \in 1 .. MaxRead : MyRead(e, len)
    \/ MyClose(e)
    \/ MyCloseReturns(e)

Next == \E e \in Ends :
            Handshake(e) \/ ControlLoop(e) \/ RecvThread(e) \/ Application(e)

Spec == Init /\ [][Next]_vars

\* Every thread that can run runs, and a packet on its way arrives; nothing
\* is assumed of the applications, which may stop calling at any point.
Fairness ==
    \A e \in Ends : /\ WF_vars(Handshake(e))
                    /\ WF_vars(ControlLoop(e))
                    /\ WF_vars(RecvPacket(e) \/ RecvEof(e))
                    /\ WF_vars(MyCloseReturns(e))

FairSpec == Spec /\ Fairness

-----------------------------------------------------------------------------
TypeOK ==
    /\ app \in [Ends -> {"open", "closing", "closed", "dead"}]
    /\ written \in [Ends -> Nat]
    /\ rcvd \in [Ends -> Nat]
    /\ eof \in [Ends -> BOOLEAN]
    /\ appRecvQ \in [Ends -> Seq(Buffer)]
    /\ appSendQ \in [Ends -> Seq(Buffer)]
    /\ closeReq \in [Ends -> BOOLEAN]
    /\ inbound \in [Ends -> Seq(Packet)]
    /\ ready \in [Ends -> Nat]
    /\ \A e \in Ends : ready[e] <= Len(inbound[e])
    /\ rx \in [Ends -> BOOLEAN]
    /\ up \in [Ends -> BOOLEAN]
    /\ reset \in [Ends -> BOOLEAN]
    /\ st \in [Ends -> States]
    /\ ev \in [Ends -> SUBSET Events]
    /\ nextSeq \in [Ends -> SeqNum]
    /\ ackSeq \in [Ends -> SeqNum]
    /\ adWin \in [Ends -> {0, Window}]
    /\ yAck \in [Ends -> SeqNum]
    /\ fin \in [Ends -> 0 .. 4]

-----------------------------------------------------------------------------
(* What a connection must keep to, whatever the two applications do.         *)

IsData(p) == p.flags = "DATA" /\ Size(p) > 0

\* The peer is never sent more than the window it advertised beyond what it
\* has taken from the network, and the max_len control_loop() asks for is
\* never negative (it would be converted to a huge size_t).
WindowRespected ==
    \A e \in Ends :
        /\ \A i, j \in DOMAIN inbound[e] :
              IsData(inbound[e][i]) /\ IsData(inbound[e][j])
                 => inbound[e][j].hi - inbound[e][i].lo <= Window
        /\ "APP_DATA" \in ev[e] => SendRoom(e) >= 0

\* An end never takes for acknowledged a byte its peer has not passed up to
\* its application: ack_seq, and every acknowledgement on its way, stay at or
\* below the peer's y_ack_seq, which stays at or below next_seq.
AcksAreHonest ==
    \A e \in Ends :
        /\ ackSeq[e] <= yAck[Peer(e)]
        /\ yAck[Peer(e)] <= nextSeq[e]
        /\ \A i \in DOMAIN inbound[e] : inbound[e][i].ack <= yAck[Peer(e)]

\* Behind a FIN come only acknowledgements, and the FIN itself was sent after
\* the last byte the application wrote: the close event waits for app_recv_queue
\* to drain.
FinIsLast ==
    \A e \in Ends : \A i \in DOMAIN inbound[e] :
        inbound[e][i].flags = "FIN" =>
            /\ inbound[e][i].seq = written[Peer(e)] + 1
            /\ \A j \in DOMAIN inbound[e] :
                  j > i /\ inbound[e][j] # NoPacket => inbound[e][j].flags = "ACK"

\* The asserts of transport.c and of the receive thread hold as long as the
\* peer keeps its socket open; in particular next_seq >= ack_seq.
AssertsHold == \A e \in Ends : st[e] = "abort" => ~up[Peer(e)]

\* While neither application calls myclose(), every byte one of them writes is
\* passed up at the other end: no lost wakeup, and the window always reopens.
DataIsDelivered ==
    \A e \in Ends :
        (\A n \in 1 .. MaxBytes[e] :
            (written[e] >= n) ~>
                (yAck[Peer(e)] > n \/ \E f \in Ends : app[f] # "open"))

-----------------------------------------------------------------------------
(* The connection as a byte stream in each direction.                        *)

Positions(q) == UNION {q[i].lo .. q[i].hi - 1 : i \in DOMAIN q}

Stream == INSTANCE ByteStream WITH
              open     <- {e \in Ends : app[e] = "open"},
              readable <- [e \in Ends |-> Positions(appSendQ[e])],
              ended    <- {e \in Ends : eof[e]}

\* Whatever the threads do, myread() returns the bytes of the peer's stream in
\* order, none of them lost or twice, on the way from mywrite() through
\* app_recv_queue, packets cut to the window and app_send_queue; and it returns
\* 0 only behind the last byte the peer ever writes: neither a FIN nor a
\* connection that ends too early looks like the end of the stream to a reader.
IsByteStream == Stream!Spec

-----------------------------------------------------------------------------
(* What the comments of the code say, and the code does not keep to.         *)

\* "transport_init() has returned; both sides have closed the connection"
\* (mysock.c:358).
BothSidesClosed ==
    \A e \in Ends : st[e] = "done" => \A f \in Ends : app[f] # "open"

\* "the mysocket will be fully closed once the app subsequently calls
\* myclose()", after a FIN of the peer (stcp_api.h:110).
CloseAfterFinReturns ==
    \A e \in Ends : (eof[e] /\ app[e] = "closing") ~> (app[e] # "closing")

\* "app may have passed in data of arbitrary length; all of it must be passed
\* down to the transport layer" (stcp_api.c:240): nothing is left in
\* app_recv_queue when myclose() frees it.
AllIsPassedDown ==
    \A e \in Ends : app[e] = "closing" /\ st[e] = "exited" => appRecvQ[e] = <<>>

\* "assert(ctx->next_seq >= ctx->ack_seq )" (transport.c:285), stated where
\* the assert stands: for an ACK that is about to be handled.
NextSeqCoversAckSeq ==
    \A e \in Ends :
        HandlesPacket(e) /\ Head(inbound[e]).flags = "ACK" /\ fin[e] = 0
            => nextSeq[e] >= Greatest(Head(inbound[e]).ack, ackSeq[e])

=============================================================================
