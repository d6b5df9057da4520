----------------------------- MODULE OfConnection -----------------------------
(***************************************************************************)
(* How POX writes to its switches (of_01.py): Connection.send(), called by *)
(* more than one thread, and the thread of DeferredSender, which writes    *)
(* what a socket did not take at once.                                     *)
(*                                                                         *)
(* In Project-4 the thread of POX answers a packet-in with a packet-out,   *)
(* and the thread of Twisted sends the packets of the router: both write   *)
(* to the connection of the same switch.  Only DeferredSender has a lock.  *)
(*                                                                         *)
(* A byte is the thread it comes from and its place among all bytes that   *)
(* this thread has sent on the connection.  How much a socket takes, and   *)
(* when, is any; the switch is left out but for its end of the connection. *)
(***************************************************************************)
EXTENDS Naturals, Sequences, FiniteSets, FiniteSetsExt

CONSTANTS
    Connections,
    Threads,     \* the threads that call Connection.send()
    Pox,         \* the one of them that runs OpenFlow_01_Task
    Size,        \* bytes of a message
    MaxMessages, \* bound: messages of each thread
    Null

ASSUME OfAssumption ==
    /\ IsFiniteSet(Connections) /\ IsFiniteSet(Threads) /\ Pox \in Threads
    /\ Size \in Nat \ {0} /\ MaxMessages \in Nat /\ Null \notin Connections

VARIABLES
    pc,           \* each thread: "idle"; in send(), about to write to the
                  \* socket ("direct") or to call the DeferredSender ("defer")
    con,          \* the connection it is in send() of
    data,         \* and the bytes it still has in its hands
    handed,       \* the bytes each thread has ever handed to send()
    wire,         \* the bytes each socket has taken
    sock,         \* "open", "shut" by shutdown() or "closed"
    disconnected, \* the connections on which disconnect() was called
    deferred,     \* _dataForConnection; no entry is the empty sequence
    sending,
    sender,       \* the DeferredSender: "loop", in "select" or "dead"; in
                  \* "write" it holds the lock
    selected      \* the connections it selects, or those it has still to write

vars == <<pc, con, data, handed, wire, sock, disconnected, deferred,
          sending, sender, selected>>

Byte == [thread : Threads, place : Nat]

TypeOK ==
    /\ pc \in [Threads -> {"idle", "direct", "defer"}]
    /\ con \in [Threads -> Connections \cup {Null}]
    /\ data \in [Threads -> Seq(Byte)]
    /\ handed \in [Connections -> [Threads -> Nat]]
    /\ wire \in [Connections -> Seq(Byte)]
    /\ sock \in [Connections -> {"open", "shut", "closed"}]
    /\ disconnected \subseteq Connections
    /\ deferred \in [Connections -> Seq(Byte)]
    /\ sending \in BOOLEAN
    /\ sender \in {"loop", "select", "write", "dead"}
    /\ selected \subseteq Connections

Init ==
    /\ pc = [t \in Threads |-> "idle"]
    /\ con = [t \in Threads |-> Null]
    /\ data = [t \in Threads |-> <<>>]
    /\ handed = [c \in Connections |-> [t \in Threads |-> 0]]
    /\ wire = [c \in Connections |-> <<>>]
    /\ sock = [c \in Connections |-> "open"]
    /\ disconnected = {}
    /\ deferred = [c \in Connections |-> <<>>]
    /\ sending = FALSE
    /\ sender = "loop" /\ selected = {}

-----------------------------------------------------------------------------
(* A socket *)

Front(s, n) == SubSeq(s, 1, n)
Rest(s, n)  == SubSeq(s, n + 1, Len(s))

\* sock.send() takes the first n bytes; with none it is EAGAIN.
Takes(c, bytes, n) ==
    /\ sock[c] = "open" /\ n \in 0 .. Len(bytes)
    /\ wire' = [wire EXCEPT ![c] = @ \o Front(bytes, n)]

\* sock.send() raises another error, as it must when the socket is not open and
\* may when the switch has reset the connection: disconnect() is called.  What
\* the DeferredSender has of the connection stays with it.
Disconnect(c) ==
    /\ disconnected' = disconnected \cup {c}
    /\ sock' = [sock EXCEPT ![c] = IF @ = "open" THEN "shut" ELSE @]

-----------------------------------------------------------------------------
(* Connection.send() *)

NewBytes(t, c) ==
    [i \in 1 .. Size |-> [thread |-> t, place |-> handed[c][t] + i]]

\* The flag is read, without the lock.
Send(t, c) ==
    /\ pc[t] = "idle" /\ c \notin disconnected
    /\ MapThenSumSet(LAMBDA d : handed[d][t], Connections) < MaxMessages * Size
    /\ handed' = [handed EXCEPT ![c][t] = @ + Size]
    /\ data' = [data EXCEPT ![t] = NewBytes(t, c)]
    /\ con' = [con EXCEPT ![t] = c]
    /\ pc' = [pc EXCEPT ![t] = IF sending THEN "defer" ELSE "direct"]
    /\ UNCHANGED <<wire, sock, disconnected, deferred, sending, sender, selected>>

Leave(t) ==
    /\ pc' = [pc EXCEPT ![t] = "idle"]
    /\ con' = [con EXCEPT ![t] = Null]
    /\ data' = [data EXCEPT ![t] = <<>>]

DeferWhole(t) ==                                                    \* mutant
    /\ pc[t] = "direct"
    /\ \E n \in 0 .. Len(data[t]) :
          /\ Takes(con[t], data[t], n)
          /\ IF n = Len(data[t])
             THEN Leave(t)
             ELSE /\ pc' = [pc EXCEPT ![t] = "defer"]
                  /\ UNCHANGED <<con, data>>
    /\ UNCHANGED <<sock, disconnected, handed, deferred, sending, sender, selected>>
\* Only what the socket did not take is deferred.
Direct(t) ==
    /\ pc[t] = "direct"
    /\ \/ \E n \in 0 .. Len(data[t]) :
             /\ Takes(con[t], data[t], n)
             /\ IF n = Len(data[t])
                THEN Leave(t)
                ELSE /\ data' = [data EXCEPT ![t] = Rest(@, n)]
                     /\ pc' = [pc EXCEPT ![t] = "defer"]
                     /\ UNCHANGED con
             /\ UNCHANGED <<sock, disconnected>>
       \/ /\ Disconnect(con[t])
          /\ Leave(t)
          /\ UNCHANGED wire
    /\ UNCHANGED <<handed, deferred, sending, sender, selected>>

\* DeferredSender.send(), under the lock.
Defer(t) ==
    /\ pc[t] = "defer" /\ sender # "write"
    /\ sending' = TRUE
    /\ deferred' = [deferred EXCEPT ![con[t]] = @ \o data[t]]
    /\ Leave(t)
    /\ UNCHANGED <<handed, wire, sock, disconnected, sender, selected>>

-----------------------------------------------------------------------------
(* DeferredSender.run() *)

HasEntry == {c \in Connections : deferred[c] # <<>>}

\* fileno() of a closed socket raises, which ends the thread.
SelectNone ==                                                       \* mutant
    /\ sender = "loop"
    /\ selected' = {} /\ sender' = "select"
    /\ UNCHANGED <<pc, con, data, handed, wire, sock, disconnected, deferred, sending>>
Select ==
    /\ sender = "loop"
    /\ selected' = HasEntry
    /\ sender' = IF \E c \in HasEntry : sock[c] = "closed" THEN "dead" ELSE "select"
    /\ UNCHANGED <<pc, con, data, handed, wire, sock, disconnected,
                   deferred, sending>>

\* Back from select(): some can be written, or one second has passed.
Selected ==
    /\ sender = "select"
    /\ \E wlist \in SUBSET selected :
          /\ selected' = wlist
          /\ sender' = IF wlist = {} THEN "loop" ELSE "write"
    /\ UNCHANGED <<pc, con, data, handed, wire, sock, disconnected,
                   deferred, sending>>

\* The loop over wlist ends early when no connection has an entry.
GoOn(left) ==
    /\ selected' = left
    /\ sender' = IF left = {} THEN "loop" ELSE "write"

ClearsFlag(c) ==                                                    \* mutant
    /\ sender = "write" /\ c \in selected
    /\ \E n \in 0 .. Len(deferred[c]) :
          /\ Takes(c, deferred[c], n)
          /\ deferred' = [deferred EXCEPT ![c] = Rest(@, n)]
          /\ sending' = (sending /\ n # Len(deferred[c]))
    /\ GoOn(selected \ {c})
    /\ UNCHANGED <<pc, con, data, handed, sock, disconnected>>
Flush(c) ==
    /\ sender = "write" /\ c \in selected
    /\ \/ \E n \in 0 .. Len(deferred[c]) :
             /\ Takes(c, deferred[c], n)
             /\ deferred' = [deferred EXCEPT ![c] = Rest(@, n)]
             /\ IF n = Len(deferred[c]) /\ HasEntry = {c}
                THEN sending' = FALSE /\ GoOn({})
                ELSE UNCHANGED sending /\ GoOn(selected \ {c})
             /\ UNCHANGED <<sock, disconnected>>
       \/ /\ Disconnect(c)
          /\ deferred' = [deferred EXCEPT ![c] = <<>>]
          /\ GoOn(selected \ {c})
          /\ UNCHANGED <<wire, sending>>
    /\ UNCHANGED <<pc, con, data, handed>>

-----------------------------------------------------------------------------
(* The rest *)

\* OpenFlow_01_Task: read() has returned False, for the end of the stream or for
\* a bad message, or has raised.  Nothing but the socket is closed.
Close(c) ==
    /\ pc[Pox] = "idle" /\ sock[c] # "closed"
    /\ sock' = [sock EXCEPT ![c] = "closed"]
    /\ UNCHANGED <<pc, con, data, handed, wire, disconnected, deferred,
                   sending, sender, selected>>

Next ==
    \/ Select \/ Selected
    \/ \E t \in Threads : Direct(t) \/ Defer(t)
    \/ \E c \in Connections :
          \/ Flush(c) \/ Close(c)
          \/ \E t \in Threads : Send(t, c)

(* The threads run, and a switch that does not close its connection reads it, *)
(* so that select() finds room again and again.                               *)
Fairness ==
    /\ WF_vars(Select) /\ WF_vars(Selected)
    /\ \A t \in Threads : WF_vars(Direct(t)) /\ WF_vars(Defer(t))
    /\ \A c \in Connections :
          /\ SF_vars(Selected /\ c \in selected')
          /\ WF_vars(Flush(c))
          /\ SF_vars(Flush(c) /\ Len(deferred'[c]) < Len(deferred[c]))

Spec == Init /\ [][Next]_vars /\ Fairness

-----------------------------------------------------------------------------
(* Properties *)

\* The bytes of c that are not lost: taken, deferred, in the hands of t.
Held(t, c) ==
    wire[c] \o deferred[c] \o (IF con[t] = c THEN data[t] ELSE <<>>)

\* The bytes of t in s are its first n, each once and in order.
FirstInOrder(s, t, n) ==
    LET own == {i \in DOMAIN s : s[i].thread = t}
    IN  /\ {s[i].place : i \in own} = 1 .. n
        /\ \A i, j \in own : i < j => s[i].place < s[j].place

(* Whatever the threads and the DeferredSender do to each other, the bytes of *)
(* one thread reach the socket in the order it sent them, none of them twice, *)
(* and none is lost unless the connection is.                                 *)
ThreadOrder ==
    \A c \in Connections, t \in Threads :
        c \notin disconnected => FirstInOrder(Held(t, c), t, handed[c][t])

(* Nobody writes around data that waits: as long as the DeferredSender has    *)
(* any, for whichever connection, the flag says so.                           *)
SendingHonest == HasEntry # {} => sending

(* What was deferred is written, unless the connection is closed or the       *)
(* thread that writes it has died of another one that was.                    *)
DeferredWritten ==
    \A c \in Connections :
        deferred[c] # <<>> ~> \/ deferred[c] = <<>>
                              \/ sock[c] # "open"
                              \/ sender = "dead"

(* Connection.send() sends its data to the switch: the switch gets messages,  *)
(* one after the other.  (It does not: see the README.)                       *)
WholeMessages ==
    \A c \in Connections : \A i \in 1 .. Len(wire[c]) - 1 :
        LET b == wire[c][i]
        IN  b.place % Size # 0 => wire[c][i + 1] = [b EXCEPT !.place = @ + 1]

=============================================================================
