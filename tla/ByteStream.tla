----------------------------- MODULE ByteStream -----------------------------
(***************************************************************************)
(* What a connection promises to the applications at its ends: each of     *)
(* them reads what the other has written, byte by byte and in that order,  *)
(* and is told of the end only behind the last byte.  A byte is its        *)
(* position in the stream.                                                 *)
(***************************************************************************)
EXTENDS Integers, FiniteSets

CONSTANTS Ends, Peer(_)

VARIABLES
    open,     \* the ends whose application uses the connection
    written,  \* bytes that the application of each end has written
    readable, \* the bytes that have come up to each end and were not read
    rcvd,     \* bytes that the application of each end has read
    ended     \* the ends whose application was told of the end of the stream

vars == <<open, written, readable, rcvd, ended>>

Init ==
    /\ open = Ends
    /\ written = [e \in Ends |-> 0]
    /\ readable = [e \in Ends |-> {}]
    /\ rcvd = [e \in Ends |-> 0]
    /\ ended = {}

CameUp(e) == rcvd[e] + Cardinality(readable[e])

Write(e) ==
    /\ e \in open /\ Peer(e) \notin ended
    /\ written'[e] \in Nat /\ written'[e] > written[e]
    /\ written' = [written EXCEPT ![e] = written'[e]]
    /\ UNCHANGED <<open, readable, rcvd, ended>>

\* Up to an end come the next bytes of its peer.
Deliver(e) ==
    /\ \E n \in CameUp(e) + 1 .. written[Peer(e)] :
          readable' = [readable EXCEPT ![e] = @ \cup CameUp(e) .. n - 1]
    /\ UNCHANGED <<open, written, rcvd, ended>>

Read(e) ==
    /\ e \in open
    /\ \E n \in 1 .. Cardinality(readable[e]) :
          /\ rcvd' = [rcvd EXCEPT ![e] = @ + n]
          /\ readable' = [readable EXCEPT ![e] = @ \ (rcvd[e] .. rcvd[e] + n - 1)]
    /\ UNCHANGED <<open, written, ended>>

ReadEnd(e) ==
    /\ e \in open
    /\ rcvd[e] = written[Peer(e)]
    /\ ended' = ended \cup {e}
    /\ UNCHANGED <<open, written, readable, rcvd>>

\* An end closes the connection, or its process dies.  What has come up and was
\* not read is lost then, or when the closing is done.
Close(e) ==
    /\ open' = open \ {e}
    /\ readable' \in {readable, [readable EXCEPT ![e] = {}]}
    /\ UNCHANGED <<written, rcvd, ended>>

Next == \E e \in Ends :
            Write(e) \/ Deliver(e) \/ Read(e) \/ ReadEnd(e) \/ Close(e)

Spec == Init /\ [][Next]_vars

=============================================================================
