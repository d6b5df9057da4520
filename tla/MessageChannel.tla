--------------------------- MODULE MessageChannel ---------------------------
(***************************************************************************)
(* What one direction of a session promises to the code above it: messages *)
(* arrive whole, in the order they were sent, each of them once, and all   *)
(* of them unless the session ends.  A message is its number.              *)
(***************************************************************************)
EXTENDS Naturals, Sequences

VARIABLES
    sent,     \* how many messages were sent
    received, \* the messages that were handed over
    closed    \* nothing will be handed over any more

vars == <<sent, received, closed>>

Init == sent = 0 /\ received = <<>> /\ closed = FALSE

Send == sent' = sent + 1 /\ UNCHANGED <<received, closed>>

Deliver ==
    /\ ~closed /\ Len(received) < sent
    /\ received' = Append(received, Len(received) + 1)
    /\ UNCHANGED <<sent, closed>>

\* The session may end over a message that has just been handed over.
Close ==
    /\ closed' = TRUE
    /\ \/ UNCHANGED received
       \/ Len(received) < sent /\ received' = Append(received, Len(received) + 1)
    /\ UNCHANGED sent

Next == Send \/ Deliver \/ Close

Safe == Init /\ [][Next]_vars
Spec == Safe /\ WF_vars(Deliver)

=============================================================================
