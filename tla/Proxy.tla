-------------------------------- MODULE Proxy --------------------------------
(***************************************************************************)
(* The HTTP proxy of Project-2 (proxy.c): a parent that forks a child for  *)
(* each client it accepts, counts them, and at maxForkedChilds says wait() *)
(* before the next.                                                        *)
(*                                                                         *)
(* That is no call of wait(2).  proxy.c is compiled as C++ without         *)
(* <sys/wait.h>: where it compiles, <stdlib.h> declares `union wait', and  *)
(* wait() makes a temporary of that type.  Nothing is waited for, and the  *)
(* children that end stay zombies.                                         *)
(*                                                                         *)
(* A child reads one request, connects to the host it names, sends it and  *)
(* copies what the host sends until the host closes the connection.  What  *)
(* the host does is left open here; Web.tla makes it the web server of     *)
(* Project-1.                                                              *)
(***************************************************************************)
EXTENDS Naturals, Sequences, FiniteSets, SequencesExt

CONSTANTS
    Users,           \* the clients of the proxy, each of which connects once
    maxForkedChilds,
    Nobody

ASSUME ProxyAssumption ==
    /\ IsFiniteSet(Users) /\ Nobody \notin Users
    /\ maxForkedChilds \in Nat \ {0}

VARIABLES
    listening,      \* the connections of users that were not accepted
    accepted,       \* newSockid: the user the parent is busy with, or Nobody
    numForkedChild,
    stage,          \* where each child is; "none": there is no child,
                    \* "exited": it has ended
    sent,           \* what has arrived of each user's request: "nothing",
                    \* "part" of it, or "all"
    gone            \* the users that have closed their connection

proxyVars == <<listening, accepted, numForkedChild, stage, sent, gone>>

Running == {"reading", "partly", "parsed", "connected", "relaying"}

ProxyTypeOK ==
    /\ listening \in Seq(Users)
    /\ accepted \in Users \cup {Nobody}
    /\ numForkedChild \in 0 .. maxForkedChilds
    /\ stage \in [Users -> Running \cup {"none", "exited"}]
    /\ sent \in [Users -> {"nothing", "part", "all"}]
    /\ gone \subseteq Users

ProxyInit ==
    /\ listening = <<>> /\ accepted = Nobody
    /\ numForkedChild = 0
    /\ stage = [u \in Users |-> "none"]
    /\ sent = [u \in Users |-> "nothing"]
    /\ gone = {}

-----------------------------------------------------------------------------
(* The users *)

HasConnected(u) ==
    u = accepted \/ stage[u] # "none" \/ u \in ToSet(listening)

\* A user whose fork() failed is not there any more: it has been closed.
Connect(u) ==
    /\ ~HasConnected(u) /\ u \notin gone
    /\ listening' = Append(listening, u)
    /\ UNCHANGED <<accepted, numForkedChild, stage, sent, gone>>

Send(u) ==
    /\ HasConnected(u) /\ u \notin gone /\ sent[u] # "all"
    /\ \E s \in {"part", "all"} : sent' = [sent EXCEPT ![u] = s]
    /\ UNCHANGED <<listening, accepted, numForkedChild, stage, gone>>

GoAway(u) ==
    /\ HasConnected(u) /\ u \notin gone
    /\ gone' = gone \cup {u}
    /\ UNCHANGED <<listening, accepted, numForkedChild, stage, sent>>

-----------------------------------------------------------------------------
(* The parent *)

\* A failed accept() is not told from a client: its child reads for ever, as
\* that of a client which is gone.
AcceptUser ==
    /\ accepted = Nobody /\ listening # <<>>
    /\ accepted' = Head(listening)
    /\ listening' = Tail(listening)
    /\ UNCHANGED <<numForkedChild, stage, sent, gone>>

\* for (; numForkedChild >= maxForkedChilds; --numForkedChild) wait();
WaitsForExit ==                                                     \* mutant
    /\ accepted # Nobody /\ numForkedChild >= maxForkedChilds
    /\ \E u \in Users : stage[u] = "exited"
    /\ numForkedChild' = numForkedChild - 1
    /\ UNCHANGED <<listening, accepted, stage, sent, gone>>
WaitChild ==
    /\ accepted # Nobody /\ numForkedChild >= maxForkedChilds
    /\ numForkedChild' = numForkedChild - 1
    /\ UNCHANGED <<listening, accepted, stage, sent, gone>>

\* fork(), updateNumForkedChild(1), close(newSockid).
Fork ==
    /\ accepted # Nobody /\ numForkedChild < maxForkedChilds
    /\ stage' = [stage EXCEPT ![accepted] = "reading"]
    /\ numForkedChild' = numForkedChild + 1
    /\ accepted' = Nobody
    /\ UNCHANGED <<listening, sent, gone>>

\* fork() returns -1, which the parent takes for the number of a child.
ForkFails ==
    /\ accepted # Nobody /\ numForkedChild < maxForkedChilds
    /\ numForkedChild' = numForkedChild + 1
    /\ gone' = gone \cup {accepted}
    /\ accepted' = Nobody
    /\ UNCHANGED <<listening, stage, sent>>

-----------------------------------------------------------------------------
(* A child *)

Step(u, from, to) ==
    /\ stage[u] = from
    /\ stage' = [stage EXCEPT ![u] = to]
    /\ UNCHANGED <<listening, accepted, numForkedChild, sent, gone>>

\* recv() and strcat() until the buffer has the end of the request: there is
\* no other way out of the loop, a closed connection included.
ReadPart(u) == sent[u] = "part" /\ Step(u, "reading", "partly")

EndIsRead(u) == stage[u] \in {"reading", "partly"} /\ sent[u] = "all"

ReadRequest(u) == EndIsRead(u) /\ Step(u, stage[u], "parsed")

\* The request cannot be parsed or is not a GET: sendError().
Reject(u) == EndIsRead(u) /\ Step(u, stage[u], "exited")

ConnectHost(u) == Step(u, "parsed", "connected")

\* connect() fails: sendError().
ConnectFails(u) == Step(u, "parsed", "exited")

SendToHost(u) == Step(u, "connected", "relaying")

\* The headers cannot be set or printed: sendError().
NoProxyRequest(u) == Step(u, "connected", "exited")

\* A piece of the response is sent on.  SIGPIPE is not ignored: when the user
\* has left the child may be killed.
Relay(u) ==
    \/ Step(u, "relaying", "relaying")
    \/ u \in gone /\ Step(u, "relaying", "exited")

\* The host has closed the connection.
Finish(u) == Step(u, "relaying", "exited")

ProxyParentNext == AcceptUser \/ WaitChild \/ Fork \/ ForkFails

-----------------------------------------------------------------------------
(* Properties *)

(* Every user that connects is given its child, or is closed by a fork() that *)
(* failed, though the count be at its limit and each of the other children be *)
(* stuck for ever: the parent never waits for one.                            *)
InLine(u) == u = accepted \/ u \in ToSet(listening)

EveryUserServed == \A u \in Users : InLine(u) ~> ~InLine(u)

(* "Keep waiting until" (proxy.c:144): with maxForkedChilds children the      *)
(* parent waits for one to end before it forks again.  The code does not keep *)
(* this: the count drops by one and the next child is one too many.           *)
LimitKept == Cardinality({u \in Users : stage[u] \in Running}) <= maxForkedChilds

=============================================================================
