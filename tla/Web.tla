--------------------------------- MODULE Web ---------------------------------
(***************************************************************************)
(* The proxy of Project-2 in front of the web server of Project-1.         *)
(*                                                                         *)
(* The proxy asks in HTTP/1.0 with "Connection: close" and waits for the   *)
(* end of the connection; the server answers any version, with 505 if need *)
(* be, and waits for the next request.  Each of the two processes then     *)
(* waits for the other.                                                    *)
(***************************************************************************)
EXTENDS Proxy

CONSTANTS
    Browsers,    \* clients that connect to the web server directly
    MaxClients,
    MaxRequests

ASSUME WebAssumption ==
    /\ Browsers \cap Users = {} /\ IsFiniteSet(Browsers) /\ Nobody \notin Browsers
    /\ MaxClients \in Nat \ {0} /\ MaxRequests \in Nat \ {0}

VARIABLES parent, slot, clientFd, backlog, link, child, requests, answers

Server == INSTANCE WebServer WITH Clients <- Users \cup Browsers, None <- Nobody

serverVars == <<parent, slot, clientFd, backlog, link, child, requests, answers>>
vars == <<proxyVars, serverVars>>

TypeOK == ProxyTypeOK /\ Server!ServerTypeOK

Init == ProxyInit /\ Server!ServerInit

-----------------------------------------------------------------------------
(* A user's child and its host: the web server, or another that closes the    *)
(* connection after its response.  Whatever ends the child closes its socket. *)

OtherHost(u) == link[u] = "new"

UserStep(u) == (Connect(u) \/ Send(u) \/ GoAway(u)) /\ UNCHANGED serverVars

AskWebServer(u) ==
    \/ ConnectHost(u) /\ Server!ConnectServer(u)
    \/ SendToHost(u) /\ Server!SendRequest(u)
    \/ NoProxyRequest(u) /\ Server!Leave(u)
    \/ /\ Relay(u)
       /\ IF stage'[u] = "exited"
          THEN answers[u] > 0 /\ Server!Leave(u)
          ELSE Server!ReadAnswer(u)
    \/ Finish(u) /\ Server!ServerHasClosed(u) /\ Server!Leave(u)

AskOther(u) ==
    /\ OtherHost(u)
    /\ \/ ConnectHost(u) \/ SendToHost(u) \/ NoProxyRequest(u)
       \/ Relay(u) \/ Finish(u)
    /\ UNCHANGED serverVars

ChildStep(u) ==
    \/ (ReadPart(u) \/ ReadRequest(u) \/ Reject(u)) /\ UNCHANGED serverVars
    \/ ConnectFails(u) /\ UNCHANGED serverVars
    \/ AskWebServer(u) \/ AskOther(u)

BrowserStep(b) ==
    /\ \/ Server!ConnectServer(b) \/ Server!SendRequest(b)
       \/ Server!ReadAnswer(b) \/ Server!Leave(b)
    /\ UNCHANGED proxyVars

ParentStep == ProxyParentNext /\ UNCHANGED serverVars

ServerStep == Server!ServerNext /\ UNCHANGED proxyVars

Next ==
    \/ ParentStep \/ ServerStep
    \/ \E u \in Users : UserStep(u) \/ ChildStep(u)
    \/ \E b \in Browsers : BrowserStep(b)

(* Processes that can run do; the other hosts end their responses; fork()     *)
(* fails now and then and accept() is not bound to fail.  Users and browsers  *)
(* owe nothing.                                                               *)
Fairness ==
    /\ WF_vars((AcceptUser \/ WaitChild \/ Fork) /\ UNCHANGED serverVars)
    /\ WF_vars((Server!Accept \/ Server!SeekSlot) /\ UNCHANGED proxyVars)
    /\ \A c \in Users \cup Browsers :
          WF_vars((Server!Answer(c) \/ Server!ClientExited(c)) /\ UNCHANGED proxyVars)
    /\ \A u \in Users : WF_vars(ChildStep(u))
    /\ \A u \in Users : WF_vars(OtherHost(u) /\ Finish(u) /\ UNCHANGED serverVars)

Spec == Init /\ [][Next]_vars /\ Fairness

-----------------------------------------------------------------------------
(* Properties *)

(* The host that never closes: the server's parent keeps the descriptors of   *)
(* all clients, and so does a child of it, its own or one of a later client,  *)
(* as long as the client of that child stays.                                 *)
KeptOpen(u) ==
    parent # "exited" \/ \E d \in Users \cup Browsers : Server!Holds(d, u) /\ link[d] = "open"

(* A child that nothing ends: its user has not sent a whole request, be it    *)
(* because it has left (the child then spins), or its host is the web server, *)
(* which waits for it in turn.                                                *)
Stuck(u) ==
    \/ stage[u] \in {"reading", "partly"} /\ sent[u] # "all"
    \/ stage[u] = "relaying" /\ ~OtherHost(u) /\ KeptOpen(u)


SlotsNeverReused   == Server!SlotsNeverReused
AcceptedUnlessFull == Server!AcceptedUnlessFull

=============================================================================
