------------------------------ MODULE WebServer ------------------------------
(***************************************************************************)
(* The web server of Project-1 (server.cpp): a parent that accepts clients *)
(* into the table clientFd and forks a child for each of them.             *)
(*                                                                         *)
(* A child answers until its client leaves.  It clears the client's slot   *)
(* in its own copy of the table: the parent's table only fills up, and the *)
(* parent keeps the descriptor of every client open as long as it runs.    *)
(*                                                                         *)
(* What a request asks for and how it is answered (200, 400, 404, 501,     *)
(* 505) is left out: an answer leaves the connection as it was.            *)
(***************************************************************************)
EXTENDS Naturals, Sequences, FiniteSets, SequencesExt

CONSTANTS
    Clients,     \* the processes that connect, each of them once
    MaxClients,  \* maxClients, the size of clientFd
    MaxRequests, \* bound: requests of a client whose answers it has not read
    None         \* -1

VARIABLES
    parent,   \* what the parent does: "accept", "seek" a slot, or it "exited"
    slot,     \* its variable of that name
    clientFd, \* its table: the client whose descriptor is in each slot
    backlog,  \* the connections that were made and not accepted
    link,     \* each client's end: "new", "open" or "closed"
    child,    \* the child of each client: "none", "serving" or "exited";
              \* "unforked" when accept() took the client and fork() failed
    requests, \* requests that each child has not read
    answers   \* answers that each client has not read

serverVars == <<parent, slot, clientFd, backlog, link, child, requests, answers>>

Slots == 0 .. MaxClients - 1

ServerTypeOK ==
    /\ parent \in {"accept", "seek", "exited"}
    /\ slot \in Slots
    /\ clientFd \in [Slots -> Clients \cup {None}]
    /\ backlog \in Seq(Clients)
    /\ link \in [Clients -> {"new", "open", "closed"}]
    /\ child \in [Clients -> {"none", "serving", "exited", "unforked"}]
    /\ requests \in [Clients -> 0 .. MaxRequests]
    /\ answers \in [Clients -> 0 .. MaxRequests]

ServerInit ==
    /\ parent = "accept" /\ slot = 0
    /\ clientFd = [s \in Slots |-> None]
    /\ backlog = <<>>
    /\ link = [c \in Clients |-> "new"]
    /\ child = [c \in Clients |-> "none"]
    /\ requests = [c \in Clients |-> 0]
    /\ answers = [c \in Clients |-> 0]

-----------------------------------------------------------------------------
(* The clients *)

\* connect(): refused once nobody listens.
ConnectServer(c) ==
    /\ link[c] = "new" /\ parent # "exited"
    /\ link' = [link EXCEPT ![c] = "open"]
    /\ backlog' = Append(backlog, c)
    /\ UNCHANGED <<parent, slot, clientFd, child, requests, answers>>

\* A request arrives at the server's end of the connection.
SendRequest(c) ==
    /\ link[c] = "open" /\ requests[c] + answers[c] < MaxRequests
    /\ requests' = [requests EXCEPT ![c] = @ + 1]
    /\ UNCHANGED <<parent, slot, clientFd, backlog, link, child, answers>>

ReadAnswer(c) ==
    /\ link[c] = "open" /\ answers[c] > 0
    /\ answers' = [answers EXCEPT ![c] = @ - 1]
    /\ UNCHANGED <<parent, slot, clientFd, backlog, link, child, requests>>

Leave(c) ==
    /\ link[c] = "open"
    /\ link' = [link EXCEPT ![c] = "closed"]
    /\ UNCHANGED <<parent, slot, clientFd, backlog, child, requests, answers>>

\* A child has the descriptors of its client and of those accepted before it.
Holds(d, c) ==
    /\ child[d] = "serving"
    /\ \E s, t \in Slots : s <= t /\ clientFd[s] = c /\ clientFd[t] = d

\* The client's recv() returns 0: no process holds the other end.  The parent
\* never closes the descriptor of a client.
ServerHasClosed(c) ==
    /\ link[c] = "open" /\ answers[c] = 0
    /\ parent = "exited" /\ \A d \in Clients : ~Holds(d, c)

-----------------------------------------------------------------------------
(* The parent *)

\* accept() and fork(), whose failure the parent takes for its own return.
Accept ==
    /\ parent = "accept" /\ backlog # <<>>
    /\ clientFd' = [clientFd EXCEPT ![slot] = Head(backlog)]
    /\ \E forked \in {"serving", "unforked"} :
          child' = [child EXCEPT ![Head(backlog)] = forked]
    /\ backlog' = Tail(backlog)
    /\ parent' = "seek"
    /\ UNCHANGED <<slot, link, requests, answers>>

\* accept() returns an error, such as that of a connection that was aborted.
AcceptFails ==
    /\ parent = "accept" /\ backlog # <<>>
    /\ parent' = "exited"
    /\ clientFd' = [clientFd EXCEPT ![slot] = None]
    /\ UNCHANGED <<slot, backlog, link, child, requests, answers>>

\* while(clientFd[slot]!=-1) slot = (slot+1)%maxClients; one turn of the loop.
AcceptAgain ==                                                      \* mutant
    /\ parent = "seek"
    /\ parent' = "accept" /\ slot' = (slot + 1) % MaxClients
    /\ UNCHANGED <<clientFd, backlog, link, child, requests, answers>>
StayAtSlot ==                                                       \* mutant
    /\ parent = "seek" /\ clientFd[slot] = None
    /\ parent' = "accept"
    /\ UNCHANGED <<slot, clientFd, backlog, link, child, requests, answers>>
SeekSlot ==
    /\ parent = "seek"
    /\ IF clientFd[slot] # None
       THEN slot' = (slot + 1) % MaxClients /\ UNCHANGED parent
       ELSE parent' = "accept" /\ UNCHANGED slot
    /\ UNCHANGED <<clientFd, backlog, link, child, requests, answers>>

-----------------------------------------------------------------------------
(* A child *)

\* One recv() takes all that has arrived, and only its first request is parsed.
Answer(c) ==
    /\ child[c] = "serving" /\ requests[c] > 0
    /\ requests' = [requests EXCEPT ![c] = 0]
    /\ answers' = [answers EXCEPT ![c] = IF link[c] = "open" THEN @ + 1 ELSE @]
    /\ UNCHANGED <<parent, slot, clientFd, backlog, link, child>>

\* recv() returns 0: the empty buffer is answered as well, to nobody.
ClientExited(c) ==
    /\ child[c] = "serving" /\ requests[c] = 0 /\ link[c] = "closed"
    /\ child' = [child EXCEPT ![c] = "exited"]
    /\ UNCHANGED <<parent, slot, clientFd, backlog, link, requests, answers>>

ServerNext ==
    \/ Accept \/ AcceptFails \/ SeekSlot
    \/ \E c \in Clients : Answer(c) \/ ClientExited(c)

-----------------------------------------------------------------------------
(* Properties *)

Waiting(c) == c \in ToSet(backlog)
TableFull  == \A s \in Slots : clientFd[s] # None

(* No slot is used twice: as long as the parent runs, each client that it     *)
(* ever accepted has one slot of the table, and nobody else has it.           *)
SlotsNeverReused ==
    parent # "exited" =>
        \A c \in Clients :
            child[c] # "none" <=> Cardinality({s \in Slots : clientFd[s] = c}) = 1

(* A client that has connected is accepted, unless the table is full, which   *)
(* it stays for ever, or the parent has exited.                               *)
AcceptedUnlessFull ==
    \A c \in Clients :
        Waiting(c) ~> (~Waiting(c) \/ TableFull \/ parent = "exited")

=============================================================================
