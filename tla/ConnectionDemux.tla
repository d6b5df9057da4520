-------------------------- MODULE ConnectionDemux --------------------------
(***************************************************************************)
(* A listening mysocket of Project-3: the receive thread that accepts TCP  *)
(* connections and queues their SYNs, the transport threads that carry out *)
(* the handshakes, and the application that accepts and closes.            *)
(*                                                                         *)
(* connection_demux.c guards the listen table by a read-write lock, which  *)
(* all of them take for reading but a thread that closes the listener, and *)
(* the queue of completed connections by connection_lock.  The table of    *)
(* requests and its counter cur_len are written by the receive thread and  *)
(* by the application without a common lock: these accesses are steps of   *)
(* their own.                                                              *)
(***************************************************************************)
EXTENDS Integers, Sequences, FiniteSets, SequencesExt

CONSTANTS
    Clients,        \* attempts to connect, each from an address of its own
    Sds,            \* descriptors left, of MAX_NUM_CONNECTIONS
    MaxLen,         \* requests that may be pending: backlog + 1
    CountMod,       \* 2^32: cur_len is unsigned
    ClosesListener, \* whether the application ever closes the listener
    Null

\* The sd of a slot nobody uses is Null (-1); between the memset() and the
\* assignment of INVALIDATE_CONNECT_REQUEST it is 0, and so is peer_addr_len.
Cleared == "cleared"

ASSUME DemuxAssumption ==
    /\ IsFiniteSet(Clients) /\ IsFiniteSet(Sds)
    /\ MaxLen \in Nat \ {0}
    /\ CountMod \in Nat /\ CountMod > MaxLen + 1
    /\ ClosesListener \in BOOLEAN
    /\ Null \notin Clients \cup Sds
    /\ Cleared \notin Sds \cup {Null}

VARIABLES
    client,     \* what each client has done
    tcpQueue,   \* TCP connections the kernel holds for accept()
    newSocket,  \* new_socket: the accepted connection, until it is passed on
    listener,   \* where the receive thread of the listener is
    entry,      \* queue_entry, and cur_len as that thread has read it
    seen,
    queue,      \* connection_queue: [sd, peer] for each slot
    completed,  \* completed_queue: slots
    curLen,     \* cur_len
    conn,       \* state of the mysocket with each descriptor, and its client
    peer,
    app,        \* where the application is
    slot,       \* the request it dequeues, or how far it has closed them
    taken,      \* the descriptor it is about to return, cur_len as it read it
    counted,
    fault,      \* the assertion that has failed, if any
    order,      \* clients in the order their connections were established
    got         \* clients in the order of the calls of myaccept()

listenVars  == <<newSocket, listener, entry, seen>>
connVars    == <<conn, peer>>
appVars     == <<app, slot, taken, counted>>
historyVars == <<order, got>>
vars == <<client, tcpQueue, newSocket, listener, entry, seen, queue, completed,
          curLen, conn, peer, app, slot, taken, counted, fault, order, got>>

-----------------------------------------------------------------------------
Slots == 1 .. MaxLen

ClearedIsFree(s) == queue[s].sd \notin Sds                          \* mutant
Free(s) == queue[s].sd = Null
Request(sd, c) == [sd |-> sd, peer |-> c]

NotUnsigned(n) == n - 1                                             \* mutant
OneLess(n) == (n - 1) % CountMod

Init ==
    /\ client = [c \in Clients |-> "new"]
    /\ tcpQueue = <<>>
    /\ newSocket = Null
    /\ listener = "poll"
    /\ entry = 0
    /\ seen = 0
    /\ queue = [s \in Slots |-> Request(Null, Null)]
    /\ completed = <<>>
    /\ curLen = 0
    /\ conn = [sd \in Sds |-> "free"]
    /\ peer = [sd \in Sds |-> Null]
    /\ app = "idle"
    /\ slot = 0
    /\ taken = Null
    /\ counted = 0
    /\ fault = "none"
    /\ order = <<>>
    /\ got = <<>>

\* assert() ends the process.
Abort(what) == /\ fault' = what
               /\ listener' = "dead" /\ app' = "dead"

-----------------------------------------------------------------------------
(* The clients: myconnect() connects over TCP, then sends its SYN.           *)

Connect(c) ==
    /\ fault = "none" /\ client[c] = "new"
    /\ client' = [client EXCEPT ![c] = "connected"]
    /\ tcpQueue' = Append(tcpQueue, c)
    /\ UNCHANGED <<listenVars, queue, completed, curLen, connVars, appVars, fault,
                   historyVars>>

SendSyn(c) ==
    /\ fault = "none" /\ client[c] = "connected"
    /\ client' = [client EXCEPT ![c] = "syn"]
    /\ UNCHANGED <<tcpQueue, listenVars, queue, completed, curLen, connVars, appVars,
                   fault, historyVars>>

\* A client that ends before it has sent its SYN, or before the last ACK of
\* the handshake.
Leave(c) ==
    /\ fault = "none" /\ client[c] \in {"connected", "syn"}
    /\ client' = [client EXCEPT ![c] = IF @ = "syn" THEN "left" ELSE "silent"]
    /\ UNCHANGED <<tcpQueue, listenVars, queue, completed, curLen, connVars, appVars,
                   fault, historyVars>>

-----------------------------------------------------------------------------
(* The receive thread of the listener: network_recv_thread_func(), with      *)
(* _network_recv_packet() and _mysock_enqueue_connection().                  *)

ExitRequested == app \in {"join", "closing", "closed"}

ExitLooksAtQueue ==                                                 \* mutant
    /\ listener = "poll" /\ ExitRequested /\ tcpQueue = <<>>
    /\ listener' = "ended"
    /\ UNCHANGED <<client, tcpQueue, newSocket, entry, seen, queue, completed, curLen,
                   connVars, appVars, fault, historyVars>>
PollExit ==
    /\ listener = "poll" /\ ExitRequested
    /\ listener' = "ended"
    /\ UNCHANGED <<client, tcpQueue, newSocket, entry, seen, queue, completed, curLen,
                   connVars, appVars, fault, historyVars>>

Accept ==
    /\ listener = "poll" /\ ~ExitRequested
    /\ tcpQueue # <<>>
    /\ tcpQueue' = Tail(tcpQueue)
    /\ IF newSocket # Null
       THEN Abort("new_socket") /\ UNCHANGED newSocket
       ELSE /\ newSocket' = Head(tcpQueue)
            /\ listener' = "read"
            /\ UNCHANGED <<app, fault>>
    /\ UNCHANGED <<client, entry, seen, queue, completed, curLen, connVars, slot,
                   taken, counted, historyVars>>

\* The thread blocks until the client sends its SYN or ends; then the thread
\* ends as well.
ReadSyn ==
    /\ listener = "read"
    /\ client[newSocket] # "connected"
    /\ listener' = IF client[newSocket] = "silent" THEN "ended" ELSE "scan"
    /\ UNCHANGED <<client, tcpQueue, newSocket, entry, seen, queue, completed, curLen,
                   connVars, appVars, fault, historyVars>>

\* Every request in the table has the address of its peer, and none is for
\* this one already.
ScanRequests ==
    /\ listener = "scan"
    /\ IF \E s \in Slots : queue[s].sd = Cleared
       THEN Abort("peer_addr_len")
       ELSE /\ listener' = IF \E s \in Slots : queue[s].peer = newSocket
                           THEN "poll" ELSE "room"
            /\ UNCHANGED <<app, fault>>
    /\ UNCHANGED <<client, tcpQueue, newSocket, entry, seen, queue, completed, curLen,
                   connVars, slot, taken, counted, historyVars>>

\* With the queue full the SYN is dropped; new_socket stays as it is.
CheckRoom ==
    /\ listener = "room"
    /\ listener' = IF curLen < MaxLen THEN "find" ELSE "poll"
    /\ UNCHANGED <<client, tcpQueue, newSocket, entry, seen, queue, completed, curLen,
                   connVars, appVars, fault, historyVars>>

\* The first free slot, and the reading half of ++q->cur_len.
FindSlot ==
    /\ listener = "find"
    /\ \/ /\ \A s \in Slots : ~Free(s)
          /\ Abort("queue_entry")
          /\ UNCHANGED <<entry, seen>>
       \/ \E s \in Slots :
             /\ Free(s) /\ \A i \in 1 .. s - 1 : ~Free(i)
             /\ entry' = s /\ seen' = curLen
             /\ listener' = "count"
             /\ UNCHANGED <<app, fault>>
    /\ UNCHANGED <<client, tcpQueue, newSocket, queue, completed, curLen, connVars, slot,
                   taken, counted, historyVars>>

CountRequest ==
    /\ listener = "count"
    /\ curLen' = (seen + 1) % CountMod
    /\ listener' = "create"
    /\ UNCHANGED <<client, tcpQueue, newSocket, entry, seen, queue, completed,
                   connVars, appVars, fault, historyVars>>

\* A new mysocket takes the TCP connection over and its transport thread
\* starts.  With no descriptor left the SYN is dropped.
KeepsNewSocket == newSocket                                         \* mutant
PassedOn == Null

NewConnection ==
    /\ listener = "create"
    /\ \/ \E sd \in Sds :
             /\ conn[sd] = "free"
             /\ conn' = [conn EXCEPT ![sd] = "handshake"]
             /\ peer' = [peer EXCEPT ![sd] = newSocket]
             /\ queue' = [queue EXCEPT ![entry] = Request(sd, newSocket)]
             /\ newSocket' = PassedOn
             /\ UNCHANGED curLen
       \/ /\ \A sd \in Sds : conn[sd] # "free"
          /\ curLen' = OneLess(curLen)
          /\ UNCHANGED <<queue, connVars, newSocket>>
    /\ listener' = "poll"
    /\ entry' = 0
    /\ seen' = 0
    /\ UNCHANGED <<client, tcpQueue, completed, appVars, fault, historyVars>>

-----------------------------------------------------------------------------
(* A transport thread at the end of its handshake:                           *)
(* _mysock_passive_connection_complete().  It needs the lock for reading.    *)

Writing == app = "closing"

ReplacesQueue(q, s) == <<s>>                                        \* mutant
PutInFront(q, s) == <<s>> \o q                                      \* mutant
PutLast(q, s) == Append(q, s)

Complete(sd) ==
    /\ fault = "none" /\ ~Writing
    /\ conn[sd] = "handshake" /\ client[peer[sd]] = "syn"
    /\ conn' = [conn EXCEPT ![sd] = "complete"]
    /\ completed' = PutLast(completed, CHOOSE s \in Slots : queue[s].sd = sd)
    /\ order' = Append(order, peer[sd])
    /\ UNCHANGED <<client, tcpQueue, listenVars, queue, curLen, peer, appVars, fault,
                   got>>

-----------------------------------------------------------------------------
(* The application: myaccept(), with _mysock_dequeue_connection() ...        *)

DequeueConnection ==
    /\ app = "idle" /\ completed # <<>>
    /\ slot' = Head(completed)
    /\ taken' = queue[Head(completed)].sd
    /\ completed' = Tail(completed)
    /\ app' = "clear"
    /\ UNCHANGED <<client, tcpQueue, listenVars, queue, curLen, connVars, counted,
                   fault, historyVars>>

\* INVALIDATE_CONNECT_REQUEST
ClearRequest ==
    /\ app = "clear"
    /\ queue' = [queue EXCEPT ![slot] = Request(Cleared, Null)]
    /\ app' = "free"
    /\ UNCHANGED <<client, tcpQueue, listenVars, completed, curLen, connVars, slot,
                   taken, counted, fault, historyVars>>

FreeRequest ==
    /\ app = "free"
    /\ queue' = [queue EXCEPT ![slot] = Request(Null, Null)]
    /\ app' = "count"
    /\ UNCHANGED <<client, tcpQueue, listenVars, completed, curLen, connVars, slot,
                   taken, counted, fault, historyVars>>

\* assert(q->cur_len > 0), and the reading half of --q->cur_len.
ReadCount ==
    /\ app = "count"
    /\ IF curLen > 0
       THEN counted' = curLen /\ app' = "return" /\ UNCHANGED <<listener, fault>>
       ELSE Abort("cur_len") /\ UNCHANGED counted
    /\ UNCHANGED <<client, tcpQueue, newSocket, entry, seen, queue, completed, curLen,
                   connVars, slot, taken, historyVars>>

AcceptReturns ==
    /\ app = "return"
    /\ curLen' = OneLess(counted)
    /\ conn' = [conn EXCEPT ![taken] = "accepted"]
    /\ got' = Append(got, peer[taken])
    /\ app' = "idle"
    /\ slot' = 0 /\ taken' = Null /\ counted' = 0
    /\ UNCHANGED <<client, tcpQueue, listenVars, queue, completed, peer, fault, order>>

\* ... myclose() of an accepted connection, which is the subject of Stcp ...
CloseAccepted(sd) ==
    /\ app = "idle" /\ conn[sd] = "accepted"
    /\ conn' = [conn EXCEPT ![sd] = "free"]
    /\ peer' = [peer EXCEPT ![sd] = Null]
    /\ UNCHANGED <<client, tcpQueue, listenVars, queue, completed, curLen, appVars,
                   fault, historyVars>>

\* ... and myclose() of the listener: it waits for the receive thread, takes
\* the lock for writing, and closes what is still queued.
CloseListener ==
    /\ ClosesListener
    /\ app = "idle"
    /\ app' = "join"
    /\ UNCHANGED <<client, tcpQueue, listenVars, queue, completed, curLen, connVars, slot,
                   taken, counted, fault, historyVars>>

Joined ==
    /\ app = "join" /\ listener = "ended"
    /\ app' = "closing"
    /\ slot' = 1
    /\ UNCHANGED <<client, tcpQueue, listenVars, queue, completed, curLen, connVars,
                   taken, counted, fault, historyVars>>

\* myclose() of a queued connection joins its transport thread, which has to
\* complete the handshake first; that its peer then closes as well is assumed.
CloseQueued ==
    /\ app = "closing" /\ slot \in Slots
    /\ ~Free(slot) => conn[queue[slot].sd] = "complete"
    /\ conn' = IF Free(slot) THEN conn ELSE [conn EXCEPT ![queue[slot].sd] = "free"]
    /\ peer' = IF Free(slot) THEN peer ELSE [peer EXCEPT ![queue[slot].sd] = Null]
    /\ queue' = [queue EXCEPT ![slot] = Request(Null, Null)]
    /\ slot' = slot + 1
    /\ UNCHANGED <<client, tcpQueue, listenVars, completed, curLen, app, taken, counted,
                   fault, historyVars>>

CloseReturns ==
    /\ app = "closing" /\ slot > MaxLen
    /\ app' = "closed"
    /\ completed' = <<>>
    /\ slot' = 0
    /\ UNCHANGED <<client, tcpQueue, listenVars, queue, curLen, connVars, taken, counted,
                   fault, historyVars>>

-----------------------------------------------------------------------------
ListenerStep == PollExit \/ Accept \/ ReadSyn \/ ScanRequests \/ CheckRoom \/ FindSlot
                   \/ CountRequest \/ NewConnection

MyAccept == DequeueConnection \/ ClearRequest \/ FreeRequest \/ ReadCount \/ AcceptReturns

MyClose == CloseListener \/ Joined \/ CloseQueued \/ CloseReturns

Next ==
    \/ \E c \in Clients : Connect(c) \/ SendSyn(c) \/ Leave(c)
    \/ ListenerStep
    \/ \E sd \in Sds : Complete(sd)
    \/ MyAccept
    \/ \E sd \in Sds : CloseAccepted(sd)
    \/ MyClose

Spec == Init /\ [][Next]_vars

\* do_connection(): between two calls of myaccept() server.c serves one client
\* to its end, which an idle client puts off for ever.
Busy == \E sd \in Sds : conn[sd] = "accepted"

\* Every thread runs, and a call of myaccept() or myclose() goes on.  The
\* application, as server.c, calls myaccept() when no connection is left that
\* it has to serve; it need not end with one, nor need the clients do anything.
Fairness == /\ WF_vars(ListenerStep)
            /\ \A sd \in Sds : WF_vars(Complete(sd))
            /\ WF_vars(~Busy /\ DequeueConnection)
            /\ WF_vars(ClearRequest \/ FreeRequest \/ ReadCount \/ AcceptReturns)
            /\ WF_vars(Joined \/ CloseQueued \/ CloseReturns)

FairSpec == Spec /\ Fairness

-----------------------------------------------------------------------------
TypeOK ==
    /\ client \in [Clients -> {"new", "connected", "syn", "left", "silent"}]
    /\ tcpQueue \in Seq(Clients)
    /\ newSocket \in Clients \cup {Null}
    /\ listener \in {"poll", "read", "scan", "room", "find", "count", "create",
                     "ended", "dead"}
    /\ entry \in 0 .. MaxLen
    /\ seen \in 0 .. CountMod - 1
    /\ queue \in [Slots -> [sd : Sds \cup {Null, Cleared}, peer : Clients \cup {Null}]]
    /\ completed \in Seq(Slots)
    /\ curLen \in 0 .. CountMod - 1
    /\ conn \in [Sds -> {"free", "handshake", "complete", "accepted"}]
    /\ peer \in [Sds -> Clients \cup {Null}]
    /\ app \in {"idle", "clear", "free", "count", "return", "join", "closing", "closed",
                "dead"}
    /\ slot \in 0 .. MaxLen + 1
    /\ taken \in Sds \cup {Null}
    /\ counted \in 0 .. CountMod - 1
    /\ fault \in {"none", "new_socket", "peer_addr_len", "queue_entry", "cur_len"}
    /\ order \in Seq(Clients)
    /\ got \in Seq(Clients)

-----------------------------------------------------------------------------
\* A transport thread that completes its handshake finds its request, exactly
\* once, whatever slots have been freed and used again meanwhile; and what is
\* in completed_queue are the requests of completed connections, each once.
RequestsAreFound ==
    /\ \A sd \in Sds : conn[sd] \in {"handshake", "complete"} /\ sd # taken =>
          Cardinality({s \in Slots : queue[s] = Request(sd, peer[sd])}) = 1
    /\ app \notin {"closing", "dead"} =>
          \A i, j \in DOMAIN completed :
             /\ completed[i] = completed[j] => i = j
             /\ conn[queue[completed[i]].sd] = "complete"

\* myaccept() hands out the connections in the order they were established,
\* each of them once.
AcceptsInOrder == IsPrefix(got, order) /\ IsInjective(got)

\* A TCP connection belongs to one mysocket at most: new_socket is passed on
\* before another is accepted.
OneOwner ==
    /\ \A sd, other \in Sds : peer[sd] # Null /\ peer[sd] = peer[other] => sd = other
    /\ \A sd \in Sds : peer[sd] # Null => peer[sd] # newSocket

\* Every connection that is established is accepted, unless the application is
\* for ever busy with those it accepted before, the process dies or the listener
\* is closed: no connection stays in the table with nobody to find it.
AcceptedUnlessBusy ==
    \A sd \in Sds :
        conn[sd] = "complete" ~>
            (conn[sd] # "complete" \/ fault # "none" \/ ExitRequested \/ []Busy)

\* myclose() of the listener joins the receive thread and then the transport
\* threads of all that is queued, with the lock held for writing.  It returns,
\* unless it waits for ever for the SYN of a client that has connected, or for a
\* handshake, which nobody can complete while the lock is held.
BlockedInClose ==
    \/ app = "join" /\ listener = "read"
    \/ app = "closing" /\ \E s \in Slots : ~Free(s) /\ conn[queue[s].sd] = "handshake"

ClosesUnlessBlocked ==
    app \in {"join", "closing"} ~> (app \in {"closed", "dead"} \/ []BlockedInClose)

-----------------------------------------------------------------------------
(* What comments and assertions of the code say, and the code does not keep. *)

\* "we will not reenter this function until this SYN packet has been
\* dispatched to the right context, and that context's socket updated to be
\* 'new_socket'" (network_io_tcp.c:199): not if the SYN is dropped.
DispatchedBeforeNext == fault # "new_socket"

\* assert(q->cur_len > 0) (connection_demux.c:113): a connection is counted
\* for as long as it is queued.
QueuedIsCounted == fault # "cur_len"

\* assert(r->sd == -1 || peer_addr_len == r->peer_addr_len)
\* (connection_demux.c:179)
RequestsHaveAddress == fault # "peer_addr_len"

\* "keep listening socket open for futher connection requests"
\* (network_io_tcp.c:198): the receive thread ends only when the listener is
\* closed.
KeepsListening == listener = "ended" => ExitRequested

\* "close any queued connections that haven't been passed up to the user via
\* myaccept()" (connection_demux.c:369): myclose() of the listener returns, at
\* least if all clients finish their handshakes.
ListenerCloses ==
    app = "closing" ~> (app = "closed" \/ \E c \in Clients : client[c] = "left")

=============================================================================
