------------------------------- MODULE Router -------------------------------
(***************************************************************************)
(* The router of Project-4: the thread that handles the packets the VNS    *)
(* server delivers (sr_handlepacket) and the thread that wakes up once a   *)
(* second (sr_arpcache_timeout), which share the ARP cache.                *)
(*                                                                         *)
(* The cache has a lock.  The packet thread holds it only inside the       *)
(* functions of sr_arpcache.c, each of which is one step here; the timer   *)
(* thread holds it for a whole sweep.  But handle_arpreq() works on the    *)
(* request that sr_arpcache_queuereq() returned without the lock, so its   *)
(* accesses to that request are steps of their own, for both threads.      *)
(*                                                                         *)
(* Times are in whole seconds, as time() gives them, and kept as ages.     *)
(***************************************************************************)
EXTENDS Integers, Sequences, FiniteSets, SequencesExt

CONSTANTS
    Packets,    \* the IP packets and ARP requests that arrive
    Unrouted,   \* those of them whose source address no route matches
    Hosts,      \* next hops: gateways of the routing table
    Macs,       \* Ethernet addresses of the next hops
    Reqs,       \* addresses malloc() has for a struct sr_arpreq
    CacheSize,  \* SR_ARPCACHE_SZ, 100 in the code
    Timeout,    \* SR_ARPCACHE_TO, 15 in the code
    MaxTries,   \* 5 in the code
    Null

ASSUME RouterAssumption ==
    /\ Unrouted \subseteq Packets
    /\ CacheSize \in Nat \ {0}
    /\ Timeout \in Nat
    /\ MaxTries \in Nat \ {0}
    /\ IsFiniteSet(Reqs) /\ IsFiniteSet(Hosts)
    /\ Cardinality(Reqs) > Cardinality(Hosts)
    /\ Null \notin Packets \cup Hosts \cup Macs \cup Reqs

VARIABLES
    \* struct sr_arpcache
    entries,    \* the table of mappings
    requests,   \* the list of requests, first one first
    \* the heap
    heap,       \* the allocated struct sr_arpreq
    req,        \* what they hold
    \* the two threads
    pc,         \* where each thread is
    cur,        \* the request it works on: req, or entry of a call
    walk,       \* how many packets of that request it has dealt with
    tries,      \* times_sent as it read it
    since,      \* seconds since it called time() in handle_arpreq()
    todo,       \* the timer's requests still to be visited by this sweep
    slept,      \* the timer's sleep(1) is over
    packet,     \* the packet sr_handlepacket() is about to look up or queue
    sha,        \* the sender hardware address of the ARP reply it handles
    fault,      \* "freed": memory was used after free(); "null": a NULL
                \* pointer was; "assert": an assertion failed
    \* what the network sees
    hop,        \* next hop of every packet to be forwarded
    fate,       \* the frames the router sent for a packet
    learned,    \* the mappings ARP replies have announced
    asked       \* how many ARP requests were sent for an allocated request

cacheVars  == <<entries, requests>>
heapVars   == <<heap, req>>
threadVars == <<pc, cur, walk, tries, since, todo, slept, packet, sha>>
netVars    == <<hop, fate, learned>>
vars == <<entries, requests, heap, req, pc, cur, walk, tries, since, todo, slept,
          packet, sha, fault, hop, fate, learned, asked>>

-----------------------------------------------------------------------------
Threads == {"main", "timer"}
Slots == 1 .. CacheSize
Handling == {"handle", "count", "answer", "destroy", "send", "stamp", "store"}

Old == 2    \* an age for which difftime(now, sent) > 1.0; ages stop there
Entry == [valid : BOOLEAN, ip : Hosts \cup {Null}, mac : Macs \cup {Null},
          age : 0 .. Timeout + 1]
Request == [ip : Hosts, age : 0 .. Old, times : Nat, packets : Seq(Packets)]

\* A frame: what it is, and the Ethernet address it goes to.  "sender" is the
\* station the packet came from, "self" an interface of the router.  An ARP
\* reply and any ICMP message other than host unreachable are an "answer".
Frame(what, to) == [what |-> what, to |-> to]
Frames == [what : {"answer", "host_unreachable", "forwarded"},
           to : Macs \cup {"sender", "self"}]

Init ==
    /\ entries = [i \in Slots |->
                     [valid |-> FALSE, ip |-> Null, mac |-> Null, age |-> 0]]
    /\ requests = <<>>
    /\ heap = {}
    /\ req = [r \in Reqs |-> Null]
    /\ pc = [t \in Threads |-> IF t = "main" THEN "idle" ELSE "sleep"]
    /\ cur = [t \in Threads |-> Null]
    /\ walk = [t \in Threads |-> 0]
    /\ tries = [t \in Threads |-> 0]
    /\ since = [t \in Threads |-> 0]
    /\ todo = <<>>
    /\ slept = FALSE
    /\ packet = Null
    /\ sha = Null
    /\ fault = "none"
    /\ hop = [p \in Packets |-> Null]
    /\ fate = [p \in Packets |-> <<>>]
    /\ learned = {}
    /\ asked = [r \in Reqs |-> 0]

-----------------------------------------------------------------------------
(* sr_arpcache.c                                                             *)

\* The lock is held by the timer for as long as its sweep lasts.
LockFree == pc["timer"] = "sleep"

\* The slots sr_arpcache_lookup() takes for a mapping of ip; the last one wins.
AnyValidSlot(ip) == {i \in Slots : entries[i].valid}                \* mutant
Matches(ip) == {i \in Slots : entries[i].valid /\ entries[i].ip = ip}
Found(ip) == {i \in Matches(ip) : \A j \in Matches(ip) : j <= i}

FreeSlots == {i \in Slots : ~entries[i].valid}
FirstFree == {i \in FreeSlots : \A j \in FreeSlots : i <= j}

\* The requests on the list for ip: at most one, see RequestsAreSound.
Pending(ip) == {r \in ToSet(requests) : req[r].ip = ip}

\* The list without a request: as sr_arpreq_destroy() leaves it, and as
\* sr_arpcache_insert() does.
LeftOnList(list, r) == list                                         \* mutant
Unlinked(list, r) == RemoveFirst(list, r)
Taken(list, r) == RemoveFirst(list, r)

-----------------------------------------------------------------------------
(* sr_handlepacket(): IP packets and ARP requests                            *)

Emit(p, frames) == fate' = [fate EXCEPT ![p] = @ \o frames]

\* A packet with its TTL used up is answered with an ICMP time exceeded, and
\* then handled as any other.
Expired(ttlZero) == IF ttlZero THEN <<Frame("answer", "sender")>> ELSE <<>>

Arrives(p) == /\ pc["main"] = "idle"
              /\ hop[p] = Null /\ fate[p] = <<>>

\* The program is gone once an assertion has failed, and anything may happen
\* once it has used memory that is not its own: nothing is said of it any more.
Crash(what) == /\ fault' = what
               /\ pc' = [t \in Threads |-> "crashed"]

\* A false checksum is not answered: checkChecksum() asserts it.
FailsChecksum(p) ==
    /\ Arrives(p)
    /\ Crash("assert")
    /\ UNCHANGED <<cacheVars, heapVars, cur, walk, tries, since, todo, slept, packet,
                   sha, netVars, asked>>

\* An ARP request for an interface of the router, a packet addressed to the
\* router itself, or one that no route matches, is answered to its sender.
Answer(p, ttlZero) ==
    /\ Arrives(p)
    /\ Emit(p, Append(Expired(ttlZero), Frame("answer", "sender")))
    /\ UNCHANGED <<cacheVars, heapVars, threadVars, fault, hop, learned, asked>>

ReceivePacket(p, h, ttlZero) ==
    /\ Arrives(p)
    /\ hop' = [hop EXCEPT ![p] = h]
    /\ Emit(p, Expired(ttlZero))
    /\ packet' = p
    /\ pc' = [pc EXCEPT !["main"] = "lookup"]
    /\ UNCHANGED <<cacheVars, heapVars, cur, walk, tries, since, todo, slept, sha,
                   fault, learned, asked>>

\* sr_arpcache_lookup() returns a copy, so that sending needs no lock.
LookupHit ==
    /\ pc["main"] = "lookup" /\ LockFree
    /\ \E i \in Found(hop[packet]) :
          Emit(packet, <<Frame("forwarded", entries[i].mac)>>)
    /\ pc' = [pc EXCEPT !["main"] = "idle"]
    /\ packet' = Null
    /\ UNCHANGED <<cacheVars, heapVars, cur, walk, tries, since, todo, slept, sha,
                   fault, hop, learned, asked>>

LookupMiss ==
    /\ pc["main"] = "lookup" /\ LockFree
    /\ Matches(hop[packet]) = {}
    /\ pc' = [pc EXCEPT !["main"] = "queue"]
    /\ UNCHANGED <<cacheVars, heapVars, cur, walk, tries, since, todo, slept,
                   packet, sha, fault, netVars, asked>>

\* sr_arpcache_queuereq(): the packet is put in front of those waiting.
OnlyNewestWaits(p, ps) == <<p>>                                     \* mutant
Waiting(p, ps) == <<p>> \o ps

QueueReq ==
    /\ pc["main"] = "queue" /\ LockFree
    /\ \/ \E r \in Pending(hop[packet]) :
             /\ req' = [req EXCEPT ![r].packets = Waiting(packet, @)]
             /\ cur' = [cur EXCEPT !["main"] = r]
             /\ UNCHANGED <<heap, requests, asked>>
       \/ /\ Pending(hop[packet]) = {}
          /\ \E r \in Reqs \ heap :
             /\ heap' = heap \cup {r}
             /\ req' = [req EXCEPT ![r] =
                   [ip |-> hop[packet], age |-> Old, times |-> 0,
                    packets |-> Waiting(packet, <<>>)]]
             /\ requests' = <<r>> \o requests
             /\ cur' = [cur EXCEPT !["main"] = r]
             /\ asked' = [asked EXCEPT ![r] = 0]
    /\ pc' = [pc EXCEPT !["main"] = "handle"]
    /\ packet' = Null
    /\ UNCHANGED <<entries, walk, tries, since, todo, slept, sha, fault, netVars>>

-----------------------------------------------------------------------------
(* handle_arpreq(), run by the packet thread for the request it has queued   *)
(* and by the timer thread for each request on the list.                     *)

Alive(t) == cur[t] \in heap

\* The thread goes on: the packet thread returns, the timer visits the next
\* request or ends its sweep and gives up the lock.
Done(t) ==
    /\ IF t = "timer" /\ todo # <<>>
       THEN /\ pc' = [pc EXCEPT !["timer"] = "handle"]
            /\ cur' = [cur EXCEPT !["timer"] = Head(todo)]
            /\ todo' = Tail(todo)
       ELSE /\ pc' = [pc EXCEPT ![t] = IF t = "main" THEN "idle" ELSE "sleep"]
            /\ cur' = [cur EXCEPT ![t] = Null]
            /\ UNCHANGED todo
    /\ walk' = [walk EXCEPT ![t] = 0]
    /\ tries' = [tries EXCEPT ![t] = 0]
    /\ since' = [since EXCEPT ![t] = 0]

\* difftime(now, req->sent) > 1.0 and req->times_sent >= 5 decide.
TriesOnceMore(r) == req[r].times > MaxTries                         \* mutant
GivesUp(r) == req[r].times >= MaxTries

Handle(t) ==
    /\ pc[t] = "handle" /\ Alive(t)
    /\ IF req[cur[t]].age < Old
       THEN Done(t)
       ELSE /\ pc' = [pc EXCEPT ![t] = "count"]
            /\ UNCHANGED <<cur, walk, tries, since, todo>>
    /\ UNCHANGED <<cacheVars, heapVars, slept, packet, sha, fault, netVars,
                   asked>>

CountTries(t) ==
    /\ pc[t] = "count" /\ Alive(t)
    /\ pc' = [pc EXCEPT ![t] = IF GivesUp(cur[t]) THEN "answer" ELSE "send"]
    /\ UNCHANGED <<cacheVars, heapVars, cur, walk, tries, since, todo, slept, packet,
                   sha, fault, netVars, asked>>

AllButLastAnswered(t) == walk[t] + 1 >= Len(req[cur[t]].packets)    \* mutant
AllAnswered(t) == walk[t] = Len(req[cur[t]].packets)

\* ICMP host unreachable for the next waiting packet.  Its Ethernet addresses
\* are those of the waiting frame, swapped; the source of that frame has been
\* overwritten with the outgoing interface when it was queued.
AnswerWaiting(t) ==
    /\ pc[t] = "answer" /\ Alive(t)
    /\ IF AllAnswered(t)
       THEN pc' = [pc EXCEPT ![t] = "destroy"] /\ UNCHANGED <<walk, fate, fault>>
       ELSE LET p == req[cur[t]].packets[walk[t] + 1] IN
            IF p \in Unrouted
            THEN Crash("null") /\ UNCHANGED <<walk, fate>>
            ELSE /\ Emit(p, <<Frame("host_unreachable", "self")>>)
                 /\ walk' = [walk EXCEPT ![t] = @ + 1]
                 /\ UNCHANGED <<pc, fault>>
    /\ UNCHANGED <<cacheVars, heapVars, cur, tries, since, todo, slept, packet, sha,
                   hop, learned, asked>>

\* sr_arpreq_destroy()
Destroy(t) ==
    /\ pc[t] = "destroy" /\ Alive(t)
    /\ t = "main" => LockFree
    /\ requests' = Unlinked(requests, cur[t])
    /\ heap' = heap \ {cur[t]}
    /\ req' = [req EXCEPT ![cur[t]] = Null]
    /\ Done(t)
    /\ UNCHANGED <<entries, slept, packet, sha, fault, netVars, asked>>

SendRequest(t) ==
    /\ pc[t] = "send" /\ Alive(t)
    /\ asked' = [asked EXCEPT ![cur[t]] = @ + 1]
    /\ pc' = [pc EXCEPT ![t] = "stamp"]
    /\ UNCHANGED <<cacheVars, heapVars, cur, walk, tries, since, todo, slept, packet,
                   sha, fault, netVars>>

\* req->sent = now, and the reading half of req->times_sent += 1.
Stamp(t) ==
    /\ pc[t] = "stamp" /\ Alive(t)
    /\ req' = [req EXCEPT ![cur[t]].age = since[t]]
    /\ tries' = [tries EXCEPT ![t] = req[cur[t]].times]
    /\ pc' = [pc EXCEPT ![t] = "store"]
    /\ UNCHANGED <<cacheVars, heap, cur, walk, since, todo, slept, packet, sha, fault,
                   netVars, asked>>

Store(t) ==
    /\ pc[t] = "store" /\ Alive(t)
    /\ req' = [req EXCEPT ![cur[t]].times = tries[t] + 1]
    /\ Done(t)
    /\ UNCHANGED <<cacheVars, heap, slept, packet, sha, fault, netVars, asked>>

\* Any of these steps on a request that has been freed.
UseFreed(t) ==
    /\ pc[t] \in Handling /\ ~Alive(t)
    /\ pc[t] = "destroy" /\ t = "main" => LockFree
    /\ Crash("freed")
    /\ UNCHANGED <<cacheVars, heapVars, cur, walk, tries, since, todo, slept, packet,
                   sha, netVars, asked>>

-----------------------------------------------------------------------------
(* sr_handlepacket(): an ARP reply to one of the router's interfaces         *)

\* sr_arpcache_insert(): a full table drops the mapping.
ReceiveReply(h, m) ==
    /\ pc["main"] = "idle" /\ LockFree
    /\ \/ FreeSlots = {} /\ UNCHANGED entries
       \/ \E i \in FirstFree :
             entries' = [entries EXCEPT ![i] =
                           [valid |-> TRUE, ip |-> h, mac |-> m, age |-> 0]]
    /\ learned' = learned \cup {<<h, m>>}
    /\ IF Pending(h) = {}
       THEN UNCHANGED <<requests, pc, cur, sha>>
       ELSE \E r \in Pending(h) :
              /\ requests' = Taken(requests, r)
              /\ cur' = [cur EXCEPT !["main"] = r]
              /\ pc' = [pc EXCEPT !["main"] = "deliver"]
              /\ sha' = m
    /\ UNCHANGED <<heapVars, walk, tries, since, todo, slept, packet, fault, hop, fate,
                   asked>>

\* The packets of a request that is off the list: no other thread has it.
DeliverWaiting ==
    /\ pc["main"] = "deliver"
    /\ LET ps == ToSet(req[cur["main"]].packets) IN
       fate' = [p \in Packets |-> IF p \in ps
                   THEN Append(fate[p], Frame("forwarded", sha)) ELSE fate[p]]
    /\ pc' = [pc EXCEPT !["main"] = "destroy"]
    /\ sha' = Null
    /\ UNCHANGED <<cacheVars, heapVars, cur, walk, tries, since, todo, slept, packet,
                   fault, hop, learned, asked>>

-----------------------------------------------------------------------------
(* sr_arpcache_timeout()                                                     *)

\* The lock is taken, mappings that are too old go, and the sweep begins.
Wake ==
    /\ pc["timer"] = "sleep"
    /\ slept
    /\ slept' = FALSE
    /\ entries' = [i \in Slots |->
                     IF entries[i].valid /\ entries[i].age > Timeout
                     THEN [entries[i] EXCEPT !.valid = FALSE, !.age = 0]
                     ELSE entries[i]]
    /\ IF requests = <<>>
       THEN UNCHANGED <<pc, cur, todo>>
       ELSE /\ pc' = [pc EXCEPT !["timer"] = "handle"]
            /\ cur' = [cur EXCEPT !["timer"] = Head(requests)]
            /\ todo' = Tail(requests)
    /\ UNCHANGED <<requests, heapVars, walk, tries, since, packet, sha, fault, netVars,
                   asked>>

\* A second passes.  An age stops where the code tells no more ages apart.
Capped(age, cap) == IF age < cap THEN age + 1 ELSE cap

Tick ==
    /\ fault = "none"
    /\ slept' = TRUE
    /\ entries' = [i \in Slots |-> IF entries[i].valid
                      THEN [entries[i] EXCEPT !.age = Capped(@, Timeout + 1)]
                      ELSE entries[i]]
    /\ req' = [r \in Reqs |-> IF r \in heap
                  THEN [req[r] EXCEPT !.age = Capped(@, Old)] ELSE req[r]]
    /\ since' = [t \in Threads |-> IF pc[t] \in Handling \ {"handle"}
                    THEN Capped(since[t], Old) ELSE since[t]]
    /\ UNCHANGED <<requests, heap, pc, cur, walk, tries, todo, packet, sha, fault,
                   netVars, asked>>

-----------------------------------------------------------------------------
HandleArpReq(t) ==
    Handle(t) \/ CountTries(t) \/ AnswerWaiting(t) \/ Destroy(t) \/ SendRequest(t) \/ Stamp(t)
       \/ Store(t) \/ UseFreed(t)

\* The packet thread between two frames.
MainStep == LookupHit \/ LookupMiss \/ QueueReq \/ DeliverWaiting
               \/ HandleArpReq("main")

TimerStep == Wake \/ HandleArpReq("timer")

Arrival ==
    \/ \E p \in Packets, ttlZero \in BOOLEAN :
          \/ FailsChecksum(p)
          \/ Answer(p, ttlZero)
          \/ \E h \in Hosts : ReceivePacket(p, h, ttlZero)
    \/ \E h \in Hosts, m \in Macs : ReceiveReply(h, m)

Next == Arrival \/ MainStep \/ TimerStep \/ Tick

Spec == Init /\ [][Next]_vars

\* Both threads run, and the clock advances.  The packet thread may find the
\* lock taken again and again, but for the second in which the timer sleeps it
\* is free: hence strong fairness.  Nothing forces packets or replies.
Fairness == SF_vars(MainStep) /\ WF_vars(TimerStep) /\ WF_vars(Tick)

FairSpec == Spec /\ Fairness

-----------------------------------------------------------------------------
TypeOK ==
    /\ entries \in [Slots -> Entry]
    /\ requests \in Seq(Reqs)
    /\ heap \subseteq Reqs
    /\ req \in [Reqs -> Request \cup {Null}]
    /\ pc \in [Threads -> Handling \cup
                 {"idle", "sleep", "lookup", "queue", "deliver", "crashed"}]
    /\ cur \in [Threads -> Reqs \cup {Null}]
    /\ walk \in [Threads -> Nat]
    /\ tries \in [Threads -> Nat]
    /\ since \in [Threads -> 0 .. Old]
    /\ todo \in Seq(Reqs)
    /\ slept \in BOOLEAN
    /\ packet \in Packets \cup {Null}
    /\ sha \in Macs \cup {Null}
    /\ fault \in {"none", "freed", "null", "assert"}
    /\ hop \in [Packets -> Hosts \cup {Null}]
    /\ fate \in [Packets -> Seq(Frames)]
    /\ learned \subseteq Hosts \X Macs
    /\ asked \in [Reqs -> Nat]

-----------------------------------------------------------------------------
Did(p, what) == \E i \in DOMAIN fate[p] : fate[p][i].what = what

Finished(p) == Did(p, "forwarded") \/ Did(p, "host_unreachable")

\* sr_arpcache_queuereq() never makes a second request for a host, and the
\* list holds no freed request, whichever thread frees one: a request that is
\* allocated is on the list or in the hands of the packet thread, which frees it.
RequestsAreSound ==
    fault = "none" =>
    /\ ToSet(requests) \subseteq heap
    /\ \A i, j \in DOMAIN requests :
          req[requests[i]].ip = req[requests[j]].ip => i = j
    /\ heap \subseteq ToSet(requests) \cup {cur["main"]}

\* times_sent goes at most one beyond the limit, although the two threads check,
\* read and write it without the lock, one may write back what it read long ago,
\* and both may count the same attempt: a thread that sees the limit does not
\* count, so at most one that has seen less is still to count.
TriesBounded ==
    fault = "none" => \A r \in heap : req[r].times <= MaxTries + 1

\* A packet to be forwarded is never forgotten: it is with the packet thread,
\* waits in a request the timer or a reply will find, or was sent or answered.
NoneForgotten ==
    fault = "none" => \A p \in Packets : hop[p] # Null =>
    \/ packet = p
    \/ Finished(p)
    \/ \E r \in heap : /\ p \in ToSet(req[r].packets)
                       /\ \/ r \in ToSet(requests)
                          \/ pc["main"] = "deliver" /\ cur["main"] = r

\* A packet goes only to an Ethernet address that its next hop has announced.
ForwardedAsLearned ==
    \A p \in Packets : \A i \in DOMAIN fate[p] :
        fate[p][i].what = "forwarded" => <<hop[p], fate[p][i].to>> \in learned

\* No packet is forwarded twice, or forwarded and reported unreachable too:
\* the reply that takes a request off the list takes it from the timer.
OneFate ==
    \A p \in Packets :
        /\ ~(Did(p, "forwarded") /\ Did(p, "host_unreachable"))
        /\ \A i, j \in DOMAIN fate[p] :
              fate[p][i].what = "forwarded" /\ fate[p][j].what = "forwarded" => i = j

\* No packet waits for ever: the next hop answers, or after the last attempt
\* the timer gives up, even if the two threads count an attempt twice.
NoneWaitsForever ==
    \A p \in Packets : hop[p] # Null ~> (Finished(p) \/ fault # "none")

-----------------------------------------------------------------------------
(* What the comments of the code say, and the code does not keep to.         *)

\* "A pointer to the ARP request is returned; it should not be freed."
\* (sr_arpcache.c:62): the request that was queued is still there when it is
\* handled.
RequestStaysAllocated == fault # "freed"

\* "until we send 5 ARP requests, then we send ICMP host unreachable back"
\* (sr_arpcache.h:52): no request is sent a sixth time.
NoMoreThanMaxTries == \A r \in Reqs : asked[r] <= MaxTries

\* "send icmp host unreachable to source addr of all pkts waiting"
\* (sr_arpcache.h:29)
UnreachableReachesSource ==
    \A p \in Packets : \A i \in DOMAIN fate[p] :
        fate[p][i].what = "host_unreachable" => fate[p][i].to = "sender"

\* "Inserts this IP to MAC mapping in the cache, and marks it valid."
\* (sr_arpcache.c:108), even if all entries are full (sr_arpcache.c:207).
InsertedIsFound ==
    [][\A h \in Hosts, m \in Macs :
          ReceiveReply(h, m) =>
             \E i \in Slots : entries'[i].valid /\ entries'[i].ip = h
                               /\ entries'[i].mac = m]_vars

=============================================================================
