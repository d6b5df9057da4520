----------------------------- MODULE RouterProofs -----------------------------
(***************************************************************************)
(* Theorems about Router: the list of ARP requests, the packets that wait  *)
(* in them and what becomes of each, under any interleaving of the packet  *)
(* thread and the timer thread.                                            *)
(***************************************************************************)
EXTENDS Router, SequenceTheorems, TLAPS

-----------------------------------------------------------------------------
(* Sequences                                                                 *)

Distinct(q) == \A i, j \in DOMAIN q : q[i] = q[j] => i = j

LEMMA TailFacts ==
    ASSUME NEW S, NEW q \in Seq(S), q # <<>>
    PROVE  /\ Len(q) \in Nat \ {0} /\ DOMAIN q = 1 .. Len(q)
           /\ Head(q) = q[1] /\ Head(q) \in S /\ Tail(q) \in Seq(S)
           /\ DOMAIN Tail(q) = 1 .. Len(q) - 1
           /\ \A i \in 1 .. Len(q) - 1 : Tail(q)[i] = q[i + 1]
OBVIOUS

LEMMA ConcatFacts ==
    ASSUME NEW S, NEW q \in Seq(S), NEW s \in Seq(S)
    PROVE  /\ q \o s \in Seq(S) /\ Len(q) \in Nat /\ Len(s) \in Nat
           /\ DOMAIN q = 1 .. Len(q) /\ DOMAIN s = 1 .. Len(s)
           /\ DOMAIN (q \o s) = 1 .. Len(q) + Len(s) /\ Len(q \o s) = Len(q) + Len(s)
           /\ \A i \in 1 .. Len(q) : (q \o s)[i] = q[i]
           /\ \A i \in 1 .. Len(s) : (q \o s)[Len(q) + i] = s[i]
           /\ \A i \in 1 .. Len(q) + Len(s) :
                 (q \o s)[i] = IF i <= Len(q) THEN q[i] ELSE s[i - Len(q)]
OBVIOUS

\* A sequence without its k-th element.
LEMMA RemoveAtFacts ==
    ASSUME NEW S, NEW q \in Seq(S), NEW k \in 1 .. Len(q)
    PROVE  /\ RemoveAt(q, k) \in Seq(S) /\ DOMAIN RemoveAt(q, k) = 1 .. Len(q) - 1
           /\ \A i \in 1 .. Len(q) - 1 : RemoveAt(q, k)[i] = IF i < k THEN q[i] ELSE q[i + 1]
<1>0. PICK n \in Nat : n = Len(q)
  OBVIOUS
<1>1. /\ k \in 1 .. n /\ k - 1 \in Int /\ k + 1 \in Int /\ n \in Int /\ 1 \in Int
      /\ \A i \in 1 .. n : q[i] \in S
  BY <1>0
<1>2. /\ SubSeq(q, 1, k - 1) \in Seq(S)
      /\ Len(SubSeq(q, 1, k - 1)) = IF 1 <= k - 1 THEN k - 1 - 1 + 1 ELSE 0
      /\ \A i \in 1 .. k - 1 - 1 + 1 : SubSeq(q, 1, k - 1)[i] = q[1 + i - 1]
  <2>1. \A i \in 1 .. k - 1 : q[i] \in S
    BY <1>1
  <2> QED
    BY <1>1, <2>1, SubSeqProperties
<1>3. /\ SubSeq(q, k + 1, n) \in Seq(S)
      /\ Len(SubSeq(q, k + 1, n)) = IF k + 1 <= n THEN n - (k + 1) + 1 ELSE 0
      /\ \A i \in 1 .. n - (k + 1) + 1 : SubSeq(q, k + 1, n)[i] = q[k + 1 + i - 1]
  <2>1. \A i \in k + 1 .. n : q[i] \in S
    BY <1>1
  <2> QED
    BY <1>1, <2>1, SubSeqProperties
<1>4. PICK a \in Seq(S) : a = SubSeq(q, 1, k - 1)
  BY <1>2
<1>5. PICK b \in Seq(S) : b = SubSeq(q, k + 1, n)
  BY <1>3
<1>6. Len(a) = k - 1 /\ \A i \in 1 .. k - 1 : a[i] = q[i]
  BY <1>1, <1>2, <1>4
<1>7. Len(b) = n - k /\ \A i \in 1 .. n - k : b[i] = q[k + i]
  BY <1>1, <1>3, <1>5
<1>8. RemoveAt(q, k) = a \o b
  BY <1>0, <1>4, <1>5 DEF RemoveAt
<1>9. /\ a \o b \in Seq(S) /\ DOMAIN (a \o b) = 1 .. Len(a) + Len(b)
      /\ \A i \in 1 .. Len(a) + Len(b) :
            (a \o b)[i] = IF i <= Len(a) THEN a[i] ELSE b[i - Len(a)]
  BY ConcatFacts
<1>10. Len(a) + Len(b) = n - 1
  BY <1>1, <1>6, <1>7
<1>11. ASSUME NEW i \in 1 .. n - 1
       PROVE  (a \o b)[i] = IF i < k THEN q[i] ELSE q[i + 1]
  <2>1. (a \o b)[i] = IF i <= k - 1 THEN a[i] ELSE b[i - (k - 1)]
    BY <1>6, <1>9, <1>10
  <2>2. CASE i < k
    <3>1. i \in 1 .. k - 1
      BY <1>1, <2>2
    <3> QED
      BY <1>6, <2>1, <2>2, <3>1
  <2>3. CASE ~(i < k)
    <3>1. i - (k - 1) \in 1 .. n - k /\ k + (i - (k - 1)) = i + 1 /\ ~(i <= k - 1)
      BY <1>1, <2>3
    <3> QED
      BY <1>7, <2>1, <2>3, <3>1
  <2> QED
    BY <2>2, <2>3
<1> QED
  BY <1>0, <1>8, <1>9, <1>10, <1>11

\* A list of different elements without one of them.
LEMMA RemoveFirstFacts ==
    ASSUME NEW S, NEW q \in Seq(S), Distinct(q), NEW r
    PROVE  /\ RemoveFirst(q, r) \in Seq(S) /\ Distinct(RemoveFirst(q, r))
           /\ \A x : (\E i \in DOMAIN RemoveFirst(q, r) : RemoveFirst(q, r)[i] = x)
                       <=> x # r /\ \E i \in DOMAIN q : q[i] = x
<1> DEFINE R == RemoveFirst(q, r)
<1>0. Len(q) \in Nat /\ DOMAIN q = 1 .. Len(q)
  OBVIOUS
<1>1. CASE ~ \E i \in 1 .. Len(q) : q[i] = r
  <2>1. R = q
    BY <1>1 DEF RemoveFirst
  <2> QED
    BY <1>0, <1>1, <2>1
<1>2. CASE \E i \in 1 .. Len(q) : q[i] = r
  <2>1. PICK k \in 1 .. Len(q) : q[k] = r
    BY <1>2
  <2>2. {i \in 1 .. Len(q) : q[i] = r} = {k}
    BY <1>0, <2>1 DEF Distinct
  <2>3. Min({k}) = k
    BY <1>0, <2>1 DEF Min
  <2>4. SelectInSeq(q, LAMBDA v : v = r) = k
    BY <2>2, <2>3 DEF SelectInSeq
  <2>5. R = RemoveAt(q, k)
    BY <1>2, <2>4 DEF RemoveFirst
  <2> DEFINE f(i) == IF i < k THEN i ELSE i + 1
  <2>6. /\ R \in Seq(S) /\ DOMAIN R = 1 .. Len(q) - 1
        /\ \A i \in 1 .. Len(q) - 1 : R[i] = q[f(i)]
    BY <1>0, <2>1, <2>5, RemoveAtFacts
  <2> HIDE DEF R
  <2>7. \A i \in DOMAIN R : f(i) \in DOMAIN q /\ f(i) # k /\ R[i] = q[f(i)]
    BY <1>0, <2>1, <2>6
  <2>8. \A j \in DOMAIN q : j # k => \E i \in DOMAIN R : R[i] = q[j]
    <3> SUFFICES ASSUME NEW j \in DOMAIN q, j # k PROVE \E i \in DOMAIN R : R[i] = q[j]
      OBVIOUS
    <3>1. CASE j < k
      BY <1>0, <2>1, <2>6, <3>1
    <3>2. CASE j > k
      <4>1. j - 1 \in DOMAIN R /\ R[j - 1] = q[j]
        BY <1>0, <2>1, <2>6, <3>2
      <4> QED
        BY <4>1
    <3> QED
      BY <1>0, <2>1, <3>1, <3>2
  <2>9. Distinct(R)
    <3> SUFFICES ASSUME NEW i \in DOMAIN R, NEW j \in DOMAIN R, R[i] = R[j] PROVE i = j
      BY DEF Distinct
    <3>1. f(i) = f(j)
      BY <2>7 DEF Distinct
    <3> QED
      BY <1>0, <2>1, <2>6, <3>1
  <2>10. \A x : (\E i \in DOMAIN R : R[i] = x) <=> x # r /\ \E i \in DOMAIN q : q[i] = x
    BY <2>1, <2>7, <2>8, <1>0 DEF Distinct
  <2> QED
    BY <2>6, <2>9, <2>10 DEF R
<1> QED
  BY <1>1, <1>2

-----------------------------------------------------------------------------
(* The invariant                                                             *)

OnList(r)    == \E i \in DOMAIN requests : requests[i] = r
Waits(p, r)  == \E i \in DOMAIN req[r].packets : req[r].packets[i] = p

\* Where the threads are, and what they have in their hands there.
Control ==
    /\ pc["main"] \in Handling \cup {"idle", "lookup", "queue", "deliver"}
    /\ pc["timer"] \in Handling \cup {"sleep"}
    /\ \A t \in Threads :
          /\ pc[t] \notin {"answer", "destroy"} => walk[t] = 0
          /\ pc[t] \in Handling \cup {"deliver"} => cur[t] \in Reqs
    /\ pc["main"] \in {"idle", "lookup", "queue"} => cur["main"] = Null
    /\ pc["timer"] = "sleep" => cur["timer"] = Null /\ todo = <<>>
    /\ IF pc["main"] \in {"lookup", "queue"}
       THEN packet \in Packets /\ hop[packet] \in Hosts
       ELSE packet = Null
    /\ pc["main"] = "deliver" => sha \in Macs

\* The list of requests.  The packet thread may have a request that is not on
\* it, but only to deliver its packets and to destroy it; those the timer has
\* before it are on the list, for nobody but the timer destroys them meanwhile.
Listed ==
    /\ \A r \in heap : req[r] \in Request
    /\ \A i, j \in DOMAIN requests : requests[i] = requests[j] => i = j
    /\ \A r \in Reqs : OnList(r) => r \in heap
    /\ \A r, s \in Reqs : OnList(r) /\ OnList(s) /\ req[r].ip = req[s].ip => r = s
    /\ \A r \in heap : OnList(r) \/ (r = cur["main"] /\ pc["main"] \in {"deliver", "destroy"})
    /\ \A r \in Reqs : pc["main"] = "deliver" /\ cur["main"] = r => r \in heap /\ ~OnList(r)

Sweep ==
    /\ \A r \in Reqs : pc["timer"] \in Handling /\ cur["timer"] = r => OnList(r)
    /\ \A r \in Reqs, i \in DOMAIN todo : todo[i] = r => OnList(r) /\ cur["timer"] # r
    /\ \A i, j \in DOMAIN todo : todo[i] = todo[j] => i = j

\* A packet waits for its next hop, in one place.
Queued ==
    /\ \A r \in heap, p \in Packets :
          Waits(p, r) => hop[p] = req[r].ip /\ p # packet
    /\ \A r, s \in heap :
          \A i \in DOMAIN req[r].packets, j \in DOMAIN req[s].packets :
             req[r].packets[i] = req[s].packets[j] => r = s /\ i = j

Mapped ==
    /\ \A i \in Slots :
          entries[i].valid => <<entries[i].ip, entries[i].mac>> \in learned
    /\ pc["main"] = "deliver" => <<req[cur["main"]].ip, sha>> \in learned

\* What a thread has behind it on its walk is finished.
WalkDone(t) ==
    \A r \in heap : cur[t] = r =>
        /\ pc[t] = "answer" =>
              /\ walk[t] <= Len(req[r].packets)
              /\ \A p \in Packets, i \in 1 .. walk[t] : req[r].packets[i] = p => Finished(p)
        /\ pc[t] = "destroy" => \A p \in Packets : Waits(p, r) => Finished(p)

\* A packet that waits has been sent on only if the reply has come and its
\* request is about to be destroyed, and reported only if a thread is about it.
Fated ==
    /\ \A p \in Packets : hop[p] = Null \/ p = packet => ~Finished(p)
    /\ \A r \in heap, p \in Packets : Waits(p, r) =>
          /\ Did(p, "forwarded") =>
                pc["main"] = "destroy" /\ cur["main"] = r /\ ~OnList(r)
          /\ Did(p, "host_unreachable") =>
                \E t \in Threads : cur[t] = r /\ pc[t] \in {"answer", "destroy"}
    /\ \A t \in Threads : WalkDone(t)
    /\ \A p \in Packets : hop[p] # Null =>
          \/ packet = p
          \/ Finished(p)
          \/ \E r \in heap : /\ Waits(p, r)
                             /\ OnList(r) \/ (pc["main"] = "deliver" /\ cur["main"] = r)

Good == Control /\ Listed /\ Sweep /\ Queued /\ Mapped /\ Fated

\* Nothing is said of a program that has used what is not its own.
Inv ==
    /\ TypeOK
    /\ ForwardedAsLearned
    /\ OneFate
    /\ IF fault = "none" THEN Good ELSE \A t \in Threads : pc[t] = "crashed"

LEMMA Constants ==
    /\ Null \notin Packets /\ Null \notin Hosts /\ Null \notin Macs /\ Null \notin Reqs
    /\ CacheSize \in Nat \ {0} /\ Timeout \in Nat /\ MaxTries \in Nat \ {0}
    /\ Threads = {"main", "timer"} /\ Old = 2
BY RouterAssumption DEF Threads, Old

LEMMA InvInit == Init => Inv
<1> SUFFICES ASSUME Init PROVE Inv
  OBVIOUS
<1>1. TypeOK
  <2>1. entries \in [Slots -> Entry]
    BY Constants DEF Init, Entry
  <2>2. /\ requests \in Seq(Reqs) /\ todo \in Seq(Reqs)
        /\ fate \in [Packets -> Seq(Frames)]
    BY DEF Init
  <2>3. /\ pc \in [Threads -> Handling \cup
                       {"idle", "sleep", "lookup", "queue", "deliver", "crashed"}]
        /\ since \in [Threads -> 0 .. Old] /\ heap \subseteq Reqs
    BY Constants DEF Init
  <2> QED
    BY <2>1, <2>2, <2>3 DEF Init, TypeOK
<1>2. \A p \in Packets : fate[p] = <<>> /\ hop[p] = Null
  BY DEF Init
<1>3. ForwardedAsLearned /\ OneFate
  BY <1>2 DEF ForwardedAsLearned, OneFate, Did
<1>4. Control /\ Sweep
  BY Constants DEF Init, Control, Sweep, Handling
<1>5. Listed /\ Queued /\ Mapped
  BY Constants DEF Init, Listed, Queued, Mapped, OnList
<1>6. Fated
  BY <1>2, Constants DEF Init, Fated, WalkDone, Finished, Did, OnList
<1> QED
  BY <1>1, <1>3, <1>4, <1>5, <1>6 DEF Inv, Good, Init

LEMMA InvMeaning ==
    Inv => TypeOK /\ RequestsAreSound /\ NoneForgotten /\ ForwardedAsLearned /\ OneFate
<1> SUFFICES ASSUME Inv
             PROVE  TypeOK /\ RequestsAreSound /\ NoneForgotten /\ ForwardedAsLearned /\ OneFate
  OBVIOUS
<1>1. \A x : x \in ToSet(requests) <=> OnList(x)
  BY DEF ToSet, OnList
<1>2. \A r, p : p \in ToSet(req[r].packets) <=> Waits(p, r)
  BY DEF ToSet, Waits
<1>3. \A i \in DOMAIN requests : requests[i] \in Reqs /\ OnList(requests[i])
  BY DEF Inv, TypeOK, OnList
<1>4. RequestsAreSound
  <2> SUFFICES ASSUME fault = "none"
               PROVE  /\ ToSet(requests) \subseteq heap
                      /\ \A i, j \in DOMAIN requests :
                            req[requests[i]].ip = req[requests[j]].ip => i = j
                      /\ heap \subseteq ToSet(requests) \cup {cur["main"]}
    BY DEF RequestsAreSound
  <2>1. Listed
    BY DEF Inv, Good
  <2>2. ToSet(requests) \subseteq heap
    BY <1>1, <1>3, <2>1 DEF Listed, OnList
  <2>3. \A i, j \in DOMAIN requests :
           req[requests[i]].ip = req[requests[j]].ip => i = j
    BY <1>3, <2>1 DEF Listed
  <2>4. heap \subseteq ToSet(requests) \cup {cur["main"]}
    BY <1>1, <2>1 DEF Listed
  <2> QED
    BY <2>2, <2>3, <2>4
<1>5. NoneForgotten
  BY <1>1, <1>2 DEF Inv, Good, Fated, NoneForgotten
<1> QED
  BY <1>4, <1>5 DEF Inv

-----------------------------------------------------------------------------
(* Fates                                                                     *)

\* A frame at the end of a packet's fate.
LEMMA AppendDid ==
    ASSUME NEW p \in Packets, NEW f \in Frames, fate[p] \in Seq(Frames),
           fate'[p] = Append(fate[p], f)
    PROVE  /\ fate'[p] \in Seq(Frames)
           /\ \A what : Did(p, what)' <=> Did(p, what) \/ f.what = what
           /\ \A i \in DOMAIN fate'[p] :
                 \/ i \in DOMAIN fate[p] /\ fate'[p][i] = fate[p][i]
                 \/ i \notin DOMAIN fate[p] /\ i = Len(fate[p]) + 1 /\ fate'[p][i] = f
<1>1. /\ fate'[p] \in Seq(Frames) /\ Len(fate[p]) \in Nat
      /\ DOMAIN fate[p] = 1 .. Len(fate[p]) /\ DOMAIN fate'[p] = 1 .. Len(fate[p]) + 1
      /\ \A i \in 1 .. Len(fate[p]) : fate'[p][i] = fate[p][i]
      /\ fate'[p][Len(fate[p]) + 1] = f
  <2> DEFINE q == fate[p]
  <2>1. /\ q \in Seq(Frames) /\ fate'[p] = Append(q, f)
    OBVIOUS
  <2> HIDE DEF q
  <2>2. /\ Append(q, f) \in Seq(Frames) /\ Len(q) \in Nat
        /\ DOMAIN q = 1 .. Len(q) /\ DOMAIN Append(q, f) = 1 .. Len(q) + 1
        /\ \A i \in 1 .. Len(q) : Append(q, f)[i] = q[i]
        /\ Append(q, f)[Len(q) + 1] = f
    BY <2>1
  <2> QED
    BY <2>1, <2>2 DEF q
<1>2. \A i \in DOMAIN fate'[p] : i \in DOMAIN fate[p] \/ i = Len(fate[p]) + 1
  BY <1>1
<1>3. \A i \in DOMAIN fate[p] : i \in DOMAIN fate'[p] /\ fate'[p][i] = fate[p][i]
  BY <1>1
<1>4. Len(fate[p]) + 1 \in DOMAIN fate'[p] /\ Len(fate[p]) + 1 \notin DOMAIN fate[p]
  BY <1>1
<1> QED
  BY <1>1, <1>2, <1>3, <1>4 DEF Did

\* What a step may do to the fate of a packet: nothing; only answer it; forward
\* it for the first time, to where its next hop is; or report it unreachable.
Fate(q) ==
    \/ fate'[q] = fate[q] /\ hop'[q] = hop[q]
    \/ \A i \in DOMAIN fate'[q] : fate'[q][i].what = "answer"
    \/ \E f \in Frames :
          /\ fate'[q] = Append(fate[q], f) /\ hop'[q] = hop[q]
          /\ f.what = "forwarded" /\ ~Finished(q) /\ <<hop[q], f.to>> \in learned
    \/ \E f \in Frames :
          /\ fate'[q] = Append(fate[q], f) /\ hop'[q] = hop[q]
          /\ f.what = "host_unreachable" /\ ~Did(q, "forwarded")

LEMMA FateKept ==
    ASSUME fate \in [Packets -> Seq(Frames)], ForwardedAsLearned, OneFate,
           learned \subseteq learned', \A q \in Packets : Fate(q)
    PROVE  ForwardedAsLearned' /\ OneFate'
<1> SUFFICES ASSUME NEW q \in Packets
             PROVE  /\ \A i \in DOMAIN fate'[q] : fate'[q][i].what = "forwarded" =>
                          <<hop'[q], fate'[q][i].to>> \in learned'
                    /\ ~(Did(q, "forwarded")' /\ Did(q, "host_unreachable")')
                    /\ \A i, j \in DOMAIN fate'[q] :
                          fate'[q][i].what = "forwarded" /\ fate'[q][j].what = "forwarded"
                             => i = j
  BY DEF ForwardedAsLearned, OneFate
<1>1. /\ \A i \in DOMAIN fate[q] : fate[q][i].what = "forwarded" =>
            <<hop[q], fate[q][i].to>> \in learned
      /\ ~(Did(q, "forwarded") /\ Did(q, "host_unreachable"))
      /\ \A i, j \in DOMAIN fate[q] :
            fate[q][i].what = "forwarded" /\ fate[q][j].what = "forwarded" => i = j
  BY DEF ForwardedAsLearned, OneFate
<1>2. CASE fate'[q] = fate[q] /\ hop'[q] = hop[q]
  BY <1>1, <1>2 DEF Did
<1>3. CASE \A i \in DOMAIN fate'[q] : fate'[q][i].what = "answer"
  BY <1>3 DEF Did
<1>4. CASE \E f \in Frames :
              /\ fate'[q] = Append(fate[q], f) /\ hop'[q] = hop[q]
              /\ f.what = "forwarded" /\ ~Finished(q) /\ <<hop[q], f.to>> \in learned
  <2>1. PICK f \in Frames :
              /\ fate'[q] = Append(fate[q], f) /\ hop'[q] = hop[q]
              /\ f.what = "forwarded" /\ ~Finished(q) /\ <<hop[q], f.to>> \in learned
    BY <1>4
  <2>2. /\ \A what : Did(q, what)' <=> Did(q, what) \/ f.what = what
        /\ \A i \in DOMAIN fate'[q] :
              \/ i \in DOMAIN fate[q] /\ fate'[q][i] = fate[q][i]
              \/ i \notin DOMAIN fate[q] /\ i = Len(fate[q]) + 1 /\ fate'[q][i] = f
    BY <2>1, AppendDid
  <2>3. \A i \in DOMAIN fate[q] : fate[q][i].what # "forwarded"
    BY <2>1 DEF Finished, Did
  <2>4. ~Did(q, "host_unreachable")
    BY <2>1 DEF Finished
  <2> QED
    BY <2>1, <2>2, <2>3, <2>4
<1>5. CASE \E f \in Frames :
              /\ fate'[q] = Append(fate[q], f) /\ hop'[q] = hop[q]
              /\ f.what = "host_unreachable" /\ ~Did(q, "forwarded")
  <2>1. PICK f \in Frames :
              /\ fate'[q] = Append(fate[q], f) /\ hop'[q] = hop[q]
              /\ f.what = "host_unreachable" /\ ~Did(q, "forwarded")
    BY <1>5
  <2>2. /\ \A what : Did(q, what)' <=> Did(q, what) \/ f.what = what
        /\ \A i \in DOMAIN fate'[q] :
              \/ i \in DOMAIN fate[q] /\ fate'[q][i] = fate[q][i]
              \/ i \notin DOMAIN fate[q] /\ i = Len(fate[q]) + 1 /\ fate'[q][i] = f
    BY <2>1, AppendDid
  <2> QED
    BY <1>1, <2>1, <2>2 DEF Did
<1> QED
  BY <1>2, <1>3, <1>4, <1>5 DEF Fate

\* Nothing is asked of a program that has crashed.
LEMMA CrashKept ==
    ASSUME Inv, TypeOK', fault' # "none", \A t \in Threads : pc'[t] = "crashed",
           UNCHANGED <<fate, hop>>, learned \subseteq learned'
    PROVE  Inv'
<1>1. ForwardedAsLearned' /\ OneFate'
  BY FateKept DEF Inv, TypeOK, Fate
<1> QED
  BY <1>1 DEF Inv

-----------------------------------------------------------------------------
(* Steps that move a thread and leave the list and the packets alone         *)

\* Where a thread goes: it comes upon packets only at the beginning of its walk,
\* and to the end when it has dealt with all of them.
Going(t) ==
    /\ pc[t] \in {"answer", "destroy"} => pc'[t] \in {"answer", "destroy"} /\ cur'[t] = cur[t]
    /\ pc'[t] = "answer" => \/ walk'[t] = 0
                            \/ pc[t] = "answer" /\ cur'[t] = cur[t] /\ walk'[t] = walk[t]
    /\ pc'[t] = "destroy" =>
          /\ cur'[t] = cur[t]
          /\ pc[t] = "destroy" \/ (pc[t] = "answer" /\ AllAnswered(t))

LEMMA MovesKept ==
    ASSUME Inv, fault = "none", TypeOK', Control', Sweep', \A t \in Threads : Going(t),
           UNCHANGED <<requests, heap, packet, sha, fault, hop, fate>>,
           learned \subseteq learned',
           \A r \in heap : /\ req'[r] \in Request
                           /\ req'[r].ip = req[r].ip /\ req'[r].packets = req[r].packets,
           \A i \in Slots : entries'[i].valid =>
              \/ entries[i].valid /\ entries'[i].ip = entries[i].ip
                                  /\ entries'[i].mac = entries[i].mac
              \/ <<entries'[i].ip, entries'[i].mac>> \in learned',
           pc["main"] = "deliver" <=> pc'["main"] = "deliver",
           pc["main"] \in {"deliver", "destroy"} =>
              pc'["main"] = pc["main"] /\ cur'["main"] = cur["main"]
    PROVE  Inv'
<1>0. Control /\ Listed /\ Sweep /\ Queued /\ Mapped /\ Fated
  BY DEF Inv, Good
<1>1. ForwardedAsLearned' /\ OneFate'
  BY FateKept DEF Inv, TypeOK, Fate
<1>2. \A r : OnList(r)' <=> OnList(r)
  BY DEF OnList
<1>3. \A p, r : r \in heap => (Waits(p, r)' <=> Waits(p, r))
  BY DEF Waits
<1>4. \A p, what : Did(p, what)' <=> Did(p, what)
  BY DEF Did
<1>5. \A p : Finished(p)' <=> Finished(p)
  BY <1>4 DEF Finished
<1>6. Listed'
  <2>1. \A r \in Reqs : OnList(r) => r \in heap
    BY <1>0 DEF Listed
  <2> QED
    BY <1>0, <1>2, <2>1 DEF Listed
<1>7. Queued'
  BY <1>0, <1>3 DEF Queued
<1>8. Mapped'
  <2>1. pc["main"] = "deliver" => cur["main"] \in heap
    BY <1>0 DEF Listed, Control, Threads
  <2> QED
    BY <1>0, <2>1 DEF Mapped
<1>9. Fated'
  <2>1. \A p \in Packets : hop'[p] = Null \/ p = packet' => ~Finished(p)'
    BY <1>0, <1>5 DEF Fated
  <2>2. ASSUME NEW r \in heap', NEW p \in Packets, Waits(p, r)'
        PROVE  /\ Did(p, "forwarded")' =>
                     pc'["main"] = "destroy" /\ cur'["main"] = r /\ ~OnList(r)'
               /\ Did(p, "host_unreachable")' =>
                     \E t \in Threads : cur'[t] = r /\ pc'[t] \in {"answer", "destroy"}
    <3>1. r \in heap /\ Waits(p, r)
      BY <1>3, <2>2
    <3>2. Did(p, "forwarded") => pc["main"] = "destroy" /\ cur["main"] = r /\ ~OnList(r)
      BY <1>0, <3>1 DEF Fated
    <3>3. Did(p, "host_unreachable") =>
             \E t \in Threads : cur[t] = r /\ pc[t] \in {"answer", "destroy"}
      BY <1>0, <3>1 DEF Fated
    <3> QED
      BY <1>2, <1>4, <3>2, <3>3 DEF Going
  <2>3. ASSUME NEW t \in Threads PROVE WalkDone(t)'
    <3> SUFFICES ASSUME NEW r \in heap, cur'[t] = r
                 PROVE  /\ pc'[t] = "answer" =>
                              /\ walk'[t] <= Len(req'[r].packets)
                              /\ \A p \in Packets, i \in 1 .. walk'[t] :
                                    req'[r].packets[i] = p => Finished(p)'
                        /\ pc'[t] = "destroy" =>
                              \A p \in Packets : Waits(p, r)' => Finished(p)'
      BY DEF WalkDone
    <3>1. /\ req'[r].packets = req[r].packets
          /\ Len(req[r].packets) \in Nat
          /\ DOMAIN req[r].packets = 1 .. Len(req[r].packets)
      BY <1>0 DEF Listed, Request
    <3>2. /\ WalkDone(t) /\ Going(t)
      BY <1>0 DEF Fated
    <3>3. CASE pc'[t] = "answer" /\ walk'[t] = 0
      BY <3>1, <3>3
    <3>4. CASE pc'[t] = "answer" /\ pc[t] = "answer" /\ cur'[t] = cur[t] /\ walk'[t] = walk[t]
      BY <1>5, <3>1, <3>2, <3>4 DEF WalkDone
    <3>5. CASE pc'[t] = "destroy" /\ pc[t] = "destroy"
      BY <1>3, <1>5, <3>2, <3>5 DEF WalkDone, Going
    <3>6. CASE pc'[t] = "destroy" /\ pc[t] = "answer" /\ AllAnswered(t)
      <4>1. cur[t] = r /\ walk[t] = Len(req[r].packets)
        BY <3>2, <3>6 DEF Going, AllAnswered
      <4>2. \A p \in Packets, i \in DOMAIN req[r].packets : req[r].packets[i] = p => Finished(p)
        BY <3>1, <3>2, <3>6, <4>1 DEF WalkDone
      <4>3. \A p \in Packets : Waits(p, r) => Finished(p)
        BY <4>2 DEF Waits
      <4> QED
        BY <1>3, <1>5, <3>6, <4>3
    <3> QED
      BY <3>2, <3>3, <3>4, <3>5, <3>6 DEF Going
  <2>4. \A p \in Packets : hop'[p] # Null =>
           \/ packet' = p
           \/ Finished(p)'
           \/ \E r \in heap' : /\ Waits(p, r)'
                               /\ OnList(r)' \/ (pc'["main"] = "deliver" /\ cur'["main"] = r)
    BY <1>0, <1>2, <1>3, <1>5 DEF Fated
  <2> QED
    BY <2>1, <2>2, <2>3, <2>4 DEF Fated
<1> QED
  BY <1>1, <1>6, <1>7, <1>8, <1>9 DEF Inv, Good

\* What Done() does.
LEMMA DoneFacts ==
    ASSUME TypeOK, Control, Sweep, NEW t \in Threads, pc[t] \in Handling, Done(t)
    PROVE  /\ pc' \in [Threads -> Handling \cup
                          {"idle", "sleep", "lookup", "queue", "deliver", "crashed"}]
           /\ cur' \in [Threads -> Reqs \cup {Null}] /\ walk' \in [Threads -> Nat]
           /\ tries' \in [Threads -> Nat] /\ since' \in [Threads -> 0 .. Old]
           /\ todo' \in Seq(Reqs)
           /\ \A u \in Threads : u # t =>
                 pc'[u] = pc[u] /\ cur'[u] = cur[u] /\ walk'[u] = walk[u]
           /\ walk'[t] = 0
           /\ t = "main" => pc'[t] = "idle" /\ cur'[t] = Null /\ todo' = todo
           /\ t = "timer" =>
                 \/ /\ pc'[t] = "handle" /\ cur'[t] \in Reqs
                    /\ \A r \in Reqs : cur'[t] = r => OnList(r) /\ cur[t] # r
                    /\ \A r \in Reqs, i \in DOMAIN todo' : todo'[i] = r =>
                          OnList(r) /\ cur'[t] # r /\ cur[t] # r
                 \/ pc'[t] = "sleep" /\ cur'[t] = Null /\ todo' = <<>>
           /\ \A i, j \in DOMAIN todo' : todo'[i] = todo'[j] => i = j
<1>1. /\ walk' \in [Threads -> Nat] /\ tries' \in [Threads -> Nat]
      /\ since' \in [Threads -> 0 .. Old] /\ walk'[t] = 0
      /\ \A u \in Threads : u # t => walk'[u] = walk[u]
  BY Constants DEF TypeOK, Done
<1>2. CASE t = "timer" /\ todo # <<>>
  <2>1. /\ Len(todo) \in Nat \ {0} /\ DOMAIN todo = 1 .. Len(todo)
        /\ Head(todo) = todo[1] /\ Head(todo) \in Reqs /\ Tail(todo) \in Seq(Reqs)
        /\ DOMAIN Tail(todo) = 1 .. Len(todo) - 1
        /\ \A i \in 1 .. Len(todo) - 1 : Tail(todo)[i] = todo[i + 1]
    BY <1>2, TailFacts DEF TypeOK
  <2>2. /\ pc' = [pc EXCEPT !["timer"] = "handle"]
        /\ cur' = [cur EXCEPT !["timer"] = Head(todo)]
        /\ todo' = Tail(todo)
    BY <1>2 DEF Done
  <2>3. /\ pc' \in [Threads -> Handling \cup
                       {"idle", "sleep", "lookup", "queue", "deliver", "crashed"}]
        /\ cur' \in [Threads -> Reqs \cup {Null}]
        /\ pc'[t] = "handle" /\ cur'[t] = todo[1]
        /\ \A u \in Threads : u # t => pc'[u] = pc[u] /\ cur'[u] = cur[u]
    BY <1>2, <2>1, <2>2 DEF TypeOK, Handling
  <2>4. \A i \in DOMAIN todo' : i + 1 \in DOMAIN todo /\ i + 1 # 1 /\ todo'[i] = todo[i + 1]
    BY <2>1, <2>2
  <2>5. 1 \in DOMAIN todo /\ todo[1] \in Reqs
    BY <2>1
  <2>6. \A r \in Reqs : cur'[t] = r => OnList(r) /\ cur[t] # r
    BY <1>2, <2>3, <2>5 DEF Sweep
  <2>7. \A i \in DOMAIN todo' : todo'[i] # todo[1]
    BY <2>4, <2>5 DEF Sweep
  <2>8. \A r \in Reqs, i \in DOMAIN todo' : todo'[i] = r => OnList(r) /\ cur'[t] # r /\ cur[t] # r
    BY <1>2, <2>3, <2>4, <2>7 DEF Sweep
  <2>9. \A i, j \in DOMAIN todo' : todo'[i] = todo'[j] => i = j
    <3>1. \A i \in DOMAIN todo' : i \in Int
      BY <2>1, <2>2
    <3>2. \A i, j \in DOMAIN todo' : todo'[i] = todo'[j] => i + 1 = j + 1
      BY <2>4 DEF Sweep
    <3> QED
      BY <3>1, <3>2
  <2> QED
    BY <1>1, <1>2, <2>1, <2>2, <2>3, <2>5, <2>6, <2>8, <2>9
<1>3. CASE ~(t = "timer" /\ todo # <<>>)
  <2>1. /\ pc' = [pc EXCEPT ![t] = IF t = "main" THEN "idle" ELSE "sleep"]
        /\ cur' = [cur EXCEPT ![t] = Null]
        /\ todo' = todo
    BY <1>3 DEF Done
  <2> QED
    BY <1>1, <1>3, <2>1 DEF TypeOK, Sweep, Threads
<1> QED
  BY <1>2, <1>3

\* A thread that is done leaves the list and its packets alone.
LEMMA DoneKept ==
    ASSUME Inv, fault = "none", NEW t \in Threads, pc[t] \in Handling, Done(t),
           pc[t] \notin {"answer", "destroy"},
           UNCHANGED <<requests, packet, sha, hop>>
    PROVE  /\ Control' /\ Sweep' /\ \A u \in Threads : Going(u)
           /\ pc["main"] = "deliver" <=> pc'["main"] = "deliver"
           /\ pc["main"] \in {"deliver", "destroy"} =>
                 pc'["main"] = pc["main"] /\ cur'["main"] = cur["main"]
<1>0. TypeOK /\ Control /\ Sweep
  BY DEF Inv, Good
<1>1. /\ \A u \in Threads : u # t =>
           pc'[u] = pc[u] /\ cur'[u] = cur[u] /\ walk'[u] = walk[u]
      /\ walk'[t] = 0
      /\ t = "main" => pc'[t] = "idle" /\ cur'[t] = Null /\ todo' = todo
      /\ t = "timer" =>
           \/ /\ pc'[t] = "handle" /\ cur'[t] \in Reqs
              /\ \A r \in Reqs : cur'[t] = r => OnList(r) /\ cur[t] # r
              /\ \A r \in Reqs, i \in DOMAIN todo' : todo'[i] = r =>
                    OnList(r) /\ cur'[t] # r /\ cur[t] # r
           \/ pc'[t] = "sleep" /\ cur'[t] = Null /\ todo' = <<>>
      /\ \A i, j \in DOMAIN todo' : todo'[i] = todo'[j] => i = j
  BY <1>0, DoneFacts
<1>2. \A r : OnList(r)' <=> OnList(r)
  BY DEF OnList
<1>3. Control'
  <2>1. CASE t = "main"
    BY <1>0, <1>1, <2>1 DEF Control, Threads, Handling
  <2>2. CASE t = "timer"
    BY <1>0, <1>1, <2>2 DEF Control, Threads, Handling
  <2> QED
    BY <2>1, <2>2 DEF Threads
<1>4. Sweep'
  <2>1. CASE t = "main"
    BY <1>0, <1>1, <1>2, <2>1 DEF Sweep, Threads
  <2>2. CASE t = "timer"
    BY <1>0, <1>1, <1>2, <2>2, Constants DEF Sweep, Threads, Handling
  <2> QED
    BY <2>1, <2>2 DEF Threads
<1>5. \A u \in Threads : Going(u)
  BY <1>0, <1>1 DEF Going, Control, Threads
<1> QED
  BY <1>0, <1>1, <1>3, <1>4, <1>5 DEF Threads, Control, Handling

\* A thread goes from one place in handle_arpreq() to another.
LEMMA StepKept ==
    ASSUME Inv, fault = "none", NEW t \in Threads, NEW to \in Handling,
           pc[t] \in Handling \ {"destroy"}, to # "handle",
           pc[t] = "answer" <=> to = "destroy",
           to = "destroy" => AllAnswered(t),
           pc' = [pc EXCEPT ![t] = to],
           UNCHANGED <<requests, cur, walk, todo, packet, sha, hop>>
    PROVE  /\ Control' /\ Sweep' /\ \A u \in Threads : Going(u)
           /\ pc["main"] = "deliver" <=> pc'["main"] = "deliver"
           /\ pc["main"] \in {"deliver", "destroy"} =>
                 pc'["main"] = pc["main"] /\ cur'["main"] = cur["main"]
<1>0. TypeOK /\ Control /\ Sweep
  BY DEF Inv, Good
<1>1. /\ \A u \in Threads : u # t => pc'[u] = pc[u]
      /\ pc'[t] = to
  BY <1>0 DEF TypeOK
<1>2. \A r : OnList(r)' <=> OnList(r)
  BY DEF OnList
<1>3. Control'
  BY <1>0, <1>1 DEF Control, Threads, Handling
<1>4. Sweep'
  BY <1>0, <1>1, <1>2 DEF Sweep, Threads
<1>5. \A u \in Threads : Going(u)
  BY <1>0, <1>1 DEF Going, Control, Threads, Handling
<1> QED
  BY <1>0, <1>1, <1>3, <1>4, <1>5 DEF Threads, Control, Handling

LEMMA InvHandle ==
    ASSUME Inv, fault = "none", NEW t \in Threads, Handle(t)
    PROVE  Inv'
<1>0. TypeOK /\ Control /\ Sweep /\ Listed
  BY DEF Inv, Good
<1>1. /\ pc[t] = "handle" /\ pc[t] \in Handling
      /\ UNCHANGED <<entries, requests, heap, req, slept, packet, sha, fault, hop, fate,
                     learned, asked>>
  BY DEF Handle, Handling, cacheVars, heapVars, netVars
<1>2. CASE Done(t)
  <2>1. TypeOK'
    BY <1>0, <1>1, <1>2, DoneFacts DEF TypeOK
  <2> QED
    BY <1>0, <1>1, <1>2, <2>1, DoneKept, MovesKept DEF Listed
<1>3. CASE pc' = [pc EXCEPT ![t] = "count"] /\ UNCHANGED <<cur, walk, tries, since, todo>>
  <2>1. TypeOK'
    BY <1>0, <1>1, <1>3 DEF TypeOK, Handling
  <2>2. "count" \in Handling
    BY DEF Handling
  <2> QED
    BY <1>0, <1>1, <1>3, <2>1, <2>2, StepKept, MovesKept DEF Listed
<1> QED
  BY <1>2, <1>3 DEF Handle

LEMMA InvCountTries ==
    ASSUME Inv, fault = "none", NEW t \in Threads, CountTries(t)
    PROVE  Inv'
<1> DEFINE to == IF GivesUp(cur[t]) THEN "answer" ELSE "send"
<1>0. TypeOK /\ Listed
  BY DEF Inv, Good
<1>1. /\ pc[t] = "count" /\ pc' = [pc EXCEPT ![t] = to]
      /\ UNCHANGED <<entries, requests, heap, req, cur, walk, tries, since, todo, slept,
                     packet, sha, fault, hop, fate, learned, asked>>
  BY DEF CountTries, cacheVars, heapVars, netVars
<1>2. to \in Handling /\ to \notin {"handle", "destroy"} /\ pc[t] \in Handling \ {"destroy"}
  BY <1>1 DEF Handling
<1> HIDE DEF to
<1>3. TypeOK'
  BY <1>0, <1>1, <1>2 DEF TypeOK
<1>4. /\ pc[t] = "answer" <=> to = "destroy"
      /\ to = "destroy" => AllAnswered(t)
  BY <1>1, <1>2
<1> QED
  BY <1>0, <1>1, <1>2, <1>3, <1>4, StepKept, MovesKept DEF Listed

LEMMA InvSendRequest ==
    ASSUME Inv, fault = "none", NEW t \in Threads, SendRequest(t)
    PROVE  Inv'
<1>0. TypeOK /\ Listed
  BY DEF Inv, Good
<1>1. /\ pc[t] = "send" /\ pc' = [pc EXCEPT ![t] = "stamp"] /\ cur[t] \in heap
      /\ asked' = [asked EXCEPT ![cur[t]] = @ + 1]
      /\ UNCHANGED <<entries, requests, heap, req, cur, walk, tries, since, todo, slept,
                     packet, sha, fault, hop, fate, learned>>
  BY DEF SendRequest, Alive, cacheVars, heapVars, netVars
<1>2. "stamp" \in Handling /\ pc[t] \in Handling \ {"destroy"}
  BY <1>1 DEF Handling
<1>3. TypeOK'
  BY <1>0, <1>1, <1>2 DEF TypeOK
<1> QED
  BY <1>0, <1>1, <1>2, <1>3, StepKept, MovesKept DEF Listed

LEMMA InvStamp ==
    ASSUME Inv, fault = "none", NEW t \in Threads, Stamp(t)
    PROVE  Inv'
<1>0. TypeOK /\ Listed
  BY DEF Inv, Good
<1>1. /\ pc[t] = "stamp" /\ pc' = [pc EXCEPT ![t] = "store"] /\ cur[t] \in heap
      /\ req' = [req EXCEPT ![cur[t]].age = since[t]]
      /\ tries' = [tries EXCEPT ![t] = req[cur[t]].times]
      /\ UNCHANGED <<entries, requests, heap, cur, walk, since, todo, slept,
                     packet, sha, fault, hop, fate, learned, asked>>
  BY DEF Stamp, Alive, cacheVars, netVars
<1>2. "store" \in Handling /\ pc[t] \in Handling \ {"destroy"}
  BY <1>1 DEF Handling
<1>3. \A r \in heap : /\ req[r] \in Request /\ req'[r] \in Request
                      /\ req'[r].ip = req[r].ip /\ req'[r].packets = req[r].packets
  BY <1>0, <1>1 DEF TypeOK, Listed, Request
<1>4. TypeOK'
  <2>1. req' \in [Reqs -> Request \cup {Null}]
    BY <1>0, <1>1, <1>3 DEF TypeOK
  <2>2. tries' \in [Threads -> Nat]
    BY <1>0, <1>1, <1>3 DEF TypeOK, Request
  <2> QED
    BY <1>0, <1>1, <1>2, <2>1, <2>2 DEF TypeOK
<1> QED
  BY <1>0, <1>1, <1>2, <1>3, <1>4, StepKept, MovesKept

LEMMA InvStore ==
    ASSUME Inv, fault = "none", NEW t \in Threads, Store(t)
    PROVE  Inv'
<1>0. TypeOK /\ Control /\ Sweep /\ Listed
  BY DEF Inv, Good
<1>1. /\ pc[t] = "store" /\ pc[t] \in Handling /\ cur[t] \in heap /\ Done(t)
      /\ req' = [req EXCEPT ![cur[t]].times = tries[t] + 1]
      /\ UNCHANGED <<entries, requests, heap, slept, packet, sha, fault, hop, fate,
                     learned, asked>>
  BY DEF Store, Alive, Handling, cacheVars, netVars
<1>2. \A r \in heap : /\ req[r] \in Request /\ req'[r] \in Request
                      /\ req'[r].ip = req[r].ip /\ req'[r].packets = req[r].packets
  <2> SUFFICES ASSUME NEW r \in heap
               PROVE  /\ req[r] \in Request /\ req'[r] \in Request
                      /\ req'[r].ip = req[r].ip /\ req'[r].packets = req[r].packets
    OBVIOUS
  <2>1. req[r] \in Request /\ r \in Reqs /\ tries[t] + 1 \in Nat
    BY <1>0 DEF TypeOK, Listed
  <2>2. req'[r] = req[r] \/ req'[r] = [req[r] EXCEPT !.times = tries[t] + 1]
    BY <1>0, <1>1, <2>1 DEF TypeOK
  <2> QED
    BY <2>1, <2>2 DEF Request
<1>3. TypeOK'
  <2>1. req' \in [Reqs -> Request \cup {Null}]
    BY <1>0, <1>1, <1>2 DEF TypeOK
  <2> QED
    BY <1>0, <1>1, <2>1, DoneFacts DEF TypeOK
<1> QED
  BY <1>0, <1>1, <1>2, <1>3, DoneKept, MovesKept

\* A thread that has answered all packets goes on to destroy the request.
LEMMA InvAllAnswered ==
    ASSUME Inv, fault = "none", NEW t \in Threads, AnswerWaiting(t), AllAnswered(t)
    PROVE  Inv'
<1>0. TypeOK /\ Listed
  BY DEF Inv, Good
<1>1. /\ pc[t] = "answer" /\ pc' = [pc EXCEPT ![t] = "destroy"]
      /\ UNCHANGED <<entries, requests, heap, req, cur, walk, tries, since, todo, slept,
                     packet, sha, fault, hop, fate, learned, asked>>
  BY DEF AnswerWaiting, cacheVars, heapVars
<1>2. "destroy" \in Handling /\ pc[t] \in Handling \ {"destroy"}
  BY <1>1 DEF Handling
<1>3. TypeOK'
  BY <1>0, <1>1, <1>2 DEF TypeOK
<1> QED
  BY <1>0, <1>1, <1>2, <1>3, StepKept, MovesKept DEF Listed

LEMMA InvUseFreed ==
    ASSUME Inv, fault = "none", NEW t \in Threads, UseFreed(t)
    PROVE  Inv'
<1>1. /\ fault' = "freed" /\ \A u \in Threads : pc'[u] = "crashed"
      /\ pc' = [u \in Threads |-> "crashed"]
      /\ UNCHANGED <<entries, requests, heap, req, cur, walk, tries, since, todo, slept,
                     packet, sha, hop, fate, learned, asked>>
  BY DEF UseFreed, Crash, cacheVars, heapVars, netVars
<1>2. TypeOK'
  BY <1>1 DEF Inv, TypeOK
<1> QED
  BY <1>1, <1>2, CrashKept

LEMMA InvFailsChecksum ==
    ASSUME Inv, fault = "none", NEW p \in Packets, FailsChecksum(p)
    PROVE  Inv'
<1>1. /\ fault' = "assert" /\ \A u \in Threads : pc'[u] = "crashed"
      /\ pc' = [u \in Threads |-> "crashed"]
      /\ UNCHANGED <<entries, requests, heap, req, cur, walk, tries, since, todo, slept,
                     packet, sha, hop, fate, learned, asked>>
  BY DEF FailsChecksum, Crash, cacheVars, heapVars, netVars
<1>2. TypeOK'
  BY <1>1 DEF Inv, TypeOK
<1> QED
  BY <1>1, <1>2, CrashKept

\* A miss leads from "lookup" to "queue".
LEMMA InvLookupMiss ==
    ASSUME Inv, fault = "none", LookupMiss
    PROVE  Inv'
<1>0. TypeOK /\ Control /\ Sweep /\ Listed
  BY DEF Inv, Good
<1>1. /\ pc["main"] = "lookup" /\ pc' = [pc EXCEPT !["main"] = "queue"]
      /\ UNCHANGED <<entries, requests, heap, req, cur, walk, tries, since, todo, slept,
                     packet, sha, fault, hop, fate, learned, asked>>
  BY DEF LookupMiss, cacheVars, heapVars, netVars
<1>2. pc'["main"] = "queue" /\ pc'["timer"] = pc["timer"]
  BY <1>0, <1>1, Constants DEF TypeOK
<1>3. TypeOK'
  BY <1>0, <1>1 DEF TypeOK
<1>4. Control'
  BY <1>0, <1>1, <1>2 DEF Control, Threads, Handling
<1>5. Sweep'
  BY <1>0, <1>1, <1>2 DEF Sweep, OnList
<1>6. \A u \in Threads : Going(u)
  BY <1>0, <1>1, <1>2 DEF Going, Threads, Control, Handling
<1> QED
  BY <1>0, <1>1, <1>2, <1>3, <1>4, <1>5, <1>6, MovesKept DEF Listed

\* The sweep begins with the requests on the list.
LEMMA InvWake ==
    ASSUME Inv, fault = "none", Wake
    PROVE  Inv'
<1>0. TypeOK /\ Control /\ Sweep /\ Listed
  BY DEF Inv, Good
<1>1. /\ pc["timer"] = "sleep" /\ slept' = FALSE
      /\ entries' = [i \in Slots |->
                        IF entries[i].valid /\ entries[i].age > Timeout
                        THEN [entries[i] EXCEPT !.valid = FALSE, !.age = 0]
                        ELSE entries[i]]
      /\ UNCHANGED <<requests, heap, req, walk, tries, since, packet, sha, fault, hop,
                     fate, learned, asked>>
  BY DEF Wake, heapVars, netVars
<1>2. /\ entries' \in [Slots -> Entry]
      /\ \A i \in Slots : entries'[i].valid =>
            entries[i].valid /\ entries'[i].ip = entries[i].ip
                             /\ entries'[i].mac = entries[i].mac
  <2>1. \A i \in Slots : entries[i] \in Entry
    BY <1>0 DEF TypeOK
  <2>2. \A i \in Slots :
           IF entries[i].valid /\ entries[i].age > Timeout
           THEN entries'[i] = [entries[i] EXCEPT !.valid = FALSE, !.age = 0]
           ELSE entries'[i] = entries[i]
    BY <1>1
  <2>3. ASSUME NEW i \in Slots
        PROVE  /\ [entries[i] EXCEPT !.valid = FALSE, !.age = 0] \in Entry
               /\ [entries[i] EXCEPT !.valid = FALSE, !.age = 0].valid = FALSE
    <3>1. 0 \in 0 .. Timeout + 1
      BY Constants
    <3> QED
      BY <2>1, <3>1 DEF Entry
  <2> QED
    BY <1>1, <2>1, <2>2, <2>3
<1>3. CASE requests = <<>>
  <2>1. UNCHANGED <<pc, cur, todo>>
    BY <1>3 DEF Wake
  <2>2. TypeOK'
    BY <1>0, <1>1, <1>2, <2>1 DEF TypeOK
  <2>3. Control' /\ Sweep'
    BY <1>0, <1>1, <2>1 DEF Control, Sweep, OnList
  <2>4. \A u \in Threads : Going(u)
    BY <1>0, <1>1, <2>1 DEF Going, Control
  <2> QED
    BY <1>0, <1>1, <1>2, <2>1, <2>2, <2>3, <2>4, MovesKept DEF Listed
<1>4. CASE requests # <<>>
  <2>1. /\ pc' = [pc EXCEPT !["timer"] = "handle"]
        /\ cur' = [cur EXCEPT !["timer"] = Head(requests)]
        /\ todo' = Tail(requests)
    BY <1>4 DEF Wake
  <2>2. /\ Len(requests) \in Nat \ {0} /\ DOMAIN requests = 1 .. Len(requests)
        /\ Head(requests) = requests[1] /\ Head(requests) \in Reqs
        /\ Tail(requests) \in Seq(Reqs)
        /\ DOMAIN Tail(requests) = 1 .. Len(requests) - 1
        /\ \A i \in 1 .. Len(requests) - 1 : Tail(requests)[i] = requests[i + 1]
    BY <1>0, <1>4, TailFacts DEF TypeOK
  <2>3. /\ pc'["timer"] = "handle" /\ cur'["timer"] = requests[1]
        /\ pc'["main"] = pc["main"] /\ cur'["main"] = cur["main"]
    BY <1>0, <2>1, <2>2, Constants DEF TypeOK
  <2>4. TypeOK'
    BY <1>0, <1>1, <1>2, <2>1, <2>2 DEF TypeOK, Handling
  <2>5. Control'
    BY <1>0, <1>1, <2>2, <2>3 DEF Control, Threads, Handling
  <2>6. \A i \in DOMAIN todo' : i \in Int /\ i + 1 \in DOMAIN requests /\ i + 1 # 1
                                /\ todo'[i] = requests[i + 1]
    BY <2>1, <2>2
  <2>7. Sweep'
    <3>1. 1 \in DOMAIN requests /\ requests[1] \in Reqs
      BY <2>2
    <3>2. OnList(requests[1]) /\ \A i \in DOMAIN todo' : OnList(requests[i + 1])
      BY <2>6, <3>1 DEF OnList
    <3>3. \A i \in DOMAIN todo' : requests[i + 1] # requests[1]
      BY <1>0, <2>6, <3>1 DEF Listed
    <3>4. \A i, j \in DOMAIN todo' : todo'[i] = todo'[j] => i = j
      <4>1. \A i, j \in DOMAIN todo' : todo'[i] = todo'[j] => i + 1 = j + 1
        BY <1>0, <2>6 DEF Listed
      <4> QED
        BY <2>6, <4>1
    <3>5. \A r : OnList(r)' <=> OnList(r)
      BY <1>1 DEF OnList
    <3> QED
      BY <2>3, <2>6, <3>2, <3>3, <3>4, <3>5 DEF Sweep
  <2>8. \A u \in Threads : Going(u)
    BY <1>0, <1>1, <2>3 DEF Going, Threads, Control, Handling
  <2> QED
    BY <1>0, <1>1, <1>2, <2>3, <2>4, <2>5, <2>7, <2>8, MovesKept DEF Listed
<1> QED
  BY <1>3, <1>4

\* A second passes.
LEMMA InvTick ==
    ASSUME Inv, fault = "none", Tick
    PROVE  Inv'
<1>0. TypeOK /\ Control /\ Sweep /\ Listed
  BY DEF Inv, Good
<1>1. /\ slept' = TRUE
      /\ entries' = [i \in Slots |-> IF entries[i].valid
                        THEN [entries[i] EXCEPT !.age = Capped(entries[i].age, Timeout + 1)]
                        ELSE entries[i]]
      /\ req' = [r \in Reqs |-> IF r \in heap
                    THEN [req[r] EXCEPT !.age = Capped(req[r].age, Old)] ELSE req[r]]
      /\ since' = [t \in Threads |-> IF pc[t] \in Handling \ {"handle"}
                      THEN Capped(since[t], Old) ELSE since[t]]
      /\ UNCHANGED <<requests, heap, pc, cur, walk, tries, todo, packet, sha, fault, hop,
                     fate, learned, asked>>
  BY DEF Tick, netVars
<1>2. /\ \A age \in 0 .. Timeout + 1 : Capped(age, Timeout + 1) \in 0 .. Timeout + 1
      /\ \A age \in 0 .. Old : Capped(age, Old) \in 0 .. Old
  BY Constants DEF Capped
<1>3. /\ entries' \in [Slots -> Entry]
      /\ \A i \in Slots : entries'[i].valid =>
            entries[i].valid /\ entries'[i].ip = entries[i].ip
                             /\ entries'[i].mac = entries[i].mac
  <2>1. \A i \in Slots : entries[i] \in Entry
    BY <1>0 DEF TypeOK
  <2>2. ASSUME NEW i \in Slots
        PROVE  entries'[i] \in Entry /\ entries'[i].valid = entries[i].valid
               /\ entries'[i].ip = entries[i].ip /\ entries'[i].mac = entries[i].mac
    <3>1. CASE entries[i].valid
      <4>1. entries'[i] = [entries[i] EXCEPT !.age = Capped(entries[i].age, Timeout + 1)]
        BY <1>1, <3>1
      <4>2. Capped(entries[i].age, Timeout + 1) \in 0 .. Timeout + 1
        BY <1>2, <2>1 DEF Entry
      <4> QED
        BY <2>1, <4>1, <4>2 DEF Entry
    <3>2. CASE ~entries[i].valid
      BY <1>1, <2>1, <3>2
    <3> QED
      BY <3>1, <3>2
  <2> QED
    BY <1>1, <2>2
<1>4. \A r \in heap : /\ req'[r] \in Request
                      /\ req'[r].ip = req[r].ip /\ req'[r].packets = req[r].packets
  <2> SUFFICES ASSUME NEW r \in heap
               PROVE  /\ req'[r] \in Request
                      /\ req'[r].ip = req[r].ip /\ req'[r].packets = req[r].packets
    OBVIOUS
  <2>1. req[r] \in Request /\ r \in Reqs
    BY <1>0 DEF Listed, TypeOK
  <2>2. req'[r] = [req[r] EXCEPT !.age = Capped(req[r].age, Old)]
    BY <1>1, <2>1
  <2>3. Capped(req[r].age, Old) \in 0 .. Old
    BY <1>2, <2>1 DEF Request
  <2> QED
    BY <2>1, <2>2, <2>3 DEF Request
<1>5. TypeOK'
  <2>1. req' \in [Reqs -> Request \cup {Null}]
    BY <1>0, <1>1, <1>4 DEF TypeOK
  <2>2. since' \in [Threads -> 0 .. Old]
    BY <1>0, <1>1, <1>2 DEF TypeOK
  <2> QED
    BY <1>0, <1>1, <1>3, <2>1, <2>2 DEF TypeOK
<1>6. Control' /\ Sweep'
  BY <1>0, <1>1 DEF Control, Sweep, OnList
<1>7. \A u \in Threads : Going(u)
  BY <1>0, <1>1 DEF Going, Control
<1> QED
  BY <1>1, <1>3, <1>4, <1>5, <1>6, <1>7, MovesKept

-----------------------------------------------------------------------------
(* Steps that send a frame                                                   *)

LEMMA SendsOne ==
    ASSUME TypeOK, NEW p \in Packets, NEW f \in Frames, Emit(p, <<f>>)
    PROVE  /\ fate' \in [Packets -> Seq(Frames)]
           /\ fate'[p] = Append(fate[p], f)
           /\ \A q \in Packets : q # p => fate'[q] = fate[q]
           /\ \A what : Did(p, what)' <=> Did(p, what) \/ f.what = what
           /\ \A q \in Packets : q # p => \A what : Did(q, what)' <=> Did(q, what)
           /\ \A q \in Packets : Finished(q) => Finished(q)'
<1>1. fate[p] \in Seq(Frames) /\ <<f>> \in Seq(Frames)
  BY DEF TypeOK
<1>2. fate' = [fate EXCEPT ![p] = fate[p] \o <<f>>]
  BY DEF Emit
<1>3. fate[p] \o <<f>> = Append(fate[p], f)
  <2> DEFINE s == fate[p]
  <2>1. s \in Seq(Frames)
    BY <1>1
  <2> HIDE DEF s
  <2>2. s \o <<f>> = Append(s, f)
    BY <2>1
  <2> QED
    BY <2>2 DEF s
<1>4. /\ fate'[p] = Append(fate[p], f)
      /\ \A q \in Packets : q # p => fate'[q] = fate[q]
  BY <1>2, <1>3 DEF TypeOK
<1>5. \A what : Did(p, what)' <=> Did(p, what) \/ f.what = what
  BY <1>1, <1>4, AppendDid
<1>6. \A q \in Packets : q # p => \A what : Did(q, what)' <=> Did(q, what)
  BY <1>4 DEF Did
<1>7. fate' \in [Packets -> Seq(Frames)]
  <2>1. fate[p] \o <<f>> \in Seq(Frames)
    BY <1>1, ConcatFacts
  <2> QED
    BY <1>2, <2>1 DEF TypeOK
<1>8. \A q \in Packets : Finished(q) => Finished(q)'
  BY <1>5, <1>6 DEF Finished
<1> QED
  BY <1>4, <1>5, <1>6, <1>7, <1>8

\* Host unreachable for the next packet that waits.
LEMMA InvAnswerOne ==
    ASSUME Inv, fault = "none", NEW t \in Threads, AnswerWaiting(t), ~AllAnswered(t)
    PROVE  Inv'
<1>0. TypeOK /\ Control /\ Listed /\ Sweep /\ Queued /\ Mapped /\ Fated
  BY DEF Inv, Good
<1>r. PICK r \in heap : r = cur[t]
  BY DEF AnswerWaiting, Alive
<1>1. /\ pc[t] = "answer" /\ cur[t] = r
      /\ UNCHANGED <<entries, requests, heap, req, cur, tries, since, todo, slept, packet,
                     sha, hop, learned, asked>>
  BY <1>r DEF AnswerWaiting, cacheVars, heapVars
<1>2. /\ req[r] \in Request /\ req[r].packets \in Seq(Packets)
      /\ walk[t] \in Nat /\ walk[t] + 1 \in 1 .. Len(req[r].packets)
  <2>1. req[r] \in Request /\ req[r].packets \in Seq(Packets)
    BY <1>0 DEF Listed, Request
  <2>2. walk[t] \in Nat /\ walk[t] <= Len(req[r].packets) /\ walk[t] # Len(req[r].packets)
    BY <1>0, <1>1 DEF TypeOK, Fated, WalkDone, AllAnswered
  <2> QED
    BY <2>1, <2>2
<1>p. PICK p \in Packets : p = req[r].packets[walk[t] + 1]
  BY <1>2
<1>w. Waits(p, r)
  BY <1>2, <1>p DEF Waits
<1>3. CASE p \in Unrouted
  <2>1. /\ fault' = "null" /\ pc' = [u \in Threads |-> "crashed"]
        /\ UNCHANGED <<walk, fate>>
    BY <1>1, <1>3, <1>p DEF AnswerWaiting, Crash
  <2>2. TypeOK'
    BY <1>0, <1>1, <2>1 DEF TypeOK
  <2> QED
    BY <1>1, <2>1, <2>2, CrashKept
<1>4. CASE p \notin Unrouted
  <2>1. PICK f \in Frames : f = Frame("host_unreachable", "self")
    BY DEF Frames, Frame
  <2>f. f.what = "host_unreachable"
    BY <2>1 DEF Frame
  <2>0. /\ Emit(p, <<f>>) /\ walk' = [walk EXCEPT ![t] = walk[t] + 1]
        /\ UNCHANGED <<pc, fault>>
    BY <1>1, <1>4, <1>p, <2>1 DEF AnswerWaiting
  <2>2. /\ fate' \in [Packets -> Seq(Frames)]
        /\ fate'[p] = Append(fate[p], f)
        /\ \A q \in Packets : q # p => fate'[q] = fate[q]
        /\ \A what : Did(p, what)' <=> Did(p, what) \/ f.what = what
        /\ \A q \in Packets : q # p => \A what : Did(q, what)' <=> Did(q, what)
        /\ \A q \in Packets : Finished(q) => Finished(q)'
    BY <1>0, <2>0, SendsOne
  <2>3. ~Did(p, "forwarded")
    <3>1. Did(p, "forwarded") => pc["main"] = "destroy" /\ cur["main"] = r /\ ~OnList(r)
      BY <1>0, <1>w DEF Fated
    <3>2. t = "timer" => OnList(r)
      BY <1>0, <1>1 DEF Sweep, Control, Handling, TypeOK
    <3> QED
      BY <1>1, <3>1, <3>2 DEF Threads
  <2>4. ForwardedAsLearned' /\ OneFate'
    <3>1. \A q \in Packets : Fate(q)
      BY <1>1, <2>f, <2>2, <2>3 DEF Fate
    <3> QED
      BY <1>0, <1>1, <3>1, FateKept DEF Inv, TypeOK
  <2>5. TypeOK'
    <3>1. walk[t] + 1 \in Nat /\ walk \in [Threads -> Nat]
      BY <1>0, <1>2 DEF TypeOK
    <3>2. walk' \in [Threads -> Nat]
      BY <2>0, <3>1
    <3> QED
      BY <1>0, <1>1, <2>0, <2>2, <3>2 DEF TypeOK
  <2>6. /\ walk'[t] = walk[t] + 1
        /\ \A u \in Threads : u # t => walk'[u] = walk[u]
    BY <1>0, <2>0 DEF TypeOK
  <2>7. Control'
    BY <1>0, <1>1, <2>0, <2>6 DEF Control
  <2>8. Listed' /\ Sweep' /\ Queued' /\ Mapped'
    BY <1>0, <1>1, <2>0 DEF Listed, Sweep, Queued, Mapped, OnList, Waits
  <2>9. hop[p] = req[r].ip /\ req[r].ip \in Hosts /\ p # packet
    BY <1>0, <1>w, <1>2 DEF Queued, Request
  <2>10. /\ \A s : OnList(s)' <=> OnList(s)
         /\ \A q, s : Waits(q, s)' <=> Waits(q, s)
    BY <1>1 DEF OnList, Waits
  <2>11. Fated'
    <3>1. \A q \in Packets : hop'[q] = Null \/ q = packet' => ~Finished(q)'
      BY <1>0, <1>1, <2>2, <2>9, Constants DEF Fated, Finished
    <3>2. ASSUME NEW s \in heap', NEW q \in Packets, Waits(q, s)'
          PROVE  /\ Did(q, "forwarded")' =>
                       pc'["main"] = "destroy" /\ cur'["main"] = s /\ ~OnList(s)'
                 /\ Did(q, "host_unreachable")' =>
                       \E u \in Threads : cur'[u] = s /\ pc'[u] \in {"answer", "destroy"}
      <4>1. s \in heap /\ Waits(q, s)
        BY <1>1, <2>10, <3>2
      <4>2. CASE q = p
        <5>1. s = r
          <6>1. \A m, n \in heap :
                   \A i \in DOMAIN req[m].packets, j \in DOMAIN req[n].packets :
                      req[m].packets[i] = req[n].packets[j] => m = n
            BY <1>0 DEF Queued
          <6> QED
            BY <1>w, <4>1, <4>2, <6>1 DEF Waits
        <5>2. ~Did(q, "forwarded")'
          BY <2>f, <2>2, <2>3, <4>2
        <5>3. cur'[t] = s /\ pc'[t] = "answer"
          BY <1>1, <2>0, <5>1
        <5> QED
          BY <5>2, <5>3
      <4>3. CASE q # p
        BY <1>0, <1>1, <2>0, <2>2, <2>10, <4>1, <4>3 DEF Fated
      <4> QED
        BY <4>2, <4>3
    <3>3. ASSUME NEW u \in Threads PROVE WalkDone(u)'
      <4>1. WalkDone(u)
        BY <1>0 DEF Fated
      <4>2. CASE u = t
        <5> SUFFICES ASSUME NEW s \in heap, cur[t] = s
                     PROVE  /\ walk'[t] <= Len(req[s].packets)
                            /\ \A q \in Packets, i \in 1 .. walk'[t] :
                                  req[s].packets[i] = q => Finished(q)'
          BY <1>1, <2>0, <4>2 DEF WalkDone
        <5>1. s = r
          BY <1>1
        <5>2. \A i \in 1 .. walk'[t] : i \in 1 .. walk[t] \/ i = walk[t] + 1
          BY <1>2, <2>6
        <5>3. Finished(p)'
          BY <2>f, <2>2 DEF Finished
        <5>4. req[s].packets[walk[t] + 1] = p
          BY <1>p, <5>1
        <5>5. \A q \in Packets, i \in 1 .. walk[t] : req[s].packets[i] = q => Finished(q)
          BY <1>1, <4>1, <4>2 DEF WalkDone
        <5> QED
          BY <1>2, <2>2, <2>6, <5>1, <5>2, <5>3, <5>4, <5>5
      <4>3. CASE u # t
        BY <1>1, <2>0, <2>2, <2>6, <2>10, <4>1, <4>3 DEF WalkDone
      <4> QED
        BY <4>2, <4>3
    <3>4. \A q \in Packets : hop'[q] # Null =>
             \/ packet' = q
             \/ Finished(q)'
             \/ \E s \in heap' : /\ Waits(q, s)'
                                 /\ OnList(s)' \/ (pc'["main"] = "deliver" /\ cur'["main"] = s)
      BY <1>0, <1>1, <2>0, <2>2, <2>10 DEF Fated
    <3> QED
      BY <3>1, <3>2, <3>3, <3>4 DEF Fated
  <2> QED
    BY <2>0, <2>4, <2>5, <2>7, <2>8, <2>11 DEF Inv, Good
<1> QED
  BY <1>3, <1>4

\* A mapping that is found was announced.
LEMMA InvLookupHit ==
    ASSUME Inv, fault = "none", LookupHit
    PROVE  Inv'
<1>0. TypeOK /\ Control /\ Listed /\ Sweep /\ Queued /\ Mapped /\ Fated
  BY DEF Inv, Good
<1>1. /\ pc["main"] = "lookup" /\ packet \in Packets /\ hop[packet] \in Hosts
      /\ pc' = [pc EXCEPT !["main"] = "idle"] /\ packet' = Null
      /\ UNCHANGED <<entries, requests, heap, req, cur, walk, tries, since, todo, slept,
                     sha, fault, hop, learned, asked>>
  BY <1>0 DEF LookupHit, cacheVars, heapVars, Control
<1>2. PICK i \in Matches(hop[packet]) : Emit(packet, <<Frame("forwarded", entries[i].mac)>>)
  BY DEF LookupHit, Found
<1>3. /\ <<hop[packet], entries[i].mac>> \in learned /\ entries[i].mac \in Macs
  <2>1. entries[i].valid /\ entries[i].ip = hop[packet] /\ i \in Slots
    BY <1>2 DEF Matches
  <2>2. <<hop[packet], entries[i].mac>> \in learned
    BY <1>0, <2>1 DEF Mapped
  <2>3. entries[i].mac \in Macs
    BY <1>0, <2>2 DEF TypeOK
  <2> QED
    BY <2>2, <2>3
<1>p. PICK p \in Packets : p = packet
  BY <1>1
<1>f. PICK f \in Frames : f = Frame("forwarded", entries[i].mac)
  BY <1>3 DEF Frame, Frames
<1>4. /\ packet = p /\ Emit(p, <<f>>)
      /\ f.what = "forwarded" /\ <<hop[p], f.to>> \in learned
  BY <1>2, <1>3, <1>p, <1>f DEF Frame
<1>5. /\ fate' \in [Packets -> Seq(Frames)]
      /\ fate'[p] = Append(fate[p], f)
      /\ \A q \in Packets : q # p => fate'[q] = fate[q]
      /\ \A what : Did(p, what)' <=> Did(p, what) \/ f.what = what
      /\ \A q \in Packets : q # p => \A what : Did(q, what)' <=> Did(q, what)
      /\ \A q \in Packets : Finished(q) => Finished(q)'
  BY <1>0, <1>4, SendsOne
<1>6. ~Finished(p)
  BY <1>0, <1>4 DEF Fated
<1>7. ForwardedAsLearned' /\ OneFate'
  <2>1. \A q \in Packets : Fate(q)
    BY <1>1, <1>4, <1>5, <1>6 DEF Fate
  <2> QED
    BY <1>0, <1>1, <2>1, FateKept DEF Inv, TypeOK
<1>8. TypeOK'
  BY <1>0, <1>1, <1>5 DEF TypeOK
<1>9. pc'["main"] = "idle" /\ pc'["timer"] = pc["timer"] /\ \A t \in Threads : t # "main" => pc'[t] = pc[t]
  BY <1>0, <1>1, Constants DEF TypeOK
<1>10. Control'
  BY <1>0, <1>1, <1>9 DEF Control, Threads, Handling
<1>11. /\ \A s : OnList(s)' <=> OnList(s)
       /\ \A q, s : Waits(q, s)' <=> Waits(q, s)
  BY <1>1 DEF OnList, Waits
<1>12. Listed' /\ Sweep' /\ Mapped'
  BY <1>0, <1>1, <1>9, <1>11 DEF Listed, Sweep, Mapped
<1>13. Queued'
  BY <1>0, <1>1, <1>11, Constants DEF Queued
<1>14. Fated'
  <2>1. \A q \in Packets : hop'[q] = Null \/ q = packet' => ~Finished(q)'
    BY <1>0, <1>1, <1>4, <1>5, Constants DEF Fated, Finished
  <2>2. ASSUME NEW s \in heap', NEW q \in Packets, Waits(q, s)'
        PROVE  /\ Did(q, "forwarded")' =>
                     pc'["main"] = "destroy" /\ cur'["main"] = s /\ ~OnList(s)'
               /\ Did(q, "host_unreachable")' =>
                     \E u \in Threads : cur'[u] = s /\ pc'[u] \in {"answer", "destroy"}
    <3>1. s \in heap /\ Waits(q, s) /\ q # p
      BY <1>0, <1>1, <1>4, <1>11, <2>2 DEF Queued
    <3>2. Did(q, "host_unreachable") =>
             \E u \in Threads : cur[u] = s /\ pc[u] \in {"answer", "destroy"}
      BY <1>0, <3>1 DEF Fated
    <3>3. ~Did(q, "forwarded")
      BY <1>0, <1>1, <3>1 DEF Fated
    <3> QED
      BY <1>1, <1>5, <1>9, <3>1, <3>2, <3>3
  <2>3. ASSUME NEW u \in Threads PROVE WalkDone(u)'
    BY <1>0, <1>1, <1>5, <1>9, <1>11 DEF Fated, WalkDone
  <2>4. \A q \in Packets : hop'[q] # Null =>
           \/ packet' = q
           \/ Finished(q)'
           \/ \E s \in heap' : /\ Waits(q, s)'
                               /\ OnList(s)' \/ (pc'["main"] = "deliver" /\ cur'["main"] = s)
    <3>1. Finished(p)'
      BY <1>4, <1>5 DEF Finished
    <3> QED
      BY <1>0, <1>1, <1>4, <1>5, <1>9, <1>11, <3>1 DEF Fated
  <2> QED
    BY <2>1, <2>2, <2>3, <2>4 DEF Fated
<1> QED
  BY <1>1, <1>7, <1>8, <1>10, <1>12, <1>13, <1>14 DEF Inv, Good

\* What is answered at once has no next hop.
LEMMA AnswersOnly ==
    ASSUME NEW ttlZero \in BOOLEAN
    PROVE  /\ Expired(ttlZero) \in Seq(Frames)
           /\ \A i \in DOMAIN Expired(ttlZero) : Expired(ttlZero)[i].what = "answer"
           /\ Append(Expired(ttlZero), Frame("answer", "sender")) \in Seq(Frames)
           /\ \A i \in DOMAIN Append(Expired(ttlZero), Frame("answer", "sender")) :
                 Append(Expired(ttlZero), Frame("answer", "sender"))[i].what = "answer"
<1>1. PICK f \in Frames : f = Frame("answer", "sender")
  BY DEF Frames, Frame
<1>2. f.what = "answer"
  BY <1>1 DEF Frame
<1>3. /\ <<f>> \in Seq(Frames) /\ <<>> \in Seq(Frames)
      /\ Append(<<f>>, f) \in Seq(Frames) /\ Append(<<>>, f) \in Seq(Frames)
      /\ \A i \in DOMAIN <<f>> : <<f>>[i] = f
      /\ \A i \in DOMAIN Append(<<>>, f) : Append(<<>>, f)[i] = f
      /\ \A i \in DOMAIN Append(<<f>>, f) : Append(<<f>>, f)[i] = f
  OBVIOUS
<1>4. CASE ttlZero
  <2>1. Expired(ttlZero) = <<f>>
    BY <1>1, <1>4 DEF Expired
  <2> QED
    BY <1>1, <1>2, <1>3, <2>1
<1>5. CASE ~ttlZero
  <2>1. Expired(ttlZero) = <<>>
    BY <1>5 DEF Expired
  <2> QED
    BY <1>1, <1>2, <1>3, <2>1
<1> QED
  BY <1>4, <1>5

\* A packet that has just arrived waits nowhere.
LEMMA ArrivesFacts ==
    ASSUME TypeOK, Good, NEW p \in Packets, Arrives(p), NEW s \in Seq(Frames), Emit(p, s),
           \A i \in DOMAIN s : s[i].what = "answer"
    PROVE  /\ fate' \in [Packets -> Seq(Frames)]
           /\ \A i \in DOMAIN fate'[p] : fate'[p][i].what = "answer"
           /\ \A q \in Packets : q # p => fate'[q] = fate[q]
           /\ \A q \in Packets : q # p => \A what : Did(q, what)' <=> Did(q, what)
           /\ \A q \in Packets : Finished(q)' <=> Finished(q)
           /\ ~Finished(p)' /\ ~Did(p, "forwarded")' /\ ~Did(p, "host_unreachable")'
           /\ \A r \in heap : ~Waits(p, r)
           /\ pc["main"] = "idle" /\ packet = Null /\ hop[p] = Null
<1>1. pc["main"] = "idle" /\ hop[p] = Null /\ fate[p] = <<>>
  BY DEF Arrives
<1>2. <<>> \o s = s
  OBVIOUS
<1>3. fate' = [fate EXCEPT ![p] = s]
  BY <1>1, <1>2 DEF Emit
<1>4. /\ fate' \in [Packets -> Seq(Frames)] /\ fate'[p] = s
      /\ \A q \in Packets : q # p => fate'[q] = fate[q]
  BY <1>3 DEF TypeOK
<1>5. /\ \A i \in DOMAIN fate'[p] : fate'[p][i].what = "answer"
      /\ ~Did(p, "forwarded")' /\ ~Did(p, "host_unreachable")'
      /\ \A what : ~Did(p, what)
  BY <1>1, <1>4 DEF Did
<1>6. \A q \in Packets : q # p => \A what : Did(q, what)' <=> Did(q, what)
  BY <1>4 DEF Did
<1>7. \A q \in Packets : Finished(q)' <=> Finished(q)
  BY <1>5, <1>6 DEF Finished
<1>8. \A r \in heap : ~Waits(p, r)
  BY <1>1, Constants DEF Good, Listed, Queued, Request
<1>9. packet = Null
  BY <1>1 DEF Good, Control
<1> QED
  BY <1>1, <1>4, <1>5, <1>6, <1>7, <1>8, <1>9 DEF Finished

LEMMA InvArrival ==
    ASSUME Inv, fault = "none", NEW p \in Packets, NEW ttlZero \in BOOLEAN,
           Answer(p, ttlZero) \/ \E h \in Hosts : ReceivePacket(p, h, ttlZero)
    PROVE  Inv'
<1>0. TypeOK /\ Good /\ Control /\ Listed /\ Sweep /\ Queued /\ Mapped /\ Fated
  BY DEF Inv, Good
<1>1. PICK s \in Seq(Frames) : Emit(p, s) /\ \A i \in DOMAIN s : s[i].what = "answer"
  BY AnswersOnly DEF Answer, ReceivePacket
<1>2. /\ Arrives(p)
      /\ UNCHANGED <<entries, requests, heap, req, cur, walk, tries, since, todo, slept,
                     sha, fault, learned, asked>>
  BY DEF Answer, ReceivePacket, cacheVars, heapVars, threadVars
<1>3. /\ fate' \in [Packets -> Seq(Frames)]
      /\ \A i \in DOMAIN fate'[p] : fate'[p][i].what = "answer"
      /\ \A q \in Packets : q # p => fate'[q] = fate[q]
      /\ \A q \in Packets : q # p => \A what : Did(q, what)' <=> Did(q, what)
      /\ \A q \in Packets : Finished(q)' <=> Finished(q)
      /\ ~Finished(p)' /\ ~Did(p, "forwarded")' /\ ~Did(p, "host_unreachable")'
      /\ \A r \in heap : ~Waits(p, r)
      /\ pc["main"] = "idle" /\ packet = Null /\ hop[p] = Null
  BY <1>0, <1>1, <1>2, ArrivesFacts
<1>4. /\ \A q \in Packets : q # p => hop'[q] = hop[q]
      /\ hop' \in [Packets -> Hosts \cup {Null}]
      /\ \/ hop'[p] = Null /\ packet' = Null /\ pc' = pc
         \/ hop'[p] \in Hosts /\ packet' = p /\ pc' = [pc EXCEPT !["main"] = "lookup"]
  <2>1. CASE Answer(p, ttlZero)
    BY <1>0, <1>3, <2>1 DEF Answer, threadVars, TypeOK
  <2>2. CASE \E h \in Hosts : ReceivePacket(p, h, ttlZero)
    BY <1>0, <1>3, <2>2 DEF ReceivePacket, TypeOK
  <2> QED
    BY <2>1, <2>2
<1>5. /\ pc'["main"] \in {"idle", "lookup"} /\ pc'["timer"] = pc["timer"]
      /\ pc'["main"] = "idle" <=> packet' = Null
      /\ \A t \in Threads : t # "main" => pc'[t] = pc[t]
  BY <1>0, <1>3, <1>4, Constants DEF TypeOK
<1>6. ForwardedAsLearned' /\ OneFate'
  <2>1. \A q \in Packets : Fate(q)
    BY <1>3, <1>4 DEF Fate
  <2> QED
    BY <1>0, <1>2, <2>1, FateKept DEF Inv, TypeOK
<1>7. TypeOK'
  BY <1>0, <1>2, <1>3, <1>4 DEF TypeOK
<1>8. Control'
  BY <1>0, <1>2, <1>3, <1>4, <1>5, Constants DEF Control, Handling
<1>9. /\ \A r : OnList(r)' <=> OnList(r)
      /\ \A q, r : Waits(q, r)' <=> Waits(q, r)
  BY <1>2 DEF OnList, Waits
<1>10. Listed' /\ Sweep' /\ Mapped'
  BY <1>0, <1>2, <1>3, <1>5, <1>9 DEF Listed, Sweep, Mapped
<1>11. Queued'
  <2>1. \A r \in heap, q \in Packets : Waits(q, r) =>
           hop'[q] = req[r].ip /\ q # packet'
    BY <1>0, <1>3, <1>4, Constants DEF Queued
  <2> QED
    BY <1>0, <1>2, <1>9, <2>1 DEF Queued
<1>12. Fated'
  <2>1. \A q \in Packets : hop'[q] = Null \/ q = packet' => ~Finished(q)'
    <3> SUFFICES ASSUME NEW q \in Packets, hop'[q] = Null \/ q = packet', q # p
                 PROVE  ~Finished(q)
      BY <1>3
    <3>1. hop[q] = Null
      BY <1>4, Constants
    <3> QED
      BY <1>0, <3>1 DEF Fated
  <2>2. ASSUME NEW r \in heap', NEW q \in Packets, Waits(q, r)'
        PROVE  /\ Did(q, "forwarded")' =>
                     pc'["main"] = "destroy" /\ cur'["main"] = r /\ ~OnList(r)'
               /\ Did(q, "host_unreachable")' =>
                     \E u \in Threads : cur'[u] = r /\ pc'[u] \in {"answer", "destroy"}
    <3>1. r \in heap /\ Waits(q, r) /\ q # p
      BY <1>2, <1>3, <1>9, <2>2
    <3>2. ~Did(q, "forwarded")
      BY <1>0, <1>3, <3>1 DEF Fated
    <3>3. Did(q, "host_unreachable") =>
             \E u \in Threads : cur[u] = r /\ pc[u] \in {"answer", "destroy"} /\ u # "main"
      BY <1>0, <1>3, <3>1 DEF Fated
    <3> QED
      BY <1>2, <1>3, <1>5, <3>1, <3>2, <3>3
  <2>3. ASSUME NEW u \in Threads PROVE WalkDone(u)'
    <3>1. WalkDone(u)
      BY <1>0 DEF Fated
    <3>2. pc'[u] \in {"answer", "destroy"} => pc'[u] = pc[u]
      BY <1>5
    <3> QED
      BY <1>2, <1>3, <1>9, <3>1, <3>2 DEF WalkDone
  <2>4. \A q \in Packets : hop'[q] # Null =>
           \/ packet' = q
           \/ Finished(q)'
           \/ \E r \in heap' : /\ Waits(q, r)'
                               /\ OnList(r)' \/ (pc'["main"] = "deliver" /\ cur'["main"] = r)
    <3> SUFFICES ASSUME NEW q \in Packets, hop'[q] # Null, packet' # q
                 PROVE  \/ Finished(q)'
                        \/ \E r \in heap : Waits(q, r)' /\ OnList(r)'
      BY <1>2
    <3>1. q # p /\ hop[q] # Null /\ packet # q
      BY <1>3, <1>4, Constants
    <3>2. Finished(q) \/ \E r \in heap : Waits(q, r) /\ OnList(r)
      BY <1>0, <1>3, <3>1 DEF Fated
    <3> QED
      BY <1>3, <1>9, <3>2
  <2> QED
    BY <2>1, <2>2, <2>3, <2>4 DEF Fated
<1> QED
  BY <1>2, <1>6, <1>7, <1>8, <1>10, <1>11, <1>12 DEF Inv, Good

-----------------------------------------------------------------------------
(* Steps that change the list of requests                                    *)

\* While the timer sleeps and the packet thread is about none, no packet that
\* waits is finished, and every request is on the list.
LEMMA Resting ==
    ASSUME Good, pc["timer"] = "sleep", pc["main"] \in {"idle", "queue"}
    PROVE  /\ \A t \in Threads : pc[t] \notin {"answer", "destroy", "deliver"}
           /\ \A r \in heap : OnList(r)
           /\ \A r \in heap, p \in Packets : Waits(p, r) => ~Finished(p)
<1>1. \A t \in Threads : pc[t] \notin {"answer", "destroy", "deliver"}
  BY DEF Threads
<1>2. \A r \in heap : OnList(r)
  BY DEF Good, Listed
<1>3. \A r \in heap, p \in Packets : Waits(p, r) =>
         ~Did(p, "forwarded") /\ ~Did(p, "host_unreachable")
  BY <1>1 DEF Good, Fated
<1> QED
  BY <1>1, <1>2, <1>3 DEF Finished

\* The packet waits in front of all others, in the request of its next hop.
InFront(p, r) ==
    /\ Len(req'[r].packets) \in Nat \ {0}
    /\ DOMAIN req'[r].packets = 1 .. Len(req'[r].packets) /\ req'[r].packets[1] = p
    /\ \A i \in DOMAIN req'[r].packets : i # 1 =>
          /\ r \in heap /\ i - 1 \in DOMAIN req[r].packets
          /\ req'[r].packets[i] = req[r].packets[i - 1]
    /\ r \in heap => \A i \in DOMAIN req[r].packets :
          i + 1 \in DOMAIN req'[r].packets /\ req'[r].packets[i + 1] = req[r].packets[i]

QueuedAs(p, r) ==
    /\ cur' = [cur EXCEPT !["main"] = r]
    /\ heap' = heap \cup {r}
    /\ requests' \in Seq(Reqs) /\ Distinct(requests')
    /\ \A s : OnList(s)' <=> OnList(s) \/ s = r
    /\ \A s \in heap : s # r /\ OnList(s) => req[s].ip # hop[p]
    /\ req' \in [Reqs -> Request \cup {Null}]
    /\ req'[r] \in Request /\ req'[r].ip = hop[p]
    /\ \A s \in heap : s # r => req'[s] = req[s]
    /\ r \in heap => req[r].ip = hop[p]
    /\ InFront(p, r)
    /\ asked' \in [Reqs -> Nat]

LEMMA QueueFacts ==
    ASSUME TypeOK, Good, NEW p \in Packets, packet = p, pc["timer"] = "sleep", QueueReq
    PROVE  \E r \in Reqs : QueuedAs(p, r)
<1>0. Control /\ Listed
  BY DEF Good
<1>1. packet \in Packets /\ hop[p] \in Hosts
  BY <1>0 DEF QueueReq, Control
<1>2. \A x : x \in ToSet(requests) <=> OnList(x)
  BY DEF ToSet, OnList
<1>3. requests \in Seq(Reqs) /\ Distinct(requests) /\ \A x : OnList(x) => x \in Reqs
  BY <1>0 DEF TypeOK, Listed, OnList, Distinct
<1>4. CASE \E r \in Pending(hop[packet]) :
             /\ req' = [req EXCEPT ![r].packets = Waiting(packet, @)]
             /\ cur' = [cur EXCEPT !["main"] = r]
             /\ UNCHANGED <<heap, requests, asked>>
  <2>1. PICK r \in Pending(hop[packet]) :
             /\ req' = [req EXCEPT ![r].packets = Waiting(packet, req[r].packets)]
             /\ cur' = [cur EXCEPT !["main"] = r]
             /\ UNCHANGED <<heap, requests, asked>>
    BY <1>4
  <2>2. OnList(r) /\ req[r].ip = hop[p] /\ r \in heap /\ r \in Reqs
    BY <1>0, <1>2, <1>3, <2>1 DEF Pending, Listed
  <2>3. req[r] \in Request /\ req[r].packets \in Seq(Packets) /\ <<p>> \in Seq(Packets)
    BY <1>0, <2>2 DEF Listed, Request
  <2>4. PICK q \in Seq(Packets) : q = <<p>> \o req[r].packets
    BY <2>3, ConcatFacts
  <2>5. /\ Len(q) \in Nat \ {0} /\ DOMAIN q = 1 .. Len(q) /\ q[1] = p
        /\ \A i \in DOMAIN q : i # 1 =>
              i - 1 \in DOMAIN req[r].packets /\ q[i] = req[r].packets[i - 1]
        /\ \A i \in DOMAIN req[r].packets : i + 1 \in DOMAIN q /\ q[i + 1] = req[r].packets[i]
    <3> DEFINE a == <<p>>
               b == req[r].packets
    <3>1. a \in Seq(Packets) /\ b \in Seq(Packets) /\ q = a \o b
      BY <2>3, <2>4
    <3>2. Len(a) = 1 /\ a[1] = p
      OBVIOUS
    <3> HIDE DEF a, b
    <3>3. /\ Len(b) \in Nat /\ DOMAIN b = 1 .. Len(b)
          /\ DOMAIN q = 1 .. 1 + Len(b) /\ Len(q) = 1 + Len(b)
          /\ \A i \in 1 .. 1 : q[i] = a[i]
          /\ \A i \in 1 .. Len(b) : q[1 + i] = b[i]
          /\ \A i \in 1 .. 1 + Len(b) : q[i] = IF i <= 1 THEN a[i] ELSE b[i - 1]
      BY <3>1, <3>2, ConcatFacts
    <3>4. \A i \in DOMAIN q : i # 1 => i - 1 \in DOMAIN b /\ q[i] = b[i - 1]
      BY <3>3
    <3>5. \A i \in DOMAIN b : i + 1 \in DOMAIN q /\ q[i + 1] = b[i]
      BY <3>3
    <3>6. Len(q) \in Nat \ {0} /\ DOMAIN q = 1 .. Len(q) /\ q[1] = p
      BY <3>2, <3>3
    <3> QED
      BY <3>4, <3>5, <3>6 DEF b
  <2>6. /\ req'[r] = [req[r] EXCEPT !.packets = q]
        /\ \A s \in Reqs : s # r => req'[s] = req[s]
    BY <2>1, <2>2, <2>4 DEF Waiting, TypeOK
  <2>7. req'[r] \in Request /\ req'[r].ip = hop[p] /\ req'[r].packets = q
    BY <2>2, <2>3, <2>6 DEF Request
  <2>8. req' \in [Reqs -> Request \cup {Null}]
    BY <2>1, <2>2, <2>6, <2>7 DEF TypeOK
  <2>9. \A s : OnList(s)' <=> OnList(s) \/ s = r
    BY <2>1, <2>2 DEF OnList
  <2>10. \A s \in heap : s # r /\ OnList(s) => req[s].ip # hop[p]
    BY <1>0, <1>3, <2>2 DEF Listed
  <2>11. requests' \in Seq(Reqs) /\ Distinct(requests')
    BY <1>3, <2>1
  <2>12. heap' = heap \cup {r} /\ asked' \in [Reqs -> Nat]
    BY <2>1, <2>2 DEF TypeOK
  <2>13. \A s \in heap : s # r => req'[s] = req[s]
    BY <2>6 DEF TypeOK
  <2>14. InFront(p, r)
    BY <2>2, <2>5, <2>7 DEF InFront
  <2> QED
    BY <2>1, <2>2, <2>7, <2>8, <2>9, <2>10, <2>11, <2>12, <2>13, <2>14 DEF QueuedAs
<1>5. CASE /\ Pending(hop[packet]) = {}
           /\ \E r \in Reqs \ heap :
              /\ heap' = heap \cup {r}
              /\ req' = [req EXCEPT ![r] =
                    [ip |-> hop[packet], age |-> Old, times |-> 0,
                     packets |-> Waiting(packet, <<>>)]]
              /\ requests' = <<r>> \o requests
              /\ cur' = [cur EXCEPT !["main"] = r]
              /\ asked' = [asked EXCEPT ![r] = 0]
  <2>1. PICK r \in Reqs \ heap :
              /\ heap' = heap \cup {r}
              /\ req' = [req EXCEPT ![r] =
                    [ip |-> hop[packet], age |-> Old, times |-> 0,
                     packets |-> Waiting(packet, <<>>)]]
              /\ requests' = <<r>> \o requests
              /\ cur' = [cur EXCEPT !["main"] = r]
              /\ asked' = [asked EXCEPT ![r] = 0]
    BY <1>5
  <2>2. Waiting(packet, <<>>) = <<p>>
    <3>1. <<p>> \o <<>> = <<p>>
      OBVIOUS
    <3> QED
      BY <3>1 DEF Waiting
  <2>3. PICK q \in Seq(Packets) : q = <<p>>
    <3>1. <<p>> \in Seq(Packets)
      OBVIOUS
    <3> QED
      BY <3>1
  <2>4. Len(q) = 1 /\ DOMAIN q = 1 .. 1 /\ q[1] = p
    BY <2>3
  <2>5. /\ req'[r] = [ip |-> hop[p], age |-> Old, times |-> 0, packets |-> q]
        /\ \A s \in Reqs : s # r => req'[s] = req[s]
    BY <2>1, <2>2, <2>3 DEF TypeOK
  <2>6. req'[r] \in Request /\ req'[r].ip = hop[p] /\ req'[r].packets = q
    BY <1>1, <2>5, Constants DEF Request
  <2>7. req' \in [Reqs -> Request \cup {Null}]
    BY <2>1, <2>5, <2>6 DEF TypeOK
  <2>8. ~OnList(r)
    BY <1>0, <2>1 DEF Listed
  <2>9. /\ requests' \in Seq(Reqs)
        /\ DOMAIN requests' = 1 .. 1 + Len(requests) /\ requests'[1] = r
        /\ DOMAIN requests = 1 .. Len(requests) /\ Len(requests) \in Nat
        /\ \A i \in 1 .. Len(requests) : requests'[1 + i] = requests[i]
        /\ \A i \in 1 .. 1 + Len(requests) : i # 1 => requests'[i] = requests[i - 1]
    <3> DEFINE a == <<r>>
               b == requests
    <3>1. a \in Seq(Reqs) /\ b \in Seq(Reqs) /\ requests' = a \o b
      BY <1>3, <2>1
    <3>2. Len(a) = 1 /\ a[1] = r
      OBVIOUS
    <3> HIDE DEF a, b
    <3>3. /\ Len(b) \in Nat /\ DOMAIN b = 1 .. Len(b) /\ a \o b \in Seq(Reqs)
          /\ DOMAIN (a \o b) = 1 .. 1 + Len(b)
          /\ \A i \in 1 .. 1 : (a \o b)[i] = a[i]
          /\ \A i \in 1 .. Len(b) : (a \o b)[1 + i] = b[i]
          /\ \A i \in 1 .. 1 + Len(b) : (a \o b)[i] = IF i <= 1 THEN a[i] ELSE b[i - 1]
      <4>1. /\ Len(b) \in Nat /\ DOMAIN b = 1 .. Len(b) /\ a \o b \in Seq(Reqs)
            /\ DOMAIN (a \o b) = 1 .. Len(a) + Len(b)
            /\ \A i \in 1 .. Len(a) : (a \o b)[i] = a[i]
            /\ \A i \in 1 .. Len(b) : (a \o b)[Len(a) + i] = b[i]
            /\ \A i \in 1 .. Len(a) + Len(b) :
                  (a \o b)[i] = IF i <= Len(a) THEN a[i] ELSE b[i - Len(a)]
        <5>1. a \in Seq(Reqs) /\ b \in Seq(Reqs)
          BY <3>1
        <5> QED
          BY <5>1, ConcatFacts
      <4> QED
        BY <3>2, <4>1
    <3>4. (a \o b)[1] = r /\ \A i \in 1 .. 1 + Len(b) : i # 1 => (a \o b)[i] = b[i - 1]
      BY <3>2, <3>3
    <3> QED
      BY <3>1, <3>3, <3>4 DEF b
  <2>10. \A s : OnList(s)' <=> OnList(s) \/ s = r
    <3>1. ASSUME NEW s, OnList(s)' PROVE OnList(s) \/ s = r
      <4>1. PICK i \in DOMAIN requests' : requests'[i] = s
        BY <3>1 DEF OnList
      <4>2. CASE i = 1
        BY <2>9, <4>1, <4>2
      <4>3. CASE i # 1
        <5>1. i - 1 \in DOMAIN requests /\ requests[i - 1] = s
          BY <2>9, <4>1, <4>3
        <5> QED
          BY <5>1 DEF OnList
      <4> QED
        BY <4>2, <4>3
    <3>2. ASSUME NEW s, OnList(s) PROVE OnList(s)'
      <4>1. PICK i \in DOMAIN requests : requests[i] = s
        BY <3>2 DEF OnList
      <4>2. 1 + i \in DOMAIN requests' /\ requests'[1 + i] = s
        BY <2>9, <4>1
      <4> QED
        BY <4>2 DEF OnList
    <3>3. OnList(r)'
      <4>1. 1 \in DOMAIN requests'
        BY <2>9
      <4> QED
        BY <2>9, <4>1 DEF OnList
    <3> QED
      BY <3>1, <3>2, <3>3
  <2>11. Distinct(requests')
    <3> SUFFICES ASSUME NEW i \in DOMAIN requests', NEW j \in DOMAIN requests',
                        requests'[i] = requests'[j]
                 PROVE  i = j
      BY DEF Distinct
    <3>1. \A k \in DOMAIN requests' : k # 1 =>
             /\ k - 1 \in DOMAIN requests /\ requests'[k] = requests[k - 1]
             /\ requests'[k] # r
      <4>1. \A k \in DOMAIN requests' : k # 1 =>
               k - 1 \in DOMAIN requests /\ requests'[k] = requests[k - 1]
        BY <2>9
      <4> QED
        BY <2>8, <4>1 DEF OnList
    <3>2. CASE i # 1 /\ j # 1
      <4>1. i - 1 = j - 1
        BY <1>3, <3>1, <3>2 DEF Distinct
      <4> QED
        BY <2>9, <4>1
    <3>3. CASE i = 1 \/ j = 1
      BY <2>9, <3>1, <3>3
    <3> QED
      BY <3>2, <3>3
  <2>12. \A s \in heap : s # r /\ OnList(s) => req[s].ip # hop[p]
    BY <1>2, <1>5 DEF Pending
  <2>13. asked' \in [Reqs -> Nat]
    BY <2>1 DEF TypeOK
  <2>14. \A s \in heap : s # r => req'[s] = req[s]
    BY <2>5 DEF TypeOK
  <2>15. Len(q) \in Nat \ {0} /\ DOMAIN q = 1 .. Len(q) /\ \A i \in DOMAIN q : i = 1
    BY <2>4
  <2>16. InFront(p, r)
    BY <2>1, <2>4, <2>6, <2>15 DEF InFront
  <2> QED
    BY <2>1, <2>6, <2>7, <2>9, <2>10, <2>11, <2>12, <2>13, <2>14, <2>16 DEF QueuedAs
<1> QED
  BY <1>4, <1>5 DEF QueueReq

LEMMA InvQueueReq ==
    ASSUME Inv, fault = "none", QueueReq
    PROVE  Inv'
<1>0. TypeOK /\ Good /\ Control /\ Listed /\ Sweep /\ Queued /\ Mapped /\ Fated
  BY DEF Inv, Good
<1>1. /\ pc["main"] = "queue" /\ pc["timer"] = "sleep" /\ packet \in Packets
      /\ hop[packet] \in Hosts /\ cur["timer"] = Null /\ todo = <<>>
      /\ pc' = [pc EXCEPT !["main"] = "handle"] /\ packet' = Null
      /\ UNCHANGED <<entries, walk, tries, since, todo, slept, sha, fault, hop, fate, learned>>
  BY <1>0 DEF QueueReq, LockFree, netVars, Control
<1>2. PICK p \in Packets : p = packet
  BY <1>1
<1>3. PICK r \in Reqs : QueuedAs(p, r)
  BY <1>0, <1>1, <1>2, QueueFacts
<1>4. /\ pc'["main"] = "handle" /\ pc'["timer"] = "sleep"
      /\ cur'["main"] = r /\ cur'["timer"] = Null
      /\ cur' \in [Threads -> Reqs \cup {Null}]
  BY <1>0, <1>1, <1>3, Constants DEF TypeOK, QueuedAs
<1>5. /\ \A s \in heap : OnList(s)
      /\ \A s \in heap, q \in Packets : Waits(q, s) => ~Finished(q)
  BY <1>0, <1>1, Resting
<1>6. /\ \A q, what : Did(q, what)' <=> Did(q, what)
      /\ \A q : Finished(q)' <=> Finished(q)
  BY <1>1 DEF Did, Finished
<1>7. \A s \in heap : ~Waits(p, s)
  BY <1>0, <1>2 DEF Queued
<1>8. /\ \A s \in heap : \A q : s # r => (Waits(q, s)' <=> Waits(q, s))
      /\ \A q : Waits(q, r)' <=> q = p \/ (r \in heap /\ Waits(q, r))
  <2>1. \A s \in heap : \A q : s # r => (Waits(q, s)' <=> Waits(q, s))
    BY <1>3 DEF QueuedAs, Waits
  <2>2. ASSUME NEW q, Waits(q, r)' PROVE q = p \/ (r \in heap /\ Waits(q, r))
    <3>1. PICK i \in DOMAIN req'[r].packets : req'[r].packets[i] = q
      BY <2>2 DEF Waits
    <3>2. CASE i = 1
      BY <1>3, <3>1, <3>2 DEF QueuedAs, InFront
    <3>3. CASE i # 1
      <4>1. /\ r \in heap /\ i - 1 \in DOMAIN req[r].packets
            /\ q = req[r].packets[i - 1]
        BY <1>3, <3>1, <3>3 DEF QueuedAs, InFront
      <4> QED
        BY <4>1 DEF Waits
    <3> QED
      BY <3>2, <3>3
  <2>3. Waits(p, r)'
    <3>1. 1 \in DOMAIN req'[r].packets /\ req'[r].packets[1] = p
      BY <1>3 DEF QueuedAs, InFront
    <3> QED
      BY <3>1 DEF Waits
  <2>4. ASSUME NEW q, r \in heap, Waits(q, r) PROVE Waits(q, r)'
    <3>1. PICK i \in DOMAIN req[r].packets : req[r].packets[i] = q
      BY <2>4 DEF Waits
    <3>2. i + 1 \in DOMAIN req'[r].packets /\ req'[r].packets[i + 1] = q
      BY <1>3, <2>4, <3>1 DEF QueuedAs, InFront
    <3> QED
      BY <3>2 DEF Waits
  <2> QED
    BY <2>1, <2>2, <2>3, <2>4
<1>9. ForwardedAsLearned' /\ OneFate'
  BY <1>0, <1>1, FateKept DEF Inv, TypeOK, Fate
<1>10. TypeOK'
  <2>1. heap' \subseteq Reqs
    BY <1>0, <1>3 DEF TypeOK, QueuedAs
  <2>2. pc' \in [Threads -> Handling \cup
                   {"idle", "sleep", "lookup", "queue", "deliver", "crashed"}]
    BY <1>0, <1>1 DEF TypeOK, Handling
  <2> QED
    BY <1>0, <1>1, <1>3, <1>4, <2>1, <2>2 DEF TypeOK, QueuedAs
<1>11. Control'
  BY <1>0, <1>1, <1>4, Constants DEF Control, Handling
<1>12. Listed'
  <2>1. \A s \in heap' : s \in heap \/ s = r
    BY <1>3 DEF QueuedAs
  <2>2. \A s : OnList(s)' <=> OnList(s) \/ s = r
    BY <1>3 DEF QueuedAs
  <2>3. \A s \in heap' : req'[s] \in Request
    BY <1>0, <1>3, <2>1 DEF Listed, QueuedAs
  <2>4. \A i, j \in DOMAIN requests' : requests'[i] = requests'[j] => i = j
    BY <1>3 DEF QueuedAs, Distinct
  <2>5. \A s \in Reqs : OnList(s)' => s \in heap'
    BY <1>0, <1>3, <2>2 DEF Listed, QueuedAs
  <2>6. \A s \in Reqs : s # r /\ OnList(s) =>
           s \in heap /\ req'[s] = req[s] /\ req[s].ip # req'[r].ip
    BY <1>0, <1>3 DEF Listed, QueuedAs
  <2>7. \A s, u \in Reqs : OnList(s)' /\ OnList(u)' /\ req'[s].ip = req'[u].ip => s = u
    <3> SUFFICES ASSUME NEW s \in Reqs, NEW u \in Reqs, OnList(s)', OnList(u)',
                        req'[s].ip = req'[u].ip
                 PROVE  s = u
      OBVIOUS
    <3>1. CASE s # r /\ u # r
      <4>1. OnList(s) /\ OnList(u) /\ req[s].ip = req[u].ip
        BY <2>2, <2>6, <3>1
      <4> QED
        BY <1>0, <4>1 DEF Listed
    <3>2. CASE s = r \/ u = r
      BY <2>2, <2>6, <3>2
    <3> QED
      BY <3>1, <3>2
  <2>8. \A s \in heap' : OnList(s)'
    BY <1>5, <2>1, <2>2
  <2> QED
    BY <1>4, <2>3, <2>4, <2>5, <2>7, <2>8 DEF Listed
<1>13. Sweep'
  BY <1>1, <1>4 DEF Sweep, Handling
<1>14. Queued'
  <2>1. ASSUME NEW s \in heap', NEW q \in Packets, Waits(q, s)'
        PROVE  hop'[q] = req'[s].ip /\ q # packet'
    <3>1. s \in heap \/ s = r
      BY <1>3 DEF QueuedAs
    <3>2. CASE s # r
      <4>1. s \in heap /\ Waits(q, s) /\ req'[s] = req[s]
        BY <1>3, <1>8, <2>1, <3>1, <3>2 DEF QueuedAs
      <4> QED
        BY <1>0, <1>1, <4>1, Constants DEF Queued
    <3>3. CASE s = r
      <4>1. q = p \/ (r \in heap /\ Waits(q, r))
        BY <1>8, <2>1, <3>3
      <4>2. req'[r].ip = hop[p] /\ (r \in heap => req[r].ip = hop[p])
        BY <1>3 DEF QueuedAs
      <4> QED
        BY <1>0, <1>1, <3>3, <4>1, <4>2, Constants DEF Queued
    <3> QED
      BY <3>2, <3>3
  <2>2. ASSUME NEW s \in heap', NEW u \in heap',
               NEW i \in DOMAIN req'[s].packets, NEW j \in DOMAIN req'[u].packets,
               req'[s].packets[i] = req'[u].packets[j]
        PROVE  s = u /\ i = j
    <3> DEFINE From(v, k) == IF v = r THEN k - 1 ELSE k
    <3>1. \A v \in heap' : \A k \in DOMAIN req'[v].packets : ~(v = r /\ k = 1) =>
             /\ v \in heap /\ From(v, k) \in DOMAIN req[v].packets
             /\ req'[v].packets[k] = req[v].packets[From(v, k)]
      BY <1>3 DEF QueuedAs, InFront
    <3>2. \A v \in heap' : \A k \in DOMAIN req'[v].packets : ~(v = r /\ k = 1) =>
             req'[v].packets[k] # p
      BY <1>7, <3>1 DEF Waits
    <3>3. req'[r].packets[1] = p
      BY <1>3 DEF QueuedAs, InFront
    <3>4. CASE (s = r /\ i = 1) \/ (u = r /\ j = 1)
      BY <2>2, <3>2, <3>3, <3>4
    <3>5. CASE ~(s = r /\ i = 1) /\ ~(u = r /\ j = 1)
      <4>1. /\ s \in heap /\ From(s, i) \in DOMAIN req[s].packets
            /\ u \in heap /\ From(u, j) \in DOMAIN req[u].packets
            /\ req[s].packets[From(s, i)] = req[u].packets[From(u, j)]
        BY <2>2, <3>1, <3>5
      <4>2. s = u /\ From(s, i) = From(u, j)
        BY <1>0, <4>1 DEF Queued
      <4>3. CASE s # r
        BY <4>2, <4>3
      <4>4. CASE s = r
        <5>1. i \in Int /\ j \in Int
          BY <1>3, <4>2, <4>4 DEF QueuedAs, InFront
        <5>2. i - 1 = j - 1
          BY <4>2, <4>4
        <5> QED
          BY <4>2, <5>1, <5>2
      <4> QED
        BY <4>3, <4>4
    <3> QED
      BY <3>4, <3>5
  <2> QED
    BY <2>1, <2>2 DEF Queued
<1>15. Mapped'
  BY <1>0, <1>1, <1>4 DEF Mapped
<1>16. Fated'
  <2>1. ~Finished(p)
    BY <1>0, <1>2 DEF Fated
  <2>2. \A q \in Packets : hop'[q] = Null \/ q = packet' => ~Finished(q)'
    BY <1>0, <1>1, <1>6, Constants DEF Fated
  <2>3. ASSUME NEW s \in heap', NEW q \in Packets, Waits(q, s)' PROVE ~Finished(q)'
    <3>1. q = p \/ (s \in heap /\ Waits(q, s))
      BY <1>3, <1>8, <2>3 DEF QueuedAs
    <3> QED
      BY <1>5, <1>6, <2>1, <3>1
  <2>4. \A u \in Threads : WalkDone(u)'
    BY <1>4 DEF WalkDone, Threads
  <2>5. \A q \in Packets : hop'[q] # Null =>
           \/ packet' = q
           \/ Finished(q)'
           \/ \E s \in heap' : /\ Waits(q, s)'
                               /\ OnList(s)' \/ (pc'["main"] = "deliver" /\ cur'["main"] = s)
    <3> SUFFICES ASSUME NEW q \in Packets, hop[q] # Null, ~Finished(q)
                 PROVE  \E s \in heap' : Waits(q, s)' /\ OnList(s)'
      BY <1>1, <1>6
    <3>1. r \in heap' /\ OnList(r)' /\ Waits(p, r)'
      BY <1>3, <1>8 DEF QueuedAs
    <3>2. CASE q = p
      BY <3>1, <3>2
    <3>3. CASE q # p
      <4>1. PICK s \in heap : Waits(q, s) /\ OnList(s)
        BY <1>0, <1>1, <1>2, <3>3 DEF Fated
      <4>2. s \in heap' /\ OnList(s)' /\ Waits(q, s)'
        BY <1>3, <1>8, <4>1 DEF QueuedAs
      <4> QED
        BY <4>2
    <3> QED
      BY <3>2, <3>3
  <2>6. \A s \in heap', q \in Packets : Waits(q, s)' =>
           /\ Did(q, "forwarded")' =>
                 pc'["main"] = "destroy" /\ cur'["main"] = s /\ ~OnList(s)'
           /\ Did(q, "host_unreachable")' =>
                 \E u \in Threads : cur'[u] = s /\ pc'[u] \in {"answer", "destroy"}
    <3>1. \A q : ~Finished(q)' => ~Did(q, "forwarded")' /\ ~Did(q, "host_unreachable")'
      BY DEF Finished
    <3> QED
      BY <2>3, <3>1
  <2> QED
    BY <2>2, <2>4, <2>5, <2>6 DEF Fated
<1> QED
  BY <1>1, <1>9, <1>10, <1>11, <1>12, <1>13, <1>14, <1>15, <1>16 DEF Inv, Good

\* A request is taken off the list, and no other.
LEMMA UnlinkFacts ==
    ASSUME TypeOK, Listed, NEW r, requests' = RemoveFirst(requests, r)
    PROVE  /\ requests' \in Seq(Reqs)
           /\ \A i, j \in DOMAIN requests' : requests'[i] = requests'[j] => i = j
           /\ \A s : OnList(s)' <=> s # r /\ OnList(s)
<1>1. requests \in Seq(Reqs) /\ Distinct(requests)
  BY DEF TypeOK, Listed, Distinct
<1>2. PICK q \in Seq(Reqs) : q = requests
  BY <1>1
<1>3. Distinct(q)
  BY <1>1, <1>2
<1>4. /\ RemoveFirst(q, r) \in Seq(Reqs) /\ Distinct(RemoveFirst(q, r))
      /\ \A x : (\E i \in DOMAIN RemoveFirst(q, r) : RemoveFirst(q, r)[i] = x)
                  <=> x # r /\ \E i \in DOMAIN q : q[i] = x
  <2>1. RemoveFirst(q, r) \in Seq(Reqs)
    BY <1>3, RemoveFirstFacts
  <2>2. Distinct(RemoveFirst(q, r))
    BY <1>3, RemoveFirstFacts
  <2>3. \A x : (\E i \in DOMAIN RemoveFirst(q, r) : RemoveFirst(q, r)[i] = x)
                  <=> x # r /\ \E i \in DOMAIN q : q[i] = x
    BY <1>3, RemoveFirstFacts
  <2> QED
    BY <2>1, <2>2, <2>3
<1>5. PICK o : o = RemoveFirst(q, r)
  OBVIOUS
<1>6. requests' = o
  BY <1>2, <1>5
<1> QED
  BY <1>2, <1>4, <1>5, <1>6 DEF OnList, Distinct

LEMMA InvDestroy ==
    ASSUME Inv, fault = "none", NEW t \in Threads, Destroy(t)
    PROVE  Inv'
<1>0. TypeOK /\ Good /\ Control /\ Listed /\ Sweep /\ Queued /\ Mapped /\ Fated
  BY DEF Inv, Good
<1>1. PICK r \in heap : r = cur[t]
  BY DEF Destroy, Alive
<1>2. /\ pc[t] = "destroy" /\ pc[t] \in Handling /\ cur[t] = r /\ r \in Reqs
      /\ requests' = RemoveFirst(requests, r) /\ heap' = heap \ {r}
      /\ req' = [req EXCEPT ![r] = Null] /\ Done(t)
      /\ UNCHANGED <<entries, slept, packet, sha, fault, hop, fate, learned, asked>>
  BY <1>0, <1>1 DEF Destroy, Unlinked, Handling, netVars, TypeOK
<1>3. /\ pc' \in [Threads -> Handling \cup
                     {"idle", "sleep", "lookup", "queue", "deliver", "crashed"}]
      /\ cur' \in [Threads -> Reqs \cup {Null}] /\ walk' \in [Threads -> Nat]
      /\ tries' \in [Threads -> Nat] /\ since' \in [Threads -> 0 .. Old]
      /\ todo' \in Seq(Reqs)
      /\ \A u \in Threads : u # t =>
            pc'[u] = pc[u] /\ cur'[u] = cur[u] /\ walk'[u] = walk[u]
      /\ walk'[t] = 0
      /\ t = "main" => pc'[t] = "idle" /\ cur'[t] = Null /\ todo' = todo
      /\ t = "timer" =>
            \/ /\ pc'[t] = "handle" /\ cur'[t] \in Reqs
               /\ \A s \in Reqs : cur'[t] = s => OnList(s) /\ cur[t] # s
               /\ \A s \in Reqs, i \in DOMAIN todo' : todo'[i] = s =>
                     OnList(s) /\ cur'[t] # s /\ cur[t] # s
            \/ pc'[t] = "sleep" /\ cur'[t] = Null /\ todo' = <<>>
      /\ \A i, j \in DOMAIN todo' : todo'[i] = todo'[j] => i = j
  BY <1>0, <1>2, DoneFacts
<1>4. /\ requests' \in Seq(Reqs)
      /\ \A i, j \in DOMAIN requests' : requests'[i] = requests'[j] => i = j
      /\ \A s : OnList(s)' <=> s # r /\ OnList(s)
  BY <1>0, <1>2, UnlinkFacts
<1>5. /\ \A s \in heap : s # r => req'[s] = req[s]
      /\ req' \in [Reqs -> Request \cup {Null}]
  BY <1>0, <1>2 DEF TypeOK
<1>6. \A s \in heap' : s \in heap /\ s # r
  BY <1>2
<1>7. /\ t = "main" => pc["timer"] = "sleep" /\ cur["timer"] = Null /\ todo = <<>>
      /\ t = "timer" => OnList(r)
  BY <1>0, <1>2 DEF Destroy, LockFree, Control, Sweep
<1>8. /\ \A s \in heap : \A q : s # r => (Waits(q, s)' <=> Waits(q, s))
      /\ \A q, what : Did(q, what)' <=> Did(q, what)
      /\ \A q : Finished(q)' <=> Finished(q)
  BY <1>2, <1>5 DEF Waits, Did, Finished
<1>9. ForwardedAsLearned' /\ OneFate'
  BY <1>0, <1>2, FateKept DEF Inv, TypeOK, Fate
<1>10. TypeOK'
  BY <1>0, <1>2, <1>3, <1>4, <1>5 DEF TypeOK
<1>11. Control'
  <2>1. CASE t = "main"
    BY <1>0, <1>2, <1>3, <1>7, <2>1 DEF Control, Threads, Handling
  <2>2. CASE t = "timer"
    BY <1>0, <1>2, <1>3, <2>2 DEF Control, Threads, Handling
  <2> QED
    BY <2>1, <2>2 DEF Threads
<1>12. Listed'
  <2>1. \A s \in heap' : req'[s] \in Request
    BY <1>0, <1>5, <1>6 DEF Listed
  <2>2. \A s \in Reqs : OnList(s)' => s \in heap' /\ s \in heap /\ s # r /\ OnList(s)
    BY <1>0, <1>2, <1>4 DEF Listed
  <2>3. \A s, u \in Reqs : OnList(s)' /\ OnList(u)' /\ req'[s].ip = req'[u].ip => s = u
    BY <1>0, <1>5, <2>2 DEF Listed
  <2>4. \A s \in heap' :
           OnList(s)' \/ (s = cur'["main"] /\ pc'["main"] \in {"deliver", "destroy"})
    BY <1>0, <1>2, <1>3, <1>4, <1>6 DEF Listed, Threads
  <2>5. \A s \in Reqs : pc'["main"] = "deliver" /\ cur'["main"] = s => s \in heap' /\ ~OnList(s)'
    BY <1>0, <1>2, <1>3, <1>4, <1>7 DEF Listed, Threads
  <2> QED
    BY <1>4, <2>1, <2>2, <2>3, <2>4, <2>5 DEF Listed
<1>13. Sweep'
  <2>1. CASE t = "main"
    BY <1>3, <1>7, <2>1 DEF Sweep, Threads, Handling
  <2>2. CASE t = "timer"
    BY <1>2, <1>3, <1>4, <2>2, Constants DEF Sweep, Handling
  <2> QED
    BY <2>1, <2>2 DEF Threads
<1>14. Queued'
  <2>1. \A s \in heap', q \in Packets : Waits(q, s)' => hop'[q] = req'[s].ip /\ q # packet'
    BY <1>0, <1>2, <1>5, <1>6, <1>8 DEF Queued
  <2>2. \A s, u \in heap' :
           \A i \in DOMAIN req'[s].packets, j \in DOMAIN req'[u].packets :
              req'[s].packets[i] = req'[u].packets[j] => s = u /\ i = j
    BY <1>0, <1>5, <1>6 DEF Queued
  <2> QED
    BY <2>1, <2>2 DEF Queued
<1>15. Mapped'
  <2>1. ASSUME pc'["main"] = "deliver" PROVE <<req'[cur'["main"]].ip, sha'>> \in learned'
    <3>1. t = "timer" /\ pc["main"] = "deliver" /\ cur'["main"] = cur["main"]
      BY <1>3, <2>1 DEF Threads
    <3>2. cur["main"] \in heap /\ cur["main"] # r
      BY <1>0, <1>7, <3>1 DEF Listed, Control, Threads
    <3> QED
      BY <1>0, <1>2, <1>5, <3>1, <3>2 DEF Mapped
  <2> QED
    BY <1>0, <1>2, <2>1 DEF Mapped
<1>16. Fated'
  <2>1. \A q \in Packets : hop'[q] = Null \/ q = packet' => ~Finished(q)'
    BY <1>0, <1>2, <1>8 DEF Fated
  <2>2. ASSUME NEW s \in heap', NEW q \in Packets, Waits(q, s)'
        PROVE  /\ Did(q, "forwarded")' =>
                     pc'["main"] = "destroy" /\ cur'["main"] = s /\ ~OnList(s)'
               /\ Did(q, "host_unreachable")' =>
                     \E u \in Threads : cur'[u] = s /\ pc'[u] \in {"answer", "destroy"}
    <3>1. s \in heap /\ s # r /\ Waits(q, s)
      BY <1>6, <1>8, <2>2
    <3>2. Did(q, "forwarded") => pc["main"] = "destroy" /\ cur["main"] = s /\ ~OnList(s)
      BY <1>0, <3>1 DEF Fated
    <3>3. Did(q, "host_unreachable") =>
             \E u \in Threads : cur[u] = s /\ pc[u] \in {"answer", "destroy"} /\ u # t
      BY <1>0, <1>2, <3>1 DEF Fated
    <3> QED
      BY <1>2, <1>3, <1>4, <1>8, <3>1, <3>2, <3>3 DEF Threads
  <2>3. ASSUME NEW u \in Threads PROVE WalkDone(u)'
    <3>1. CASE u = t
      BY <1>3, <3>1 DEF WalkDone, Threads
    <3>2. CASE u # t
      <4>1. WalkDone(u) /\ pc'[u] = pc[u] /\ cur'[u] = cur[u] /\ walk'[u] = walk[u]
        BY <1>0, <1>3, <3>2 DEF Fated
      <4>2. \A s \in heap' : /\ s \in heap /\ req'[s] = req[s]
                             /\ \A q : Waits(q, s)' <=> Waits(q, s)
        BY <1>5, <1>6, <1>8
      <4> QED
        BY <1>8, <4>1, <4>2 DEF WalkDone
    <3> QED
      BY <3>1, <3>2
  <2>4. \A q \in Packets : hop'[q] # Null =>
           \/ packet' = q
           \/ Finished(q)'
           \/ \E s \in heap' : /\ Waits(q, s)'
                               /\ OnList(s)' \/ (pc'["main"] = "deliver" /\ cur'["main"] = s)
    <3> SUFFICES ASSUME NEW q \in Packets, hop[q] # Null, packet # q, ~Finished(q)
                 PROVE  \E s \in heap' :
                           /\ Waits(q, s)'
                           /\ OnList(s)' \/ (pc'["main"] = "deliver" /\ cur'["main"] = s)
      BY <1>2, <1>8
    <3>1. PICK s \in heap : /\ Waits(q, s)
                            /\ OnList(s) \/ (pc["main"] = "deliver" /\ cur["main"] = s)
      BY <1>0 DEF Fated
    <3>2. s # r
      BY <1>0, <1>2, <3>1 DEF Fated, WalkDone
    <3>3. s \in heap' /\ Waits(q, s)'
      BY <1>2, <1>8, <3>1, <3>2
    <3>4. OnList(s)' \/ (pc'["main"] = "deliver" /\ cur'["main"] = s)
      BY <1>2, <1>3, <1>4, <3>1, <3>2 DEF Threads
    <3> QED
      BY <3>3, <3>4
  <2> QED
    BY <2>1, <2>2, <2>3, <2>4 DEF Fated
<1> QED
  BY <1>2, <1>9, <1>10, <1>11, <1>12, <1>13, <1>14, <1>15, <1>16 DEF Inv, Good

\* An ARP reply takes the request for its sender off the list.
LEMMA InvReceiveReply ==
    ASSUME Inv, fault = "none", NEW h \in Hosts, NEW m \in Macs, ReceiveReply(h, m)
    PROVE  Inv'
<1>0. TypeOK /\ Good /\ Control /\ Listed /\ Sweep /\ Queued /\ Mapped /\ Fated
  BY DEF Inv, Good
<1>1. /\ pc["main"] = "idle" /\ pc["timer"] = "sleep"
      /\ cur["main"] = Null /\ cur["timer"] = Null /\ todo = <<>>
      /\ learned' = learned \cup {<<h, m>>}
      /\ UNCHANGED <<heap, req, walk, tries, since, todo, slept, packet, fault, hop, fate, asked>>
  BY <1>0 DEF ReceiveReply, LockFree, heapVars, Control
<1>2. /\ entries' \in [Slots -> Entry]
      /\ \A i \in Slots : entries'[i].valid =>
            \/ entries[i].valid /\ entries'[i].ip = entries[i].ip
                                /\ entries'[i].mac = entries[i].mac
            \/ <<entries'[i].ip, entries'[i].mac>> \in learned'
  <2>1. CASE UNCHANGED entries
    BY <1>0, <2>1 DEF TypeOK
  <2>2. CASE \E i \in FirstFree :
                entries' = [entries EXCEPT ![i] =
                              [valid |-> TRUE, ip |-> h, mac |-> m, age |-> 0]]
    <3>1. PICK i \in Slots :
                entries' = [entries EXCEPT ![i] =
                              [valid |-> TRUE, ip |-> h, mac |-> m, age |-> 0]]
      BY <2>2 DEF FirstFree, FreeSlots
    <3>2. [valid |-> TRUE, ip |-> h, mac |-> m, age |-> 0] \in Entry
      BY Constants DEF Entry
    <3>3. /\ entries' \in [Slots -> Entry]
          /\ entries'[i] = [valid |-> TRUE, ip |-> h, mac |-> m, age |-> 0]
          /\ \A j \in Slots : j # i => entries'[j] = entries[j]
      BY <1>0, <3>1, <3>2 DEF TypeOK
    <3> QED
      BY <1>1, <3>3
  <2> QED
    BY <2>1, <2>2 DEF ReceiveReply
<1>3. learned \subseteq learned' /\ learned' \subseteq Hosts \X Macs
  BY <1>0, <1>1 DEF TypeOK
<1>4. CASE Pending(h) = {}
  <2>1. UNCHANGED <<requests, pc, cur, sha>>
    BY <1>4 DEF ReceiveReply
  <2>2. TypeOK'
    BY <1>0, <1>1, <1>2, <1>3, <2>1 DEF TypeOK
  <2>3. Control' /\ Sweep'
    BY <1>0, <1>1, <2>1 DEF Control, Sweep, OnList
  <2>4. \A u \in Threads : Going(u)
    BY <1>0, <1>1, <2>1 DEF Going, Control
  <2> QED
    BY <1>0, <1>1, <1>2, <1>3, <2>1, <2>2, <2>3, <2>4, MovesKept DEF Listed
<1>5. CASE Pending(h) # {}
  <2>1. PICK r \in Pending(h) :
           /\ requests' = RemoveFirst(requests, r)
           /\ cur' = [cur EXCEPT !["main"] = r]
           /\ pc' = [pc EXCEPT !["main"] = "deliver"]
           /\ sha' = m
    BY <1>5 DEF ReceiveReply, Taken
  <2>2. OnList(r) /\ req[r].ip = h /\ r \in heap /\ r \in Reqs
    <3>1. OnList(r) /\ req[r].ip = h
      BY <2>1 DEF Pending, ToSet, OnList
    <3>2. r \in Reqs
      BY <1>0, <3>1 DEF OnList, TypeOK
    <3> QED
      BY <1>0, <3>1, <3>2 DEF Listed
  <2>3. /\ requests' \in Seq(Reqs)
        /\ \A i, j \in DOMAIN requests' : requests'[i] = requests'[j] => i = j
        /\ \A s : OnList(s)' <=> s # r /\ OnList(s)
    BY <1>0, <2>1, UnlinkFacts
  <2>4. /\ pc'["main"] = "deliver" /\ pc'["timer"] = "sleep"
        /\ cur'["main"] = r /\ cur'["timer"] = Null
    BY <1>0, <1>1, <2>1, Constants DEF TypeOK
  <2>5. /\ \A q, s : Waits(q, s)' <=> Waits(q, s)
        /\ \A q, what : Did(q, what)' <=> Did(q, what)
        /\ \A q : Finished(q)' <=> Finished(q)
    BY <1>1 DEF Waits, Did, Finished
  <2>6. /\ \A s \in heap : OnList(s)
        /\ \A s \in heap, q \in Packets : Waits(q, s) =>
              ~Finished(q) /\ ~Did(q, "forwarded") /\ ~Did(q, "host_unreachable")
    BY <1>0, <1>1, Resting DEF Finished
  <2>7. ForwardedAsLearned' /\ OneFate'
    BY <1>0, <1>1, <1>3, FateKept DEF Inv, TypeOK, Fate
  <2>8. TypeOK'
    BY <1>0, <1>1, <1>2, <1>3, <2>1, <2>2, <2>3 DEF TypeOK
  <2>9. Control'
    BY <1>0, <1>1, <2>1, <2>2, <2>4 DEF Control, Threads, Handling
  <2>10. Listed'
    BY <1>0, <1>1, <2>2, <2>3, <2>4, <2>6 DEF Listed
  <2>11. Sweep'
    BY <1>1, <2>4 DEF Sweep, Handling
  <2>12. Queued'
    BY <1>0, <1>1, <2>5 DEF Queued
  <2>13. Mapped'
    <3>1. <<req'[cur'["main"]].ip, sha'>> \in learned'
      BY <1>1, <2>1, <2>2, <2>4
    <3> QED
      BY <1>0, <1>2, <1>3, <3>1 DEF Mapped
  <2>14. Fated'
    <3>1. \A q \in Packets : hop'[q] = Null \/ q = packet' => ~Finished(q)'
      BY <1>0, <1>1, <2>5 DEF Fated
    <3>2. \A u \in Threads : WalkDone(u)'
      BY <2>4 DEF WalkDone, Threads
    <3>3. \A q \in Packets : hop'[q] # Null =>
             \/ packet' = q
             \/ Finished(q)'
             \/ \E s \in heap' : /\ Waits(q, s)'
                                 /\ OnList(s)' \/ (pc'["main"] = "deliver" /\ cur'["main"] = s)
      BY <1>0, <1>1, <2>3, <2>4, <2>5 DEF Fated
    <3> QED
      BY <1>1, <2>5, <2>6, <3>1, <3>2, <3>3 DEF Fated
  <2> QED
    BY <1>1, <2>7, <2>8, <2>9, <2>10, <2>11, <2>12, <2>13, <2>14 DEF Inv, Good
<1> QED
  BY <1>4, <1>5

\* The packets of a request that is off the list are forwarded, each once.
LEMMA InvDeliverWaiting ==
    ASSUME Inv, fault = "none", DeliverWaiting
    PROVE  Inv'
<1>0. TypeOK /\ Good /\ Control /\ Listed /\ Sweep /\ Queued /\ Mapped /\ Fated
  BY DEF Inv, Good
<1>1. /\ pc["main"] = "deliver" /\ pc' = [pc EXCEPT !["main"] = "destroy"] /\ sha' = Null
      /\ UNCHANGED <<entries, requests, heap, req, cur, walk, tries, since, todo, slept,
                     packet, fault, hop, learned, asked>>
  BY DEF DeliverWaiting, cacheVars, heapVars
<1>2. PICK r \in heap : r = cur["main"] /\ ~OnList(r)
  BY <1>0, <1>1, Constants DEF Control, Listed
<1>3. cur["main"] = r /\ r \in Reqs /\ req[r] \in Request
  BY <1>0, <1>2 DEF TypeOK, Listed
<1>4. PICK f \in Frames : f = Frame("forwarded", sha)
  BY <1>0, <1>1 DEF Control, Frames, Frame
<1>5. f.what = "forwarded" /\ <<req[r].ip, f.to>> \in learned
  BY <1>0, <1>1, <1>3, <1>4 DEF Frame, Mapped
<1>6. \A q \in Packets : IF Waits(q, r) THEN fate'[q] = Append(fate[q], f)
                                        ELSE fate'[q] = fate[q]
  <2>1. fate' = [q \in Packets |-> IF q \in ToSet(req[cur["main"]].packets)
                    THEN Append(fate[q], Frame("forwarded", sha)) ELSE fate[q]]
    BY DEF DeliverWaiting
  <2>2. \A q : q \in ToSet(req[r].packets) <=> Waits(q, r)
    BY DEF ToSet, Waits
  <2> QED
    BY <1>3, <1>4, <2>1, <2>2
<1>7. \A q \in Packets : Waits(q, r) =>
         /\ hop[q] = req[r].ip /\ hop[q] # Null /\ q # packet
         /\ ~Did(q, "forwarded") /\ ~Did(q, "host_unreachable") /\ ~Finished(q)
  <2> SUFFICES ASSUME NEW q \in Packets, Waits(q, r)
               PROVE  /\ hop[q] = req[r].ip /\ hop[q] # Null /\ q # packet
                      /\ ~Did(q, "forwarded") /\ ~Did(q, "host_unreachable")
    BY DEF Finished
  <2>1. hop[q] = req[r].ip /\ hop[q] # Null /\ q # packet
    BY <1>0, <1>3, Constants DEF Queued, Request
  <2>2. ~Did(q, "forwarded")
    BY <1>0, <1>1 DEF Fated
  <2>3. ASSUME Did(q, "host_unreachable") PROVE FALSE
    <3>1. PICK u \in Threads : cur[u] = r /\ pc[u] \in {"answer", "destroy"}
      BY <1>0, <2>3 DEF Fated
    <3>2. u = "timer"
      BY <1>1, <3>1 DEF Threads
    <3>3. OnList(r)
      BY <1>0, <1>3, <3>1, <3>2 DEF Sweep, Handling
    <3> QED
      BY <1>2, <3>3
  <2> QED
    BY <2>1, <2>2, <2>3
<1>8. ASSUME NEW q \in Packets
      PROVE  /\ fate'[q] \in Seq(Frames)
             /\ \A what : Did(q, what)' <=> Did(q, what) \/ (Waits(q, r) /\ what = "forwarded")
  <2>1. fate[q] \in Seq(Frames)
    BY <1>0 DEF TypeOK
  <2>2. CASE Waits(q, r)
    <3>1. fate'[q] = Append(fate[q], f)
      BY <1>6, <2>2
    <3>2. /\ fate'[q] \in Seq(Frames)
          /\ \A what : Did(q, what)' <=> Did(q, what) \/ f.what = what
      BY <2>1, <3>1, AppendDid
    <3> QED
      BY <1>5, <2>2, <3>2
  <2>3. CASE ~Waits(q, r)
    BY <1>6, <2>1, <2>3 DEF Did
  <2> QED
    BY <2>2, <2>3
<1>9. \A q \in Packets : Finished(q)' <=> Finished(q) \/ Waits(q, r)
  BY <1>8 DEF Finished
<1>10. ForwardedAsLearned' /\ OneFate'
  <2>1. \A q \in Packets : Fate(q)
    BY <1>1, <1>5, <1>6, <1>7 DEF Fate
  <2> QED
    BY <1>0, <1>1, <2>1, FateKept DEF Inv, TypeOK
<1>11. TypeOK'
  <2>1. fate' \in [Packets -> Seq(Frames)]
    <3>1. fate' = [q \in Packets |-> fate'[q]]
      BY DEF DeliverWaiting
    <3> QED
      BY <1>8, <3>1
  <2>2. pc' \in [Threads -> Handling \cup
                   {"idle", "sleep", "lookup", "queue", "deliver", "crashed"}]
    BY <1>0, <1>1 DEF TypeOK, Handling
  <2> QED
    BY <1>0, <1>1, <2>1, <2>2 DEF TypeOK
<1>12. /\ pc'["main"] = "destroy" /\ pc'["timer"] = pc["timer"]
       /\ \A u \in Threads : u # "main" => pc'[u] = pc[u]
  BY <1>0, <1>1, Constants DEF TypeOK
<1>13. /\ \A s : OnList(s)' <=> OnList(s)
       /\ \A q, s : Waits(q, s)' <=> Waits(q, s)
  BY <1>1 DEF OnList, Waits
<1>14. Control'
  BY <1>0, <1>1, <1>12 DEF Control, Threads, Handling
<1>15. Listed'
  BY <1>0, <1>1, <1>12, <1>13 DEF Listed
<1>16. Sweep' /\ Queued' /\ Mapped'
  BY <1>0, <1>1, <1>12, <1>13 DEF Sweep, Queued, Mapped
<1>17. Fated'
  <2>1. \A q \in Packets : hop'[q] = Null \/ q = packet' => ~Finished(q)'
    BY <1>0, <1>1, <1>7, <1>9 DEF Fated
  <2>2. ASSUME NEW s \in heap', NEW q \in Packets, Waits(q, s)'
        PROVE  /\ Did(q, "forwarded")' =>
                     pc'["main"] = "destroy" /\ cur'["main"] = s /\ ~OnList(s)'
               /\ Did(q, "host_unreachable")' =>
                     \E u \in Threads : cur'[u] = s /\ pc'[u] \in {"answer", "destroy"}
    <3>1. s \in heap /\ Waits(q, s)
      BY <1>1, <1>13, <2>2
    <3>2. CASE Waits(q, r)
      <4>1. s = r
        <5>1. \A m, n \in heap :
                 \A i \in DOMAIN req[m].packets, j \in DOMAIN req[n].packets :
                    req[m].packets[i] = req[n].packets[j] => m = n
          BY <1>0 DEF Queued
        <5> QED
          BY <3>1, <3>2, <5>1 DEF Waits
      <4> QED
        BY <1>1, <1>2, <1>7, <1>8, <1>12, <1>13, <3>2, <4>1
    <3>3. CASE ~Waits(q, r)
      <4>1. ~Did(q, "forwarded")'
        BY <1>0, <1>1, <1>8, <3>1, <3>3 DEF Fated
      <4>2. Did(q, "host_unreachable") =>
               \E u \in Threads : cur[u] = s /\ pc[u] \in {"answer", "destroy"} /\ u # "main"
        BY <1>0, <1>1, <3>1 DEF Fated
      <4> QED
        BY <1>1, <1>8, <1>12, <3>3, <4>1, <4>2
    <3> QED
      BY <3>2, <3>3
  <2>3. ASSUME NEW u \in Threads PROVE WalkDone(u)'
    <3>1. CASE u = "main"
      BY <1>1, <1>3, <1>9, <1>12, <1>13, <3>1 DEF WalkDone
    <3>2. CASE u # "main"
      BY <1>0, <1>1, <1>9, <1>12, <1>13, <3>2 DEF Fated, WalkDone
    <3> QED
      BY <3>1, <3>2
  <2>4. \A q \in Packets : hop'[q] # Null =>
           \/ packet' = q
           \/ Finished(q)'
           \/ \E s \in heap' : /\ Waits(q, s)'
                               /\ OnList(s)' \/ (pc'["main"] = "deliver" /\ cur'["main"] = s)
    <3> SUFFICES ASSUME NEW q \in Packets, hop[q] # Null, packet # q,
                        ~Finished(q), ~Waits(q, r)
                 PROVE  \E s \in heap' : Waits(q, s)' /\ OnList(s)'
      BY <1>1, <1>9
    <3>1. PICK s \in heap : /\ Waits(q, s)
                            /\ OnList(s) \/ (pc["main"] = "deliver" /\ cur["main"] = s)
      BY <1>0 DEF Fated
    <3>2. OnList(s)
      BY <1>3, <3>1
    <3> QED
      BY <1>1, <1>13, <3>1, <3>2
  <2> QED
    BY <2>1, <2>2, <2>3, <2>4 DEF Fated
<1> QED
  BY <1>1, <1>10, <1>11, <1>14, <1>15, <1>16, <1>17 DEF Inv, Good

-----------------------------------------------------------------------------
(* Every step                                                                *)

LEMMA InvHandleArpReq ==
    ASSUME Inv, fault = "none", NEW t \in Threads, HandleArpReq(t)
    PROVE  Inv'
<1>1. CASE Handle(t)
  BY <1>1, InvHandle
<1>2. CASE CountTries(t)
  BY <1>2, InvCountTries
<1>3. CASE AnswerWaiting(t)
  BY <1>3, InvAllAnswered, InvAnswerOne
<1>4. CASE Destroy(t)
  BY <1>4, InvDestroy
<1>5. CASE SendRequest(t)
  BY <1>5, InvSendRequest
<1>6. CASE Stamp(t)
  BY <1>6, InvStamp
<1>7. CASE Store(t)
  BY <1>7, InvStore
<1>8. CASE UseFreed(t)
  BY <1>8, InvUseFreed
<1> QED
  BY <1>1, <1>2, <1>3, <1>4, <1>5, <1>6, <1>7, <1>8 DEF HandleArpReq

\* Once memory has been misused or an assertion has failed the model goes no further.
LEMMA Ended == Inv /\ fault # "none" => ~Next
<1> SUFFICES ASSUME Inv, fault # "none" PROVE ~Next
  OBVIOUS
<1>1. pc["main"] = "crashed" /\ pc["timer"] = "crashed"
  BY DEF Inv, Threads
<1>2. ~Arrival
  <2>1. \A p \in Packets : ~Arrives(p)
    BY <1>1 DEF Arrives
  <2> QED
    BY <1>1, <2>1 DEF Arrival, FailsChecksum, Answer, ReceivePacket, ReceiveReply
<1>3. \A t \in Threads : ~HandleArpReq(t)
  BY <1>1 DEF Threads, HandleArpReq, Handling, Handle, CountTries, AnswerWaiting, Destroy,
              SendRequest, Stamp, Store, UseFreed
<1>4. ~LookupHit /\ ~LookupMiss /\ ~QueueReq /\ ~DeliverWaiting /\ ~Wake /\ ~Tick
  BY <1>1 DEF LookupHit, LookupMiss, QueueReq, DeliverWaiting, Wake, Tick
<1> QED
  BY <1>2, <1>3, <1>4 DEF Next, MainStep, TimerStep, Threads

LEMMA InvNext == Inv /\ [Next]_vars => Inv'
<1> SUFFICES ASSUME Inv, [Next]_vars PROVE Inv'
  OBVIOUS
<1>1. CASE fault = "none"
  <2>0. "main" \in Threads /\ "timer" \in Threads
    BY DEF Threads
  <2>1. CASE Arrival
    <3>0. CASE \E p \in Packets : FailsChecksum(p)
      BY <1>1, <3>0, InvFailsChecksum
    <3>1. CASE \E p \in Packets, ttlZero \in BOOLEAN :
                  \/ Answer(p, ttlZero)
                  \/ \E h \in Hosts : ReceivePacket(p, h, ttlZero)
      BY <1>1, <3>1, InvArrival
    <3>2. CASE \E h \in Hosts, m \in Macs : ReceiveReply(h, m)
      BY <1>1, <3>2, InvReceiveReply
    <3> QED
      BY <2>1, <3>0, <3>1, <3>2 DEF Arrival
  <2>2. CASE LookupHit
    BY <1>1, <2>2, InvLookupHit
  <2>3. CASE LookupMiss
    BY <1>1, <2>3, InvLookupMiss
  <2>4. CASE QueueReq
    BY <1>1, <2>4, InvQueueReq
  <2>5. CASE DeliverWaiting
    BY <1>1, <2>5, InvDeliverWaiting
  <2>6. CASE HandleArpReq("main") \/ HandleArpReq("timer")
    BY <1>1, <2>0, <2>6, InvHandleArpReq
  <2>7. CASE Wake
    BY <1>1, <2>7, InvWake
  <2>8. CASE Tick
    BY <1>1, <2>8, InvTick
  <2>9. CASE UNCHANGED vars
    <3>1. UNCHANGED <<entries, requests, heap, req, pc, cur, walk, tries, since, todo, slept,
                      packet, sha, fault, hop, fate, learned, asked>>
      BY <2>9 DEF vars
    <3>2. TypeOK' /\ ForwardedAsLearned' /\ OneFate'
      BY <3>1 DEF Inv, TypeOK, ForwardedAsLearned, OneFate, Did
    <3>3. Control' /\ Listed' /\ Sweep' /\ Queued' /\ Mapped'
      BY <1>1, <3>1 DEF Inv, Good, Control, Listed, Sweep, Queued, Mapped, OnList, Waits
    <3>4. Fated'
      BY <1>1, <3>1 DEF Inv, Good, Fated, WalkDone, Finished, Did, OnList, Waits
    <3> QED
      BY <1>1, <3>1, <3>2, <3>3, <3>4 DEF Inv, Good
  <2> QED
    BY <2>1, <2>2, <2>3, <2>4, <2>5, <2>6, <2>7, <2>8, <2>9
       DEF Next, MainStep, TimerStep
<1>2. CASE fault # "none"
  <2>2. ~Next
    BY <1>2, Ended
  <2>3. UNCHANGED <<entries, requests, heap, req, pc, cur, walk, tries, since, todo, slept,
                    packet, sha, fault, hop, fate, learned, asked>>
    BY <2>2 DEF vars
  <2>4. TypeOK' /\ ForwardedAsLearned' /\ OneFate'
    BY <2>3 DEF Inv, TypeOK, ForwardedAsLearned, OneFate, Did
  <2> QED
    BY <1>2, <2>3, <2>4 DEF Inv
<1> QED
  BY <1>1, <1>2

LEMMA InvAlways == Spec => []Inv
BY InvInit, InvNext, PTL DEF Spec

-----------------------------------------------------------------------------
(* How often a request is counted                                            *)

\* A thread has found times_sent below the limit and has not read it again, or
\* has read it and has not written it back.
Counting(t, r) == cur[t] = r /\ pc[t] \in {"send", "stamp"}
Storing(t, r)  == cur[t] = r /\ pc[t] = "store"

\* Only one of the two threads can be about to go beyond the limit.
Counted ==
    \A r \in heap :
       /\ req[r].times <= MaxTries + 1
       /\ \A t \in Threads :
            /\ Counting(t, r) => req[r].times <= MaxTries
            /\ Storing(t, r) => /\ tries[t] <= MaxTries
                                /\ tries[t] = MaxTries => req[r].times = MaxTries
            /\ \A o \in Threads : o # t =>
                 /\ Counting(t, r) /\ Counting(o, r) => req[r].times < MaxTries
                 /\ Counting(t, r) /\ Storing(o, r) =>
                       req[r].times < MaxTries /\ tries[o] < MaxTries
                 /\ Storing(t, r) /\ Storing(o, r) => tries[t] < MaxTries

\* A thread that stays where it is in counting, gets on with it, or is not at it.
Steady(t) ==
    \/ pc'[t] \notin {"send", "stamp", "store"}
    \/ /\ cur'[t] = cur[t] /\ tries'[t] = tries[t]
       /\ pc'[t] = pc[t] \/ (pc[t] = "send" /\ pc'[t] = "stamp")

LEMMA SteadyKept ==
    ASSUME Counted, heap' \subseteq heap, \A r \in heap' : req'[r].times = req[r].times,
           \A t \in Threads : Steady(t)
    PROVE  Counted'
<1>1. \A t \in Threads, r \in heap' : Counting(t, r)' => Counting(t, r)
  BY DEF Steady, Counting
<1>2. \A t \in Threads, r \in heap' :
         Storing(t, r)' => Storing(t, r) /\ tries'[t] = tries[t]
  BY DEF Steady, Storing
<1> SUFFICES ASSUME NEW r \in heap'
             PROVE  /\ req'[r].times <= MaxTries + 1
                    /\ \A t \in Threads :
                         /\ Counting(t, r)' => req'[r].times <= MaxTries
                         /\ Storing(t, r)' =>
                               /\ tries'[t] <= MaxTries
                               /\ tries'[t] = MaxTries => req'[r].times = MaxTries
                         /\ \A o \in Threads : o # t =>
                              /\ Counting(t, r)' /\ Counting(o, r)' => req'[r].times < MaxTries
                              /\ Counting(t, r)' /\ Storing(o, r)' =>
                                    req'[r].times < MaxTries /\ tries'[o] < MaxTries
                              /\ Storing(t, r)' /\ Storing(o, r)' => tries'[t] < MaxTries
  BY DEF Counted
<1>3. r \in heap /\ req'[r].times = req[r].times
  OBVIOUS
<1> QED
  BY <1>1, <1>2, <1>3 DEF Counted

\* The end of handle_arpreq() for a thread.
LEMMA DoneSteady ==
    ASSUME TypeOK, Control, Sweep, NEW t \in Threads, pc[t] \in Handling, Done(t)
    PROVE  /\ \A u \in Threads : Steady(u)
           /\ pc'[t] \notin {"send", "stamp", "store"}
           /\ \A u \in Threads : u # t =>
                 pc'[u] = pc[u] /\ cur'[u] = cur[u] /\ tries'[u] = tries[u]
<1>1. \A u \in Threads : u # t => pc'[u] = pc[u] /\ cur'[u] = cur[u]
  BY DoneFacts
<1>2. \A u \in Threads : u # t => tries'[u] = tries[u]
  BY DEF Done, TypeOK
<1>3. pc'[t] \in {"idle", "handle", "sleep"}
  BY DoneFacts DEF Threads
<1> QED
  BY <1>1, <1>2, <1>3 DEF Steady

\* A thread that has found times_sent below the limit.
LEMMA CountedCountTries ==
    ASSUME Inv, fault = "none", Counted, NEW t \in Threads, CountTries(t)
    PROVE  Counted'
<1>0. TypeOK /\ Listed
  BY DEF Inv, Good
<1>1. /\ cur[t] \in heap
      /\ pc' = [pc EXCEPT ![t] = IF GivesUp(cur[t]) THEN "answer" ELSE "send"]
      /\ UNCHANGED <<heap, req, cur, tries>>
  BY DEF CountTries, Alive, heapVars
<1>2. \A u \in Threads : u # t => pc'[u] = pc[u]
  BY <1>0, <1>1 DEF TypeOK
<1>3. CASE GivesUp(cur[t])
  <2>1. pc'[t] = "answer"
    BY <1>0, <1>1, <1>3 DEF TypeOK
  <2> QED
    BY <1>1, <1>2, <2>1, SteadyKept DEF Steady
<1>4. CASE ~GivesUp(cur[t])
  <2>1. pc'[t] = "send" /\ req[cur[t]].times < MaxTries
    BY <1>0, <1>1, <1>4, Constants DEF TypeOK, GivesUp, Listed, Request
  <2>2. \A u \in Threads, r \in heap :
           /\ Storing(u, r)' => u # t /\ Storing(u, r)
           /\ Counting(u, r)' => (u = t /\ r = cur[t]) \/ (u # t /\ Counting(u, r))
    BY <1>1, <1>2, <2>1 DEF Storing, Counting
  <2>3. \A r \in heap : req[r].times \in Nat
    BY <1>0 DEF Listed, Request
  <2>4. \A u \in Threads : tries[u] \in Nat
    BY <1>0 DEF TypeOK
  <2> SUFFICES ASSUME NEW r \in heap
               PROVE  /\ req[r].times <= MaxTries + 1
                      /\ \A u \in Threads :
                           /\ Counting(u, r)' => req[r].times <= MaxTries
                           /\ Storing(u, r)' =>
                                 /\ tries[u] <= MaxTries
                                 /\ tries[u] = MaxTries => req[r].times = MaxTries
                           /\ \A o \in Threads : o # u =>
                                /\ Counting(u, r)' /\ Counting(o, r)' => req[r].times < MaxTries
                                /\ Counting(u, r)' /\ Storing(o, r)' =>
                                      req[r].times < MaxTries /\ tries[o] < MaxTries
                                /\ Storing(u, r)' /\ Storing(o, r)' => tries[u] < MaxTries
    BY <1>1 DEF Counted
  <2>5. CASE r = cur[t]
    BY <2>1, <2>2, <2>3, <2>4, <2>5, Constants DEF Counted
  <2>6. CASE r # cur[t]
    BY <2>2, <2>6 DEF Counted
  <2> QED
    BY <2>5, <2>6
<1> QED
  BY <1>3, <1>4

\* A thread that reads times_sent to add one.
LEMMA CountedStamp ==
    ASSUME Inv, fault = "none", Counted, NEW t \in Threads, Stamp(t)
    PROVE  Counted'
<1>0. TypeOK /\ Listed
  BY DEF Inv, Good
<1>1. /\ pc[t] = "stamp" /\ cur[t] \in heap /\ pc' = [pc EXCEPT ![t] = "store"]
      /\ req' = [req EXCEPT ![cur[t]].age = since[t]]
      /\ tries' = [tries EXCEPT ![t] = req[cur[t]].times]
      /\ UNCHANGED <<heap, cur>>
  BY DEF Stamp, Alive
<1>2. /\ pc'[t] = "store" /\ tries'[t] = req[cur[t]].times
      /\ \A u \in Threads : u # t => pc'[u] = pc[u] /\ tries'[u] = tries[u]
  BY <1>0, <1>1 DEF TypeOK
<1>3. \A r \in heap : req'[r].times = req[r].times /\ req[r].times \in Nat
  BY <1>0, <1>1 DEF TypeOK, Listed, Request
<1>4. \A u \in Threads, r \in heap :
         /\ Storing(u, r)' => (u = t /\ r = cur[t]) \/ (u # t /\ Storing(u, r))
         /\ Counting(u, r)' => u # t /\ Counting(u, r)
  BY <1>1, <1>2 DEF Storing, Counting
<1>5. Counting(t, cur[t])
  BY <1>1 DEF Counting
<1>6. \A u \in Threads : tries[u] \in Nat
  BY <1>0 DEF TypeOK
<1> SUFFICES ASSUME NEW r \in heap
             PROVE  /\ req[r].times <= MaxTries + 1
                    /\ \A u \in Threads :
                         /\ Counting(u, r)' => req[r].times <= MaxTries
                         /\ Storing(u, r)' =>
                               /\ tries'[u] <= MaxTries
                               /\ tries'[u] = MaxTries => req[r].times = MaxTries
                         /\ \A o \in Threads : o # u =>
                              /\ Counting(u, r)' /\ Counting(o, r)' => req[r].times < MaxTries
                              /\ Counting(u, r)' /\ Storing(o, r)' =>
                                    req[r].times < MaxTries /\ tries'[o] < MaxTries
                              /\ Storing(u, r)' /\ Storing(o, r)' => tries'[u] < MaxTries
  BY <1>1, <1>3 DEF Counted
<1>7. CASE r = cur[t]
  BY <1>2, <1>3, <1>4, <1>5, <1>6, <1>7, Constants DEF Counted
<1>8. CASE r # cur[t]
  BY <1>2, <1>4, <1>8 DEF Counted
<1> QED
  BY <1>7, <1>8

\* A thread that writes times_sent back: the other, if it is about this request
\* too, has read or will read a number below the limit, or reads this one.
LEMMA CountedStore ==
    ASSUME Inv, fault = "none", Counted, NEW t \in Threads, Store(t)
    PROVE  Counted'
<1>0. TypeOK /\ Control /\ Sweep /\ Listed
  BY DEF Inv, Good
<1>1. /\ pc[t] = "store" /\ pc[t] \in Handling /\ cur[t] \in heap /\ Done(t)
      /\ req' = [req EXCEPT ![cur[t]].times = tries[t] + 1]
      /\ UNCHANGED heap
  BY DEF Store, Alive, Handling
<1>2. /\ pc'[t] \notin {"send", "stamp", "store"}
      /\ \A u \in Threads : u # t =>
            pc'[u] = pc[u] /\ cur'[u] = cur[u] /\ tries'[u] = tries[u]
  BY <1>0, <1>1, DoneSteady
<1>3. /\ \A r \in heap : r # cur[t] => req'[r].times = req[r].times
      /\ req'[cur[t]].times = tries[t] + 1
  BY <1>0, <1>1 DEF TypeOK, Listed, Request
<1>4. \A u \in Threads, r \in heap :
         /\ Storing(u, r)' => u # t /\ Storing(u, r) /\ tries'[u] = tries[u]
         /\ Counting(u, r)' => u # t /\ Counting(u, r)
  BY <1>2 DEF Storing, Counting
<1>5. Storing(t, cur[t])
  BY <1>1 DEF Storing
<1>6. (\A u \in Threads : tries[u] \in Nat) /\ \A r \in heap : req[r].times \in Nat
  BY <1>0 DEF TypeOK, Listed, Request
<1>7. \A u, o \in Threads : u # t /\ o # t => u = o
  BY DEF Threads
<1> SUFFICES ASSUME NEW r \in heap
             PROVE  /\ req'[r].times <= MaxTries + 1
                    /\ \A u \in Threads :
                         /\ Counting(u, r)' => req'[r].times <= MaxTries
                         /\ Storing(u, r)' =>
                               /\ tries'[u] <= MaxTries
                               /\ tries'[u] = MaxTries => req'[r].times = MaxTries
                         /\ \A o \in Threads : o # u =>
                              /\ Counting(u, r)' /\ Counting(o, r)' => req'[r].times < MaxTries
                              /\ Counting(u, r)' /\ Storing(o, r)' =>
                                    req'[r].times < MaxTries /\ tries'[o] < MaxTries
                              /\ Storing(u, r)' /\ Storing(o, r)' => tries'[u] < MaxTries
  BY <1>1 DEF Counted
<1>8. CASE r = cur[t]
  <2>1. tries[t] <= MaxTries /\ req'[r].times = tries[t] + 1
    BY <1>3, <1>5, <1>8 DEF Counted
  <2>2. \A u \in Threads : Counting(u, r)' => tries[t] < MaxTries
    BY <1>4, <1>5, <1>8 DEF Counted
  <2>3. \A u \in Threads : Storing(u, r)' =>
           tries'[u] = tries[u] /\ tries[u] < MaxTries
    BY <1>4, <1>5, <1>8 DEF Counted
  <2> QED
    BY <1>4, <1>6, <1>7, <2>1, <2>2, <2>3, Constants
<1>9. CASE r # cur[t]
  BY <1>3, <1>4, <1>9 DEF Counted
<1> QED
  BY <1>8, <1>9

\* A new request has not been counted, and nobody else knows of it.
LEMMA CountedQueueReq ==
    ASSUME Inv, fault = "none", Counted, QueueReq
    PROVE  Counted'
<1>0. TypeOK /\ Control /\ Listed
  BY DEF Inv, Good
<1>1. /\ pc["timer"] = "sleep" /\ pc' = [pc EXCEPT !["main"] = "handle"]
      /\ UNCHANGED tries
  BY DEF QueueReq, LockFree
<1>2. \A t \in Threads : pc'[t] \notin {"send", "stamp", "store"}
  BY <1>0, <1>1 DEF TypeOK, Threads
<1>3. CASE heap' = heap
  <2>1. PICK r \in Pending(hop[packet]) :
           req' = [req EXCEPT ![r].packets = Waiting(packet, @)]
    <3>1. ~ \E r \in Reqs \ heap : heap' = heap \cup {r}
      BY <1>3
    <3> QED
      BY <3>1 DEF QueueReq
  <2>2. \A s \in heap : req'[s].times = req[s].times
    BY <1>0, <2>1 DEF TypeOK, Listed, Request
  <2> QED
    BY <1>2, <1>3, <2>2, SteadyKept DEF Steady
<1>4. CASE heap' # heap
  <2>1. PICK r \in Reqs \ heap :
           /\ heap' = heap \cup {r}
           /\ req' = [req EXCEPT ![r] =
                 [ip |-> hop[packet], age |-> Old, times |-> 0,
                  packets |-> Waiting(packet, <<>>)]]
    BY <1>4 DEF QueueReq
  <2>2. \A s \in heap : req'[s].times = req[s].times
    BY <1>0, <2>1 DEF TypeOK
  <2>3. req'[r].times = 0
    BY <1>0, <2>1 DEF TypeOK
  <2>4. \A s : \A t \in Threads : ~Counting(t, s)' /\ ~Storing(t, s)'
    BY <1>2 DEF Counting, Storing
  <2>5. \A s \in heap' : req'[s].times <= MaxTries + 1
    BY <2>1, <2>2, <2>3, Constants DEF Counted
  <2> QED
    BY <2>4, <2>5 DEF Counted
<1> QED
  BY <1>3, <1>4

LEMMA CountedHandle ==
    ASSUME Inv, fault = "none", Counted, NEW t \in Threads, HandleArpReq(t)
    PROVE  Counted'
<1>0. TypeOK /\ Control /\ Sweep /\ Listed
  BY DEF Inv, Good
<1>1. CASE Handle(t) /\ req[cur[t]].age < Old
  <2>1. pc[t] \in Handling /\ Done(t) /\ UNCHANGED <<heap, req>>
    BY <1>1 DEF Handle, Handling, heapVars
  <2> QED
    BY <1>0, <2>1, DoneSteady, SteadyKept
<1>2. CASE Handle(t) /\ ~(req[cur[t]].age < Old)
  BY <1>0, <1>2, SteadyKept DEF Handle, Steady, TypeOK, heapVars
<1>3. CASE CountTries(t)
  BY <1>3, CountedCountTries
<1>4. CASE AnswerWaiting(t)
  <2>1. UNCHANGED <<heap, req, cur, tries>>
    BY <1>4 DEF AnswerWaiting, heapVars
  <2>2. \/ pc' = [pc EXCEPT ![t] = "destroy"]
        \/ pc' = [u \in Threads |-> "crashed"]
        \/ pc' = pc
    BY <1>4 DEF AnswerWaiting, Crash
  <2>3. \A u \in Threads : Steady(u)
    BY <1>0, <2>1, <2>2 DEF Steady, TypeOK
  <2> QED
    BY <2>1, <2>3, SteadyKept
<1>5. CASE Destroy(t)
  <2>1. pc[t] \in Handling /\ Done(t) /\ heap' = heap \ {cur[t]}
        /\ req' = [req EXCEPT ![cur[t]] = Null]
    BY <1>5 DEF Destroy, Handling
  <2>2. \A r \in heap' : req'[r].times = req[r].times
    BY <1>0, <2>1 DEF TypeOK
  <2> QED
    BY <1>0, <2>1, <2>2, DoneSteady, SteadyKept
<1>6. CASE SendRequest(t)
  BY <1>0, <1>6, SteadyKept DEF SendRequest, Steady, TypeOK, heapVars
<1>7. CASE Stamp(t)
  BY <1>7, CountedStamp
<1>8. CASE Store(t)
  BY <1>8, CountedStore
<1>9. CASE UseFreed(t)
  BY <1>9, SteadyKept DEF UseFreed, Crash, Steady, heapVars
<1> QED
  BY <1>1, <1>2, <1>3, <1>4, <1>5, <1>6, <1>7, <1>8, <1>9 DEF HandleArpReq

LEMMA CountedNext == Inv /\ Counted /\ [Next]_vars => Counted'
<1> SUFFICES ASSUME Inv, Counted, [Next]_vars PROVE Counted'
  OBVIOUS
<1>0. TypeOK /\ "main" \in Threads /\ "timer" \in Threads
  BY DEF Inv, Threads
<1>1. CASE UNCHANGED vars
  BY <1>1, SteadyKept DEF vars, Steady
<1>2. CASE Next /\ fault # "none"
  BY <1>2, Ended
<1>3. CASE Next /\ fault = "none"
  <2>0. Listed
    BY <1>3 DEF Inv, Good
  <2>1. CASE Arrival
    <3>0. ASSUME NEW p \in Packets, FailsChecksum(p) PROVE Counted'
      BY <3>0, SteadyKept DEF FailsChecksum, Crash, Steady, heapVars
    <3> SUFFICES ASSUME ~ \E p \in Packets : FailsChecksum(p) PROVE Counted'
      BY <3>0
    <3>1. /\ UNCHANGED <<heap, req, tries>>
          /\ \/ UNCHANGED <<pc, cur>>
             \/ pc' = [pc EXCEPT !["main"] = "lookup"] /\ UNCHANGED cur
             \/ \E r : /\ pc' = [pc EXCEPT !["main"] = "deliver"]
                       /\ cur' = [cur EXCEPT !["main"] = r]
      <4>1. CASE \E p \in Packets, ttlZero \in BOOLEAN :
                    \/ Answer(p, ttlZero)
                    \/ \E h \in Hosts : ReceivePacket(p, h, ttlZero)
        BY <4>1 DEF Answer, ReceivePacket, heapVars, threadVars
      <4>2. CASE \E h \in Hosts, m \in Macs : ReceiveReply(h, m)
        BY <4>2 DEF ReceiveReply, heapVars
      <4> QED
        BY <2>1, <4>1, <4>2 DEF Arrival
    <3>2. \A t \in Threads : Steady(t)
      BY <1>0, <3>1 DEF Steady, TypeOK
    <3> QED
      BY <3>1, <3>2, SteadyKept
  <2>2. CASE LookupHit \/ LookupMiss \/ DeliverWaiting
    <3>1. UNCHANGED <<heap, req, tries, cur>>
      BY <2>2 DEF LookupHit, LookupMiss, DeliverWaiting, heapVars
    <3>2. \E to \in {"idle", "queue", "destroy"} : pc' = [pc EXCEPT !["main"] = to]
      BY <2>2 DEF LookupHit, LookupMiss, DeliverWaiting
    <3>3. \A t \in Threads : Steady(t)
      BY <1>0, <3>1, <3>2 DEF Steady, TypeOK
    <3> QED
      BY <3>1, <3>3, SteadyKept
  <2>3. CASE QueueReq
    BY <1>3, <2>3, CountedQueueReq
  <2>4. CASE HandleArpReq("main") \/ HandleArpReq("timer")
    BY <1>0, <1>3, <2>4, CountedHandle
  <2>5. CASE Wake
    <3>1. /\ UNCHANGED <<heap, req, tries>>
          /\ \/ UNCHANGED <<pc, cur>>
             \/ \E r : /\ pc' = [pc EXCEPT !["timer"] = "handle"]
                       /\ cur' = [cur EXCEPT !["timer"] = r]
      BY <2>5 DEF Wake, heapVars
    <3>2. \A t \in Threads : Steady(t)
      BY <1>0, <3>1 DEF Steady, TypeOK
    <3> QED
      BY <3>1, <3>2, SteadyKept
  <2>6. CASE Tick
    <3>1. /\ UNCHANGED <<heap, pc, cur, tries>>
          /\ req' = [r \in Reqs |-> IF r \in heap
                        THEN [req[r] EXCEPT !.age = Capped(@, Old)] ELSE req[r]]
      BY <2>6 DEF Tick
    <3>2. \A r \in heap' : req'[r].times = req[r].times
      BY <1>0, <2>0, <3>1 DEF TypeOK, Listed, Request
    <3> QED
      BY <3>1, <3>2, SteadyKept DEF Steady
  <2> QED
    BY <1>3, <2>1, <2>2, <2>3, <2>4, <2>5, <2>6 DEF Next, MainStep, TimerStep
<1> QED
  BY <1>1, <1>2, <1>3

LEMMA CountedAlways == Spec => []Counted
<1>1. Init => Counted
  BY DEF Init, Counted
<1> QED
  BY <1>1, InvAlways, CountedNext, PTL DEF Spec

-----------------------------------------------------------------------------
(* The theorems, for any number of packets, hosts, requests and mappings     *)

\* The variables keep their types: no step of either thread stores a value
\* struct sr_arpcache or struct sr_arpreq has no room for.
THEOREM TypeCorrect == Spec => []TypeOK
BY InvAlways, InvMeaning, PTL

\* Until freed memory is used, times_sent of a request goes at most one beyond
\* the limit, although both threads may check it, send and count without the
\* lock: of two that count at a time, neither goes beyond it.
THEOREM AttemptsBounded == Spec => []TriesBounded
<1>1. Counted => TriesBounded
  BY DEF Counted, TriesBounded
<1> QED
  BY <1>1, CountedAlways, PTL

\* However handle_arpreq() of the two threads interleave, sr_arpcache_queuereq()
\* makes one request for a host, and until freed memory is used the list holds
\* no request that sr_arpreq_destroy() has freed and loses none that it has not.
THEOREM RequestsStaySound == Spec => []RequestsAreSound
BY InvAlways, InvMeaning, PTL

\* Until freed memory is used, a packet sr_handlepacket() has to forward is in
\* its hands, waits in a request that a reply or the sweep will find, or has
\* been forwarded or answered with host unreachable.
THEOREM NoPacketForgotten == Spec => []NoneForgotten
BY InvAlways, InvMeaning, PTL

\* sr_handlepacket() forwards a packet, at once or when its reply comes, only to
\* an Ethernet address that an ARP reply gave for its next hop.
THEOREM ForwardedToLearned == Spec => []ForwardedAsLearned
BY InvAlways, InvMeaning, PTL

\* No packet is forwarded twice, nor forwarded and reported unreachable: a reply
\* and the last attempt of the timer never get hold of the same packet.
THEOREM OneFateOnly == Spec => []OneFate
BY InvAlways, InvMeaning, PTL

=============================================================================
