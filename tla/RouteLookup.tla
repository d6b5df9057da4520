---------------------------- MODULE RouteLookup ----------------------------
(***************************************************************************)
(* longestPrefixMatch() of the router in Project-4: the walk through the   *)
(* routing table for the route to a destination.                           *)
(*                                                                         *)
(* Masks and addresses are 32-bit numbers as inet_aton() stores them: the  *)
(* octets in network order.  The length of a prefix is counted on the      *)
(* number the host reads there, from its lowest bit, and the host (x86) is *)
(* little-endian: its lowest bits are the first octet.                     *)
(***************************************************************************)
EXTENDS Integers, Sequences, FiniteSets

CONSTANTS
    Width,      \* bits of an address, 32 in the code
    OctetBits,  \* bits of an octet, 8 in the code
    MaxRoutes   \* routes of the table

ASSUME WidthAssumption ==
    /\ Width \in Nat \ {0}
    /\ OctetBits \in Nat \ {0}
    /\ MaxRoutes \in Nat
    /\ Width % OctetBits = 0

VARIABLES
    table,      \* the routing table, in the order of the file rtable
    ip,         \* the destination
    rtEntry,    \* the route the walk is at
    longest,    \* longestPrefixLengthMatched
    best,       \* bestMatchedEntry, 0 for none so far
    pc

vars == <<table, ip, rtEntry, longest, best, pc>>

-----------------------------------------------------------------------------
\* Bit b of an address, in network order: 0 is the first bit of a prefix.
Bits == 0 .. Width - 1
Address == [Bits -> BOOLEAN]

\* What bit p of the number the host reads, lowest bit first, is of an address.
NetworkBit(p) == (p \div OctetBits) * OctetBits + (OctetBits - 1 - (p % OctetBits))

\* A mask as it is written in rtable is the length of its prefix.
Route == [dest : Address, len : 0 .. Width]

Mask(r) == [b \in Bits |-> b < r.len]

Matches(r, a) == \A b \in Bits : Mask(r)[b] => r.dest[b] = a[b]

\* newLongestPrefixMatchHelper(): 32 less the zeros below the lowest one.
Zero(r, p) == ~Mask(r)[NetworkBit(p)]
LowZeros(r) == {p \in Bits : \A q \in 0 .. p : Zero(r, q)}

ZerosInstead(r) == Cardinality(LowZeros(r))                         \* mutant
PrefixLength(r) == Width - Cardinality(LowZeros(r))

-----------------------------------------------------------------------------
\* sr_load_rt() appends the routes of the file one after another.
Init ==
    /\ table \in UNION {[1 .. n -> Route] : n \in 0 .. MaxRoutes}
    /\ ip \in Address
    /\ rtEntry = 1
    /\ longest = 0
    /\ best = 0
    /\ pc = "walk"

\* A tie is for the route that comes first.
NotShorter(len, than) == len >= than                                \* mutant
Longer(len, than) == len > than

LongerOnly(r) == Longer(PrefixLength(r), longest)                   \* mutant
Better(r) == Matches(r, ip) /\ Longer(PrefixLength(r), longest)

Visit ==
    /\ pc = "walk" /\ rtEntry <= Len(table)
    /\ IF Better(table[rtEntry])
       THEN longest' = PrefixLength(table[rtEntry]) /\ best' = rtEntry
       ELSE UNCHANGED <<longest, best>>
    /\ rtEntry' = rtEntry + 1
    /\ UNCHANGED <<table, ip, pc>>

\* bestMatchedEntry is returned, or 0.
Return ==
    /\ pc = "walk" /\ rtEntry > Len(table)
    /\ pc' = "done"
    /\ best' = IF longest > 0 THEN best ELSE 0
    /\ UNCHANGED <<table, ip, rtEntry, longest>>

Next == Visit \/ Return

Spec == Init /\ [][Next]_vars

-----------------------------------------------------------------------------
\* The table is a list of routes, and the walk stays within it.
TypeOK ==
    /\ table \in Seq(Route)
    /\ ip \in Address
    /\ rtEntry \in 1 .. Len(table) + 1
    /\ longest \in 0 .. Width
    /\ best \in 0 .. Len(table)
    /\ pc \in {"walk", "done"}

\* A packet is never sent along a route its destination does not match, and
\* bestMatchedEntry is never returned without having been assigned.
RouteMatches ==
    pc = "done" => /\ best # 0 => Matches(table[best], ip)
                   /\ longest # 0 => best # 0

\* No route is reported missing while one with a mask other than 0.0.0.0
\* matches.
OnlyDefaultRouteMissed ==
    pc = "done" /\ best = 0 =>
        \A i \in DOMAIN table : Matches(table[i], ip) => table[i].len = 0

\* With routes to single hosts only, as in rtable, and more generally whenever
\* all masks are equal, the answer is the first route that matches.
FirstOfEqualMasks ==
    pc = "done" /\ (\A i, j \in DOMAIN table : table[i].len = table[j].len) =>
        \A i \in DOMAIN table :
            Matches(table[i], ip) /\ table[i].len > 0 => best # 0 /\ best <= i

-----------------------------------------------------------------------------
\* The name longestPrefixMatch, and longestPrefixLengthMatched with it: no
\* matching route has a longer mask than the one that is returned.
LongestPrefixWins ==
    pc = "done" /\ best # 0 =>
        \A i \in DOMAIN table :
            Matches(table[i], ip) => table[i].len <= table[best].len

\* "0.0.0.0 10.0.1.1 0.0.0.0 eth3" (router/INSTRUCTIONS:58): a table may have
\* a default route, which serves every destination.
DefaultRouteServes ==
    pc = "done" /\ (\E i \in DOMAIN table : table[i].len = 0) => best # 0

=============================================================================
