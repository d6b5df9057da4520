------------------------- MODULE RouteLookupProofs -------------------------
(***************************************************************************)
(* Theorems about RouteLookup.                                             *)
(***************************************************************************)
EXTENDS RouteLookup, FiniteSetTheorems, SequenceTheorems, TLAPS

LEMMA BitsFinite == IsFiniteSet(Bits) /\ Cardinality(Bits) = Width
<1>1. 0 \in Int /\ Width - 1 \in Int /\ 0 <= Width - 1
  BY WidthAssumption
<1> QED
  BY <1>1, FS_Interval, WidthAssumption DEF Bits

\* The prefix length is a number of bits; it is 0 for no mask but 0.0.0.0,
\* because bit 0 of the address is bit OctetBits - 1 of the number.
LEMMA PrefixLengthFacts ==
    ASSUME NEW r \in Route
    PROVE  /\ PrefixLength(r) \in 0 .. Width
           /\ r.len > 0 => PrefixLength(r) > 0
<1>1. LowZeros(r) \subseteq Bits
  BY DEF LowZeros
<1>2. /\ IsFiniteSet(LowZeros(r))
      /\ Cardinality(LowZeros(r)) \in 0 .. Width
  BY <1>1, BitsFinite, FS_Subset, FS_CardinalityType, WidthAssumption
<1>3. PrefixLength(r) \in 0 .. Width
  BY <1>2, WidthAssumption DEF PrefixLength
<1>4. ASSUME r.len > 0
      PROVE  PrefixLength(r) > 0
  <2>1. OctetBits - 1 \in Bits
    BY WidthAssumption DEF Bits
  <2>2. NetworkBit(OctetBits - 1) = 0
    BY WidthAssumption DEF NetworkBit
  <2>3. ~Zero(r, OctetBits - 1)
    <3>1. 0 \in Bits
      BY WidthAssumption DEF Bits
    <3>2. Mask(r)[0] = (0 < r.len)
      BY <3>1 DEF Mask
    <3>3. 0 < r.len
      BY <1>4, WidthAssumption DEF Route
    <3> QED
      BY <2>2, <3>2, <3>3 DEF Zero
  <2>4. OctetBits - 1 \notin LowZeros(r)
    BY <2>1, <2>3, WidthAssumption DEF LowZeros, Bits
  <2>5. Cardinality(LowZeros(r)) # Width
    BY <1>1, <2>1, <2>4, BitsFinite, FS_Subset
  <2> QED
    BY <1>2, <2>5, WidthAssumption DEF PrefixLength
<1> QED
  BY <1>3, <1>4

-----------------------------------------------------------------------------
(* What the walk has found so far.                                           *)

\* Nothing has been found, or a route that matches, and then longest is the
\* length the code gives its mask.
BestIsMatch ==
    /\ best = 0 => longest = 0
    /\ best # 0 => /\ best < rtEntry
                   /\ Matches(table[best], ip)
                   /\ longest = PrefixLength(table[best])
                   /\ longest > 0

\* No route passed by has a longer mask, as the code counts, and none as long
\* comes before the best.
NoneBetter ==
    \A i \in DOMAIN table : i < rtEntry /\ Matches(table[i], ip) =>
        /\ PrefixLength(table[i]) <= longest
        /\ PrefixLength(table[i]) = longest /\ best # 0 => best <= i

WalkedOff == pc = "done" => rtEntry = Len(table) + 1

WalkInv == TypeOK /\ BestIsMatch /\ NoneBetter /\ WalkedOff

LEMMA InitWalk == Init => WalkInv
<1> SUFFICES ASSUME Init PROVE WalkInv
  OBVIOUS
<1> USE DEF Init
<1>1. PICK n \in 0 .. MaxRoutes : table \in [1 .. n -> Route]
  OBVIOUS
<1>2. n \in Nat
  BY WidthAssumption
<1>3. table \in Seq(Route) /\ Len(table) = n
  BY <1>1, <1>2
<1> QED
  BY <1>3, WidthAssumption DEF WalkInv, TypeOK, BestIsMatch, NoneBetter, WalkedOff

LEMMA VisitWalk == WalkInv /\ Visit => WalkInv'
<1> SUFFICES ASSUME WalkInv, Visit PROVE WalkInv'
  OBVIOUS
<1>1. /\ table \in Seq(Route) /\ Len(table) \in Nat /\ DOMAIN table = 1 .. Len(table)
      /\ rtEntry \in 1 .. Len(table)
      /\ longest \in 0 .. Width /\ best \in 0 .. Len(table)
      /\ pc = "walk"
  BY LenProperties DEF WalkInv, TypeOK, Visit
<1>2. /\ table' = table /\ ip' = ip /\ pc' = pc
      /\ rtEntry' = rtEntry + 1
  BY DEF Visit
<1>3. \A i \in 1 .. Len(table) : PrefixLength(table[i]) \in 0 .. Width
  BY <1>1, PrefixLengthFacts, ElementOfSeq
<1>4. CASE Better(table[rtEntry])
  <2>1. longest' = PrefixLength(table[rtEntry]) /\ best' = rtEntry
    BY <1>4 DEF Visit
  <2>2. Matches(table[rtEntry], ip) /\ longest' > longest
    BY <1>4, <2>1 DEF Better, Longer
  <2>3. TypeOK'
    BY <1>1, <1>2, <1>3, <2>1 DEF TypeOK, WalkInv
  <2>4. BestIsMatch'
    BY <1>1, <1>2, <1>3, <2>1, <2>2, WidthAssumption
       DEF BestIsMatch
  <2>5. NoneBetter'
    <3> SUFFICES ASSUME NEW i \in 1 .. Len(table), i < rtEntry + 1, Matches(table[i], ip)
                 PROVE  /\ PrefixLength(table[i]) <= longest'
                        /\ PrefixLength(table[i]) = longest' => best' <= i
      BY <1>1, <1>2 DEF NoneBetter
    <3>1. CASE i = rtEntry
      BY <1>1, <1>3, <2>1, <3>1
    <3>2. CASE i < rtEntry
      <4>1. PrefixLength(table[i]) <= longest
        BY <1>1, <3>2 DEF WalkInv, NoneBetter
      <4> QED
        BY <1>1, <1>3, <2>1, <2>2, <4>1, WidthAssumption
    <3> QED
      BY <1>1, <3>1, <3>2
  <2>6. WalkedOff'
    BY <1>1, <1>2 DEF WalkedOff
  <2> QED
    BY <2>3, <2>4, <2>5, <2>6 DEF WalkInv
<1>5. CASE ~Better(table[rtEntry])
  <2>1. longest' = longest /\ best' = best
    BY <1>5 DEF Visit
  <2>2. TypeOK'
    BY <1>1, <1>2, <2>1 DEF TypeOK, WalkInv
  <2>3. BestIsMatch'
    BY <1>1, <1>2, <2>1
       DEF WalkInv, BestIsMatch
  <2>4. NoneBetter'
    <3> SUFFICES ASSUME NEW i \in 1 .. Len(table), i < rtEntry + 1, Matches(table[i], ip)
                 PROVE  /\ PrefixLength(table[i]) <= longest
                        /\ PrefixLength(table[i]) = longest /\ best # 0 => best <= i
      BY <1>1, <1>2, <2>1 DEF NoneBetter
    <3>1. CASE i = rtEntry
      <4>1. PrefixLength(table[i]) <= longest
        BY <1>1, <1>3, <1>5, <3>1, WidthAssumption DEF Better, Longer
      <4>2. best # 0 => best < i
        BY <3>1 DEF WalkInv, BestIsMatch
      <4> QED
        BY <1>1, <4>1, <4>2
    <3>2. CASE i < rtEntry
      BY <1>1, <3>2 DEF WalkInv, NoneBetter
    <3> QED
      BY <1>1, <3>1, <3>2
  <2>5. WalkedOff'
    BY <1>1, <1>2 DEF WalkedOff
  <2> QED
    BY <2>2, <2>3, <2>4, <2>5 DEF WalkInv
<1> QED
  BY <1>4, <1>5

LEMMA ReturnWalk == WalkInv /\ Return => WalkInv'
<1> SUFFICES ASSUME WalkInv, Return PROVE WalkInv'
  OBVIOUS
<1>1. /\ table' = table /\ ip' = ip /\ rtEntry' = rtEntry /\ longest' = longest
      /\ best' = best
      /\ pc' = "done"
  BY DEF Return, WalkInv, BestIsMatch, TypeOK
<1>2. /\ Len(table) \in Nat /\ rtEntry = Len(table) + 1
  BY LenProperties DEF Return, WalkInv, TypeOK
<1>3. TypeOK' /\ WalkedOff'
  BY <1>1, <1>2 DEF WalkInv, TypeOK, WalkedOff
<1>4. BestIsMatch' /\ NoneBetter'
  BY <1>1 DEF WalkInv, BestIsMatch, NoneBetter
<1> QED
  BY <1>3, <1>4 DEF WalkInv

LEMMA StutterWalk == WalkInv /\ UNCHANGED vars => WalkInv'
BY DEF vars, WalkInv, TypeOK, BestIsMatch, NoneBetter, WalkedOff

THEOREM WalkInvariant == Spec => []WalkInv
<1>1. WalkInv /\ [Next]_vars => WalkInv'
  BY VisitWalk, ReturnWalk, StutterWalk DEF Next
<1> QED
  BY <1>1, InitWalk, PTL DEF Spec

-----------------------------------------------------------------------------
(* The properties the runs check.                                            *)

\* The types, for every size of addresses, octets and table.
THEOREM TypeCorrect == Spec => []TypeOK
<1>1. WalkInv => TypeOK
  BY DEF WalkInv
<1> QED
  BY <1>1, WalkInvariant, PTL

\* longestPrefixMatch() returns no route but one that matches, and never the
\* uninitialized bestMatchedEntry.
THEOREM ReturnsMatch == Spec => []RouteMatches
<1>1. WalkInv => RouteMatches
  BY DEF WalkInv, BestIsMatch, RouteMatches
<1> QED
  BY <1>1, WalkInvariant, PTL

\* longestPrefixMatch() returns 0 only if no route matches but default routes.
THEOREM MissesDefaultOnly == Spec => []OnlyDefaultRouteMissed
<1>1. WalkInv => OnlyDefaultRouteMissed
  <2> SUFFICES ASSUME WalkInv, pc = "done", best = 0,
                      NEW i \in DOMAIN table, Matches(table[i], ip)
               PROVE  table[i].len = 0
    BY DEF OnlyDefaultRouteMissed
  <2>1. i \in 1 .. Len(table) /\ Len(table) \in Nat /\ i < rtEntry
    BY LenProperties DEF WalkInv, TypeOK, WalkedOff
  <2>2. PrefixLength(table[i]) <= 0
    BY <2>1 DEF WalkInv, BestIsMatch, NoneBetter
  <2>3. table[i] \in Route
    BY <2>1, ElementOfSeq DEF WalkInv, TypeOK
  <2>4. table[i].len \in 0 .. Width
    BY <2>3 DEF Route
  <2> QED
    BY <2>2, <2>3, <2>4, PrefixLengthFacts, WidthAssumption
<1> QED
  BY <1>1, WalkInvariant, PTL

\* With masks of one length the first match wins.
THEOREM FirstMatchWins == Spec => []FirstOfEqualMasks
<1>1. WalkInv => FirstOfEqualMasks
  <2> SUFFICES ASSUME WalkInv, pc = "done",
                      \A j, k \in DOMAIN table : table[j].len = table[k].len,
                      NEW i \in DOMAIN table, Matches(table[i], ip), table[i].len > 0
               PROVE  best # 0 /\ best <= i
    BY DEF FirstOfEqualMasks
  <2>1. i \in 1 .. Len(table) /\ Len(table) \in Nat /\ i < rtEntry
    BY LenProperties DEF WalkInv, TypeOK, WalkedOff
  <2>2. PrefixLength(table[i]) <= longest /\ PrefixLength(table[i]) > 0
    BY <2>1, ElementOfSeq, PrefixLengthFacts DEF WalkInv, NoneBetter, TypeOK
  <2>3. best # 0
    BY <2>1, <2>2, ElementOfSeq, PrefixLengthFacts, WidthAssumption
       DEF WalkInv, BestIsMatch, TypeOK
  <2>4. best \in DOMAIN table
    BY <2>1, <2>3, LenProperties DEF WalkInv, TypeOK
  <2>5. table[best].len = table[i].len
    BY <2>4
  <2>6. PrefixLength(table[best]) = PrefixLength(table[i])
    BY <2>5 DEF PrefixLength, LowZeros, Zero, Mask
  <2> QED
    BY <2>1, <2>3, <2>6 DEF WalkInv, BestIsMatch, NoneBetter
<1> QED
  BY <1>1, WalkInvariant, PTL
=============================================================================
