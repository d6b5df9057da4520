-------------------------- MODULE LtFramingProofs --------------------------
(***************************************************************************)
(* Proofs about LtFraming for messages of any length, any number of them   *)
(* and any way to cut the stream.                                          *)
(*                                                                         *)
(* Aligned is inductive: as long as what was taken from the stream ends    *)
(* where a message starts, the bytes there are its length, and taking that *)
(* many bytes ends where the next one starts.  From it every step is one   *)
(* of MessageChannel or a stutter.                                         *)
(***************************************************************************)
EXTENDS LtFraming, SequenceTheorems, TLAPS

\* The number and the length of the message that the reader of d is at.
Number(d) == Len(received[d]) + 1
Length(d) == bound[d][Number(d) + 1] - bound[d][Number(d)]

(* Bytes that were not taken belong to a message.                             *)
LEMMA MessageThere ==
    ASSUME FramingAssumption, TypeOK, NEW d \in Directions, StreamAligned(d),
           taken[d] < arrived[d]
    PROVE  Number(d) < Len(bound[d])
<1>1. Len(received[d]) \in Nat /\ Len(bound[d]) \in Nat
  BY DEF TypeOK
<1>2. Len(received[d]) < Len(bound[d]) /\ taken[d] = bound[d][Number(d)]
      /\ arrived[d] <= bound[d][Len(bound[d])]
  BY DEF StreamAligned, Number, Written
<1>3. Number(d) # Len(bound[d])
  <2> SUFFICES ASSUME Number(d) = Len(bound[d]) PROVE FALSE
    OBVIOUS
  <2> QED BY <1>2 DEF TypeOK
<1> QED BY <1>1, <1>2, <1>3 DEF Number

(* The bytes that follow are read as the length of the next message, and that *)
(* many bytes are the message.                                                *)
LEMMA NextMessage ==
    ASSUME FramingAssumption, TypeOK, NEW d \in Directions, StreamAligned(d),
           Number(d) < Len(bound[d])
    PROVE  /\ Lengths(d, taken[d]) = {Length(d)}
           /\ Length(d) \in Nat /\ Length(d) >= HeaderSize
           /\ taken[d] + Length(d) = bound[d][Number(d) + 1]
           /\ Unpacked(d, taken[d], Length(d)) = Number(d)
<1> DEFINE b == bound[d]
           k == Number(d)
           m == Len(b)
<1>1. b \in Seq(Nat) /\ m \in Nat /\ k \in Nat /\ k < m /\ k >= 1
  BY DEF TypeOK, Number
<1>2. \A i \in 1 .. m : b[i] \in Nat
  BY <1>1
<1>3. \A i, j \in 1 .. m : i < j => b[i] + HeaderSize <= b[j]
  BY DEF StreamAligned
<1>4. taken[d] = b[k]
  BY DEF StreamAligned, Number
<1> HIDE DEF b, m, k
<1>5. \A n \in 1 .. m - 1 : b[n] = b[k] => n = k
  BY <1>1, <1>2, <1>3 DEF FramingAssumption
<1>6. /\ k \in 1 .. Len(bound[d]) - 1
      /\ \A n \in 1 .. Len(bound[d]) - 1 : StartsAt(d, taken[d], n) <=> n = k
  <2>1. k \in 1 .. m - 1
    BY <1>1
  <2>2. \A n \in 1 .. m - 1 : b[n] = taken[d] <=> n = k
    BY <1>4, <1>5
  <2> QED BY <2>1, <2>2 DEF StartsAt, b, m
<1>7. Length(d) = b[k + 1] - b[k]
  BY DEF Length, b, k
<1>8. Length(d) \in Nat /\ Length(d) >= HeaderSize /\ taken[d] + Length(d) = b[k + 1]
  <2>1. k + 1 \in 1 .. m /\ k \in 1 .. m
    BY <1>1
  <2>2. b[k] + HeaderSize <= b[k + 1] /\ b[k] \in Nat /\ b[k + 1] \in Nat
    BY <2>1, <1>1, <1>2, <1>3
  <2> QED BY <2>2, <1>7, <1>4 DEF FramingAssumption
<1>9. Lengths(d, taken[d]) = {Length(d)}
  <2>1. Lengths(d, taken[d]) = {bound[d][n + 1] - taken[d] :
            n \in {i \in 1 .. Len(bound[d]) - 1 : StartsAt(d, taken[d], i)}}
    BY <1>6 DEF Lengths
  <2>2. {i \in 1 .. Len(bound[d]) - 1 : StartsAt(d, taken[d], i)} = {k}
    BY <1>6
  <2> QED BY <2>1, <2>2, <1>4, <1>7 DEF b
<1>10. Unpacked(d, taken[d], Length(d)) = k
  <2>1. \A n \in 1 .. Len(bound[d]) - 1 :
            StartsAt(d, taken[d], n) /\ bound[d][n + 1] = taken[d] + Length(d) <=> n = k
    BY <1>6, <1>8 DEF b
  <2> QED BY <2>1, <1>6 DEF Unpacked
<1> QED BY <1>8, <1>9, <1>10 DEF b, k

-----------------------------------------------------------------------------
(* The invariant *)

LEMMA AlignedInit == FramingAssumption /\ Init => Aligned
<1> SUFFICES ASSUME FramingAssumption, Init PROVE Aligned
  OBVIOUS
<1>1. <<0>> \in Seq(Nat) /\ Len(<<0>>) = 1 /\ <<0>>[1] = 0
  OBVIOUS
<1>2. TypeOK
  <2>1. bound \in [Directions -> Seq(Nat)] /\ received \in [Directions -> Seq(Nat)]
    BY <1>1 DEF Init
  <2> QED BY <2>1 DEF Init, TypeOK
<1>3. \A d \in Directions : StreamAligned(d)
  BY <1>1 DEF Init, StreamAligned, Written
<1>4. MessageRead
  BY DEF Init, MessageRead, FramingAssumption, Directions
<1> QED BY <1>2, <1>3, <1>4 DEF Aligned

(* A message sent is put behind the others.                                   *)
LEMMA SendAligned ==
    ASSUME FramingAssumption, Aligned, NEW e \in Directions, Send(e)
    PROVE  Aligned'
<1>1. PICK size \in Sizes : bound' = [bound EXCEPT ![e] = Append(@, Written(e) + size)]
  BY DEF Send
<1> DEFINE b == bound[e]
           m == Len(b)
           w == b[m]
<1>2. b \in Seq(Nat) /\ m \in Nat /\ m >= 1 /\ w \in Nat /\ size \in Nat /\ size >= HeaderSize
  <2>1. b \in Seq(Nat) /\ m \in Nat /\ m >= 1
    BY DEF Aligned, TypeOK, StreamAligned
  <2> QED BY <2>1 DEF FramingAssumption
<1>3. /\ bound'[e] \in Seq(Nat) /\ Len(bound'[e]) = m + 1
      /\ \A i \in 1 .. m : bound'[e][i] = b[i]
      /\ bound'[e][m + 1] = w + size
      /\ \A d \in Directions \ {e} : bound'[d] = bound[d]
  <2>1. w + size \in Nat
    BY <1>2
  <2>2. bound'[e] = Append(b, w + size)
    BY <1>1 DEF Aligned, TypeOK, Written
  <2>3. \A d \in Directions \ {e} : bound'[d] = bound[d]
    BY <1>1 DEF Aligned, TypeOK
  <2> QED BY <1>2, <2>1, <2>2, <2>3
<1>4. TypeOK'
  <2>1. bound' \in [Directions -> Seq(Nat)]
    <3>1. DOMAIN bound' = Directions /\ bound' = [d \in Directions |-> bound'[d]]
      BY <1>1 DEF Aligned, TypeOK
    <3>2. \A d \in Directions : bound'[d] \in Seq(Nat)
      BY <1>3 DEF Aligned, TypeOK
    <3> QED BY <3>1, <3>2
  <2> QED BY <2>1 DEF Aligned, TypeOK, Send
<1> HIDE DEF b, m, w
<1>5. \A d \in Directions : StreamAligned(d)'
  <2> SUFFICES ASSUME NEW d \in Directions PROVE StreamAligned(d)'
    OBVIOUS
  <2>0. /\ received'[d] = received[d] /\ taken'[d] = taken[d] /\ arrived'[d] = arrived[d]
        /\ Len(received[d]) \in Nat /\ taken[d] \in Nat /\ arrived[d] \in Nat
        /\ StreamAligned(d)
    BY DEF Send, Aligned, TypeOK
  <2>1. CASE d # e
    BY <2>0, <2>1, <1>3 DEF StreamAligned, Written
  <2>2. CASE d = e
    <3>1. \A i, j \in 1 .. m : i < j => b[i] + HeaderSize <= b[j]
      BY <2>0, <2>2 DEF StreamAligned, b, m
    <3>2. \A i \in 1 .. m : b[i] \in Nat /\ b[i] <= w
      <4> SUFFICES ASSUME NEW i \in 1 .. m PROVE b[i] \in Nat /\ b[i] <= w
        OBVIOUS
      <4>1. b[i] \in Nat
        BY <1>2 DEF m
      <4>2. CASE i = m
        BY <4>1, <4>2 DEF w
      <4>3. CASE i < m
        <5>1. b[i] + HeaderSize <= b[m]
          BY <3>1, <4>3, <1>2
        <5> QED BY <5>1, <4>1, <1>2 DEF w, FramingAssumption
      <4> QED BY <4>2, <4>3, <1>2
    <3>3. \A i, j \in 1 .. m + 1 : i < j => bound'[e][i] + HeaderSize <= bound'[e][j]
      <4> SUFFICES ASSUME NEW i \in 1 .. m + 1, NEW j \in 1 .. m + 1, i < j
                   PROVE bound'[e][i] + HeaderSize <= bound'[e][j]
        OBVIOUS
      <4>1. i \in 1 .. m /\ bound'[e][i] = b[i]
        BY <1>2, <1>3
      <4>2. CASE j = m + 1
        BY <4>1, <4>2, <3>2, <1>2, <1>3 DEF FramingAssumption
      <4>3. CASE j \in 1 .. m
        BY <4>1, <4>3, <3>1, <1>3
      <4> QED BY <4>2, <4>3, <1>2
    <3>4. /\ Len(received[d]) < m /\ taken[d] = b[Len(received[d]) + 1]
          /\ taken[d] <= arrived[d] /\ arrived[d] <= w
          /\ \A n \in 1 .. Len(received[d]) : received[d][n] = n
      BY <2>0, <2>2 DEF StreamAligned, Written, b, m, w
    <3>5. taken[d] = bound'[e][Len(received[d]) + 1]
      <4>1. Len(received[d]) + 1 \in 1 .. m
        BY <3>4, <1>2, <2>0
      <4> QED BY <4>1, <3>4, <1>3
    <3> QED BY <2>0, <2>2, <3>3, <3>4, <3>5, <1>2, <1>3 DEF StreamAligned, Written
  <2> QED BY <2>1, <2>2
<1>6. MessageRead'
  <2>0. /\ received' = received /\ taken' = taken /\ arrived' = arrived
        /\ got' = got /\ need' = need /\ MessageRead
    BY DEF Send, Aligned
  <2>1. CASE e # "down"
    <3>1. bound'["down"] = bound["down"]
      BY <1>3, <2>1 DEF Directions
    <3> QED BY <2>0, <3>1 DEF MessageRead
  <2>2. CASE e = "down"
    <3>1. Len(received["down"]) \in Nat
      BY DEF Aligned, TypeOK, Directions
    <3>2. Len(bound["down"]) = m /\ Len(bound'["down"]) = m + 1
      BY <1>3, <2>2 DEF b, m
    <3>3. Len(received["down"]) + 1 < m =>
             /\ bound'["down"][Len(received["down"]) + 1] = bound["down"][Len(received["down"]) + 1]
             /\ bound'["down"][Len(received["down"]) + 1 + 1] = bound["down"][Len(received["down"]) + 1 + 1]
      <4> SUFFICES ASSUME Len(received["down"]) + 1 < m
                   PROVE  /\ Len(received["down"]) + 1 \in 1 .. m
                          /\ Len(received["down"]) + 1 + 1 \in 1 .. m
        BY <1>3, <2>2 DEF b
      <4> QED BY <3>1, <1>2
    <3> QED BY <2>0, <3>1, <3>2, <3>3, <1>2 DEF MessageRead
  <2> QED BY <2>1, <2>2
<1> QED BY <1>4, <1>5, <1>6 DEF Aligned

(* Taking the next message, once it is there, leaves the reader at the start  *)
(* of the one behind it.                                                      *)
LEMMA TakeMessage ==
    ASSUME FramingAssumption, TypeOK, \A d \in Directions : StreamAligned(d),
           NEW e \in Directions, Number(e) < Len(bound[e]),
           taken[e] + Length(e) <= arrived[e],
           received' = [received EXCEPT ![e] = Append(@, Number(e))],
           taken' = [taken EXCEPT ![e] = @ + Length(e)],
           bound' = bound, arrived' = arrived
    PROVE  /\ \A d \in Directions : StreamAligned(d)'
           /\ received' \in [Directions -> Seq(Nat)]
           /\ taken' \in [Directions -> Nat]
<1>1. /\ Length(e) \in Nat /\ taken[e] + Length(e) = bound[e][Number(e) + 1]
      /\ Number(e) \in Nat /\ taken[e] \in Nat
  BY NextMessage DEF TypeOK, Number
<1>2. /\ received'[e] = Append(received[e], Number(e))
      /\ \A d \in Directions \ {e} : received'[d] = received[d]
      /\ received' \in [Directions -> Seq(Nat)]
  <2>1. Append(received[e], Number(e)) \in Seq(Nat)
    BY <1>1 DEF TypeOK
  <2> QED BY <2>1 DEF TypeOK
<1>3. /\ taken'[e] = taken[e] + Length(e)
      /\ \A d \in Directions \ {e} : taken'[d] = taken[d]
      /\ taken' \in [Directions -> Nat]
  BY <1>1 DEF TypeOK
<1>4. /\ received[e] \in Seq(Nat) /\ Len(received[e]) \in Nat /\ Len(received'[e]) = Number(e)
      /\ \A i \in 1 .. Len(received[e]) : received'[e][i] = received[e][i]
      /\ received'[e][Number(e)] = Number(e)
  <2>1. received[e] \in Seq(Nat)
    BY DEF TypeOK
  <2> QED BY <2>1, <1>1, <1>2 DEF Number
<1>5. \A d \in Directions : StreamAligned(d)'
  <2> SUFFICES ASSUME NEW d \in Directions PROVE StreamAligned(d)'
    OBVIOUS
  <2>1. CASE d # e
    BY <2>1, <1>2, <1>3 DEF StreamAligned, Written
  <2>2. CASE d = e
    <3>1. \A n \in 1 .. Len(received'[e]) : received'[e][n] = n
      <4> SUFFICES ASSUME NEW n \in 1 .. Len(received'[e]) PROVE received'[e][n] = n
        OBVIOUS
      <4>1. n \in 1 .. Len(received[e]) \/ n = Number(e)
        BY <1>4 DEF Number
      <4> QED BY <4>1, <1>4 DEF StreamAligned
    <3>2. taken'[e] = bound[e][Len(received'[e]) + 1] /\ taken'[e] <= arrived[e]
          /\ Len(received'[e]) < Len(bound[e])
      BY <1>1, <1>3, <1>4
    <3> QED BY <2>2, <3>1, <3>2 DEF StreamAligned, Written
  <2> QED BY <2>1, <2>2
<1> QED BY <1>2, <1>3, <1>5

(* A segment brings no more than was written.                                 *)
LEMMA SegmentAligned ==
    ASSUME Aligned, NEW e \in Directions,
           NEW n \in arrived[e] + 1 .. Written(e),
           arrived' = [arrived EXCEPT ![e] = n],
           UNCHANGED <<bound, taken, received, got, need>>
    PROVE  /\ arrived' \in [Directions -> Nat]
           /\ \A d \in Directions : StreamAligned(d)'
           /\ MessageRead'
<1>1. Written(e) \in Nat /\ arrived[e] \in Nat /\ taken \in [Directions -> Nat]
  <2>1. bound[e] \in Seq(Nat) /\ Len(bound[e]) >= 1
    BY DEF Aligned, TypeOK, StreamAligned
  <2> QED BY <2>1 DEF Aligned, TypeOK, Written
<1>2. n \in Nat /\ n > arrived[e] /\ n <= Written(e)
  BY <1>1
<1>3. /\ arrived' \in [Directions -> Nat] /\ arrived'[e] = n
      /\ \A d \in Directions \ {e} : arrived'[d] = arrived[d]
      /\ \A d \in Directions : arrived[d] \in Nat /\ arrived'[d] >= arrived[d]
  BY <1>2 DEF Aligned, TypeOK
<1>4. \A d \in Directions : StreamAligned(d)'
  <2> SUFFICES ASSUME NEW d \in Directions PROVE StreamAligned(d)'
    OBVIOUS
  <2>1. taken[d] <= arrived'[d]
    <3>1. taken[d] <= arrived[d] /\ taken[d] \in Nat /\ arrived'[d] \in Nat
      BY <1>1, <1>3 DEF Aligned, StreamAligned
    <3> QED BY <3>1, <1>3
  <2>2. arrived'[d] <= Written(d)
    BY <1>2, <1>3 DEF Aligned, StreamAligned
  <2> QED BY <2>1, <2>2 DEF Aligned, StreamAligned, Written
<1>5. MessageRead'
  <2>1. "down" \in Directions /\ got \in Nat
    BY DEF Directions, Aligned, TypeOK
  <2>2. taken["down"] + got <= arrived'["down"]
    <3>1. taken["down"] + got <= arrived["down"] /\ taken["down"] \in Nat
      BY <2>1, <1>1 DEF Aligned, MessageRead
    <3> QED BY <3>1, <2>1, <1>3
  <2> QED BY <2>2 DEF Aligned, MessageRead
<1> QED BY <1>3, <1>4, <1>5

(* What a turn of dataReceived() takes is the next message.                   *)
LEMMA UnpackTakes ==
    ASSUME FramingAssumption, Aligned, Unpack
    PROVE  /\ Number("up") < Len(bound["up"])
           /\ taken["up"] + Length("up") <= arrived["up"]
           /\ received' = [received EXCEPT !["up"] = Append(@, Number("up"))]
           /\ taken' = [taken EXCEPT !["up"] = @ + Length("up")]
           /\ UNCHANGED <<link, failed, looping>> \/ (Fail("up") /\ looping' = FALSE)
<1>1. "up" \in Directions /\ TypeOK /\ StreamAligned("up")
  BY DEF Directions, Aligned
<1>2. arrived["up"] \in Nat /\ taken["up"] \in Nat /\ Plen >= LenSize
  BY <1>1 DEF TypeOK, Unpack
<1>3. taken["up"] < arrived["up"]
  BY <1>2 DEF Plen, FramingAssumption
<1>4. Number("up") < Len(bound["up"])
  BY <1>1, <1>3, MessageThere
<1>5. /\ Lengths("up", taken["up"]) = {Length("up")}
      /\ Length("up") \in Nat /\ Length("up") >= HeaderSize
      /\ Unpacked("up", taken["up"], Length("up")) = Number("up")
  BY <1>1, <1>4, NextMessage
<1>6. PICK lenNeeded \in Lengths("up", taken["up"]) :
          /\ Plen >= lenNeeded
          /\ taken' = [taken EXCEPT !["up"] = @ + lenNeeded]
          /\ IF lenNeeded < HeaderSize
             THEN UNCHANGED received
             ELSE received' = [received EXCEPT !["up"] =
                                   Append(@, Unpacked("up", taken["up"], lenNeeded))]
          /\ \/ lenNeeded >= HeaderSize /\ UNCHANGED <<failed, link, looping>>
             \/ Fail("up") /\ looping' = FALSE
  BY DEF Unpack
<1>7. lenNeeded = Length("up")
  BY <1>5, <1>6
<1>8. ~(lenNeeded < HeaderSize)
  BY <1>5, <1>7 DEF FramingAssumption
<1>9. taken["up"] + Length("up") <= arrived["up"]
  BY <1>2, <1>5, <1>6, <1>7 DEF Plen
<1> QED BY <1>4, <1>5, <1>6, <1>7, <1>8, <1>9

(* And so is what the router handles when it has read need bytes.             *)
LEMMA CommandTakes ==
    ASSUME FramingAssumption, Aligned, Command
    PROVE  /\ Number("down") < Len(bound["down"])
           /\ taken["down"] + Length("down") <= arrived["down"]
           /\ received' = [received EXCEPT !["down"] = Append(@, Number("down"))]
           /\ taken' = [taken EXCEPT !["down"] = @ + Length("down")]
<1>1. "down" \in Directions /\ TypeOK /\ StreamAligned("down") /\ MessageRead
  BY DEF Directions, Aligned
<1>2. /\ need # 0 /\ got >= need /\ got \in Nat /\ need \in Nat
      /\ taken["down"] \in Nat /\ arrived["down"] \in Nat
  BY <1>1 DEF Command, TypeOK
<1>3. Number("down") < Len(bound["down"]) /\ need = Length("down") /\ got <= need
      /\ taken["down"] + got <= arrived["down"]
  BY <1>1, <1>2 DEF MessageRead, Number, Length
<1>4. Unpacked("down", taken["down"], Length("down")) = Number("down")
  BY <1>1, <1>3, NextMessage
<1>5. taken["down"] + Length("down") <= arrived["down"]
  BY <1>2, <1>3
<1> QED BY <1>3, <1>4, <1>5 DEF Command

(* Every step keeps the readers aligned.                                      *)
LEMMA AlignedStep ==
    ASSUME FramingAssumption, Aligned, [Next]_vars
    PROVE  Aligned'
<1>0. TypeOK /\ MessageRead /\ \A d \in Directions : StreamAligned(d)
  BY DEF Aligned
<1>00. "up" \in Directions /\ "down" \in Directions /\ "up" # "down"
  BY DEF Directions
<1>01. ASSUME NEW d \in Directions, Fail(d)
       PROVE  failed' \subseteq Directions
              /\ link' \in [Directions -> {"open", "closed", "cut"}]
  BY <1>0, <1>01 DEF Fail, TypeOK, Other, Directions
<1>1. ASSUME NEW d \in Directions, Send(d) PROVE Aligned'
  BY <1>1, SendAligned
<1>2. ASSUME NEW d \in Directions, Hangup(d) \/ Cut(d) PROVE Aligned'
  <2>1. link' \in [Directions -> {"open", "closed", "cut"}]
    BY <1>0, <1>2 DEF Hangup, Cut, TypeOK
  <2>2. UNCHANGED <<bound, arrived, taken, received, failed, looping, got, need>>
    BY <1>2 DEF Hangup, Cut
  <2> QED BY <1>0, <2>1, <2>2 DEF Aligned, TypeOK, MessageRead, StreamAligned, Written
<1>3. CASE Segment
  <2>1. PICK n \in arrived["down"] + 1 .. Written("down") :
            arrived' = [arrived EXCEPT !["down"] = n]
    BY <1>3 DEF Segment
  <2>2. UNCHANGED <<bound, link, taken, received, failed, looping, got, need>>
    BY <1>3 DEF Segment
  <2>3. /\ arrived' \in [Directions -> Nat]
        /\ \A d \in Directions : StreamAligned(d)'
        /\ MessageRead'
    BY <2>1, <2>2, <1>00, SegmentAligned
  <2> QED BY <1>0, <2>2, <2>3 DEF Aligned, TypeOK
<1>4. CASE DataReceived
  <2>1. PICK n \in arrived["up"] + 1 .. Written("up") :
            arrived' = [arrived EXCEPT !["up"] = n]
    BY <1>4 DEF DataReceived
  <2>2. UNCHANGED <<bound, link, taken, received, failed, got, need>> /\ looping' = TRUE
    BY <1>4 DEF DataReceived
  <2>3. /\ arrived' \in [Directions -> Nat]
        /\ \A d \in Directions : StreamAligned(d)'
        /\ MessageRead'
    BY <2>1, <2>2, <1>00, SegmentAligned
  <2> QED BY <1>0, <2>2, <2>3 DEF Aligned, TypeOK
<1>5. CASE Unpack
  <2>1. UNCHANGED <<bound, arrived, got, need>>
    BY <1>5 DEF Unpack
  <2>2. /\ \A d \in Directions : StreamAligned(d)'
        /\ received' \in [Directions -> Seq(Nat)]
        /\ taken' \in [Directions -> Nat]
    BY <1>0, <1>00, <1>5, <2>1, UnpackTakes, TakeMessage
  <2>3. MessageRead'
    <3>1. taken'["down"] = taken["down"] /\ received'["down"] = received["down"]
      BY <1>0, <1>00, <1>5, UnpackTakes DEF TypeOK
    <3> QED BY <1>0, <2>1, <3>1 DEF MessageRead
  <2>4. failed' \subseteq Directions /\ looping' \in BOOLEAN
        /\ link' \in [Directions -> {"open", "closed", "cut"}]
    BY <1>0, <1>00, <1>01, <1>5, UnpackTakes DEF TypeOK
  <2> QED BY <1>0, <2>1, <2>2, <2>3, <2>4 DEF Aligned, TypeOK
<1>6. CASE NotEnough
  <2>1. UNCHANGED <<bound, link, arrived, taken, received, failed, got, need>>
        /\ looping' = FALSE
    BY <1>6 DEF NotEnough
  <2> QED BY <1>0, <2>1 DEF Aligned, TypeOK, MessageRead, StreamAligned, Written
<1>7. ASSUME NEW wanted \in Nat, Recv(wanted),
             UNCHANGED <<bound, link, arrived, taken, received, failed, looping, need>>,
             IF need = 0 THEN wanted <= LenSize ELSE wanted <= need
      PROVE  Aligned'
  <2>1. PICK n \in got + 1 .. wanted : taken["down"] + n <= arrived["down"] /\ got' = n
    BY <1>7 DEF Recv
  <2>2. got \in Nat /\ n \in Nat /\ n <= wanted
    BY <1>0, <1>7 DEF TypeOK
  <2>3. MessageRead'
    BY <1>0, <1>7, <2>1, <2>2 DEF MessageRead, TypeOK, FramingAssumption
  <2>4. TypeOK'
    BY <1>0, <1>7, <2>1, <2>2 DEF TypeOK
  <2>5. \A d \in Directions : StreamAligned(d)'
    BY <1>0, <1>7 DEF StreamAligned, Written
  <2> QED BY <2>3, <2>4, <2>5 DEF Aligned
<1>8. need # 0 => need = Length("down") /\ Number("down") < Len(bound["down"])
                  /\ need >= HeaderSize /\ need > LenSize
  <2>1. need # 0 => need = Length("down") /\ Number("down") < Len(bound["down"])
    BY <1>0 DEF MessageRead, Length, Number
  <2>2. need # 0 => need >= HeaderSize
    BY <2>1, <1>0, <1>00, NextMessage
  <2> QED BY <2>1, <2>2, <1>0 DEF FramingAssumption, TypeOK
<1>9. CASE ReadLength
  <2>1. IF need = 0 THEN LenSize <= LenSize ELSE LenSize <= need
    BY <1>0, <1>8 DEF FramingAssumption, TypeOK
  <2>2. LenSize \in Nat
    BY DEF FramingAssumption
  <2> QED BY <1>7, <1>9, <2>1, <2>2 DEF ReadLength
<1>10. CASE ReadBody
  <2>1. need \in Nat /\ need <= need /\ need # 0
    BY <1>0, <1>10 DEF TypeOK, ReadBody
  <2> QED BY <1>7, <1>10, <2>1 DEF ReadBody
<1>11. CASE CheckLength
  <2>1. UNCHANGED <<bound, arrived, taken, received, looping, got>>
    BY <1>11 DEF CheckLength
  <2>2. taken["down"] < arrived["down"]
    BY <1>0, <1>00, <1>11 DEF CheckLength, MessageRead, TypeOK, FramingAssumption
  <2>3. Number("down") < Len(bound["down"])
    BY <1>0, <1>00, <2>2, MessageThere
  <2>4. Lengths("down", taken["down"]) = {Length("down")}
        /\ Length("down") \in Nat /\ Length("down") >= HeaderSize
    BY <1>0, <1>00, <2>3, NextMessage
  <2>5. \/ Fail("down") /\ need' = need
        \/ need' = Length("down") /\ UNCHANGED <<failed, link>>
    BY <2>4, <1>11 DEF CheckLength
  <2>6. failed' \subseteq Directions /\ link' \in [Directions -> {"open", "closed", "cut"}]
    BY <1>0, <1>00, <1>01, <2>5 DEF TypeOK
  <2>7. need' \in Nat /\ MessageRead'
    <3>1. CASE need' = need
      BY <1>0, <2>1, <3>1 DEF MessageRead, TypeOK
    <3>2. CASE need' = Length("down")
      <4>1. got = LenSize /\ got <= Length("down")
        BY <1>11, <2>4 DEF CheckLength, FramingAssumption
      <4> QED BY <1>0, <2>1, <2>3, <2>4, <3>2, <4>1 DEF MessageRead, Number, Length, FramingAssumption
    <3> QED BY <2>5, <3>1, <3>2
  <2>8. \A d \in Directions : StreamAligned(d)'
    BY <1>0, <2>1 DEF StreamAligned, Written
  <2> QED BY <1>0, <2>1, <2>6, <2>7, <2>8 DEF Aligned, TypeOK
<1>12. CASE Command
  <2>1. UNCHANGED <<bound, arrived, looping>> /\ got' = 0 /\ need' = 0
    BY <1>12 DEF Command
  <2>2. /\ \A d \in Directions : StreamAligned(d)'
        /\ received' \in [Directions -> Seq(Nat)]
        /\ taken' \in [Directions -> Nat]
    BY <1>0, <1>00, <1>12, <2>1, CommandTakes, TakeMessage
  <2>3. MessageRead'
    <3>1. taken'["down"] <= arrived'["down"] /\ taken'["down"] \in Nat
      BY <2>2, <1>00 DEF StreamAligned
    <3> QED BY <2>1, <3>1 DEF MessageRead, FramingAssumption
  <2>4. failed' \subseteq Directions /\ link' \in [Directions -> {"open", "closed", "cut"}]
    BY <1>0, <1>00, <1>01, <1>12 DEF TypeOK, Command
  <2> QED BY <1>0, <2>1, <2>2, <2>3, <2>4 DEF Aligned, TypeOK
<1>13. CASE UNCHANGED vars
  BY <1>0, <1>13 DEF vars, Aligned, TypeOK, MessageRead, StreamAligned, Written
<1> QED BY <1>1, <1>2, <1>3, <1>4, <1>5, <1>6, <1>9, <1>10, <1>11, <1>12, <1>13
        DEF Next, Bridge, Router

(* However the stream is cut, what each reader of ltprotocol.py and            *)
(* sr_vns_comm.c has taken out of it is a whole number of messages.           *)
THEOREM ReadersAligned == Spec => []Aligned
<1>1. Init => Aligned
  BY AlignedInit, FramingAssumption
<1>2. Aligned /\ [Next]_vars => Aligned'
  BY AlignedStep, FramingAssumption
<1> QED BY <1>1, <1>2, PTL DEF Spec

-----------------------------------------------------------------------------
(* The refinement *)

\* The step of MessageChannel that a step of this module is, for direction d.
Stutters(d) == UNCHANGED <<Len(bound[d]) - 1, received[d], Closed(d)>>
Sends(d)    == /\ Len(bound[d])' - 1 = Len(bound[d]) - 1 + 1
               /\ UNCHANGED <<received[d], Closed(d)>>
Appends(d)  == /\ Len(received[d]) < Len(bound[d]) - 1
               /\ received[d]' = Append(received[d], Len(received[d]) + 1)
Delivers(d) == /\ ~Closed(d) /\ Appends(d)
               /\ UNCHANGED <<Len(bound[d]) - 1, Closed(d)>>
Closes(d)   == /\ Closed(d)'
               /\ UNCHANGED received[d] \/ Appends(d)
               /\ UNCHANGED (Len(bound[d]) - 1)

ChannelStep(d) == Stutters(d) \/ Sends(d) \/ Delivers(d) \/ Closes(d)

LEMMA FailCloses ==
    ASSUME TypeOK, NEW e \in Directions, Fail(e)
    PROVE  Closed(e)' /\ \A d \in Directions \ {e} : Closed(d)' = Closed(d)
<1>1. \A d \in Directions : d # e => link'[d] = "cut" <=> link[d] = "cut"
  BY DEF Fail, TypeOK
<1> QED BY <1>1 DEF Fail, Closed

LEMMA StepRefines ==
    ASSUME FramingAssumption, Aligned, [Next]_vars, NEW d \in Directions
    PROVE  ChannelStep(d)
<1>0. TypeOK /\ "up" \in Directions /\ "down" \in Directions /\ "up" # "down"
  BY DEF Aligned, Directions
<1>1. ASSUME UNCHANGED <<bound, received, failed>>,
             link'[d] = "cut" <=> link[d] = "cut"
      PROVE  ChannelStep(d)
  BY <1>1 DEF ChannelStep, Stutters, Closed
<1>2. ASSUME NEW e \in Directions, Send(e) PROVE ChannelStep(d)
  <2>1. UNCHANGED <<received, failed, link>>
    BY <1>2 DEF Send
  <2>2. PICK size \in Sizes : bound' = [bound EXCEPT ![e] = Append(@, Written(e) + size)]
    BY <1>2 DEF Send
  <2>3. CASE d = e
    <3>1. bound[e] \in Seq(Nat) /\ Len(bound[e]) \in Nat /\ Written(e) + size \in Nat
      <4>1. bound[e] \in Seq(Nat) /\ Len(bound[e]) >= 1
        BY DEF Aligned, TypeOK, StreamAligned
      <4>2. Written(e) \in Nat
        BY <4>1 DEF Written
      <4> QED BY <4>1, <4>2 DEF FramingAssumption
    <3>2. bound'[e] = Append(bound[e], Written(e) + size)
      BY <2>2, <1>0 DEF TypeOK
    <3>3. Len(bound'[e]) = Len(bound[e]) + 1
      BY <3>1, <3>2
    <3> QED BY <2>1, <2>3, <3>1, <3>3 DEF ChannelStep, Sends, Closed
  <2>4. CASE d # e
    <3>1. bound'[d] = bound[d]
      BY <2>2, <2>4, <1>0 DEF TypeOK
    <3> QED BY <2>1, <3>1 DEF ChannelStep, Stutters, Closed
  <2> QED BY <2>3, <2>4
<1>3. ASSUME NEW e \in Directions, Hangup(e) PROVE ChannelStep(d)
  BY <1>0, <1>1, <1>3 DEF Hangup, TypeOK
<1>4. ASSUME NEW e \in Directions, Cut(e) PROVE ChannelStep(d)
  <2>1. CASE d = e
    BY <1>0, <1>4, <2>1 DEF Cut, TypeOK, ChannelStep, Closes, Closed
  <2>2. CASE d # e
    BY <1>0, <1>1, <1>4, <2>2 DEF Cut, TypeOK
  <2> QED BY <2>1, <2>2
<1>5. CASE Segment \/ DataReceived \/ NotEnough \/ ReadLength \/ ReadBody
  BY <1>1, <1>5 DEF Segment, DataReceived, NotEnough, ReadLength, ReadBody
<1>6. ASSUME NEW e \in Directions, bound' = bound,
             Number(e) < Len(bound[e]),
             received' = [received EXCEPT ![e] = Append(@, Number(e))],
             UNCHANGED <<failed, link>> \/ Fail(e)
      PROVE  ChannelStep(d)
  <2>1. CASE d = e
    <3>1. received'[e] = Append(received[e], Len(received[e]) + 1)
      BY <1>0, <1>6 DEF TypeOK, Number
    <3>2. Len(received[e]) < Len(bound[e]) - 1
      BY <1>0, <1>6 DEF TypeOK, Number
    <3>3. Appends(e)
      BY <3>1, <3>2 DEF Appends
    <3>4. CASE Fail(e)
      BY <1>0, <1>6, <2>1, <3>3, <3>4, FailCloses DEF ChannelStep, Closes
    <3>5. CASE UNCHANGED <<failed, link>>
      <4>1. Closed(e)' = Closed(e)
        BY <3>5 DEF Closed
      <4> QED BY <1>6, <2>1, <3>3, <4>1 DEF ChannelStep, Closes, Delivers
    <3> QED BY <1>6, <3>4, <3>5
  <2>2. CASE d # e
    <3>1. received'[d] = received[d]
      BY <1>0, <1>6, <2>2 DEF TypeOK
    <3>2. Closed(d)' = Closed(d)
      BY <1>0, <1>6, <2>2, FailCloses DEF Closed
    <3> QED BY <1>6, <3>1, <3>2 DEF ChannelStep, Stutters
  <2> QED BY <2>1, <2>2
<1>7. CASE Unpack
  <2>1. bound' = bound
    BY <1>7 DEF Unpack
  <2> QED BY <1>0, <1>6, <1>7, <2>1, UnpackTakes
<1>8. CASE Command
  <2>1. bound' = bound /\ (UNCHANGED <<failed, link>> \/ Fail("down"))
    BY <1>8 DEF Command
  <2> QED BY <1>0, <1>6, <1>8, <2>1, CommandTakes
<1>9. CASE CheckLength
  <2>1. UNCHANGED <<bound, received>> /\ (UNCHANGED <<failed, link>> \/ Fail("down"))
    BY <1>9 DEF CheckLength
  <2>2. CASE UNCHANGED <<failed, link>>
    BY <1>1, <2>1, <2>2
  <2>3. CASE Fail("down") /\ d = "down"
    BY <1>0, <2>1, <2>3, FailCloses DEF ChannelStep, Closes
  <2>4. CASE Fail("down") /\ d # "down"
    BY <1>0, <2>1, <2>4, FailCloses DEF ChannelStep, Stutters
  <2> QED BY <2>1, <2>2, <2>3, <2>4
<1>10. CASE UNCHANGED vars
  BY <1>1, <1>10 DEF vars
<1> QED BY <1>2, <1>3, <1>4, <1>5, <1>7, <1>8, <1>9, <1>10 DEF Next, Bridge, Router

LEMMA UpStep == ChannelStep("up") => [Up!Next]_(Up!vars)
<1>1. Stutters("up") => UNCHANGED Up!vars
  BY DEF Stutters, Up!vars
<1>2. Sends("up") => Up!Send
  BY DEF Sends, Up!Send
<1>3. Delivers("up") => Up!Deliver
  BY DEF Delivers, Appends, Up!Deliver
<1>4. Closes("up") => Up!Close
  BY DEF Closes, Appends, Up!Close
<1> QED BY <1>1, <1>2, <1>3, <1>4 DEF ChannelStep, Up!Next

LEMMA DownStep == ChannelStep("down") => [Down!Next]_(Down!vars)
<1>1. Stutters("down") => UNCHANGED Down!vars
  BY DEF Stutters, Down!vars
<1>2. Sends("down") => Down!Send
  BY DEF Sends, Down!Send
<1>3. Delivers("down") => Down!Deliver
  BY DEF Delivers, Appends, Down!Deliver
<1>4. Closes("down") => Down!Close
  BY DEF Closes, Appends, Down!Close
<1> QED BY <1>1, <1>2, <1>3, <1>4 DEF ChannelStep, Down!Next

LEMMA ChannelInit == Init => Up!Init /\ Down!Init
<1>1. Len(<<0>>) = 1
  OBVIOUS
<1> QED BY <1>1 DEF Init, Up!Init, Down!Init, Closed, Directions

(* Both directions of a session between the bridge and a router implement      *)
(* MessageChannel: whole messages, in order, once.  (That they are delivered  *)
(* at all is left to the model checker.)                                      *)
THEOREM FramingImplementsChannel == Spec => Up!Safe /\ Down!Safe
<1>1. Init => Up!Init /\ Down!Init
  BY ChannelInit
<1>2. Aligned /\ [Next]_vars => [Up!Next]_(Up!vars) /\ [Down!Next]_(Down!vars)
  <2>1. "up" \in Directions /\ "down" \in Directions
    BY DEF Directions
  <2> QED BY <2>1, StepRefines, UpStep, DownStep, FramingAssumption
<1> QED BY <1>1, <1>2, ReadersAligned, PTL DEF Spec, Up!Safe, Down!Safe
=============================================================================
