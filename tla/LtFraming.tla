------------------------------ MODULE LtFraming ------------------------------
(***************************************************************************)
(* How the bridge and a router of Project-4 put messages into the bytes of *)
(* one TCP connection and take them out again: ltprotocol.py at the end of *)
(* the bridge, sr_read_from_server_expect() at the router's.               *)
(*                                                                         *)
(* A message starts with its own length; TCP cuts the stream anywhere.  A  *)
(* byte is its position in the stream, and what a reader takes for a       *)
(* length is one only if a message starts there: anywhere else it is any   *)
(* number.  "up" is from the router to the bridge, "down" the other way.   *)
(***************************************************************************)
EXTENDS Integers, Sequences

CONSTANTS
    LenSize,     \* bytes of the length field (4)
    HeaderSize,  \* and of the fields for length and type (8)
    MaxLength,   \* the longest message that the router takes (10000)
    Sizes,       \* lengths of messages
    MaxMessages  \* bound: messages sent in each direction

ASSUME FramingAssumption ==
    /\ LenSize \in Nat \ {0} /\ HeaderSize \in Nat /\ LenSize < HeaderSize
    /\ MaxLength \in Nat /\ HeaderSize <= MaxLength
    /\ Sizes \subseteq {s \in Nat : s >= HeaderSize}
    /\ MaxMessages \in Nat

Directions == {"up", "down"}

VARIABLES
    bound,    \* where the messages of each direction start, and the next will
    link,     \* "open", "closed" by its writer or "cut": nothing arrives
    arrived,  \* the bytes that have reached each reader
    taken,    \* those that belong to messages it has done with
    received, \* the messages it has handed over; 0 stands for no message
    failed,   \* the readers that have given up and closed the connection
    looping,  \* dataReceived() is in its loop
    got,      \* bytes_read of the router's message, its length included
    need      \* len of that message; 0: not known

vars == <<bound, link, arrived, taken, received, failed, looping, got, need>>

TypeOK ==
    /\ bound \in [Directions -> Seq(Nat)]
    /\ link \in [Directions -> {"open", "closed", "cut"}]
    /\ arrived \in [Directions -> Nat]
    /\ taken \in [Directions -> Nat]
    /\ received \in [Directions -> Seq(Nat)]
    /\ failed \subseteq Directions
    /\ looping \in BOOLEAN
    /\ got \in Nat /\ need \in Nat

Init ==
    /\ bound = [d \in Directions |-> <<0>>]
    /\ link = [d \in Directions |-> "open"]
    /\ arrived = [d \in Directions |-> 0]
    /\ taken = [d \in Directions |-> 0]
    /\ received = [d \in Directions |-> <<>>]
    /\ failed = {}
    /\ looping = FALSE
    /\ got = 0 /\ need = 0

-----------------------------------------------------------------------------
(* The stream *)

Written(d) == bound[d][Len(bound[d])]
Other(d)   == IF d = "up" THEN "down" ELSE "up"

\* n is the message that starts at position p.
StartsAt(d, p, n) == n \in 1 .. Len(bound[d]) - 1 /\ bound[d][n] = p

\* What the bytes at position p say when they are read as a length.
Lengths(d, p) ==
    IF \E n \in 1 .. Len(bound[d]) - 1 : StartsAt(d, p, n)
    THEN {bound[d][n + 1] - p : n \in {k \in 1 .. Len(bound[d]) - 1 : StartsAt(d, p, k)}}
    ELSE 1 .. MaxLength + 1

\* The message that bytes p to p + len - 1 are.
Unpacked(d, p, len) ==
    IF \E n \in 1 .. Len(bound[d]) - 1 : StartsAt(d, p, n) /\ bound[d][n + 1] = p + len
    THEN CHOOSE n \in 1 .. Len(bound[d]) - 1 : StartsAt(d, p, n) /\ bound[d][n + 1] = p + len
    ELSE 0

\* A message is written with one call, and TCP has room for all of it.
Send(d) ==
    /\ link[d] = "open" /\ Len(bound[d]) <= MaxMessages
    /\ \E size \in Sizes : bound' = [bound EXCEPT ![d] = Append(@, Written(d) + size)]
    /\ UNCHANGED <<link, arrived, taken, received, failed, looping, got, need>>

\* A process closes the connection: its messages may still arrive.  What is sent
\* to it need not: TCP answers that with a reset, which also cuts its own.
Hangup(d) ==
    /\ link[d] = "open"
    /\ link' = [link EXCEPT ![d] = "closed"]
    /\ UNCHANGED <<bound, arrived, taken, received, failed, looping, got, need>>

Cut(d) ==
    /\ link[d] # "cut" /\ "closed" \in {link[d], link[Other(d)]}
    /\ link' = [link EXCEPT ![d] = "cut"]
    /\ UNCHANGED <<bound, arrived, taken, received, failed, looping, got, need>>

\* The reader of d has failed and closes the connection.
Fail(d) ==
    /\ failed' = failed \cup {d}
    /\ link' = [link EXCEPT ![Other(d)] = IF @ = "open" THEN "closed" ELSE @]

-----------------------------------------------------------------------------
(* The bridge: dataReceived() *)

Plen == arrived["up"] - taken["up"]

\* self.packet += data; self.plen += len(data)
DataReceived ==
    /\ ~looping /\ "up" \notin failed /\ link["up"] # "cut"
    /\ \E n \in arrived["up"] + 1 .. Written("up") : arrived' = [arrived EXCEPT !["up"] = n]
    /\ looping' = TRUE
    /\ UNCHANGED <<bound, link, taken, received, failed, got, need>>

DropRest ==                                                         \* mutant
    /\ looping /\ Plen >= LenSize
    /\ \E lenNeeded \in Lengths("up", taken["up"]) :
          /\ Plen >= lenNeeded
          /\ received' = [received EXCEPT !["up"] =
                             Append(@, Unpacked("up", taken["up"], lenNeeded))]
    /\ taken' = [taken EXCEPT !["up"] = arrived["up"]]
    /\ UNCHANGED <<bound, link, arrived, failed, looping, got, need>>

\* A turn of the loop with a whole message.  When the fields of the header or
\* recv_callback() raise, Twisted closes the connection.
Unpack ==
    /\ looping /\ Plen >= LenSize
    /\ \E lenNeeded \in Lengths("up", taken["up"]) :
          /\ Plen >= lenNeeded
          /\ taken' = [taken EXCEPT !["up"] = @ + lenNeeded]
          /\ IF lenNeeded < HeaderSize
             THEN UNCHANGED received
             ELSE received' = [received EXCEPT !["up"] =
                                   Append(@, Unpacked("up", taken["up"], lenNeeded))]
          /\ \/ lenNeeded >= HeaderSize /\ UNCHANGED <<failed, link, looping>>
             \/ Fail("up") /\ looping' = FALSE
    /\ UNCHANGED <<bound, arrived, got, need>>

\* There is no length yet, or not all of the message.
AwaitMore ==                                                        \* mutant
    /\ looping
    /\ looping' = FALSE
    /\ UNCHANGED <<bound, link, arrived, taken, received, failed, got, need>>
NotEnough ==
    /\ looping
    /\ \/ Plen < LenSize
       \/ Plen >= LenSize /\ \E lenNeeded \in Lengths("up", taken["up"]) : Plen < lenNeeded
    /\ looping' = FALSE
    /\ UNCHANGED <<bound, link, arrived, taken, received, failed, got, need>>

-----------------------------------------------------------------------------
(* The router: sr_read_from_server_expect() *)

Segment ==
    /\ link["down"] # "cut"
    /\ \E n \in arrived["down"] + 1 .. Written("down") :
          arrived' = [arrived EXCEPT !["down"] = n]
    /\ UNCHANGED <<bound, link, taken, received, failed, looping, got, need>>

\* One recv() or read(): no more than is there, nor than the loop asks for.
Recv(wanted) ==
    \E n \in got + 1 .. wanted :
        /\ taken["down"] + n <= arrived["down"]
        /\ got' = n

ReadLength ==
    /\ "down" \notin failed /\ got < LenSize
    /\ Recv(LenSize)
    /\ UNCHANGED <<bound, link, arrived, taken, received, failed, looping, need>>

\* ntohl(len); a length that is too large closes the connection.
CheckLength ==
    /\ "down" \notin failed /\ got = LenSize /\ need = 0
    /\ \E len \in Lengths("down", taken["down"]) :
          IF len > MaxLength
          THEN Fail("down") /\ UNCHANGED need
          ELSE need' = len /\ UNCHANGED <<failed, link>>
    /\ UNCHANGED <<bound, arrived, taken, received, looping, got>>

ReadBody ==
    /\ "down" \notin failed /\ need # 0 /\ got < need
    /\ Recv(need)
    /\ UNCHANGED <<bound, link, arrived, taken, received, failed, looping, need>>

\* The message is handled; the router may stop over it.
Command ==
    /\ "down" \notin failed /\ need # 0 /\ got >= need
    /\ received' = [received EXCEPT !["down"] =
                        Append(@, Unpacked("down", taken["down"], need))]
    /\ taken' = [taken EXCEPT !["down"] = @ + need]
    /\ got' = 0 /\ need' = 0
    /\ UNCHANGED <<failed, link>> \/ Fail("down")
    /\ UNCHANGED <<bound, arrived, looping>>

-----------------------------------------------------------------------------
(* The specification *)

Bridge == DataReceived \/ Unpack \/ NotEnough
Router == ReadLength \/ CheckLength \/ ReadBody \/ Command

Next ==
    \/ \E d \in Directions : Send(d) \/ Hangup(d) \/ Cut(d)
    \/ Segment \/ Bridge \/ Router

(* The reactor and the router's loop keep running, and TCP delivers.          *)
Fairness == WF_vars(Bridge) /\ WF_vars(Router) /\ WF_vars(Segment)

Spec == Init /\ [][Next]_vars /\ Fairness

-----------------------------------------------------------------------------
(* Properties *)

(* Both readers keep in step with the stream: what has been taken out of it   *)
(* ends where a message starts, every message before it was handed over once, *)
(* and the length that the router has read is that of the next message.       *)
StreamAligned(d) ==
    /\ \A m, n \in 1 .. Len(bound[d]) : m < n => bound[d][m] + HeaderSize <= bound[d][n]
    /\ Len(received[d]) < Len(bound[d])
    /\ \A n \in 1 .. Len(received[d]) : received[d][n] = n
    /\ taken[d] = bound[d][Len(received[d]) + 1]
    /\ taken[d] <= arrived[d] /\ arrived[d] <= Written(d)

MessageRead ==
    LET next == Len(received["down"]) + 1
    IN  /\ taken["down"] + got <= arrived["down"]
        /\ IF need = 0
           THEN got <= LenSize
           ELSE /\ next < Len(bound["down"])
                /\ need = bound["down"][next + 1] - bound["down"][next]
                /\ got <= need

Aligned == TypeOK /\ MessageRead /\ \A d \in Directions : StreamAligned(d)

Closed(d) == d \in failed \/ link[d] = "cut"

Up   == INSTANCE MessageChannel WITH sent <- Len(bound["up"]) - 1,
            received <- received["up"], closed <- Closed("up")
Down == INSTANCE MessageChannel WITH sent <- Len(bound["down"]) - 1,
            received <- received["down"], closed <- Closed("down")

(* However TCP cuts the stream, both readers take the messages out of it that *)
(* the other end put in: whole, in order, once, and all of them unless the    *)
(* connection is closed.                                                      *)
MessagesFramed == Up!Spec /\ Down!Spec

=============================================================================
