--------------------------------- MODULE Vns ---------------------------------
(***************************************************************************)
(* The session between a router of Project-4 (sr, sr_vns_comm.c) and the   *)
(* bridge inside POX that plays the virtual network server (srhandler.py). *)
(*                                                                         *)
(* The bridge has two threads that share SRServerListener: the Twisted     *)
(* reactor, which accepts routers and answers their messages, and the      *)
(* thread of POX, which learns the topology from the switch and broadcasts *)
(* the packets the switch receives.  Nothing is locked.  A handler of the  *)
(* reactor is one step unless the other thread can see the middle of it; a *)
(* write to a transport is one step, although Twisted does not promise so. *)
(*                                                                         *)
(* A message is a record; how it is cut into segments and put together     *)
(* again (dataReceived(), the recv() loops) is not part of this module.    *)
(***************************************************************************)
EXTENDS Integers, Sequences, FiniteSets, SequencesExt, Functions

CONSTANTS
    Routers,    \* the sr processes, each of which connects once
    Templates,  \* those that were started with -T
    Interfaces, \* the interfaces of the router in the topology
    MaxPackets, \* bound: packets the switch receives
    MaxOut,     \* bound: messages of a router the bridge has not read
    Null

ASSUME VnsAssumption ==
    /\ Templates \subseteq Routers
    /\ IsFiniteSet(Routers) /\ IsFiniteSet(Interfaces)
    /\ Interfaces # {}
    /\ MaxPackets \in Nat /\ MaxOut \in Nat \ {0}
    /\ Null \notin Routers

VARIABLES
    router,     \* what each router is waiting for, or how it has ended
    iflist,     \* sr->if_list of each router
    heard,      \* the packets each router has read
    toRouter,   \* messages on their way to each router
    toBridge,   \* messages on their way from each router
    conn,       \* the connection of each router, as its TCP sees it
    bridge,     \* the POX process runs
    srclients,  \* the list of all clients that ever connected
    greeting,   \* the client the reactor is in _handle_new_client() with
    mapped,     \* the interfaces in intfname_to_port and port_to_intfname
    interfaces, \* self.interfaces: TRUE once it is set
    packets,    \* the packets the switch has received, by their interfaces
    position,   \* where in srclients the broadcast is; 0: there is none
    joined,     \* the first packet that was broadcast to each router
    unanswered  \* routers whose VNSOpen was answered with nothing

routerVars == <<router, iflist, heard>>
linkVars   == <<toRouter, toBridge, conn>>
poxVars    == <<mapped, interfaces, packets, position>>
vars       == <<routerVars, linkVars, bridge, srclients, greeting, poxVars,
                joined, unanswered>>

-----------------------------------------------------------------------------
(* Messages *)

Controls == {"AUTH_REQUEST", "AUTH_STATUS", "HWINFO"}
Requests == {"AUTH_REPLY", "OPEN", "OPEN_TEMPLATE"}

Control(type) == [type |-> type, intfs |-> {}, packet |-> 0]
HardwareInfo  == [type |-> "HWINFO", intfs |-> Interfaces, packet |-> 0]
Packet(i, n)  == [type |-> "PACKET", intfs |-> {i}, packet |-> n]

Message == [type : Controls \cup Requests \cup {"PACKET"},
            intfs : SUBSET Interfaces, packet : 0 .. MaxPackets]

(* sr_connect_to_server() waits for AUTH_REQUEST, for AUTH_STATUS and with -T *)
(* for RTABLE; "open" and "ready" are the loop of main() before and after the *)
(* hardware information.  A "hung" router calls recv() for ever.              *)
Waiting == {"auth", "status", "rtable", "open", "ready"}
Ended   == {"ended", "hung", "crashed"}

\* The message sr_read_from_server_expect() was told to expect.
Expected == [s \in {"auth", "status", "rtable"} |->
               CASE s = "auth" -> "AUTH_REQUEST"
                 [] s = "status" -> "AUTH_STATUS"
                 [] s = "rtable" -> "RTABLE"]

\* conn: the reactor has not seen it, it is open, or the bridge has closed it,
\* with all that the router sent read, or not: then TCP resets it.
Open(r) == conn[r] \in {"backlog", "open"}

Init ==
    /\ router     = [r \in Routers |-> "new"]
    /\ iflist     = [r \in Routers |-> {}]
    /\ heard      = [r \in Routers |-> <<>>]
    /\ toRouter   = [r \in Routers |-> <<>>]
    /\ toBridge   = [r \in Routers |-> <<>>]
    /\ conn       = [r \in Routers |-> "none"]
    /\ bridge     = "up"
    /\ srclients  = <<>>
    /\ greeting   = Null
    /\ mapped     = {}
    /\ interfaces = FALSE
    /\ packets    = <<>>
    /\ position   = 0
    /\ joined     = [r \in Routers |-> 0]
    /\ unanswered = {}

\* transport.write() of the bridge: dropped if the client is gone.
Delivered(r, messages) ==
    IF conn[r] = "open" /\ router[r] \in Waiting
    THEN [toRouter EXCEPT ![r] = @ \o messages] ELSE toRouter

\* send() and write() of a router: what reaches a closed socket resets it.
Write(r, message) ==
    IF Open(r)
    THEN /\ toBridge' = [toBridge EXCEPT ![r] = Append(@, message)]
         /\ UNCHANGED conn
    ELSE /\ conn' = [conn EXCEPT ![r] = "reset"]
         /\ UNCHANGED toBridge

-----------------------------------------------------------------------------
(* A router: main(), sr_connect_to_server(), sr_read_from_server_expect()   *)

Connect(r) ==
    /\ router[r] = "new" /\ bridge = "up"
    /\ router' = [router EXCEPT ![r] = "auth"]
    /\ conn' = [conn EXCEPT ![r] = "backlog"]
    /\ UNCHANGED <<iflist, heard, toRouter, toBridge, bridge, srclients, greeting,
                   poxVars, joined, unanswered>>

\* The process ends: an error return of main(), a failed assert, or the user.
Exit(r, how) ==
    /\ router' = [router EXCEPT ![r] = how]
    /\ toRouter' = [toRouter EXCEPT ![r] = <<>>]
    /\ UNCHANGED <<iflist, heard, toBridge, conn, bridge, srclients, greeting,
                   poxVars, joined, unanswered>>

Received(r) == /\ router[r] \in Waiting /\ toRouter[r] # <<>>
               /\ conn[r] # "reset"

\* Any message but the expected one makes sr_connect_to_server() fail.
Unexpected(r) ==
    /\ Received(r)
    /\ router[r] \in DOMAIN Expected
    /\ Head(toRouter[r]).type # Expected[router[r]]
    /\ Exit(r, "ended")

ReadControl(r, from, to) ==
    /\ Received(r)
    /\ router[r] = from
    /\ Head(toRouter[r]).type = Expected[from]
    /\ router' = [router EXCEPT ![r] = to]
    /\ toRouter' = [toRouter EXCEPT ![r] = Tail(@)]
    /\ UNCHANGED <<iflist, heard, bridge, srclients, greeting, poxVars, joined,
                   unanswered>>

\* sr_handle_auth_request(); without a key file the router gives up.
ReadAuthRequest(r) ==
    \/ ReadControl(r, "auth", "status") /\ Write(r, Control("AUTH_REPLY"))
    \/ /\ Received(r) /\ router[r] = "auth"
       /\ Head(toRouter[r]).type = "AUTH_REQUEST"
       /\ Exit(r, "ended")

ReadAuthStatus(r) ==
    IF r \in Templates
    THEN ReadControl(r, "status", "rtable") /\ Write(r, Control("OPEN_TEMPLATE"))
    ELSE ReadControl(r, "status", "open") /\ Write(r, Control("OPEN"))

\* sr_handle_hwinfo(); the loop of main() ends if the routing table names other
\* interfaces.
ReadHwinfo(r) ==
    /\ Received(r) /\ router[r] \in {"open", "ready"}
    /\ Head(toRouter[r]).type = "HWINFO"
    /\ \/ /\ router' = [router EXCEPT ![r] = "ready"]
          /\ iflist' = [iflist EXCEPT ![r] = @ \cup Head(toRouter[r]).intfs]
          /\ toRouter' = [toRouter EXCEPT ![r] = Tail(@)]
          /\ UNCHANGED <<heard, toBridge, conn, bridge, srclients, greeting, poxVars,
                         joined, unanswered>>
       \/ Exit(r, "ended")

\* sr_arp_req_not_for_us() asserts that the interface exists, for every packet as
\* long as an ARP request; what the router does with it is the subject of Router.
KnowsInterface(r, m) == m.intfs \subseteq iflist[r]
ReadPacket(r) ==
    /\ Received(r) /\ router[r] \in {"open", "ready"}
    /\ Head(toRouter[r]).type = "PACKET"
    /\ IF KnowsInterface(r, Head(toRouter[r]))
       THEN /\ heard' = [heard EXCEPT ![r] = Append(@, Head(toRouter[r]).packet)]
            /\ toRouter' = [toRouter EXCEPT ![r] = Tail(@)]
            /\ UNCHANGED <<router, iflist, toBridge, conn, bridge, srclients,
                           greeting, poxVars, joined, unanswered>>
       ELSE Exit(r, "crashed")

\* sr_send_packet(), by either thread of the router, on an interface it has.
SendPacket(r, i) ==
    /\ router[r] = "ready" /\ i \in iflist[r]
    /\ conn[r] # "reset" /\ Len(toBridge[r]) < MaxOut
    /\ Write(r, Packet(i, 0))
    /\ UNCHANGED <<routerVars, toRouter, bridge, srclients, greeting, poxVars,
                   joined, unanswered>>

\* At end of file recv() returns 0, which neither loop takes for an end.
ReadNothing(r) ==
    /\ router[r] \in Waiting /\ toRouter[r] = <<>> /\ conn[r] = "closed"
    /\ Exit(r, "hung")

\* After a reset recv() and write() fail.
ReadError(r) ==
    /\ router[r] \in Waiting /\ conn[r] = "reset"
    /\ Exit(r, "ended")

Quit(r) == router[r] \in Waiting \cup {"hung"} /\ Exit(r, "ended")

-----------------------------------------------------------------------------
(* The reactor of the bridge *)

Idle == bridge = "up" /\ greeting = Null

\* _handle_new_client() first appends the client to the list broadcast() goes
\* through; a broadcast that is under way reaches the new client as well.
Accept(r) ==
    /\ Idle /\ conn[r] = "backlog"
    /\ conn' = [conn EXCEPT ![r] = "open"]
    /\ srclients' = Append(srclients, r)
    /\ greeting' = r
    /\ joined' = [joined EXCEPT ![r] = IF position = 0
                                         THEN Len(packets) + 1 ELSE Len(packets)]
    /\ UNCHANGED <<routerVars, toRouter, toBridge, bridge, poxVars, unanswered>>

\* ... and then sends the message that the router expects first.
Greet ==
    /\ bridge = "up" /\ greeting # Null
    /\ toRouter' = Delivered(greeting, <<Control("AUTH_REQUEST")>>)
    /\ greeting' = Null
    /\ UNCHANGED <<routerVars, toBridge, conn, bridge, srclients, poxVars, joined,
                   unanswered>>

\* What _handle_recv_msg() answers to a message.
FallsThrough(type) ==                                               \* mutant
    CASE type = "AUTH_REPLY" -> <<Control("AUTH_STATUS"), HardwareInfo>>
      [] type = "OPEN" -> IF interfaces THEN <<HardwareInfo>> ELSE <<>>
      [] OTHER -> <<>>
NoStatus(type) ==                                                   \* mutant
    IF type = "OPEN" /\ interfaces THEN <<HardwareInfo>> ELSE <<>>
Answer(type) ==
    CASE type = "AUTH_REPLY" -> <<Control("AUTH_STATUS")>>
      [] type = "OPEN" -> IF interfaces THEN <<HardwareInfo>> ELSE <<>>
      [] OTHER -> <<>>

\* srclients once r is gone: nobody takes it off the list.
Dropped(r) == SelectSeq(srclients, LAMBDA c : c # r)                \* mutant
Listed(r)  == srclients

\* The bridge closes a connection; what it has not read makes TCP reset it.
Close(r) ==
    /\ conn' = [conn EXCEPT ![r] =
                   IF Tail(toBridge[r]) = <<>> THEN "closed" ELSE "reset"]
    /\ toBridge' = [toBridge EXCEPT ![r] = <<>>]
    /\ srclients' = Listed(r)

\* There is no handler for VNSOpenTemplate, and a packet through an interface
\* that is not mapped meets an unbound variable: Twisted closes the connection
\* of a protocol that raises.
Raises(m) ==
    \/ m.type = "OPEN_TEMPLATE"
    \/ m.type = "PACKET" /\ ~(m.intfs \subseteq mapped)

Handle(r) ==
    /\ Idle /\ conn[r] = "open" /\ toBridge[r] # <<>>
    /\ LET m == Head(toBridge[r]) IN
       IF Raises(m)
       THEN Close(r) /\ UNCHANGED <<toRouter, unanswered>>
       ELSE /\ toRouter' = Delivered(r, Answer(m.type))
            /\ toBridge' = [toBridge EXCEPT ![r] = Tail(@)]
            /\ unanswered' = IF m.type = "OPEN" /\ Answer(m.type) = <<>>
                             THEN unanswered \cup {r} ELSE unanswered
            /\ UNCHANGED <<conn, srclients>>
    /\ UNCHANGED <<routerVars, bridge, greeting, poxVars, joined>>

\* connectionLost(): the router has gone, perhaps with messages unread.
Disconnected(r) ==
    /\ Idle /\ conn[r] = "open" /\ router[r] \in {"ended", "crashed"}
    /\ conn' = [conn EXCEPT ![r] = "closed"]
    /\ toBridge' = [toBridge EXCEPT ![r] = <<>>]
    /\ srclients' = Listed(r)
    /\ UNCHANGED <<routerVars, toRouter, bridge, greeting, poxVars, joined,
                   unanswered>>

-----------------------------------------------------------------------------
(* The POX thread of the bridge *)

\* _handle_RouterInfo(), raised while the connection of the switch is set up:
\* one interface after the other, and the list of all of them at the end.
MapInterface(i) ==
    /\ bridge = "up" /\ ~interfaces /\ i \notin mapped
    /\ mapped' = mapped \cup {i}
    /\ UNCHANGED <<routerVars, linkVars, bridge, srclients, greeting, interfaces,
                   packets, position, joined, unanswered>>

AtOnce == TRUE                                                      \* mutant
AllMapped == mapped = Interfaces
SetInterfaces ==
    /\ bridge = "up" /\ ~interfaces
    /\ AllMapped
    /\ interfaces' = TRUE
    /\ UNCHANGED <<routerVars, linkVars, bridge, srclients, greeting, mapped,
                   packets, position, joined, unanswered>>

\* _handle_SRPacketIn(): the switch, whose connection is now set up, has
\* received a packet.
PacketIn(i) ==
    /\ bridge = "up" /\ interfaces /\ i \in mapped
    /\ position = 0 /\ Len(packets) < MaxPackets
    /\ packets' = Append(packets, i)
    /\ position' = 1
    /\ UNCHANGED <<routerVars, linkVars, bridge, srclients, greeting, mapped,
                   interfaces, joined, unanswered>>

\* broadcast(): the loop goes through the list as it is at each step.
BroadcastNext ==
    /\ bridge = "up" /\ position \in DOMAIN srclients
    /\ toRouter' = Delivered(srclients[position], <<Packet(Last(packets), Len(packets))>>)
    /\ position' = position + 1
    /\ UNCHANGED <<routerVars, toBridge, conn, bridge, srclients, greeting, mapped,
                   interfaces, packets, joined, unanswered>>

BroadcastEnds ==
    /\ bridge = "up" /\ position > Len(srclients)
    /\ position' = 0
    /\ UNCHANGED <<routerVars, linkVars, bridge, srclients, greeting, mapped,
                   interfaces, packets, joined, unanswered>>

\* POX is stopped, and the kernel closes its sockets.
Stop ==
    /\ bridge = "up"
    /\ bridge' = "stopped"
    /\ greeting' = Null
    /\ position' = 0
    /\ conn' = [r \in Routers |->
                  IF ~Open(r) THEN conn[r]
                  ELSE IF conn[r] = "backlog" \/ toBridge[r] # <<>> THEN "reset"
                  ELSE "closed"]
    /\ toBridge' = [r \in Routers |-> <<>>]
    /\ UNCHANGED <<routerVars, toRouter, srclients, mapped, interfaces, packets,
                   joined, unanswered>>

-----------------------------------------------------------------------------
Read(r) == \/ Unexpected(r) \/ ReadAuthRequest(r) \/ ReadAuthStatus(r)
           \/ ReadHwinfo(r) \/ ReadPacket(r) \/ ReadNothing(r) \/ ReadError(r)

Reactor == Greet \/ \E r \in Routers : Accept(r) \/ Handle(r) \/ Disconnected(r)

Pox == \/ \E i \in Interfaces : MapInterface(i) \/ PacketIn(i)
       \/ SetInterfaces \/ BroadcastNext \/ BroadcastEnds

Next ==
    \/ \E r \in Routers : Connect(r) \/ Read(r) \/ Quit(r)
    \/ \E r \in Routers, i \in Interfaces : SendPacket(r, i)
    \/ Reactor
    \/ Pox
    \/ Stop

Spec == Init /\ [][Next]_vars

\* Each router reads what has arrived, and the reactor serves each connection
\* in turn.  No router, packet or switch is ever forced to come.
Fairness == /\ \A r \in Routers : WF_vars(Read(r))
            /\ \A r \in Routers : WF_vars(Accept(r)) /\ WF_vars(Handle(r))
            /\ WF_vars(Greet)

FairSpec == Spec /\ Fairness

-----------------------------------------------------------------------------
TypeOK ==
    /\ router \in [Routers -> {"new"} \cup Waiting \cup Ended]
    /\ iflist \in [Routers -> SUBSET Interfaces]
    /\ heard \in [Routers -> Seq(1 .. MaxPackets)]
    /\ toRouter \in [Routers -> Seq(Message)]
    /\ toBridge \in [Routers -> Seq(Message)]
    /\ conn \in [Routers -> {"none", "backlog", "open", "closed", "reset"}]
    /\ bridge \in {"up", "stopped"}
    /\ srclients \in Seq(Routers) /\ IsInjective(srclients)
    /\ greeting \in Routers \cup {Null}
    /\ mapped \subseteq Interfaces
    /\ interfaces \in BOOLEAN
    /\ packets \in Seq(Interfaces) /\ Len(packets) <= MaxPackets
    /\ position \in 0 .. Len(srclients) + 1
    /\ joined \in [Routers -> 0 .. MaxPackets + 1]
    /\ unanswered \subseteq Routers

IsPacket(m)  == m.type = "PACKET"
IsControl(m) == m.type # "PACKET"

\* What a router in each step of its session may still be sent, packets apart.
Awaited == [s \in Waiting |->
              CASE s = "auth" -> {"AUTH_REQUEST"} [] s = "status" -> {"AUTH_STATUS"}
                [] s = "open" -> {"HWINFO"} [] OTHER -> {}]

ControlsIn(q) == {i \in DOMAIN q : IsControl(q[i])}
PacketsIn(q)  == {i \in DOMAIN q : IsPacket(q[i])}
AtMostOne(S)  == \A x, y \in S : x = y

\* The two ends keep in step: at most one message of the session is on its way,
\* in either direction, and it is the one the router waits for.  So only a
\* packet can be the message that ends a handshake.
SessionInStep ==
    \A r \in Routers : router[r] \in Waiting =>
        /\ AtMostOne(ControlsIn(toRouter[r])) /\ AtMostOne(ControlsIn(toBridge[r]))
        /\ ControlsIn(toRouter[r]) = {} \/ ControlsIn(toBridge[r]) = {}
        /\ \A i \in ControlsIn(toRouter[r]) :
              toRouter[r][i].type \in Awaited[router[r]]

\* A router that has its hardware information knows the interface of each packet
\* it is sent, and the bridge the port of each interface a router sends through:
\* _handle_packet_msg() never meets the KeyError that it handles wrongly.
InterfacesKnown ==
    \A r \in Routers :
        /\ router[r] = "ready" =>
              \A i \in DOMAIN toRouter[r] :
                 IsPacket(toRouter[r][i]) => KnowsInterface(r, toRouter[r][i])
        /\ \A i \in DOMAIN toBridge[r] :
              IsPacket(toBridge[r][i]) => toBridge[r][i].intfs \subseteq mapped

\* A connected router is sent every packet from the one it joined at on, each
\* once and in order, although clients come and go while broadcast() is in the
\* middle of the list.
Position(r) == CHOOSE i \in DOMAIN srclients : srclients[i] = r
LastSent(r) == IF position > 0 /\ Position(r) >= position
               THEN Len(packets) - 1 ELSE Len(packets)
NoPacketSkipped ==
    \A r \in Routers : conn[r] = "open" /\ router[r] \in Waiting =>
        LET q    == toRouter[r]
            next == joined[r] + Len(heard[r])
        IN  /\ \A k \in DOMAIN heard[r] : heard[r][k] = joined[r] + k - 1
            /\ next <= LastSent(r) + 1
            /\ {q[i].packet : i \in PacketsIn(q)} = next .. LastSent(r)
            /\ \A i, j \in PacketsIn(q) : i < j => q[i].packet < q[j].packet

\* No session stays half open with each end waiting for the other: the router
\* gets ready or its process ends or fails, but for one whose VNSOpen came before
\* the topology was known.
SessionSettles ==
    \A r \in Routers :
        router[r] = "auth" ~> (router[r] \in {"ready"} \cup Ended \/ r \in unanswered)

-----------------------------------------------------------------------------
(* What a comment of the code says, and the code does not keep to.           *)

\* "wait for authentication to be completed (server sends the first message)"
\* (sr_vns_comm.c:125): no packet comes before the router is authenticated.
AuthenticatedFirst ==
    \A r \in Routers : router[r] \in DOMAIN Expected =>
        SelectSeq(toRouter[r], IsPacket) = <<>>
=============================================================================
