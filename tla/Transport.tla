------------------------------ MODULE Transport ------------------------------
(***************************************************************************)
(* The transport layer of the firmware, for a set of nodes that run it.    *)
(* A node's main loop is single-threaded: each handler runs to completion, *)
(* so one action is one call of transport_process_packet (from the LoRa    *)
(* poll), one announce frame from the host over KISS, one host command, or *)
(* a reset.  A frame shorter than its header is refused before anything is *)
(* written and is not shown.                                               *)
(***************************************************************************)
EXTENDS TransportTables

CONSTANTS
  Node,          \* nodes that run this firmware
  LoraPackets,   \* packets the radio may hand to a node (an input set)
  HostAnnounces, \* announces the host may deliver in a KISS frame
  HostPackets,   \* packets the host may send raw with the 'T' command
  MaxUptime      \* bound on the milliseconds between resets

ASSUME TransportAssumption ==
  /\ LoraPackets \subseteq Packet
  /\ HostAnnounces \subseteq Packet
  /\ HostPackets \subseteq Packet
  /\ MaxUptime \in Nat

VARIABLES
  path_table,        \* transport_path_table
  response_cache,    \* transport_path_response_cache
  packet_ring,       \* transport_packet_hashes with its count and next index
  identity_current,  \* the transport id of the node, ZeroId until 'N'
  uptime,            \* milliseconds since reset, not yet cut to 32 bits
  sent               \* <<node, packet>> put on the air by the last step

tables == <<path_table, response_cache>>
vars == <<path_table, response_cache, packet_ring, identity_current, uptime, sent>>

Init ==
  /\ path_table = [n \in Node |-> EmptyPathTable]
  /\ response_cache = [n \in Node |-> EmptyCache]
  /\ packet_ring = [n \in Node |-> EmptyRing]
  /\ identity_current = [n \in Node |-> ZeroId]
  /\ uptime = [n \in Node |-> 0]
  /\ sent = {}

Now(n) == uptime[n] % ClockModulus

-----------------------------------------------------------------------------
(* Deduplication and transmission *)

Fresh(n, p) == ~ InRing(packet_ring[n], Hashable(p))

FirstSightFault(n, p) ==   \* only announces are remembered
  /\ Fresh(n, p)
  /\ packet_ring' = IF p.type = "announce"
                      THEN [packet_ring EXCEPT ![n] = Stored(@, Hashable(p))]
                      ELSE packet_ring

(* transport_packet_seen stores the hash before the packet is processed *)
FirstSight(n, p) ==
  /\ Fresh(n, p)
  /\ packet_ring' = [packet_ring EXCEPT ![n] = Stored(@, Hashable(p))]

(* lora_interface_send blocks until the radio is done or reports an error; *)
(* on an error the frame may or may not have left the antenna, and nobody  *)
(* tries again                                                             *)
Transmits(n, q) == sent' \in {{<<n, q>>}, {}}

Silent == sent' = {}

DropDuplicate(n, p) ==
  /\ ~ Fresh(n, p)
  /\ Silent
  /\ UNCHANGED <<tables, packet_ring, identity_current, uptime>>

(* the packet is consumed and leaves only its hash behind *)
OnlyRemembered(n, p) ==
  /\ FirstSight(n, p)
  /\ Silent
  /\ UNCHANGED <<tables, identity_current, uptime>>

-----------------------------------------------------------------------------
(* Announces *)

AcceptableFault(p) ==   \* the hop count may wrap
  /\ p.type = "announce"
  /\ p.context = "none"
  /\ p.dest \in Dest
  /\ p.body \in AnnounceBody
  /\ p.body.genuine

(* announce_parse, announce_validate (which recomputes the destination, so  *)
(* a well-known hash cannot be announced), and transport_path_update, which *)
(* refuses a hop count that no longer fits in a byte                        *)
Acceptable(p) ==
  /\ p.type = "announce"
  /\ p.context = "none"
  /\ p.dest \in Dest
  /\ p.body \in AnnounceBody
  /\ p.body.genuine
  /\ p.hops + 1 < HopModulus

UpdatePath(n, p, iface) ==
  \E s \in PathSlot :
    /\ PicksPathSlot(path_table[n], p.dest, Now(n), s)
    /\ path_table' = [path_table EXCEPT ![n][s] = RouteFrom(p, iface, Now(n))]

UpdateResponseFault(n, p) ==   \* a cached response is never replaced
  IF p.body.long \/ \E s \in CacheSlot : Caches(response_cache[n], s, p.dest)
    THEN UNCHANGED response_cache
    ELSE \E s \in CacheSlot :
           /\ PicksCacheSlot(response_cache[n], p.dest, s)
           /\ response_cache' =
                [response_cache EXCEPT ![n][s] =
                   [valid |-> TRUE, raw |-> PathResponse(p, identity_current[n])]]

(* an announce too long for a response leaves the cache as it was; the     *)
(* caller does not look at the result                                      *)
UpdateResponse(n, p) ==
  \/ /\ p.body.long
     /\ UNCHANGED response_cache
  \/ /\ ~ p.body.long
     /\ \E s \in CacheSlot :
          /\ PicksCacheSlot(response_cache[n], p.dest, s)
          /\ response_cache' =
               [response_cache EXCEPT ![n][s] =
                  [valid |-> TRUE, raw |-> PathResponse(p, identity_current[n])]]

HearAnnounce(n, p) ==
  /\ Acceptable(p)
  /\ FirstSight(n, p)
  /\ UpdatePath(n, p, "lora")
  /\ UpdateResponse(n, p)
  /\ \/ ~ p.body.long /\ Transmits(n, Rebroadcast(p, identity_current[n]))
     \/ p.body.long /\ Silent
  /\ UNCHANGED <<identity_current, uptime>>

RefuseAnnounce(n, p) ==
  /\ p.type = "announce"
  /\ ~ Acceptable(p)
  /\ OnlyRemembered(n, p)

(* an announce from the host is neither deduplicated nor rebroadcast *)
HearHostAnnounce(n, p) ==
  /\ p.header = 1
  /\ Acceptable(p)
  /\ UpdatePath(n, p, "kiss")
  /\ UpdateResponse(n, p)
  /\ Silent
  /\ UNCHANGED <<packet_ring, identity_current, uptime>>

-----------------------------------------------------------------------------
(* Path requests *)

PathRequest(p) ==
  /\ p.type = "data"
  /\ p.header = 1
  /\ p.context = "none"
  /\ p.dest = PathRequestDest

(* transport_path_response_send: the route must not lead to the requestor *)
Answers(n, p, c) ==
  /\ p.body \in RequestBody
  /\ \E s \in PathSlot :
       /\ LooksUp(path_table[n], p.body.wants, s)
       /\ path_table[n][s].next_hop # p.body.requestor
             \/ p.body.requestor = Nobody
  /\ LooksUpResponse(response_cache[n], p.body.wants, c)

AnswerPathRequest(n, p) ==
  /\ PathRequest(p)
  /\ FirstSight(n, p)
  /\ \E c \in CacheSlot :
       Answers(n, p, c) /\ Transmits(n, response_cache[n][c].raw)
  /\ UNCHANGED <<tables, identity_current, uptime>>

IgnorePathRequest(n, p) ==
  /\ PathRequest(p)
  /\ ~ \E c \in CacheSlot : Answers(n, p, c)
  /\ OnlyRemembered(n, p)

-----------------------------------------------------------------------------
(* Packets in transport: HEADER_2, anything but an announce *)

InTransport(p) == p.type # "announce" /\ p.header = 2

ForwardsOverFault(n, p, s) ==   \* the interface of the route is not looked at
  /\ InTransport(p)
  /\ p.tid = identity_current[n]
  /\ LooksUp(path_table[n], p.dest, s)
  /\ path_table[n][s].hops >= 1

(* the packet names this node as its next transport node and slot s holds  *)
(* the route it takes                                                      *)
ForwardsOver(n, p, s) ==
  /\ InTransport(p)
  /\ p.tid = identity_current[n]
  /\ LooksUp(path_table[n], p.dest, s)
  /\ path_table[n][s].interface = "lora"
  /\ path_table[n][s].hops >= 1

ForwardToDestination(n, p) ==
  /\ FirstSight(n, p)
  /\ \E s \in PathSlot :
       /\ ForwardsOver(n, p, s)
       /\ path_table[n][s].hops = 1
       /\ Transmits(n, Stripped(p))
  /\ UNCHANGED <<tables, identity_current, uptime>>

ForwardToNextHop(n, p) ==
  /\ FirstSight(n, p)
  /\ \E s \in PathSlot :
       /\ ForwardsOver(n, p, s)
       /\ path_table[n][s].hops > 1
       /\ Transmits(n, Relayed(p, path_table[n][s].next_hop))
  /\ UNCHANGED <<tables, identity_current, uptime>>

RefuseForward(n, p) ==
  /\ InTransport(p)
  /\ ~ \E s \in PathSlot : ForwardsOver(n, p, s)
  /\ OnlyRemembered(n, p)

(* link_process_packet takes over; it sends nothing and does not touch the *)
(* transport's state                                                       *)
DispatchToLink(n, p) ==
  /\ p.type # "announce" /\ p.header = 1
  /\ ~ PathRequest(p)
  /\ OnlyRemembered(n, p)

Receive(n, p) ==
  \/ DropDuplicate(n, p)
  \/ HearAnnounce(n, p)
  \/ RefuseAnnounce(n, p)
  \/ AnswerPathRequest(n, p)
  \/ IgnorePathRequest(n, p)
  \/ ForwardToDestination(n, p)
  \/ ForwardToNextHop(n, p)
  \/ RefuseForward(n, p)
  \/ DispatchToLink(n, p)

-----------------------------------------------------------------------------
(* The host and the clock *)

(* the 'T' command: a raw frame goes out and its hash is not remembered *)
SendRaw(n, p) ==
  /\ Transmits(n, p)
  /\ UNCHANGED <<tables, packet_ring, identity_current, uptime>>

(* the 'N' command: the identity is loaded from flash, or created *)
TakeIdentity(n, id) ==
  /\ identity_current' = [identity_current EXCEPT ![n] = id]
  /\ Silent
  /\ UNCHANGED <<tables, packet_ring, uptime>>

Tick(n) ==
  /\ uptime[n] < MaxUptime
  /\ uptime' = [uptime EXCEPT ![n] = @ + 1]
  /\ Silent
  /\ UNCHANGED <<tables, packet_ring, identity_current>>

(* nothing the transport knows survives a reset: .bss is cleared again *)
Reset(n) ==
  /\ path_table' = [path_table EXCEPT ![n] = EmptyPathTable]
  /\ response_cache' = [response_cache EXCEPT ![n] = EmptyCache]
  /\ packet_ring' = [packet_ring EXCEPT ![n] = EmptyRing]
  /\ identity_current' = [identity_current EXCEPT ![n] = ZeroId]
  /\ uptime' = [uptime EXCEPT ![n] = 0]
  /\ Silent

Next ==
  \E n \in Node :
    \/ \E p \in LoraPackets : Receive(n, p)
    \/ \E p \in HostAnnounces : HearHostAnnounce(n, p)
    \/ \E p \in HostPackets : SendRaw(n, p)
    \/ \E id \in TransportId \ {ZeroId} : TakeIdentity(n, id)
    \/ Tick(n)
    \/ Reset(n)

Spec == Init /\ [][Next]_vars

-----------------------------------------------------------------------------
TypeOK ==
  /\ path_table \in [Node -> [PathSlot -> Route \cup {FreeSlot}]]
  /\ response_cache \in [Node -> [CacheSlot -> Response \cup {FreeSlot}]]
  /\ packet_ring \in [Node -> Ring]
  /\ identity_current \in [Node -> TransportId]
  /\ uptime \in [Node -> 0 .. MaxUptime]
  /\ sent \subseteq Node \X Packet
=============================================================================
