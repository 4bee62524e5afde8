--------------------------- MODULE TransportTables ----------------------------
(***************************************************************************)
(* Reticulum packets, as far as the firmware's transport tells them apart. *)
(*                                                                         *)
(* A packet is a record.  Hashes (destinations, transport ids) are         *)
(* elements of constant sets, so SHA-256 is collision-free here; the       *)
(* bytes after the context byte are a "body" that keeps only what a guard  *)
(* of the code reads.                                                      *)
(*                                                                         *)
(* The three fixed-size tables of the transport, each the value one node   *)
(* holds: the path table, the path-response cache and the ring of packet   *)
(* hashes.  A scan that picks a slot is written as the predicate the       *)
(* picked slot satisfies; the scans go upwards, so ties go to the lowest.  *)
(***************************************************************************)
EXTENDS Naturals

CONSTANTS
  Dest,             \* destination hashes that are announced on the mesh
  PathRequestDest,  \* the well-known path-request destination hash
  TransportId,      \* identity hashes, used as HEADER_2 transport ids
  ZeroId,           \* identity_current.hash before an identity is loaded
  Nobody,           \* no transport id: a HEADER_1 packet, an anonymous request
  Content,          \* what makes two bodies differ (random hash, tag, payload)
  HopModulus        \* the hop count is one byte: 256 in the code

ASSUME PacketAssumption ==
  /\ HopModulus \in Nat /\ HopModulus > 1
  /\ ZeroId \in TransportId
  /\ Nobody \notin TransportId \cup Dest
  /\ PathRequestDest \notin Dest

(***************************************************************************)
(* "genuine": announce_parse finds the exact announce flags and length and *)
(* announce_validate finds the destination hash and signature correct.     *)
(* "long": the HEADER_2 form of the packet exceeds the 253 bytes the radio *)
(* carries (a HEADER_1 packet of more than 237 bytes).                     *)
(***************************************************************************)
AnnounceBody == [id : Content, genuine : BOOLEAN, long : BOOLEAN]

(* requested destination hash, tag, and the requestor when there is one *)
RequestBody == [id : Content, wants : Dest, requestor : TransportId \cup {Nobody}]

PlainBody == [id : Content]

Hop == 0 .. HopModulus - 1

(* what the 16 bytes of a next hop or of a transport id may hold *)
HopHash == TransportId \cup Dest

Type == {"data", "announce", "linkrequest", "proof"}
Target == Dest \cup {PathRequestDest}
Context == {"none", "path_response", "other"}
Body == AnnounceBody \cup RequestBody \cup PlainBody

Packet ==
  [type    : Type,
   header  : {1, 2},
   hops    : Hop,
   tid     : HopHash \cup {Nobody},
   dest    : Target,
   context : Context,
   body    : Body]

(* Operators named ...Fault below are plausible mistakes in the definition  *)
(* that follows them; model checking with the mistake must fail.           *)

HashableFault(p) ==   \* the hop count is hashed too
  [type |-> p.type, dest |-> p.dest, context |-> p.context, body |-> p.body,
   hops |-> p.hops]

(***************************************************************************)
(* The hashable part of a packet: what survives the rewriting of transport *)
(* headers.  Hop count, header type and transport id are left out.         *)
(***************************************************************************)
Hashable(p) ==
  [type |-> p.type, dest |-> p.dest, context |-> p.context, body |-> p.body]

PacketKey == [type : Type, dest : Target, context : Context, body : Body]

(* the incremented hop count, stored in one byte *)
OneMoreHop(p) == IF p.hops + 1 < HopModulus THEN p.hops + 1 ELSE 0

RebroadcastFault(p, id) ==   \* the hop count is left as received
  [p EXCEPT !.header = 2, !.tid = id]

RebroadcastIdFault(p, id) ==   \* an earlier transport id is kept
  [p EXCEPT !.header = 2, !.hops = OneMoreHop(p),
            !.tid = IF p.header = 2 THEN p.tid ELSE id]

(* an accepted announce as this node sends it on, under its own transport id *)
Rebroadcast(p, id) ==
  [p EXCEPT !.header = 2, !.tid = id, !.hops = OneMoreHop(p)]

(* a packet in transport on its way to the next transport node ... *)
Relayed(p, next) == [p EXCEPT !.tid = next, !.hops = OneMoreHop(p)]

(* ... and on its last hop, where the transport header is removed *)
Stripped(p) ==
  [p EXCEPT !.header = 1, !.tid = Nobody, !.hops = OneMoreHop(p)]

(* the answer to a path request: the signed announce with another context *)
PathResponse(p, id) ==
  [p EXCEPT !.header = 2, !.tid = id, !.hops = OneMoreHop(p),
            !.context = "path_response"]

-----------------------------------------------------------------------------
CONSTANTS
  PathCapacity,   \* TRANSPORT_PATH_CAPACITY, 8 in the code
  CacheCapacity,  \* TRANSPORT_PATH_RESPONSE_CAPACITY, 8
  RingCapacity,   \* TRANSPORT_PACKET_HASH_CAPACITY, 16
  ClockModulus,   \* clock_now_ms returns 32 bits: 2^32
  NoKey           \* a ring slot that was never written

ASSUME TableAssumption ==
  /\ PathCapacity \in Nat \ {0}
  /\ CacheCapacity \in Nat \ {0}
  /\ RingCapacity \in Nat \ {0}
  /\ ClockModulus \in Nat \ {0}
  /\ NoKey \notin PacketKey

-----------------------------------------------------------------------------
(* The path table *)

PathSlot == 1 .. PathCapacity
Interface == {"kiss", "lora"}
ClockValue == 0 .. ClockModulus - 1

FreeSlot == [valid |-> FALSE]

Route ==
  [valid     : {TRUE},
   interface : Interface,
   hops      : Hop,
   last_seen : ClockValue,
   dest      : Dest,
   next_hop  : HopHash \cup {Nobody}]

EmptyPathTable == [s \in PathSlot |-> FreeSlot]

Occupied(table, s) == table[s].valid

Holds(table, s, d) == Occupied(table, s) /\ table[s].dest = d

(* transport_path_lookup stops at slot s *)
LooksUp(table, d, s) ==
  /\ Holds(table, s, d)
  /\ \A t \in 1 .. s - 1 : ~ Holds(table, t, d)

Routed(table, d) == \E s \in PathSlot : Holds(table, s, d)

AgeFault(table, s, now) ==   \* a clock that is behind means no time passed
  IF table[s].last_seen <= now THEN now - table[s].last_seen ELSE 0

(* unsigned 32-bit subtraction now - last_seen *)
Age(table, s, now) ==
  IF table[s].last_seen <= now
    THEN now - table[s].last_seen
    ELSE now + ClockModulus - table[s].last_seen

PicksPathSlotFault(table, d, now, s) ==   \* the scan stops at a free slot
  \/ /\ ~ Occupied(table, s)
     /\ \A t \in 1 .. s - 1 : Occupied(table, t)
  \/ /\ \A t \in PathSlot : Occupied(table, t)
     /\ LooksUp(table, d, s)
  \/ /\ ~ Routed(table, d)
     /\ \A t \in PathSlot : Occupied(table, t)
     /\ s = 1

PicksPathSlotEvictionFault(table, d, now, s) ==   \* slot 1 is given up
  \/ LooksUp(table, d, s)
  \/ /\ ~ Routed(table, d)
     /\ ~ Occupied(table, s)
     /\ \A t \in 1 .. s - 1 : Occupied(table, t)
  \/ /\ ~ Routed(table, d)
     /\ \A t \in PathSlot : Occupied(table, t)
     /\ s = 1

(* the slot in which transport_path_update writes destination d *)
PicksPathSlot(table, d, now, s) ==
  \/ LooksUp(table, d, s)
  \/ /\ ~ Routed(table, d)
     /\ ~ Occupied(table, s)
     /\ \A t \in 1 .. s - 1 : Occupied(table, t)
  \/ /\ ~ Routed(table, d)
     /\ \A t \in PathSlot : Occupied(table, t)
     /\ \A t \in PathSlot : Age(table, t, now) <= Age(table, s, now)
     /\ \A t \in 1 .. s - 1 : Age(table, t, now) < Age(table, s, now)

RouteFromFault(p, iface, now) ==   \* the hop count as received
  [valid     |-> TRUE,
   interface |-> iface,
   hops      |-> p.hops,
   last_seen |-> now,
   dest      |-> p.dest,
   next_hop  |-> IF p.header = 2 THEN p.tid ELSE p.dest]

(* what an accepted announce writes: the transport id of a HEADER_2        *)
(* announce is the next hop, a HEADER_1 announce came from its destination *)
RouteFrom(p, iface, now) ==
  [valid     |-> TRUE,
   interface |-> iface,
   hops      |-> OneMoreHop(p),
   last_seen |-> now,
   dest      |-> p.dest,
   next_hop  |-> IF p.header = 2 THEN p.tid ELSE p.dest]

-----------------------------------------------------------------------------
(* The path-response cache: a ready-made response packet per slot *)

CacheSlot == 1 .. CacheCapacity

Response == [valid : {TRUE}, raw : Packet]

EmptyCache == [s \in CacheSlot |-> FreeSlot]

Caches(cache, s, d) == Occupied(cache, s) /\ cache[s].raw.dest = d

(* transport_path_response_send stops at slot s *)
LooksUpResponse(cache, d, s) ==
  /\ Caches(cache, s, d)
  /\ \A t \in 1 .. s - 1 : ~ Caches(cache, t, d)

(* the slot in which transport_path_response_cache_update writes: a full   *)
(* cache always gives up its first slot                                    *)
PicksCacheSlot(cache, d, s) ==
  LET known == \E t \in CacheSlot : Caches(cache, t, d)
  IN  \/ LooksUpResponse(cache, d, s)
      \/ /\ ~ known
         /\ ~ Occupied(cache, s)
         /\ \A t \in 1 .. s - 1 : Occupied(cache, t)
      \/ /\ ~ known
         /\ \A t \in CacheSlot : Occupied(cache, t)
         /\ s = 1

-----------------------------------------------------------------------------
(* The ring of packet hashes *)

RingIndex == 0 .. RingCapacity - 1

Ring ==
  [hashes : [RingIndex -> PacketKey \cup {NoKey}],
   count  : 0 .. RingCapacity,
   next   : RingIndex]

EmptyRing == [hashes |-> [i \in RingIndex |-> NoKey], count |-> 0, next |-> 0]

InRingFault(ring, k) ==   \* the scan ends at the write index
  \E i \in 0 .. ring.next - 1 : ring.hashes[i] = k

InRing(ring, k) == \E i \in 0 .. ring.count - 1 : ring.hashes[i] = k

StoredFault(ring, k) ==   \* the write index does not go round
  [hashes |-> [ring.hashes EXCEPT ![ring.next] = k],
   count  |-> IF ring.count < RingCapacity THEN ring.count + 1 ELSE ring.count,
   next   |-> ring.next + 1]

Stored(ring, k) ==
  [hashes |-> [ring.hashes EXCEPT ![ring.next] = k],
   count  |-> IF ring.count < RingCapacity THEN ring.count + 1 ELSE ring.count,
   next   |-> IF ring.next + 1 < RingCapacity THEN ring.next + 1 ELSE 0]
=============================================================================
