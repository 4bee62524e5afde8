--------------------------- MODULE TransportHistory ---------------------------
(***************************************************************************)
(* Transport with two history variables that only observe it: for each     *)
(* node and destination the last announce the node accepted, and the last  *)
(* one it could cache a response for.  The tables are compared with them.  *)
(*                                                                         *)
(* The ring of packet hashes implements SeenWindow: reading the ring from  *)
(* its oldest entry to its newest gives the window.                        *)
(***************************************************************************)
EXTENDS Transport, Sequences

CONSTANT Never   \* nothing heard since the reset

VARIABLES
  heard,      \* heard[n][d]: the packet, its interface and the uptime
  cacheable   \* cacheable[n][d]: the packet and the node's id at the time

hvars == <<vars, heard, cacheable>>

Heard == [packet : Packet, interface : Interface, at : 0 .. MaxUptime]
Cacheable == [packet : Packet, id : TransportId]

ASSUME HistoryAssumption == Never \notin Heard \cup Cacheable

HInit ==
  /\ Init
  /\ heard = [n \in Node |-> [d \in Dest |-> Never]]
  /\ cacheable = [n \in Node |-> [d \in Dest |-> Never]]

Notes(n, p, iface) ==
  /\ heard' = [heard EXCEPT ![n][p.dest] =
                 [packet |-> p, interface |-> iface, at |-> uptime[n]]]
  /\ cacheable' =
       IF p.body.long
         THEN cacheable
         ELSE [cacheable EXCEPT ![n][p.dest] =
                 [packet |-> p, id |-> identity_current[n]]]

NotesNothing == UNCHANGED <<heard, cacheable>>

(* Receive, except for HearAnnounce *)
HearOther(n, p) ==
  \/ DropDuplicate(n, p)
  \/ RefuseAnnounce(n, p)
  \/ AnswerPathRequest(n, p)
  \/ IgnorePathRequest(n, p)
  \/ ForwardToDestination(n, p)
  \/ ForwardToNextHop(n, p)
  \/ RefuseForward(n, p)
  \/ DispatchToLink(n, p)

LoraStep(n, p) ==
  \/ HearAnnounce(n, p) /\ Notes(n, p, "lora")
  \/ HearOther(n, p) /\ NotesNothing

ResetStep(n) ==
  /\ Reset(n)
  /\ heard' = [heard EXCEPT ![n] = [d \in Dest |-> Never]]
  /\ cacheable' = [cacheable EXCEPT ![n] = [d \in Dest |-> Never]]

HNext ==
  \E n \in Node :
    \/ \E p \in LoraPackets : LoraStep(n, p)
    \/ \E p \in HostAnnounces : HearHostAnnounce(n, p) /\ Notes(n, p, "kiss")
    \/ \E p \in HostPackets : SendRaw(n, p) /\ NotesNothing
    \/ \E id \in TransportId \ {ZeroId} : TakeIdentity(n, id) /\ NotesNothing
    \/ Tick(n) /\ NotesNothing
    \/ ResetStep(n)

HSpec == HInit /\ [][HNext]_hvars

-----------------------------------------------------------------------------
HTypeOK ==
  /\ TypeOK
  /\ heard \in [Node -> [Dest -> Heard \cup {Never}]]
  /\ cacheable \in [Node -> [Dest -> Cacheable \cup {Never}]]

(* Two slots never describe the same destination, in either table: an       *)
(* update finds the slot its predecessor wrote, whatever was evicted in    *)
(* between (the scans of transport_path_update and of the response cache). *)
OneSlotPerDestination ==
  \A n \in Node, d \in Dest :
    /\ \A s, t \in PathSlot :
         Holds(path_table[n], s, d) /\ Holds(path_table[n], t, d) => s = t
    /\ \A s, t \in CacheSlot :
         Caches(response_cache[n], s, d) /\ Caches(response_cache[n], t, d) => s = t

(* Every route is what the last accepted announce of its destination said, *)
(* on whatever interface it came, one hop further: no field of an older    *)
(* route or of an evicted one survives in the slot, the hop count has not  *)
(* wrapped, and a packet that transport_process_packet forwards follows    *)
(* the newest announce.                                                    *)
RouteIsLastAnnounce ==
  \A n \in Node, s \in PathSlot :
    Occupied(path_table[n], s) =>
      LET r == path_table[n][s]
          h == heard[n][r.dest]
      IN  /\ h # Never
          /\ r.interface = h.interface
          /\ r.hops = h.packet.hops + 1
          /\ r.last_seen = h.at % ClockModulus
          /\ r.next_hop = IF h.packet.header = 2 THEN h.packet.tid ELSE r.dest

(* One slot for a destination, and in it what was announced last. *)
OneCurrentRoute == OneSlotPerDestination /\ RouteIsLastAnnounce

(* Every cached response is the last cacheable announce of its destination *)
(* under the id the node had then, one hop further.                        *)
ResponseIsLastCacheable ==
  \A n \in Node, s \in CacheSlot :
    Occupied(response_cache[n], s) =>
      LET raw == response_cache[n][s].raw
          c == cacheable[n][raw.dest]
      IN  /\ c # Never
          /\ raw.body = c.packet.body
          /\ raw.hops = c.packet.hops + 1
          /\ raw.header = 2 /\ raw.tid = c.id
          /\ raw.context = "path_response"

(* A destination that was heard and has no route lost it to younger ones:  *)
(* the table is full of destinations heard no earlier.  Eviction in        *)
(* transport_path_update keeps the most recently heard destinations as     *)
(* long as a node is not up for longer than its clock can count.           *)
KeepsMostRecentlyHeard ==
  \A n \in Node, d \in Dest :
    /\ uptime[n] < ClockModulus
    /\ heard[n][d] # Never
    /\ ~ Routed(path_table[n], d)
    => \A s \in PathSlot :
        /\ Occupied(path_table[n], s)
        /\ heard[n][path_table[n][s].dest].at >= heard[n][d].at

(* The clock may wrap between two announces: when every route was heard    *)
(* less than one turn of the 32-bit clock ago, the evicted one is still    *)
(* the one heard first (the unsigned subtraction now - last_seen).         *)
TrueAge(n, d) == uptime[n] - heard[n][d].at

EvictsOldest ==
  \A n \in Node, s \in PathSlot :
    LET old == path_table[n][s]
        new == path_table'[n][s]
    IN  /\ old.valid /\ new.valid /\ new.dest # old.dest
        /\ \A t \in PathSlot : TrueAge(n, path_table[n][t].dest) < ClockModulus
        => \A t \in PathSlot :
             heard[n][path_table[n][t].dest].at >= heard[n][old.dest].at

EvictsOldestAcrossWrap == [][EvictsOldest]_hvars

ForwardsOne ==
  \A m \in sent' :
    LET n == m[1]
        q == m[2]
        h == heard[n][q.dest]
    IN  q.type # "announce" /\ packet_ring'[n] # packet_ring[n] =>
          /\ h # Never
          /\ h.interface = "lora"
          /\ q.header = 1 <=> h.packet.hops = 0
          /\ q.header = 2 =>
               q.tid = IF h.packet.header = 2 THEN h.packet.tid ELSE q.dest

(* A packet in transport leaves as the last announce of its destination    *)
(* said: over LoRa only, stripped when the destination was heard directly, *)
(* and else to the transport node that announce came from.                 *)
ForwardsAsAnnounced == [][ForwardsOne]_hvars

(* The doc of transport_process_announce: the cache holds a byte-exact      *)
(* response for later path requests.  Whatever response is cached is the   *)
(* announce the route was learned from.                                    *)
ResponseIsOfLastAnnounce ==
  \A n \in Node, s \in CacheSlot :
    Occupied(response_cache[n], s) =>
      LET h == heard[n][response_cache[n][s].raw.dest]
      IN  h # Never /\ response_cache[n][s].raw.body = h.packet.body

-----------------------------------------------------------------------------
(* the i-th oldest of the entries the ring holds *)
RingEntry(ring, i) ==
  LET at == ring.next + i - 1
  IN  IF ring.count < RingCapacity
        THEN ring.hashes[i - 1]
        ELSE ring.hashes[IF at < RingCapacity THEN at ELSE at - RingCapacity]

WindowOf(ring) == [i \in 1 .. ring.count |-> RingEntry(ring, i)]

Window == INSTANCE SeenWindow WITH
  Key <- {Hashable(p) : p \in LoraPackets},
  Capacity <- RingCapacity,
  window <- [n \in Node |-> WindowOf(packet_ring[n])]

(* transport_packet_seen lets a packet through exactly when it is not one  *)
(* of the last RingCapacity distinct packets let through, although its     *)
(* scan looks at slots 0 .. count-1 and its store goes round the ring.     *)
RingIsSeenWindow == Window!Spec

(* A packet a node passes on is in its ring when the handler returns, so   *)
(* the echo of its own transmission, with another hop count, header and    *)
(* transport id, is a duplicate.  Path responses and raw host frames are   *)
(* not passed on: nothing is stored for them.                              *)
EchoIsKnown ==
  [][\A m \in sent' :
       packet_ring' # packet_ring /\ m[2].context # "path_response"
         => InRing(packet_ring'[m[1]], Hashable(m[2]))]_vars
=============================================================================
