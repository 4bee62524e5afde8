--------------------------- MODULE TransportProofs ---------------------------
(***************************************************************************)
(* Proofs about the transport of one node and about a mesh of nodes, for   *)
(* any nodes, capacities, packets, clocks and bounds:                      *)
(*                                                                         *)
(*  - the type invariant of Transport;                                     *)
(*  - the ring of packet hashes implements SeenWindow;                     *)
(*  - the path table and the response cache say what was heard last, by    *)
(*    induction on HInv: the comparison of the tables with the history     *)
(*    needs that no destination has two slots;                             *)
(*  - what is passed on is known, what is given up is the oldest;          *)
(*  - the tables and the packets follow the repository's reference models, *)
(*    by induction over the entries the loop of path_table.py visits;      *)
(*  - in a mesh of any size and shape hop counts are never too small, a    *)
(*    one-hop route means the destination is in range, the next hop of a   *)
(*    longer route is a node in range, by induction on MInv;               *)
(*  - no packet goes round where the rings hold the traffic, by induction  *)
(*    on QInv.                                                             *)
(***************************************************************************)
EXTENDS TransportContract, Mesh, SequenceTheorems, FiniteSetTheorems,
        WellFoundedInduction, TLAPS

-----------------------------------------------------------------------------
(* What each operator on packets and tables returns *)

(* Rewriting the transport header of a packet gives a packet. *)
LEMMA RewrittenPackets ==
  ASSUME NEW p \in Packet, NEW id \in HopHash \cup {Nobody}
  PROVE  /\ OneMoreHop(p) \in Hop
         /\ Rebroadcast(p, id) \in Packet
         /\ Relayed(p, id) \in Packet
         /\ Stripped(p) \in Packet
         /\ PathResponse(p, id) \in Packet
<1>1. OneMoreHop(p) \in Hop
  BY PacketAssumption DEF OneMoreHop, Packet, Hop
<1>2. /\ Rebroadcast(p, id) \in Packet
      /\ Relayed(p, id) \in Packet
  BY <1>1 DEF Rebroadcast, Relayed, Packet
<1>3. /\ Stripped(p) \in Packet
      /\ PathResponse(p, id) \in Packet
  BY <1>1 DEF Stripped, PathResponse, Packet, Context
<1>4. QED
  BY <1>1, <1>2, <1>3

LEMMA HashableType ==
  ASSUME NEW p \in Packet
  PROVE  Hashable(p) \in PacketKey
BY DEF Hashable, PacketKey, Packet

LEMMA RouteType ==
  ASSUME NEW p \in Packet, Acceptable(p), NEW i \in Interface, NEW now \in ClockValue
  PROVE  RouteFrom(p, i, now) \in Route
<1>1. OneMoreHop(p) \in Hop
  BY RewrittenPackets
<1>2. (IF p.header = 2 THEN p.tid ELSE p.dest) \in HopHash \cup {Nobody}
  BY DEF Packet, Acceptable, HopHash
<1>3. QED
  BY <1>1, <1>2 DEF RouteFrom, Route, Acceptable

LEMMA StoredType ==
  ASSUME NEW ring \in Ring, NEW k \in PacketKey
  PROVE  Stored(ring, k) \in Ring
BY TableAssumption DEF Stored, Ring, RingIndex

LEMMA NowType ==
  ASSUME NEW n \in Node, uptime[n] \in Nat
  PROVE  Now(n) \in ClockValue
BY TableAssumption DEF Now, ClockValue

LEMMA EmptyTypes ==
  /\ EmptyPathTable \in [PathSlot -> Route \cup {FreeSlot}]
  /\ EmptyCache \in [CacheSlot -> Response \cup {FreeSlot}]
  /\ EmptyRing \in Ring
BY TableAssumption
   DEF EmptyPathTable, EmptyCache, EmptyRing, Ring, RingIndex

-----------------------------------------------------------------------------
(* One lemma per group of actions: each keeps the types.  The packet and   *)
(* the identity are arbitrary, so that Mesh can use them too.              *)

(* A packet put on the air by a node is a packet. *)
LEMMA TransmitsType ==
  ASSUME NEW n \in Node, NEW q \in Packet, Transmits(n, q) \/ Silent
  PROVE  sent' \subseteq Node \X Packet
BY DEF Transmits, Silent

LEMMA UpdatePathType ==
  ASSUME TypeOK, NEW n \in Node, NEW p \in Packet, NEW i \in Interface,
         Acceptable(p), UpdatePath(n, p, i)
  PROVE  path_table' \in [Node -> [PathSlot -> Route \cup {FreeSlot}]]
<1>1. PICK s \in PathSlot :
        path_table' = [path_table EXCEPT ![n][s] = RouteFrom(p, i, Now(n))]
  BY DEF UpdatePath
<1>2. RouteFrom(p, i, Now(n)) \in Route
  BY RouteType, NowType DEF TypeOK
<1>3. QED
  BY <1>1, <1>2 DEF TypeOK

LEMMA UpdateResponseType ==
  ASSUME TypeOK, NEW n \in Node, NEW p \in Packet, UpdateResponse(n, p)
  PROVE  response_cache' \in [Node -> [CacheSlot -> Response \cup {FreeSlot}]]
<1>1. CASE p.body.long /\ UNCHANGED response_cache
  BY <1>1 DEF TypeOK
<1>2. CASE ~ p.body.long
  <2>1. PICK s \in CacheSlot :
          response_cache' =
            [response_cache EXCEPT ![n][s] =
               [valid |-> TRUE, raw |-> PathResponse(p, identity_current[n])]]
    BY <1>2 DEF UpdateResponse
  <2>2. PathResponse(p, identity_current[n]) \in Packet
    BY RewrittenPackets DEF TypeOK, HopHash
  <2>3. QED
    BY <2>1, <2>2 DEF TypeOK, Response
<1>3. QED
  BY <1>1, <1>2 DEF UpdateResponse

(* A slot whose valid byte is set holds a route, or a response. *)
LEMMA OccupiedSlots ==
  ASSUME TypeOK, NEW n \in Node
  PROVE  /\ \A s \in PathSlot :
              Occupied(path_table[n], s) => path_table[n][s] \in Route
         /\ \A s \in CacheSlot :
              Occupied(response_cache[n], s) => response_cache[n][s].raw \in Packet
<1>1. ASSUME NEW s \in PathSlot, Occupied(path_table[n], s)
      PROVE  path_table[n][s] \in Route
  <2>1. path_table[n][s] \in Route \cup {FreeSlot}
    BY DEF TypeOK
  <2>2. QED
    BY <1>1, <2>1 DEF Occupied, FreeSlot
<1>2. ASSUME NEW s \in CacheSlot, Occupied(response_cache[n], s)
      PROVE  response_cache[n][s].raw \in Packet
  <2>1. response_cache[n][s] \in Response \cup {FreeSlot}
    BY DEF TypeOK
  <2>2. response_cache[n][s] \in Response
    BY <1>2, <2>1 DEF Occupied, FreeSlot
  <2>3. QED
    BY <2>2 DEF Response
<1>3. QED
  BY <1>1, <1>2

LEMMA FirstSightType ==
  ASSUME TypeOK, NEW n \in Node, NEW p \in Packet, FirstSight(n, p)
  PROVE  packet_ring' \in [Node -> Ring]
BY HashableType, StoredType DEF FirstSight, TypeOK

LEMMA ReceiveType ==
  ASSUME TypeOK, NEW n \in Node, NEW p \in Packet, Receive(n, p)
  PROVE  TypeOK'
<1>1. CASE DropDuplicate(n, p)
  BY <1>1 DEF TypeOK, DropDuplicate, Silent, tables
<1>2. CASE OnlyRemembered(n, p)
  BY <1>2, FirstSightType DEF TypeOK, OnlyRemembered, Silent, tables
<1>3. CASE HearAnnounce(n, p)
  <2>1. Rebroadcast(p, identity_current[n]) \in Packet
    BY RewrittenPackets DEF TypeOK, HopHash
  <2>2. /\ sent' \subseteq Node \X Packet
        /\ packet_ring' \in [Node -> Ring]
    BY <1>3, <2>1, TransmitsType, FirstSightType DEF HearAnnounce
  <2>3. /\ path_table' \in [Node -> [PathSlot -> Route \cup {FreeSlot}]]
        /\ response_cache' \in [Node -> [CacheSlot -> Response \cup {FreeSlot}]]
    BY <1>3, UpdatePathType, UpdateResponseType DEF HearAnnounce, Interface
  <2>4. QED
    BY <1>3, <2>2, <2>3 DEF TypeOK, HearAnnounce
<1>4. CASE AnswerPathRequest(n, p)
  <2>1. PICK c \in CacheSlot :
          /\ LooksUpResponse(response_cache[n], p.body.wants, c)
          /\ Transmits(n, response_cache[n][c].raw)
    BY <1>4 DEF AnswerPathRequest, Answers
  <2>2. response_cache[n][c].raw \in Packet
    BY <2>1, OccupiedSlots DEF TypeOK, LooksUpResponse, Caches
  <2>3. QED
    BY <1>4, <2>1, <2>2, TransmitsType, FirstSightType
       DEF TypeOK, AnswerPathRequest, tables
<1>5. CASE ForwardToDestination(n, p)
  <2>1. Stripped(p) \in Packet
    BY RewrittenPackets
  <2>2. QED
    BY <1>5, <2>1, TransmitsType, FirstSightType
       DEF TypeOK, ForwardToDestination, tables
<1>6. CASE ForwardToNextHop(n, p)
  <2>1. PICK s \in PathSlot :
          /\ ForwardsOver(n, p, s)
          /\ Transmits(n, Relayed(p, path_table[n][s].next_hop))
    BY <1>6 DEF ForwardToNextHop
  <2>2. path_table[n][s].next_hop \in HopHash \cup {Nobody}
    BY <2>1, OccupiedSlots DEF ForwardsOver, LooksUp, Holds, Route
  <2>3. Relayed(p, path_table[n][s].next_hop) \in Packet
    BY <2>2, RewrittenPackets
  <2>4. QED
    BY <1>6, <2>1, <2>3, TransmitsType, FirstSightType
       DEF TypeOK, ForwardToNextHop, tables
<1>7. QED
  BY <1>1, <1>2, <1>3, <1>4, <1>5, <1>6
     DEF Receive, RefuseAnnounce, IgnorePathRequest, RefuseForward, DispatchToLink

(* Whatever the host, the clock and the reset button do. *)
LEMMA HostType ==
  ASSUME TypeOK, NEW n \in Node,
         \/ \E p \in Packet : HearHostAnnounce(n, p) \/ SendRaw(n, p)
         \/ \E id \in TransportId : TakeIdentity(n, id)
         \/ Tick(n)
         \/ Reset(n)
  PROVE  TypeOK'
<1>1. ASSUME NEW p \in Packet, HearHostAnnounce(n, p) PROVE TypeOK'
  <2>1. /\ path_table' \in [Node -> [PathSlot -> Route \cup {FreeSlot}]]
        /\ response_cache' \in [Node -> [CacheSlot -> Response \cup {FreeSlot}]]
    BY <1>1, UpdatePathType, UpdateResponseType DEF HearHostAnnounce, Interface
  <2>2. QED
    BY <1>1, <2>1 DEF TypeOK, HearHostAnnounce, Silent
<1>2. ASSUME NEW p \in Packet, SendRaw(n, p) PROVE TypeOK'
  BY <1>2, TransmitsType DEF TypeOK, SendRaw, tables
<1>3. ASSUME NEW id \in TransportId, TakeIdentity(n, id) PROVE TypeOK'
  BY <1>3 DEF TypeOK, TakeIdentity, Silent, tables
<1>4. CASE Tick(n)
  BY <1>4, TransportAssumption DEF TypeOK, Tick, Silent, tables
<1>5. CASE Reset(n)
  BY <1>5, EmptyTypes, PacketAssumption, TransportAssumption
     DEF TypeOK, Reset, Silent
<1>6. QED
  BY <1>1, <1>2, <1>3, <1>4, <1>5

(* Every step of Transport is one of those. *)
LEMMA NextType ==
  ASSUME TypeOK, [Next]_vars
  PROVE  TypeOK'
<1>1. CASE UNCHANGED vars
  BY <1>1 DEF TypeOK, vars
<1>2. CASE Next
  <2>1. PICK n \in Node :
          \/ \E p \in LoraPackets : Receive(n, p)
          \/ \E p \in HostAnnounces : HearHostAnnounce(n, p)
          \/ \E p \in HostPackets : SendRaw(n, p)
          \/ \E id \in TransportId \ {ZeroId} : TakeIdentity(n, id)
          \/ Tick(n)
          \/ Reset(n)
    BY <1>2 DEF Next
  <2>2. CASE \E p \in LoraPackets : Receive(n, p)
    BY <2>2, ReceiveType, TransportAssumption
  <2>3. QED
    BY <2>1, <2>2, HostType, TransportAssumption
<1>3. QED
  BY <1>1, <1>2

LEMMA InitType == Init => TypeOK
BY EmptyTypes, PacketAssumption, TransportAssumption DEF Init, TypeOK

(* Type correctness: what a handler writes into a table, the ring or the   *)
(* air always has the shape the next handler relies on.                    *)
THEOREM TypeCorrect == Spec => []TypeOK
<1>1. Init => TypeOK
  BY InitType
<1>2. TypeOK /\ [Next]_vars => TypeOK'
  BY NextType
<1>3. QED
  BY <1>1, <1>2, PTL DEF Spec

-----------------------------------------------------------------------------
(* The ring of packet hashes and its window. *)

(* while the ring fills, it fills from slot 0 *)
RingShape(ring) == ring.count < RingCapacity => ring.next = ring.count

RingInv == \A n \in Node : RingShape(packet_ring[n])

LEMMA StoredShape ==
  ASSUME NEW ring \in Ring, RingShape(ring), NEW k
  PROVE  RingShape(Stored(ring, k))
BY TableAssumption DEF RingShape, Ring, RingIndex, Stored

(* A window is a sequence as long as the ring's count. *)
LEMMA WindowLength ==
  ASSUME NEW ring \in Ring
  PROVE  /\ WindowOf(ring) \in Seq(PacketKey \cup {NoKey})
         /\ Len(WindowOf(ring)) = ring.count
         /\ \A i \in 1 .. ring.count : WindowOf(ring)[i] = RingEntry(ring, i)
<1>1. ring.count \in 0 .. RingCapacity /\ ring.next \in 0 .. RingCapacity - 1
      /\ ring.hashes \in [0 .. RingCapacity - 1 -> PacketKey \cup {NoKey}]
  BY DEF Ring, RingIndex
<1>2. \A i \in 1 .. ring.count : RingEntry(ring, i) \in PacketKey \cup {NoKey}
  <2> SUFFICES ASSUME NEW i \in 1 .. ring.count
               PROVE  RingEntry(ring, i) \in PacketKey \cup {NoKey}
    OBVIOUS
  <2> DEFINE at == ring.next + i - 1
             slot == IF ring.count < RingCapacity THEN i - 1
                     ELSE IF at < RingCapacity THEN at ELSE at - RingCapacity
  <2>1. RingEntry(ring, i) = ring.hashes[slot]
    BY DEF RingEntry
  <2>2. slot \in 0 .. RingCapacity - 1
    BY <1>1, TableAssumption
  <2> HIDE DEF slot
  <2> QED BY <1>1, <2>1, <2>2
<1>3. ring.count \in Nat
  BY <1>1, TableAssumption
<1>4. WindowOf(ring) \in [1 .. ring.count -> PacketKey \cup {NoKey}]
  BY <1>2 DEF WindowOf
<1>5. WindowOf(ring) \in Seq(PacketKey \cup {NoKey})
  BY <1>3, <1>4, SeqDef
<1>6. Len(WindowOf(ring)) = ring.count
  BY <1>3, <1>4, <1>5, LenProperties
<1>7. QED
  BY <1>5, <1>6 DEF WindowOf

(* The scan of slots 0 .. count-1 looks at exactly the window. *)
LEMMA ScanSeesTheWindow ==
  ASSUME NEW ring \in Ring, RingShape(ring), NEW k
  PROVE  InRing(ring, k) <=> Window!Remembers(WindowOf(ring), k)
<1>1. ring.count \in 0 .. RingCapacity /\ ring.next \in 0 .. RingCapacity - 1
  BY DEF Ring, RingIndex
<1>2. Window!Remembers(WindowOf(ring), k) <=>
        \E i \in 1 .. ring.count : RingEntry(ring, i) = k
  BY WindowLength DEF Window!Remembers
<1>3. CASE ring.count < RingCapacity
  <2>1. \A i \in 1 .. ring.count : RingEntry(ring, i) = ring.hashes[i - 1]
    BY <1>3 DEF RingEntry
  <2>2. \A j \in 0 .. ring.count - 1 : j + 1 \in 1 .. ring.count /\ (j + 1) - 1 = j
    BY <1>1, TableAssumption
  <2>3. \A i \in 1 .. ring.count : i - 1 \in 0 .. ring.count - 1
    BY <1>1, TableAssumption
  <2>4. QED
    BY <1>2, <2>1, <2>2, <2>3 DEF InRing
<1>4. CASE ring.count = RingCapacity
  <2> DEFINE Place(i) == LET at == ring.next + i - 1
                         IN  IF at < RingCapacity THEN at ELSE at - RingCapacity
             Turn(j)  == IF j >= ring.next THEN j - ring.next + 1
                                         ELSE j + RingCapacity - ring.next + 1
  <2>1. \A i \in 1 .. ring.count :
          Place(i) \in 0 .. ring.count - 1 /\ RingEntry(ring, i) = ring.hashes[Place(i)]
    BY <1>1, <1>4, TableAssumption DEF RingEntry
  <2>2. \A j \in 0 .. ring.count - 1 : Turn(j) \in 1 .. ring.count /\ Place(Turn(j)) = j
    BY <1>1, <1>4, TableAssumption
  <2> HIDE DEF Place, Turn
  <2>3. QED
    BY <1>2, <2>1, <2>2 DEF InRing
<1>5. QED
  BY <1>1, <1>3, <1>4, TableAssumption

(* Storing a hash slides the window by it. *)
LEMMA StoreSlidesTheWindow ==
  ASSUME NEW ring \in Ring, RingShape(ring), NEW k \in PacketKey
  PROVE  WindowOf(Stored(ring, k)) = Window!Slide(WindowOf(ring), k)
<1> DEFINE new == Stored(ring, k)
           drop == IF ring.count < RingCapacity THEN 0 ELSE 1
           len == ring.count + 1 - drop
<1>1. /\ ring.count \in 0 .. RingCapacity
      /\ ring.next \in 0 .. RingCapacity - 1
      /\ ring.hashes \in [0 .. RingCapacity - 1 -> PacketKey \cup {NoKey}]
      /\ RingCapacity \in Nat \ {0}
  BY TableAssumption DEF Ring, RingIndex
<1>2. new \in Ring /\ RingShape(new)
  BY StoredType, StoredShape
<1>3. /\ new.count = len
      /\ new.next = IF ring.next + 1 < RingCapacity THEN ring.next + 1 ELSE 0
      /\ new.hashes = [ring.hashes EXCEPT ![ring.next] = k]
  BY <1>1 DEF Stored
<1>4. Window!Slide(WindowOf(ring), k) =
        [i \in 1 .. len |-> IF i = len THEN k ELSE WindowOf(ring)[i + drop]]
  BY WindowLength DEF Window!Slide
<1>5. ASSUME NEW i \in 1 .. len
      PROVE  RingEntry(new, i) = IF i = len THEN k ELSE WindowOf(ring)[i + drop]
  <2>1. CASE i = len
    BY <1>1, <1>3, <2>1 DEF RingEntry, RingShape
  <2>2. CASE i # len
    <3>1. i + drop \in 1 .. ring.count
      BY <1>1, <2>2
    <3>2. WindowOf(ring)[i + drop] = RingEntry(ring, i + drop)
      BY <3>1, WindowLength
    <3>3. RingEntry(new, i) = RingEntry(ring, i + drop)
      <4>1. CASE ring.count < RingCapacity
        <5>1. /\ drop = 0 /\ len = ring.count + 1 /\ ring.next = ring.count
              /\ i - 1 \in 0 .. ring.next - 1
          BY <1>1, <2>2, <4>1 DEF RingShape
        <5>2. new.hashes[i - 1] = ring.hashes[i - 1]
          BY <1>1, <1>3, <5>1
        <5>3. RingEntry(ring, i + drop) = ring.hashes[i - 1]
          BY <4>1, <5>1 DEF RingEntry
        <5>4. RingEntry(new, i) = new.hashes[i - 1]
          BY <1>1, <1>3, <4>1, <5>1 DEF RingEntry
        <5>5. QED
          BY <5>2, <5>3, <5>4
      <4>2. CASE ring.count = RingCapacity
        <5> DEFINE at == ring.next + i
                   j == IF at < RingCapacity THEN at ELSE at - RingCapacity
        <5>1. drop = 1 /\ len = RingCapacity /\ new.count = RingCapacity
          BY <1>1, <1>3, <4>2
        <5>2. j \in 0 .. RingCapacity - 1 /\ j # ring.next
          BY <1>1, <2>2, <5>1
        <5>3. RingEntry(ring, i + drop) = ring.hashes[j]
          BY <1>1, <4>2, <5>1 DEF RingEntry
        <5>4. RingEntry(new, i) = new.hashes[j]
          BY <1>1, <1>3, <2>2, <5>1 DEF RingEntry
        <5>5. new.hashes[j] = ring.hashes[j]
          BY <1>1, <1>3, <5>2
        <5>6. QED
          BY <5>3, <5>4, <5>5
      <4>3. QED
        BY <1>1, <4>1, <4>2
    <3>4. QED
      BY <2>2, <3>2, <3>3
  <2>3. QED
    BY <2>1, <2>2
<1>6. WindowOf(new) = [i \in 1 .. len |-> RingEntry(new, i)]
  BY <1>3 DEF WindowOf
<1> HIDE DEF new, len, drop
<1>7. QED
  BY <1>4, <1>5, <1>6 DEF new

-----------------------------------------------------------------------------
(* Every step stores one hash in one ring, empties a ring, or leaves the   *)
(* rings alone.                                                            *)
RingStep ==
  \/ UNCHANGED packet_ring
  \/ \E n \in Node, p \in LoraPackets : FirstSight(n, p)
  \/ \E n \in Node : packet_ring' = [packet_ring EXCEPT ![n] = EmptyRing]

LEMMA NextIsRingStep == [Next]_vars => RingStep
<1>1. ASSUME NEW n \in Node, NEW p \in LoraPackets, Receive(n, p)
      PROVE  RingStep
  BY <1>1 DEF RingStep, Receive, DropDuplicate, HearAnnounce, RefuseAnnounce,
       AnswerPathRequest, IgnorePathRequest, ForwardToDestination,
       ForwardToNextHop, RefuseForward, DispatchToLink, OnlyRemembered
<1>2. ASSUME NEW n \in Node,
             \/ \E p \in HostAnnounces : HearHostAnnounce(n, p)
             \/ \E p \in HostPackets : SendRaw(n, p)
             \/ \E id \in TransportId \ {ZeroId} : TakeIdentity(n, id)
             \/ Tick(n)
             \/ Reset(n)
      PROVE  RingStep
  BY <1>2 DEF RingStep, HearHostAnnounce, SendRaw, TakeIdentity, Tick, Reset
<1>3. QED
  BY <1>1, <1>2 DEF Next, RingStep, vars

LEMMA RingInvStep ==
  ASSUME TypeOK, RingInv, RingStep
  PROVE  RingInv'
<1>1. packet_ring \in [Node -> Ring]
  BY DEF TypeOK
<1>2. ASSUME NEW n \in Node, NEW p \in LoraPackets, FirstSight(n, p)
      PROVE  RingInv'
  <2>1. RingShape(Stored(packet_ring[n], Hashable(p)))
    BY <1>1, StoredShape DEF RingInv
  <2>2. packet_ring' = [packet_ring EXCEPT ![n] = Stored(packet_ring[n], Hashable(p))]
    BY <1>2 DEF FirstSight
  <2>3. QED
    BY <1>1, <2>1, <2>2 DEF RingInv
<1>3. ASSUME NEW n \in Node, packet_ring' = [packet_ring EXCEPT ![n] = EmptyRing]
      PROVE  RingInv'
  <2>1. RingShape(EmptyRing)
    BY DEF RingShape, EmptyRing
  <2>2. QED
    BY <1>1, <1>3, <2>1 DEF RingInv
<1>4. QED
  BY <1>2, <1>3 DEF RingStep, RingInv

(* A step of the ring is a step of the window, or a stutter. *)
LEMMA RingStepIsWindowStep ==
  ASSUME TypeOK, TypeOK', RingInv, RingStep
  PROVE  [Window!Next]_[n \in Node |-> WindowOf(packet_ring[n])]
<1> DEFINE W == [n \in Node |-> WindowOf(packet_ring[n])]
           W1 == [n \in Node |-> WindowOf(packet_ring'[n])]
           Keys == {Hashable(p) : p \in LoraPackets}
<1>1. packet_ring \in [Node -> Ring]
  BY DEF TypeOK
<1>2. CASE UNCHANGED packet_ring
  BY <1>2
<1>3. ASSUME NEW n \in Node, NEW p \in LoraPackets, FirstSight(n, p)
      PROVE  Window!Next
  <2> DEFINE k == Hashable(p)
  <2>1. k \in Keys /\ k \in PacketKey
    BY HashableType, TransportAssumption
  <2>2. ~ InRing(packet_ring[n], k) /\ RingShape(packet_ring[n])
    BY <1>3 DEF FirstSight, Fresh, RingInv
  <2> HIDE DEF k
  <2>3. ~ Window!Remembers(W[n], k)
    BY <1>1, <2>2, ScanSeesTheWindow
  <2>4. WindowOf(Stored(packet_ring[n], k)) = Window!Slide(W[n], k)
    BY <1>1, <2>1, <2>2, StoreSlidesTheWindow
  <2>5. packet_ring' = [packet_ring EXCEPT ![n] = Stored(packet_ring[n], k)]
    BY <1>3 DEF FirstSight, k
  <2>6. W1 = [W EXCEPT ![n] = Window!Slide(W[n], k)]
    BY <1>1, <2>4, <2>5
  <2>7. Window!LetThrough(n, k)
    BY <2>3, <2>6 DEF Window!LetThrough
  <2>8. QED
    BY <2>1, <2>7 DEF Window!Next
<1>4. ASSUME NEW n \in Node, packet_ring' = [packet_ring EXCEPT ![n] = EmptyRing]
      PROVE  Window!Next
  <2>1. WindowOf(EmptyRing) = << >>
    BY DEF WindowOf, EmptyRing
  <2>2. W1 = [W EXCEPT ![n] = << >>]
    BY <1>1, <1>4, <2>1
  <2>3. QED
    BY <2>2 DEF Window!Next, Window!Forget
<1>5. QED
  BY <1>2, <1>3, <1>4 DEF RingStep

(* transport_packet_seen with its ring is the window of the last           *)
(* RingCapacity distinct packets, whatever the capacity and the packets.   *)
THEOREM RingImplementsWindow == Spec => RingIsSeenWindow
<1>1. Init => RingInv /\ Window!Init
  <2>1. WindowOf(EmptyRing) = << >>
    BY DEF WindowOf, EmptyRing
  <2>2. RingShape(EmptyRing)
    BY DEF RingShape, EmptyRing
  <2>3. QED
    BY <2>1, <2>2 DEF Init, RingInv, Window!Init
<1>2. TypeOK /\ RingInv /\ [Next]_vars => RingInv'
  BY NextIsRingStep, RingInvStep
<1>3. TypeOK /\ TypeOK' /\ RingInv /\ [Next]_vars
        => [Window!Next]_[n \in Node |-> WindowOf(packet_ring[n])]
  BY NextIsRingStep, RingStepIsWindowStep
<1>4. QED
  BY <1>1, <1>2, <1>3, TypeCorrect, PTL DEF Spec, RingIsSeenWindow, Window!Spec

-----------------------------------------------------------------------------
(* The tables and what was heard. *)

(* Slots *)

Unique(table) ==
  \A d \in Dest : \A s, t \in PathSlot :
    Holds(table, s, d) /\ Holds(table, t, d) => s = t

UniqueResponse(cache) ==
  \A d \in Dest : \A s, t \in CacheSlot :
    Caches(cache, s, d) /\ Caches(cache, t, d) => s = t

(* The slot that is picked is the only one that may hold the destination. *)
LEMMA PickedSlotIsTheOnlyOne ==
  ASSUME NEW table, Unique(table), NEW d \in Dest, NEW now,
         NEW s \in PathSlot, PicksPathSlot(table, d, now, s),
         NEW t \in PathSlot, Holds(table, t, d)
  PROVE  t = s
BY DEF Unique, PicksPathSlot, LooksUp, Routed

LEMMA PickedCacheSlotIsTheOnlyOne ==
  ASSUME NEW cache, UniqueResponse(cache), NEW d \in Dest,
         NEW s \in CacheSlot, PicksCacheSlot(cache, d, s),
         NEW t \in CacheSlot, Caches(cache, t, d)
  PROVE  t = s
BY DEF UniqueResponse, PicksCacheSlot, LooksUpResponse

-----------------------------------------------------------------------------
(* A history entry is an acceptable announce of its destination, from the  *)
(* past.                                                                   *)
HeardBefore ==
  \A n \in Node, d \in Dest :
    /\ heard[n][d] # Never =>
         /\ Acceptable(heard[n][d].packet)
         /\ heard[n][d].packet.dest = d
         /\ heard[n][d].at <= uptime[n]
    /\ cacheable[n][d] # Never =>
         Acceptable(cacheable[n][d].packet) /\ cacheable[n][d].packet.dest = d

(* The tables against the history, field by field at once *)
RouteMatches ==
  \A n \in Node, s \in PathSlot :
    Occupied(path_table[n], s) =>
      LET h == heard[n][path_table[n][s].dest]
      IN  /\ h # Never
          /\ path_table[n][s] = RouteFrom(h.packet, h.interface, h.at % ClockModulus)

ResponseMatches ==
  \A n \in Node, s \in CacheSlot :
    Occupied(response_cache[n], s) =>
      LET c == cacheable[n][response_cache[n][s].raw.dest]
      IN  /\ response_cache[n][s].raw.dest \in Dest
          /\ c # Never
          /\ response_cache[n][s].raw = PathResponse(c.packet, c.id)

HInv ==
  /\ HTypeOK
  /\ HeardBefore
  /\ OneSlotPerDestination
  /\ RouteMatches
  /\ ResponseMatches

(* Accepting an announce, on either interface *)
Learns(n, p, i) ==
  /\ Acceptable(p)
  /\ UpdatePath(n, p, i)
  /\ UpdateResponse(n, p)
  /\ Notes(n, p, i)
  /\ UNCHANGED <<identity_current, uptime>>

(* what the other steps of a running node leave alone *)
LearnsNothing ==
  /\ UNCHANGED <<path_table, response_cache, heard, cacheable>>
  /\ \A n \in Node : uptime'[n] >= uptime[n]

(* Every step learns from one announce, learns nothing, or is a reset. *)
LEMMA StepCases ==
  ASSUME HTypeOK, HNext
  PROVE  /\ TypeOK'
         /\ \/ \E n \in Node, p \in Packet, i \in Interface : Learns(n, p, i)
            \/ LearnsNothing
            \/ \E n \in Node : ResetStep(n)
<1>1. TypeOK
  BY DEF HTypeOK
<1>2. PICK n \in Node :
        \/ \E p \in LoraPackets : LoraStep(n, p)
        \/ \E p \in HostAnnounces : HearHostAnnounce(n, p) /\ Notes(n, p, "kiss")
        \/ \E p \in HostPackets : SendRaw(n, p) /\ NotesNothing
        \/ \E id \in TransportId \ {ZeroId} : TakeIdentity(n, id) /\ NotesNothing
        \/ Tick(n) /\ NotesNothing
        \/ ResetStep(n)
  BY DEF HNext
<1>3. uptime \in [Node -> Nat]
  BY <1>1, TransportAssumption DEF TypeOK
<1>4. ASSUME NEW p \in Packet, LoraStep(n, p)
      PROVE  TypeOK' /\ (Learns(n, p, "lora") \/ LearnsNothing)
  <2>1. Receive(n, p)
    BY <1>4 DEF LoraStep, HearOther, Receive
  <2>2. TypeOK'
    BY <1>1, <2>1, ReceiveType
  <2>3. CASE HearAnnounce(n, p) /\ Notes(n, p, "lora")
    BY <2>2, <2>3 DEF HearAnnounce, Learns
  <2>4. CASE HearOther(n, p) /\ NotesNothing
    BY <1>3, <2>2, <2>4
       DEF HearOther, LearnsNothing, NotesNothing, tables, DropDuplicate,
           RefuseAnnounce, AnswerPathRequest, IgnorePathRequest,
           ForwardToDestination, ForwardToNextHop, RefuseForward,
           DispatchToLink, OnlyRemembered
  <2>5. QED
    BY <1>4, <2>3, <2>4 DEF LoraStep
<1>5. ASSUME NEW p \in Packet, HearHostAnnounce(n, p), Notes(n, p, "kiss")
      PROVE  TypeOK' /\ Learns(n, p, "kiss")
  BY <1>1, <1>5, HostType DEF HearHostAnnounce, Learns
<1>6. ASSUME NEW p \in Packet, SendRaw(n, p), NotesNothing
      PROVE  TypeOK' /\ LearnsNothing
  BY <1>1, <1>3, <1>6, HostType DEF SendRaw, LearnsNothing, NotesNothing, tables
<1>7. ASSUME NEW id \in TransportId, TakeIdentity(n, id), NotesNothing
      PROVE  TypeOK' /\ LearnsNothing
  <2>1. TypeOK'
    BY <1>1, <1>7, HostType
  <2>2. LearnsNothing
    BY <1>3, <1>7 DEF TakeIdentity, LearnsNothing, NotesNothing, tables
  <2>3. QED
    BY <2>1, <2>2
<1>8. CASE Tick(n) /\ NotesNothing
  <2>1. TypeOK'
    BY <1>1, <1>8, HostType
  <2>2. LearnsNothing
    BY <1>3, <1>8 DEF Tick, LearnsNothing, NotesNothing, tables
  <2>3. QED
    BY <2>1, <2>2
<1>9. CASE ResetStep(n)
  BY <1>1, <1>9, HostType DEF ResetStep
<1>10. QED
  BY <1>2, <1>4, <1>5, <1>6, <1>7, <1>8, <1>9, TransportAssumption DEF Interface

-----------------------------------------------------------------------------
(* Preservation, part by part *)

(* The history keeps its types and its relation to the clock. *)
LEMMA HistoryStep ==
  ASSUME HInv, HNext
  PROVE  HTypeOK' /\ HeardBefore'
<1>1. TypeOK'
  BY StepCases DEF HInv
<1>2. uptime \in [Node -> 0 .. MaxUptime] /\ identity_current \in [Node -> TransportId]
  BY DEF HInv, HTypeOK, TypeOK
<1>3. ASSUME NEW n \in Node, NEW p \in Packet, NEW i \in Interface, Learns(n, p, i)
      PROVE  HTypeOK' /\ HeardBefore'
  <2>1. p.dest \in Dest
    BY <1>3 DEF Learns, Acceptable
  <2>2. /\ [packet |-> p, interface |-> i, at |-> uptime[n]] \in Heard
        /\ [packet |-> p, id |-> identity_current[n]] \in Cacheable
    BY <1>2 DEF Heard, Cacheable
  <2>3. HTypeOK'
    BY <1>1, <1>3, <2>1, <2>2 DEF HInv, HTypeOK, Learns, Notes
  <2>4. HeardBefore'
    BY <1>2, <1>3, <2>1, TransportAssumption
       DEF HInv, HTypeOK, HeardBefore, Learns, Notes
  <2>5. QED
    BY <2>3, <2>4
<1>4. CASE LearnsNothing
  <2>1. HTypeOK'
    BY <1>1, <1>4 DEF HInv, HTypeOK, LearnsNothing
  <2>2. ASSUME NEW n \in Node, NEW d \in Dest, heard[n][d] # Never
        PROVE  heard[n][d].at <= uptime'[n]
    <3>1. heard[n][d] \in Heard
      BY <2>2 DEF HInv, HTypeOK
    <3>2. heard[n][d].at <= uptime[n] /\ uptime[n] <= uptime'[n]
      BY <1>4, <2>2 DEF HInv, HeardBefore, LearnsNothing
    <3>3. QED
      BY <1>1, <1>2, <3>1, <3>2, TransportAssumption DEF Heard, TypeOK
  <2>3. QED
    BY <1>4, <2>1, <2>2 DEF HInv, HeardBefore, LearnsNothing
<1>5. ASSUME NEW n \in Node, ResetStep(n)
      PROVE  HTypeOK' /\ HeardBefore'
  <2>1. HTypeOK'
    BY <1>1, <1>5 DEF HInv, HTypeOK, ResetStep
  <2>2. HeardBefore'
    BY <1>2, <1>5 DEF HInv, HTypeOK, HeardBefore, ResetStep, Reset
  <2>3. QED
    BY <2>1, <2>2
<1>6. QED
  BY <1>3, <1>4, <1>5, StepCases DEF HInv

(* Writing the picked slot keeps every destination in one slot at most. *)
LEMMA WriteKeepsUnique ==
  ASSUME NEW table \in [PathSlot -> Route \cup {FreeSlot}], Unique(table),
         NEW r \in Route, NEW now,
         NEW s \in PathSlot, PicksPathSlot(table, r.dest, now, s)
  PROVE  Unique([table EXCEPT ![s] = r])
<1> DEFINE new == [table EXCEPT ![s] = r]
<1>1. r.dest \in Dest
  BY DEF Route
<1>2. \A t \in PathSlot : Holds(table, t, r.dest) => t = s
  BY <1>1, PickedSlotIsTheOnlyOne
<1>3. \A d \in Dest, t \in PathSlot :
        Holds(new, t, d) <=> IF t = s THEN d = r.dest ELSE Holds(table, t, d)
  BY DEF Holds, Occupied, Route
<1>4. QED
  BY <1>1, <1>2, <1>3 DEF Unique

LEMMA WriteKeepsUniqueResponse ==
  ASSUME NEW cache \in [CacheSlot -> Response \cup {FreeSlot}], UniqueResponse(cache),
         NEW r \in Response, r.raw.dest \in Dest,
         NEW s \in CacheSlot, PicksCacheSlot(cache, r.raw.dest, s)
  PROVE  UniqueResponse([cache EXCEPT ![s] = r])
<1> DEFINE new == [cache EXCEPT ![s] = r]
<1>1. \A t \in CacheSlot : Caches(cache, t, r.raw.dest) => t = s
  BY PickedCacheSlotIsTheOnlyOne
<1>2. \A d \in Dest, t \in CacheSlot :
        Caches(new, t, d) <=> IF t = s THEN d = r.raw.dest ELSE Caches(cache, t, d)
  BY DEF Caches, Occupied, Response
<1>3. QED
  BY <1>1, <1>2 DEF UniqueResponse

(* OneSlotPerDestination node by node *)
LEMMA OneSlotIsUnique ==
  OneSlotPerDestination <=>
    \A n \in Node : Unique(path_table[n]) /\ UniqueResponse(response_cache[n])
BY DEF OneSlotPerDestination, Unique, UniqueResponse

(* What UpdatePath writes, given a correct table *)
LEMMA UpdatePathWrites ==
  ASSUME HInv, NEW n \in Node, NEW p \in Packet, NEW i \in Interface,
         Acceptable(p), UpdatePath(n, p, i)
  PROVE  \E s \in PathSlot :
           /\ PicksPathSlot(path_table[n], p.dest, Now(n), s)
           /\ RouteFrom(p, i, Now(n)) \in Route
           /\ path_table' = [path_table EXCEPT ![n] =
                              [path_table[n] EXCEPT ![s] = RouteFrom(p, i, Now(n))]]
           /\ \A t \in PathSlot : Holds(path_table[n], t, p.dest) => t = s
<1>1. PICK s \in PathSlot :
        /\ PicksPathSlot(path_table[n], p.dest, Now(n), s)
        /\ path_table' = [path_table EXCEPT ![n][s] = RouteFrom(p, i, Now(n))]
  BY DEF UpdatePath
<1>2. uptime[n] \in Nat
  BY TransportAssumption DEF HInv, HTypeOK, TypeOK
<1>3. RouteFrom(p, i, Now(n)) \in Route
  BY <1>2, RouteType, NowType
<1>4. p.dest \in Dest /\ Unique(path_table[n])
  BY OneSlotIsUnique DEF Acceptable, HInv
<1>5. \A t \in PathSlot : Holds(path_table[n], t, p.dest) => t = s
  BY <1>1, <1>4, PickedSlotIsTheOnlyOne
<1>6. QED
  BY <1>1, <1>3, <1>5

LEMMA UpdateResponseWrites ==
  ASSUME HInv, NEW n \in Node, NEW p \in Packet, Acceptable(p),
         UpdateResponse(n, p), ~ p.body.long
  PROVE  \E s \in CacheSlot :
           LET r == [valid |-> TRUE, raw |-> PathResponse(p, identity_current[n])]
           IN  /\ r \in Response
               /\ r.raw.dest = p.dest
               /\ PicksCacheSlot(response_cache[n], p.dest, s)
               /\ response_cache' = [response_cache EXCEPT ![n] =
                                       [response_cache[n] EXCEPT ![s] = r]]
               /\ \A t \in CacheSlot : Caches(response_cache[n], t, p.dest) => t = s
<1> DEFINE r == [valid |-> TRUE, raw |-> PathResponse(p, identity_current[n])]
<1>1. PICK s \in CacheSlot :
        /\ PicksCacheSlot(response_cache[n], p.dest, s)
        /\ response_cache' = [response_cache EXCEPT ![n][s] = r]
  BY DEF UpdateResponse
<1>2. identity_current[n] \in HopHash
  BY DEF HInv, HTypeOK, TypeOK, HopHash
<1>3. r \in Response
  BY <1>2, RewrittenPackets DEF Response
<1>4. r.raw.dest = p.dest
  BY DEF PathResponse, Packet
<1>5. p.dest \in Dest /\ UniqueResponse(response_cache[n])
  BY OneSlotIsUnique DEF Acceptable, HInv
<1>6. \A t \in CacheSlot : Caches(response_cache[n], t, p.dest) => t = s
  BY <1>1, <1>5, PickedCacheSlotIsTheOnlyOne
<1>7. QED
  BY <1>1, <1>3, <1>4, <1>6

LEMMA OneSlotStep ==
  ASSUME HInv, HNext
  PROVE  OneSlotPerDestination'
<1>1. /\ path_table \in [Node -> [PathSlot -> Route \cup {FreeSlot}]]
      /\ response_cache \in [Node -> [CacheSlot -> Response \cup {FreeSlot}]]
      /\ \A n \in Node : Unique(path_table[n]) /\ UniqueResponse(response_cache[n])
  BY OneSlotIsUnique DEF HInv, HTypeOK, TypeOK
<1>2. SUFFICES \A m \in Node : Unique(path_table'[m]) /\ UniqueResponse(response_cache'[m])
  BY DEF OneSlotPerDestination, Unique, UniqueResponse
<1>3. ASSUME NEW n \in Node, NEW p \in Packet, NEW i \in Interface, Learns(n, p, i)
      PROVE  \A m \in Node : Unique(path_table'[m]) /\ UniqueResponse(response_cache'[m])
  <2>1. Unique(path_table'[n])
    <3>1. PICK s \in PathSlot :
            /\ PicksPathSlot(path_table[n], p.dest, Now(n), s)
            /\ RouteFrom(p, i, Now(n)) \in Route
            /\ path_table' = [path_table EXCEPT ![n] =
                               [path_table[n] EXCEPT ![s] = RouteFrom(p, i, Now(n))]]
      BY <1>3, UpdatePathWrites DEF Learns
    <3>2. RouteFrom(p, i, Now(n)).dest = p.dest
      BY DEF RouteFrom
    <3>3. QED
      BY <1>1, <3>1, <3>2, WriteKeepsUnique
  <2>2. UniqueResponse(response_cache'[n])
    <3>1. CASE p.body.long
      BY <1>1, <1>3, <3>1 DEF Learns, UpdateResponse
    <3>2. CASE ~ p.body.long
      <4> DEFINE r == [valid |-> TRUE, raw |-> PathResponse(p, identity_current[n])]
      <4>1. PICK s \in CacheSlot :
              /\ r \in Response
              /\ r.raw.dest = p.dest
              /\ PicksCacheSlot(response_cache[n], p.dest, s)
              /\ response_cache' = [response_cache EXCEPT ![n] =
                                      [response_cache[n] EXCEPT ![s] = r]]
        BY <1>3, <3>2, UpdateResponseWrites DEF Learns
      <4>2. p.dest \in Dest
        BY <1>3 DEF Learns, Acceptable
      <4> HIDE DEF r
      <4>3. UniqueResponse([response_cache[n] EXCEPT ![s] = r])
        BY <1>1, <4>1, <4>2, WriteKeepsUniqueResponse
      <4>4. QED
        BY <1>1, <4>1, <4>3
    <3>3. QED
      BY <3>1, <3>2
  <2>3. \A m \in Node \ {n} :
          path_table'[m] = path_table[m] /\ response_cache'[m] = response_cache[m]
    BY <1>1, <1>3 DEF Learns, UpdatePath, UpdateResponse
  <2>4. QED
    BY <1>1, <2>1, <2>2, <2>3
<1>4. CASE LearnsNothing
  BY <1>1, <1>4 DEF LearnsNothing
<1>5. ASSUME NEW n \in Node, ResetStep(n)
      PROVE  \A m \in Node : Unique(path_table'[m]) /\ UniqueResponse(response_cache'[m])
  <2>1. Unique(EmptyPathTable) /\ UniqueResponse(EmptyCache)
    BY DEF Unique, UniqueResponse, EmptyPathTable, EmptyCache, Holds, Caches,
           Occupied, FreeSlot
  <2>2. QED
    BY <1>1, <1>5, <2>1 DEF ResetStep, Reset
<1>6. QED
  BY <1>3, <1>4, <1>5, StepCases DEF HInv

(* Routes against the history *)
LEMMA RouteStep ==
  ASSUME HInv, HNext, HTypeOK'
  PROVE  RouteMatches'
<1> DEFINE Right(table, h) ==
      \A s \in PathSlot : Occupied(table, s) =>
        /\ h[table[s].dest] # Never
        /\ table[s] = RouteFrom(h[table[s].dest].packet, h[table[s].dest].interface,
                                h[table[s].dest].at % ClockModulus)
<1>1. \A n \in Node : Right(path_table[n], heard[n])
  BY DEF HInv, RouteMatches
<1>2. SUFFICES \A m \in Node : Right(path_table'[m], heard'[m])
  BY DEF RouteMatches
<1>3. /\ path_table \in [Node -> [PathSlot -> Route \cup {FreeSlot}]]
      /\ heard \in [Node -> [Dest -> Heard \cup {Never}]]
  BY DEF HInv, HTypeOK, TypeOK
<1>4. ASSUME NEW n \in Node, NEW p \in Packet, NEW i \in Interface, Learns(n, p, i)
      PROVE  \A m \in Node : Right(path_table'[m], heard'[m])
  <2> DEFINE r == RouteFrom(p, i, Now(n))
             new == [packet |-> p, interface |-> i, at |-> uptime[n]]
  <2>1. PICK s \in PathSlot :
          /\ path_table' = [path_table EXCEPT ![n] = [path_table[n] EXCEPT ![s] = r]]
          /\ \A t \in PathSlot : Holds(path_table[n], t, p.dest) => t = s
    BY <1>4, UpdatePathWrites DEF Learns
  <2>2. heard' = [heard EXCEPT ![n] = [heard[n] EXCEPT ![p.dest] = new]]
    BY <1>3, <1>4 DEF Learns, Notes
  <2>3. p.dest \in Dest /\ new # Never
    <3>1. new \in Heard
      BY DEF HInv, HTypeOK, TypeOK, Heard
    <3>2. QED
      BY <1>4, <3>1, HistoryAssumption DEF Learns, Acceptable
  <2>4. r.dest = p.dest /\ r = RouteFrom(new.packet, new.interface, new.at % ClockModulus)
    BY DEF RouteFrom, Now
  <2>5. ASSUME NEW t \in PathSlot, Occupied(path_table'[n], t)
        PROVE  LET h == heard'[n][path_table'[n][t].dest]
               IN  /\ h # Never
                   /\ path_table'[n][t] =
                        RouteFrom(h.packet, h.interface, h.at % ClockModulus)
    <3>1. CASE t = s
      <4>1. path_table'[n][t] = r
        BY <1>3, <2>1, <3>1
      <4>2. heard'[n][p.dest] = new
        BY <1>3, <2>2, <2>3
      <4> HIDE DEF r, new
      <4>3. QED
        BY <2>3, <2>4, <4>1, <4>2
    <3>2. CASE t # s
      <4>1. path_table'[n][t] = path_table[n][t] /\ Occupied(path_table[n], t)
        BY <1>3, <2>1, <2>5, <3>2 DEF Occupied
      <4>2. path_table[n][t].dest # p.dest
        BY <2>1, <3>2, <4>1 DEF Holds
      <4>3. heard'[n][path_table[n][t].dest] = heard[n][path_table[n][t].dest]
        BY <1>3, <2>2, <4>2
      <4>4. QED
        BY <1>1, <4>1, <4>3
    <3>3. QED
      BY <3>1, <3>2
  <2>6. \A m \in Node \ {n} : path_table'[m] = path_table[m] /\ heard'[m] = heard[m]
    BY <1>3, <2>1, <2>2
  <2>7. QED
    BY <1>1, <2>5, <2>6
<1>5. CASE LearnsNothing
  BY <1>1, <1>5 DEF LearnsNothing
<1>6. ASSUME NEW n \in Node, ResetStep(n)
      PROVE  \A m \in Node : Right(path_table'[m], heard'[m])
  BY <1>1, <1>3, <1>6
     DEF ResetStep, Reset, EmptyPathTable, Occupied, FreeSlot
<1>7. QED
  BY <1>4, <1>5, <1>6, StepCases DEF HInv

(* Responses against the history *)
LEMMA ResponseStep ==
  ASSUME HInv, HNext, HTypeOK'
  PROVE  ResponseMatches'
<1> DEFINE Right(cache, c) ==
      \A s \in CacheSlot : Occupied(cache, s) =>
        /\ cache[s].raw.dest \in Dest
        /\ c[cache[s].raw.dest] # Never
        /\ cache[s].raw = PathResponse(c[cache[s].raw.dest].packet, c[cache[s].raw.dest].id)
<1>1. \A n \in Node : Right(response_cache[n], cacheable[n])
  BY DEF HInv, ResponseMatches
<1>2. SUFFICES \A m \in Node : Right(response_cache'[m], cacheable'[m])
  BY DEF ResponseMatches
<1>3. /\ response_cache \in [Node -> [CacheSlot -> Response \cup {FreeSlot}]]
      /\ cacheable \in [Node -> [Dest -> Cacheable \cup {Never}]]
  BY DEF HInv, HTypeOK, TypeOK
<1>4. ASSUME NEW n \in Node, NEW p \in Packet, NEW i \in Interface, Learns(n, p, i)
      PROVE  \A m \in Node : Right(response_cache'[m], cacheable'[m])
  <2>1. CASE p.body.long
    BY <1>1, <1>4, <2>1 DEF Learns, UpdateResponse, Notes
  <2>2. CASE ~ p.body.long
    <3> DEFINE r == [valid |-> TRUE, raw |-> PathResponse(p, identity_current[n])]
               new == [packet |-> p, id |-> identity_current[n]]
    <3>1. PICK s \in CacheSlot :
            /\ r.raw.dest = p.dest
            /\ response_cache' = [response_cache EXCEPT ![n] =
                                    [response_cache[n] EXCEPT ![s] = r]]
            /\ \A t \in CacheSlot : Caches(response_cache[n], t, p.dest) => t = s
      BY <1>4, <2>2, UpdateResponseWrites DEF Learns
    <3>2. cacheable' = [cacheable EXCEPT ![n] = [cacheable[n] EXCEPT ![p.dest] = new]]
      BY <1>3, <1>4, <2>2 DEF Learns, Notes
    <3>3. p.dest \in Dest /\ new # Never
      <4>1. new \in Cacheable
        BY DEF HInv, HTypeOK, TypeOK, Cacheable
      <4>2. QED
        BY <1>4, <4>1, HistoryAssumption DEF Learns, Acceptable
    <3>4. r.raw = PathResponse(new.packet, new.id)
      OBVIOUS
    <3>5. ASSUME NEW t \in CacheSlot, Occupied(response_cache'[n], t)
          PROVE  LET c == cacheable'[n][response_cache'[n][t].raw.dest]
                 IN  /\ response_cache'[n][t].raw.dest \in Dest
                     /\ c # Never
                     /\ response_cache'[n][t].raw = PathResponse(c.packet, c.id)
      <4>1. CASE t = s
        <5>1. response_cache'[n][t] = r
          BY <1>3, <3>1, <4>1
        <5>2. cacheable'[n][p.dest] = new
          BY <1>3, <3>2, <3>3
        <5> HIDE DEF r, new
        <5>3. QED
          BY <3>1, <3>3, <3>4, <5>1, <5>2
      <4>2. CASE t # s
        <5>1. /\ response_cache'[n][t] = response_cache[n][t]
              /\ Occupied(response_cache[n], t)
          BY <1>3, <3>1, <3>5, <4>2 DEF Occupied
        <5>2. response_cache[n][t].raw.dest # p.dest
          BY <3>1, <4>2, <5>1 DEF Caches
        <5>3. cacheable'[n][response_cache[n][t].raw.dest] =
                cacheable[n][response_cache[n][t].raw.dest]
          BY <1>3, <3>2, <5>2
        <5>4. QED
          BY <1>1, <5>1, <5>3
      <4>3. QED
        BY <4>1, <4>2
    <3>6. \A m \in Node \ {n} :
            response_cache'[m] = response_cache[m] /\ cacheable'[m] = cacheable[m]
      BY <1>3, <3>1, <3>2
    <3>7. QED
      BY <1>1, <3>5, <3>6
  <2>3. QED
    BY <2>1, <2>2
<1>5. CASE LearnsNothing
  BY <1>1, <1>5 DEF LearnsNothing
<1>6. ASSUME NEW n \in Node, ResetStep(n)
      PROVE  \A m \in Node : Right(response_cache'[m], cacheable'[m])
  BY <1>1, <1>3, <1>6
     DEF ResetStep, Reset, EmptyCache, Occupied, FreeSlot
<1>7. QED
  BY <1>4, <1>5, <1>6, StepCases DEF HInv

-----------------------------------------------------------------------------
LEMMA HInvInit == HInit => HInv
<1> SUFFICES ASSUME HInit PROVE HInv
  OBVIOUS
<1>1. HTypeOK
  BY InitType DEF HInit, HTypeOK
<1>2. HeardBefore
  BY DEF HInit, HeardBefore
<1>3. /\ OneSlotPerDestination
      /\ RouteMatches
      /\ ResponseMatches
  BY DEF HInit, Init, OneSlotPerDestination, RouteMatches,
         ResponseMatches, EmptyPathTable, EmptyCache, Holds, Caches,
         Occupied, FreeSlot
<1>4. QED
  BY <1>1, <1>2, <1>3 DEF HInv

LEMMA HInvStep ==
  ASSUME HInv, [HNext]_hvars
  PROVE  HInv'
<1>1. CASE HNext
  BY <1>1, HistoryStep, OneSlotStep, RouteStep, ResponseStep DEF HInv
<1>2. CASE UNCHANGED hvars
  BY <1>2 DEF hvars, vars, HInv, HTypeOK, TypeOK, HeardBefore,
              OneSlotPerDestination, RouteMatches, ResponseMatches
<1>3. QED
  BY <1>1, <1>2

LEMMA HInvAlways == HSpec => []HInv
<1>1. HInit => HInv
  BY HInvInit
<1>2. HInv /\ [HNext]_hvars => HInv'
  BY HInvStep
<1>3. QED
  BY <1>1, <1>2, PTL DEF HSpec

(* The scans of the two tables never leave a destination in two slots. *)
THEOREM OneSlotAlways == HSpec => []OneSlotPerDestination
<1>1. HInv => OneSlotPerDestination
  BY DEF HInv
<1>2. QED
  BY <1>1, HInvAlways, PTL

(* transport_path_lookup returns the last accepted announce of a           *)
(* destination, whole, however often slots were reused.                    *)
THEOREM RoutesAreCurrent == HSpec => []RouteIsLastAnnounce
<1>1. ASSUME HInv PROVE RouteIsLastAnnounce
  <2>1. SUFFICES ASSUME NEW n \in Node, NEW s \in PathSlot, Occupied(path_table[n], s)
                 PROVE  LET r == path_table[n][s]
                            h == heard[n][r.dest]
                        IN  /\ h # Never
                            /\ r.interface = h.interface
                            /\ r.hops = h.packet.hops + 1
                            /\ r.last_seen = h.at % ClockModulus
                            /\ r.next_hop = IF h.packet.header = 2
                                              THEN h.packet.tid ELSE r.dest
    BY DEF RouteIsLastAnnounce
  <2> DEFINE d == path_table[n][s].dest
             h == heard[n][d]
  <2>2. d \in Dest
    BY <1>1, <2>1, OccupiedSlots DEF HInv, HTypeOK, Route
  <2>3. h # Never /\ path_table[n][s] = RouteFrom(h.packet, h.interface, h.at % ClockModulus)
    BY <1>1, <2>1 DEF HInv, RouteMatches
  <2>4. Acceptable(h.packet) /\ h.packet.dest = d
    BY <1>1, <2>2, <2>3 DEF HInv, HeardBefore
  <2>5. OneMoreHop(h.packet) = h.packet.hops + 1
    BY <2>4 DEF Acceptable, OneMoreHop
  <2> HIDE DEF h, d
  <2>6. /\ h # Never
        /\ path_table[n][s].interface = h.interface
        /\ path_table[n][s].hops = h.packet.hops + 1
        /\ path_table[n][s].last_seen = h.at % ClockModulus
        /\ path_table[n][s].next_hop = IF h.packet.header = 2 THEN h.packet.tid ELSE d
    BY <2>3, <2>4, <2>5 DEF RouteFrom
  <2>7. QED
    BY <2>6 DEF h, d
<1>2. QED
  BY <1>1, HInvAlways, PTL

(* Both, as the run of the transport checks them. *)
THEOREM RoutesStayOneAndCurrent == HSpec => []OneCurrentRoute
BY OneSlotAlways, RoutesAreCurrent, PTL DEF OneCurrentRoute

(* transport_path_response_send answers with the last announce that fitted *)
(* the cache, under the transport id the node had when it cached it.       *)
THEOREM ResponsesAreTheLastCacheable == HSpec => []ResponseIsLastCacheable
<1>1. ASSUME HInv PROVE ResponseIsLastCacheable
  <2>1. SUFFICES ASSUME NEW n \in Node, NEW s \in CacheSlot, Occupied(response_cache[n], s)
                 PROVE  LET raw == response_cache[n][s].raw
                            c == cacheable[n][raw.dest]
                        IN  /\ c # Never
                            /\ raw.body = c.packet.body
                            /\ raw.hops = c.packet.hops + 1
                            /\ raw.header = 2 /\ raw.tid = c.id
                            /\ raw.context = "path_response"
    BY DEF ResponseIsLastCacheable
  <2> DEFINE raw == response_cache[n][s].raw
             c == cacheable[n][raw.dest]
  <2>2. c # Never /\ raw = PathResponse(c.packet, c.id)
    BY <1>1, <2>1 DEF HInv, ResponseMatches
  <2>3. n \in Node /\ cacheable[n] \in [Dest -> Cacheable \cup {Never}]
    BY <1>1 DEF HInv, HTypeOK
  <2>4. raw.dest \in Dest
    BY <1>1, <2>1 DEF HInv, ResponseMatches
  <2>5. c.packet \in Packet /\ Acceptable(c.packet)
    BY <1>1, <2>2, <2>3, <2>4 DEF HInv, HeardBefore, Cacheable
  <2>6. OneMoreHop(c.packet) = c.packet.hops + 1
    BY <2>5 DEF Acceptable, OneMoreHop
  <2> HIDE DEF c
  <2>7. QED
    BY <2>2, <2>5, <2>6 DEF PathResponse, Packet, c
<1>2. QED
  BY <1>1, HInvAlways, PTL

(* A packet in transport is forwarded as the last announce of its          *)
(* destination said.                                                       *)
THEOREM ForwardingFollowsAnnounces == HSpec => ForwardsAsAnnounced
<1>1. ASSUME HInv, HNext PROVE ForwardsOne
  <2>1. SUFFICES ASSUME NEW m \in sent', m[2].type # "announce",
                        packet_ring'[m[1]] # packet_ring[m[1]]
                 PROVE  LET q == m[2]
                            h == heard[m[1]][q.dest]
                        IN  /\ h # Never
                            /\ h.interface = "lora"
                            /\ q.header = 1 <=> h.packet.hops = 0
                            /\ q.header = 2 =>
                                 q.tid = IF h.packet.header = 2 THEN h.packet.tid ELSE q.dest
    BY DEF ForwardsOne
  <2>2. PICK n \in Node, p \in Packet : LoraStep(n, p)
    BY <1>1, <2>1, TransportAssumption
       DEF HNext, HearHostAnnounce, SendRaw, TakeIdentity, Tick, ResetStep, Reset, Silent
  <2>3. CASE HearAnnounce(n, p)
    <3>1. Rebroadcast(p, identity_current[n]).type = "announce"
      BY <2>2, <2>3 DEF HearAnnounce, Acceptable, Rebroadcast, Packet
    <3>2. QED
      BY <2>1, <2>3, <3>1 DEF HearAnnounce, Transmits, Silent
  <2>4. CASE AnswerPathRequest(n, p)
    <3>1. PICK c \in CacheSlot :
            /\ Occupied(response_cache[n], c)
            /\ Transmits(n, response_cache[n][c].raw)
      BY <2>4 DEF AnswerPathRequest, Answers, LooksUpResponse, Caches
    <3> DEFINE h == cacheable[n][response_cache[n][c].raw.dest]
    <3>2. /\ response_cache[n][c].raw.dest \in Dest
          /\ h # Never
          /\ response_cache[n][c].raw = PathResponse(h.packet, h.id)
      BY <1>1, <3>1 DEF HInv, ResponseMatches
    <3>3. h.packet \in Packet /\ Acceptable(h.packet)
      BY <1>1, <3>2 DEF HInv, HTypeOK, HeardBefore, Cacheable
    <3> HIDE DEF h
    <3>4. response_cache[n][c].raw.type = "announce"
      BY <3>2, <3>3 DEF Acceptable, PathResponse, Packet
    <3>5. QED
      BY <2>1, <3>1, <3>4 DEF Transmits
  <2>5. ASSUME NEW s \in PathSlot, ForwardsOver(n, p, s), NEW q,
               q = m[2], m[1] = n, q.dest = p.dest,
               \/ path_table[n][s].hops = 1 /\ q.header = 1
               \/ /\ path_table[n][s].hops > 1 /\ q.header = 2
                  /\ q.tid = path_table[n][s].next_hop
        PROVE  /\ heard[n][q.dest] # Never
               /\ heard[n][q.dest].interface = "lora"
               /\ q.header = 1 <=> heard[n][q.dest].packet.hops = 0
               /\ q.header = 2 =>
                    q.tid = IF heard[n][q.dest].packet.header = 2
                              THEN heard[n][q.dest].packet.tid ELSE q.dest
    <3> DEFINE h == heard[n][p.dest]
    <3>1. /\ Occupied(path_table[n], s)
          /\ path_table[n][s].dest = p.dest
          /\ path_table[n][s].interface = "lora"
      BY <2>5 DEF ForwardsOver, LooksUp, Holds
    <3>2. /\ h # Never
          /\ path_table[n][s] = RouteFrom(h.packet, h.interface, h.at % ClockModulus)
      BY <1>1, <3>1 DEF HInv, RouteMatches
    <3>3. p.dest \in Dest
      BY <1>1, <3>1, OccupiedSlots DEF HInv, HTypeOK, Route
    <3>4. h.packet \in Packet /\ Acceptable(h.packet) /\ h.packet.dest = p.dest
      BY <1>1, <3>2, <3>3 DEF HInv, HTypeOK, HeardBefore, Heard
    <3> HIDE DEF h
    <3>5. h.packet.hops \in Nat /\ OneMoreHop(h.packet) = h.packet.hops + 1
      BY <3>4, PacketAssumption DEF Acceptable, OneMoreHop, Packet, Hop
    <3>6. /\ h.interface = "lora"
          /\ path_table[n][s].hops = h.packet.hops + 1
          /\ path_table[n][s].next_hop =
               IF h.packet.header = 2 THEN h.packet.tid ELSE p.dest
      BY <3>1, <3>2, <3>4, <3>5 DEF RouteFrom
    <3>7. /\ q.header = 1 <=> h.packet.hops = 0
          /\ q.header = 2 =>
               q.tid = IF h.packet.header = 2 THEN h.packet.tid ELSE p.dest
      BY <2>5, <3>5, <3>6
    <3>8. QED
      BY <2>5, <3>2, <3>6, <3>7 DEF h
  <2>6. CASE ForwardToDestination(n, p)
    <3>1. PICK s \in PathSlot :
            ForwardsOver(n, p, s) /\ path_table[n][s].hops = 1 /\ Transmits(n, Stripped(p))
      BY <2>6 DEF ForwardToDestination
    <3>2. m = <<n, Stripped(p)>>
      BY <2>1, <3>1 DEF Transmits
    <3>3. Stripped(p).header = 1 /\ Stripped(p).dest = p.dest
      BY <2>2 DEF Stripped, Packet
    <3>4. QED
      BY <2>5, <3>1, <3>2, <3>3
  <2>7. CASE ForwardToNextHop(n, p)
    <3>1. PICK s \in PathSlot :
            /\ ForwardsOver(n, p, s)
            /\ path_table[n][s].hops > 1
            /\ Transmits(n, Relayed(p, path_table[n][s].next_hop))
      BY <2>7 DEF ForwardToNextHop
    <3> DEFINE q == Relayed(p, path_table[n][s].next_hop)
    <3>2. m = <<n, q>>
      BY <2>1, <3>1 DEF Transmits
    <3>3. q.header = 2 /\ q.dest = p.dest /\ q.tid = path_table[n][s].next_hop
      BY <2>2, <3>1 DEF Relayed, Packet, ForwardsOver, InTransport
    <3> HIDE DEF q
    <3>4. QED
      BY <2>5, <3>1, <3>2, <3>3
  <2>8. CASE DropDuplicate(n, p) \/ OnlyRemembered(n, p)
    BY <2>1, <2>8 DEF DropDuplicate, OnlyRemembered, Silent
  <2>9. QED
    BY <2>2, <2>3, <2>4, <2>6, <2>7, <2>8
       DEF LoraStep, HearOther, RefuseAnnounce, IgnorePathRequest, RefuseForward,
           DispatchToLink
<1>2. HInv /\ [HNext]_hvars => [ForwardsOne]_hvars
  BY <1>1
<1>3. QED
  BY <1>2, HInvAlways, PTL DEF HSpec, ForwardsAsAnnounced

-----------------------------------------------------------------------------
(* Eviction: as long as the clock has not wrapped, a route's age is its    *)
(* true age.                                                               *)
LEMMA AgeIsTrueAge ==
  ASSUME HInv, NEW n \in Node, uptime[n] < ClockModulus, NEW s \in PathSlot,
          Occupied(path_table[n], s)
  PROVE  /\ path_table[n][s].dest \in Dest
         /\ heard[n][path_table[n][s].dest].at \in 0 .. uptime[n]
         /\ Age(path_table[n], s, Now(n)) =
              uptime[n] - heard[n][path_table[n][s].dest].at
<1> DEFINE d == path_table[n][s].dest
           h == heard[n][d]
<1>1. d \in Dest
  BY OccupiedSlots DEF HInv, HTypeOK, Route
<1>2. h # Never /\ path_table[n][s] = RouteFrom(h.packet, h.interface, h.at % ClockModulus)
  BY DEF HInv, RouteMatches
<1>3. h \in Heard /\ h.at <= uptime[n]
  BY <1>1, <1>2 DEF HInv, HTypeOK, HeardBefore
<1>4. h.at \in 0 .. MaxUptime /\ uptime[n] \in 0 .. MaxUptime
  BY <1>3 DEF Heard, HInv, HTypeOK, TypeOK
<1>5. \A x \in 0 .. ClockModulus - 1 : x % ClockModulus = x
  BY TransportAssumption, TableAssumption
<1>6. path_table[n][s].last_seen = h.at /\ Now(n) = uptime[n]
  BY <1>2, <1>3, <1>4, <1>5, TransportAssumption, TableAssumption DEF RouteFrom, Now
<1> HIDE DEF h, d
<1>7. Age(path_table[n], s, Now(n)) = uptime[n] - h.at
  BY <1>3, <1>4, <1>6, TransportAssumption, TableAssumption DEF Age
<1>8. QED
  BY <1>1, <1>3, <1>4, <1>7, TransportAssumption DEF h, d

LEMMA KeepsStep ==
  ASSUME HInv, HInv', HNext, KeepsMostRecentlyHeard
  PROVE  KeepsMostRecentlyHeard'
<1>1. /\ path_table \in [Node -> [PathSlot -> Route \cup {FreeSlot}]]
      /\ heard \in [Node -> [Dest -> Heard \cup {Never}]]
      /\ uptime \in [Node -> 0 .. MaxUptime]
  BY DEF HInv, HTypeOK, TypeOK
<1>2. ASSUME NEW n \in Node, NEW p \in Packet, NEW i \in Interface, Learns(n, p, i)
      PROVE  KeepsMostRecentlyHeard'
  <2> DEFINE r == RouteFrom(p, i, Now(n))
             new == [packet |-> p, interface |-> i, at |-> uptime[n]]
  <2>1. PICK s \in PathSlot :
          /\ PicksPathSlot(path_table[n], p.dest, Now(n), s)
          /\ r \in Route
          /\ path_table' = [path_table EXCEPT ![n] = [path_table[n] EXCEPT ![s] = r]]
    BY <1>2, UpdatePathWrites DEF Learns
  <2>2. heard' = [heard EXCEPT ![n] = [heard[n] EXCEPT ![p.dest] = new]]
    BY <1>1, <1>2 DEF Learns, Notes
  <2>3. /\ p.dest \in Dest
        /\ r.dest = p.dest
        /\ path_table'[n][s] = r
        /\ heard'[n][p.dest].at = uptime[n]
        /\ \A t \in PathSlot \ {s} : path_table'[n][t] = path_table[n][t]
        /\ \A d \in Dest \ {p.dest} : heard'[n][d] = heard[n][d]
    BY <1>1, <1>2, <2>1, <2>2 DEF Learns, Acceptable, RouteFrom
  <2>4. Occupied(path_table'[n], s)
    BY <2>1, <2>3 DEF Occupied, Route
  <2> HIDE DEF r, new
  <2>5. ASSUME uptime[n] < ClockModulus, NEW d \in Dest, heard'[n][d] # Never, ~ Routed(path_table'[n], d),
               NEW t \in PathSlot
        PROVE  /\ Occupied(path_table'[n], t)
               /\ heard'[n][path_table'[n][t].dest].at >= heard'[n][d].at
    <3>1. d # p.dest
      BY <2>3, <2>4, <2>5 DEF Routed, Holds
    <3>2. heard'[n][d] = heard[n][d] /\ heard[n][d] \in Heard
      BY <1>1, <2>3, <2>5, <3>1
    <3>3. heard[n][d].at \in 0 .. uptime[n] /\ uptime[n] \in Nat
      BY <1>1, <2>5, <3>2, TransportAssumption DEF HInv, HeardBefore, Heard
    <3>4. \A u \in PathSlot : Holds(path_table[n], u, d) => u = s
      BY <2>3, <2>5 DEF Routed, Holds, Occupied
    \* either d was forgotten before, or its slot is the one given up
    <3>5. /\ \A u \in PathSlot : Occupied(path_table[n], u)
          /\ \A u \in PathSlot \ {s} :
               heard[n][path_table[n][u].dest].at >= heard[n][d].at
      <4>1. CASE ~ Routed(path_table[n], d)
        BY <2>5, <3>2, <4>1 DEF KeepsMostRecentlyHeard
      <4>2. CASE Routed(path_table[n], d)
        <5>1. Holds(path_table[n], s, d)
          BY <3>4, <4>2 DEF Routed
        <5>2. /\ \A u \in PathSlot : Occupied(path_table[n], u)
              /\ \A u \in PathSlot :
                   Age(path_table[n], u, Now(n)) <= Age(path_table[n], s, Now(n))
          BY <2>1, <3>1, <5>1 DEF PicksPathSlot, LooksUp, Holds
        <5>3. \A u \in PathSlot :
                heard[n][path_table[n][u].dest].at >= heard[n][path_table[n][s].dest].at
          <6>1. ASSUME NEW u \in PathSlot
                PROVE  /\ heard[n][path_table[n][u].dest].at \in 0 .. uptime[n]
                       /\ Age(path_table[n], u, Now(n)) =
                            uptime[n] - heard[n][path_table[n][u].dest].at
            BY <2>5, <5>2, AgeIsTrueAge
          <6>2. QED
            BY <3>3, <5>2, <6>1
        <5>4. QED
          BY <5>1, <5>2, <5>3 DEF Holds
      <4>3. QED
        BY <4>1, <4>2
    <3>6. CASE t = s
      BY <2>3, <2>4, <3>2, <3>3, <3>6
    <3>7. CASE t # s
      <4>1. Occupied(path_table[n], t) /\ path_table'[n][t] = path_table[n][t]
        BY <2>3, <3>5, <3>7
      <4>2. CASE path_table[n][t].dest = p.dest
        BY <2>3, <3>2, <3>3, <4>1, <4>2 DEF Occupied
      <4>3. CASE path_table[n][t].dest # p.dest
        <5>1. path_table[n][t].dest \in Dest
          BY <4>1, OccupiedSlots DEF HInv, HTypeOK, Route
        <5>2. QED
          BY <2>3, <3>2, <3>5, <3>7, <4>1, <4>3, <5>1 DEF Occupied
      <4>4. QED
        BY <4>2, <4>3
    <3>8. QED
      BY <3>6, <3>7
  <2>6. /\ \A m \in Node \ {n} : path_table'[m] = path_table[m] /\ heard'[m] = heard[m]
        /\ uptime' = uptime
    BY <1>1, <1>2, <2>1, <2>2 DEF Learns
  <2>7. QED
    BY <2>5, <2>6 DEF KeepsMostRecentlyHeard
<1>3. CASE LearnsNothing
  <2>1. \A n \in Node : uptime'[n] < ClockModulus => uptime[n] < ClockModulus
    BY <1>1, <1>3, StepCases, TransportAssumption, TableAssumption
       DEF LearnsNothing, HInv, HTypeOK, TypeOK
  <2>2. QED
    BY <1>3, <2>1 DEF KeepsMostRecentlyHeard, LearnsNothing
<1>4. ASSUME NEW n \in Node, ResetStep(n)
      PROVE  KeepsMostRecentlyHeard'
  <2>1. \A m \in Node \ {n} :
          path_table'[m] = path_table[m] /\ heard'[m] = heard[m] /\ uptime'[m] = uptime[m]
    BY <1>1, <1>4 DEF ResetStep, Reset
  <2>2. \A d \in Dest : heard'[n][d] = Never
    BY <1>1, <1>4 DEF ResetStep
  <2>3. QED
    BY <2>1, <2>2 DEF KeepsMostRecentlyHeard
<1>5. QED
  BY <1>2, <1>3, <1>4, StepCases DEF HInv

(* A full table gives up the destination heard least recently, for any     *)
(* number of slots and destinations, while the node has been up for less   *)
(* than one turn of its clock.                                             *)
THEOREM MostRecentlyHeardStay == HSpec => []KeepsMostRecentlyHeard
<1>1. HInit => KeepsMostRecentlyHeard
  BY DEF HInit, KeepsMostRecentlyHeard
<1>2. HInv /\ HInv' /\ KeepsMostRecentlyHeard /\ [HNext]_hvars
        => KeepsMostRecentlyHeard'
  <2>1. CASE UNCHANGED hvars
    BY <2>1 DEF hvars, vars, KeepsMostRecentlyHeard
  <2>2. QED
    BY <2>1, KeepsStep
<1>3. QED
  BY <1>1, <1>2, HInvAlways, PTL DEF HSpec

-----------------------------------------------------------------------------
(* What is passed on, and what is given up. *)

(* Every step with the history is a step of the transport. *)
LEMMA HNextIsNext == HNext => Next
BY DEF HNext, Next, LoraStep, HearOther, Receive, ResetStep

-----------------------------------------------------------------------------
(* What was let through is remembered *)
LEMMA StoredIsInRing ==
  ASSUME NEW ring \in Ring, RingShape(ring), NEW k
  PROVE  InRing(Stored(ring, k), k)
<1>1. /\ ring.next \in 0 .. RingCapacity - 1 /\ ring.count \in 0 .. RingCapacity
      /\ ring.hashes \in [0 .. RingCapacity - 1 -> PacketKey \cup {NoKey}]
      /\ RingCapacity \in Nat \ {0}
  BY TableAssumption DEF Ring, RingIndex
<1>2. Stored(ring, k).hashes[ring.next] = k
  BY <1>1 DEF Stored
<1>3. ring.next \in 0 .. Stored(ring, k).count - 1
  BY <1>1 DEF Stored, RingShape
<1>4. QED
  BY <1>2, <1>3 DEF InRing

LEMMA RingInvAlways == Spec => []RingInv
<1>1. Init => RingInv
  BY DEF Init, RingInv, RingShape, EmptyRing
<1>2. TypeOK /\ RingInv /\ [Next]_vars => RingInv'
  BY NextIsRingStep, RingInvStep
<1>3. QED
  BY <1>1, <1>2, TypeCorrect, PTL DEF Spec

LEMMA HSpecIsSpec == HSpec => Spec
<1>1. HInit => Init
  BY DEF HInit
<1>2. [HNext]_hvars => [Next]_vars
  BY HNextIsNext DEF hvars
<1>3. QED
  BY <1>1, <1>2, PTL DEF HSpec, Spec

(* A packet that is passed on is in the ring when the handler returns.     *)
LEMMA FirstSightIsKnown ==
  ASSUME TypeOK, RingInv, NEW n \in Node, NEW p, FirstSight(n, p),
         NEW q, Hashable(q) = Hashable(p)
  PROVE  InRing(packet_ring'[n], Hashable(q))
<1>1. packet_ring[n] \in Ring /\ packet_ring \in [Node -> Ring]
  BY DEF TypeOK
<1>2. packet_ring'[n] = Stored(packet_ring[n], Hashable(p))
  BY <1>1 DEF FirstSight
<1>3. QED
  BY <1>1, <1>2, StoredIsInRing DEF RingInv

EchoStep ==
  \A m \in sent' :
    packet_ring' # packet_ring /\ m[2].context # "path_response"
      => InRing(packet_ring'[m[1]], Hashable(m[2]))

(* transport_packet_seen stores the hash before anything is sent, and what *)
(* leaves has the hash of what came: the echo of a transmission is known.  *)
THEOREM EchoesAreKnown == HSpec => EchoIsKnown
<1>1. ASSUME HInv, RingInv, HNext PROVE EchoStep
  <2> SUFFICES ASSUME NEW m \in sent', packet_ring' # packet_ring,
                      m[2].context # "path_response"
               PROVE  InRing(packet_ring'[m[1]], Hashable(m[2]))
    BY DEF EchoStep
  <2>1. PICK n \in Node, p \in Packet : LoraStep(n, p)
    BY <1>1, TransportAssumption
       DEF HNext, HearHostAnnounce, SendRaw, TakeIdentity, Tick, ResetStep, Reset, Silent
  <2>2. TypeOK
    BY <1>1 DEF HInv, HTypeOK
  <2>3. identity_current[n] \in HopHash \cup {Nobody}
    BY <2>2 DEF TypeOK, HopHash
  <2>4. CASE HearAnnounce(n, p)
    <3>1. m = <<n, Rebroadcast(p, identity_current[n])>>
      BY <2>4 DEF HearAnnounce, Transmits, Silent
    <3>2. Hashable(Rebroadcast(p, identity_current[n])) = Hashable(p)
      BY DEF Rebroadcast, Hashable, Packet
    <3>3. FirstSight(n, p)
      BY <2>4 DEF HearAnnounce
    <3> QED
      BY <1>1, <2>2, <3>1, <3>2, <3>3, FirstSightIsKnown
  <2>5. CASE AnswerPathRequest(n, p)
    <3>1. PICK c \in CacheSlot :
            /\ Occupied(response_cache[n], c)
            /\ Transmits(n, response_cache[n][c].raw)
      BY <2>5 DEF AnswerPathRequest, Answers, LooksUpResponse, Caches
    <3> DEFINE h == cacheable[n][response_cache[n][c].raw.dest]
    <3>2. /\ response_cache[n][c].raw.dest \in Dest
          /\ h # Never
          /\ response_cache[n][c].raw = PathResponse(h.packet, h.id)
      BY <1>1, <3>1 DEF HInv, ResponseMatches
    <3>3. h.packet \in Packet
      BY <1>1, <3>2 DEF HInv, HTypeOK, Cacheable
    <3> HIDE DEF h
    <3>4. response_cache[n][c].raw.context = "path_response"
      BY <3>2, <3>3 DEF PathResponse, Packet
    <3> QED
      BY <3>1, <3>4 DEF Transmits
  <2>6. CASE ForwardToDestination(n, p)
    <3>1. m = <<n, Stripped(p)>> /\ FirstSight(n, p)
      BY <2>6 DEF ForwardToDestination, Transmits
    <3>2. Hashable(Stripped(p)) = Hashable(p)
      BY DEF Stripped, Hashable, Packet
    <3> QED
      BY <1>1, <2>2, <3>1, <3>2, FirstSightIsKnown
  <2>7. CASE ForwardToNextHop(n, p)
    <3>1. PICK next : m = <<n, Relayed(p, next)>> /\ FirstSight(n, p)
      BY <2>7 DEF ForwardToNextHop, Transmits
    <3>2. Hashable(Relayed(p, next)) = Hashable(p)
      BY DEF Relayed, Hashable, Packet
    <3> QED
      BY <1>1, <2>2, <3>1, <3>2, FirstSightIsKnown
  <2>8. CASE DropDuplicate(n, p) \/ OnlyRemembered(n, p)
    BY <2>8 DEF DropDuplicate, OnlyRemembered, Silent
  <2>9. QED
    BY <2>1, <2>4, <2>5, <2>6, <2>7, <2>8
       DEF LoraStep, HearOther, RefuseAnnounce, IgnorePathRequest, RefuseForward,
           DispatchToLink
<1>2. HInv /\ RingInv /\ [HNext]_hvars => [EchoStep]_vars
  BY <1>1 DEF hvars
<1>3. QED
  BY <1>2, HInvAlways, HSpecIsSpec, RingInvAlways, PTL DEF HSpec, EchoIsKnown, EchoStep

-----------------------------------------------------------------------------
(* The difference of two clock values, the turn of the clock between them  *)
(* added when it shows, is the time between them when that is less than a  *)
(* turn.                                                                   *)
LEMMA WrappedDifference ==
  ASSUME NEW m \in Nat \ {0}, NEW u \in Nat, NEW h \in Nat, h <= u, u - h < m
  PROVE  (IF h % m <= u % m THEN (u % m) - (h % m) ELSE ((u % m) + m) - (h % m)) = u - h
<1>1. PICK q \in Nat, r \in 0 .. m - 1 : u = q * m + r /\ u % m = r
  <2>1. u % m \in 0 .. m - 1 /\ u \div m \in Nat /\ u = (u \div m) * m + (u % m)
    OBVIOUS
  <2> QED
    BY <2>1
<1>2. PICK p \in Nat, v \in 0 .. m - 1 : h = p * m + v /\ h % m = v
  <2>1. h % m \in 0 .. m - 1 /\ h \div m \in Nat /\ h = (h \div m) * m + (h % m)
    OBVIOUS
  <2> QED
    BY <2>1
<1>3. q = p \/ q = p + 1
  <2>1. q * m - p * m > - m /\ q * m - p * m < 2 * m
    BY <1>1, <1>2
  <2>2. ASSUME q < p PROVE FALSE
    <3>1. PICK k \in Nat : p = q + 1 + k
      BY <2>2
    <3>2. p * m = q * m + m + k * m /\ k * m >= 0
      BY <3>1
    <3> QED
      BY <2>1, <3>2
  <2>3. ASSUME q > p + 1 PROVE FALSE
    <3>1. q - p - 2 \in Nat /\ q = p + 2 + (q - p - 2)
      BY <2>3
    <3>2. PICK k \in Nat : q = p + 2 + k
      BY <3>1
    <3>3. q * m = p * m + 2 * m + k * m /\ k * m >= 0
      BY <3>2
    <3> QED
      BY <2>1, <3>3
  <2> QED
    BY <2>2, <2>3
<1>4. CASE q = p
  <2>1. r - v = u - h
    BY <1>1, <1>2, <1>4
  <2> QED
    BY <1>1, <1>2, <2>1
<1>5. CASE q = p + 1
  <2>1. r - v + m = u - h /\ u - h < m
    BY <1>1, <1>2, <1>5
  <2> QED
    BY <1>1, <1>2, <2>1
<1> QED
  BY <1>3, <1>4, <1>5

(* A route that was heard less than a turn of the clock ago has its true   *)
(* age, whether the clock turned since or not.                             *)
LEMMA AgeAcrossWrap ==
  ASSUME HInv, NEW n \in Node, NEW s \in PathSlot, Occupied(path_table[n], s),
         TrueAge(n, path_table[n][s].dest) < ClockModulus
  PROVE  /\ Age(path_table[n], s, Now(n)) = TrueAge(n, path_table[n][s].dest)
         /\ heard[n][path_table[n][s].dest].at \in Nat
<1> DEFINE d == path_table[n][s].dest
           h == heard[n][d]
<1>1. d \in Dest
  BY OccupiedSlots DEF HInv, HTypeOK, Route
<1>2. h # Never /\ path_table[n][s] = RouteFrom(h.packet, h.interface, h.at % ClockModulus)
  BY DEF HInv, RouteMatches
<1>3. h \in Heard /\ h.at <= uptime[n]
  BY <1>1, <1>2 DEF HInv, HTypeOK, HeardBefore
<1>4. h.at \in Nat /\ uptime[n] \in Nat
  BY <1>3, TransportAssumption DEF Heard, HInv, HTypeOK, TypeOK
<1>5. path_table[n][s].last_seen = h.at % ClockModulus /\ Now(n) = uptime[n] % ClockModulus
  BY <1>2 DEF RouteFrom, Now
<1>6. uptime[n] - h.at < ClockModulus
  BY DEF TrueAge
<1> HIDE DEF h, d
<1>7. Age(path_table[n], s, Now(n)) = uptime[n] - h.at
  BY <1>3, <1>4, <1>5, <1>6, WrappedDifference, TableAssumption DEF Age
<1>8. QED
  BY <1>4, <1>7 DEF h, d, TrueAge

(* When every route was heard less than a turn of the clock ago, the one   *)
(* that is given up is the one heard first: `now - last_seen' in 32 bits   *)
(* is its age although the clock turned (transport_path_update).           *)
THEOREM EvictionSurvivesTheWrap == HSpec => EvictsOldestAcrossWrap
<1>1. ASSUME HInv, HNext PROVE EvictsOldest
  <2> SUFFICES ASSUME NEW n \in Node, NEW s \in PathSlot,
                      path_table[n][s].valid, path_table'[n][s].valid,
                      path_table'[n][s].dest # path_table[n][s].dest,
                      \A t \in PathSlot : TrueAge(n, path_table[n][t].dest) < ClockModulus,
                      NEW t \in PathSlot
               PROVE  heard[n][path_table[n][t].dest].at
                        >= heard[n][path_table[n][s].dest].at
    BY DEF EvictsOldest
  <2>1. path_table \in [Node -> [PathSlot -> Route \cup {FreeSlot}]] /\ uptime[n] \in Nat
    BY <1>1, TransportAssumption DEF HInv, HTypeOK, TypeOK
  <2>2. PICK m \in Node, p \in Packet, i \in Interface : Learns(m, p, i)
    <3>1. CASE LearnsNothing
      BY <3>1 DEF LearnsNothing
    <3>2. ASSUME NEW m \in Node, ResetStep(m) PROVE FALSE
      BY <2>1, <3>2 DEF ResetStep, Reset, EmptyPathTable, FreeSlot
    <3>3. QED
      BY <1>1, <3>1, <3>2, StepCases DEF HInv
  <2>3. PICK u \in PathSlot :
          /\ PicksPathSlot(path_table[m], p.dest, Now(m), u)
          /\ path_table' = [path_table EXCEPT ![m] =
                             [path_table[m] EXCEPT ![u] = RouteFrom(p, i, Now(m))]]
    BY <1>1, <2>2, UpdatePathWrites DEF Learns
  <2>4. m = n /\ u = s
    BY <2>1, <2>3
  <2>5. path_table'[n][s] = RouteFrom(p, i, Now(n))
    BY <2>1, <2>3, <2>4
  <2>6. path_table[n][s].dest # p.dest
    BY <2>5 DEF RouteFrom
  <2>7. /\ \A v \in PathSlot : Occupied(path_table[n], v)
        /\ \A v \in PathSlot : Age(path_table[n], v, Now(n)) <= Age(path_table[n], s, Now(n))
    BY <2>3, <2>4, <2>6 DEF PicksPathSlot, LooksUp, Holds, Occupied
  <2>8. \A v \in PathSlot :
          /\ Age(path_table[n], v, Now(n)) = uptime[n] - heard[n][path_table[n][v].dest].at
          /\ heard[n][path_table[n][v].dest].at \in Nat
    BY <1>1, <2>7, AgeAcrossWrap DEF TrueAge
  <2>9. QED
    BY <2>1, <2>7, <2>8
<1>2. HInv /\ [HNext]_hvars => [EvictsOldest]_hvars
  BY <1>1
<1>3. QED
  BY <1>2, HInvAlways, PTL DEF HSpec, EvictsOldestAcrossWrap

-----------------------------------------------------------------------------
(* The reference models. *)

(* The loop of path_table.py.  Intervals that begin at zero are            *)
(* well-founded under inclusion, so a set of numbers has a least one ...   *)
LEMMA LeastNumber ==
  ASSUME NEW S \in SUBSET Nat, S # {}
  PROVE  \E x \in S : \A y \in S : x <= y
<1> DEFINE R == StrictSubsetOrdering(Nat)
           Below == {0 .. x : x \in S}
<1>1. IsWellFoundedOn(R, FiniteSubsetsOf(Nat))
  BY FS_StrictSubsetOrderingWellFounded
<1>2. Below \subseteq FiniteSubsetsOf(Nat)
  <2>1. \A x \in S : IsFiniteSet(0 .. x)
    BY FS_Interval
  <2> QED BY <2>1 DEF FiniteSubsetsOf
<1>6. Below # {}
  OBVIOUS
<1>3. \E I \in Below : \A J \in Below : ~ (<<J, I>> \in R)
  <2> HIDE DEF R, Below
  <2> QED BY <1>1, <1>2, <1>6, WFMin
<1>4. PICK x \in S : \A y \in S : ~ (<<0 .. y, 0 .. x>> \in R)
  BY <1>3
<1>5. ASSUME NEW y \in S, y < x
      PROVE  FALSE
  <2>1. x \in 0 .. x /\ x \notin 0 .. y /\ 0 .. y \subseteq 0 .. x /\ 0 .. y \subseteq Nat
        /\ 0 .. x \subseteq Nat
    BY <1>5
  <2>2. <<0 .. y, 0 .. x>> \in R
    BY <2>1 DEF StrictSubsetOrdering
  <2> QED BY <1>4, <2>2
<1> QED BY <1>4, <1>5

(* ... and induction over numbers holds for every set of them. *)
LEMMA NatSetInduction ==
  ASSUME NEW S, 0 \in S, \A k \in Nat : k \in S => k + 1 \in S
  PROVE  Nat \subseteq S
<1> SUFFICES ASSUME ~ Nat \subseteq S
             PROVE  FALSE
  OBVIOUS
<1>1. PICK x \in Nat \ S : \A y \in Nat \ S : x <= y
  <2> DEFINE T == Nat \ S
  <2>1. T \in SUBSET Nat /\ T # {}
    OBVIOUS
  <2> HIDE DEF T
  <2>2. \E x \in T : \A y \in T : x <= y
    BY <2>1, LeastNumber
  <2> QED BY <2>2 DEF T
<1>2. x # 0 /\ x - 1 \in Nat
  BY <1>1
<1>3. x - 1 \in S
  BY <1>1, <1>2
<1>4. x - 1 + 1 = x
  BY <1>1
<1> QED BY <1>1, <1>2, <1>3, <1>4

(* the function that holds what the loop knows after each of n entries *)
IsScan(F, table, d, now, n) ==
  F = [idx \in 0 .. n |->
         IF idx = 0 THEN Unvisited ELSE Visited(table, d, now, idx, F[idx - 1])]

LEMMA ScanExists ==
  ASSUME NEW table, NEW d, NEW now
  PROVE  \E F : IsScan(F, table, d, now, PathCapacity) /\ Scan(table, d, now) = F[PathCapacity]
<1> DEFINE Built == {n \in Nat : \E F : IsScan(F, table, d, now, n)}
<1>1. 0 \in Built
  <2>1. IsScan([idx \in 0 .. 0 |-> Unvisited], table, d, now, 0)
    BY DEF IsScan
  <2> QED BY <2>1
<1>2. ASSUME NEW n \in Nat, n \in Built
      PROVE  n + 1 \in Built
  <2>1. PICK F : IsScan(F, table, d, now, n)
    BY <1>2
  <2>2. \A idx \in 0 .. n :
          F[idx] = IF idx = 0 THEN Unvisited ELSE Visited(table, d, now, idx, F[idx - 1])
    BY <2>1 DEF IsScan
  <2> DEFINE G == [idx \in 0 .. n + 1 |->
                     IF idx <= n THEN F[idx] ELSE Visited(table, d, now, idx, F[idx - 1])]
  <2>3. \A idx \in 0 .. n + 1 :
          G[idx] = IF idx = 0 THEN Unvisited ELSE Visited(table, d, now, idx, G[idx - 1])
    <3> SUFFICES ASSUME NEW idx \in 0 .. n + 1
                 PROVE  G[idx] = IF idx = 0 THEN Unvisited
                                 ELSE Visited(table, d, now, idx, G[idx - 1])
      OBVIOUS
    <3>1. CASE idx <= n
      <4>1. G[idx] = F[idx]
        BY <3>1
      <4>2. idx # 0 => G[idx - 1] = F[idx - 1]
        BY <3>1
      <4> HIDE DEF G
      <4> QED BY <2>2, <3>1, <4>1, <4>2
    <3>2. CASE idx = n + 1
      <4>1. G[idx] = Visited(table, d, now, idx, F[idx - 1])
        BY <3>2
      <4>2. G[idx - 1] = F[idx - 1] /\ idx # 0
        BY <3>2
      <4> HIDE DEF G
      <4> QED BY <3>2, <4>1, <4>2
    <3> QED BY <3>1, <3>2
  <2>4. IsScan(G, table, d, now, n + 1)
    BY <2>3 DEF IsScan
  <2> HIDE DEF G
  <2> QED BY <2>4
<1>3. Nat \subseteq Built
  <2> HIDE DEF Built
  <2> QED BY <1>1, <1>2, NatSetInduction
<1>4. PathCapacity \in Nat
  BY TableAssumption
<1>5. \E F : IsScan(F, table, d, now, PathCapacity)
  BY <1>3, <1>4
<1> DEFINE C == CHOOSE F : IsScan(F, table, d, now, PathCapacity)
<1>6. IsScan(C, table, d, now, PathCapacity)
  BY <1>5
<1>7. Scan(table, d, now) = C[PathCapacity]
  BY DEF Scan, IsScan
<1> QED BY <1>6, <1>7
-----------------------------------------------------------------------------
(* A table is one node's path table: each slot holds a route or is free. *)
PathTable == [PathSlot -> Route \cup {FreeSlot}]

LEMMA TableSlots ==
  ASSUME NEW table \in PathTable, NEW s \in PathSlot
  PROVE  /\ Occupied(table, s) \in BOOLEAN
         /\ ~ Occupied(table, s) => table[s] = FreeSlot
         /\ Occupied(table, s) =>
              /\ table[s] \in Route /\ table[s] # None
              /\ table[s].last_seen \in ClockValue
<1>1. table[s] \in Route \/ table[s] = FreeSlot
  BY DEF PathTable
<1>2. CASE table[s] \in Route
  <2>1. table[s].valid = TRUE /\ table[s].last_seen \in ClockValue
    BY <1>2 DEF Route
  <2>2. table[s] # None
    BY <1>2, ContractAssumption
  <2> QED BY <1>2, <2>1, <2>2 DEF Occupied
<1>3. CASE table[s] = FreeSlot
  BY <1>3 DEF Occupied, FreeSlot
<1> QED BY <1>1, <1>2, <1>3

LEMMA AgeIsTheDifference ==
  ASSUME NEW table \in PathTable, NEW s \in PathSlot, Occupied(table, s),
         NEW now \in ClockValue
  PROVE  /\ (now - table[s].last_seen) % ClockModulus = Age(table, s, now)
         /\ Age(table, s, now) \in Nat
<1> DEFINE l == table[s].last_seen
           m == ClockModulus
<1>1. m \in Nat \ {0} /\ l \in 0 .. m - 1 /\ now \in 0 .. m - 1
  BY TableSlots, TableAssumption DEF ClockValue
<1>2. \A x \in Nat \ {0} : \A a \in 0 .. x - 1 : a % x = a
  OBVIOUS
<1>3. \A x \in Nat \ {0} : \A a \in 0 .. x - 1 : (a - x) % x = a
  OBVIOUS
<1> HIDE DEF l, m
<1>4. CASE l <= now
  <2>1. now - l \in 0 .. m - 1
    BY <1>1, <1>4
  <2>2. (now - l) % m = now - l
    BY <1>1, <1>2, <2>1
  <2> QED BY <1>4, <2>1, <2>2 DEF Age, l, m
<1>5. CASE now < l
  <2>1. (now + m) - l \in 0 .. m - 1
    BY <1>1, <1>5
  <2>2. (((now + m) - l) - m) % m = (now + m) - l
    BY <1>1, <1>3, <2>1
  <2>3. ((now + m) - l) - m = now - l
    BY <1>1
  <2>4. Age(table, s, now) = (now + m) - l
    BY <1>1, <1>5 DEF Age, l, m
  <2> QED BY <2>1, <2>2, <2>3, <2>4 DEF l, m
<1>6. l <= now \/ now < l
  BY <1>1
<1> QED BY <1>4, <1>5, <1>6

(* What the loop knows after it visited slots 1 .. n. *)
ScanState(n) ==
  [selected : 0 .. n, first_invalid : 0 .. n, oldest : 0 .. n, age : Nat \cup {-1}]

KnowsFree(table, n, so) ==
  IF so.first_invalid # 0
    THEN /\ ~ Occupied(table, so.first_invalid)
         /\ \A t \in 1 .. so.first_invalid - 1 : Occupied(table, t)
    ELSE \A t \in 1 .. n : Occupied(table, t)

KnowsOldest(table, now, n, so) ==
  IF so.oldest # 0
    THEN /\ Occupied(table, so.oldest)
         /\ so.age = Age(table, so.oldest, now)
         /\ \A t \in 1 .. n : Occupied(table, t) => Age(table, t, now) <= so.age
         /\ \A t \in 1 .. so.oldest - 1 : Occupied(table, t) => Age(table, t, now) < so.age
    ELSE so.age = -1 /\ \A t \in 1 .. n : ~ Occupied(table, t)

Knows(table, d, now, n, so) ==
  /\ so \in ScanState(n)
  /\ so.selected # 0 => LooksUp(table, d, so.selected)
  /\ so.selected = 0 =>
       /\ \A t \in 1 .. n : ~ Holds(table, t, d)
       /\ KnowsFree(table, n, so)
       /\ KnowsOldest(table, now, n, so)

LEMMA VisitKeepsKnowing ==
  ASSUME NEW table \in PathTable, NEW d, NEW now \in ClockValue,
         NEW n \in Nat, n + 1 \in PathSlot, NEW so, Knows(table, d, now, n, so)
  PROVE  Knows(table, d, now, n + 1, Visited(table, d, now, n + 1, so))
<1> DEFINE v == Visited(table, d, now, n + 1, so)
           age == (now - table[n + 1].last_seen) % ClockModulus
<1>1. /\ so \in ScanState(n)
      /\ so.selected \in 0 .. n /\ so.first_invalid \in 0 .. n /\ so.oldest \in 0 .. n
      /\ so.age \in Nat \cup {-1}
  BY DEF Knows, ScanState
<1>2. \A t \in 1 .. n + 1 : t \in 1 .. n \/ t = n + 1
  OBVIOUS
<1>3. so \in ScanState(n + 1)
  BY <1>1 DEF ScanState
<1>4. CASE so.selected # 0
  <2>1. v = so
    BY <1>4 DEF Visited
  <2> QED BY <1>3, <1>4, <2>1 DEF Knows
<1>5. CASE so.selected = 0 /\ ~ Occupied(table, n + 1)
  <2>1. v = [so EXCEPT !.first_invalid = IF @ = 0 THEN n + 1 ELSE @]
    BY <1>5 DEF Visited, Occupied
  <2>2. /\ v \in ScanState(n + 1)
        /\ v.selected = so.selected /\ v.oldest = so.oldest /\ v.age = so.age
        /\ v.first_invalid = IF so.first_invalid = 0 THEN n + 1 ELSE so.first_invalid
    BY <1>1, <1>3, <2>1 DEF ScanState
  <2>3. \A t \in 1 .. n + 1 : ~ Holds(table, t, d)
    BY <1>2, <1>5 DEF Knows, Holds
  <2>4. KnowsFree(table, n + 1, v)
    <3>1. CASE so.first_invalid = 0
      <4>1. v.first_invalid = n + 1 /\ n + 1 # 0
        BY <2>2, <3>1
      <4>2. \A t \in 1 .. n : Occupied(table, t)
        BY <1>5, <3>1 DEF Knows, KnowsFree
      <4>3. n + 1 - 1 = n
        OBVIOUS
      <4> QED BY <1>5, <4>1, <4>2, <4>3 DEF KnowsFree
    <3>2. CASE so.first_invalid # 0
      <4>1. v.first_invalid = so.first_invalid
        BY <2>2, <3>2
      <4> QED BY <1>5, <3>2, <4>1 DEF Knows, KnowsFree
    <3> QED BY <3>1, <3>2
  <2>5. KnowsOldest(table, now, n + 1, v)
    BY <1>2, <1>5, <2>2 DEF Knows, KnowsOldest
  <2> QED BY <1>5, <2>2, <2>3, <2>4, <2>5 DEF Knows
<1>6. CASE so.selected = 0 /\ Holds(table, n + 1, d)
  <2>1. v = [so EXCEPT !.selected = n + 1]
    BY <1>6 DEF Visited, Occupied, Holds
  <2>2. v \in ScanState(n + 1) /\ v.selected = n + 1
    BY <1>1, <1>3, <2>1 DEF ScanState
  <2>3. \A t \in 1 .. (n + 1) - 1 : ~ Holds(table, t, d)
    BY <1>6 DEF Knows
  <2>4. LooksUp(table, d, n + 1)
    BY <1>6, <2>3 DEF LooksUp
  <2> QED BY <2>2, <2>4 DEF Knows
<1>7. CASE so.selected = 0 /\ Occupied(table, n + 1) /\ ~ Holds(table, n + 1, d)
  <2>1. age = Age(table, n + 1, now) /\ age \in Nat
    BY <1>7, AgeIsTheDifference
  <2>2. v = IF age > so.age THEN [so EXCEPT !.oldest = n + 1, !.age = age] ELSE so
    BY <1>7 DEF Visited, Occupied, Holds, Older
  <2> HIDE DEF age
  <2>3. /\ v \in ScanState(n + 1)
        /\ v.selected = so.selected /\ v.first_invalid = so.first_invalid
        /\ v.oldest = IF age > so.age THEN n + 1 ELSE so.oldest
        /\ v.age = IF age > so.age THEN age ELSE so.age
    <3>1. CASE age > so.age
      <4>1. v = [so EXCEPT !.oldest = n + 1, !.age = age]
        BY <2>2, <3>1
      <4>2. n + 1 \in 0 .. n + 1 /\ age \in Nat \cup {-1}
        BY <2>1
      <4> DEFINE x == [so EXCEPT !.oldest = n + 1, !.age = age]
      <4>4. /\ x \in ScanState(n + 1)
            /\ x.selected = so.selected /\ x.first_invalid = so.first_invalid
            /\ x.oldest = n + 1 /\ x.age = age
        <5>1. DOMAIN so = {"selected", "first_invalid", "oldest", "age"}
          BY <1>3 DEF ScanState
        <5>2. /\ x.selected = so.selected /\ x.first_invalid = so.first_invalid
              /\ x.oldest = n + 1 /\ x.age = age
          BY <5>1
        <5>3. x \in ScanState(n + 1)
          BY <1>3, <4>2 DEF ScanState
        <5> QED BY <5>2, <5>3
      <4>5. v = x
        BY <4>1
      <4> HIDE DEF v, x
      <4> QED BY <3>1, <4>4, <4>5
    <3>2. CASE ~ (age > so.age)
      BY <1>3, <2>2, <3>2
    <3> QED BY <3>1, <3>2
  <2>4. \A t \in 1 .. n + 1 : ~ Holds(table, t, d)
    BY <1>2, <1>7 DEF Knows
  <2>5. KnowsFree(table, n + 1, v)
    BY <1>2, <1>7, <2>3 DEF Knows, KnowsFree
  <2>6. KnowsOldest(table, now, n + 1, v)
    <3>1. \A t \in 1 .. n : Occupied(table, t) =>
            Age(table, t, now) \in Nat /\ Age(table, t, now) <= so.age
      <4>1. \A t \in 1 .. n : t \in PathSlot
        BY TableAssumption DEF PathSlot
      <4>2. \A t \in 1 .. n : Occupied(table, t) => Age(table, t, now) \in Nat
        BY <4>1, AgeIsTheDifference
      <4> QED BY <1>7, <4>2 DEF Knows, KnowsOldest
    <3>2. CASE age > so.age
      <4>1. v.oldest = n + 1 /\ v.age = age /\ n + 1 # 0 /\ (n + 1) - 1 = n
        BY <2>3, <3>2
      <4>2. \A t \in 1 .. n : Occupied(table, t) => Age(table, t, now) < age
        BY <1>1, <2>1, <3>1, <3>2
      <4>3. \A t \in 1 .. n + 1 : Occupied(table, t) => Age(table, t, now) <= age
        BY <1>2, <2>1, <4>2, <3>1
      <4> QED BY <1>7, <2>1, <4>1, <4>2, <4>3 DEF KnowsOldest
    <3>3. CASE ~ (age > so.age)
      <4>1. so.oldest # 0
        BY <1>1, <1>7, <2>1, <3>3 DEF Knows, KnowsOldest
      <4>2. v.oldest = so.oldest /\ v.age = so.age
        BY <2>3, <3>3
      <4>3. \A t \in 1 .. n + 1 : Occupied(table, t) => Age(table, t, now) <= so.age
        BY <1>1, <1>2, <2>1, <3>1, <3>3
      <4> QED BY <1>7, <4>1, <4>2, <4>3 DEF Knows, KnowsOldest
    <3> QED BY <3>2, <3>3
  <2> QED BY <1>7, <2>3, <2>4, <2>5, <2>6 DEF Knows
<1>8. Occupied(table, n + 1) \in BOOLEAN
  BY TableSlots
<1>9. Holds(table, n + 1, d) => Occupied(table, n + 1)
  BY DEF Holds
<1> QED BY <1>1, <1>4, <1>5, <1>6, <1>7, <1>9
(* After the last entry it knows all there is to know of the table. *)
LEMMA ScanKnows ==
  ASSUME NEW table \in PathTable, NEW d, NEW now \in ClockValue
  PROVE  Knows(table, d, now, PathCapacity, Scan(table, d, now))
<1>1. PICK F : /\ IsScan(F, table, d, now, PathCapacity)
               /\ Scan(table, d, now) = F[PathCapacity]
  BY ScanExists
<1>2. PathCapacity \in Nat
  BY TableAssumption
<1>3. \A idx \in 0 .. PathCapacity :
        F[idx] = IF idx = 0 THEN Unvisited ELSE Visited(table, d, now, idx, F[idx - 1])
  BY <1>1 DEF IsScan
<1> DEFINE Known == {n \in Nat : n <= PathCapacity => Knows(table, d, now, n, F[n])}
<1>4. 0 \in Known
  <2>1. F[0] = Unvisited
    BY <1>2, <1>3
  <2>2. Knows(table, d, now, 0, Unvisited)
    BY DEF Knows, ScanState, KnowsFree, KnowsOldest, Unvisited
  <2> QED BY <2>1, <2>2
<1>5. ASSUME NEW n \in Nat, n \in Known
      PROVE  n + 1 \in Known
  <2> SUFFICES ASSUME n + 1 <= PathCapacity
               PROVE  Knows(table, d, now, n + 1, F[n + 1])
    OBVIOUS
  <2>1. /\ n + 1 \in PathSlot /\ n + 1 \in 0 .. PathCapacity
        /\ n + 1 # 0 /\ (n + 1) - 1 = n /\ n <= PathCapacity
    BY <1>2 DEF PathSlot
  <2>2. F[n + 1] = Visited(table, d, now, n + 1, F[n])
    BY <1>3, <2>1
  <2>3. Knows(table, d, now, n, F[n])
    BY <1>5, <2>1
  <2>4. Knows(table, d, now, n + 1, Visited(table, d, now, n + 1, F[n]))
    BY <2>1, <2>3, VisitKeepsKnowing
  <2> QED BY <2>2, <2>4
<1>6. Nat \subseteq Known
  <2> HIDE DEF Known
  <2> QED BY <1>4, <1>5, NatSetInduction
<1>7. PathCapacity <= PathCapacity
  BY <1>2
<1> QED BY <1>1, <1>2, <1>6, <1>7

(* The predicate by which TransportTables picks a slot holds for one slot. *)
LEMMA PickIsUnique ==
  ASSUME NEW table \in PathTable, NEW d, NEW now \in ClockValue,
         NEW s \in PathSlot, PicksPathSlot(table, d, now, s),
         NEW t \in PathSlot, PicksPathSlot(table, d, now, t)
  PROVE  s = t
<1>1. s \in Nat /\ t \in Nat /\ (s = t \/ s \in 1 .. t - 1 \/ t \in 1 .. s - 1)
  BY TableAssumption DEF PathSlot
<1>2. ASSUME NEW a \in PathSlot, NEW b \in PathSlot, a \in 1 .. b - 1,
             PicksPathSlot(table, d, now, a), PicksPathSlot(table, d, now, b)
      PROVE  FALSE
  <2>1. CASE LooksUp(table, d, b)
    <3>1. ~ Holds(table, a, d)
      BY <1>2, <2>1 DEF LooksUp
    <3> QED BY <1>2, <2>1, <3>1 DEF PicksPathSlot, LooksUp, Routed
  <2>2. CASE ~ Routed(table, d)
    <3>1. ~ LooksUp(table, d, a) /\ ~ LooksUp(table, d, b)
      BY <2>2 DEF LooksUp, Routed
    <3>2. CASE ~ Occupied(table, a) \/ ~ Occupied(table, b)
      BY <1>2, <3>1, <3>2 DEF PicksPathSlot
    <3>3. CASE /\ \A x \in PathSlot : Occupied(table, x)
               /\ \A x \in PathSlot : Age(table, x, now) <= Age(table, a, now)
               /\ \A x \in 1 .. b - 1 : Age(table, x, now) < Age(table, b, now)
      <4>1. Age(table, a, now) \in Nat /\ Age(table, b, now) \in Nat
        BY <3>3, AgeIsTheDifference
      <4> QED BY <1>2, <3>3, <4>1
    <3> QED BY <1>2, <3>1, <3>2, <3>3 DEF PicksPathSlot
  <2> QED BY <1>2, <2>1, <2>2 DEF PicksPathSlot
<1> QED BY <1>1, <1>2

(* what path_update does with what the loop knows *)
Chosen(scan) ==
  IF scan.selected # 0 THEN scan.selected
  ELSE IF scan.first_invalid # 0 THEN scan.first_invalid
  ELSE scan.oldest

LEMMA LoopPicksTheSlot ==
  ASSUME NEW table \in PathTable, NEW d, NEW now \in ClockValue
  PROVE  /\ Chosen(Scan(table, d, now)) \in PathSlot
         /\ PicksPathSlot(table, d, now, Chosen(Scan(table, d, now)))
<1> DEFINE scan == Scan(table, d, now)
<1>1. Knows(table, d, now, PathCapacity, scan)
  BY ScanKnows
<1>2. PathCapacity \in Nat /\ PathCapacity # 0 /\ PathSlot = 1 .. PathCapacity
  BY TableAssumption DEF PathSlot
<1> HIDE DEF scan
<1>3. /\ scan.selected \in 0 .. PathCapacity /\ scan.first_invalid \in 0 .. PathCapacity
      /\ scan.oldest \in 0 .. PathCapacity
  BY <1>1 DEF Knows, ScanState
<1>4. \A x \in 0 .. PathCapacity : x # 0 => x \in PathSlot
  BY <1>2
<1>5. CASE scan.selected # 0
  BY <1>1, <1>3, <1>4, <1>5 DEF Knows, Chosen, PicksPathSlot, scan
<1>6. CASE scan.selected = 0
  <2>1. ~ Routed(table, d)
    BY <1>1, <1>2, <1>6 DEF Knows, Routed
  <2>2. CASE scan.first_invalid # 0
    <3>1. Chosen(scan) = scan.first_invalid
      BY <1>6, <2>2 DEF Chosen
    <3> QED BY <1>1, <1>3, <1>4, <1>6, <2>1, <2>2, <3>1 DEF Knows, KnowsFree, PicksPathSlot, scan
  <2>3. CASE scan.first_invalid = 0
    <3>1. \A t \in PathSlot : Occupied(table, t)
      BY <1>1, <1>2, <1>6, <2>3 DEF Knows, KnowsFree
    <3>2. 1 \in PathSlot
      BY <1>2
    <3>3. scan.oldest # 0
      BY <1>1, <1>2, <1>6, <3>1, <3>2 DEF Knows, KnowsOldest
    <3>4. Chosen(scan) = scan.oldest /\ scan.oldest \in PathSlot
      BY <1>3, <1>4, <1>6, <2>3, <3>3 DEF Chosen
    <3>5. /\ \A t \in PathSlot : Age(table, t, now) <= Age(table, scan.oldest, now)
          /\ \A t \in 1 .. scan.oldest - 1 : Age(table, t, now) < Age(table, scan.oldest, now)
      <4>1. \A t \in 1 .. scan.oldest - 1 : t \in PathSlot
        BY <1>2, <3>4
      <4> QED BY <1>1, <1>2, <1>6, <3>1, <3>3, <4>1 DEF Knows, KnowsOldest
    <3> QED BY <2>1, <3>1, <3>4, <3>5 DEF PicksPathSlot, scan
  <2> QED BY <2>2, <2>3
<1> QED BY <1>5, <1>6

(* the entry that path_update writes *)
NewEntry(d, iface, hops, now, next_hop) ==
  [valid     |-> TRUE,
   interface |-> iface,
   hops      |-> hops,
   last_seen |-> now,
   dest      |-> d,
   next_hop  |-> IF next_hop = None THEN d ELSE next_hop]

(* So path_update writes the slot that transport_path_update is said to    *)
(* pick, whatever the table holds.                                         *)
LEMMA LoopWritesThePickedSlot ==
  ASSUME NEW table \in PathTable, NEW d, NEW now \in ClockValue,
         NEW s \in PathSlot, PicksPathSlot(table, d, now, s),
         NEW iface, NEW hops, NEW next_hop
  PROVE  path_update(table, d, iface, hops, now, next_hop) =
           [table EXCEPT ![s] = NewEntry(d, iface, hops, now, next_hop)]
<1>1. Chosen(Scan(table, d, now)) = s
  BY LoopPicksTheSlot, PickIsUnique
<1>2. now % ClockModulus = now
  <2>1. \A m \in Nat \ {0} : \A x \in 0 .. m - 1 : x % m = x
    OBVIOUS
  <2> QED BY <2>1, TableAssumption DEF ClockValue
<1> QED BY <1>1, <1>2 DEF path_update, Chosen, NewEntry
-----------------------------------------------------------------------------
(* path_lookup returns the first route to the destination, if there is one. *)
LEMMA LookupFinds ==
  ASSUME NEW table \in PathTable, NEW d
  PROVE  /\ \A s \in PathSlot : LooksUp(table, d, s) => path_lookup(table, d) = table[s]
         /\ path_lookup(table, d) = None <=> ~ Routed(table, d)
<1> DEFINE C == CHOOSE idx \in PathSlot : LooksUp(table, d, idx)
<1>1. path_lookup(table, d) = IF Routed(table, d) THEN table[C] ELSE None
  BY DEF path_lookup, Routed, LooksUp, Holds, Occupied
<1>2. \A s, t \in PathSlot : LooksUp(table, d, s) /\ LooksUp(table, d, t) => s = t
  <2>1. \A s, t \in PathSlot : s = t \/ s \in 1 .. t - 1 \/ t \in 1 .. s - 1
    BY TableAssumption DEF PathSlot
  <2> QED BY <2>1 DEF LooksUp
<1>3. ASSUME NEW s \in PathSlot, LooksUp(table, d, s)
      PROVE  path_lookup(table, d) = table[s]
  <2>1. C \in PathSlot /\ LooksUp(table, d, C)
    BY <1>3
  <2>2. Routed(table, d)
    BY <1>3 DEF LooksUp, Routed
  <2> HIDE DEF C
  <2>3. C = s
    BY <1>2, <1>3, <2>1
  <2> QED BY <1>1, <2>2, <2>3
<1>4. ASSUME Routed(table, d)
      PROVE  \E s \in PathSlot : LooksUp(table, d, s)
  <2> DEFINE S == {s \in PathSlot : Holds(table, s, d)}
  <2>1. S \in SUBSET Nat /\ S # {}
    BY <1>4, TableAssumption DEF Routed, PathSlot
  <2> HIDE DEF S
  <2>2. PICK s \in S : \A y \in S : s <= y
    BY <2>1, LeastNumber
  <2>3. s \in PathSlot /\ Holds(table, s, d)
    BY <2>2 DEF S
  <2>4. \A t \in 1 .. s - 1 : t \in PathSlot /\ ~ (s <= t)
    BY <2>3, TableAssumption DEF PathSlot
  <2>5. \A t \in 1 .. s - 1 : ~ Holds(table, t, d)
    BY <2>2, <2>4 DEF S
  <2> QED BY <2>3, <2>5 DEF LooksUp
<1>5. path_lookup(table, d) = None <=> ~ Routed(table, d)
  <2>1. CASE Routed(table, d)
    <3>1. PICK s \in PathSlot : LooksUp(table, d, s)
      BY <1>4, <2>1
    <3>2. table[s] # None
      BY <3>1, TableSlots DEF LooksUp, Holds
    <3> QED BY <1>3, <2>1, <3>1, <3>2
  <2>2. CASE ~ Routed(table, d)
    BY <1>1, <2>2
  <2> QED BY <2>1, <2>2
<1> QED BY <1>3, <1>5

-----------------------------------------------------------------------------
(* Announces *)

(* An acceptable announce is written by path_update as UpdatePath does. *)
LEMMA UpdatesFollow ==
  ASSUME TypeOK, NEW n \in Node, NEW p \in Packet, Acceptable(p), NEW iface
  PROVE  UpdateFollows(n, p, iface)
<1> SUFFICES ASSUME NEW s \in PathSlot, PicksPathSlot(path_table[n], p.dest, Now(n), s)
             PROVE  path_update(path_table[n], p.dest, iface, p.hops + 1, Now(n),
                                IF p.header = 2 THEN p.tid ELSE None)
                      = [path_table[n] EXCEPT ![s] = RouteFrom(p, iface, Now(n))]
  BY DEF UpdateFollows
<1> DEFINE next == IF p.header = 2 THEN p.tid ELSE None
<1>1. path_table[n] \in PathTable /\ Now(n) \in ClockValue
  BY NowType, TransportAssumption DEF TypeOK, PathTable
<1>2. OneMoreHop(p) = p.hops + 1
  BY DEF OneMoreHop, Acceptable
<1>3. (IF next = None THEN p.dest ELSE next) = IF p.header = 2 THEN p.tid ELSE p.dest
  <2>1. p.tid # None
    BY ContractAssumption DEF Packet
  <2> QED BY <2>1
<1> HIDE DEF next
<1>4. path_update(path_table[n], p.dest, iface, p.hops + 1, Now(n), next) =
        [path_table[n] EXCEPT ![s] = NewEntry(p.dest, iface, p.hops + 1, Now(n), next)]
  BY <1>1, LoopWritesThePickedSlot
<1>5. RouteFrom(p, iface, Now(n)) = NewEntry(p.dest, iface, p.hops + 1, Now(n), next)
  BY <1>2, <1>3 DEF RouteFrom, NewEntry
<1> QED BY <1>4, <1>5 DEF next

(* process_announce.py refuses what the transport refuses, and tells a new *)
(* destination from a known one by what path_lookup returns.               *)
LEMMA StatusFollows ==
  ASSUME TypeOK, NEW n \in Node, NEW p \in Packet, p.type = "announce"
  PROVE  /\ Acceptable(p) <=> AnnounceStatus(n, p) \in {"ACCEPTED", "UPDATED"}
         /\ Acceptable(p) =>
              (AnnounceStatus(n, p) = "UPDATED" <=> Routed(path_table[n], p.dest))
<1>1. path_lookup(path_table[n], p.dest) = None <=> ~ Routed(path_table[n], p.dest)
  BY LookupFinds DEF TypeOK, PathTable
<1> DEFINE lookup_rc == IF path_lookup(path_table[n], p.dest) = None THEN "ERR_NOT_FOUND" ELSE "OK"
           ok == p.context = "none" /\ p.body \in AnnounceBody
           valid == p.dest \in Dest /\ p.body.genuine
           fits == p.hops + 1 < HopModulus
<1>2. AnnounceStatus(n, p) = process_status(ok, valid, lookup_rc, fits)
  BY DEF AnnounceStatus
<1>3. Acceptable(p) <=> ok /\ valid /\ fits
  BY DEF Acceptable
<1>4. lookup_rc = IF Routed(path_table[n], p.dest) THEN "OK" ELSE "ERR_NOT_FOUND"
  BY <1>1
<1> HIDE DEF lookup_rc, ok, valid, fits
<1>5. process_status(ok, valid, lookup_rc, fits) =
        IF ok /\ valid /\ fits
          THEN IF lookup_rc = "OK" THEN "UPDATED" ELSE "ACCEPTED"
          ELSE "ERR_INVAL"
  BY <1>4 DEF process_status
<1> QED BY <1>2, <1>3, <1>4, <1>5

-----------------------------------------------------------------------------
(* Packets as sequences of fields *)

(* The last three fields of a sequence, and three fields after others. *)
LEMMA LastThree ==
  ASSUME NEW S, NEW s \in Seq(S), NEW k \in Nat \ {0}, NEW l \in Nat, l = k + 2, Len(s) = l,
         NEW x, NEW y, NEW z, s[k] = x, s[k + 1] = y, s[l] = z
  PROVE  SubSeq(s, k, l) = <<x, y, z>>
<1> DEFINE a == SubSeq(s, k, l)
           b == <<x, y, z>>
<1>1. k \in Int /\ l \in Int /\ k <= l /\ l - k + 1 = 3
  OBVIOUS
<1>2. \A i \in k .. l : s[i] \in S
  OBVIOUS
<1>3. a \in Seq(S) /\ Len(a) = 3 /\ \A i \in 1 .. 3 : a[i] = s[k + i - 1]
  BY <1>1, <1>2, SubSeqProperties
<1>4. x \in S /\ y \in S /\ z \in S
  OBVIOUS
<1>5. b \in Seq(S) /\ Len(b) = 3 /\ b[1] = x /\ b[2] = y /\ b[3] = z
  BY <1>4
<1>6. \A i \in 1 .. 3 : a[i] = b[i]
  BY <1>3, <1>5
<1> HIDE DEF a, b
<1>7. a = b
  BY <1>3, <1>5, <1>6, SeqEqual
<1> QED BY <1>7 DEF a, b

LEMMA ThreeAfterOthers ==
  ASSUME NEW S, NEW s \in Seq(S), NEW t \in Seq(S), NEW u \in Seq(S), Len(t) = 3,
         Len(u) = Len(s) + 3,
         \A i \in 1 .. Len(s) : u[i] = s[i],
         u[Len(s) + 1] = t[1], u[Len(s) + 2] = t[2], u[Len(s) + 3] = t[3]
  PROVE  s \o t = u
<1>1. /\ s \o t \in Seq(S) /\ Len(s \o t) = Len(s) + 3
      /\ \A i \in 1 .. Len(s) + 3 : (s \o t)[i] = IF i <= Len(s) THEN s[i] ELSE t[i - Len(s)]
  <2>1. /\ s \o t \in Seq(S) /\ Len(s \o t) = Len(s) + Len(t)
        /\ \A i \in 1 .. Len(s) + Len(t) : (s \o t)[i] = IF i <= Len(s) THEN s[i] ELSE t[i - Len(s)]
    BY ConcatProperties
  <2> QED BY <2>1
<1>2. \A i \in 1 .. Len(s) + 3 :
        i \in 1 .. Len(s) \/ i = Len(s) + 1 \/ i = Len(s) + 2 \/ i = Len(s) + 3
  OBVIOUS
<1>3. \A i \in 1 .. Len(s) + 3 : (s \o t)[i] = u[i]
  BY <1>1, <1>2
<1> QED BY <1>1, <1>3, SeqEqual

(* What packet_hashable keeps of a packet with and without a transport id. *)
LEMMA HashableFields ==
  ASSUME NEW p \in Packet
  PROVE  packet_hashable(Raw(p)) = <<p.type, p.dest, p.context, p.body>>
<1>1. p.header = 1 \/ p.header = 2
  BY DEF Packet
<1> DEFINE S == {p.type, p.hops, p.tid, p.dest, p.context, p.body, Flags(p)}
           tail == <<p.dest, p.context, p.body>>
           all == <<p.type, p.dest, p.context, p.body>>
<1>4. <<p.type>> \o tail = all
  <2>1. /\ <<p.type>> \in Seq(S) /\ tail \in Seq(S) /\ all \in Seq(S)
        /\ Len(<<p.type>>) = 1 /\ Len(tail) = 3 /\ Len(all) = 4
    OBVIOUS
  <2> DEFINE head == <<p.type>>
  <2>2. /\ \A i \in 1 .. Len(head) : all[i] = head[i]
        /\ all[Len(head) + 1] = tail[1] /\ all[Len(head) + 2] = tail[2]
        /\ all[Len(head) + 3] = tail[3]
    BY <2>1
  <2>3. head \in Seq(S) /\ Len(all) = Len(head) + 3
    BY <2>1
  <2> HIDE DEF head, tail, all, S
  <2>4. head \o tail = all
    BY <2>1, <2>2, <2>3, ThreeAfterOthers
  <2> QED BY <2>4 DEF head
<1>5. CASE p.header = 2
  <2>1. Raw(p) = <<Flags(p), p.hops, p.tid, p.dest, p.context, p.body>>
    BY <1>5 DEF Raw
  <2>2. /\ Len(Raw(p)) = 6 /\ Raw(p)[1] = Flags(p)
        /\ SubSeq(Raw(p), 4, 6) = <<p.dest, p.context, p.body>>
    <3>1. Raw(p) \in Seq(S) /\ Len(Raw(p)) = 6
      BY <2>1
    <3>2. Raw(p)[4] = p.dest /\ Raw(p)[4 + 1] = p.context /\ Raw(p)[6] = p.body
      BY <2>1
    <3>3. SubSeq(Raw(p), 4, 6) = tail
      <4> HIDE DEF S
      <4> QED BY <3>1, <3>2, LastThree
    <3> QED BY <2>1, <3>1, <3>3
  <2>3. Flags(p).type = p.type /\ Flags(p).header = 2
    BY <1>5 DEF Flags
  <2> QED BY <1>4, <2>2, <2>3 DEF packet_hashable
<1>6. CASE p.header = 1
  <2>1. Raw(p) = <<Flags(p), p.hops, p.dest, p.context, p.body>>
    BY <1>6 DEF Raw
  <2>2. /\ Len(Raw(p)) = 5 /\ Raw(p)[1] = Flags(p)
        /\ SubSeq(Raw(p), 3, 5) = <<p.dest, p.context, p.body>>
    <3>1. Raw(p) \in Seq(S) /\ Len(Raw(p)) = 5
      BY <2>1
    <3>2. Raw(p)[3] = p.dest /\ Raw(p)[3 + 1] = p.context /\ Raw(p)[5] = p.body
      BY <2>1
    <3>3. SubSeq(Raw(p), 3, 5) = tail
      <4> HIDE DEF S
      <4> QED BY <3>1, <3>2, LastThree
    <3> QED BY <2>1, <3>1, <3>3
  <2>3. Flags(p).type = p.type /\ Flags(p).header = 1
    BY <1>6 DEF Flags
  <2> QED BY <1>4, <2>2, <2>3 DEF packet_hashable
<1> QED BY <1>1, <1>5, <1>6

LEMMA HashesFollow ==
  ASSUME NEW p \in Packet, NEW q \in Packet
  PROVE  SameHash(p, q)
<1>1. packet_hashable(Raw(p)) = packet_hashable(Raw(q)) <=>
        p.type = q.type /\ p.dest = q.dest /\ p.context = q.context /\ p.body = q.body
  BY HashableFields
<1>2. Hashable(p) = Hashable(q) <=>
        p.type = q.type /\ p.dest = q.dest /\ p.context = q.context /\ p.body = q.body
  BY DEF Hashable
<1> QED BY <1>1, <1>2 DEF SameHash

(* A cached response has the fields path_response.py puts together. *)
LEMMA ResponsesFollow ==
  ASSUME NEW n \in Node, NEW p \in Packet, Acceptable(p)
  PROVE  ResponseFollows(n, p)
<1> DEFINE id == identity_current[n]
           response == <<ANNOUNCE_HEADER2_FLAGS, p.hops + 1, id, p.dest, "path_response", p.body>>
<1>1. OneMoreHop(p) = p.hops + 1 /\ p.type = "announce"
  BY DEF OneMoreHop, Acceptable
<1>2. Raw(PathResponse(p, id)) = response
  <2>1. /\ PathResponse(p, id).header = 2 /\ PathResponse(p, id).type = "announce"
        /\ PathResponse(p, id).hops = p.hops + 1 /\ PathResponse(p, id).tid = id
        /\ PathResponse(p, id).dest = p.dest /\ PathResponse(p, id).context = "path_response"
        /\ PathResponse(p, id).body = p.body
    BY <1>1 DEF PathResponse, Packet
  <2> QED BY <2>1 DEF Raw, Flags, ANNOUNCE_HEADER2_FLAGS
<1>3. p.header = 1 \/ p.header = 2
  BY DEF Packet
<1>4. CASE p.header = 2
  <2>1. Raw(p) = <<Flags(p), p.hops, p.tid, p.dest, p.context, p.body>>
    BY <1>4 DEF Raw
  <2>2. h2_response(Raw(p), p.hops + 1, id) = response
    BY <2>1 DEF h2_response
  <2> QED BY <1>2, <1>4, <2>2 DEF ResponseFollows
<1>5. CASE p.header = 1
  <2>1. Raw(p) = <<Flags(p), p.hops, p.dest, p.context, p.body>>
    BY <1>5 DEF Raw
  <2> DEFINE S == {p.hops, p.dest, p.context, p.body, Flags(p), id, p.hops + 1,
                   ANNOUNCE_HEADER2_FLAGS}
             head == <<ANNOUNCE_HEADER2_FLAGS, p.hops + 1, id>>
             tail == <<p.dest, p.context, p.body>>
             out == <<ANNOUNCE_HEADER2_FLAGS, p.hops + 1, id, p.dest, p.context, p.body>>
  <2>2. Raw(p) \in Seq(S) /\ Len(Raw(p)) = 5
    BY <2>1
  <2>3. SubSeq(Raw(p), 3, Len(Raw(p))) = tail
    <3>1. Raw(p)[3] = p.dest /\ Raw(p)[3 + 1] = p.context /\ Raw(p)[5] = p.body
      BY <2>1
    <3> HIDE DEF S
    <3>2. SubSeq(Raw(p), 3, 5) = tail
      BY <2>2, <3>1, LastThree
    <3> QED BY <2>2, <3>2
  <2>4. head \o tail = out
    <3>1. /\ head \in Seq(S) /\ tail \in Seq(S) /\ out \in Seq(S)
          /\ Len(head) = 3 /\ Len(tail) = 3 /\ Len(out) = 6
      OBVIOUS
    <3>2. /\ \A i \in 1 .. Len(head) : out[i] = head[i]
          /\ out[Len(head) + 1] = tail[1] /\ out[Len(head) + 2] = tail[2]
          /\ out[Len(head) + 3] = tail[3] /\ Len(out) = Len(head) + 3
      BY <3>1
    <3> HIDE DEF head, tail, out, S
    <3> QED BY <3>1, <3>2, ThreeAfterOthers
  <2>5. h1_response(Raw(p), p.hops + 1, id) = response
    <3>1. [out EXCEPT ![5] = "path_response"] = response
      OBVIOUS
    <3> QED BY <2>3, <2>4, <3>1 DEF h1_response
  <2> QED BY <1>2, <1>5, <2>5 DEF ResponseFollows
<1> QED BY <1>3, <1>4, <1>5

-----------------------------------------------------------------------------
(* What the tables keep of a route and of a response is laid out without   *)
(* a gap and without a shared byte.                                        *)
LEMMA LayoutsFollow == prove_constants
<1>1. Packed(path_entry, TRANSPORT_PATH_ENTRY_SIZE)
  BY DEF Packed, path_entry, TRANSPORT_PATH_ENTRY_SIZE, HASH_LEN
<1>2. Packed(path_response_entry, TRANSPORT_PATH_RESPONSE_ENTRY_SIZE)
  BY DEF Packed, path_response_entry, TRANSPORT_PATH_RESPONSE_ENTRY_SIZE, HASH_LEN,
         TRANSPORT_PATH_RESPONSE_RAW_MAX
<1> QED
  BY <1>1, <1>2 DEF prove_constants, TRANSPORT_PATH_CAPACITY, TRANSPORT_PATH_ENTRY_SIZE,
     TRANSPORT_PATH_RESPONSE_CAPACITY, TRANSPORT_PATH_RESPONSE_ENTRY_SIZE,
     TRANSPORT_PACKET_HASH_CAPACITY, HASH_LEN, HEADER_H2_SIZE

LEMMA StatusesFollow == prove_status_model /\ prove_finite_model
<1>1. prove_status_model
  BY DEF prove_status_model, process_status
<1>2. prove_finite_model
  BY DEF prove_finite_model, process_model
<1> QED BY <1>1, <1>2

-----------------------------------------------------------------------------
(* path_table.py's walk through the table *)

LEMMA EntriesAreRoutes ==
  ASSUME NEW d \in Dest, NEW hops \in Hop, NEW now \in ClockValue,
         NEW next \in HopHash \cup {None}
  PROVE  NewEntry(d, "lora", hops, now, next) \in Route
<1>1. (IF next = None THEN d ELSE next) \in HopHash \cup {Nobody}
  BY DEF HopHash
<1> QED BY <1>1 DEF NewEntry, Route, Interface

(* the table when slots 1 .. k hold the first k destinations *)
FilledTo(dests, k) ==
  [s \in PathSlot |->
     IF s <= k THEN NewEntry(dests[s], "lora", 1, s - 1, None) ELSE FreeSlot]

WalkConditions(dests) ==
  /\ dests \in [1 .. PathCapacity + 1 -> Dest]
  /\ \A i, j \in 1 .. PathCapacity + 1 : dests[i] = dests[j] => i = j
  /\ {1, PathCapacity - 1} \subseteq ClockValue
  /\ 2 \in Hop

LEMMA FilledToHolds ==
  ASSUME NEW dests, WalkConditions(dests), NEW k \in 0 .. PathCapacity
  PROVE  /\ FilledTo(dests, k) \in PathTable
         /\ \A s \in PathSlot :
              /\ Occupied(FilledTo(dests, k), s) <=> s <= k
              /\ s <= k => /\ FilledTo(dests, k)[s].dest = dests[s]
                           /\ FilledTo(dests, k)[s].last_seen = s - 1
         /\ \A i \in 1 .. PathCapacity + 1 : i > k => ~ Routed(FilledTo(dests, k), dests[i])
<1> DEFINE T == FilledTo(dests, k)
<1>1. /\ PathCapacity \in Nat \ {0} /\ PathSlot = 1 .. PathCapacity
      /\ 1 \in Hop /\ ClockModulus \in Nat \ {0}
  BY TableAssumption, PacketAssumption DEF PathSlot, Hop
<1>2. \A s \in PathSlot : s \in Nat /\ s - 1 \in ClockValue /\ dests[s] \in Dest
  BY <1>1 DEF WalkConditions, ClockValue
<1>3. \A s \in PathSlot : T[s] = IF s <= k THEN NewEntry(dests[s], "lora", 1, s - 1, None)
                                        ELSE FreeSlot
  BY DEF FilledTo
<1>4. T = [s \in PathSlot |-> T[s]]
  BY DEF FilledTo
<1> HIDE DEF T
<1>5. ASSUME NEW s \in PathSlot
      PROVE  /\ T[s] \in Route \cup {FreeSlot}
             /\ Occupied(T, s) <=> s <= k
             /\ s <= k => T[s].dest = dests[s] /\ T[s].last_seen = s - 1
  <2>1. CASE s <= k
    <3>1. T[s] = NewEntry(dests[s], "lora", 1, s - 1, None)
      BY <1>3, <2>1
    <3> DEFINE entry == NewEntry(dests[s], "lora", 1, s - 1, None)
    <3>2. /\ entry.valid = TRUE /\ entry.dest = dests[s] /\ entry.last_seen = s - 1
      BY DEF NewEntry
    <3>3. entry \in Route
      BY <1>1, <1>2, EntriesAreRoutes
    <3> HIDE DEF entry
    <3> HIDE DEF entry
    <3>4. T[s] = entry
      BY <3>1 DEF entry
    <3>5. T[s] \in Route /\ T[s].valid = TRUE /\ T[s].dest = dests[s] /\ T[s].last_seen = s - 1
      BY <3>2, <3>3, <3>4
    <3>6. Occupied(T, s)
      BY <3>5 DEF Occupied
    <3> QED BY <2>1, <3>5, <3>6
  <2>2. CASE ~ (s <= k)
    <3>1. T[s] = FreeSlot
      BY <1>3, <2>2
    <3> QED BY <2>2, <3>1 DEF Occupied, FreeSlot
  <2> QED BY <2>1, <2>2
<1>6. T \in PathTable
  BY <1>4, <1>5 DEF PathTable
<1>7. ASSUME NEW i \in 1 .. PathCapacity + 1, i > k, Routed(T, dests[i])
      PROVE  FALSE
  <2>1. PICK s \in PathSlot : Occupied(T, s) /\ T[s].dest = dests[i]
    BY <1>7 DEF Routed, Holds
  <2>2. s <= k /\ dests[s] = dests[i]
    BY <1>5, <2>1
  <2>3. s \in 1 .. PathCapacity + 1
    BY <1>1
  <2>4. s = i
    BY <2>2, <2>3 DEF WalkConditions
  <2> QED BY <1>1, <1>7, <2>2, <2>4
<1> QED BY <1>5, <1>6, <1>7 DEF T

(* each new destination goes to the slot after the last one *)
LEMMA FilledToStep ==
  ASSUME NEW dests, WalkConditions(dests), NEW k \in PathSlot
  PROVE  path_update(FilledTo(dests, k - 1), dests[k], "lora", 1, k - 1, None)
           = FilledTo(dests, k)
<1> DEFINE T == FilledTo(dests, k - 1)
           d == dests[k]
           now == k - 1
<1>1. /\ PathCapacity \in Nat \ {0} /\ PathSlot = 1 .. PathCapacity /\ k \in Nat
      /\ k \in 1 .. PathCapacity + 1 /\ now \in 0 .. PathCapacity /\ k > now
      /\ now \in ClockValue /\ ~ (k <= now) /\ \A t \in 1 .. k - 1 : t \in PathSlot /\ t <= now
  BY TableAssumption DEF PathSlot, WalkConditions, ClockValue
<1>2. /\ T \in PathTable /\ ~ Routed(T, d)
      /\ \A s \in PathSlot : Occupied(T, s) <=> s <= now
  BY <1>1, FilledToHolds
<1>3. PicksPathSlot(T, d, now, k)
  BY <1>1, <1>2 DEF PicksPathSlot
<1>4. FilledTo(dests, k) = [T EXCEPT ![k] = NewEntry(d, "lora", 1, now, None)]
  <2>1. \A s \in PathSlot : s <= k <=> s <= now \/ s = k
    BY <1>1
  <2>2. k <= k
    BY <1>1
  <2> QED BY <2>1, <2>2 DEF FilledTo
<1> HIDE DEF T, d, now
<1>5. path_update(T, d, "lora", 1, now, None) = [T EXCEPT ![k] = NewEntry(d, "lora", 1, now, None)]
  BY <1>1, <1>2, <1>3, LoopWritesThePickedSlot
<1> QED BY <1>4, <1>5 DEF T, d, now

LEMMA FilledFillsTheTable ==
  ASSUME NEW dests, WalkConditions(dests)
  PROVE  FullTable(dests) = FilledTo(dests, PathCapacity)
<1> DEFINE Is(F) == F = [k \in 0 .. PathCapacity |->
                           IF k = 0 THEN path_init
                           ELSE path_update(F[k - 1], dests[k], "lora", 1, k - 1, None)]
           G == [k \in 0 .. PathCapacity |-> FilledTo(dests, k)]
           C == CHOOSE F : Is(F)
<1>1. PathCapacity \in Nat /\ PathSlot = 1 .. PathCapacity
  BY TableAssumption DEF PathSlot
<1>2. \A k \in 0 .. PathCapacity : k = 0 \/ (k \in PathSlot /\ k - 1 \in 0 .. PathCapacity)
  BY <1>1
<1>3. FilledTo(dests, 0) = path_init
  <2>1. \A s \in PathSlot : ~ (s <= 0)
    BY <1>1
  <2> QED BY <2>1 DEF FilledTo, path_init
<1>4. \A k \in 0 .. PathCapacity :
        G[k] = IF k = 0 THEN path_init
               ELSE path_update(G[k - 1], dests[k], "lora", 1, k - 1, None)
  <2> SUFFICES ASSUME NEW k \in 0 .. PathCapacity
               PROVE  G[k] = IF k = 0 THEN path_init
                             ELSE path_update(G[k - 1], dests[k], "lora", 1, k - 1, None)
    OBVIOUS
  <2>1. CASE k = 0
    BY <1>3, <2>1
  <2>2. CASE k # 0
    <3>1. k \in PathSlot /\ k - 1 \in 0 .. PathCapacity
      BY <1>2, <2>2
    <3>2. G[k - 1] = FilledTo(dests, k - 1) /\ G[k] = FilledTo(dests, k)
      BY <3>1
    <3> HIDE DEF G
    <3> QED BY <2>2, <3>1, <3>2, FilledToStep
  <2> QED BY <2>1, <2>2
<1>5. Is(G)
  BY <1>4
<1>6. Is(C)
  <2> HIDE DEF Is, G
  <2> QED BY <1>5
<1>7. FullTable(dests) = C[PathCapacity]
  BY DEF FullTable
<1>8. \A k \in 0 .. PathCapacity :
        C[k] = IF k = 0 THEN path_init
               ELSE path_update(C[k - 1], dests[k], "lora", 1, k - 1, None)
  BY <1>6
<1> HIDE DEF C, Is, G
<1> DEFINE Same == {k \in Nat : k <= PathCapacity => C[k] = FilledTo(dests, k)}
<1>9. 0 \in Same
  BY <1>1, <1>3, <1>8
<1>10. ASSUME NEW k \in Nat, k \in Same
       PROVE  k + 1 \in Same
  <2> SUFFICES ASSUME k + 1 <= PathCapacity
               PROVE  C[k + 1] = FilledTo(dests, k + 1)
    OBVIOUS
  <2>1. /\ k + 1 \in PathSlot /\ k + 1 \in 0 .. PathCapacity /\ k + 1 # 0
        /\ (k + 1) - 1 = k /\ k <= PathCapacity
    BY <1>1
  <2>2. C[k + 1] = path_update(C[k], dests[k + 1], "lora", 1, k, None)
    BY <1>8, <2>1
  <2>3. C[k] = FilledTo(dests, k)
    BY <1>10, <2>1
  <2>4. path_update(FilledTo(dests, (k + 1) - 1), dests[k + 1], "lora", 1, (k + 1) - 1, None)
          = FilledTo(dests, k + 1)
    BY <2>1, FilledToStep
  <2> QED BY <2>1, <2>2, <2>3, <2>4
<1>11. Nat \subseteq Same
  <2> HIDE DEF Same
  <2> QED BY <1>9, <1>10, NatSetInduction
<1>12. PathCapacity <= PathCapacity
  BY <1>1
<1> QED BY <1>1, <1>7, <1>11, <1>12

(* an empty table takes its first route in its first slot *)
LEMMA FirstRoute ==
  ASSUME NEW d, NEW now \in ClockValue, NEW hops, NEW next
  PROVE  path_update(path_init, d, "lora", hops, now, next)
           = [path_init EXCEPT ![1] = NewEntry(d, "lora", hops, now, next)]
<1>1. path_init \in PathTable /\ 1 \in PathSlot
  BY TableAssumption DEF path_init, PathTable, PathSlot
<1>2. PicksPathSlot(path_init, d, now, 1)
  BY <1>1 DEF PicksPathSlot, path_init, Routed, Holds, Occupied, FreeSlot
<1> QED BY <1>1, <1>2, LoopWritesThePickedSlot

(* The walk: insert, replace in place, fill, and evict the oldest. *)
LEMMA TheWalkFollows == PathTableWalks
<1> SUFFICES ASSUME NEW dests \in [1 .. PathCapacity + 1 -> Dest],
                    \A i, j \in DOMAIN dests : dests[i] = dests[j] => i = j,
                    {1, PathCapacity - 1} \subseteq ClockValue,
                    2 \in Hop
             PROVE  PathTableWalk(dests)
  BY DEF PathTableWalks
<1>1. WalkConditions(dests)
  BY DEF WalkConditions
<1>2. /\ PathCapacity \in Nat \ {0} /\ PathSlot = 1 .. PathCapacity
      /\ 1 \in PathSlot /\ PathCapacity \in 0 .. PathCapacity /\ PathCapacity + 1 > PathCapacity
      /\ 1 \in 1 .. PathCapacity + 1 /\ PathCapacity + 1 \in 1 .. PathCapacity + 1
      /\ 1 # PathCapacity + 1
      /\ 0 \in ClockValue /\ 1 \in ClockValue /\ PathCapacity - 1 \in ClockValue
      /\ 1 \in Hop /\ 2 \in Hop
      /\ \A t : t \notin 1 .. 0
  BY TableAssumption, PacketAssumption DEF PathSlot, ClockValue, Hop
<1>3. ZeroId \in HopHash /\ ZeroId # None
  BY PacketAssumption, ContractAssumption DEF HopHash
<1> DEFINE d == dests[1]
           e == dests[PathCapacity + 1]
           first == path_update(path_init, d, "lora", 1, 0, None)
           again == path_update(first, d, "lora", 2, 1, ZeroId)
           full == FilledTo(dests, PathCapacity)
           over == path_update(full, e, "lora", 1, PathCapacity - 1, None)
           fe == NewEntry(d, "lora", 1, 0, None)
           ae == NewEntry(d, "lora", 2, 1, ZeroId)
           oe == NewEntry(e, "lora", 1, PathCapacity - 1, None)
<1>4. d \in Dest /\ e \in Dest /\ d # e
  BY <1>2
<1>5. /\ fe \in Route /\ fe.valid = TRUE /\ fe.dest = d /\ fe.next_hop = d
      /\ ae \in Route /\ ae.valid = TRUE /\ ae.dest = d /\ ae.hops = 2 /\ ae.next_hop = ZeroId
      /\ oe \in Route /\ oe.valid = TRUE /\ oe.dest = e
  <2> HIDE DEF d, e
  <2>1. /\ fe.valid = TRUE /\ fe.dest = d /\ fe.next_hop = d
        /\ ae.valid = TRUE /\ ae.dest = d /\ ae.hops = 2 /\ ae.next_hop = ZeroId
        /\ oe.valid = TRUE /\ oe.dest = e
    BY <1>3 DEF NewEntry
  <2>2. fe \in Route
    BY <1>2, <1>4, EntriesAreRoutes
  <2>3. ae \in Route
    BY <1>2, <1>3, <1>4, EntriesAreRoutes
  <2>4. oe \in Route
    BY <1>2, <1>4, EntriesAreRoutes
  <2> QED BY <2>1, <2>2, <2>3, <2>4
<1> HIDE DEF fe, ae, oe
<1>6. first = [path_init EXCEPT ![1] = fe]
  <2> HIDE DEF d
  <2> QED BY <1>2, FirstRoute DEF fe
<1> HIDE DEF first
<1>7. /\ first \in PathTable /\ LooksUp(first, d, 1) /\ first[1] = fe
      /\ \A t \in PathSlot : Occupied(first, t) <=> t = 1
  <2>1. path_init \in PathTable
    BY DEF path_init, PathTable
  <2>2. first \in PathTable /\ \A t \in PathSlot : first[t] = IF t = 1 THEN fe ELSE FreeSlot
    BY <1>2, <1>5, <1>6, <2>1 DEF PathTable, path_init
  <2> QED BY <1>2, <1>5, <2>2 DEF LooksUp, Holds, Occupied, FreeSlot
<1>8. again = [first EXCEPT ![1] = ae]
  <2>1. PicksPathSlot(first, d, 1, 1)
    BY <1>7 DEF PicksPathSlot
  <2> DEFINE slot == 1
             now == 1
             hops == 2
  <2>2. slot \in PathSlot /\ now \in ClockValue /\ PicksPathSlot(first, d, now, slot)
    BY <1>2, <2>1
  <2> HIDE DEF d, slot, now, hops
  <2>3. path_update(first, d, "lora", hops, now, ZeroId)
          = [first EXCEPT ![slot] = NewEntry(d, "lora", hops, now, ZeroId)]
    <3>1. first \in PathTable
      BY <1>7
    <3>2. path_update(first, d, "lora", hops, now, ZeroId)
          = [first EXCEPT ![slot] = NewEntry(d, "lora", hops, now, ZeroId)]
      BY <2>2, <3>1, LoopWritesThePickedSlot
    <3> QED BY <3>2
  <2> QED BY <2>3 DEF ae, slot, now, hops
<1> HIDE DEF again
<1>9. /\ again \in PathTable /\ LooksUp(again, d, 1) /\ again[1] = ae
      /\ \A t \in PathSlot : Occupied(again, t) <=> t = 1
  <2>1. /\ again \in PathTable
        /\ again[1] = ae /\ \A t \in PathSlot : t # 1 => again[t] = first[t]
    BY <1>2, <1>5, <1>7, <1>8 DEF PathTable
  <2> QED BY <1>2, <1>5, <1>7, <2>1 DEF LooksUp, Holds, Occupied
<1>10. /\ full \in PathTable /\ ~ Routed(full, e)
       /\ \A t \in PathSlot :
            Occupied(full, t) /\ full[t].dest = dests[t] /\ full[t].last_seen = t - 1
  <2>1. \A t \in PathSlot : t <= PathCapacity
    BY <1>2
  <2> QED BY <1>1, <1>2, <2>1, FilledToHolds
<1> HIDE DEF full
<1>11. PicksPathSlot(full, e, PathCapacity - 1, 1)
  <2>1. ASSUME NEW t \in PathSlot
        PROVE  Age(full, t, PathCapacity - 1) = PathCapacity - t
    <3>1. full[t].last_seen = t - 1 /\ t - 1 <= PathCapacity - 1
          /\ (PathCapacity - 1) - (t - 1) = PathCapacity - t
      BY <1>2, <1>10
    <3> QED BY <3>1 DEF Age
  <2>2. \A t \in PathSlot : Age(full, t, PathCapacity - 1) <= Age(full, 1, PathCapacity - 1)
    BY <1>2, <2>1
  <2> QED BY <1>2, <1>10, <2>2 DEF PicksPathSlot
<1>12. over = [full EXCEPT ![1] = oe]
  <2> DEFINE now == PathCapacity - 1
  <2>1. now \in ClockValue /\ PicksPathSlot(full, e, now, 1) /\ oe = NewEntry(e, "lora", 1, now, None)
    BY <1>2, <1>11 DEF oe
  <2> HIDE DEF e, now
  <2>2. path_update(full, e, "lora", 1, now, None) = [full EXCEPT ![1] = oe]
    BY <1>2, <1>10, <2>1, LoopWritesThePickedSlot
  <2> QED BY <2>2 DEF now
<1> HIDE DEF over
<1>13. /\ over \in PathTable /\ Routed(over, e) /\ ~ Routed(over, d)
       /\ \A t \in PathSlot : Occupied(over, t)
  <2>1. /\ over \in PathTable
        /\ over[1] = oe /\ \A t \in PathSlot : t # 1 => over[t] = full[t]
    BY <1>2, <1>5, <1>10, <1>12 DEF PathTable
  <2>2. \A t \in PathSlot : t # 1 => dests[t] # d
    BY <1>2
  <2>3. \A t \in PathSlot : Occupied(over, t) /\ over[t].dest # d
    <3> HIDE DEF d
    <3> QED BY <1>4, <1>5, <1>10, <2>1, <2>2 DEF Occupied
  <2>4. Holds(over, 1, e)
    BY <1>5, <2>1 DEF Holds, Occupied
  <2> QED BY <1>2, <2>1, <2>3, <2>4 DEF Routed, Holds
<1>14. FullTable(dests) = full
  BY <1>1, FilledFillsTheTable DEF full
<1>15. /\ path_lookup(first, d) = fe /\ path_lookup(again, d) = ae
       /\ path_lookup(over, d) = None /\ path_lookup(over, e) # None
  <2> HIDE DEF d, e
  <2> QED BY <1>2, <1>7, <1>9, <1>13, LookupFinds
<1>16. /\ {idx \in PathSlot : again[idx].valid} = {idx \in PathSlot : first[idx].valid}
       /\ {idx \in PathSlot : over[idx].valid} = PathSlot
  BY <1>7, <1>9, <1>13 DEF Occupied
<1> QED BY <1>5, <1>14, <1>15, <1>16 DEF PathTableWalk, first, again, over

-----------------------------------------------------------------------------
(* Whatever the tables hold, they follow path_table.py, path_response.py,  *)
(* process_announce.py and transport_packet_seen.py.                       *)
LEMMA TablesFollow == TypeOK => TablesFollowContract
<1> SUFFICES ASSUME TypeOK
             PROVE  TablesFollowContract
  OBVIOUS
<1>1. prove_constants /\ prove_status_model /\ prove_finite_model /\ PathTableWalks
  BY LayoutsFollow, StatusesFollow, TheWalkFollows
<1>2. \A p, q \in LoraPackets : SameHash(p, q)
  BY HashesFollow, TransportAssumption
<1>3. ASSUME NEW n \in Node, NEW p \in LoraPackets \cup HostAnnounces, p.type = "announce"
      PROVE  /\ Acceptable(p) <=> AnnounceStatus(n, p) \in {"ACCEPTED", "UPDATED"}
             /\ Acceptable(p) =>
                  /\ AnnounceStatus(n, p) = "UPDATED" <=> Routed(path_table[n], p.dest)
                  /\ UpdateFollows(n, p, "lora")
                  /\ UpdateFollows(n, p, "kiss")
                  /\ p.body.long \/ ResponseFollows(n, p)
  <2>1. p \in Packet
    BY TransportAssumption
  <2>2. Acceptable(p) =>
          /\ UpdateFollows(n, p, "lora")
          /\ UpdateFollows(n, p, "kiss")
          /\ ResponseFollows(n, p)
    BY <2>1, UpdatesFollow, ResponsesFollow
  <2> QED BY <1>3, <2>1, <2>2, StatusFollows
<1>4. ASSUME NEW n \in Node, NEW d \in Dest
      PROVE  /\ \A s \in PathSlot : LooksUp(path_table[n], d, s) =>
                  path_lookup(path_table[n], d) = path_table[n][s]
             /\ path_lookup(path_table[n], d) = None <=> ~ Routed(path_table[n], d)
  BY LookupFinds DEF TypeOK, PathTable
<1> QED BY <1>1, <1>2, <1>3, <1>4 DEF TablesFollowContract

THEOREM TablesFollowTheirModels == HSpec => []TablesFollowContract
BY HSpecIsSpec, TypeCorrect, TablesFollow, PTL

-----------------------------------------------------------------------------
(* The mesh. *)

(* The inductive invariant: what is true of a route, of an announce in the *)
(* air, of an identity and of a cached response                            *)

RoutesTo(n, d, hops, next) ==
  /\ hops >= 1
  /\ hops >= Distance[n][d]
  /\ hops = 1 => n \in InRange[Home[d]]
  /\ hops > 1 => \E m \in Node : n \in InRange[m] /\ next \in {Id[m], ZeroId}

GoodRoute(n, r) == RoutesTo(n, r.dest, r.hops, r.next_hop)

GoodFrame(n, p) ==
  Learnable(p) =>
    /\ p.dest \in Dest
    /\ p.header = 1 => p.hops = 0
    /\ p.header = 2 => p.hops >= 1
    /\ RoutesTo(n, p.dest, p.hops + 1, p.tid)

GoodTables ==
  /\ \A n \in Node, s \in PathSlot :
       Occupied(path_table[n], s) => GoodRoute(n, path_table[n][s])
  /\ \A n \in Node, s \in CacheSlot :
       Occupied(response_cache[n], s) =>
         /\ response_cache[n][s].raw.context = "path_response"
         /\ response_cache[n][s].raw.header = 2
  /\ \A n \in Node : identity_current[n] \in {Id[n], ZeroId}

GoodAir == \A n \in Node : radio[n] # NoFrame => GoodFrame(n, radio[n])

MInv == MeshTypeOK /\ GoodTables /\ GoodAir

(* what node n may transmit: every node in range can take it *)
GoodTransmission(n, q) == \A m \in InRange[n] : GoodFrame(m, q)

-----------------------------------------------------------------------------
(* Types *)

LEMMA PropagatesType ==
  ASSUME NEW r \in [Node -> Packet \cup {NoFrame}], Propagates(r),
         sent' \subseteq Node \X Packet
  PROVE  radio' \in [Node -> Packet \cup {NoFrame}]
BY DEF Propagates

LEMMA MeshTypeStep ==
  ASSUME MeshTypeOK, MNext
  PROVE  MeshTypeOK'
<1>1. PICK n \in Node :
        Poll(n) \/ HostSend(n) \/ Boot(n) \/ Elapse(n) \/ PowerCycle(n)
  BY DEF MNext
<1>2. CASE Poll(n)
  <2>1. radio[n] \in Packet
    BY <1>2 DEF Poll, MeshTypeOK
  <2>2. TypeOK'
    BY <1>2, <2>1, ReceiveType DEF Poll, MeshTypeOK
  <2>3. [radio EXCEPT ![n] = NoFrame] \in [Node -> Packet \cup {NoFrame}]
    BY DEF MeshTypeOK
  <2>4. radio' \in [Node -> Packet \cup {NoFrame}]
    BY <1>2, <2>2, <2>3, PropagatesType DEF Poll, TypeOK
  <2>5. QED
    BY <1>2, <2>2, <2>4 DEF Poll, MeshTypeOK
<1>3. CASE HostSend(n)
  <2>1. PICK p \in HostSends[n] : SendRaw(n, p)
    BY <1>3 DEF HostSend
  <2>2. p \in Packet
    BY MeshAssumption
  <2>3. TypeOK'
    BY <2>1, <2>2, HostType DEF MeshTypeOK
  <2>4. PICK kept \in {radio[n], NoFrame} : Propagates([radio EXCEPT ![n] = kept])
    BY <1>3 DEF HostSend
  <2>5. [radio EXCEPT ![n] = kept] \in [Node -> Packet \cup {NoFrame}]
    BY DEF MeshTypeOK
  <2>6. radio' \in [Node -> Packet \cup {NoFrame}]
    BY <2>3, <2>4, <2>5, PropagatesType DEF TypeOK
  <2>7. QED
    BY <1>3, <2>3, <2>6, MeshAssumption DEF HostSend, MeshTypeOK
<1>4. CASE Boot(n)
  <2>1. TypeOK'
    <3>1. Id[n] \in TransportId
      BY MeshAssumption
    <3>2. QED
      BY <1>4, <3>1, HostType DEF Boot, MeshTypeOK
  <2>2. QED
    BY <1>4, <2>1 DEF Boot, MeshTypeOK
<1>5. CASE Elapse(n)
  <2>1. TypeOK'
    BY <1>5, HostType DEF Elapse, MeshTypeOK
  <2>2. QED
    BY <1>5, <2>1 DEF Elapse, MeshTypeOK
<1>6. CASE PowerCycle(n)
  <2>1. TypeOK'
    BY <1>6, HostType DEF PowerCycle, MeshTypeOK
  <2>2. QED
    BY <1>6, <2>1, MeshAssumption DEF PowerCycle, MeshTypeOK
<1>7. QED
  BY <1>1, <1>2, <1>3, <1>4, <1>5, <1>6

-----------------------------------------------------------------------------
(* What a node transmits is good for every node in range *)

(* A rebroadcast announce is one hop longer and names this node. *)
LEMMA RebroadcastIsGood ==
  ASSUME MeshTypeOK, GoodTables, NEW n \in Node, NEW p \in Packet, Acceptable(p),
         GoodFrame(n, p)
  PROVE  GoodTransmission(n, Rebroadcast(p, identity_current[n]))
<1> DEFINE q == Rebroadcast(p, identity_current[n])
<1>1. /\ p.hops \in Nat
      /\ p.hops + 1 >= Distance[n][p.dest]
      /\ p.dest \in Dest
  BY PacketAssumption DEF Packet, Hop, Acceptable, GoodFrame, Learnable, RoutesTo
<1>2. /\ q.header = 2
      /\ q.hops = p.hops + 1
      /\ q.tid = identity_current[n]
      /\ q.dest = p.dest
  BY DEF Rebroadcast, OneMoreHop, Acceptable, Packet
<1>3. ASSUME NEW m \in InRange[n]
      PROVE  GoodFrame(m, q)
  <2>1. m \in Node
    BY MeshAssumption
  <2>2. /\ Distance[m][p.dest] <= Distance[n][p.dest] + 1
        /\ Distance[m][p.dest] \in Nat
        /\ Distance[n][p.dest] \in Nat
    BY <1>1, <2>1, MeshAssumption
  <2>3. q.hops + 1 > 1 /\ q.hops + 1 >= Distance[m][p.dest]
    BY <1>1, <1>2, <2>2
  <2>4. identity_current[n] \in {Id[n], ZeroId}
    BY DEF GoodTables
  <2> HIDE DEF q
  <2>5. QED
    BY <1>1, <1>2, <1>3, <2>3, <2>4 DEF GoodFrame, RoutesTo
<1>4. QED
  BY <1>3 DEF GoodTransmission

(* Receive transmits only good frames and keeps the tables good. *)
LEMMA ReceiveTransmitsGood ==
  ASSUME MeshTypeOK, GoodTables, NEW n \in Node, NEW p \in Packet, Receive(n, p),
         GoodFrame(n, p)
  PROVE  \A x \in sent' : x[1] = n /\ GoodTransmission(n, x[2])
<1>1. CASE HearAnnounce(n, p)
  BY <1>1, RebroadcastIsGood DEF HearAnnounce, Transmits, Silent
<1>2. CASE AnswerPathRequest(n, p)
  <2>1. PICK c \in CacheSlot :
          /\ LooksUpResponse(response_cache[n], p.body.wants, c)
          /\ Transmits(n, response_cache[n][c].raw)
    BY <1>2 DEF AnswerPathRequest, Answers
  <2>2. response_cache[n][c].raw.context = "path_response"
    BY <2>1 DEF GoodTables, LooksUpResponse, Caches
  <2>3. QED
    BY <2>1, <2>2 DEF Transmits, GoodTransmission, GoodFrame, Learnable
<1>3. CASE ForwardToDestination(n, p)
  <2>1. p.type # "announce" /\ Transmits(n, Stripped(p))
    BY <1>3 DEF ForwardToDestination, ForwardsOver, InTransport
  <2>2. Stripped(p).type = p.type
    BY DEF Stripped, Packet
  <2>3. QED
    BY <2>1, <2>2 DEF Transmits, GoodTransmission, GoodFrame, Learnable
<1>4. CASE ForwardToNextHop(n, p)
  <2>1. PICK s \in PathSlot :
          p.type # "announce" /\ Transmits(n, Relayed(p, path_table[n][s].next_hop))
    BY <1>4 DEF ForwardToNextHop, ForwardsOver, InTransport
  <2>2. Relayed(p, path_table[n][s].next_hop).type = p.type
    BY DEF Relayed, Packet
  <2>3. QED
    BY <2>1, <2>2 DEF Transmits, GoodTransmission, GoodFrame, Learnable
<1>5. CASE DropDuplicate(n, p) \/ OnlyRemembered(n, p)
  BY <1>5 DEF DropDuplicate, OnlyRemembered, Silent
<1>6. QED
  BY <1>1, <1>2, <1>3, <1>4, <1>5
     DEF Receive, RefuseAnnounce, IgnorePathRequest, RefuseForward, DispatchToLink

-----------------------------------------------------------------------------
(* What a node stores is good *)

LEMMA LearnedRouteIsGood ==
  ASSUME NEW n \in Node, NEW p \in Packet, Acceptable(p), GoodFrame(n, p),
         NEW i, NEW now
  PROVE  GoodRoute(n, RouteFrom(p, i, now))
<1>1. /\ p.hops \in Nat
      /\ p.header \in {1, 2}
      /\ p.header = 1 => p.hops = 0
      /\ RoutesTo(n, p.dest, p.hops + 1, p.tid)
  BY PacketAssumption DEF Packet, Hop, Acceptable, GoodFrame, Learnable
<1>2. OneMoreHop(p) = p.hops + 1
  BY DEF OneMoreHop, Acceptable
<1>3. QED
  BY <1>1, <1>2 DEF GoodRoute, RouteFrom, RoutesTo

LEMMA ReceiveKeepsTables ==
  ASSUME MeshTypeOK, GoodTables, NEW n \in Node, NEW p \in Packet, Receive(n, p),
         GoodFrame(n, p)
  PROVE  GoodTables'
<1>1. /\ path_table \in [Node -> [PathSlot -> Route \cup {FreeSlot}]]
      /\ response_cache \in [Node -> [CacheSlot -> Response \cup {FreeSlot}]]
  BY DEF MeshTypeOK, TypeOK
<1>2. CASE HearAnnounce(n, p)
  <2>1. PICK s \in PathSlot :
          path_table' = [path_table EXCEPT ![n][s] = RouteFrom(p, "lora", Now(n))]
    BY <1>2 DEF HearAnnounce, UpdatePath
  <2>2. GoodRoute(n, RouteFrom(p, "lora", Now(n)))
    BY <1>2, LearnedRouteIsGood DEF HearAnnounce
  <2>3. \A m \in Node, t \in PathSlot :
          Occupied(path_table'[m], t) => GoodRoute(m, path_table'[m][t])
    BY <1>1, <2>1, <2>2 DEF GoodTables, Occupied
  <2>4. \A m \in Node, t \in CacheSlot :
          Occupied(response_cache'[m], t) =>
            /\ response_cache'[m][t].raw.context = "path_response"
            /\ response_cache'[m][t].raw.header = 2
    <3>1. CASE UNCHANGED response_cache
      BY <3>1 DEF GoodTables
    <3>2. CASE ~ UNCHANGED response_cache
      <4> DEFINE q == PathResponse(p, identity_current[n])
      <4>1. PICK c \in CacheSlot :
              response_cache' = [response_cache EXCEPT ![n][c] = [valid |-> TRUE, raw |-> q]]
        BY <1>2, <3>2 DEF HearAnnounce, UpdateResponse
      <4>2. q.context = "path_response" /\ q.header = 2
        BY DEF PathResponse, Packet
      <4> HIDE DEF q
      <4>3. QED
        BY <1>1, <4>1, <4>2 DEF GoodTables, Occupied
    <3>3. QED
      BY <3>1, <3>2
  <2>5. QED
    BY <1>2, <2>3, <2>4 DEF GoodTables, HearAnnounce
<1>3. CASE ~ HearAnnounce(n, p)
  BY <1>3 DEF GoodTables, GoodRoute, RoutesTo, Receive, tables, DropDuplicate,
       RefuseAnnounce, AnswerPathRequest, IgnorePathRequest, ForwardToDestination,
       ForwardToNextHop, RefuseForward, DispatchToLink, OnlyRemembered, Occupied
<1>4. QED
  BY <1>2, <1>3

(* Frames that were good, or are sent by a node that transmits only good   *)
(* ones, are good wherever they arrive.                                    *)
LEMMA PropagatesGood ==
  ASSUME NEW r \in [Node -> Packet \cup {NoFrame}], Propagates(r),
         \A m \in Node : r[m] # NoFrame => GoodFrame(m, r[m]),
         NEW n \in Node,
         \A x \in sent' : x[1] = n /\ GoodTransmission(n, x[2])
  PROVE  GoodAir'
<1>1. SUFFICES ASSUME NEW m \in Node, radio'[m] # NoFrame
               PROVE  GoodFrame(m, radio'[m])
  BY DEF GoodAir, GoodFrame, RoutesTo, Learnable
<1>2. CASE radio'[m] = r[m]
  BY <1>1, <1>2
<1>3. CASE \E x \in sent' : m \in InRange[x[1]] /\ radio'[m] = x[2]
  BY <1>3 DEF GoodTransmission
<1>4. radio'[m] = r[m] \/ \E x \in sent' : m \in InRange[x[1]] /\ radio'[m] = x[2]
  BY DEF Propagates
<1>5. QED
  BY <1>2, <1>3, <1>4

(* A host's own announce is good within the range of its node. *)
LEMMA HostFrameIsGood ==
  ASSUME NEW n \in Node, NEW p \in HostSends[n]
  PROVE  GoodTransmission(n, p)
<1>1. SUFFICES ASSUME NEW m \in InRange[n], Learnable(p)
               PROVE  GoodFrame(m, p)
  BY DEF GoodTransmission, GoodFrame
<1>2. p.header = 1 /\ p.hops = 0 /\ p.dest \in Dest /\ Home[p.dest] = n
  BY <1>1, MeshAssumption DEF Learnable
<1>3. m \in Node
  BY MeshAssumption
<1>4. Distance[n][p.dest] = 0
  BY <1>2, MeshAssumption
<1>5. Distance[m][p.dest] <= 1 /\ Distance[m][p.dest] \in Nat
  BY <1>2, <1>3, <1>4, MeshAssumption
<1>6. QED
  BY <1>1, <1>2, <1>5 DEF GoodFrame, RoutesTo

LEMMA MInvStep ==
  ASSUME MInv, [MNext]_mvars
  PROVE  MInv'
<1>1. CASE UNCHANGED mvars
  BY <1>1 DEF mvars, vars, MInv, MeshTypeOK, TypeOK, GoodTables, GoodAir, GoodRoute,
              GoodFrame, RoutesTo, Learnable, Occupied
<1>2. ASSUME MNext PROVE MInv'
  <2>1. MeshTypeOK'
    BY <1>2, MeshTypeStep DEF MInv
  <2>2. PICK n \in Node :
          Poll(n) \/ HostSend(n) \/ Boot(n) \/ Elapse(n) \/ PowerCycle(n)
    BY <1>2 DEF MNext
  <2>3. radio \in [Node -> Packet \cup {NoFrame}]
    BY DEF MInv, MeshTypeOK
  <2>4. CASE Poll(n)
    <3>1. radio[n] \in Packet /\ GoodFrame(n, radio[n]) /\ Receive(n, radio[n])
      BY <2>3, <2>4 DEF Poll, MInv, GoodAir
    <3>2. GoodTables'
      BY <3>1, ReceiveKeepsTables DEF MInv
    <3>3. \A x \in sent' : x[1] = n /\ GoodTransmission(n, x[2])
      BY <3>1, ReceiveTransmitsGood DEF MInv
    <3> DEFINE r == [radio EXCEPT ![n] = NoFrame]
    <3>4. /\ Propagates(r)
          /\ r \in [Node -> Packet \cup {NoFrame}]
          /\ \A m \in Node : r[m] # NoFrame => GoodFrame(m, r[m])
      BY <2>3, <2>4 DEF Poll, MInv, GoodAir
    <3> HIDE DEF r
    <3>5. GoodAir'
      BY <3>3, <3>4, PropagatesGood
    <3>6. QED
      BY <2>1, <3>2, <3>5 DEF MInv
  <2>5. CASE HostSend(n)
    <3>1. PICK p \in HostSends[n] : SendRaw(n, p)
      BY <2>5 DEF HostSend
    <3>2. PICK kept \in {radio[n], NoFrame} : Propagates([radio EXCEPT ![n] = kept])
      BY <2>5 DEF HostSend
    <3>3. GoodTables'
      BY <3>1 DEF SendRaw, tables, MInv, GoodTables, GoodRoute, RoutesTo, Occupied
    <3>4. \A x \in sent' : x[1] = n /\ GoodTransmission(n, x[2])
      BY <3>1, HostFrameIsGood DEF SendRaw, Transmits
    <3> DEFINE r == [radio EXCEPT ![n] = kept]
    <3>5. /\ r \in [Node -> Packet \cup {NoFrame}]
          /\ \A m \in Node : r[m] # NoFrame => GoodFrame(m, r[m])
      BY <2>3 DEF MInv, GoodAir
    <3>6. Propagates(r)
      BY <3>2
    <3> HIDE DEF r
    <3>7. GoodAir'
      BY <3>4, <3>5, <3>6, PropagatesGood
    <3>8. QED
      BY <2>1, <3>3, <3>7 DEF MInv
  <2>6. CASE Boot(n)
    <3>1. GoodAir'
      BY <2>6 DEF Boot, MInv, GoodAir, GoodFrame, RoutesTo, Learnable
    <3>2. GoodTables'
      BY <2>6 DEF Boot, TakeIdentity, tables, MInv, MeshTypeOK, TypeOK, GoodTables,
                  GoodRoute, RoutesTo, Occupied
    <3>3. QED
      BY <2>1, <3>1, <3>2 DEF MInv
  <2>7. CASE Elapse(n)
    <3>1. GoodAir' /\ GoodTables'
      BY <2>7 DEF Elapse, Tick, tables, MInv, GoodTables, GoodAir, GoodRoute,
                  GoodFrame, RoutesTo, Learnable, Occupied
    <3>2. QED
      BY <2>1, <3>1 DEF MInv
  <2>8. CASE PowerCycle(n)
    <3>1. GoodAir'
      BY <2>3, <2>8 DEF PowerCycle, MInv, GoodAir, GoodFrame, RoutesTo, Learnable
    <3>2. GoodTables'
      BY <2>8 DEF PowerCycle, Reset, MInv, MeshTypeOK, TypeOK, GoodTables, GoodRoute,
                  RoutesTo, Occupied, EmptyPathTable, EmptyCache, FreeSlot
    <3>3. QED
      BY <2>1, <3>1, <3>2 DEF MInv
  <2>9. QED
    BY <2>2, <2>4, <2>5, <2>6, <2>7, <2>8
<1>3. QED
  BY <1>1, <1>2

LEMMA MInvAlways == MSpec => []MInv
<1>1. MInit => MInv
  <2> SUFFICES ASSUME MInit PROVE MInv
    OBVIOUS
  <2>1. MeshTypeOK
    BY InitType, MeshAssumption DEF MInit, MeshTypeOK
  <2>2. GoodTables /\ GoodAir
    BY DEF MInit, Init, GoodTables, GoodAir, EmptyPathTable, EmptyCache, Occupied,
           FreeSlot
  <2>3. QED
    BY <2>1, <2>2 DEF MInv
<1>2. MInv /\ [MNext]_mvars => MInv'
  BY MInvStep
<1>3. QED
  BY <1>1, <1>2, PTL DEF MSpec

-----------------------------------------------------------------------------
(* No node ever believes a destination nearer than it is, in a mesh of any *)
(* size with any loss, delay, resets and sizes of tables and rings.        *)
THEOREM HopCountsNeverTooSmall == MSpec => []NeverNearerThanTruth
<1>1. MInv => NeverNearerThanTruth
  BY DEF MInv, GoodTables, GoodAir, GoodRoute, GoodFrame, RoutesTo, NeverNearerThanTruth
<1>2. QED
  BY <1>1, MInvAlways, PTL

(* The next hop a node forwards to is the identity of a node it hears, or  *)
(* the identity such a node had before it loaded its own.                  *)
THEOREM NextHopsInRange == MSpec => []NextHopIsInRange
<1>1. MInv => NextHopIsInRange
  BY DEF MInv, GoodTables, GoodRoute, RoutesTo, NextHopIsInRange
<1>2. QED
  BY <1>1, MInvAlways, PTL

(* A transport header is removed only within range of the destination.     *)
THEOREM LastHopIsBesideDestination == MSpec => StripsOnlyBesideDestination
<1>1. MInv /\ [MNext]_mvars => [StripsBeside]_mvars
  <2>1. SUFFICES ASSUME MInv, MNext, NEW x \in sent',
                        x[2].header = 1, packet_ring'[x[1]] # packet_ring[x[1]]
                 PROVE  x[1] \in InRange[Home[x[2].dest]]
    BY DEF StripsBeside
  <2>2. PICK n \in Node : Poll(n)
    BY <2>1 DEF MNext, HostSend, Boot, Elapse, PowerCycle, SendRaw, TakeIdentity,
                Tick, Reset, Silent, tables
  <2> DEFINE p == radio[n]
  <2>3. p \in Packet /\ Receive(n, p)
    BY <2>1, <2>2 DEF Poll, MInv, MeshTypeOK
  <2>4. CASE ForwardToDestination(n, p)
    <3>1. PICK s \in PathSlot :
            /\ Holds(path_table[n], s, p.dest)
            /\ path_table[n][s].hops = 1
            /\ sent' \in {{<<n, Stripped(p)>>}, {}}
      BY <2>4 DEF ForwardToDestination, ForwardsOver, LooksUp, Transmits
    <3>2. n \in InRange[Home[p.dest]]
      BY <2>1, <3>1 DEF MInv, GoodTables, GoodRoute, RoutesTo, Holds
    <3>3. Stripped(p).dest = p.dest
      BY <2>3 DEF Stripped, Packet
    <3>4. QED
      BY <2>1, <3>1, <3>2, <3>3
  <2>5. CASE HearAnnounce(n, p)
    <3>1. Rebroadcast(p, identity_current[n]).header = 2
      BY <2>3 DEF Rebroadcast, Packet
    <3>2. QED
      BY <2>1, <2>5, <3>1 DEF HearAnnounce, Transmits, Silent
  <2>6. CASE AnswerPathRequest(n, p)
    <3>1. \A m \in Node, s \in CacheSlot :
            Occupied(response_cache[m], s) => response_cache[m][s].raw.header = 2
      BY <2>1 DEF MInv, GoodTables
    <3>2. QED
      BY <2>1, <2>6, <3>1
         DEF AnswerPathRequest, Answers, LooksUpResponse, Caches, Transmits
  <2>7. CASE ForwardToNextHop(n, p)
    <3>1. PICK s \in PathSlot :
            p.header = 2 /\ Transmits(n, Relayed(p, path_table[n][s].next_hop))
      BY <2>7 DEF ForwardToNextHop, ForwardsOver, InTransport
    <3>2. Relayed(p, path_table[n][s].next_hop).header = 2
      BY <2>3, <3>1 DEF Relayed, Packet
    <3>3. QED
      BY <2>1, <3>1, <3>2 DEF Transmits
  <2>8. CASE DropDuplicate(n, p) \/ OnlyRemembered(n, p)
    BY <2>1, <2>8 DEF DropDuplicate, OnlyRemembered, Silent
  <2>9. QED
    BY <2>3, <2>4, <2>5, <2>6, <2>7, <2>8
       DEF Receive, RefuseAnnounce, IgnorePathRequest, RefuseForward, DispatchToLink
<1>2. QED
  BY <1>1, MInvAlways, PTL DEF MSpec, StripsOnlyBesideDestination

-----------------------------------------------------------------------------
(* Packets that go round.  A ring that has room for every packet of the    *)
(* air forgets none, so the nodes that know a packet only become more, and *)
(* every node that passes it on is a new one.                              *)

Contents(ring) == {ring.hashes[i] : i \in 0 .. ring.count - 1}

(* every slot in use holds another packet of the air *)
ForgetsNothing(ring) ==
  /\ RingShape(ring)
  /\ Contents(ring) \subseteq AirTraffic
  /\ Cardinality(Contents(ring)) = ring.count

Knowers(rings, k) == {n \in Node : InRing(rings[n], k)}

(* an announce that nobody passes on *)
IsResponse(p) == p.type = "announce" /\ p.context = "path_response"

(* a packet has been to no more nodes than know it *)
Counted(rings, p) ==
  /\ Hashable(p) \in AirTraffic
  /\ IF IsResponse(p) THEN p.hops <= Cardinality(Node)
     ELSE p.hops <= Cardinality(Knowers(rings, Hashable(p)))

CountedResponse(p) ==
  /\ IsResponse(p)
  /\ Hashable(p) \in ResponseTraffic
  /\ p.hops <= Cardinality(Node)

QInv ==
  /\ MeshTypeOK
  /\ resets = 0
  /\ \A n \in Node : ForgetsNothing(packet_ring[n])
  /\ \A n \in Node : radio[n] # NoFrame => Counted(packet_ring, radio[n])
  /\ \A n \in Node, s \in CacheSlot :
       Occupied(response_cache[n], s) => CountedResponse(response_cache[n][s].raw)

LEMMA ScansTheContents ==
  ASSUME NEW ring, NEW k
  PROVE  InRing(ring, k) <=> k \in Contents(ring)
BY DEF InRing, Contents

LEMMA ContentsOfStored ==
  ASSUME NEW ring \in Ring, NEW k \in PacketKey, RingShape(ring), ring.count < RingCapacity
  PROVE  /\ Contents(Stored(ring, k)) = Contents(ring) \cup {k}
         /\ Stored(ring, k).count = ring.count + 1
<1> DEFINE new == Stored(ring, k)
           c == ring.count
<1>1. /\ ring.next = c /\ c \in 0 .. RingCapacity - 1
      /\ ring.hashes \in [0 .. RingCapacity - 1 -> PacketKey \cup {NoKey}]
  BY TableAssumption DEF RingShape, Ring, RingIndex
<1>2. new.count = c + 1 /\ new.hashes = [ring.hashes EXCEPT ![c] = k]
  BY <1>1 DEF Stored
<1>3. \A i \in 0 .. c - 1 : new.hashes[i] = ring.hashes[i]
  BY <1>1, <1>2
<1>4. new.hashes[c] = k
  BY <1>1, <1>2
<1>5. 0 .. (c + 1) - 1 = (0 .. c - 1) \cup {c}
  BY <1>1, TableAssumption
<1> HIDE DEF new, c
<1>6. Contents(new) = {new.hashes[i] : i \in (0 .. c - 1) \cup {c}}
  BY <1>2, <1>5 DEF Contents
<1>7. Contents(ring) = {ring.hashes[i] : i \in 0 .. c - 1}
  BY DEF Contents, c
<1>8. Contents(new) = Contents(ring) \cup {k}
  BY <1>3, <1>4, <1>6, <1>7
<1>9. QED
  BY <1>2, <1>8 DEF new, c

(* A ring with room for the traffic keeps what it holds. *)
LEMMA StoringForgetsNothing ==
  ASSUME RingsHoldTheTraffic, NEW ring \in Ring, ForgetsNothing(ring),
         NEW k \in PacketKey, k \in AirTraffic, ~ InRing(ring, k)
  PROVE  /\ ForgetsNothing(Stored(ring, k))
         /\ Contents(Stored(ring, k)) = Contents(ring) \cup {k}
<1>1. /\ IsFiniteSet(AirTraffic) /\ Cardinality(AirTraffic) <= RingCapacity
      /\ RingCapacity \in Nat
  BY TableAssumption DEF RingsHoldTheTraffic
<1>2. Contents(ring) \cup {k} \subseteq AirTraffic /\ k \notin Contents(ring)
  BY ScansTheContents DEF ForgetsNothing
<1>3. IsFiniteSet(Contents(ring)) /\ IsFiniteSet(Contents(ring) \cup {k})
  BY <1>1, <1>2, FS_Subset
<1>4. Cardinality(Contents(ring) \cup {k}) = Cardinality(Contents(ring)) + 1
  BY <1>2, <1>3, FS_AddElement
<1>5. Cardinality(Contents(ring) \cup {k}) <= Cardinality(AirTraffic)
  BY <1>1, <1>2, FS_Subset
<1>6. Cardinality(AirTraffic) \in Nat /\ ring.count \in Nat
  BY <1>1, FS_CardinalityType, TableAssumption DEF Ring
<1>7. ring.count < RingCapacity
  BY <1>1, <1>4, <1>5, <1>6 DEF ForgetsNothing
<1>8. /\ Contents(Stored(ring, k)) = Contents(ring) \cup {k}
      /\ Stored(ring, k).count = ring.count + 1
  BY <1>7, ContentsOfStored DEF ForgetsNothing
<1>9. RingShape(Stored(ring, k))
  BY StoredShape DEF ForgetsNothing
<1>10. QED
  BY <1>2, <1>4, <1>8, <1>9 DEF ForgetsNothing

LEMMA MoreKnowersCountMore ==
  ASSUME IsFiniteSet(Node), NEW old, NEW new, NEW k,
         Knowers(old, k) \subseteq Knowers(new, k)
  PROVE  /\ Cardinality(Knowers(old, k)) \in Nat
         /\ Cardinality(Knowers(new, k)) \in Nat
         /\ Cardinality(Knowers(old, k)) <= Cardinality(Knowers(new, k))
         /\ Cardinality(Knowers(new, k)) <= Cardinality(Node)
<1>1. Knowers(old, k) \subseteq Node /\ Knowers(new, k) \subseteq Node
  BY DEF Knowers
<1>2. IsFiniteSet(Knowers(old, k)) /\ IsFiniteSet(Knowers(new, k))
  BY <1>1, FS_Subset
<1>3. QED
  BY <1>1, <1>2, FS_Subset, FS_CardinalityType

(* what counted packets become when rings only learn *)
Learned(old, new) == \A k : Knowers(old, k) \subseteq Knowers(new, k)

LEMMA StillCounted ==
  ASSUME RingsHoldTheTraffic, NEW old, NEW new, Learned(old, new),
         NEW p \in Packet, Counted(old, p)
  PROVE  Counted(new, p)
<1>1. p.hops \in Nat
  BY PacketAssumption DEF Packet, Hop
<1>2. IsFiniteSet(Node)
  BY DEF RingsHoldTheTraffic
<1>3. CASE IsResponse(p)
  BY <1>3 DEF Counted
<1>4. CASE ~IsResponse(p)
  <2>1. Knowers(old, Hashable(p)) \subseteq Knowers(new, Hashable(p))
    BY DEF Learned
  <2>2. QED
    BY <1>1, <1>2, <1>4, <2>1, MoreKnowersCountMore DEF Counted
<1>5. QED
  BY <1>3, <1>4

(* Seeing a packet for the first time *)
LEMMA FirstSightLearns ==
  ASSUME QInv, RingsHoldTheTraffic, NEW n \in Node, NEW p \in Packet,
         Counted(packet_ring, p), FirstSight(n, p)
  PROVE  /\ \A m \in Node : ForgetsNothing(packet_ring'[m])
         /\ Learned(packet_ring, packet_ring')
         /\ ~IsResponse(p) => p.hops + 1 <= Cardinality(Knowers(packet_ring', Hashable(p)))
<1> DEFINE k == Hashable(p)
<1>1. k \in PacketKey /\ k \in AirTraffic
  BY HashableType DEF Counted
<1>2. packet_ring \in [Node -> Ring]
  BY DEF QInv, MeshTypeOK, TypeOK
<1>3. /\ ~ InRing(packet_ring[n], k)
      /\ packet_ring' = [packet_ring EXCEPT ![n] = Stored(packet_ring[n], k)]
  BY DEF FirstSight, Fresh
<1> HIDE DEF k
<1>4. /\ ForgetsNothing(Stored(packet_ring[n], k))
      /\ Contents(Stored(packet_ring[n], k)) = Contents(packet_ring[n]) \cup {k}
  BY <1>1, <1>2, <1>3, StoringForgetsNothing DEF QInv
<1>5. /\ packet_ring'[n] = Stored(packet_ring[n], k)
      /\ \A m \in Node \ {n} : packet_ring'[m] = packet_ring[m]
  BY <1>2, <1>3
<1>6. \A m \in Node : ForgetsNothing(packet_ring'[m])
  BY <1>4, <1>5 DEF QInv
<1>7. \A j : \A m \in Node : InRing(packet_ring[m], j) => InRing(packet_ring'[m], j)
  BY <1>4, <1>5, ScansTheContents
<1>8. Learned(packet_ring, packet_ring')
  BY <1>7 DEF Learned, Knowers
<1>9. n \in Knowers(packet_ring', k) /\ n \notin Knowers(packet_ring, k)
  <2>1. InRing(packet_ring'[n], k)
    BY <1>4, <1>5, ScansTheContents
  <2>2. QED
    BY <1>3, <2>1 DEF Knowers
<1>10. ASSUME ~IsResponse(p)
       PROVE  p.hops + 1 <= Cardinality(Knowers(packet_ring', k))
  <2> DEFINE old == Knowers(packet_ring, k)
             new == Knowers(packet_ring', k)
  <2>1. IsFiniteSet(old) /\ IsFiniteSet(new)
    <3>1. old \subseteq Node /\ new \subseteq Node
      BY DEF Knowers
    <3>2. QED
      BY <3>1, FS_Subset DEF RingsHoldTheTraffic
  <2>2. old \cup {n} \subseteq new /\ n \notin old
    BY <1>8, <1>9 DEF Learned
  <2>3. p.hops <= Cardinality(old) /\ p.hops \in Nat
    BY <1>10, PacketAssumption DEF Counted, Packet, Hop, k
  <2> HIDE DEF old, new
  <2>4. Cardinality(old \cup {n}) = Cardinality(old) + 1
    BY <2>1, <2>2, FS_AddElement
  <2>5. Cardinality(old \cup {n}) <= Cardinality(new)
    BY <2>1, <2>2, FS_Subset
  <2>6. Cardinality(old) \in Nat /\ Cardinality(new) \in Nat
    BY <2>1, FS_CardinalityType
  <2>7. p.hops + 1 <= Cardinality(new)
    BY <2>3, <2>4, <2>5, <2>6
  <2>8. QED
    BY <2>7 DEF new
<1>11. QED
  BY <1>6, <1>8, <1>10 DEF k

(* The hop count that a node writes is at most one more. *)
LEMMA PassedOn ==
  ASSUME NEW p \in Packet, NEW id \in HopHash \cup {Nobody}
  PROVE  /\ OneMoreHop(p) \in Nat /\ OneMoreHop(p) <= p.hops + 1
         /\ \A q \in {Rebroadcast(p, id), Relayed(p, id), Stripped(p)} :
              q.hops = OneMoreHop(p) /\ Hashable(q) = Hashable(p)
                /\ IsResponse(q) = IsResponse(p)
         /\ PathResponse(p, id).hops = OneMoreHop(p)
         /\ Hashable(PathResponse(p, id))
              = [Hashable(p) EXCEPT !.context = "path_response"]
         /\ PathResponse(p, id).type = p.type
         /\ PathResponse(p, id).context = "path_response"
<1>1. p.hops \in Nat
  BY PacketAssumption DEF Packet, Hop
<1>2. OneMoreHop(p) \in Nat /\ OneMoreHop(p) <= p.hops + 1
  BY <1>1 DEF OneMoreHop
<1>3. \A q \in {Rebroadcast(p, id), Relayed(p, id), Stripped(p)} :
        q.hops = OneMoreHop(p) /\ Hashable(q) = Hashable(p)
          /\ q.type = p.type /\ q.context = p.context
  BY DEF Rebroadcast, Relayed, Stripped, Hashable, Packet
<1>4. /\ PathResponse(p, id).hops = OneMoreHop(p)
      /\ Hashable(PathResponse(p, id))
           = [Hashable(p) EXCEPT !.context = "path_response"]
      /\ PathResponse(p, id).type = p.type
      /\ PathResponse(p, id).context = "path_response"
  BY DEF PathResponse, Hashable, Packet
<1>5. \A q : q.type = p.type /\ q.context = p.context => IsResponse(q) = IsResponse(p)
  BY DEF IsResponse
<1>6. QED
  BY <1>2, <1>3, <1>4, <1>5

LEMMA PassedOnIsCounted ==
  ASSUME NEW rings, NEW p \in Packet, Counted(packet_ring, p), ~IsResponse(p),
         p.hops + 1 <= Cardinality(Knowers(rings, Hashable(p))),
         Cardinality(Knowers(rings, Hashable(p))) \in Nat,
         NEW id \in HopHash \cup {Nobody},
         NEW q \in {Rebroadcast(p, id), Relayed(p, id), Stripped(p)}
  PROVE  Counted(rings, q)
<1>1. p.hops \in Nat
  BY PacketAssumption DEF Packet, Hop
<1>2. /\ q.hops = OneMoreHop(p) /\ Hashable(q) = Hashable(p)
      /\ ~IsResponse(q)
      /\ OneMoreHop(p) \in Nat /\ OneMoreHop(p) <= p.hops + 1
  BY PassedOn
<1>3. q.hops <= Cardinality(Knowers(rings, Hashable(q)))
  BY <1>1, <1>2
<1>4. QED
  BY <1>2, <1>3 DEF Counted

(* What a node does with a packet leaves all of this true, and so does     *)
(* what it transmits.                                                      *)
LEMMA ReceiveCounts ==
  ASSUME QInv, RingsHoldTheTraffic, NEW n \in Node, NEW p \in Packet,
         Counted(packet_ring, p), Receive(n, p)
  PROVE  /\ \A m \in Node : ForgetsNothing(packet_ring'[m])
         /\ Learned(packet_ring, packet_ring')
         /\ \A m \in Node, s \in CacheSlot :
              Occupied(response_cache'[m], s)
                => CountedResponse(response_cache'[m][s].raw)
         /\ \A x \in sent' : Counted(packet_ring', x[2])
<1> DEFINE k == Hashable(p)
           RingsKept == /\ \A m \in Node : ForgetsNothing(packet_ring'[m])
                        /\ Learned(packet_ring, packet_ring')
           CacheKept == \A m \in Node, s \in CacheSlot :
                          Occupied(response_cache'[m], s)
                            => CountedResponse(response_cache'[m][s].raw)
           AirCounted == \A x \in sent' : Counted(packet_ring', x[2])
<1>1. p.hops \in Nat /\ k \in AirTraffic /\ IsFiniteSet(Node)
  BY PacketAssumption DEF Packet, Hop, Counted, RingsHoldTheTraffic
<1>2. Cardinality(Knowers(packet_ring', k)) \in Nat
      /\ Cardinality(Knowers(packet_ring', k)) <= Cardinality(Node)
      /\ Cardinality(Node) \in Nat
  <2>1. Knowers(packet_ring', k) \subseteq Node
    BY DEF Knowers
  <2>2. QED
    BY <1>1, <2>1, FS_Subset, FS_CardinalityType
<1>3. FirstSight(n, p) => RingsKept
  BY FirstSightLearns
<1>4. FirstSight(n, p) /\ ~IsResponse(p)
        => p.hops + 1 <= Cardinality(Knowers(packet_ring', k))
  BY FirstSightLearns
<1>5. UNCHANGED tables => CacheKept
  BY DEF tables, QInv
<1>6. FirstSight(n, p) /\ ~IsResponse(p)
        => \A id \in HopHash \cup {Nobody} :
             \A q \in {Rebroadcast(p, id), Relayed(p, id), Stripped(p)} :
               Counted(packet_ring', q)
  BY <1>2, <1>4, PassedOnIsCounted
<1>7. identity_current[n] \in HopHash \cup {Nobody}
  BY DEF QInv, MeshTypeOK, TypeOK, HopHash
<1>8. CASE DropDuplicate(n, p)
  <2>1. RingsKept
    BY <1>8 DEF DropDuplicate, QInv, Learned
  <2>2. QED
    BY <1>5, <1>8, <2>1 DEF DropDuplicate, Silent
<1>9. CASE OnlyRemembered(n, p)
  BY <1>3, <1>5, <1>9 DEF OnlyRemembered, Silent
<1>10. CASE HearAnnounce(n, p)
  <2>1. /\ FirstSight(n, p) /\ ~IsResponse(p)
        /\ p.type = "announce" /\ p.context = "none"
    BY <1>10 DEF HearAnnounce, Acceptable, IsResponse
  <2>2. AirCounted
    BY <1>6, <1>7, <1>10, <2>1 DEF HearAnnounce, Transmits, Silent
  <2>3. CacheKept
    <3>1. CASE UNCHANGED response_cache
      BY <3>1 DEF QInv
    <3>2. CASE ~ UNCHANGED response_cache
      <4> DEFINE raw == PathResponse(p, identity_current[n])
      <4>1. PICK c \in CacheSlot :
              response_cache' = [response_cache EXCEPT ![n][c] = [valid |-> TRUE, raw |-> raw]]
        BY <1>10, <3>2 DEF HearAnnounce, UpdateResponse
      <4>2. /\ raw.type = "announce" /\ raw.context = "path_response"
            /\ raw.hops \in Nat /\ raw.hops <= p.hops + 1
            /\ Hashable(raw) = [k EXCEPT !.context = "path_response"]
        BY <1>7, <2>1, PassedOn
      <4>3. k \in HostTraffic /\ k.type = "announce"
        BY <1>1, <2>1 DEF AirTraffic, ResponseTraffic, Hashable
      <4>4. Hashable(raw) \in ResponseTraffic
        BY <4>2, <4>3 DEF ResponseTraffic
      <4>5. raw.hops <= Cardinality(Node)
        BY <1>1, <1>2, <1>4, <2>1, <4>2
      <4>6. CountedResponse(raw)
        BY <4>2, <4>4, <4>5 DEF CountedResponse, IsResponse
      <4> HIDE DEF raw
      <4>7. response_cache \in [Node -> [CacheSlot -> Response \cup {FreeSlot}]]
        BY DEF QInv, MeshTypeOK, TypeOK
      <4>8. QED
        BY <4>1, <4>6, <4>7 DEF QInv, Occupied
    <3>3. QED
      BY <3>1, <3>2
  <2>4. QED
    BY <1>3, <2>1, <2>2, <2>3
<1>11. CASE AnswerPathRequest(n, p)
  <2>1. PICK c \in CacheSlot :
          /\ Occupied(response_cache[n], c)
          /\ Transmits(n, response_cache[n][c].raw)
    BY <1>11 DEF AnswerPathRequest, Answers, LooksUpResponse, Caches
  <2> DEFINE raw == response_cache[n][c].raw
  <2>2. CountedResponse(raw)
    BY <2>1 DEF QInv
  <2>3. PathsAreAskedFor
    <3>1. p.type = "data" /\ p.context = "none" /\ p.dest = PathRequestDest
      BY <1>11 DEF AnswerPathRequest, PathRequest
    <3>2. k.type = "data" /\ k.context = "none" /\ k.dest = PathRequestDest
      BY <3>1 DEF Hashable
    <3> HIDE DEF k
    <3>3. k \in HostTraffic
      <4>1. \A j \in HostTraffic : j = [type |-> j.type, dest |-> j.dest,
                                        context |-> j.context, body |-> j.body]
        BY DEF HostTraffic, Hashable
      <4>2. \A j \in ResponseTraffic : j.type = "announce"
        BY <4>1 DEF ResponseTraffic
      <4>3. QED
        BY <1>1, <3>2, <4>2 DEF AirTraffic
    <3>4. QED
      BY <3>2, <3>3 DEF PathsAreAskedFor
  <2>4. Counted(packet_ring', raw)
    BY <2>2, <2>3 DEF Counted, CountedResponse, AirTraffic
  <2>5. AirCounted
    BY <2>1, <2>4 DEF Transmits
  <2>6. QED
    BY <1>3, <1>5, <1>11, <2>5 DEF AnswerPathRequest
<1>12. CASE ForwardToDestination(n, p)
  <2>1. /\ FirstSight(n, p) /\ ~IsResponse(p) /\ UNCHANGED tables
        /\ Transmits(n, Stripped(p))
    BY <1>12 DEF ForwardToDestination, ForwardsOver, InTransport, IsResponse
  <2>2. AirCounted
    BY <1>6, <1>7, <2>1 DEF Transmits
  <2>3. QED
    BY <1>3, <1>5, <2>1, <2>2
<1>13. CASE ForwardToNextHop(n, p)
  <2>1. PICK s \in PathSlot :
          /\ FirstSight(n, p) /\ ~IsResponse(p) /\ UNCHANGED tables
          /\ Occupied(path_table[n], s)
          /\ Transmits(n, Relayed(p, path_table[n][s].next_hop))
    BY <1>13 DEF ForwardToNextHop, ForwardsOver, InTransport, IsResponse, LooksUp, Holds
  <2>2. path_table[n][s].next_hop \in HopHash \cup {Nobody}
    BY <2>1, OccupiedSlots DEF QInv, MeshTypeOK, Route
  <2>3. AirCounted
    BY <1>6, <2>1, <2>2 DEF Transmits
  <2>4. QED
    BY <1>3, <1>5, <2>1, <2>3
<1>14. QED
  BY <1>8, <1>9, <1>10, <1>11, <1>12, <1>13
     DEF Receive, RefuseAnnounce, IgnorePathRequest, RefuseForward, DispatchToLink

(* Whatever is received, lost or overwritten *)
LEMMA PropagatesCounts ==
  ASSUME RingsHoldTheTraffic, NEW old, NEW new, Learned(old, new),
         NEW r \in [Node -> Packet \cup {NoFrame}], Propagates(r),
         \A m \in Node : r[m] # NoFrame => Counted(old, r[m]),
         \A x \in sent' : Counted(new, x[2])
  PROVE  \A m \in Node : radio'[m] # NoFrame => Counted(new, radio'[m])
<1> SUFFICES ASSUME NEW m \in Node, radio'[m] # NoFrame
             PROVE  Counted(new, radio'[m])
  OBVIOUS
<1>1. CASE radio'[m] = r[m]
  BY <1>1, StillCounted
<1>2. CASE \E x \in sent' : radio'[m] = x[2]
  BY <1>2
<1>3. radio'[m] = r[m] \/ \E x \in sent' : radio'[m] = x[2]
  BY DEF Propagates
<1>4. QED
  BY <1>1, <1>2, <1>3

LEMMA QInvStep ==
  ASSUME RingsHoldTheTraffic, QInv, [MNext]_mvars
  PROVE  QInv'
<1>1. CASE UNCHANGED mvars
  <2>1. MeshTypeOK' /\ resets' = 0
    BY <1>1 DEF mvars, vars, tables, QInv, MeshTypeOK, TypeOK
  <2>2. UNCHANGED <<packet_ring, response_cache, radio>>
    BY <1>1 DEF mvars, vars, tables
  <2>3. (\A m \in Node : ForgetsNothing(packet_ring[m]))'
    BY <2>2 DEF QInv, ForgetsNothing, RingShape, Contents
  <2>4. (\A m \in Node : radio[m] # NoFrame => Counted(packet_ring, radio[m]))'
    BY <2>2 DEF QInv, Counted, Knowers, InRing
  <2>5. (\A m \in Node, s \in CacheSlot :
           Occupied(response_cache[m], s) => CountedResponse(response_cache[m][s].raw))'
    BY <2>2 DEF QInv, CountedResponse, Occupied
  <2>6. QED
    BY <2>1, <2>3, <2>4, <2>5 DEF QInv
<1>2. ASSUME NEW n \in Node, Poll(n), MeshTypeOK'
      PROVE  QInv'
  <2>1. radio \in [Node -> Packet \cup {NoFrame}]
    BY DEF QInv, MeshTypeOK
  <2>2. radio[n] \in Packet /\ Counted(packet_ring, radio[n]) /\ Receive(n, radio[n])
    BY <1>2, <2>1 DEF Poll, QInv
  <2>3. /\ \A m \in Node : ForgetsNothing(packet_ring'[m])
        /\ Learned(packet_ring, packet_ring')
        /\ \A m \in Node, s \in CacheSlot :
             Occupied(response_cache'[m], s)
               => CountedResponse(response_cache'[m][s].raw)
        /\ \A x \in sent' : Counted(packet_ring', x[2])
    BY <2>2, ReceiveCounts
  <2> DEFINE r == [radio EXCEPT ![n] = NoFrame]
  <2>4. /\ r \in [Node -> Packet \cup {NoFrame}]
        /\ Propagates(r)
        /\ \A m \in Node : r[m] # NoFrame => Counted(packet_ring, r[m])
    BY <1>2, <2>1 DEF Poll, QInv
  <2> HIDE DEF r
  <2>5. \A m \in Node : radio'[m] # NoFrame => Counted(packet_ring', radio'[m])
    BY <2>3, <2>4, PropagatesCounts
  <2>6. resets' = 0
    BY <1>2 DEF Poll, QInv
  <2>7. QED
    <3>1. (\A m \in Node : ForgetsNothing(packet_ring[m]))'
      BY <2>3 DEF ForgetsNothing, RingShape, Contents
    <3>2. (\A m \in Node : radio[m] # NoFrame => Counted(packet_ring, radio[m]))'
      BY <2>5 DEF Counted, Knowers, InRing
    <3>3. (\A m \in Node, s \in CacheSlot :
             Occupied(response_cache[m], s) => CountedResponse(response_cache[m][s].raw))'
      BY <2>3 DEF CountedResponse, Occupied
    <3>4. QED
      BY <1>2, <2>6, <3>1, <3>2, <3>3 DEF QInv
<1>3. ASSUME NEW n \in Node, HostSend(n), MeshTypeOK'
      PROVE  QInv'
  <2>1. radio \in [Node -> Packet \cup {NoFrame}]
    BY DEF QInv, MeshTypeOK
  <2>2. PICK p \in HostSends[n] : SendRaw(n, p)
    BY <1>3 DEF HostSend
  <2>3. UNCHANGED <<packet_ring, response_cache, resets>>
    BY <1>3, <2>2 DEF SendRaw, tables, HostSend
  <2>4. PICK kept \in {radio[n], NoFrame} : Propagates([radio EXCEPT ![n] = kept])
    BY <1>3 DEF HostSend
  <2> DEFINE r == [radio EXCEPT ![n] = kept]
  <2>5. /\ r \in [Node -> Packet \cup {NoFrame}]
        /\ Propagates(r)
        /\ \A m \in Node : r[m] # NoFrame => Counted(packet_ring, r[m])
    BY <2>1, <2>4 DEF QInv
  <2>6. Counted(packet_ring, p)
    <3>1. p.hops = 0 /\ IsFiniteSet(Node)
      BY DEF RingsHoldTheTraffic
    <3>2. Hashable(p) \in AirTraffic
      BY DEF AirTraffic, HostTraffic
    <3>3. Knowers(packet_ring, Hashable(p)) \subseteq Node
      BY DEF Knowers
    <3>4. /\ Cardinality(Node) \in Nat
          /\ Cardinality(Knowers(packet_ring, Hashable(p))) \in Nat
      BY <3>1, <3>3, FS_Subset, FS_CardinalityType
    <3>5. QED
      BY <3>1, <3>2, <3>4 DEF Counted
  <2>7. \A x \in sent' : Counted(packet_ring, x[2])
    BY <2>2, <2>6 DEF SendRaw, Transmits
  <2>8. Learned(packet_ring, packet_ring)
    BY DEF Learned
  <2> HIDE DEF r
  <2>9. \A m \in Node : radio'[m] # NoFrame => Counted(packet_ring, radio'[m])
    BY <2>5, <2>7, <2>8, PropagatesCounts
  <2>10. QED
    <3>1. (\A m \in Node : ForgetsNothing(packet_ring[m]))'
      BY <2>3 DEF QInv, ForgetsNothing, RingShape, Contents
    <3>2. (\A m \in Node : radio[m] # NoFrame => Counted(packet_ring, radio[m]))'
      BY <2>3, <2>9 DEF Counted, Knowers, InRing
    <3>3. (\A m \in Node, s \in CacheSlot :
             Occupied(response_cache[m], s) => CountedResponse(response_cache[m][s].raw))'
      BY <2>3 DEF QInv, CountedResponse, Occupied
    <3>4. resets' = 0
      BY <2>3 DEF QInv
    <3>5. QED
      BY <1>3, <3>1, <3>2, <3>3, <3>4 DEF QInv
<1>4. ASSUME NEW n \in Node, Boot(n) \/ Elapse(n), MeshTypeOK'
      PROVE  QInv'
  <2>1. UNCHANGED <<packet_ring, response_cache, radio, resets>>
    BY <1>4 DEF Boot, Elapse, TakeIdentity, Tick, tables
  <2>2. QED
    <3>1. (\A m \in Node : ForgetsNothing(packet_ring[m]))'
      BY <2>1 DEF QInv, ForgetsNothing, RingShape, Contents
    <3>2. (\A m \in Node : radio[m] # NoFrame => Counted(packet_ring, radio[m]))'
      BY <2>1 DEF QInv, Counted, Knowers, InRing
    <3>3. (\A m \in Node, s \in CacheSlot :
             Occupied(response_cache[m], s) => CountedResponse(response_cache[m][s].raw))'
      BY <2>1 DEF QInv, CountedResponse, Occupied
    <3>4. QED
      BY <1>4, <2>1, <3>1, <3>2, <3>3 DEF QInv
<1>5. ASSUME NEW n \in Node, PowerCycle(n)
      PROVE  FALSE
  BY <1>5 DEF PowerCycle, QInv, RingsHoldTheTraffic
<1>6. QED
  BY <1>1, <1>2, <1>3, <1>4, <1>5, MeshTypeStep DEF MNext, QInv

(* In a mesh of any size and shape whose rings have room for its packets,  *)
(* no packet and no announce makes more hops than there are nodes, however *)
(* the routes lead it round and whatever is lost, late or doubled.         *)
THEOREM PacketsDoNotGoRound == MSpec => []NoPacketGoesRound
<1>1. CASE ~RingsHoldTheTraffic
  <2>1. NoPacketGoesRound
    BY <1>1 DEF NoPacketGoesRound
  <2>2. QED
    BY <2>1, PTL
<1>2. CASE RingsHoldTheTraffic
  <2>1. MInit => QInv
    <3> SUFFICES ASSUME MInit PROVE QInv
      OBVIOUS
    <3>1. MeshTypeOK
      BY InitType, MeshAssumption DEF MInit, MeshTypeOK
    <3>2. ForgetsNothing(EmptyRing)
      <4>1. Contents(EmptyRing) = {}
        BY DEF Contents, EmptyRing
      <4>2. EmptyRing.count = 0 /\ EmptyRing.next = 0
        BY DEF EmptyRing
      <4>3. QED
        BY <4>1, <4>2, FS_EmptySet DEF ForgetsNothing, RingShape
    <3>3. QED
      BY <3>1, <3>2 DEF MInit, Init, QInv, EmptyCache, Occupied, FreeSlot
  <2>2. QInv /\ [MNext]_mvars => QInv'
    BY <1>2, QInvStep
  <2>3. QInv => NoPacketGoesRound
    <3> SUFFICES ASSUME QInv, NEW n \in Node, radio[n] # NoFrame
                 PROVE  radio[n].hops <= Cardinality(Node)
      BY DEF NoPacketGoesRound
    <3>1. Counted(packet_ring, radio[n])
      BY DEF QInv
    <3>2. CASE IsResponse(radio[n])
      BY <3>1, <3>2 DEF Counted
    <3>3. CASE ~IsResponse(radio[n])
      <4> DEFINE who == Knowers(packet_ring, Hashable(radio[n]))
      <4>1. radio[n].hops <= Cardinality(who)
        BY <3>1, <3>3 DEF Counted
      <4>2. radio[n].hops \in Nat
        BY PacketAssumption DEF QInv, MeshTypeOK, Packet, Hop
      <4>3. who \subseteq Node /\ IsFiniteSet(Node)
        BY <1>2 DEF Knowers, RingsHoldTheTraffic
      <4> HIDE DEF who
      <4>4. /\ Cardinality(who) <= Cardinality(Node)
            /\ Cardinality(who) \in Nat /\ Cardinality(Node) \in Nat
        BY <4>3, FS_Subset, FS_CardinalityType
      <4>5. QED
        BY <4>1, <4>2, <4>4
    <3>4. QED
      BY <3>2, <3>3
  <2>4. QED
    BY <2>1, <2>2, <2>3, PTL DEF MSpec
<1>3. QED
  BY <1>1, <1>2
=============================================================================
