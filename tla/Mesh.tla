-------------------------------- MODULE Mesh ---------------------------------
(***************************************************************************)
(* Several nodes that run the transport and hear each other over LoRa.  A  *)
(* transmission reaches any subset of the nodes in range; each radio holds *)
(* one received frame until the main loop polls it, and a later frame      *)
(* overwrites it.  Loss, delay, collision, a deaf radio and reordering     *)
(* between different senders are all instances of this.                    *)
(***************************************************************************)
EXTENDS Transport, FiniteSets

CONSTANTS
  InRange,     \* InRange[n]: the nodes that can receive what n transmits
  Home,        \* Home[d]: the node whose host owns destination d
  Distance,    \* Distance[n][d]: transmissions from Home[d] to n, at least
  Id,          \* Id[n]: the identity in n's flash
  HostSends,   \* HostSends[n]: the raw frames n's host may send
  NoFrame,     \* an empty radio
  Ticking,     \* the nodes whose clock is seen to move (a bound)
  MaxHostSends, MaxResets,  \* bounds on host frames and on resets
  MaxDisturbances           \* and on both together

(* Distance grows by at most one per transmission, and a host sends only   *)
(* announces of its own destinations as HEADER_1 packets with a hop count  *)
(* of zero, as an endpoint does                                            *)
ASSUME MeshAssumption ==
  /\ InRange \in [Node -> SUBSET Node]
  /\ Home \in [Dest -> Node]
  /\ Distance \in [Node -> [Dest -> Nat]]
  /\ \A d \in Dest : Distance[Home[d]][d] = 0
  /\ \A n \in Node : \A m \in InRange[n] : \A d \in Dest :
       Distance[m][d] <= Distance[n][d] + 1
  /\ Id \in [Node -> TransportId]
  /\ HostSends \in [Node -> SUBSET Packet]
  /\ \A n \in Node : \A p \in HostSends[n] :
       p.type = "announce" =>
         p.header = 1 /\ p.hops = 0 /\ p.dest \in Dest /\ Home[p.dest] = n
  /\ NoFrame \notin Packet
  /\ Ticking \subseteq Node
  /\ MaxHostSends \in Nat
  /\ MaxResets \in Nat
  /\ MaxDisturbances \in Nat

VARIABLES
  radio,     \* radio[n]: the frame n's radio holds, or NoFrame
  sends,     \* host frames sent so far
  resets     \* resets so far

mvars == <<vars, radio, sends, resets>>

MInit ==
  /\ Init
  /\ radio = [n \in Node |-> NoFrame]
  /\ sends = 0
  /\ resets = 0

(* what the radios hold after the step's transmission, if there was one:   *)
(* r is what they held, less the frame that was just polled                *)
Propagates(r) ==
  \/ /\ sent' = {}
     /\ radio' = r
  \/ \E x \in sent' : \E got \in SUBSET InRange[x[1]] :
       radio' = [m \in Node |-> IF m \in got THEN x[2] ELSE r[m]]

(* the main loop polls the radio and the packet is processed *)
Poll(n) ==
  /\ radio[n] # NoFrame
  /\ Receive(n, radio[n])
  /\ Propagates([radio EXCEPT ![n] = NoFrame])
  /\ UNCHANGED <<sends, resets>>

(* a host's frame goes out; a frame the radio held is lost when sending    *)
(* clears the interrupt that announced it                                  *)
HostSend(n) ==
  /\ sends < MaxHostSends /\ sends + resets < MaxDisturbances
  /\ \E p \in HostSends[n] : SendRaw(n, p)
  /\ \E kept \in {radio[n], NoFrame} : Propagates([radio EXCEPT ![n] = kept])
  /\ sends' = sends + 1
  /\ UNCHANGED resets

Boot(n) ==
  /\ identity_current[n] = ZeroId
  /\ TakeIdentity(n, Id[n])
  /\ UNCHANGED <<radio, sends, resets>>

Elapse(n) ==
  /\ n \in Ticking
  /\ Tick(n)
  /\ UNCHANGED <<radio, sends, resets>>

PowerCycle(n) ==
  /\ resets < MaxResets /\ sends + resets < MaxDisturbances
  /\ Reset(n)
  /\ radio' = [radio EXCEPT ![n] = NoFrame]
  /\ resets' = resets + 1
  /\ UNCHANGED sends

MNext ==
  \E n \in Node : Poll(n) \/ HostSend(n) \/ Boot(n) \/ Elapse(n) \/ PowerCycle(n)

MSpec == MInit /\ [][MNext]_mvars

(* the main loop of every node keeps polling its radio *)
MFairSpec == MSpec /\ \A n \in Node : WF_mvars(Poll(n))

-----------------------------------------------------------------------------
MeshTypeOK ==
  /\ TypeOK
  /\ radio \in [Node -> Packet \cup {NoFrame}]
  /\ sends \in 0 .. MaxHostSends
  /\ resets \in 0 .. MaxResets

Learnable(p) == p.type = "announce" /\ p.context = "none"

(* No node ever believes a destination nearer than it is, and no announce  *)
(* in the air claims so: hop counts survive loss, duplication, resets,     *)
(* forgotten hashes and the one-byte counter (transport_process_packet     *)
(* increments, transport_path_update refuses what no longer fits).         *)
NeverNearerThanTruth ==
  /\ \A n \in Node, s \in PathSlot :
       Occupied(path_table[n], s) =>
         path_table[n][s].hops >= Distance[n][path_table[n][s].dest]
  /\ \A n \in Node :
       radio[n] # NoFrame /\ Learnable(radio[n]) =>
         radio[n].hops + 1 >= Distance[n][radio[n].dest]

StripsBeside ==
  \A m \in sent' :
    m[2].header = 1 /\ packet_ring'[m[1]] # packet_ring[m[1]] =>
      m[1] \in InRange[Home[m[2].dest]]

(* A packet whose transport header is removed is transmitted within the    *)
(* range of its destination: a one-hop route is held only by a node that   *)
(* heard the destination itself.                                           *)
StripsOnlyBesideDestination == [][StripsBeside]_mvars

(* A packet in transport is addressed to a node in range that rebroadcast  *)
(* the announce, or to one that did so before it had an identity.          *)
NextHopIsInRange ==
  \A n \in Node, s \in PathSlot :
    Occupied(path_table[n], s) /\ path_table[n][s].hops > 1 =>
      \E m \in Node :
        /\ n \in InRange[m]
        /\ path_table[n][s].next_hop \in {Id[m], ZeroId}

(* the packets of a mesh, whatever their transport headers: those the      *)
(* hosts send and, when one of them asks for a path, the responses that    *)
(* their announces become                                                  *)
HostTraffic == UNION {{Hashable(p) : p \in HostSends[n]} : n \in Node}

PathsAreAskedFor ==
  \E k \in HostTraffic :
    k.type = "data" /\ k.context = "none" /\ k.dest = PathRequestDest

ResponseTraffic ==
  {[k EXCEPT !.context = "path_response"] :
     k \in {j \in HostTraffic : j.type = "announce"}}

AirTraffic ==
  HostTraffic \cup (IF PathsAreAskedFor THEN ResponseTraffic ELSE {})

(* no node is reset, and a ring has a slot for every packet *)
RingsHoldTheTraffic ==
  /\ MaxResets = 0
  /\ IsFiniteSet(Node)
  /\ IsFiniteSet(AirTraffic) /\ Cardinality(AirTraffic) <= RingCapacity
  /\ \A n \in Node : \A p \in HostSends[n] : p.hops = 0

(* The hop count of a packet never exceeds the number of nodes: no node    *)
(* passes a packet on twice while its ring remembers it, so neither an     *)
(* announce nor a packet in a routing loop goes round                      *)
(* (transport_packet_seen, before transport_process_packet forwards).      *)
NoPacketGoesRound ==
  RingsHoldTheTraffic =>
    \A n \in Node : radio[n] # NoFrame => radio[n].hops <= Cardinality(Node)

(* what hosts send in transport: nothing else is forwarded, and forwarding *)
(* has no hop limit                                                        *)
ForwardedTraffic ==
  {Hashable(p) : p \in {q \in UNION {HostSends[n] : n \in Node} : InTransport(q)}}

UnderWay(k) ==
  \E n \in Node :
    radio[n] # NoFrame /\ InTransport(radio[n]) /\ Hashable(radio[n]) = k

TooManyForARing == {S \in SUBSET ForwardedTraffic : Cardinality(S) > RingCapacity}

(* Once the hosts stop, the air falls silent, unless more different        *)
(* forwarded packets than a ring has slots keep displacing each other from *)
(* the rings of a routing loop and circulate together for ever.  Announces *)
(* die of their hop count (transport_path_update) however much the rings   *)
(* forget, requests and responses are not passed on, and a single packet,  *)
(* or as many as a ring holds, is stopped by transport_packet_seen.        *)
SilentUnlessRingsOverflow ==
  \/ <>[](\A n \in Node : radio[n] = NoFrame)
  \/ \E S \in TooManyForARing : \A k \in S : []<>UnderWay(k)
=============================================================================
