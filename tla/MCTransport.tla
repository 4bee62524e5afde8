----------------------------- MODULE MCTransport -----------------------------
(***************************************************************************)
(* One node and three destinations for two path slots, one cached response *)
(* and a ring of two hashes: every table overflows, and the clock wraps.   *)
(* The other node's transport id is the zero id, as before its 'N'.        *)
(***************************************************************************)
EXTENDS TransportContract

CONSTANTS n1, d1, d2, d3, prd, t1, t2, zero, nobody, nokey, never, none, c1

Announce(d, header, tid, hops, long) ==
  [type |-> "announce", header |-> header, hops |-> hops, tid |-> tid, dest |-> d,
   context |-> "none", body |-> [id |-> c1, genuine |-> TRUE, long |-> long]]

Forged(p) == [p EXCEPT !.body.genuine = FALSE]

Data(d, header, tid) ==
  [type |-> "data", header |-> header, hops |-> 0, tid |-> tid, dest |-> d,
   context |-> "none", body |-> [id |-> c1]]

Request(d, from) ==
  [type |-> "data", header |-> 1, hops |-> 0, tid |-> nobody, dest |-> prd,
   context |-> "none", body |-> [id |-> c1, wants |-> d, requestor |-> from]]

MCLoraPackets ==
  { Announce(d1, 1, nobody, 0, FALSE),  \* heard directly ...
    Announce(d1, 2, zero, 1, FALSE),    \* ... and as somebody's rebroadcast
    Announce(d2, 2, zero, 1, TRUE),
    Announce(d3, 2, zero, 0, FALSE),
    Announce(d3, 2, zero, 3, FALSE),    \* the hop count would wrap
    Data(d1, 2, t1),                    \* to be forwarded ...
    Data(d1, 2, d1),                    \* ... and its echo ...
    Data(d1, 1, nobody),                \* ... also without its header
    Request(d1, zero) }

(* the route leads to the host *)
MCHostAnnounces == { Announce(d1, 1, nobody, 2, FALSE) }

MCHostPackets == {}

-----------------------------------------------------------------------------
(* for StaleResponse: a short announce of d2 and a long one *)
LearnLora ==
  { Announce(d1, 1, nobody, 0, FALSE), Announce(d1, 2, t2, 1, FALSE),
    Announce(d2, 1, nobody, 0, TRUE), Announce(d3, 2, t2, 2, FALSE),
    Announce(d2, 2, t2, 3, FALSE), Forged(Announce(d3, 1, nobody, 0, FALSE)) }

LearnHost == { Announce(d2, 1, nobody, 0, FALSE) }
=============================================================================
