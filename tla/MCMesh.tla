------------------------------- MODULE MCMesh --------------------------------
(***************************************************************************)
(* Three nodes.  The owner of d1 is n1; a packet to d1 is forwarded by n2  *)
(* or n3.                                                                  *)
(***************************************************************************)
EXTENDS Mesh, TLC

CONSTANTS n1, n2, n3, d1, prd, i1, i2, i3, zero, nobody, nokey, noframe, c1, c2

MCHome == [d \in {d1} |-> n1]

(* n1 - n2 - n3, and n1 hears n3, which does not hear n1: announces go     *)
(* round as well as to and fro                                             *)
LineInRange == n1 :> {n2} @@ n2 :> {n1, n3} @@ n3 :> {n1, n2}
LineDistance == n1 :> (d1 :> 0) @@ n2 :> (d1 :> 1) @@ n3 :> (d1 :> 2)

(* everybody hears everybody *)
FullInRange == n1 :> {n2, n3} @@ n2 :> {n1, n3} @@ n3 :> {n1, n2}
FullDistance == n1 :> (d1 :> 0) @@ n2 :> (d1 :> 1) @@ n3 :> (d1 :> 1)

Announce(c) ==
  [type |-> "announce", header |-> 1, hops |-> 0, tid |-> nobody, dest |-> d1,
   context |-> "none", body |-> [id |-> c, genuine |-> TRUE, long |-> FALSE]]

Data(c, next) ==
  [type |-> "data", header |-> 2, hops |-> 0, tid |-> next, dest |-> d1,
   context |-> "none", body |-> [id |-> c]]

Request ==
  [type |-> "data", header |-> 1, hops |-> 0, tid |-> nobody, dest |-> prd,
   context |-> "none", body |-> [id |-> c1, wants |-> d1, requestor |-> i3]]

\* Two announces that take different ways round leave routes n2 -> n1 -> n3 -> n2
Looping == n1 :> {Announce(c1), Announce(c2)} @@ n2 :> {} @@ n3 :> {Data(c1, i2)}

\* only n2 ever got an 'N' command
LateId == n1 :> zero @@ n2 :> i2 @@ n3 :> zero

\* n1 never got one: what is sent to the zero id, every node forwards that
\* has not booted with its own
LineId == n1 :> zero @@ n2 :> i2 @@ n3 :> i3

\* n2 hears the announce again through n3, once its ring has forgotten it,
\* and routes back to n3: n3's two packets then go to and fro, and a ring
\* holds one of them.  n2's host sends to d1 the long way round, through n3,
\* and n3's host asks for a path.
Traffic ==
  n1 :> {Announce(c1)} @@ n2 :> {Data(c1, i3)} @@
  n3 :> {Data(c1, zero), Data(c2, zero), Request}
=============================================================================
