---------------------------- MODULE IdentityStore ----------------------------
(***************************************************************************)
(* What identity persistence promises: a node takes one identity for life, *)
(* and announces none but that one.                                        *)
(***************************************************************************)
CONSTANTS Identity, None

VARIABLES stored, announced

Init ==
  /\ stored = None
  /\ announced = {}

Store(id) ==
  /\ stored = None
  /\ stored' = id
  /\ UNCHANGED announced

Announce ==
  /\ stored # None
  /\ announced' = announced \cup {stored}
  /\ UNCHANGED stored

Next == Announce \/ \E id \in Identity : Store(id)

Spec == Init /\ [][Next]_<<stored, announced>>
=============================================================================
