-------------------------------- MODULE Mailbox --------------------------------
(***************************************************************************)
(* What the LXMF side of a node promises: a box for one letter.  The first *)
(* letter that is brought stays until the node restarts, the same letter   *)
(* is recognised however often it is brought, any other finds the box      *)
(* full.  Only letters that the owner of their source wrote are letters.   *)
(***************************************************************************)
CONSTANTS Letters, None

VARIABLES box, letter, reply

Init == box = None /\ letter = None /\ reply = "none"

Bring(l) ==
  /\ letter' = l
  /\ IF box = None
       THEN box' = l /\ reply' = "OK"
       ELSE UNCHANGED box /\ reply' = IF box = l THEN "DUPLICATE" ELSE "CAPACITY"

Refuse ==
  /\ reply' \in {"INVAL", "NO_LINK", "SHORT", "CAPACITY", "UNKNOWN_SOURCE", "BAD_SIGNATURE"}
  /\ letter' = None
  /\ UNCHANGED box

Restart == box' = None /\ letter' = None /\ reply' = "none"

Next == Refuse \/ Restart \/ \E l \in Letters : Bring(l)

Spec == Init /\ [][Next]_<<box, letter, reply>>
=============================================================================
