-------------------------- MODULE ResourceTransfers --------------------------
(***************************************************************************)
(* What resource reassembly promises: a transfer collects each part of its *)
(* resource once, loses none, and is complete exactly when it has them     *)
(* all.  It ends early only for want of room.  How parts are recognised    *)
(* and counted is left to Reassembly.                                      *)
(***************************************************************************)
EXTENDS Naturals

CONSTANTS
  Resource,    \* resources, each with one hash
  PartCount,   \* how many parts each has
  Capacity,    \* RESOURCE_REASSEMBLY_CAPACITY, 2 in the code
  MaxParts     \* RESOURCE_REASSEMBLY_MAX_PARTS, 64 in the code

VARIABLE transfer   \* per resource: its status and the parts collected

NoTransfer == [status |-> "none", parts |-> {}]

Live == {r \in Resource : transfer[r].status # "none"}

Full ==
  \E place \in [1 .. Capacity -> Live] :
    \A i, j \in 1 .. Capacity : place[i] = place[j] => i = j

Init == transfer = [r \in Resource |-> NoTransfer]

Begin(r) ==
  LET new == [status |-> "receiving", parts |-> {}]
  IN  /\ r \notin Live
      /\ PartCount[r] \in 1 .. MaxParts
      /\ \/ transfer' = [transfer EXCEPT ![r] = new]
         \/ /\ Full
            /\ \E q \in Live :
                 transfer' = [transfer EXCEPT ![r] = new, ![q] = NoTransfer]

Collect(r, i) ==
  LET parts == transfer[r].parts \cup {i}
  IN  /\ transfer[r].status = "receiving"
      /\ i \notin transfer[r].parts
      /\ transfer' = [transfer EXCEPT ![r] =
           [status |-> IF parts = 1 .. PartCount[r] THEN "complete" ELSE "receiving",
            parts  |-> parts]]

Restart == transfer' = [r \in Resource |-> NoTransfer]

Next ==
  \/ \E r \in Resource : Begin(r)
  \/ \E r \in Resource : \E i \in 1 .. PartCount[r] : Collect(r, i)
  \/ Restart

Spec == Init /\ [][Next]_transfer
===============================================================================
