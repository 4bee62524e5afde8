------------------------------ MODULE Reassembly ------------------------------
(***************************************************************************)
(* resource_process_plaintext and resource_reassembly_update: the table of *)
(* resources being received over links.  A part carries no index: it is    *)
(* recognised by a hash, within a window of each resource being received.  *)
(*                                                                         *)
(* A resource hash stands for its random hash and its hashmap, which the   *)
(* peer that made it repeats unchanged.  Map hashes are 4 bytes and may    *)
(* collide.  Channel messages and payloads that do not parse leave the     *)
(* table alone and are left out.                                           *)
(***************************************************************************)
EXTENDS Integers, Sequences, FiniteSets

CONSTANTS
  Resource,      \* resources somebody advertises
  Part,          \* part payloads
  Hash,          \* map hashes
  Hashmap,       \* per resource: the map hashes of its parts in order
  MapHash,       \* per resource and part: SHA256(part, random hash)[0:4]
  NoResource,    \* the resource hash of a slot never written
  Capacity,      \* RESOURCE_REASSEMBLY_CAPACITY, 2 in the code
  Window,        \* RESOURCE_REASM_WINDOW_INIT, 4 in the code
  MaxParts,      \* RESOURCE_REASSEMBLY_MAX_PARTS, 64 in the code
  MaxRestarts    \* bound on restarts

ASSUME ReassemblyAssumption ==
  /\ Hashmap \in [Resource -> Seq(Hash)]
  /\ MapHash \in [Resource -> [Part -> Hash]]
  /\ NoResource \notin Resource
  /\ Capacity \in Nat \ {0}
  /\ Window \in Nat
  /\ MaxParts \in Nat
  /\ MaxRestarts \in Nat

Slot == 1 .. Capacity

PartCount == [r \in Resource |-> Len(Hashmap[r])]

Index == UNION {1 .. PartCount[r] : r \in Resource}

AcceptableFault == {r \in Resource : PartCount[r] # 0}   \* no upper limit

(* the advertisements resource_advertisement_parse and the checks of the   *)
(* advertisement path let through                                          *)
Acceptable == {r \in Resource : PartCount[r] \in 1 .. MaxParts}

VARIABLES resource_reassembly_table, restarts

vars == <<resource_reassembly_table, restarts>>

(* Parts are numbered from 1 here, from 0 in the code: consecutive_idx, the *)
(* code's first part not received, is here the last before it.             *)
Entry ==
  [status : {"empty", "receiving", "complete"},
   resource : Resource \cup {NoResource},
   received_count : 0 .. MaxParts,
   consecutive_idx : 0 .. MaxParts,
   received_bitmap : SUBSET (1 .. MaxParts)]

EmptyEntry ==
  [status |-> "empty", resource |-> NoResource, received_count |-> 0,
   consecutive_idx |-> 0, received_bitmap |-> {}]

Init ==
  /\ resource_reassembly_table = [s \in Slot |-> EmptyEntry]
  /\ restarts = 0

Valid(s) == resource_reassembly_table[s].status # "empty"

Receiving(s) == resource_reassembly_table[s].status = "receiving"

Holds(s, r) == Valid(s) /\ resource_reassembly_table[s].resource = r

TotalParts(s) == PartCount[resource_reassembly_table[s].resource]

-----------------------------------------------------------------------------
(* An advertisement *)

(* the first free slot, else the first *)
PicksSlot(s) ==
  \/ ~ Valid(s) /\ \A t \in 1 .. s - 1 : Valid(t)
  \/ s = 1 /\ \A t \in Slot : Valid(t)

InstalledFault(r, s) ==   \* the entry is not cleared
  [resource_reassembly_table[s] EXCEPT !.status = "receiving", !.resource = r]

(* the slot s is cleared and written *)
Installed(r, s) ==
  [status |-> "receiving", resource |-> r, received_count |-> 0,
   consecutive_idx |-> 0, received_bitmap |-> {}]

AdvertiseFault(r) ==   \* a complete resource is not looked at
  /\ r \in Acceptable
  /\ \A s \in Slot : ~ (Receiving(s) /\ Holds(s, r))
  /\ \E s \in Slot :
       /\ PicksSlot(s)
       /\ resource_reassembly_table' =
            [resource_reassembly_table EXCEPT ![s] = Installed(r, s)]
  /\ UNCHANGED restarts

(* a resource in the table, complete or not, is a duplicate *)
Advertise(r) ==
  /\ r \in Acceptable
  /\ \A s \in Slot : ~ Holds(s, r)
  /\ \E s \in Slot :
       /\ PicksSlot(s)
       /\ resource_reassembly_table' =
            [resource_reassembly_table EXCEPT ![s] = Installed(r, s)]
  /\ UNCHANGED restarts

RefuseAdvertisement(r) ==
  /\ r \notin Acceptable \/ \E s \in Slot : Holds(s, r)
  /\ UNCHANGED vars

-----------------------------------------------------------------------------
(* A part *)

InWindowFault(s, i) ==   \* an index past the end of the window
  /\ i \in 1 .. TotalParts(s)
  /\ LET last == resource_reassembly_table[s].consecutive_idx
     IN  i > last + 1 /\ i <= last + Window

(* The window begins one part before the first one missing. *)
InWindow(s, i) ==
  LET last  == resource_reassembly_table[s].consecutive_idx
      first == IF last = 0 THEN 1 ELSE last
  IN  i \in 1 .. TotalParts(s) /\ first <= i /\ i < first + Window

(* part p looks like part i of the resource in slot s *)
Matches(p, s, i) ==
  /\ Receiving(s)
  /\ InWindow(s, i)
  /\ LET r == resource_reassembly_table[s].resource
     IN  Hashmap[r][i] = MapHash[r][p]

(* the search ends at the first match, slot by slot *)
Lands(p, s, i) ==
  /\ Matches(p, s, i)
  /\ \A t \in Slot, j \in Index :
       Matches(p, t, j) => s < t \/ (s = t /\ i <= j)

AdvancesFault(from, total, bitmap, to) ==   \* by the part just received
  to = IF from + 1 \in bitmap THEN from + 1 ELSE from

(* where the loop over the bitmap leaves consecutive_idx *)
Advances(from, total, bitmap, to) ==
  /\ to \in from .. total
  /\ \A j \in from + 1 .. to : j \in bitmap
  /\ to < total => to + 1 \notin bitmap

Records(s, i) ==
  LET entry  == resource_reassembly_table[s]
      bitmap == entry.received_bitmap \cup {i}
      count  == entry.received_count + 1
  IN  \E to \in Index \cup {0} :
        /\ Advances(entry.consecutive_idx, TotalParts(s), bitmap, to)
        /\ resource_reassembly_table' = [resource_reassembly_table EXCEPT ![s] =
             [status |-> IF count = TotalParts(s) THEN "complete" ELSE "receiving",
              resource |-> entry.resource,
              received_count |-> count,
              consecutive_idx |-> to,
              received_bitmap |-> bitmap]]

ReceivePartFault(p) ==   \* a part received before is counted again
  /\ \E s \in Slot, i \in Index : Lands(p, s, i) /\ Records(s, i)
  /\ UNCHANGED restarts

ReceivePart(p) ==
  /\ \E s \in Slot, i \in Index :
       /\ Lands(p, s, i)
       /\ i \notin resource_reassembly_table[s].received_bitmap
       /\ Records(s, i)
  /\ UNCHANGED restarts

(* a duplicate, or no part of a resource being received *)
RefusePart(p) ==
  /\ \A s \in Slot, i \in Index :
       Lands(p, s, i) => i \in resource_reassembly_table[s].received_bitmap
  /\ UNCHANGED vars

(* the table is in .bss, zero after a reset *)
Restart ==
  /\ restarts < MaxRestarts
  /\ restarts' = restarts + 1
  /\ resource_reassembly_table' = [s \in Slot |-> EmptyEntry]

Next ==
  \/ \E r \in Resource : Advertise(r) \/ RefuseAdvertisement(r)
  \/ \E p \in Part : ReceivePart(p) \/ RefusePart(p)
  \/ Restart

Spec == Init /\ [][Next]_vars

(* The peers repeat their parts for ever, in any order. *)
FairSpec == Spec /\ \A p \in Part : WF_vars(ReceivePart(p))
-----------------------------------------------------------------------------
TypeOK ==
  /\ resource_reassembly_table \in [Slot -> Entry]
  /\ restarts \in 0 .. MaxRestarts

(* The three records of progress agree, whatever the order of the parts:   *)
(* the count is the number of bits set, consecutive_idx stands before the  *)
(* first gap, and only a resource without gaps is complete.                *)
ProgressAgrees ==
  \A s \in Slot :
    LET entry == resource_reassembly_table[s]
    IN  Valid(s) =>
          /\ entry.received_bitmap \subseteq 1 .. TotalParts(s)
          /\ entry.received_count = Cardinality(entry.received_bitmap)
          /\ 1 .. entry.consecutive_idx \subseteq entry.received_bitmap
          /\ entry.consecutive_idx + 1 \notin entry.received_bitmap
          /\ entry.status = "complete" <=> entry.received_bitmap = 1 .. TotalParts(s)

(* No resource is assembled in two slots, which would share its parts. *)
OneSlotPerResource ==
  \A s, t \in Slot :
    Valid(s) /\ Holds(t, resource_reassembly_table[s].resource) => s = t

(* Both at once, and every field in its range. *)
OneTransferPerResource == TypeOK /\ ProgressAgrees /\ OneSlotPerResource

(* p looks like part i of resource r, and like no other part of any *)
IsPart(p, r, i) ==
  /\ i \in 1 .. PartCount[r] /\ Hashmap[r][i] = MapHash[r][p]
  /\ \A q \in Resource : \A j \in 1 .. PartCount[q] :
       Hashmap[q][j] = MapHash[q][p] => q = r /\ j = i

(* Whatever arrived before, a part that closes a gap is taken where it     *)
(* belongs if it is the first missing part or follows within the window,   *)
(* which begins one part earlier.  Only a hash that occurs twice can       *)
(* prevent it.                                                             *)
GapsAreClosed ==
  \A s \in Slot, i \in Index, p \in Part :
    LET entry == resource_reassembly_table[s]
    IN  /\ Receiving(s)
        /\ IsPart(p, entry.resource, i)
        /\ i \notin entry.received_bitmap
        /\ i < entry.consecutive_idx + Window
        => Lands(p, s, i)

(* Of each part of r there is a payload that looks like no other part. *)
Distinct(r) == \A i \in 1 .. PartCount[r] : \E p \in Part : IsPart(p, r, i)

(* A resource whose peer repeats its parts is complete in the end, unless  *)
(* another takes its slot or the node resets.                              *)
RepeatedPartsComplete ==
  \A s \in Slot, r \in Resource :
    Distinct(r) /\ Receiving(s) /\ Holds(s, r) ~> ~ Receiving(s) \/ ~ Holds(s, r)

(* the transfer the table holds for a resource *)
TransferOf(r) ==
  IF \E s \in Slot : Holds(s, r)
    THEN LET s == CHOOSE t \in Slot : Holds(t, r)
         IN  [status |-> resource_reassembly_table[s].status,
              parts  |-> resource_reassembly_table[s].received_bitmap]
    ELSE [status |-> "none", parts |-> {}]

Held == [r \in Resource |-> TransferOf(r)]

Transfers == INSTANCE ResourceTransfers WITH transfer <- Held

(* The table implements transfers that collect each part once and lose     *)
(* none: an advertisement repeated does not start over, a slot reused      *)
(* brings nothing along, and nothing is complete too early.                *)
IsResourceTransfers == Transfers!Spec
===============================================================================
