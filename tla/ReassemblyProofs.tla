--------------------------- MODULE ReassemblyProofs ---------------------------
(***************************************************************************)
(* Resource reassembly, for any number of slots, resources and parts, any  *)
(* window, and any hashes.                                                 *)
(***************************************************************************)
EXTENDS ResourceContract, FiniteSetTheorems, WellFoundedInduction, TLAPS

USE DEF Slot

(* only acceptable resources are ever installed *)
NamesAreAcceptable ==
  \A s \in Slot : Valid(s) => resource_reassembly_table[s].resource \in Acceptable

RInv == TypeOK /\ ProgressAgrees /\ OneSlotPerResource /\ NamesAreAcceptable

LEMMA PartCounts ==
  /\ \A r \in Resource : PartCount[r] \in Nat
  /\ \A r \in Acceptable : r \in Resource /\ PartCount[r] \in 1 .. MaxParts
  /\ Index \subseteq Nat \ {0}
  /\ \A r \in Resource : 1 .. PartCount[r] \subseteq Index
BY ReassemblyAssumption DEF PartCount, Acceptable, Index

(* what ProgressAgrees says of one entry, with a total of n parts *)
Agrees(entry, n) ==
  /\ entry.received_bitmap \subseteq 1 .. n
  /\ entry.received_count = Cardinality(entry.received_bitmap)
  /\ 1 .. entry.consecutive_idx \subseteq entry.received_bitmap
  /\ entry.consecutive_idx + 1 \notin entry.received_bitmap
  /\ entry.status = "complete" <=> entry.received_bitmap = 1 .. n

LEMMA ProgressOfEntries ==
  ProgressAgrees <=> \A s \in Slot :
    Valid(s) => Agrees(resource_reassembly_table[s], TotalParts(s))
BY DEF ProgressAgrees, Agrees

(* A fresh entry agrees: it has a part to wait for. *)
LEMMA FreshEntry ==
  ASSUME NEW r \in Acceptable, NEW s \in Slot
  PROVE  Installed(r, s) \in Entry /\ Agrees(Installed(r, s), PartCount[r])
<1>1. Installed(r, s) =
        [status |-> "receiving", resource |-> r, received_count |-> 0,
         consecutive_idx |-> 0, received_bitmap |-> {}]
  BY DEF Installed
<1>2. Installed(r, s) \in Entry
  BY <1>1, PartCounts, ReassemblyAssumption DEF Entry
<1>3. 1 .. PartCount[r] # {} /\ 1 .. 0 = {}
  BY PartCounts
<1> QED
  BY <1>1, <1>2, <1>3, FS_EmptySet DEF Agrees

(* Setting one more bit counts it, reaches the next gap and completes the  *)
(* resource when it was the last.                                          *)
LEMMA RecordingAgrees ==
  ASSUME NEW entry \in Entry, NEW n \in 1 .. MaxParts, NEW i \in 1 .. n, NEW to,
         Agrees(entry, n), i \notin entry.received_bitmap,
         Advances(entry.consecutive_idx, n, entry.received_bitmap \cup {i}, to)
  PROVE  LET new == [status |-> IF entry.received_count + 1 = n
                                  THEN "complete" ELSE "receiving",
                     resource |-> entry.resource,
                     received_count |-> entry.received_count + 1,
                     consecutive_idx |-> to,
                     received_bitmap |-> entry.received_bitmap \cup {i}]
         IN  new \in Entry /\ Agrees(new, n)
<1> DEFINE bitmap == entry.received_bitmap \cup {i}
           count == entry.received_count + 1
           new == [status |-> IF count = n THEN "complete" ELSE "receiving",
                   resource |-> entry.resource, received_count |-> count,
                   consecutive_idx |-> to, received_bitmap |-> bitmap]
<1>1. IsFiniteSet(1 .. n) /\ Cardinality(1 .. n) = n
  BY ReassemblyAssumption, FS_Interval
<1>2. bitmap \subseteq 1 .. n
  BY DEF Agrees
<1>3. IsFiniteSet(entry.received_bitmap)
  BY <1>1, <1>2, FS_Subset
<1>4. count = Cardinality(bitmap)
  BY <1>3, FS_AddElement DEF Agrees
<1>5. count \in 1 .. n /\ (count = n <=> bitmap = 1 .. n)
  <2>1. IsFiniteSet(bitmap) /\ Cardinality(bitmap) <= Cardinality(1 .. n)
        /\ (Cardinality(bitmap) = Cardinality(1 .. n) => bitmap = 1 .. n)
    BY <1>1, <1>2, FS_Subset
  <2>2. Cardinality(bitmap) \in Nat /\ count \in Nat \ {0}
    BY <1>4, <2>1, FS_CardinalityType DEF Entry
  <2> HIDE DEF bitmap, count
  <2> QED
    BY <1>1, <1>4, <2>1, <2>2
<1>6. to \in 0 .. n /\ 1 .. to \subseteq bitmap /\ to + 1 \notin bitmap
  <2>1. entry.consecutive_idx \in Nat /\ to \in entry.consecutive_idx .. n
    BY DEF Advances, Entry
  <2>2. 1 .. to \subseteq bitmap
    BY <2>1 DEF Advances, Agrees
  <2>3. to + 1 \notin bitmap
    BY <1>2, <2>1 DEF Advances
  <2> QED
    BY <2>1, <2>2, <2>3
<1>7. new \in Entry
  <2>1. bitmap \in SUBSET (1 .. MaxParts) /\ count \in 0 .. MaxParts /\ to \in 0 .. MaxParts
    BY <1>2, <1>5, <1>6, ReassemblyAssumption
  <2> HIDE DEF bitmap, count
  <2> QED
    BY <2>1 DEF Entry
<1>8. Agrees(new, n)
  <2> HIDE DEF bitmap, count
  <2> QED
    BY <1>2, <1>4, <1>5, <1>6 DEF Agrees
<1> QED
  BY <1>7, <1>8

(* What an advertisement and a part each do to the table *)
Begins(r, s) ==
  /\ r \in Acceptable /\ s \in Slot
  /\ \A t \in Slot : ~ Holds(t, r)
  /\ PicksSlot(s)
  /\ resource_reassembly_table' =
       [resource_reassembly_table EXCEPT ![s] = Installed(r, s)]

LEMMA AdvertisementBegins ==
  ASSUME NEW r, Advertise(r)
  PROVE  \E s \in Slot : Begins(r, s)
BY DEF Advertise, Begins

(* part i of the resource in slot s is recorded *)
Collects(s, i) ==
  LET entry == resource_reassembly_table[s]
      new   == resource_reassembly_table'[s]
  IN  /\ s \in Slot /\ Receiving(s)
      /\ i \in 1 .. TotalParts(s)
      /\ i \notin entry.received_bitmap
      /\ new \in Entry
      /\ Agrees(new, TotalParts(s))
      /\ new.resource = entry.resource
      /\ new.status # "empty"
      /\ new.received_bitmap = entry.received_bitmap \cup {i}
      /\ resource_reassembly_table' =
           [resource_reassembly_table EXCEPT ![s] = new]

LEMMA PartCollects ==
  ASSUME RInv, NEW p \in Part, ReceivePart(p)
  PROVE  \E s \in Slot, i \in Index : Collects(s, i)
<1>1. PICK s \in Slot, i \in Index :
        /\ Lands(p, s, i)
        /\ i \notin resource_reassembly_table[s].received_bitmap
        /\ Records(s, i)
  BY DEF ReceivePart
<1> DEFINE entry == resource_reassembly_table[s]
           n == TotalParts(s)
           bitmap == entry.received_bitmap \cup {i}
           count == entry.received_count + 1
<1>2. Receiving(s) /\ i \in 1 .. n
  BY <1>1 DEF Lands, Matches, InWindow
<1>3. entry \in Entry /\ entry.resource \in Acceptable /\ Agrees(entry, n)
  BY <1>2, ProgressOfEntries DEF RInv, TypeOK, NamesAreAcceptable, Receiving, Valid
<1>4. n \in 1 .. MaxParts
  BY <1>3, PartCounts DEF TotalParts
<1>5. PICK to : /\ Advances(entry.consecutive_idx, n, bitmap, to)
                /\ resource_reassembly_table' = [resource_reassembly_table EXCEPT ![s] =
                     [status |-> IF count = n THEN "complete" ELSE "receiving",
                      resource |-> entry.resource, received_count |-> count,
                      consecutive_idx |-> to, received_bitmap |-> bitmap]]
  BY <1>1 DEF Records
<1> DEFINE new == [status |-> IF count = n THEN "complete" ELSE "receiving",
                   resource |-> entry.resource, received_count |-> count,
                   consecutive_idx |-> to, received_bitmap |-> bitmap]
<1>6. new \in Entry /\ Agrees(new, n)
  BY <1>1, <1>2, <1>3, <1>4, <1>5, RecordingAgrees
<1>7. resource_reassembly_table' = [resource_reassembly_table EXCEPT ![s] = new]
      /\ resource_reassembly_table'[s] = new
  BY <1>5 DEF RInv, TypeOK
<1>8. /\ new.resource = entry.resource /\ new.status # "empty"
      /\ new.received_bitmap = entry.received_bitmap \cup {i}
  OBVIOUS
<1> HIDE DEF new
<1> QED
  BY <1>1, <1>2, <1>6, <1>7, <1>8 DEF Collects

LEMMA InitInv == Init => RInv
<1> SUFFICES ASSUME Init PROVE RInv
  OBVIOUS
<1>1. EmptyEntry \in Entry
  BY ReassemblyAssumption DEF EmptyEntry, Entry
<1>2. TypeOK
  BY <1>1, ReassemblyAssumption DEF Init, TypeOK
<1>3. \A s \in Slot : ~ Valid(s)
  BY DEF Init, Valid, EmptyEntry
<1> QED
  BY <1>2, <1>3 DEF RInv, ProgressAgrees, OneSlotPerResource, NamesAreAcceptable

LEMMA NextInv == RInv /\ [Next]_vars => RInv'
<1> SUFFICES ASSUME RInv, [Next]_vars PROVE RInv'
  OBVIOUS
<1>0. resource_reassembly_table \in [Slot -> Entry] /\ restarts \in 0 .. MaxRestarts
  BY DEF RInv, TypeOK
<1>1. ASSUME NEW r \in Resource, Advertise(r) PROVE RInv'
  <2>1. PICK s \in Slot : Begins(r, s)
    BY <1>1, AdvertisementBegins
  <2>2. r \in Acceptable /\ \A t \in Slot : ~ Holds(t, r)
    BY <2>1 DEF Begins
  <2>3. Installed(r, s) \in Entry /\ Agrees(Installed(r, s), PartCount[r])
    BY <2>2, FreshEntry
  <2>4. \A t \in Slot : resource_reassembly_table'[t] =
          IF t = s THEN Installed(r, s) ELSE resource_reassembly_table[t]
    BY <1>0, <2>1 DEF Begins
  <2>5. Installed(r, s).resource = r /\ Installed(r, s).status = "receiving"
    BY DEF Installed
  <2>6. TypeOK'
    BY <1>0, <1>1, <2>1, <2>3 DEF Begins, Advertise, TypeOK
  <2>7. ProgressAgrees'
    <3>1. \A t \in Slot :
            Valid(t)' => Agrees(resource_reassembly_table[t], TotalParts(t))'
      BY <2>3, <2>4, <2>5, ProgressOfEntries DEF RInv, Valid, TotalParts, Agrees
    <3> QED
      BY <3>1 DEF ProgressAgrees, Agrees
  <2>8. OneSlotPerResource'
    BY <2>2, <2>4, <2>5 DEF RInv, OneSlotPerResource, Holds, Valid
  <2>9. NamesAreAcceptable'
    BY <2>2, <2>4, <2>5 DEF RInv, NamesAreAcceptable, Valid
  <2> QED
    BY <2>6, <2>7, <2>8, <2>9 DEF RInv
<1>2. ASSUME NEW p \in Part, ReceivePart(p) PROVE RInv'
  <2>1. PICK s \in Slot, i \in Index : Collects(s, i)
    BY <1>2, PartCollects
  <2> DEFINE new == resource_reassembly_table'[s]
  <2>2. \A t \in Slot : resource_reassembly_table'[t] =
          IF t = s THEN new ELSE resource_reassembly_table[t]
    BY <1>0, <2>1 DEF Collects
  <2>3. /\ new \in Entry /\ Valid(s)
        /\ Agrees(new, TotalParts(s))
        /\ new.resource = resource_reassembly_table[s].resource
    BY <2>1 DEF Collects, Receiving, Valid
  <2>4. TypeOK'
    <3>1. resource_reassembly_table' \in [Slot -> Entry]
      BY <1>0, <2>1, <2>3 DEF Collects
    <3> QED
      BY <1>0, <1>2, <3>1 DEF ReceivePart, TypeOK
  <2>5. ProgressAgrees'
    <3>1. \A t \in Slot :
            Valid(t)' => Agrees(resource_reassembly_table[t], TotalParts(t))'
      <4> SUFFICES ASSUME NEW t \in Slot, Valid(t)'
                   PROVE  Agrees(resource_reassembly_table'[t], TotalParts(t)')
        BY DEF Agrees
      <4>1. CASE t = s
        <5>1. TotalParts(t)' = TotalParts(s)
          BY <2>3, <4>1 DEF TotalParts
        <5> QED
          BY <2>3, <4>1, <5>1
      <4>2. CASE t # s
        BY <2>2, <4>2, ProgressOfEntries DEF RInv, Valid, TotalParts
      <4> QED
        BY <4>1, <4>2
    <3> QED
      BY <3>1 DEF ProgressAgrees, Agrees
  <2>6. OneSlotPerResource'
    BY <2>2, <2>3 DEF RInv, OneSlotPerResource, Holds, Valid
  <2>7. NamesAreAcceptable'
    BY <2>2, <2>3 DEF RInv, NamesAreAcceptable, Valid
  <2> QED
    BY <2>4, <2>5, <2>6, <2>7 DEF RInv
<1>3. CASE Restart
  <2>1. EmptyEntry \in Entry
    BY ReassemblyAssumption DEF EmptyEntry, Entry
  <2>2. TypeOK'
    BY <1>0, <1>3, <2>1, ReassemblyAssumption DEF Restart, TypeOK
  <2>3. \A s \in Slot : ~ Valid(s)'
    BY <1>3 DEF Restart, Valid, EmptyEntry
  <2> QED
    BY <2>2, <2>3 DEF RInv, ProgressAgrees, OneSlotPerResource, NamesAreAcceptable
<1>4. CASE UNCHANGED vars
  BY <1>4 DEF vars, RInv, TypeOK, ProgressAgrees, OneSlotPerResource,
              NamesAreAcceptable, Valid, Holds, TotalParts
<1>5. ASSUME NEW r \in Resource, RefuseAdvertisement(r) PROVE RInv'
  BY <1>4, <1>5 DEF RefuseAdvertisement
<1>6. ASSUME NEW p \in Part, RefusePart(p) PROVE RInv'
  BY <1>4, <1>6 DEF RefusePart
<1> QED
  BY <1>1, <1>2, <1>3, <1>4, <1>5, <1>6 DEF Next

LEMMA RInvAlways == Spec => []RInv
BY InitInv, NextInv, PTL DEF Spec

(* The table always has its type: no count, index or bit is beyond         *)
(* RESOURCE_REASSEMBLY_MAX_PARTS.                                          *)
THEOREM ReassemblyTypeCorrect == Spec => []TypeOK
BY RInvAlways, PTL DEF RInv

(* Count, bitmap, consecutive index and status of an entry agree. *)
THEOREM ProgressAlwaysAgrees == Spec => []ProgressAgrees
BY RInvAlways, PTL DEF RInv

(* No resource is in two slots. *)
THEOREM ResourcesHaveOneSlot == Spec => []OneSlotPerResource
BY RInvAlways, PTL DEF RInv

(* The three together, as the run of the table checks them. *)
THEOREM TransfersStayOneAndWhole == Spec => []OneTransferPerResource
BY RInvAlways, PTL DEF RInv, OneTransferPerResource

-----------------------------------------------------------------------------
(* Gaps *)

LEMMA GapsAreInReach == RInv => GapsAreClosed
<1> SUFFICES ASSUME RInv, NEW s \in Slot, NEW i \in Index, NEW p \in Part,
                    Receiving(s),
                    IsPart(p, resource_reassembly_table[s].resource, i),
                    i \notin resource_reassembly_table[s].received_bitmap,
                    i < resource_reassembly_table[s].consecutive_idx + Window
             PROVE  Lands(p, s, i)
  BY DEF GapsAreClosed
<1> DEFINE entry == resource_reassembly_table[s]
           r == entry.resource
<1>1. r \in Resource /\ i \in 1 .. PartCount[r] /\ Hashmap[r][i] = MapHash[r][p]
  BY PartCounts DEF RInv, NamesAreAcceptable, Receiving, Valid, IsPart
<1>2. entry.consecutive_idx \in Nat /\ 1 .. entry.consecutive_idx \subseteq entry.received_bitmap
  BY ProgressOfEntries DEF RInv, TypeOK, Entry, Receiving, Valid, Agrees
<1>3. i > entry.consecutive_idx
  BY <1>1, <1>2, PartCounts
<1>4. InWindow(s, i)
  BY <1>1, <1>2, <1>3, PartCounts, ReassemblyAssumption DEF InWindow, TotalParts
<1>5. Matches(p, s, i)
  BY <1>1, <1>4 DEF Matches
<1>6. ASSUME NEW t \in Slot, NEW j \in Index, Matches(p, t, j)
      PROVE  t = s /\ j = i
  <2> DEFINE q == resource_reassembly_table[t].resource
  <2>1. Valid(t) /\ Receiving(t) /\ j \in 1 .. PartCount[q] /\ Hashmap[q][j] = MapHash[q][p]
    BY <1>6 DEF Matches, InWindow, TotalParts, Receiving, Valid
  <2>2. q \in Resource
    BY <2>1, PartCounts DEF RInv, NamesAreAcceptable
  <2>3. q = r /\ j = i
    BY <2>1, <2>2 DEF IsPart
  <2> QED
    BY <2>1, <2>3 DEF RInv, OneSlotPerResource, Holds, Receiving, Valid
<1>7. i \in Nat /\ i <= i
  BY PartCounts
<1> QED
  BY <1>5, <1>6, <1>7 DEF Lands

(* The first gap of every resource, and those that follow within the       *)
(* window, are closed by the part that belongs there.                      *)
THEOREM GapsCanBeClosed == Spec => []GapsAreClosed
BY RInvAlways, GapsAreInReach, PTL

-----------------------------------------------------------------------------
(* Refinement *)

USE DEF Held

LEMMA HeldTransfer ==
  ASSUME RInv, NEW s \in Slot, NEW r \in Resource, Holds(s, r)
  PROVE  Held[r] = [status |-> resource_reassembly_table[s].status,
                    parts  |-> resource_reassembly_table[s].received_bitmap]
<1>1. \A t \in Slot : Holds(t, r) <=> t = s
  BY DEF RInv, OneSlotPerResource, Holds
<1>2. s = CHOOSE t \in Slot : Holds(t, r)
  BY <1>1
<1> QED
  BY <1>1, <1>2 DEF TransferOf

LEMMA HeldTransferNext ==
  ASSUME RInv', NEW s \in Slot, NEW r \in Resource, Holds(s, r)'
  PROVE  Held'[r] = [status |-> resource_reassembly_table'[s].status,
                     parts  |-> resource_reassembly_table'[s].received_bitmap]
<1>1. \A t \in Slot : Holds(t, r)' <=> t = s
  BY DEF RInv, OneSlotPerResource, Holds
<1>2. s = CHOOSE t \in Slot : Holds(t, r)'
  BY <1>1
<1> QED
  BY <1>1, <1>2 DEF TransferOf

LEMMA NothingHeld ==
  ASSUME NEW r \in Resource, \A s \in Slot : ~ Holds(s, r)
  PROVE  Held[r] = Transfers!NoTransfer
BY DEF TransferOf, Transfers!NoTransfer

LEMMA NothingHeldNext ==
  ASSUME NEW r \in Resource, \A s \in Slot : ~ Holds(s, r)'
  PROVE  Held'[r] = Transfers!NoTransfer
BY DEF TransferOf, Transfers!NoTransfer

(* A step that writes one slot leaves the transfers in other slots alone. *)
LEMMA OthersStay ==
  ASSUME RInv, RInv', NEW s \in Slot, NEW r \in Resource,
         \A t \in Slot \ {s} :
           resource_reassembly_table'[t] = resource_reassembly_table[t],
         ~ Holds(s, r), ~ Holds(s, r)'
  PROVE  Held'[r] = Held[r]
<1>1. CASE \E t \in Slot : Holds(t, r)
  <2>1. PICK t \in Slot : Holds(t, r)
    BY <1>1
  <2>2. t # s /\ Holds(t, r)'
    BY <2>1 DEF Holds, Valid
  <2> QED
    BY <2>1, <2>2, HeldTransfer, HeldTransferNext
<1>2. CASE \A t \in Slot : ~ Holds(t, r)
  <2>1. \A t \in Slot : ~ Holds(t, r)'
    BY <1>2 DEF Holds, Valid
  <2> QED
    BY <1>2, <2>1, NothingHeld, NothingHeldNext
<1> QED
  BY <1>1, <1>2

LEMMA LiveIsHeld ==
  ASSUME RInv, NEW s \in Slot, Valid(s)
  PROVE  resource_reassembly_table[s].resource \in Transfers!Live
<1> DEFINE r == resource_reassembly_table[s].resource
<1>1. r \in Resource /\ Holds(s, r)
  BY PartCounts DEF RInv, NamesAreAcceptable, Holds
<1>2. Held[r].status # "none"
  <2>1. resource_reassembly_table[s].status # "none"
    BY DEF RInv, TypeOK, Entry
  <2> QED
    BY <1>1, <2>1, HeldTransfer
<1> QED
  BY <1>1, <1>2 DEF Transfers!Live

LEMMA FullTable ==
  ASSUME RInv, \A s \in Slot : Valid(s)
  PROVE  Transfers!Full
<1> DEFINE place == [s \in Slot |-> resource_reassembly_table[s].resource]
<1>1. place \in [1 .. Capacity -> Transfers!Live]
  BY LiveIsHeld
<1>2. \A s, t \in Slot : place[s] = place[t] => s = t
  BY DEF RInv, OneSlotPerResource, Holds
<1> QED
  BY <1>1, <1>2 DEF Transfers!Full

LEMMA AdvertisementImplements ==
  ASSUME RInv, RInv', NEW r \in Resource, Advertise(r)
  PROVE  Transfers!Begin(r)
<1>1. PICK s \in Slot : Begins(r, s)
  BY AdvertisementBegins
<1>2. /\ r \in Acceptable /\ \A t \in Slot : ~ Holds(t, r)
      /\ PicksSlot(s)
      /\ resource_reassembly_table'[s] = Installed(r, s)
      /\ \A t \in Slot \ {s} :
           resource_reassembly_table'[t] = resource_reassembly_table[t]
  BY <1>1 DEF Begins, RInv, TypeOK
<1> DEFINE new == [status |-> "receiving", parts |-> {}]
<1>3. Held[r] = Transfers!NoTransfer /\ r \notin Transfers!Live
  BY <1>2, NothingHeld DEF Transfers!Live, Transfers!NoTransfer
<1>4. PartCount[r] \in 1 .. MaxParts
  BY <1>2, PartCounts
<1>5. Held'[r] = new
  <2>1. Holds(s, r)'
    BY <1>2 DEF Holds, Valid, Installed
  <2> QED
    BY <1>2, <2>1, HeldTransferNext DEF Installed
<1>6. \A q \in Resource \ {r} : ~ Holds(s, q)'
  BY <1>2 DEF Holds, Installed
<1>7. CASE ~ Valid(s)
  <2>1. \A q \in Resource \ {r} : Held'[q] = Held[q]
    BY <1>2, <1>6, <1>7, OthersStay DEF Holds
  <2>2. Held' = [Held EXCEPT ![r] = new]
    BY <1>5, <2>1
  <2> QED
    BY <1>3, <1>4, <2>2 DEF Transfers!Begin
<1>8. CASE \A t \in Slot : Valid(t)
  <2>0. PICK lost : lost = resource_reassembly_table[s].resource
    OBVIOUS
  <2>1. lost \in Transfers!Live /\ lost \in Resource /\ lost # r
    BY <1>3, <1>8, <2>0, LiveIsHeld DEF Transfers!Live
  <2>2. \A q \in Resource \ {r, lost} : Held'[q] = Held[q]
    BY <1>2, <1>6, <2>0, OthersStay DEF Holds
  <2>3. Held'[lost] = Transfers!NoTransfer
    <3>1. \A t \in Slot \ {s} : ~ Holds(t, lost)
      BY <1>8, <2>0 DEF RInv, OneSlotPerResource
    <3>2. \A t \in Slot : ~ Holds(t, lost)'
      BY <1>2, <1>6, <2>1, <3>1 DEF Holds, Valid
    <3> QED
      BY <2>1, <3>2, NothingHeldNext
  <2>4. Held' = [Held EXCEPT ![r] = new, ![lost] = Transfers!NoTransfer]
    BY <1>5, <2>1, <2>2, <2>3
  <2> QED
    BY <1>3, <1>4, <1>8, <2>1, <2>4, FullTable DEF Transfers!Begin
<1> QED
  BY <1>2, <1>7, <1>8 DEF PicksSlot

LEMMA PartImplements ==
  ASSUME RInv, RInv', NEW p \in Part, ReceivePart(p)
  PROVE  \E r \in Resource : \E i \in 1 .. PartCount[r] : Transfers!Collect(r, i)
<1>1. PICK s \in Slot, i \in Index : Collects(s, i)
  BY PartCollects
<1> DEFINE r == resource_reassembly_table[s].resource
           bitmap == resource_reassembly_table[s].received_bitmap
           new == resource_reassembly_table'[s]
<1>2. r \in Resource /\ Holds(s, r) /\ i \in 1 .. PartCount[r] /\ i \notin bitmap
  BY <1>1, PartCounts
     DEF Collects, RInv, NamesAreAcceptable, Receiving, Valid, Holds, TotalParts
<1>3. Held[r] = [status |-> "receiving", parts |-> bitmap]
  BY <1>1, <1>2, HeldTransfer DEF Collects, Receiving
<1>4. /\ new.resource = r /\ new.received_bitmap = bitmap \cup {i}
      /\ new.status # "empty" /\ new \in Entry
      /\ Agrees(new, PartCount[r])
  BY <1>1 DEF Collects, TotalParts
<1>5. new.status = IF bitmap \cup {i} = 1 .. PartCount[r]
                     THEN "complete" ELSE "receiving"
  BY <1>4 DEF Agrees, Entry
<1>6. Held'[r] = [status |-> IF bitmap \cup {i} = 1 .. PartCount[r]
                               THEN "complete" ELSE "receiving",
                  parts |-> bitmap \cup {i}]
  <2>1. Holds(s, r)'
    BY <1>4 DEF Holds, Valid
  <2> QED
    BY <1>2, <1>4, <1>5, <2>1, HeldTransferNext
<1>7. \A q \in Resource \ {r} : Held'[q] = Held[q]
  <2>1. \A t \in Slot \ {s} :
          resource_reassembly_table'[t] = resource_reassembly_table[t]
    BY <1>1 DEF Collects, RInv, TypeOK
  <2> QED
    BY <1>4, <2>1, OthersStay DEF Holds
<1>8. Held' = [Held EXCEPT ![r] =
                [status |-> IF bitmap \cup {i} = 1 .. PartCount[r]
                              THEN "complete" ELSE "receiving",
                 parts |-> bitmap \cup {i}]]
  BY <1>2, <1>6, <1>7
<1>9. Transfers!Collect(r, i)
  <2>1. /\ Held[r].parts = bitmap /\ Held[r].status = "receiving"
        /\ i \notin Held[r].parts
    BY <1>2, <1>3
  <2> HIDE DEF Held, bitmap, r
  <2> QED
    BY <1>8, <2>1 DEF Transfers!Collect
<1> QED
  BY <1>2, <1>9

LEMMA EmptyTableHoldsNothing ==
  (\A s \in Slot : resource_reassembly_table[s] = EmptyEntry)
    => Held = [r \in Resource |-> Transfers!NoTransfer]
BY NothingHeld DEF Holds, Valid, EmptyEntry

LEMMA NextImplementsTransfers ==
  RInv /\ RInv' /\ [Next]_vars => [Transfers!Next]_Held
<1> SUFFICES ASSUME RInv, RInv', [Next]_vars
             PROVE  Transfers!Next \/ Held' = Held
  OBVIOUS
<1>1. CASE UNCHANGED vars
  BY <1>1 DEF vars, TransferOf, Holds, Valid
<1>2. ASSUME NEW r \in Resource, Advertise(r) PROVE Transfers!Next
  BY <1>2, AdvertisementImplements DEF Transfers!Next
<1>3. ASSUME NEW p \in Part, ReceivePart(p) PROVE Transfers!Next
  BY <1>3, PartImplements DEF Transfers!Next
<1>4. CASE Restart
  <2>1. \A r \in Resource : Held'[r] = Transfers!NoTransfer
    BY <1>4, NothingHeldNext DEF Restart, Holds, Valid, EmptyEntry
  <2> QED
    BY <2>1 DEF Transfers!Next, Transfers!Restart
<1>5. ASSUME NEW r \in Resource, RefuseAdvertisement(r) PROVE UNCHANGED vars
  BY <1>5 DEF RefuseAdvertisement
<1>6. ASSUME NEW p \in Part, RefusePart(p) PROVE UNCHANGED vars
  BY <1>6 DEF RefusePart
<1> QED
  BY <1>1, <1>2, <1>3, <1>4, <1>5, <1>6 DEF Next

(* Reassembly implements transfers that collect every part once and lose   *)
(* none.                                                                   *)
THEOREM ReassemblyImplementsTransfers == Spec => IsResourceTransfers
<1>1. Init => Transfers!Init
  BY EmptyTableHoldsNothing DEF Init, Transfers!Init
<1> QED
  BY <1>1, InitInv, NextInv, NextImplementsTransfers, PTL
     DEF Spec, IsResourceTransfers, Transfers!Spec
-----------------------------------------------------------------------------
(* The reference models.  Intervals that begin at zero are well-founded    *)
(* under inclusion, so a set of numbers has a least one ...                *)
LEMMA LeastNumber ==
  ASSUME NEW S \in SUBSET Nat, S # {}
  PROVE  \E x \in S : \A y \in S : x <= y
<1> DEFINE R == StrictSubsetOrdering(Nat)
           Below == {0 .. x : x \in S}
<1>1. IsWellFoundedOn(R, FiniteSubsetsOf(Nat))
  BY FS_StrictSubsetOrderingWellFounded
<1>2. Below \subseteq FiniteSubsetsOf(Nat)
  <2>1. \A x \in S : IsFiniteSet(0 .. x)
    BY FS_Interval
  <2> QED BY <2>1 DEF FiniteSubsetsOf
<1>6. Below # {}
  OBVIOUS
<1>3. \E I \in Below : \A J \in Below : ~ (<<J, I>> \in R)
  <2> HIDE DEF R, Below
  <2> QED BY <1>1, <1>2, <1>6, WFMin
<1>4. PICK x \in S : \A y \in S : ~ (<<0 .. y, 0 .. x>> \in R)
  BY <1>3
<1>5. ASSUME NEW y \in S, y < x
      PROVE  FALSE
  <2>1. x \in 0 .. x /\ x \notin 0 .. y /\ 0 .. y \subseteq 0 .. x /\ 0 .. y \subseteq Nat
        /\ 0 .. x \subseteq Nat
    BY <1>5
  <2>2. <<0 .. y, 0 .. x>> \in R
    BY <2>1 DEF StrictSubsetOrdering
  <2> QED BY <1>4, <2>2
<1> QED BY <1>4, <1>5

(* ... and induction over numbers holds for every set of them. *)
LEMMA NatSetInduction ==
  ASSUME NEW S, 0 \in S, \A k \in Nat : k \in S => k + 1 \in S
  PROVE  Nat \subseteq S
<1> SUFFICES ASSUME ~ Nat \subseteq S
             PROVE  FALSE
  OBVIOUS
<1>1. PICK x \in Nat \ S : \A y \in Nat \ S : x <= y
  <2> DEFINE T == Nat \ S
  <2>1. T \in SUBSET Nat /\ T # {}
    OBVIOUS
  <2> HIDE DEF T
  <2>2. \E x \in T : \A y \in T : x <= y
    BY <2>1, LeastNumber
  <2> QED BY <2>2 DEF T
<1>2. x # 0 /\ x - 1 \in Nat
  BY <1>1
<1>3. x - 1 \in S
  BY <1>1, <1>2
<1>4. x - 1 + 1 = x
  BY <1>1
<1> QED BY <1>1, <1>2, <1>3, <1>4

(* A function defined over the numbers to n by its value at 0 and by each   *)
(* value from the one before exists.                                       *)
LEMMA RecursionExists ==
  ASSUME NEW S, NEW base \in S, NEW n \in Nat, NEW step \in [1 .. n -> [S -> S]]
  PROVE  \E F \in [0 .. n -> S] :
           \A i \in 0 .. n : F[i] = IF i = 0 THEN base ELSE step[i][F[i - 1]]
<1> DEFINE Built(m, F) ==
             \A i \in 0 .. m : F[i] = IF i = 0 THEN base ELSE step[i][F[i - 1]]
           Good == {m \in Nat : m <= n => \E F \in [0 .. m -> S] : Built(m, F)}
<1>1. 0 \in Good
  <2>1. [i \in 0 .. 0 |-> base] \in [0 .. 0 -> S] /\ Built(0, [i \in 0 .. 0 |-> base])
    OBVIOUS
  <2> QED BY <2>1
<1>2. ASSUME NEW m \in Nat, m \in Good
      PROVE  m + 1 \in Good
  <2> SUFFICES ASSUME m + 1 <= n
               PROVE  \E F \in [0 .. m + 1 -> S] : Built(m + 1, F)
    OBVIOUS
  <2>1. PICK F \in [0 .. m -> S] : Built(m, F)
    BY <1>2
  <2> DEFINE G == [i \in 0 .. m + 1 |-> IF i <= m THEN F[i] ELSE step[m + 1][F[m]]]
  <2>2. G \in [0 .. m + 1 -> S]
    <3>1. step[m + 1] \in [S -> S] /\ F[m] \in S
      OBVIOUS
    <3> QED BY <3>1
  <2>3. \A i \in 0 .. m : G[i] = F[i]
    OBVIOUS
  <2>4. G[m + 1] = step[m + 1][F[m]]
    OBVIOUS
  <2> HIDE DEF G
  <2>5. ASSUME NEW i \in 0 .. m + 1
        PROVE  G[i] = IF i = 0 THEN base ELSE step[i][G[i - 1]]
    <3>1. CASE i \in 0 .. m
      <4>1. i # 0 => i - 1 \in 0 .. m
        BY <3>1
      <4> QED BY <2>1, <2>3, <3>1, <4>1
    <3>2. CASE i = m + 1
      BY <2>3, <2>4, <3>2
    <3> QED BY <3>1, <3>2
  <2> QED BY <2>2, <2>5
<1>3. Nat \subseteq Good
  <2> HIDE DEF Good
  <2> QED BY <1>1, <1>2, NatSetInduction
<1> QED BY <1>3

(* the functions of the three loops *)
IsFree(F, table) ==
  F = [s \in 0 .. Capacity |->
         IF s = 0 THEN 0
         ELSE IF F[s - 1] = 0 /\ table[s].status = "empty" THEN s ELSE F[s - 1]]

IsMatch(F, table, p) ==
  F = [n \in 0 .. Capacity * Window |->
         IF n = 0 THEN <<>>
         ELSE IF F[n - 1] # <<>> THEN F[n - 1] ELSE Compared(table, p, n)]

IsIndex(F, from, total, bitmap) ==
  F = [n \in 0 .. total |->
         IF n = 0 THEN from
         ELSE IF F[n - 1] < total /\ F[n - 1] + 1 \in bitmap
           THEN F[n - 1] + 1 ELSE F[n - 1]]

LEMMA FreeExists ==
  ASSUME NEW table
  PROVE  \E F : IsFree(F, table) /\ FirstFree(table) = F[Capacity]
<1> DEFINE S == 0 .. Capacity
           step == [s \in 1 .. Capacity |->
                      [before \in S |->
                         IF before = 0 /\ table[s].status = "empty" THEN s ELSE before]]
<1>1. Capacity \in Nat /\ 0 \in S /\ step \in [1 .. Capacity -> [S -> S]]
  BY ReassemblyAssumption
<1>2. \A s \in 1 .. Capacity : \A before \in S :
        step[s][before] = IF before = 0 /\ table[s].status = "empty" THEN s ELSE before
  OBVIOUS
<1>3. PICK F \in [0 .. Capacity -> S] :
        \A s \in 0 .. Capacity : F[s] = IF s = 0 THEN 0 ELSE step[s][F[s - 1]]
  <2> DEFINE base == 0
         n == Capacity
  <2>1. base \in S /\ n \in Nat /\ step \in [1 .. n -> [S -> S]]
    BY <1>1
  <2> HIDE DEF S, step, base, n
  <2>2. \E F \in [0 .. n -> S] :
          \A s \in 0 .. n : F[s] = IF s = 0 THEN base ELSE step[s][F[s - 1]]
    BY <2>1, RecursionExists
  <2> QED BY <2>2 DEF base, n
<1>4. \A s \in 0 .. Capacity : s # 0 => s \in 1 .. Capacity /\ F[s - 1] \in S
  BY <1>1
<1>5. \A s \in 0 .. Capacity :
        F[s] = IF s = 0 THEN 0
               ELSE IF F[s - 1] = 0 /\ table[s].status = "empty" THEN s ELSE F[s - 1]
  <2> HIDE DEF S, step
  <2> QED BY <1>2, <1>3, <1>4
<1>6. IsFree(F, table)
  BY <1>5 DEF IsFree
<1> DEFINE C == CHOOSE G : IsFree(G, table)
<1>7. IsFree(C, table)
  BY <1>6
<1>8. FirstFree(table) = C[Capacity]
  BY DEF FirstFree, IsFree
<1> QED BY <1>7, <1>8

LEMMA MatchExists ==
  ASSUME NEW table, NEW p
  PROVE  \E F : IsMatch(F, table, p) /\ FirstMatch(table, p) = F[Capacity * Window]
<1> DEFINE N == Capacity * Window
           S == {Compared(table, p, n) : n \in 1 .. N} \cup {<<>>}
           step == [n \in 1 .. N |->
                      [before \in S |-> IF before # <<>> THEN before
                                        ELSE Compared(table, p, n)]]
<1>1. N \in Nat /\ <<>> \in S
  BY ReassemblyAssumption
<1>2. step \in [1 .. N -> [S -> S]]
  <2>1. \A n \in 1 .. N : Compared(table, p, n) \in S
    OBVIOUS
  <2> HIDE DEF S, N
  <2> QED BY <2>1
<1>3. \A n \in 1 .. N : \A before \in S :
        step[n][before] = IF before # <<>> THEN before ELSE Compared(table, p, n)
  <2> HIDE DEF S, N
  <2> QED OBVIOUS
<1>4. PICK F \in [0 .. N -> S] :
        \A n \in 0 .. N : F[n] = IF n = 0 THEN <<>> ELSE step[n][F[n - 1]]
  <2> HIDE DEF S, step, N
  <2> QED BY <1>1, <1>2, RecursionExists
<1>5. \A n \in 0 .. N : n # 0 => n \in 1 .. N /\ F[n - 1] \in S
  <2> HIDE DEF S, N
  <2> QED BY <1>1
<1>6. \A n \in 0 .. N :
        F[n] = IF n = 0 THEN <<>>
               ELSE IF F[n - 1] # <<>> THEN F[n - 1] ELSE Compared(table, p, n)
  <2> HIDE DEF S, step, N
  <2> QED BY <1>3, <1>4, <1>5
<1>7. IsMatch(F, table, p)
  <2> HIDE DEF S, step
  <2> QED BY <1>6 DEF IsMatch
<1> DEFINE C == CHOOSE G : IsMatch(G, table, p)
<1>8. IsMatch(C, table, p)
  BY <1>7
<1>9. FirstMatch(table, p) = C[N]
  BY DEF FirstMatch, IsMatch
<1> QED BY <1>8, <1>9

LEMMA IndexExists ==
  ASSUME NEW from \in Nat, NEW total \in Nat, NEW bitmap
  PROVE  \E F : IsIndex(F, from, total, bitmap)
                /\ Consecutive(from, total, bitmap) = F[total]
<1> DEFINE step == [n \in 1 .. total |->
                      [before \in Nat |-> IF before < total /\ before + 1 \in bitmap
                                            THEN before + 1 ELSE before]]
<1>1. step \in [1 .. total -> [Nat -> Nat]]
  OBVIOUS
<1>2. \A n \in 1 .. total : \A before \in Nat :
        step[n][before] = IF before < total /\ before + 1 \in bitmap
                            THEN before + 1 ELSE before
  OBVIOUS
<1>3. PICK F \in [0 .. total -> Nat] :
        \A n \in 0 .. total : F[n] = IF n = 0 THEN from ELSE step[n][F[n - 1]]
  <2> DEFINE base == from
             S == Nat
  <2>1. base \in S /\ step \in [1 .. total -> [S -> S]]
    BY <1>1
  <2> HIDE DEF S, step, base
  <2>2. \E F \in [0 .. total -> S] :
          \A n \in 0 .. total : F[n] = IF n = 0 THEN base ELSE step[n][F[n - 1]]
    BY <2>1, RecursionExists
  <2> QED BY <2>2 DEF base, S
<1>4. \A n \in 0 .. total : n # 0 => n \in 1 .. total /\ F[n - 1] \in Nat
  OBVIOUS
<1>5. \A n \in 0 .. total :
        F[n] = IF n = 0 THEN from
               ELSE IF F[n - 1] < total /\ F[n - 1] + 1 \in bitmap
                 THEN F[n - 1] + 1 ELSE F[n - 1]
  <2> SUFFICES ASSUME NEW n \in 0 .. total, n # 0
               PROVE  F[n] = IF F[n - 1] < total /\ F[n - 1] + 1 \in bitmap
                               THEN F[n - 1] + 1 ELSE F[n - 1]
    BY <1>3
  <2>1. F[n] = step[n][F[n - 1]]
    BY <1>3
  <2> HIDE DEF step
  <2> QED BY <1>2, <1>4, <2>1
<1>6. IsIndex(F, from, total, bitmap)
  BY <1>5 DEF IsIndex
<1> DEFINE C == CHOOSE G : IsIndex(G, from, total, bitmap)
<1>7. IsIndex(C, from, total, bitmap)
  BY <1>6
<1>8. Consecutive(from, total, bitmap) = C[total]
  BY DEF Consecutive, IsIndex
<1> QED BY <1>7, <1>8

-----------------------------------------------------------------------------
(* The loop over the slots ends at the slot that PicksSlot describes. *)
LEMMA FreeIsPicked ==
  LET free == FirstFree(resource_reassembly_table)
      slot == IF free = 0 THEN 1 ELSE free
  IN  slot \in Slot /\ \A s \in Slot : PicksSlot(s) <=> s = slot
<1> DEFINE table == resource_reassembly_table
<1>1. Capacity \in Nat \ {0}
  BY ReassemblyAssumption
<1>2. PICK F : IsFree(F, table) /\ FirstFree(table) = F[Capacity]
  BY FreeExists
<1>3. \A s \in 0 .. Capacity :
        F[s] = IF s = 0 THEN 0
               ELSE IF F[s - 1] = 0 /\ ~ Valid(s) THEN s ELSE F[s - 1]
  BY <1>2 DEF IsFree, Valid
<1> DEFINE Seen(n) == /\ F[n] \in 0 .. n
                      /\ F[n] = 0 => \A t \in 1 .. n : Valid(t)
                      /\ F[n] # 0 => ~ Valid(F[n]) /\ \A t \in 1 .. F[n] - 1 : Valid(t)
           Good == {n \in Nat : n <= Capacity => Seen(n)}
<1>4. 0 \in Good
  BY <1>1, <1>3
<1>5. ASSUME NEW n \in Nat, n \in Good
      PROVE  n + 1 \in Good
  <2> SUFFICES ASSUME n + 1 <= Capacity
               PROVE  Seen(n + 1)
    OBVIOUS
  <2>1. F[n + 1] = IF F[n] = 0 /\ ~ Valid(n + 1) THEN n + 1 ELSE F[n]
    BY <1>1, <1>3
  <2>2. Seen(n)
    BY <1>1, <1>5
  <2>3. \A t \in 1 .. n + 1 : t \in 1 .. n \/ t = n + 1
    OBVIOUS
  <2> QED BY <2>1, <2>2, <2>3
<1>6. Nat \subseteq Good
  <2> HIDE DEF Good
  <2> QED BY <1>4, <1>5, NatSetInduction
<1>7. Seen(Capacity)
  BY <1>1, <1>6
<1> DEFINE f == F[Capacity]
<1>8. /\ f \in 0 .. Capacity
      /\ f = 0 => \A t \in 1 .. Capacity : Valid(t)
      /\ f # 0 => ~ Valid(f) /\ \A t \in 1 .. f - 1 : Valid(t)
  BY <1>7
<1> HIDE DEF f, Good, Seen
<1>9. FirstFree(resource_reassembly_table) = f
  BY <1>2 DEF f
<1>10. CASE f = 0
  BY <1>1, <1>8, <1>9, <1>10 DEF PicksSlot
<1>11. CASE f # 0
  <2>1. f \in Slot
    BY <1>1, <1>8, <1>11
  <2>2. PicksSlot(f)
    BY <1>8, <1>11 DEF PicksSlot
  <2>3. ASSUME NEW s \in Slot, PicksSlot(s)
        PROVE  s = f
    BY <1>1, <1>8, <1>11, <2>1, <2>3 DEF PicksSlot
  <2> QED BY <1>9, <1>11, <2>1, <2>2, <2>3
<1> QED BY <1>10, <1>11

(* The loop over the bitmap ends where Advances says, and nowhere else.    *)
LEMMA IndexAdvances ==
  ASSUME NEW total \in Nat, NEW from \in 0 .. total, NEW bitmap
  PROVE  \A to : Advances(from, total, bitmap, to) <=> to = Consecutive(from, total, bitmap)
<1>1. PICK F : IsIndex(F, from, total, bitmap) /\ Consecutive(from, total, bitmap) = F[total]
  BY IndexExists
<1>2. \A n \in 0 .. total :
        F[n] = IF n = 0 THEN from
               ELSE IF F[n - 1] < total /\ F[n - 1] + 1 \in bitmap
                 THEN F[n - 1] + 1 ELSE F[n - 1]
  BY <1>1 DEF IsIndex
<1> DEFINE Moved(n) == /\ F[n] \in from .. total
                       /\ \A j \in from + 1 .. F[n] : j \in bitmap
                       /\ F[n] = from + n \/ (F[n] < total => F[n] + 1 \notin bitmap)
           Good == {n \in Nat : n <= total => Moved(n)}
<1>3. 0 \in Good
  BY <1>2
<1>4. ASSUME NEW n \in Nat, n \in Good
      PROVE  n + 1 \in Good
  <2> SUFFICES ASSUME n + 1 <= total
               PROVE  Moved(n + 1)
    OBVIOUS
  <2>1. F[n + 1] = IF F[n] < total /\ F[n] + 1 \in bitmap THEN F[n] + 1 ELSE F[n]
    BY <1>2
  <2>2. Moved(n)
    BY <1>4
  <2>3. \A j \in from + 1 .. F[n] + 1 : j \in from + 1 .. F[n] \/ j = F[n] + 1
    BY <2>2
  <2> QED BY <2>1, <2>2, <2>3
<1>5. Nat \subseteq Good
  <2> HIDE DEF Good
  <2> QED BY <1>3, <1>4, NatSetInduction
<1> DEFINE end == F[total]
<1>6. Moved(total)
  BY <1>5
<1>7. /\ end \in from .. total
      /\ \A j \in from + 1 .. end : j \in bitmap
      /\ end < total => end + 1 \notin bitmap
  BY <1>6
<1> HIDE DEF end, Good, Moved
<1>8. Advances(from, total, bitmap, end)
  BY <1>7 DEF Advances
<1>9. ASSUME NEW to, Advances(from, total, bitmap, to)
      PROVE  to = end
  <2>1. /\ to \in from .. total
        /\ \A j \in from + 1 .. to : j \in bitmap
        /\ to < total => to + 1 \notin bitmap
    BY <1>9 DEF Advances
  <2>2. ~ (to < end)
    <3> SUFFICES ASSUME to < end
                 PROVE  FALSE
      OBVIOUS
    <3>1. to + 1 \in from + 1 .. end /\ to < total
      BY <1>7, <2>1
    <3> QED BY <1>7, <2>1, <3>1
  <2>3. ~ (end < to)
    <3> SUFFICES ASSUME end < to
                 PROVE  FALSE
      OBVIOUS
    <3>1. end + 1 \in from + 1 .. to /\ end < total
      BY <1>7, <2>1
    <3> QED BY <1>7, <2>1, <3>1
  <2> QED BY <1>7, <2>1, <2>2, <2>3
<1> QED BY <1>1, <1>8, <1>9 DEF end

(* The comparisons go through the table slot by slot, Window to each.      *)
LEMMA Quotient ==
  ASSUME NEW w \in Nat \ {0}, NEW a \in Nat
  PROVE  /\ a \div w \in Nat /\ a % w \in 0 .. w - 1
         /\ a = w * (a \div w) + (a % w)
OBVIOUS

LEMMA Larger ==
  ASSUME NEW w \in Nat, NEW a \in Nat, NEW b \in Nat, a <= b
  PROVE  w * a <= w * b
<1>1. b - a \in Nat /\ w * (b - a) >= 0
  OBVIOUS
<1>2. w * b = w * a + w * (b - a)
  OBVIOUS
<1> QED BY <1>1, <1>2

First(s) ==
  LET last == resource_reassembly_table[s].consecutive_idx
  IN  IF last = 0 THEN 1 ELSE last

LEMMA FirstType ==
  ASSUME RInv, NEW s \in Slot
  PROVE  First(s) \in Nat \ {0}
<1>1. resource_reassembly_table[s] \in Entry
  BY DEF RInv, TypeOK
<1> QED BY <1>1, ReassemblyAssumption DEF Entry, First

(* where part i of the resource in slot s is compared *)
Place(s, i) == Window * (s - 1) + (i - First(s)) + 1

(* Each comparison is of one part of one slot: *)
LEMMA ComparedIsMatch ==
  ASSUME RInv, NEW p \in Part, NEW n \in 1 .. Capacity * Window
  PROVE  LET s == 1 + ((n - 1) \div Window)
             i == First(s) + ((n - 1) % Window)
         IN  /\ s \in Slot /\ i \in Nat \ {0} /\ Place(s, i) = n
             /\ Compared(resource_reassembly_table, p, n)
                  = IF Matches(p, s, i) THEN <<s, i - 1>> ELSE <<>>
<1> DEFINE table == resource_reassembly_table
           q == (n - 1) \div Window
           k == (n - 1) % Window
           s == 1 + q
           i == First(s) + k
<1>1. Window \in Nat \ {0} /\ Capacity \in Nat \ {0} /\ n - 1 \in Nat
  <2>1. Window \in Nat /\ Capacity \in Nat \ {0}
    BY ReassemblyAssumption
  <2>2. Window = 0 => Capacity * Window = 0
    BY <2>1
  <2> QED BY <2>1, <2>2
<1>2. q \in Nat /\ k \in 0 .. Window - 1 /\ n - 1 = Window * q + k
  BY <1>1, Quotient
<1>3. q < Capacity
  <2> SUFFICES ASSUME Capacity <= q
               PROVE  FALSE
    BY <1>1, <1>2
  <2>1. Window * Capacity <= Window * q
    <3> HIDE DEF q
    <3> QED BY <1>1, <1>2, Larger
  <2>2. Window * Capacity = Capacity * Window
    BY <1>1
  <2> HIDE DEF q, k
  <2> QED BY <1>1, <1>2, <2>1, <2>2
<1>4. s \in Slot
  BY <1>1, <1>2, <1>3
<1>5. table[s] \in Entry /\ (Receiving(s) => table[s].resource \in Resource)
  <2> HIDE DEF q, k, s
  <2> QED BY <1>4, PartCounts DEF RInv, TypeOK, NamesAreAcceptable, Receiving, Valid
<1>6. table[s].consecutive_idx \in Nat
  <2> HIDE DEF q, k, s
  <2> QED BY <1>5, ReassemblyAssumption DEF Entry
<1>7. First(s) \in Nat \ {0} /\ First(s) = (IF table[s].consecutive_idx > 0
                                             THEN table[s].consecutive_idx - 1 ELSE 0) + 1
  <2> HIDE DEF q, k, s
  <2> QED BY <1>6 DEF First
<1>8. i \in Nat \ {0} /\ Place(s, i) = n
  <2>1. i - First(s) = k /\ s - 1 = q /\ i \in Nat \ {0}
    <3> HIDE DEF q, k
    <3> QED BY <1>2, <1>7
  <2>2. Place(s, i) = Window * q + k + 1
    <3> HIDE DEF q, k, s, i
    <3> QED BY <2>1 DEF Place
  <2> HIDE DEF q, k, s, i
  <2> QED BY <1>1, <1>2, <2>1, <2>2
<1>9. Compared(table, p, n) =
        IF ~ Receiving(s) THEN <<>>
        ELSE IF i - 1 >= PartCount[table[s].resource] THEN <<>>
        ELSE IF Hashmap[table[s].resource][i - 1 + 1] = MapHash[table[s].resource][p]
          THEN <<s, i - 1>> ELSE <<>>
  <2> DEFINE start == IF table[s].consecutive_idx > 0 THEN table[s].consecutive_idx - 1 ELSE 0
  <2>1. start + k = i - 1
    <3>1. First(s) = start + 1 /\ start \in Nat
      <4> HIDE DEF q, k, s
      <4> QED BY <1>6, <1>7
    <3> HIDE DEF q, k, start
    <3> QED BY <1>2, <3>1
  <2>2. Compared(table, p, n) =
          IF table[s].status # "receiving" THEN <<>>
          ELSE IF start + k >= PartCount[table[s].resource] THEN <<>>
          ELSE IF Hashmap[table[s].resource][start + k + 1] = MapHash[table[s].resource][p]
            THEN <<s, start + k>> ELSE <<>>
    BY DEF Compared
  <2> HIDE DEF start, q, k, s, i
  <2> QED BY <2>1, <2>2 DEF Receiving
<1>10. Receiving(s) => PartCount[table[s].resource] \in Nat
  BY <1>5, PartCounts
<1>11. Matches(p, s, i) <=> /\ Receiving(s)
                            /\ i <= PartCount[table[s].resource]
                            /\ Hashmap[table[s].resource][i] = MapHash[table[s].resource][p]
  <2>1. First(s) <= i /\ i < First(s) + Window
    <3> HIDE DEF q, k
    <3> QED BY <1>1, <1>2, <1>7
  <2>2. InWindow(s, i) <=> /\ i \in 1 .. PartCount[table[s].resource]
                           /\ First(s) <= i /\ i < First(s) + Window
    BY DEF InWindow, TotalParts, First
  <2> HIDE DEF q, k, s, i
  <2> QED BY <1>8, <1>10, <2>1, <2>2 DEF Matches
<1>12. i - 1 + 1 = i /\ i \in Nat
  <2> HIDE DEF q, k, s, i
  <2> QED BY <1>8
<1> SUFFICES /\ s \in Slot /\ i \in Nat \ {0} /\ Place(s, i) = n
             /\ Compared(table, p, n) = IF Matches(p, s, i) THEN <<s, i - 1>> ELSE <<>>
  OBVIOUS
<1> HIDE DEF q, k, s, i
<1> QED BY <1>4, <1>8, <1>9, <1>10, <1>11, <1>12

(* and no part that may match is left out. *)
LEMMA MatchIsCompared ==
  ASSUME RInv, NEW p \in Part, NEW s \in Slot, NEW i, Matches(p, s, i)
  PROVE  /\ i \in Nat \ {0} /\ i \in Index
         /\ i - First(s) \in 0 .. Window - 1
         /\ Place(s, i) \in 1 .. Capacity * Window
         /\ Compared(resource_reassembly_table, p, Place(s, i)) = <<s, i - 1>>
<1> DEFINE table == resource_reassembly_table
           n == Place(s, i)
           k == i - First(s)
<1>1. Window \in Nat /\ Capacity \in Nat \ {0}
  BY ReassemblyAssumption
<1>2. table[s] \in Entry /\ table[s].resource \in Resource
  BY PartCounts DEF RInv, TypeOK, NamesAreAcceptable, Receiving, Valid, Matches
<1>3. First(s) \in Nat \ {0}
  BY <1>2, ReassemblyAssumption DEF Entry, First
<1>4. /\ i \in 1 .. PartCount[table[s].resource]
      /\ First(s) <= i /\ i < First(s) + Window
  BY DEF Matches, InWindow, TotalParts, First
<1>5. i \in Nat \ {0} /\ i \in Index /\ k \in 0 .. Window - 1
  BY <1>1, <1>2, <1>3, <1>4, PartCounts
<1>6. Window \in Nat \ {0} /\ s - 1 \in Nat /\ s <= Capacity
  BY <1>1, <1>5
<1>7. n = Window * (s - 1) + k + 1 /\ n \in Nat \ {0}
  <2>1. Window * (s - 1) \in Nat
    BY <1>6
  <2> HIDE DEF k
  <2>2. n = Window * (s - 1) + k + 1
    BY DEF Place, k
  <2> HIDE DEF n
  <2> QED BY <1>5, <2>1, <2>2
<1>8. n <= Capacity * Window
  <2>1. Window * s <= Window * Capacity
    BY <1>6, <1>1, Larger
  <2>2. Window * s = Window * (s - 1) + Window /\ Window * Capacity = Capacity * Window
    BY <1>1, <1>6
  <2>3. Window * s \in Int /\ Window * (s - 1) \in Int /\ Window * Capacity \in Int
    BY <1>1, <1>6
  <2> HIDE DEF n, k
  <2> QED BY <1>5, <1>6, <1>7, <2>1, <2>2, <2>3
<1>9. n \in 1 .. Capacity * Window
  <2> HIDE DEF n
  <2> QED BY <1>1, <1>7, <1>8
<1> DEFINE q2 == (n - 1) \div Window
           k2 == (n - 1) % Window
<1>10. q2 \in Nat /\ k2 \in 0 .. Window - 1 /\ n - 1 = Window * q2 + k2
  <2> HIDE DEF n
  <2> QED BY <1>6, <1>9, Quotient
<1>11. q2 = s - 1 /\ k2 = k
  <2> HIDE DEF n, k, q2, k2
  <2>1. Window * q2 + k2 = Window * (s - 1) + k
    <3>1. Window * q2 \in Int /\ Window * (s - 1) \in Int
      BY <1>6, <1>10
    <3> QED BY <1>5, <1>7, <1>10, <3>1
  <2>2. ~ (q2 < s - 1)
    <3> SUFFICES ASSUME q2 < s - 1
                 PROVE  FALSE
      OBVIOUS
    <3>1. Window * (q2 + 1) <= Window * (s - 1)
      BY <1>6, <1>10, Larger
    <3>2. Window * (q2 + 1) = Window * q2 + Window
      BY <1>6, <1>10
    <3> QED BY <1>5, <1>6, <1>10, <2>1, <3>1, <3>2
  <2>3. ~ (s - 1 < q2)
    <3> SUFFICES ASSUME s - 1 < q2
                 PROVE  FALSE
      OBVIOUS
    <3>1. Window * s <= Window * q2
      BY <1>6, <1>10, Larger
    <3>2. Window * s = Window * (s - 1) + Window
      BY <1>6, <1>10
    <3> QED BY <1>5, <1>6, <1>10, <2>1, <3>1, <3>2
  <2>4. q2 = s - 1
    BY <1>6, <1>10, <2>2, <2>3
  <2>5. Window * q2 = Window * (s - 1) /\ Window * q2 \in Int
    BY <1>6, <1>10, <2>4
  <2> QED BY <1>5, <1>10, <2>1, <2>4, <2>5
<1>12. 1 + q2 = s /\ First(s) + k2 = i
  <2>1. First(s) + k = i
    BY <1>3, <1>5
  <2> HIDE DEF n, k, q2, k2
  <2> QED BY <1>6, <1>10, <1>11, <2>1
<1>13. Compared(table, p, n) =
         LET t == 1 + q2
             j == First(t) + k2
         IN  IF Matches(p, t, j) THEN <<t, j - 1>> ELSE <<>>
  <2> HIDE DEF n
  <2> QED BY <1>9, ComparedIsMatch
<1>14. Compared(table, p, n) = <<s, i - 1>>
  <2> HIDE DEF n, q2, k2
  <2> QED BY <1>12, <1>13
<1> QED BY <1>5, <1>9, <1>14

(* The search answers with the first comparison that is a match. *)
LEMMA MatchIsFirst ==
  ASSUME NEW table, NEW p
  PROVE  LET match == FirstMatch(table, p)
         IN  \/ /\ match = <<>>
                /\ \A n \in 1 .. Capacity * Window : Compared(table, p, n) = <<>>
             \/ \E n \in 1 .. Capacity * Window :
                  /\ match = Compared(table, p, n) /\ match # <<>>
                  /\ \A l \in 1 .. n - 1 : Compared(table, p, l) = <<>>
<1> DEFINE N == Capacity * Window
<1>1. N \in Nat
  BY ReassemblyAssumption
<1>2. PICK F : IsMatch(F, table, p) /\ FirstMatch(table, p) = F[N]
  BY MatchExists
<1>3. \A n \in 0 .. N :
        F[n] = IF n = 0 THEN <<>>
               ELSE IF F[n - 1] # <<>> THEN F[n - 1] ELSE Compared(table, p, n)
  BY <1>2 DEF IsMatch
<1> DEFINE Found(n) ==
             \/ F[n] = <<>> /\ \A m \in 1 .. n : Compared(table, p, m) = <<>>
             \/ \E m \in 1 .. n : /\ F[n] = Compared(table, p, m) /\ F[n] # <<>>
                                  /\ \A l \in 1 .. m - 1 : Compared(table, p, l) = <<>>
           Good == {n \in Nat : n <= N => Found(n)}
<1> HIDE DEF N
<1>4. 0 \in Good
  BY <1>1, <1>3
<1>5. ASSUME NEW n \in Nat, n \in Good
      PROVE  n + 1 \in Good
  <2> SUFFICES ASSUME n + 1 <= N
               PROVE  Found(n + 1)
    OBVIOUS
  <2>1. F[n + 1] = IF F[n] # <<>> THEN F[n] ELSE Compared(table, p, n + 1)
    BY <1>1, <1>3
  <2>2. Found(n)
    BY <1>1, <1>5
  <2>3. CASE F[n] # <<>>
    BY <2>1, <2>2, <2>3
  <2>4. CASE F[n] = <<>>
    <3>1. \A m \in 1 .. n : Compared(table, p, m) = <<>>
      BY <2>2, <2>4
    <3>2. F[n + 1] = Compared(table, p, n + 1)
      BY <2>1, <2>4
    <3>3. \A m \in 1 .. n + 1 : m \in 1 .. n \/ m = n + 1
      OBVIOUS
    <3>4. \A m \in 1 .. n + 1 - 1 : m \in 1 .. n
      OBVIOUS
    <3>5. CASE F[n + 1] = <<>>
      BY <3>1, <3>2, <3>3, <3>5
    <3>6. CASE F[n + 1] # <<>>
      <4>1. n + 1 \in 1 .. n + 1
        OBVIOUS
      <4> QED BY <3>1, <3>2, <3>4, <3>6, <4>1
    <3> QED BY <3>5, <3>6
  <2> QED BY <2>3, <2>4
<1>6. Nat \subseteq Good
  <2> HIDE DEF Good
  <2> QED BY <1>4, <1>5, NatSetInduction
<1>7. Found(N)
  BY <1>1, <1>6
<1> QED BY <1>2, <1>7 DEF N

(* It is the one match where Lands says that the part lands. *)
LEMMA MatchLands ==
  ASSUME RInv, NEW p \in Part
  PROVE  LET match == FirstMatch(resource_reassembly_table, p)
         IN  /\ match = <<>> => \A s \in Slot, i \in Index : ~ Matches(p, s, i)
             /\ match # <<>> =>
                  \E s \in Slot, i \in Index :
                    /\ match = <<s, i - 1>> /\ Lands(p, s, i)
                    /\ \A t \in Slot, j \in Index : Lands(p, t, j) => t = s /\ j = i
<1> DEFINE table == resource_reassembly_table
           match == FirstMatch(table, p)
<1> SUFFICES /\ match = <<>> => \A s \in Slot, i \in Index : ~ Matches(p, s, i)
             /\ match # <<>> =>
                  \E s \in Slot, i \in Index :
                    /\ match = <<s, i - 1>> /\ Lands(p, s, i)
                    /\ \A t \in Slot, j \in Index : Lands(p, t, j) => t = s /\ j = i
  OBVIOUS
<1>1. Window \in Nat /\ Capacity \in Nat \ {0} /\ Index \subseteq Nat \ {0}
  BY ReassemblyAssumption, PartCounts
<1>2. CASE match = <<>>
  <2>1. \A n \in 1 .. Capacity * Window : Compared(table, p, n) = <<>>
    <3>1. ~ \E n \in 1 .. Capacity * Window : match = Compared(table, p, n) /\ match # <<>>
      BY <1>2
    <3> QED BY <3>1, MatchIsFirst
  <2>2. ASSUME NEW s \in Slot, NEW i \in Index, Matches(p, s, i)
        PROVE  FALSE
    <3>1. <<s, i - 1>> # <<>>
      OBVIOUS
    <3> HIDE DEF match
    <3> QED BY <2>1, <2>2, <3>1, MatchIsCompared
  <2> QED BY <1>2, <2>2
<1>3. CASE match # <<>>
  <2>1. PICK n \in 1 .. Capacity * Window :
          /\ match = Compared(table, p, n)
          /\ \A l \in 1 .. n - 1 : Compared(table, p, l) = <<>>
    BY <1>3, MatchIsFirst
  <2> DEFINE s == 1 + ((n - 1) \div Window)
             i == First(s) + ((n - 1) % Window)
  <2> HIDE DEF match
  <2>2. /\ s \in Slot /\ i \in Nat \ {0} /\ Place(s, i) = n
        /\ Compared(table, p, n) = IF Matches(p, s, i) THEN <<s, i - 1>> ELSE <<>>
    BY ComparedIsMatch
  <2> HIDE DEF s, i
  <2>3. Matches(p, s, i) /\ match = <<s, i - 1>>
    BY <1>3, <2>1, <2>2
  <2>4. i \in Index /\ i - First(s) \in 0 .. Window - 1
    BY <2>2, <2>3, MatchIsCompared
  <2>5. ASSUME NEW t \in Slot, NEW j \in Index, Matches(p, t, j)
        PROVE  s < t \/ (s = t /\ i <= j)
    <3>1. /\ j - First(t) \in 0 .. Window - 1
          /\ Place(t, j) \in 1 .. Capacity * Window
          /\ Compared(table, p, Place(t, j)) = <<t, j - 1>>
      BY <2>5, MatchIsCompared
    <3>2. n <= Place(t, j)
      <4>1. <<t, j - 1>> # <<>>
        OBVIOUS
      <4>2. Place(t, j) \notin 1 .. n - 1
        BY <2>1, <3>1, <4>1
      <4>3. Capacity * Window \in Nat
        BY <1>1
      <4> QED BY <3>1, <4>2, <4>3
    <3>3. First(t) \in Int /\ First(s) \in Int
      BY <2>2, FirstType
    <3> DEFINE k == i - First(s)
               l == j - First(t)
    <3>4. k \in 0 .. Window - 1 /\ l \in 0 .. Window - 1
          /\ i = First(s) + k /\ j = First(t) + l
      BY <1>1, <2>2, <2>4, <3>1, <3>3
    <3>5. n = Window * (s - 1) + k + 1 /\ Place(t, j) = Window * (t - 1) + l + 1
      BY <2>2 DEF Place
    <3>6. Window \in Nat /\ s \in Nat \ {0} /\ t \in Nat \ {0}
      BY <1>1, <2>2
    <3> HIDE DEF k, l
    <3>7. CASE t < s
      <4>1. Window * t <= Window * (s - 1)
        BY <3>6, <3>7, Larger
      <4>2. Window * t = Window * (t - 1) + Window
        BY <3>6
      <4>3. Window * t \in Int /\ Window * (t - 1) \in Int /\ Window * (s - 1) \in Int
        BY <3>6
      <4> QED BY <3>2, <3>4, <3>5, <3>6, <4>1, <4>2, <4>3
    <3>8. CASE t = s
      <4>1. Window * (s - 1) \in Int
        BY <3>6
      <4>2. k <= l
        BY <3>2, <3>4, <3>5, <3>6, <3>8, <4>1
      <4> QED BY <3>3, <3>4, <3>6, <3>8, <4>2
    <3> QED BY <3>6, <3>7, <3>8
  <2>6. Lands(p, s, i)
    BY <2>3, <2>5 DEF Lands
  <2>7. ASSUME NEW t \in Slot, NEW j \in Index, Lands(p, t, j)
        PROVE  t = s /\ j = i
    <3>1. s < t \/ (s = t /\ i <= j)
      BY <2>5, <2>7 DEF Lands
    <3>2. t < s \/ (t = s /\ j <= i)
      BY <2>2, <2>3, <2>4, <2>7 DEF Lands
    <3>3. s \in Nat /\ t \in Nat /\ i \in Nat /\ j \in Nat
      BY <1>1, <2>2
    <3> QED BY <3>1, <3>2, <3>3
  <2> QED BY <2>2, <2>3, <2>4, <2>6, <2>7
<1> QED BY <1>2, <1>3

LEMMA InstalledEntry ==
  ASSUME NEW r, NEW s
  PROVE  Installed(r, s) = [status |-> "receiving", resource |-> r, received_count |-> 0,
                            consecutive_idx |-> 0, received_bitmap |-> {}]
BY DEF Installed

LEMMA AdvertisementsAlwaysAgree == RInv => AdvertisementsAgree
<1> SUFFICES ASSUME RInv, NEW r \in Resource
             PROVE  LET table == resource_reassembly_table
                    IN  /\ Advertise(r) =>
                             advertise(table, r)
                               = <<process_model(2, TRUE), resource_reassembly_table'>>
                        /\ advertise(table, r)[2] # table <=>
                             r \in Acceptable /\ \A s \in Slot : ~ Holds(s, r)
  BY DEF AdvertisementsAgree
<1> DEFINE table == resource_reassembly_table
           slot == IF FirstFree(table) = 0 THEN 1 ELSE FirstFree(table)
           fresh == [status |-> "receiving", resource |-> r, received_count |-> 0,
                     consecutive_idx |-> 0, received_bitmap |-> {}]
<1>1. slot \in Slot /\ \A s \in Slot : PicksSlot(s) <=> s = slot
  BY FreeIsPicked
<1>2. \A s : Installed(r, s) = fresh
  BY InstalledEntry
<1>3. r \in Acceptable <=> ~ (PartCount[r] = 0 \/ PartCount[r] > MaxParts)
  BY PartCounts, ReassemblyAssumption DEF Acceptable
<1>4. (\E s \in Slot : table[s].status # "empty" /\ table[s].resource = r)
        <=> \E s \in Slot : Holds(s, r)
  BY DEF Holds, Valid
<1>5. advertise(table, r) =
        IF r \notin Acceptable THEN <<"INVAL", table>>
        ELSE IF \E s \in Slot : Holds(s, r) THEN <<"DUPLICATE", table>>
        ELSE <<"ADVERTISED", [table EXCEPT ![slot] = fresh]>>
  <2> HIDE DEF slot, fresh
  <2> QED BY <1>3, <1>4 DEF advertise, slot, fresh
<1>6. process_model(2, TRUE) = "ADVERTISED"
  BY DEF process_model
<1> HIDE DEF slot
<1>7. ASSUME Advertise(r)
      PROVE  advertise(table, r) = <<process_model(2, TRUE), resource_reassembly_table'>>
  <2>1. resource_reassembly_table' = [table EXCEPT ![slot] = fresh]
    BY <1>1, <1>2, <1>7 DEF Advertise
  <2>2. r \in Acceptable /\ ~ \E s \in Slot : Holds(s, r)
    BY <1>7 DEF Advertise
  <2> HIDE DEF fresh
  <2> QED BY <1>5, <1>6, <2>1, <2>2
<1>8. ASSUME r \in Acceptable, \A s \in Slot : ~ Holds(s, r)
      PROVE  advertise(table, r)[2] # table
  <2>1. advertise(table, r)[2] = [table EXCEPT ![slot] = fresh]
    <3> HIDE DEF fresh
    <3> QED BY <1>5, <1>8
  <2>2. fresh.status = "receiving" /\ fresh.resource = r
    BY DEF EmptyEntry
  <2>3. [table EXCEPT ![slot] = fresh][slot] = fresh
    <3>1. slot \in DOMAIN table
      BY <1>1 DEF RInv, TypeOK
    <3> HIDE DEF fresh
    <3> QED BY <3>1
  <2>4. ~ (table[slot].status = "receiving" /\ table[slot].resource = r)
    BY <1>1, <1>8 DEF Holds, Valid
  <2> HIDE DEF fresh
  <2> QED BY <2>1, <2>2, <2>3, <2>4
<1>9. ASSUME advertise(table, r)[2] # table
      PROVE  r \in Acceptable /\ \A s \in Slot : ~ Holds(s, r)
  <2> HIDE DEF fresh
  <2> QED BY <1>5, <1>9
<1> QED BY <1>7, <1>8, <1>9

LEMMA PartsAlwaysAgree == RInv => PartsAgree
<1> SUFFICES ASSUME RInv, NEW p \in Part
             PROVE  LET table == resource_reassembly_table
                        after == resource_reassembly_table'
                    IN  /\ ReceivePart(p) =>
                             update_part(table, p)
                               \in {<<process_model(1, TRUE), after>>, <<"COMPLETE", after>>}
                        /\ update_part(table, p)[1] \in {"DUPLICATE", "INVAL"} <=>
                             \A s \in Slot, i \in Index :
                               Lands(p, s, i) => i \in table[s].received_bitmap
  BY DEF PartsAgree
<1> DEFINE table == resource_reassembly_table
           after == resource_reassembly_table'
           match == FirstMatch(table, p)
<1>1. process_model(1, TRUE) = "PART_ACCEPTED"
  BY DEF process_model
<1>2. CASE match = <<>>
  <2>1. update_part(table, p) = <<"INVAL", table>>
    BY <1>2 DEF update_part
  <2>2. \A s \in Slot, i \in Index : ~ Lands(p, s, i)
    BY <1>2, MatchLands DEF Lands
  <2>3. update_part(table, p)[1] = "INVAL"
    BY <2>1
  <2>4. ~ ReceivePart(p)
    BY <2>2 DEF ReceivePart
  <2> HIDE DEF match
  <2> QED BY <2>2, <2>3, <2>4
<1>3. CASE match # <<>>
  <2>1. PICK s \in Slot, i \in Index :
          /\ match = <<s, i - 1>> /\ Lands(p, s, i)
          /\ \A t \in Slot, j \in Index : Lands(p, t, j) => t = s /\ j = i
    BY <1>3, MatchLands
  <2> DEFINE entry == table[s]
             total == PartCount[entry.resource]
             bitmap == entry.received_bitmap \cup {i}
             to == Consecutive(entry.consecutive_idx, total, bitmap)
             new == Recorded(entry, i - 1)
  <2>2. match[1] = s /\ match[2] = i - 1 /\ i - 1 + 1 = i
    <3>1. i \in Nat
      BY PartCounts
    <3> HIDE DEF match
    <3> QED BY <2>1, <3>1
  <2>3. update_part(table, p) =
          IF i \in entry.received_bitmap THEN <<"DUPLICATE", table>>
          ELSE <<IF Whole(entry) THEN "COMPLETE" ELSE "PART_ACCEPTED",
                 [table EXCEPT ![s] = new]>>
    <3>1. update_part(table, p) =
            IF match = <<>> THEN <<"INVAL", table>>
            ELSE IF match[2] + 1 \in table[match[1]].received_bitmap THEN <<"DUPLICATE", table>>
            ELSE <<IF Whole(table[match[1]]) THEN "COMPLETE" ELSE "PART_ACCEPTED",
                   [table EXCEPT ![match[1]] = Recorded(table[match[1]], match[2])]>>
      BY DEF update_part
    <3> HIDE DEF match
    <3> QED BY <1>3, <2>2, <3>1
  <2> HIDE DEF match
  <2>4. update_part(table, p)[1] \in {"DUPLICATE", "INVAL"} <=> i \in entry.received_bitmap
    <3> HIDE DEF new
    <3> QED BY <2>3
  <2>5. (\A t \in Slot, j \in Index : Lands(p, t, j) => j \in table[t].received_bitmap)
          <=> i \in entry.received_bitmap
    BY <2>1
  <2>6. ASSUME ReceivePart(p)
        PROVE  update_part(table, p)
                 \in {<<process_model(1, TRUE), after>>, <<"COMPLETE", after>>}
    <3>1. i \notin entry.received_bitmap /\ Records(s, i)
      BY <2>1, <2>6 DEF ReceivePart
    <3>2. /\ entry \in Entry /\ entry.resource \in Acceptable /\ Agrees(entry, total)
      <4>1. Receiving(s)
        BY <2>1 DEF Lands, Matches
      <4> QED
        BY <4>1, ProgressOfEntries
           DEF RInv, TypeOK, NamesAreAcceptable, Receiving, Valid, TotalParts
    <3>3. total \in Nat /\ entry.consecutive_idx \in 0 .. total
      <4>1. total \in 1 .. MaxParts /\ entry.consecutive_idx \in Nat
        BY <3>2, PartCounts, ReassemblyAssumption DEF Entry
      <4>2. 1 .. entry.consecutive_idx \subseteq 1 .. total
        BY <3>2 DEF Agrees
      <4>3. entry.consecutive_idx = 0 \/ entry.consecutive_idx \in 1 .. entry.consecutive_idx
        BY <4>1
      <4> QED BY <4>1, <4>2, <4>3, ReassemblyAssumption
    <3>4. PICK end :
            /\ Advances(entry.consecutive_idx, total, bitmap, end)
            /\ after = [table EXCEPT ![s] =
                 [status |-> IF Whole(entry) THEN "complete" ELSE "receiving",
                  resource |-> entry.resource,
                  received_count |-> entry.received_count + 1,
                  consecutive_idx |-> end,
                  received_bitmap |-> bitmap]]
      BY <3>1 DEF Records, TotalParts, Whole
    <3>5. end = to
      <4> HIDE DEF total, bitmap
      <4> QED BY <3>3, <3>4, IndexAdvances DEF to
    <3>6. new = [status |-> IF Whole(entry) THEN "complete" ELSE "receiving",
                 resource |-> entry.resource,
                 received_count |-> entry.received_count + 1,
                 consecutive_idx |-> to,
                 received_bitmap |-> bitmap]
      BY <2>2 DEF Recorded
    <3>7. after = [table EXCEPT ![s] = new]
      <4> HIDE DEF to, bitmap, new
      <4> QED BY <3>4, <3>5, <3>6
    <3>8. update_part(table, p)
            = <<IF Whole(entry) THEN "COMPLETE" ELSE "PART_ACCEPTED", after>>
      <4> HIDE DEF new
      <4> QED BY <2>3, <3>1, <3>7
    <3> QED BY <1>1, <3>8
  <2> QED BY <2>4, <2>5, <2>6
<1> QED BY <1>2, <1>3

LEMMA RestartsAlwaysAgree == RInv /\ [Next]_vars => RestartsAgree
<1> SUFFICES ASSUME RInv, Next, restarts' # restarts
             PROVE  resource_reassembly_table' = reassembly_init(resource_reassembly_table)
  BY DEF RestartsAgree, vars
<1>1. Restart
  BY DEF Next, Advertise, RefuseAdvertisement, ReceivePart, RefusePart, vars
<1>2. DOMAIN resource_reassembly_table = Slot
  BY DEF RInv, TypeOK
<1> QED BY <1>1, <1>2 DEF Restart, reassembly_init

(* Every advertisement, part and restart does what the loops of the        *)
(* reference model do, for any table, any window and any hashes, those     *)
(* that occur twice among them.                                            *)
THEOREM ReassemblyAgreesWithModel ==
  Spec => [][AdvertisementsAgree /\ PartsAgree /\ RestartsAgree]_vars
<1>1. RInv /\ [Next]_vars
        => [AdvertisementsAgree /\ PartsAgree /\ RestartsAgree]_vars
  BY AdvertisementsAlwaysAgree, PartsAlwaysAgree, RestartsAlwaysAgree
<1> QED BY <1>1, RInvAlways, PTL DEF Spec

(* What a run computes once of envelopes, parts and advertisements is all  *)
(* that ResourcesFollowContract asks for beyond that.                      *)
THEOREM ResourcesFollowModels == ResourceTables => (Spec => ResourcesFollowContract)
<1> SUFFICES ASSUME ResourceTables
             PROVE  Spec => ResourcesFollowContract
  OBVIOUS
<1>1. RInv /\ [Next]_vars
        => [/\ Started => ResourceTables
            /\ AdvertisementsAgree /\ PartsAgree /\ RestartsAgree]_vars
  BY AdvertisementsAlwaysAgree, PartsAlwaysAgree, RestartsAlwaysAgree
<1> QED BY <1>1, RInvAlways, PTL DEF Spec, ResourcesFollowContract
===============================================================================
