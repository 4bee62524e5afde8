-------------------------- MODULE PersistenceProofs --------------------------
(***************************************************************************)
(* A node has one identity for life, for any identities the generator may  *)
(* produce and any sequence of failures.                                   *)
(***************************************************************************)
EXTENDS PersistenceContract, TLAPS

USE DEF Part, Header, Checksum, Keys, Hash, Padding

(* A record holds one identity only. *)
LEMMA LoadsOne ==
  ASSUME NEW bytes, NEW id \in Identity, Loads(bytes, id)
  PROVE  /\ StoredIn(bytes) = id
         /\ \A other \in Identity : Loads(bytes, other) => other = id
BY DEF Loads, StoredIn

LEMMA LoadsNone ==
  ASSUME NEW bytes, \A id \in Identity : ~ Loads(bytes, id)
  PROVE  StoredIn(bytes) = None
BY DEF StoredIn

LEMMA BlankLoadsNone == \A id \in Identity : ~ Loads(Blank, id)
BY PersistenceAssumption DEF Loads, Blank

-----------------------------------------------------------------------------
(* What is programmed so far is of the identity in RAM, and the rest of    *)
(* the page is erased.                                                     *)
Programming ==
  command = "program" =>
    /\ identity_current \in Identity
    /\ \A k \in Part :
         /\ page[k] \in {Erased, Record(identity_current)[k]}
         /\ k >= part => page[k] = Erased

Creating ==
  command = "erase" => identity_current \in Identity /\ page = Blank

AnnouncedLoads == \A id \in announced : Loads(page, id)

PInv ==
  /\ TypeOK
  /\ Creating
  /\ Programming
  /\ AnnouncedLoads
  /\ InUseIsStored

(* Programming a part makes or breaks no record of another identity. *)
LEMMA ProgrammingLoads ==
  ASSUME PInv, command = "program", part \in Part, Programmed(part)
  PROVE  /\ page' \in [Part -> Identity \cup {Erased, Fixed}]
         /\ \A k \in Part : page'[k] \in {Erased, Record(identity_current)[k]}
         /\ \A k \in Part : k > part => page'[k] = Erased
         /\ \A id \in Identity : Loads(page, id) => page' = page
         /\ \A id \in Identity : Loads(page', id) => id = identity_current
<1>1. /\ identity_current \in Identity
      /\ \A k \in Part : page[k] \in {Erased, Record(identity_current)[k]}
      /\ \A k \in Part : k >= part => page[k] = Erased
      /\ page \in [Part -> Identity \cup {Erased, Fixed}]
  BY DEF PInv, Programming, TypeOK
<1>2. PICK value \in {page[part], Record(identity_current)[part]} :
        page' = [page EXCEPT ![part] = value]
  BY DEF Programmed
<1>3. Record(identity_current)[part] \in Identity \cup {Erased, Fixed}
  BY <1>1 DEF Record
<1>4. value \in {Erased, Record(identity_current)[part]}
  BY <1>1, <1>2
<1>5. page' \in [Part -> Identity \cup {Erased, Fixed}]
  BY <1>1, <1>2, <1>3, <1>4
<1>6. \A k \in Part : page'[k] \in {Erased, Record(identity_current)[k]}
  BY <1>1, <1>2, <1>4
<1>7. \A k \in Part : k > part => page'[k] = Erased
  BY <1>1, <1>2
<1>8. ASSUME NEW id \in Identity, Loads(page, id) PROVE page' = page
  <2>1. page[part] = Erased
    BY <1>1
  <2>2. part = Padding
    BY <2>1, <1>8, PersistenceAssumption DEF Loads
  <2>3. value = Erased
    BY <2>2, <1>4 DEF Record
  <2>4. QED
    BY <2>1, <2>3, <1>1, <1>2
<1>9. ASSUME NEW id \in Identity, Loads(page', id) PROVE id = identity_current
  <2>1. page'[Keys] \in {Erased, identity_current}
    BY <1>6 DEF Record
  <2>2. QED
    BY <2>1, <1>9, PersistenceAssumption DEF Loads
<1>10. QED
  BY <1>5, <1>6, <1>7, <1>8, <1>9

LEMMA PInvInit == Init => PInv
BY BlankLoadsNone DEF Init, PInv, TypeOK, Creating, Programming, AnnouncedLoads,
   InUseIsStored, Blank

LEMMA PInvNext == PInv /\ [Next]_vars => PInv'
<1> SUFFICES ASSUME PInv, [Next]_vars PROVE PInv'
  OBVIOUS
<1> USE DEF PInv, TypeOK, Creating, Programming, AnnouncedLoads, InUseIsStored
<1>1. CASE LoadIdentity
  <2>1. PICK id \in Identity : Loads(page, id) /\ identity_current' = id /\ Announces(id)
    BY <1>1 DEF LoadIdentity
  <2>2. \A other \in Identity : Loads(page, other) => other = id
    BY <2>1, LoadsOne
  <2>3. QED
    BY <1>1, <2>1, <2>2 DEF LoadIdentity, Announces
<1>2. CASE CreateIdentity
  BY <1>2, BlankLoadsNone DEF CreateIdentity
<1>3. CASE RefuseRecord \/ LoadFails
  BY <1>3 DEF RefuseRecord, LoadFails, Fails
<1>4. CASE EraseSector
  <2>1. page = Blank /\ page' = Blank /\ identity_current \in Identity
    BY <1>4 DEF EraseSector
  <2>2. \A k \in Part : page'[k] = Erased
    BY <2>1 DEF Blank
  <2>3. QED
    BY <1>4, <2>1, <2>2, BlankLoadsNone DEF EraseSector
<1>5. CASE EraseFails
  BY <1>5 DEF EraseFails, Fails
<1>6. CASE ProgramPart
  <2>1. command = "program" /\ part \in Part /\ Programmed(part)
        /\ part' = part + 1 /\ UNCHANGED <<identity_current, command, announced>>
    BY <1>6 DEF ProgramPart
  <2>2. /\ page' \in [Part -> Identity \cup {Erased, Fixed}]
        /\ \A k \in Part : page'[k] \in {Erased, Record(identity_current)[k]}
        /\ \A k \in Part : k > part => page'[k] = Erased
        /\ \A id \in Identity : Loads(page, id) => page' = page
        /\ \A id \in Identity : Loads(page', id) => id = identity_current
    BY <2>1, ProgrammingLoads
  <2>3. TypeOK'
    BY <2>1, <2>2
  <2>4. Programming'
    BY <2>1, <2>2 DEF Record
  <2>5. AnnouncedLoads'
    BY <2>1, <2>2
  <2>6. InUseIsStored'
    BY <2>1, <2>2
  <2>7. QED
    BY <2>1, <2>3, <2>4, <2>5, <2>6
<1>7. CASE ProgramFails
  <2>1. command = "program" /\ part \in Part /\ Programmed(part) /\ Fails
        /\ UNCHANGED <<identity_current, part>>
    BY <1>7 DEF ProgramFails
  <2>2. /\ page' \in [Part -> Identity \cup {Erased, Fixed}]
        /\ \A id \in Identity : Loads(page, id) => page' = page
        /\ \A id \in Identity : Loads(page', id) => id = identity_current
    BY <2>1, ProgrammingLoads
  <2>3. QED
    BY <2>1, <2>2 DEF Fails
<1>8. CASE ReadBack
  <2>1. page = Record(identity_current) /\ identity_current \in Identity
    BY <1>8 DEF ReadBack
  <2>2. Loads(page, identity_current)
    BY <2>1 DEF Loads, Record
  <2>3. QED
    BY <1>8, <2>1, <2>2 DEF ReadBack, Announces
<1>9. CASE ReadBackFails
  BY <1>9 DEF ReadBackFails, Fails
<1>10. CASE PowerLoss
  BY <1>10 DEF PowerLoss
<1>11. CASE UNCHANGED vars
  BY <1>11 DEF vars
<1>12. QED
  BY <1>1, <1>2, <1>3, <1>4, <1>5, <1>6, <1>7, <1>8, <1>9, <1>10, <1>11 DEF Next

LEMMA PInvAlways == Spec => []PInv
BY PInvInit, PInvNext, PTL DEF Spec

(* The node's state always has its type. *)
THEOREM PersistenceTypeCorrect == Spec => []TypeOK
<1>1. PInv => TypeOK
  BY DEF PInv
<1>2. QED
  BY <1>1, PInvAlways, PTL

(* An identity in use beside a saved one is the saved one: identity_save   *)
(* is only reached over a blank sector, and a record becomes loadable only *)
(* as the record of the identity in RAM.                                   *)
THEOREM InUseIsAlwaysStored == Spec => []InUseIsStored
<1>1. PInv => InUseIsStored
  BY DEF PInv
<1>2. QED
  BY <1>1, PInvAlways, PTL

-----------------------------------------------------------------------------
LEMMA StoreStep ==
  ASSUME PInv, [Next]_vars
  PROVE  [Store!Next]_<<StoredIn(page), announced>>
<1> USE DEF Store!Next, Store!Announce, Store!Store
<1>1. CASE LoadIdentity
  <2>1. PICK id \in Identity : Loads(page, id) /\ Announces(id)
    BY <1>1 DEF LoadIdentity
  <2>2. StoredIn(page) = id /\ id # None
    BY <2>1, LoadsOne, PersistenceAssumption
  <2>3. QED
    BY <1>1, <2>1, <2>2 DEF LoadIdentity, Announces
<1>2. CASE CreateIdentity
  BY <1>2 DEF CreateIdentity
<1>3. CASE RefuseRecord \/ LoadFails
  BY <1>3 DEF RefuseRecord, LoadFails, Fails
<1>4. CASE EraseSector
  BY <1>4 DEF EraseSector, PInv, Creating
<1>5. CASE EraseFails
  BY <1>5 DEF EraseFails, Fails, PInv, Creating
<1>6. CASE ProgramPart \/ ProgramFails
  <2>1. command = "program" /\ part \in Part /\ Programmed(part) /\ announced' = announced
    BY <1>6 DEF ProgramPart, ProgramFails, Fails
  <2>2. /\ \A id \in Identity : Loads(page, id) => page' = page
        /\ \A id \in Identity : Loads(page', id) => id = identity_current
    BY <2>1, ProgrammingLoads
  <2>3. CASE \E id \in Identity : Loads(page, id)
    BY <2>1, <2>2, <2>3
  <2>4. CASE \A id \in Identity : ~ Loads(page', id) /\ ~ Loads(page, id)
    BY <2>1, <2>4, LoadsNone
  <2>5. CASE (\A id \in Identity : ~ Loads(page, id)) /\ \E id \in Identity : Loads(page', id)
    <3>1. PICK id \in Identity : Loads(page', id)
      BY <2>5
    <3>2. StoredIn(page) = None /\ StoredIn(page') = id
      BY <2>5, <3>1, LoadsOne, LoadsNone
    <3>3. QED
      BY <2>1, <3>2
  <2>6. QED
    BY <2>3, <2>4, <2>5
<1>7. CASE ReadBack
  <2>1. page = Record(identity_current) /\ identity_current \in Identity
    BY <1>7 DEF ReadBack, PInv, Programming
  <2>2. Loads(page, identity_current)
    BY <2>1 DEF Loads, Record
  <2>3. StoredIn(page) = identity_current /\ identity_current # None
    BY <2>1, <2>2, LoadsOne, PersistenceAssumption
  <2>4. QED
    BY <1>7, <2>3 DEF ReadBack, Announces
<1>8. CASE ReadBackFails
  BY <1>8 DEF ReadBackFails, Fails
<1>9. CASE PowerLoss
  BY <1>9 DEF PowerLoss
<1>10. CASE UNCHANGED vars
  BY <1>10 DEF vars
<1>11. QED
  BY <1>1, <1>2, <1>3, <1>4, <1>5, <1>6, <1>7, <1>8, <1>9, <1>10 DEF Next

(* Whatever fails and whenever power is lost, a node takes one identity    *)
(* for life and announces none but that one.                               *)
THEOREM OneIdentityForLife == Spec => IdentityIsForLife
<1>1. Init => Store!Init
  BY LoadsNone, BlankLoadsNone DEF Init, Store!Init
<1>2. PInv /\ [Next]_vars => [Store!Next]_<<StoredIn(page), announced>>
  BY StoreStep
<1>3. QED
  BY <1>1, <1>2, PInvAlways, PTL DEF Spec, IdentityIsForLife, Store!Spec

-----------------------------------------------------------------------------
(* The reference models of the flash *)

LEMMA Sizes ==
  /\ PAGE \in Nat \ {0} /\ SECTOR \in Nat \ {0} /\ REGION = SECTOR
  /\ SECTOR % PAGE = 0 /\ PAGE >= 5 /\ PAGE <= SECTOR
  /\ U32_MAX \in Nat /\ U32_MAX > REGION + SECTOR
<1>1. /\ PAGE \in Nat \ {0} /\ SECTOR \in Nat \ {0} /\ REGION = SECTOR
      /\ SECTOR % PAGE = 0 /\ U32_MAX \in Nat /\ U32_MAX > REGION + SECTOR
      /\ 5 \in 1 .. PAGE
  BY FlashContractAssumption
<1>2. \A p, s \in Nat \ {0} : s < p => s % p = s
  OBVIOUS
<1> QED BY <1>1, <1>2

LEMMA ReadBoundsHold == prove_read_bounds
BY Sizes DEF prove_read_bounds, read_accepts

LEMMA RemainingRoom ==
  ASSUME NEW offset \in Nat
  PROVE  page_remaining(offset) \in 1 .. PAGE
<1>1. \A p \in Nat \ {0} : \A o \in Nat : o % p \in 0 .. p - 1
  OBVIOUS
<1> QED BY <1>1, Sizes DEF page_remaining

LEMMA WriteBoundsHold == prove_write_bounds_and_pages
<1>1. ASSUME NEW offset \in 0 .. REGION
      PROVE  LET room == REGION - offset
                 most == IF room < page_remaining(offset) THEN room ELSE page_remaining(offset)
             IN  /\ ~ write_shape_accepts(offset, 0)
                 /\ most > 0 => write_shape_accepts(offset, 1) /\ write_shape_accepts(offset, most)
                 /\ ~ write_shape_accepts(offset, most + 1)
  <2>1. page_remaining(offset) \in 1 .. PAGE /\ offset \in Nat
    BY RemainingRoom, Sizes
  <2> QED BY <2>1, Sizes DEF write_shape_accepts, read_accepts
<1>2. \A offset \in {REGION + 1, U32_MAX} : ~ write_shape_accepts(offset, 1)
  BY Sizes DEF write_shape_accepts, read_accepts
<1> QED BY <1>1, <1>2 DEF prove_write_bounds_and_pages

LEMMA EraseHolds == prove_erase
<1> DEFINE zeroes == [o \in 0 .. REGION - 1 |-> {}]
<1>1. erase_accepts(0)
  <2>1. \A s \in Nat \ {0} : 0 % s = 0
    OBVIOUS
  <2> QED BY <2>1, Sizes DEF erase_accepts
<1>2. model_erase(zeroes, 0) = <<"OK", [o \in 0 .. REGION - 1 |-> Bit]>>
  <2>1. \A o \in 0 .. REGION - 1 : o \in 0 .. 0 + SECTOR - 1
    BY Sizes
  <2> QED BY <1>1, <2>1 DEF model_erase
<1>3. ASSUME NEW offset \in {1, PAGE, SECTOR, U32_MAX - (U32_MAX % SECTOR)}
      PROVE  ~ erase_accepts(offset)
  <2>1. \A s \in Nat \ {0} : \A x \in Nat : x % s \in 0 .. s - 1 /\ (x < s => x % s = x)
    OBVIOUS
  <2>2. CASE offset = 1 \/ offset = PAGE
    BY <2>1, <2>2, Sizes DEF erase_accepts
  <2>3. CASE offset = SECTOR
    BY <2>3, Sizes DEF erase_accepts
  <2>4. CASE offset = U32_MAX - (U32_MAX % SECTOR)
    <3>1. offset >= REGION
      BY <2>1, <2>4, Sizes
    <3> QED BY <2>1, <3>1, <2>4, Sizes DEF erase_accepts
  <2> QED BY <2>2, <2>3, <2>4
<1> QED BY <1>2, <1>3 DEF prove_erase, model_erase

(* A write is carried out where no bit would have to be set. *)
LEMMA BitRuleHolds == prove_no_zero_to_one_rule
<1> DEFINE blank == [o \in 0 .. REGION - 1 |-> Bit]
<1> SUFFICES ASSUME NEW old \in SUBSET Bit, NEW new \in SUBSET Bit
             PROVE  model_write([blank EXCEPT ![1] = old], 0, <<{}, new>>) =
                      IF new \cap (Bit \ old) = {}
                        THEN <<"OK", [blank EXCEPT ![0] = {}, ![1] = new]>>
                        ELSE <<"ERR", [blank EXCEPT ![1] = old]>>
  BY DEF prove_no_zero_to_one_rule
<1> DEFINE base == [blank EXCEPT ![1] = old]
           data == <<{}, new>>
<1>1. REGION \in Nat /\ REGION >= 5 /\ 0 \in 0 .. REGION - 1 /\ 1 \in 0 .. REGION - 1
  BY Sizes
<1>2. write_shape_accepts(0, 2)
  <2>1. \A p \in Nat \ {0} : 0 % p = 0
    OBVIOUS
  <2> QED BY <2>1, Sizes DEF write_shape_accepts, read_accepts, page_remaining
<1>3. Len(data) = 2 /\ data[1] = {} /\ data[2] = new
  OBVIOUS
<1>4. base[0] = Bit /\ base[1] = old
  BY <1>1
<1>5. (\A i \in 1 .. Len(data) : data[i] \subseteq base[0 + i - 1]) <=> new \subseteq old
  <2>1. \A i \in 1 .. Len(data) : i = 1 \/ i = 2
    BY <1>3
  <2> QED BY <1>3, <1>4, <2>1
<1>6. new \subseteq old <=> new \cap (Bit \ old) = {}
  OBVIOUS
<1>7. [o \in 0 .. REGION - 1 |-> IF o \in 0 .. 0 + Len(data) - 1
                                   THEN data[o - 0 + 1] ELSE base[o]]
        = [blank EXCEPT ![0] = {}, ![1] = new]
  <2> DEFINE F == [o \in 0 .. REGION - 1 |-> IF o \in 0 .. 0 + Len(data) - 1
                                               THEN data[o - 0 + 1] ELSE base[o]]
             G == [blank EXCEPT ![0] = {}, ![1] = new]
  <2>1. ASSUME NEW o \in 0 .. REGION - 1
        PROVE  F[o] = G[o]
    <3>0. /\ F[o] = IF o \in 0 .. 1 THEN data[o + 1] ELSE base[o]
          /\ base[o] = IF o = 1 THEN old ELSE Bit
      BY <1>3
    <3>1. G[o] = IF o = 1 THEN new ELSE IF o = 0 THEN {} ELSE Bit
      BY <1>1
    <3>2. CASE o = 0
      <4>1. data[o + 1] = {}
        <5>1. o + 1 = 1
          BY <3>2
        <5> QED BY ONLY <5>1, <1>3
      <4>2. F[o] = {} /\ G[o] = {}
        <5> HIDE DEF F, G, data, base
        <5> QED BY <4>1, <3>0, <3>1, <3>2
      <4> QED BY <4>2
    <3>3. CASE o = 1
      <4>1. data[o + 1] = new
        <5>1. o + 1 = 2
          BY <3>3
        <5> QED BY ONLY <5>1, <1>3
      <4>2. F[o] = new /\ G[o] = new
        <5> HIDE DEF F, G, data, base
        <5> QED BY <4>1, <3>0, <3>1, <3>3
      <4> QED BY <4>2
    <3>4. CASE o # 0 /\ o # 1
      BY <3>0, <3>1, <3>4
    <3> QED BY <3>2, <3>3, <3>4
  <2> QED BY <2>1
<1> HIDE DEF data, base, blank
<1>8. model_write(base, 0, data) =
        IF new \subseteq old THEN <<"OK", [blank EXCEPT ![0] = {}, ![1] = new]>>
                             ELSE <<"ERR", base>>
  BY <1>2, <1>3, <1>5, <1>7 DEF model_write
<1> QED BY <1>6, <1>8 DEF data, base

(* A whole record loads as its identity, and one with a changed field does *)
(* not.                                                                    *)
LEMMA RecordHolds == prove_record_model(Identity, Fixed, Erased)
<1>1. load_record([f \in Fields |-> Erased], Fixed, Erased)[1] = "MISSING"
  BY DEF load_record
<1>2. ASSUME NEW identity \in Identity
      PROVE  load_record(make_record(identity, Fixed, Erased), Fixed, Erased) = <<"OK", identity>>
  BY PersistenceAssumption DEF load_record, make_record, Fields, HeaderFields
<1>3. ASSUME NEW identity \in Identity, NEW f \in Fields,
             NEW bad \in Identity \cup {Fixed, Erased},
             bad # make_record(identity, Fixed, Erased)[f]
      PROVE  load_record([make_record(identity, Fixed, Erased) EXCEPT ![f] = bad],
                         Fixed, Erased)[1] = "INVAL"
  <2> DEFINE record == make_record(identity, Fixed, Erased)
             spoilt == [record EXCEPT ![f] = bad]
  <2>1. \A g \in Fields : spoilt[g] = IF g = f THEN bad ELSE record[g]
    BY DEF make_record
  <2>2. /\ record["sha"] = identity /\ record["keys"] = identity
        /\ record["hash"] = identity /\ record["padding"] = Erased
        /\ \A g \in HeaderFields : record[g] = Fixed
    BY DEF make_record, Fields, HeaderFields
  <2>3. {"sha", "keys", "hash", "padding"} \cup HeaderFields = Fields
    BY DEF Fields
  <2> HIDE DEF record, spoilt
  <2>4. ~ \A g \in Fields : spoilt[g] = Erased
    BY <2>1, <2>2, <2>3, PersistenceAssumption
  <2>5. ~ (/\ \A g \in HeaderFields : spoilt[g] = Fixed
           /\ spoilt["padding"] = Erased
           /\ spoilt["sha"] = spoilt["keys"]
           /\ spoilt["hash"] = spoilt["keys"])
    <3>1. bad # record[f]
      BY <1>3 DEF record
    <3>2. CASE f \in HeaderFields
      BY <2>1, <2>2, <2>3, <3>1, <3>2
    <3>3. CASE f \in {"sha", "keys", "hash", "padding"}
      BY <2>1, <2>2, <2>3, <3>1, <3>3
    <3> QED BY <2>3, <3>2, <3>3
  <2>6. load_record(spoilt, Fixed, Erased)[1] = "INVAL"
    BY <2>4, <2>5 DEF load_record
  <2> QED BY <2>6 DEF spoilt, record
<1> QED BY <1>1, <1>2, <1>3 DEF prove_record_model

LEMMA TablesHold == Tables
BY ReadBoundsHold, WriteBoundsHold, BitRuleHolds, EraseHolds, RecordHolds DEF Tables

(* The page as the record of the model *)

LEMMA BlankIsMissing ==
  ASSUME page = Blank
  PROVE  Loaded[1] = "MISSING"
<1>1. \A f \in Fields : FieldsOf(page)[f] = Erased
  BY DEF FieldsOf, Blank
<1> QED BY <1>1 DEF Loaded, load_record

LEMMA WholeRecordLoads ==
  ASSUME NEW id \in Identity, Loads(page, id)
  PROVE  Loaded = <<"OK", id>>
<1> DEFINE record == FieldsOf(page)
<1>1. /\ \A f \in HeaderFields : record[f] = Fixed
      /\ record["padding"] = Erased /\ record["sha"] = id
      /\ record["keys"] = id /\ record["hash"] = id
  BY DEF FieldsOf, Loads, Fields, HeaderFields
<1>2. "keys" \in Fields /\ id # Erased
  BY PersistenceAssumption DEF Fields
<1> HIDE DEF record
<1>3. load_record(record, Fixed, Erased) = <<"OK", id>>
  BY <1>1, <1>2 DEF load_record
<1> QED BY <1>3 DEF Loaded, record

-----------------------------------------------------------------------------
(* The page as the bytes of the sector *)

LEMMA BytesAreBits ==
  ASSUME NEW value \in Identity \cup {Erased, Fixed}
  PROVE  Byte(value) \subseteq Bit
<1>1. Code \in Codes
  BY CodeAssumption DEF Code
<1> QED BY <1>1, PersistenceAssumption DEF Byte, Codes

LEMMA BlankIsErased ==
  model_erase(Storage(Blank), 0) = <<"OK", Storage(Blank)>>
<1>1. erase_accepts(0)
  <2>1. \A s \in Nat \ {0} : 0 % s = 0
    OBVIOUS
  <2> QED BY <2>1, Sizes DEF erase_accepts
<1>2. \A o \in 0 .. REGION - 1 : o \in 0 .. 0 + SECTOR - 1
  BY Sizes
<1>3. Storage(Blank) = [o \in 0 .. REGION - 1 |-> Bit]
  <2>1. ASSUME NEW o \in 0 .. REGION - 1
        PROVE  (IF o + 1 \in Part THEN Byte(Blank[o + 1]) ELSE Bit) = Bit
    BY DEF Byte, Blank
  <2> QED BY <2>1 DEF Storage
<1> QED BY <1>1, <1>2, <1>3 DEF model_erase

(* Programming an erased part is a write the flash takes. *)
LEMMA ErasedPartTakesAnyByte ==
  ASSUME NEW bytes \in [Part -> Identity \cup {Erased, Fixed}],
         NEW k \in Part, bytes[k] = Erased,
         NEW value \in Identity \cup {Erased, Fixed}
  PROVE  model_write(Storage(bytes), k - 1, <<Byte(value)>>)
           = <<"OK", Storage([bytes EXCEPT ![k] = value])>>
<1> DEFINE data == <<Byte(value)>>
           after == [bytes EXCEPT ![k] = value]
<1>1. Len(data) = 1 /\ data[1] = Byte(value)
  OBVIOUS
<1>2. k \in 1 .. 5 /\ k - 1 \in Nat /\ k - 1 < PAGE /\ k - 1 \in 0 .. REGION - 1
  BY Sizes
<1>3. write_shape_accepts(k - 1, 1)
  <2>1. page_remaining(k - 1) \in 1 .. PAGE
    BY <1>2, RemainingRoom
  <2> QED BY <1>2, <2>1, Sizes DEF write_shape_accepts, read_accepts
<1>4. Storage(bytes)[k - 1] = Bit
  <2>1. (k - 1) + 1 = k
    BY <1>2
  <2> QED BY <1>2, <2>1 DEF Storage, Byte
<1>5. \A i \in 1 .. 1 : data[i] \subseteq Storage(bytes)[(k - 1) + i - 1]
  <2>1. ASSUME NEW i \in 1 .. 1 PROVE i = 1 /\ (k - 1) + i - 1 = k - 1
    BY <1>2
  <2> QED BY <1>1, <1>4, <2>1, BytesAreBits
<1>6. [o \in 0 .. REGION - 1 |-> IF o \in k - 1 .. (k - 1) + 1 - 1
                                   THEN data[o - (k - 1) + 1] ELSE Storage(bytes)[o]]
        = Storage(after)
  <2>1. ASSUME NEW o \in 0 .. REGION - 1
        PROVE  (IF o \in k - 1 .. (k - 1) + 1 - 1
                  THEN data[o - (k - 1) + 1] ELSE Storage(bytes)[o])
                 = IF o + 1 \in Part THEN Byte(after[o + 1]) ELSE Bit
    <3>1. CASE o = k - 1
      <4>1. o + 1 = k /\ o - (k - 1) + 1 = 1 /\ o \in k - 1 .. (k - 1) + 1 - 1
        BY <1>2, <3>1
      <4>2. after[k] = value
        OBVIOUS
      <4> HIDE DEF after, data
      <4> QED BY ONLY <1>1, <4>1, <4>2, k \in Part
    <3>2. CASE o # k - 1
      <4>1. o \notin k - 1 .. (k - 1) + 1 - 1 /\ o + 1 # k
        BY <1>2, <3>2
      <4>2. \A j \in Part : j # k => after[j] = bytes[j]
        OBVIOUS
      <4>3. Storage(bytes)[o] = IF o + 1 \in Part THEN Byte(bytes[o + 1]) ELSE Bit
        BY DEF Storage
      <4> HIDE DEF after, data
      <4> QED BY <4>1, <4>2, <4>3
    <3> QED BY <3>1, <3>2
  <2> HIDE DEF after, data
  <2> QED BY <2>1 DEF Storage
<1> HIDE DEF after, data
<1>7. model_write(Storage(bytes), k - 1, data) = <<"OK", Storage(after)>>
  BY <1>1, <1>3, <1>5, <1>6 DEF model_write
<1> QED BY <1>7 DEF after, data

LEMMA ProgrammedByModel ==
  ASSUME PInv, command = "program", part \in Part, Programmed(part), page' # page
  PROVE  model_write(Storage(page), part - 1, <<Byte(Record(identity_current)[part])>>)
           = <<"OK", Storage(page')>>
<1>1. page \in [Part -> Identity \cup {Erased, Fixed}] /\ identity_current \in Identity
  BY DEF PInv, TypeOK, Programming
<1>2. page[part] = Erased
  BY DEF PInv, Programming
<1>3. Record(identity_current)[part] \in Identity \cup {Erased, Fixed}
  BY <1>1 DEF Record
<1>4. page' = [page EXCEPT ![part] = Record(identity_current)[part]]
  BY <1>1 DEF Programmed
<1> QED BY <1>1, <1>2, <1>3, <1>4, ErasedPartTakesAnyByte

-----------------------------------------------------------------------------
ModelsFollowed ==
  /\ command = "idle" /\ identity_current = None /\ page = Blank => Tables
  /\ command = "idle" /\ command' = "erase" => Loaded[1] = "MISSING"
  /\ identity_current' \notin {identity_current, None} /\ command' = "idle" =>
       Loaded = <<"OK", identity_current'>>
  /\ command = "erase" /\ command' = "program" =>
       model_erase(Storage(page), 0) = <<"OK", Storage(page')>>
  /\ command = "program" /\ page' # page =>
       model_write(Storage(page), part - 1, <<Byte(Record(identity_current)[part])>>)
         = <<"OK", Storage(page')>>
  /\ announced' # announced => Loaded = <<"OK", identity_current'>>

LEMMA ModelsAreFollowed ==
  ASSUME PInv, Next
  PROVE  ModelsFollowed
<1> USE TablesHold DEF ModelsFollowed
<1>1. CASE LoadIdentity
  <2>1. PICK id \in Identity : Loads(page, id) /\ identity_current' = id /\ Announces(id)
    BY <1>1 DEF LoadIdentity
  <2>2. Loaded = <<"OK", id>>
    BY <2>1, WholeRecordLoads
  <2> QED BY <1>1, <2>1, <2>2 DEF LoadIdentity, Announces
<1>2. CASE CreateIdentity
  <2>1. Loaded[1] = "MISSING"
    BY <1>2, BlankIsMissing DEF CreateIdentity
  <2> QED BY <1>2, <2>1 DEF CreateIdentity
<1>3. CASE RefuseRecord \/ LoadFails
  BY <1>3 DEF RefuseRecord, LoadFails, Fails
<1>4. CASE EraseSector
  <2>1. page = Blank /\ page' = Blank
    BY <1>4 DEF EraseSector, PInv, Creating
  <2>2. model_erase(Storage(page), 0) = <<"OK", Storage(page')>>
    BY <2>1, BlankIsErased
  <2> QED BY <1>4, <2>2 DEF EraseSector
<1>5. CASE EraseFails
  BY <1>5 DEF EraseFails, Fails
<1>6. CASE ProgramPart \/ ProgramFails
  <2>1. /\ command = "program" /\ part \in Part /\ Programmed(part)
        /\ announced' = announced /\ identity_current' = identity_current
    BY <1>6 DEF ProgramPart, ProgramFails, Fails
  <2>2. page' # page =>
          model_write(Storage(page), part - 1, <<Byte(Record(identity_current)[part])>>)
            = <<"OK", Storage(page')>>
    BY <2>1, ProgrammedByModel
  <2> QED BY <2>1, <2>2
<1>7. CASE ReadBack
  <2>1. page = Record(identity_current) /\ identity_current \in Identity
    BY <1>7 DEF ReadBack, PInv, Programming
  <2>2. Loads(page, identity_current)
    BY <2>1 DEF Loads, Record
  <2>3. Loaded = <<"OK", identity_current>>
    BY <2>1, <2>2, WholeRecordLoads
  <2> QED BY <1>7, <2>3 DEF ReadBack, Announces
<1>8. CASE ReadBackFails
  BY <1>8 DEF ReadBackFails, Fails
<1>9. CASE PowerLoss
  BY <1>9 DEF PowerLoss
<1> QED BY <1>1, <1>2, <1>3, <1>4, <1>5, <1>6, <1>7, <1>8, <1>9 DEF Next

(* Every step of the 'N' command, the failed ones and losses of power      *)
(* among them, is one the reference models of the flash and of the         *)
(* identity record allow; and the models themselves keep their bounds,     *)
(* their bit rule and their record for flash of any size and bytes of any  *)
(* width.                                                                  *)
THEOREM FlashFollowsItsModels == Spec => FlashFollowsContract
<1>1. PInv /\ [Next]_vars => [ModelsFollowed]_vars
  BY ModelsAreFollowed
<1>2. QED
  BY <1>1, PInvAlways, PTL DEF Spec, FlashFollowsContract, ModelsFollowed
=============================================================================
