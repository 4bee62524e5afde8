------------------------- MODULE PersistenceContract --------------------------
(***************************************************************************)
(* The identity commands of Persistence against the reference models of    *)
(* the reserved flash sector (src/proofs/flash/flash_qemu_model.py) and of *)
(* the identity record (src/proofs/identity/identity_persistence.py).  A   *)
(* byte in flash is the set of its one bits; a field of the record is one  *)
(* value.                                                                  *)
(***************************************************************************)
EXTENDS Persistence, Integers, Sequences

CONSTANTS
  PAGE,     \* FLASH_PAGE_SIZE
  SECTOR,   \* FLASH_SECTOR_SIZE
  REGION,   \* FLASH_IDENTITY_REGION_SIZE
  U32_MAX,  \* the largest offset or length
  Bit       \* the bits of one byte

ASSUME FlashContractAssumption ==
  /\ PAGE \in Nat \ {0} /\ SECTOR \in Nat \ {0}
  /\ REGION = SECTOR
  /\ SECTOR % PAGE = 0
  /\ U32_MAX \in Nat /\ U32_MAX > REGION + SECTOR
  /\ Part \subseteq 1 .. PAGE   \* the record is within one page

-----------------------------------------------------------------------------
read_accepts(offset, length) ==
  /\ offset \in 0 .. U32_MAX /\ length \in 0 .. U32_MAX
  /\ offset <= REGION
  /\ length <= REGION - offset

page_remaining(offset) == PAGE - (offset % PAGE)

write_shape_accepts(offset, length) ==
  /\ read_accepts(offset, length)
  /\ length # 0
  /\ length <= page_remaining(offset)

erase_accepts(offset) ==
  /\ offset \in 0 .. U32_MAX
  /\ offset % SECTOR = 0
  /\ offset < REGION /\ SECTOR <= REGION - offset

(* programming clears bits and never sets one; a write that would is       *)
(* refused before its first byte                                           *)
model_write(storage, offset, data) ==
  IF /\ write_shape_accepts(offset, Len(data))
     /\ \A i \in 1 .. Len(data) : data[i] \subseteq storage[offset + i - 1]
    THEN <<"OK", [o \in 0 .. REGION - 1 |->
                    IF o \in offset .. offset + Len(data) - 1
                      THEN data[o - offset + 1] ELSE storage[o]]>>
    ELSE <<"ERR", storage>>

model_erase(storage, offset) ==
  IF erase_accepts(offset)
    THEN <<"OK", [o \in 0 .. REGION - 1 |->
                    IF o \in offset .. offset + SECTOR - 1 THEN Bit ELSE storage[o]]>>
    ELSE <<"ERR", storage>>

-----------------------------------------------------------------------------
prove_read_bounds ==
  /\ \A offset \in 0 .. REGION :
       /\ read_accepts(offset, 0) /\ read_accepts(offset, REGION - offset)
       /\ ~ read_accepts(offset, REGION - offset + 1)
  /\ \A offset \in {REGION + 1, U32_MAX} : ~ read_accepts(offset, 0)

prove_write_bounds_and_pages ==
  /\ \A offset \in 0 .. REGION :
       LET room == REGION - offset
           most == IF room < page_remaining(offset) THEN room ELSE page_remaining(offset)
       IN  /\ ~ write_shape_accepts(offset, 0)
           /\ most > 0 => write_shape_accepts(offset, 1) /\ write_shape_accepts(offset, most)
           /\ ~ write_shape_accepts(offset, most + 1)
  /\ \A offset \in {REGION + 1, U32_MAX} : ~ write_shape_accepts(offset, 1)

(* the bit rule on every pair of bytes, and a late refusal that leaves the *)
(* bytes before it alone                                                   *)
prove_no_zero_to_one_rule ==
  LET blank == [o \in 0 .. REGION - 1 |-> Bit]
  IN  \A old, new \in SUBSET Bit :
        LET base == [blank EXCEPT ![1] = old]
            data == <<{}, new>>
        IN  model_write(base, 0, data) =
              IF new \cap (Bit \ old) = {}
                THEN <<"OK", [blank EXCEPT ![0] = {}, ![1] = new]>>
                ELSE <<"ERR", base>>

prove_erase ==
  LET zeroes == [o \in 0 .. REGION - 1 |-> {}]
  IN  /\ model_erase(zeroes, 0) = <<"OK", [o \in 0 .. REGION - 1 |-> Bit]>>
      /\ \A offset \in {1, PAGE, SECTOR, U32_MAX - (U32_MAX % SECTOR)} :
           model_erase(zeroes, offset) = <<"ERR", zeroes>>

-----------------------------------------------------------------------------
(* the record of an identity: the fields of the header, the digest over    *)
(* header and identity, the keys, the hash of the public key, zeroes, and  *)
(* erased padding up to the end of the page                                *)
HeaderFields == {"magic", "version", "flags", "header_len", "size", "zero"}
Fields == HeaderFields \cup {"sha", "keys", "hash", "padding"}

make_record(identity, fixed, erased) ==
  [f \in Fields |-> IF f \in HeaderFields THEN fixed
                    ELSE IF f = "padding" THEN erased ELSE identity]

load_record(record, fixed, erased) ==
  IF \A f \in Fields : record[f] = erased THEN <<"MISSING", erased>>
  ELSE IF /\ \A f \in HeaderFields : record[f] = fixed
          /\ record["padding"] = erased
          /\ record["sha"] = record["keys"]
          /\ record["hash"] = record["keys"]
    THEN <<"OK", record["keys"]>>
    ELSE <<"INVAL", erased>>

(* one changed field, whichever, spoils the record *)
prove_record_model(identities, fixed, erased) ==
  /\ load_record([f \in Fields |-> erased], fixed, erased)[1] = "MISSING"
  /\ \A identity \in identities :
       LET record == make_record(identity, fixed, erased)
       IN  /\ load_record(record, fixed, erased) = <<"OK", identity>>
           /\ \A f \in Fields, bad \in identities \cup {fixed, erased} :
                bad # record[f] =>
                  load_record([record EXCEPT ![f] = bad], fixed, erased)[1] = "INVAL"

-----------------------------------------------------------------------------
(* the parts of the page as the fields of one record *)
FieldsOf(bytes) ==
  [f \in Fields |-> IF f \in HeaderFields THEN bytes[Header]
                    ELSE IF f = "sha" THEN bytes[Checksum]
                    ELSE IF f = "keys" THEN bytes[Keys]
                    ELSE IF f = "hash" THEN bytes[Hash] ELSE bytes[Padding]]

Loaded == load_record(FieldsOf(page), Fixed, Erased)

(* and as the bytes of the sector: an erased one has all its bits, and     *)
(* there are bytes enough to tell the other values apart                   *)
IsCode(code) ==
  \A v, w \in Identity \cup {Fixed} : code[v] = code[w] => v = w

Codes == [Identity \cup {Fixed} -> SUBSET Bit \ {Bit}]

ASSUME CodeAssumption == \E code \in Codes : IsCode(code)

Code == CHOOSE code \in Codes : IsCode(code)

Byte(value) == IF value = Erased THEN Bit ELSE Code[value]

Storage(bytes) ==
  [o \in 0 .. REGION - 1 |-> IF o + 1 \in Part THEN Byte(bytes[o + 1]) ELSE Bit]

Tables ==
  /\ prove_read_bounds /\ prove_write_bounds_and_pages /\ prove_no_zero_to_one_rule
  /\ prove_erase /\ prove_record_model(Identity, Fixed, Erased)

(* Whatever failed calls and losses of power left in the sector, 'N' does  *)
(* what the reference models say: it creates an identity only where no     *)
(* record is, takes and announces no other identity than that of a whole   *)
(* record, and never programs a byte the flash could not take, one whose   *)
(* bits were cleared before.                                               *)
FlashFollowsContract ==
  [][/\ command = "idle" /\ identity_current = None /\ page = Blank => Tables
     /\ command = "idle" /\ command' = "erase" => Loaded[1] = "MISSING"
     /\ identity_current' \notin {identity_current, None} /\ command' = "idle" =>
          Loaded = <<"OK", identity_current'>>
     /\ command = "erase" /\ command' = "program" =>
          model_erase(Storage(page), 0) = <<"OK", Storage(page')>>
     /\ command = "program" /\ page' # page =>
          model_write(Storage(page), part - 1, <<Byte(Record(identity_current)[part])>>)
            = <<"OK", Storage(page')>>
     /\ announced' # announced => Loaded = <<"OK", identity_current'>>]_vars
=============================================================================
