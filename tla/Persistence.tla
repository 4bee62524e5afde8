----------------------------- MODULE Persistence -----------------------------
(***************************************************************************)
(* The identity of one node: identity_current in RAM, its record in the    *)
(* reserved flash sector, and the 'N' command that loads the record or     *)
(* creates and saves one.  Saving takes many calls of the boot ROM, each   *)
(* of which may fail, and power may be lost between any two of them.       *)
(* The ESP32-C6 build is modelled; the qemu build keeps the sector in RAM. *)
(***************************************************************************)
EXTENDS Integers

CONSTANTS
  Identity,   \* identities the random generator may produce
  None,       \* no identity: identity_current is all zero after a reset
  Erased,     \* 0xff bytes
  Fixed       \* bytes that are the same in every record

ASSUME PersistenceAssumption ==
  /\ None \notin Identity
  /\ Erased \notin Identity
  /\ Fixed \notin Identity
  /\ Erased # Fixed

VARIABLES
  page,              \* the first page of the sector, by parts of the record
  identity_current,
  command,           \* where the 'N' command is
  part,              \* the next part flash_write_page programs
  announced          \* identities announced since the node was made

vars == <<page, identity_current, command, part, announced>>

-----------------------------------------------------------------------------
(* The record.  Its parts are in the order in which flash_write_page       *)
(* programs them, a byte at a time; a part half written is refused by a    *)
(* load like a part written without the next one.                          *)

Header == 1     \* magic, version, flags, lengths
Checksum == 2   \* SHA-256 of header and identity
Keys == 3
Hash == 4       \* with the reserved zeroes that follow it
Padding == 5
Part == 1 .. 5

Blank == [k \in Part |-> Erased]

Record(id) ==
  [k \in Part |-> IF k = Header THEN Fixed ELSE IF k = Padding THEN Erased ELSE id]

(* the checks of identity_load on the bytes it reads: SHA-256 has no        *)
(* collisions, so the checksum and the hash of one identity are not those  *)
(* of another                                                              *)
Loads(bytes, id) ==
  /\ bytes[Header] = Fixed
  /\ bytes[Padding] = Erased
  /\ bytes[Checksum] = id
  /\ bytes[Keys] = id
  /\ bytes[Hash] = id

-----------------------------------------------------------------------------
Init ==
  /\ page = Blank
  /\ identity_current = None
  /\ command = "idle"
  /\ part = 1
  /\ announced = {}

(* the end of a successful 'N': announce_send puts the announce on the     *)
(* host's wire, unless the host's data does not fit                        *)
Announces(id) ==
  /\ command' = "idle"
  /\ announced' \in {announced \cup {id}, announced}

Fails ==
  /\ command' = "idle"
  /\ UNCHANGED announced

LoadIdentityFault ==   \* the record is checked but not copied
  /\ command = "idle"
  /\ \E id \in Identity : Loads(page, id)
  /\ Announces(identity_current)
  /\ UNCHANGED <<page, identity_current, part>>

LoadIdentity ==
  /\ command = "idle"
  /\ \E id \in Identity :
       /\ Loads(page, id)
       /\ identity_current' = id
       /\ Announces(id)
  /\ UNCHANGED <<page, part>>

(* the sector is blank: identity_create overwrites whatever identity an    *)
(* earlier 'N' could not save                                              *)
CreateIdentity ==
  /\ command = "idle"
  /\ page = Blank
  /\ \E id \in Identity : identity_current' = id
  /\ command' = "erase"
  /\ UNCHANGED <<page, part, announced>>

RefuseRecord ==   \* there is a record, but it is not whole
  /\ command = "idle"
  /\ page # Blank
  /\ ~ \E id \in Identity : Loads(page, id)
  /\ Fails
  /\ UNCHANGED <<page, identity_current, part>>

LoadFailsFault ==   \* any error of identity_load is taken as a missing record
  /\ command = "idle"
  /\ \E id \in Identity : identity_current' = id
  /\ command' = "erase"
  /\ UNCHANGED <<page, part, announced>>

LoadFails ==   \* the sector cannot be read
  /\ command = "idle"
  /\ Fails
  /\ UNCHANGED <<page, identity_current, part>>

-----------------------------------------------------------------------------
(* identity_save *)

EraseSector ==
  /\ command = "erase"
  /\ page' = Blank
  /\ command' = "program"
  /\ part' = 1
  /\ UNCHANGED <<identity_current, announced>>

(* the erase, or a read while flash_write_page validates, reports an error *)
EraseFails ==
  /\ command = "erase"
  /\ page' \in {page, Blank}
  /\ Fails
  /\ UNCHANGED <<identity_current, part>>

(* what one part of the page holds after it was programmed: cells may fail *)
(* to take their value, which is why the record is read back               *)
Programmed(k) ==
  \E value \in {page[k], Record(identity_current)[k]} :
    page' = [page EXCEPT ![k] = value]

ProgramPart ==
  /\ command = "program"
  /\ part \in Part
  /\ Programmed(part)
  /\ part' = part + 1
  /\ UNCHANGED <<identity_current, command, announced>>

(* a ROM call in the write loop reports an error: what was programmed stays *)
ProgramFails ==
  /\ command = "program"
  /\ part \in Part
  /\ Programmed(part)
  /\ Fails
  /\ UNCHANGED <<identity_current, part>>

ReadBackFault ==   \* the bytes read back are not compared
  /\ command = "program"
  /\ part \notin Part
  /\ Announces(identity_current)
  /\ UNCHANGED <<page, identity_current, part>>

ReadBack ==
  /\ command = "program"
  /\ part \notin Part
  /\ page = Record(identity_current)
  /\ Announces(identity_current)
  /\ UNCHANGED <<page, identity_current, part>>

(* the record read back differs, or cannot be read *)
ReadBackFails ==
  /\ command = "program"
  /\ part \notin Part
  /\ Fails
  /\ UNCHANGED <<page, identity_current, part>>

(* a reset or a loss of power, at any moment *)
PowerLoss ==
  /\ identity_current' = None
  /\ command' = "idle"
  /\ part' = 1
  /\ UNCHANGED <<page, announced>>

Next ==
  \/ LoadIdentity \/ CreateIdentity \/ RefuseRecord \/ LoadFails
  \/ EraseSector \/ EraseFails
  \/ ProgramPart \/ ProgramFails
  \/ ReadBack \/ ReadBackFails
  \/ PowerLoss

Spec == Init /\ [][Next]_vars

-----------------------------------------------------------------------------
TypeOK ==
  /\ page \in [Part -> Identity \cup {Erased, Fixed}]
  /\ identity_current \in Identity \cup {None}
  /\ command \in {"idle", "erase", "program"}
  /\ part \in Part \cup {6}
  /\ announced \subseteq Identity

(* What the flash holds, whatever the node is doing. *)
StoredIn(bytes) ==
  IF \E id \in Identity : Loads(bytes, id)
    THEN CHOOSE id \in Identity : Loads(bytes, id)
    ELSE None

Store == INSTANCE IdentityStore WITH stored <- StoredIn(page)

(* identity_save and the 'N' command make the sector a register that is    *)
(* written once: no failed call, power loss or later command makes a node  *)
(* change the identity it holds, and it announces no identity that the     *)
(* next start would not find.                                              *)
IdentityIsForLife == Store!Spec

(* The identity the transport acts under (identity_current) is the one in  *)
(* flash whenever there is one there: an identity that could not be saved  *)
(* never stays in use beside a saved one.                                  *)
InUseIsStored ==
  \A id \in Identity :
    Loads(page, id) => identity_current \in {id, None}
=============================================================================
