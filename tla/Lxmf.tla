--------------------------------- MODULE Lxmf ---------------------------------
(***************************************************************************)
(* The LXMF routines of src/src/lxmf: a node packs messages under its      *)
(* stored identity and dispatches the ones that arrive into its one slot.  *)
(* The source of a message is recalled from the path table of the          *)
(* transport, which announces fill and which forgets.                      *)
(*                                                                         *)
(* Hashes and signatures are symbols that name what went into them;        *)
(* payloads are bytes.                                                     *)
(*                                                                         *)
(* LXMF byte by byte: the payload of a message and the application data of *)
(* a delivery announce.  The reference models of src/proofs/lxmf keep      *)
(* their names; the routines of src/src/lxmf keep theirs.  A byte is a     *)
(* number.                                                                 *)
(***************************************************************************)
EXTENDS Encodings, FiniteSets

LXMF_HASH_SIZE == 16
LXMF_SIGNATURE_SIZE == 64
LXMF_PAYLOAD_MAX_TITLE == 64
LXMF_PAYLOAD_MAX_CONTENT == 255
LXMF_PAYLOAD_MAX_FIELDS == 64
LXMF_PAYLOAD_MAX_LEN == 397
LXMF_STAMP_MAX_LEN == 32
LXMF_PAYLOAD_MAX_STAMPED_LEN == LXMF_PAYLOAD_MAX_LEN + 2 + LXMF_STAMP_MAX_LEN
LXMF_PACKED_PREFIX_SIZE == 2 * LXMF_HASH_SIZE + LXMF_SIGNATURE_SIZE
LXMF_PACKED_MAX_STAMPED_LEN == LXMF_PACKED_PREFIX_SIZE + LXMF_PAYLOAD_MAX_STAMPED_LEN
LXMF_DELIVERY_ANNOUNCE_MAX_NAME == 255

INVAL == <<"INVAL">>
OVERFLOW == <<"OVERFLOW">>

-----------------------------------------------------------------------------
mp_bin8(data) == <<196, Len(data)>> \o data

payload(timestamp, title, content, fields) ==
  <<148, 203>> \o timestamp \o mp_bin8(title) \o mp_bin8(content) \o fields

(* the fields are an encoded map, of which only the marker is looked at *)
lxmf_payload_build(in, capacity) ==
  LET fields == IF in.fields = <<>> THEN <<128>> ELSE in.fields
      least == IF fields[1] = 222 THEN 3 ELSE IF fields[1] = 223 THEN 5 ELSE 1
      out == payload(in.timestamp, in.title, in.content, fields)
  IN  IF \/ Len(in.title) > LXMF_PAYLOAD_MAX_TITLE
         \/ Len(in.content) > LXMF_PAYLOAD_MAX_CONTENT
         \/ Len(fields) > LXMF_PAYLOAD_MAX_FIELDS
        THEN OVERFLOW
      ELSE IF fields[1] \notin 128 .. 143 \cup {222, 223} \/ Len(fields) < least THEN INVAL
      ELSE IF Len(out) > LXMF_PAYLOAD_MAX_LEN \/ Len(out) > capacity THEN OVERFLOW
      ELSE <<"OK", out>>

-----------------------------------------------------------------------------
(* the place after the scalar that begins at pos; 0 when there is none *)
skip_scalar(raw, pos) ==
  IF pos > Len(raw) THEN 0
  ELSE LET marker == raw[pos]
           n == IF marker \in 0 .. 127 \cup {192, 194, 195} THEN 0
                ELSE IF marker \in 160 .. 191 THEN marker - 160
                ELSE IF marker = 204 THEN 1
                ELSE IF marker = 205 THEN 2
                ELSE IF marker = 206 THEN 4
                ELSE IF marker \in {196, 217} /\ pos < Len(raw) THEN 1 + raw[pos + 1]
                ELSE Len(raw)
       IN  IF pos + n > Len(raw) THEN 0 ELSE pos + n + 1

(* after so many scalars, or where the fields are found to end badly: a     *)
(* scalar has a byte or more, and as many as the fields may have are too    *)
(* long after a marker                                                     *)
skip_entries(raw, start, pos, scalars) ==
  LET too_long(p) == p - start > LXMF_PAYLOAD_MAX_FIELDS
      after[k \in 0 .. LXMF_PAYLOAD_MAX_FIELDS] ==
        IF k = 0 THEN pos
        ELSE LET p == after[k - 1]
             IN  IF k > scalars \/ p = 0 \/ too_long(p) THEN p ELSE skip_scalar(raw, p)
      end == after[LXMF_PAYLOAD_MAX_FIELDS]
  IN  IF end = 0 THEN INVAL ELSE IF too_long(end) THEN OVERFLOW ELSE <<"OK", end>>

(* a count of 65536 entries or more cannot be told from 65536: a map that  *)
(* short enough to be valid has 31                                         *)
skip_fields(raw, start) ==
  IF start > Len(raw) THEN INVAL
  ELSE LET marker == raw[start]
           digits == IF marker = 222 THEN 2 ELSE IF marker = 223 THEN 4 ELSE 0
           next == start + digits + 1
           entries == IF digits = 0 THEN marker - 128
                      ELSE IF digits = 4 /\ (raw[start + 1] > 0 \/ raw[start + 2] > 0)
                        THEN 65536
                      ELSE 256 * raw[next - 2] + raw[next - 1]
       IN  IF marker \notin 128 .. 143 \cup {222, 223} \/ next > Len(raw) + 1 THEN INVAL
           ELSE skip_entries(raw, start, next, 2 * entries)

(* A text of at most cap bytes: the model asks for the cap first, the      *)
(* firmware for the bytes (.Llpp_parse_bin8).                              *)
bin8(raw, pos, cap, capFirst) ==
  IF pos + 1 > Len(raw) \/ raw[pos] # 196 THEN INVAL
  ELSE LET after == pos + 2 + raw[pos + 1]
           short == after > Len(raw) + 1
       IN  IF raw[pos + 1] > cap /\ (capFirst \/ ~short) THEN OVERFLOW
           ELSE IF short THEN INVAL
           ELSE <<"OK", after, SubSeq(raw, pos + 2, after - 1)>>

UnstampFault(raw, n) == raw

(* the payload as it was before a stamp was added *)
Unstamp(raw, n) == <<148>> \o SubSeq(raw, 2, n)

PayloadRead(raw, capFirst) ==
  LET title == bin8(raw, 11, LXMF_PAYLOAD_MAX_TITLE, capFirst)
      content == bin8(raw, title[2], LXMF_PAYLOAD_MAX_CONTENT, capFirst)
      fields == skip_fields(raw, content[2])
      n == fields[2] - 1
      stamped == raw[1] = 149
      stamp == IF stamped THEN bin8(raw, n + 1, LXMF_STAMP_MAX_LEN, capFirst)
               ELSE <<"OK", n + 1, <<>>>>
  IN  IF Len(raw) > LXMF_PAYLOAD_MAX_STAMPED_LEN THEN OVERFLOW
      ELSE IF Len(raw) < 10 \/ raw[1] \notin {148, 149} \/ raw[2] # 203 THEN INVAL
      ELSE IF title[1] # "OK" THEN title
      ELSE IF content[1] # "OK" THEN content
      ELSE IF fields[1] # "OK" THEN fields
      ELSE IF n > LXMF_PAYLOAD_MAX_LEN THEN OVERFLOW
      ELSE IF stamp[1] # "OK" THEN stamp
      ELSE IF (stamped /\ stamp[3] = <<>>) \/ stamp[2] # Len(raw) + 1 THEN INVAL
      ELSE <<"OK", [timestamp |-> SubSeq(raw, 3, 10),
                    title |-> title[3],
                    content |-> content[3],
                    fields |-> SubSeq(raw, content[2], n),
                    stamp |-> stamp[3],
                    without_stamp |-> Unstamp(raw, n)]>>

parse_payload(raw) == PayloadRead(raw, TRUE)
lxmf_payload_parse(raw) == PayloadRead(raw, FALSE)

-----------------------------------------------------------------------------
Half == <<63, 248, 0, 0, 0, 0, 0, 0>>        \* 1.5 as a float of 64 bits
Title == <<84, 105, 116, 108, 101>>
Body == <<66, 111, 100, 121>>

Input(title, content, fields) ==
  [timestamp |-> Half, title |-> title, content |-> content, fields |-> fields]

Map(key, value) == <<129>> \o mp_uint(key) \o mp_bin(value)
SixteenEntries == <<222, 0, 16>> \o [i \in 1 .. 32 |-> (i - 1) \div 2]

Inputs ==
  {Input(Title, Body, <<>>), Input(<<>>, <<>>, Map(251, <<97, 98, 99>>)),
   Input(Filled(1, 64), Filled(2, 255), Map(251, Filled(65, 58))),
   Input(<<84>>, <<67>>, SixteenEntries), Input(<<84>>, <<67>>, <<223, 0, 0, 0, 0>>)}

Stamped(raw, stamp) == <<149>> \o SubSeq(raw, 2, Len(raw)) \o mp_bin8(stamp)

(* what is built is read back, with a stamp or without; without room it is  *)
(* not built; a piece of it is not taken                                   *)
prove_payloads ==
  /\ payload(<<65, 217, 84, 252, 64, 0, 0, 0>>, Title, Body, <<128>>)
       = <<148, 203, 65, 217, 84, 252, 64, 0, 0, 0, 196, 5, 84, 105, 116, 108, 101,
           196, 4, 66, 111, 100, 121, 128>>
  /\ \A in \in Inputs :
       LET built == lxmf_payload_build(in, LXMF_PAYLOAD_MAX_LEN)
           raw == built[2]
           read(s) == [timestamp |-> in.timestamp, title |-> in.title,
                       content |-> in.content,
                       fields |-> IF in.fields = <<>> THEN <<128>> ELSE in.fields,
                       stamp |-> s, without_stamp |-> raw]
       IN  /\ built[1] = "OK"
           /\ lxmf_payload_build(in, Len(raw)) = built
           /\ lxmf_payload_build(in, Len(raw) - 1) = OVERFLOW
           /\ lxmf_payload_parse(raw) = <<"OK", read(<<>>)>>
           /\ \A n \in {1, 16, 32} :
                lxmf_payload_parse(Stamped(raw, Filled(17, n)))
                  = <<"OK", read(Filled(17, n))>>
           /\ lxmf_payload_parse(Stamped(raw, <<>>)) = INVAL
           /\ lxmf_payload_parse(Stamped(raw, Filled(17, 33))) = OVERFLOW
           /\ lxmf_payload_parse(raw \o <<0>>) = INVAL
           /\ \A k \in 0 .. Len(raw) - 1 : lxmf_payload_parse(SubSeq(raw, 1, k)) = INVAL
  /\ \A in \in {Input(Filled(0, 65), <<>>, <<>>), Input(<<>>, <<>>, Map(251, Filled(65, 60))),
                Input(<<>>, Filled(0, 256), <<>>)} :
       lxmf_payload_build(in, LXMF_PAYLOAD_MAX_LEN) = OVERFLOW

(* every byte of a payload replaced by the markers that end or begin       *)
(* something: the model and the firmware take the same ones for the same,  *)
(* and differ at most in the error                                         *)
prove_readers_agree ==
  \A in \in {Input(<<84>>, <<67>>, Map(251, <<97>>))} :
    LET raw == Stamped(lxmf_payload_build(in, LXMF_PAYLOAD_MAX_LEN)[2], <<17, 17>>)
    IN  \A i \in 1 .. Len(raw) :
          \A b \in {0, 1, 2, 33, 65, 128, 129, 143, 148, 161, 192, 196, 204, 206, 217, 222, 223, 255} :
            LET altered == [raw EXCEPT ![i] = b]
                firmware == lxmf_payload_parse(altered)
                model == parse_payload(altered)
            IN  /\ (firmware[1] = "OK" \/ model[1] = "OK") => firmware = model
                /\ firmware[1] = "OK" =>
                     /\ firmware[2].without_stamp
                          = payload(firmware[2].timestamp, firmware[2].title,
                                    firmware[2].content, firmware[2].fields)
                     /\ altered[1] = 149 =>
                          altered = Stamped(firmware[2].without_stamp, firmware[2].stamp)

-----------------------------------------------------------------------------
(* The display name (none or one) and the stamp cost that a delivery       *)
(* announce carries; upstream packs them with umsgpack.                    *)
reference_app_data(name, cost) ==
  packb(<< IF name = <<>> THEN <<"nil", 0>> ELSE <<"bin", name[1]>>,
           IF cost \in 1 .. 254 THEN <<"uint", cost>> ELSE <<"nil", 0>> >>)

local_app_data(name, cost) ==
  <<146>> \o (IF name = <<>> THEN <<192>> ELSE mp_bin8(name[1]))
    \o (IF cost \in 1 .. 127 THEN <<cost>>
        ELSE IF cost \in 128 .. 254 THEN <<204, cost>> ELSE <<192>>)

lxmf_delivery_announce_build(name, cost, capacity) ==
  LET nameLen == IF name = <<>> THEN 1 ELSE 2 + Len(name[1])
      costLen == IF cost \in 128 .. 254 THEN 2 ELSE 1
  IN  IF name # <<>> /\ Len(name[1]) > LXMF_DELIVERY_ANNOUNCE_MAX_NAME THEN OVERFLOW
      ELSE IF capacity < 1 + nameLen + costLen THEN OVERFLOW
      ELSE <<"OK", local_app_data(name, cost)>>

Test == <<84, 101, 115, 116>>

prove_app_data ==
  /\ local_app_data(<<>>, 0) = <<146, 192, 192>>
  /\ local_app_data(<<Test>>, 16) = <<146, 196, 4, 84, 101, 115, 116, 16>>
  /\ local_app_data(<<Test>>, 128) = <<146, 196, 4, 84, 101, 115, 116, 204, 128>>
  /\ \A name \in {<<>>, <<(<<>>)>>, <<Test>>, <<Filled(7, 255)>>} : \A cost \in 0 .. 300 :
       LET out == local_app_data(name, cost)
       IN  /\ out = reference_app_data(name, cost)
           /\ Len(out) <= 260
           /\ lxmf_delivery_announce_build(name, cost, 260) = <<"OK", out>>
           /\ lxmf_delivery_announce_build(name, cost, Len(out)) = <<"OK", out>>
           /\ lxmf_delivery_announce_build(name, cost, Len(out) - 1) = OVERFLOW
  /\ lxmf_delivery_announce_build(<<Filled(7, 256)>>, 0, 300) = OVERFLOW

-----------------------------------------------------------------------------
(* the structures of src/src/include/lxmf.S *)
lxmf_payload_parsed_t ==
  << <<"raw_ptr", 0, 4>>, <<"raw_len", 4, 4>>, <<"without_stamp_ptr", 8, 4>>,
     <<"without_stamp_len", 12, 4>>, <<"timestamp_be_ptr", 16, 4>>, <<"title_ptr", 20, 4>>,
     <<"title_len", 24, 4>>, <<"content_ptr", 28, 4>>, <<"content_len", 32, 4>>,
     <<"fields_ptr", 36, 4>>, <<"fields_len", 40, 4>>, <<"stamp_ptr", 44, 4>>,
     <<"stamp_len", 48, 4>>, <<"flags", 52, 4>>, <<"without_stamp_buf", 56, 400>> >>

lxmf_message_parsed_t ==
  << <<"dest_hash_ptr", 0, 4>>, <<"source_hash_ptr", 4, 4>>, <<"signature_ptr", 8, 4>>,
     <<"payload_ptr", 12, 4>>, <<"payload_len", 16, 4>>, <<"without_stamp_ptr", 20, 4>>,
     <<"without_stamp_len", 24, 4>>, <<"message_id", 28, 32>>, <<"payload_parsed", 60, 456>> >>

(* the buffer for a payload without its stamp holds the longest one *)
prove_structures ==
  /\ Packed(lxmf_payload_parsed_t, 456)
  /\ Packed(lxmf_message_parsed_t, 516)
  /\ LXMF_PAYLOAD_MAX_LEN <= FieldOf(lxmf_payload_parsed_t, "without_stamp_buf")[3]
  /\ LXMF_PACKED_MAX_STAMPED_LEN = 527 /\ LXMF_PAYLOAD_MAX_STAMPED_LEN = 431

-----------------------------------------------------------------------------
CONSTANTS
  Identities,   \* that announce themselves, write messages, or both
  None,         \* nothing
  MaxPaths,     \* slots of the path table
  Arrivals      \* what may be handed to the dispatch: records [message, mode,
                \* link, destination]

VARIABLES
  paths,   \* identities whose delivery destination is in the path table
  slot,    \* lxmf_inbound_slot: None or [message_id, dest, source, payload_len]
  last     \* of the last dispatch: the message it recognised, what it returned

vars == <<paths, slot, last>>

(* the hash of an identity and the one of its delivery destination differ *)
hash(i) == <<"identity", i>>
delivery(i) == <<"delivery", i>>

(* the signature of an identity over destination, source and payload, with *)
(* the message identifier that these determine                             *)
Signed(by, dest, source, without_stamp) ==
  [by |-> by, over |-> <<dest, source, without_stamp>>]

Message(dest, source, signature, raw) ==
  [dest |-> dest, source |-> source, signature |-> signature, payload |-> raw, cut |-> FALSE]

-----------------------------------------------------------------------------
(* Packing *)
SourceFitsFault(stored, source) == source = delivery(stored)

SourceFits(stored, source) == source = hash(stored)

lxmf_message_sign(stored, dest, source, without_stamp) ==
  IF without_stamp = <<>> THEN INVAL
  ELSE IF Len(without_stamp) > LXMF_PAYLOAD_MAX_LEN THEN OVERFLOW
  ELSE IF stored = None THEN <<"MISSING">>
  ELSE IF ~SourceFits(stored, source) THEN INVAL
  ELSE <<"OK", Signed(stored, dest, source, without_stamp)>>

lxmf_message_pack(stored, dest, source, in, capacity) ==
  LET built == lxmf_payload_build(in, capacity - LXMF_PACKED_PREFIX_SIZE)
      signed == lxmf_message_sign(stored, dest, source, built[2])
  IN  IF capacity < LXMF_PACKED_PREFIX_SIZE THEN OVERFLOW
      ELSE IF built[1] # "OK" THEN built
      ELSE IF signed[1] # "OK" THEN signed
      ELSE <<"OK", Message(dest, source, signed[2], built[2])>>

-----------------------------------------------------------------------------
(* Reading.  A message that is cut ends within its prefix. *)
Length(m) ==
  IF m.cut THEN LXMF_PACKED_PREFIX_SIZE - 1 ELSE LXMF_PACKED_PREFIX_SIZE + Len(m.payload)

VerifiesFault(m, without_stamp, key) ==
  m.signature.over = <<m.dest, m.source, without_stamp>>

lxmf_message_verify(m, without_stamp, key) ==
  m.signature = Signed(key, m.dest, m.source, without_stamp)

(* the message whose payload was read *)
Verified(m, read, key) ==
  IF read[1] # "OK" THEN read
  ELSE IF ~lxmf_message_verify(m, read[2].without_stamp, key) THEN <<"BAD_SIGNATURE">>
  ELSE <<"OK", <<m.dest, m.source, read[2].without_stamp>>>>

lxmf_message_parse(m, key) ==
  IF m.cut THEN <<"SHORT">> ELSE Verified(m, lxmf_payload_parse(m.payload), key)

-----------------------------------------------------------------------------
(* Dispatch.  An opportunistic packet carries the message without its      *)
(* destination, which is put back from the header of the packet.           *)
Reconstructed(a) ==
  IF a.mode = "opportunistic" THEN [a.message EXCEPT !.dest = a.destination] ELSE a.message

(* transport_path_lookup with the source of the message *)
Recalled(m) == {i \in paths : delivery(i) = m.source}

(* why the dispatch does not look at the message; None when it does *)
Refusal(a) ==
  IF a.mode \notin {"direct", "opportunistic"} THEN "INVAL"
  ELSE IF a.mode = "direct" /\ ~a.link THEN "NO_LINK"
  ELSE IF a.mode = "opportunistic" /\ a.destination = None THEN "INVAL"
  ELSE IF Length(a.message) < LXMF_PACKED_PREFIX_SIZE THEN "SHORT"
  ELSE IF Length(a.message) > LXMF_PACKED_MAX_STAMPED_LEN THEN "CAPACITY"
  ELSE IF Recalled(a.message) = {} THEN "UNKNOWN_SOURCE"
  ELSE None

(* the message the dispatch recognised (None or its identifier) and the    *)
(* status it returns                                                       *)
Refused(status) == [letter |-> None, status |-> status]

Recognised(parsed) ==
  IF parsed[1] = "OVERFLOW" THEN Refused("CAPACITY")
  ELSE IF parsed[1] # "OK" THEN Refused(parsed[1])
  ELSE [letter |-> parsed[2],
        status |-> IF slot = None THEN "OK"
                   ELSE IF slot.message_id = parsed[2] THEN "DUPLICATE" ELSE "CAPACITY"]

Answer(a) ==
  IF Refusal(a) # None THEN Refused(Refusal(a))
  ELSE LET m == Reconstructed(a)
       IN  Recognised(lxmf_message_parse(m, CHOOSE i \in Recalled(m) : TRUE))

(* the message kept *)
Held(a, id) ==
  [message_id |-> id, dest |-> Reconstructed(a).dest,
   source |-> a.message.source, payload_len |-> Len(a.message.payload)]

lxmf_inbound_dispatch(a) ==
  /\ last' = Answer(a)
  /\ slot' = IF last'.status = "OK" THEN Held(a, last'.letter) ELSE slot
  /\ UNCHANGED paths

-----------------------------------------------------------------------------
(* an accepted announce enters the path table; when the table is full it   *)
(* takes the place of another (which one: TransportTables)                 *)
Announced(i) ==
  /\ i \notin paths
  /\ \E kept \in SUBSET paths :
       /\ Cardinality(kept) = IF Cardinality(paths) < MaxPaths THEN Cardinality(paths)
                              ELSE MaxPaths - 1
       /\ paths' = kept \cup {i}
  /\ UNCHANGED <<slot, last>>

Restart ==
  /\ paths' = {}
  /\ slot' = None
  /\ last' = [letter |-> None, status |-> "none"]

Init == paths = {} /\ slot = None /\ last = [letter |-> None, status |-> "none"]

Next ==
  \/ \E a \in Arrivals : lxmf_inbound_dispatch(a)
  \/ \E i \in Identities : Announced(i)
  \/ Restart

Spec == Init /\ [][Next]_vars

-----------------------------------------------------------------------------
(* what the owner of a source signed, of all that may arrive *)
Written ==
  {s.over : s \in {t \in {a.message.signature : a \in Arrivals} :
                     t.over[2] \in {hash(t.by), delivery(t.by)}}}

(* nothing is nothing else, and messages have their parts *)
ASSUME LxmfAssumption ==
  /\ None \notin Written
  /\ \A a \in Arrivals, id \in Written : Held(a, id) # None
  /\ None \notin {"INVAL", "NO_LINK", "SHORT", "CAPACITY", "UNKNOWN_SOURCE"}
  /\ \A a \in Arrivals :
       /\ DOMAIN a = {"message", "mode", "link", "destination"}
       /\ DOMAIN a.message = {"dest", "source", "signature", "payload", "cut"}
       /\ a.message.payload \in Seq(Nat) /\ a.message.dest # None
       /\ a.message.cut \in BOOLEAN /\ a.link \in BOOLEAN

Box == INSTANCE Mailbox WITH
  Letters <- Written,
  box <- IF slot = None THEN None ELSE slot.message_id,
  letter <- last.letter,
  reply <- last.status

(* The slot is a box for one letter: it holds the first message that its   *)
(* source's owner signed and whose source was known, altered messages and  *)
(* messages under another's name never enter it, and the letter in it is   *)
(* recognised with or without a stamp, over a link or in a packet          *)
(* (lxmf_inbound_dispatch.S, lxmf_message_parse.S).                        *)
IsMailbox == Box!Spec

(* A message that a node of this firmware packed names the hash of the     *)
(* identity as its source (lxmf_message_sign.S), a node that receives it   *)
(* looks it up among destinations (lxmf_inbound_dispatch.S): whatever      *)
(* announces it heard, it never takes it.                                  *)
Packings ==
  [by : Identities \cup {None},
   dest : {delivery(i) : i \in Identities},
   source : {hash(i) : i \in Identities} \cup {delivery(i) : i \in Identities},
   in : {Input(Title, Body, <<>>), Input(<<>>, <<>>, <<129, 1>>)}]

PackedBy(r) == lxmf_message_pack(r.by, r.dest, r.source, r.in, 493)

PackedHere == {PackedBy(r)[2] : r \in {q \in Packings : PackedBy(q)[1] = "OK"}}

PackedHereIsUnknownThere ==
  \A m \in PackedHere :
    Answer([message |-> m, mode |-> "direct", link |-> TRUE, destination |-> None]).status
      = "UNKNOWN_SOURCE"
=============================================================================
