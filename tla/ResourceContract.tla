--------------------------- MODULE ResourceContract ---------------------------
(***************************************************************************)
(* Reassembly against the reference model of                               *)
(* src/proofs/resource/resource_reassembly.py, and the bytes of the        *)
(* advertisements that reach it.                                           *)
(*                                                                         *)
(* What arrives over a link for the resource layer, byte by byte: channel  *)
(* envelopes, resource advertisements and parts, as the reference models   *)
(* of src/proofs/resource and the parsers of src/src/resource read them.   *)
(* A byte is a number; bytes are turned into the sets of the digests.      *)
(***************************************************************************)
EXTENDS Reassembly, SymmetricCrypto, Encodings

CONSTANT RESOURCE_ADV_MAX_PARTS   \* 64

CHANNEL_ENVELOPE_MAX_PAYLOAD == 425
RESOURCE_PART_MAX_LEN == 431
RESOURCE_ADV_MAX_RAW_LEN == 431
RESOURCE_HASH_SIZE == 32
RESOURCE_RANDOM_HASH_SIZE == 4
RESOURCE_MAPHASH_SIZE == 4

Invalid == "INVAL"

-----------------------------------------------------------------------------
envelope(msgtype, sequence, payload) ==
  ToBytes(msgtype, 2) \o ToBytes(sequence, 2) \o ToBytes(Len(payload), 2) \o payload

parse(raw) ==
  IF Len(raw) \notin 6 .. 6 + CHANNEL_ENVELOPE_MAX_PAYLOAD
       \/ Len(raw) # 6 + FromBytes(SubSeq(raw, 5, 6))
    THEN <<Invalid>>
    ELSE <<"OK", FromBytes(SubSeq(raw, 1, 2)), FromBytes(SubSeq(raw, 3, 4)),
           SubSeq(raw, 7, Len(raw))>>

prove_envelopes ==
  LET hello == <<104, 101, 108, 108, 111>>
      raw == envelope(4660, 258, hello)
  IN  /\ raw = <<18, 52, 1, 2, 0, 5>> \o hello
      /\ parse(raw) = <<"OK", 4660, 258, hello>>
      /\ \A k \in 0 .. Len(raw) - 1 : parse(SubSeq(raw, 1, k)) = <<Invalid>>
      /\ \A n \in {0, 1, 255, 256, 425} :
           parse(envelope(1, 2, Filled(65, n))) = <<"OK", 1, 2, Filled(65, n)>>
      /\ parse(envelope(1, 2, Filled(65, 425)) \o <<0>>) = <<Invalid>>

-----------------------------------------------------------------------------
(* the first bytes of the digest of part and random hash *)
part_parse(payload, random_hash) ==
  IF Len(payload) > RESOURCE_PART_MAX_LEN THEN <<"OVERFLOW">>
  ELSE SubSeq(Numbers(sha256(Bytes(payload \o random_hash))), 1, RESOURCE_MAPHASH_SIZE)

prove_parts ==
  /\ part_parse(<<114, 101, 115, 111, 117, 114, 99, 101, 45, 112, 97, 114, 116>>, <<1, 2, 3, 4>>)
       = <<197, 28, 192, 144>>
  /\ part_parse(<<>>, <<16, 32, 48, 64>>) = <<244, 227, 240, 176>>
  /\ part_parse(Filled(0, RESOURCE_PART_MAX_LEN + 1), Filled(0, 4)) = <<"OVERFLOW">>

-----------------------------------------------------------------------------
(* the fields of an advertisement in order, with the letter of their key *)
Advertisement ==
  << <<"transfer_size", 116, "uint">>, <<"data_size", 100, "uint">>,
     <<"part_count", 110, "uint">>, <<"resource_hash", 104, "bin">>,
     <<"random_hash", 114, "bin">>, <<"original_hash", 111, "bin">>,
     <<"segment_index", 105, "uint">>, <<"total_segments", 108, "uint">>,
     <<"request", 113, "nil">>, <<"flags", 102, "uint">>, <<"hashmap", 109, "bin">> >>

pack_adv(adv) ==
  LET packed[i \in 0 .. 11] ==
        IF i = 0 THEN <<139>>
        ELSE LET f == Advertisement[i]
             IN  packed[i - 1] \o <<161, f[2]>> \o Encoded(f[3], adv[f[1]])
  IN  packed[11]

(* A reader takes the bytes and a place in them and returns what it read   *)
(* and the place after it.                                                 *)
Unread == <<0, 0>>

uint(raw, pos) ==
  IF pos > Len(raw) THEN Unread
  ELSE LET marker == raw[pos]
           n == IF marker = 204 THEN 1 ELSE IF marker = 205 THEN 2 ELSE 4
       IN  IF marker < 128 THEN <<marker, pos + 1>>
           ELSE IF marker \notin {204, 205, 206} \/ pos + n > Len(raw) THEN Unread
           \* the firmware takes a number of 32 bits for a failure; no
           \* advertisement that is valid has one
           ELSE IF n = 4 /\ raw[pos + 1] > 127 THEN Unread
           ELSE <<FromBytes(SubSeq(raw, pos + 1, pos + n)), pos + n + 1>>

binval_advance(raw, pos) ==
  LET n == IF pos > Len(raw) THEN 0 ELSE IF raw[pos] = 196 THEN 1 ELSE 2
  IN  IF n = 0 \/ pos + n > Len(raw) THEN Unread
      ELSE IF raw[pos] \notin {196, 197} THEN Unread
      ELSE LET length == FromBytes(SubSeq(raw, pos + 1, pos + n))
           IN  IF pos + n + length > Len(raw) THEN Unread
               ELSE <<SubSeq(raw, pos + n + 1, pos + n + length), pos + n + length + 1>>

nil(raw, pos) == IF pos <= Len(raw) /\ raw[pos] = 192 THEN <<"nil", pos + 1>> ELSE Unread

key(raw, pos, letter) ==
  IF pos < Len(raw) /\ raw[pos] = 161 /\ raw[pos + 1] = letter THEN pos + 2 ELSE 0

(* the values of the fields, one after the other as long as they can be    *)
(* read; none when bytes are left over                                     *)
values_from(raw, first) ==
  LET upto[i \in 0 .. 11] ==
        IF i = 0 THEN <<<<>>, first>>
        ELSE LET before == upto[i - 1]
                 f == Advertisement[i]
                 at == IF before[2] = 0 THEN 0 ELSE key(raw, before[2], f[2])
                 read == IF at = 0 THEN Unread
                         ELSE IF f[3] = "uint" THEN uint(raw, at)
                         ELSE IF f[3] = "bin" THEN binval_advance(raw, at) ELSE nil(raw, at)
             IN  <<Append(before[1], read[1]), read[2]>>
  IN  IF upto[11][2] = Len(raw) + 1 THEN upto[11][1] ELSE <<>>

ceiling(a, b) == (a + b - 1) \div b

validateFault(adv) ==   \* the sizes are taken as they are announced
  /\ adv.part_count \in 1 .. RESOURCE_ADV_MAX_PARTS
  /\ Len(adv.hashmap) = adv.part_count * RESOURCE_MAPHASH_SIZE

validate(adv) ==
  /\ adv.transfer_size > 0 /\ adv.data_size > 0
  /\ adv.part_count \in 1 .. RESOURCE_ADV_MAX_PARTS
  /\ adv.flags = 1
  /\ adv.segment_index = 1 /\ adv.total_segments = 1
  /\ Len(adv.resource_hash) = RESOURCE_HASH_SIZE
  /\ Len(adv.random_hash) = RESOURCE_RANDOM_HASH_SIZE
  /\ adv.original_hash = adv.resource_hash
  /\ Len(adv.hashmap) = adv.part_count * RESOURCE_MAPHASH_SIZE
  /\ ceiling(adv.transfer_size, RESOURCE_PART_MAX_LEN) = adv.part_count
  /\ adv.data_size <= adv.transfer_size

parse_strict(raw) ==
  LET values == IF Len(raw) \in 1 .. RESOURCE_ADV_MAX_RAW_LEN /\ raw[1] = 139
                  THEN values_from(raw, 2) ELSE <<>>
      name(i) == Advertisement[i][1]
      adv == [n \in {name(i) : i \in 1 .. 11} |->
                values[CHOOSE i \in 1 .. 11 : name(i) = n]]
  IN  IF Len(values) # 11 \/ ~ validate(adv) THEN <<Invalid>> ELSE <<"OK", adv>>

(* resource_advertisement_parse.S multiplies where the reference divides *)
SizesFit(adv) ==
  /\ adv.transfer_size <= adv.part_count * RESOURCE_PART_MAX_LEN
  /\ adv.transfer_size >= (adv.part_count - 1) * RESOURCE_PART_MAX_LEN + 1
  /\ adv.data_size <= adv.transfer_size

AdvertisementOf(parts, transfer, hash) ==
  [transfer_size |-> transfer, data_size |-> transfer, part_count |-> parts,
   resource_hash |-> Filled(hash, RESOURCE_HASH_SIZE),
   random_hash |-> Filled(82, RESOURCE_RANDOM_HASH_SIZE),
   original_hash |-> Filled(hash, RESOURCE_HASH_SIZE), segment_index |-> 1,
   total_segments |-> 1, request |-> "nil", flags |-> 1,
   hashmap |-> Filled(77, parts * RESOURCE_MAPHASH_SIZE)]

Refused(adv) == parse_strict(pack_adv(adv)) = <<Invalid>>

(* An advertisement packed is read back as it was, up to the largest; one  *)
(* that is not of this kind, cut short or with a byte changed is refused,  *)
(* or it is the advertisement of other numbers that are as good.           *)
prove_advertisements ==
  LET adv == [AdvertisementOf(1, 128, 17) EXCEPT !.data_size = 96]
      most == RESOURCE_ADV_MAX_PARTS
      max_adv == AdvertisementOf(most, most * RESOURCE_PART_MAX_LEN, 17)
      raw == pack_adv(adv) \o <<>>
  IN  /\ \A a \in {adv, max_adv} : parse_strict(pack_adv(a)) = <<"OK", a>>
      /\ Refused([adv EXCEPT !.flags = 3]) /\ Refused([adv EXCEPT !.part_count = 2])
      /\ Refused([adv EXCEPT !.segment_index = 2]) /\ Refused([adv EXCEPT !.data_size = 129])
      /\ Refused([adv EXCEPT !.original_hash = Filled(9, RESOURCE_HASH_SIZE)])
      /\ \A k \in 0 .. Len(raw) - 1 : parse_strict(SubSeq(raw, 1, k)) = <<Invalid>>
      /\ \A i \in 1 .. Len(raw), byte \in {0, 196, 197, 206} :
           LET read == parse_strict([raw EXCEPT ![i] = byte])
           IN  \/ read = <<Invalid>>
               \/ parse_strict(pack_adv(read[2])) = read
      /\ \A n \in 1 .. most, t \in {1, 430, 431, 432, 862, 863}, d \in {1, 431, 432} :
           LET a == [AdvertisementOf(n, t, 0) EXCEPT !.data_size = d]
           IN  validate(a) <=> SizesFit(a)

-----------------------------------------------------------------------------
advertisement_t ==
  << <<"raw_len", 0, 4>>, <<"transfer_size", 4, 4>>, <<"data_size", 8, 4>>,
     <<"part_count", 12, 4>>, <<"flags", 16, 4>>, <<"segment_index", 20, 4>>,
     <<"total_segments", 24, 4>>, <<"resource_hash", 28, RESOURCE_HASH_SIZE>>,
     <<"random_hash", 60, RESOURCE_RANDOM_HASH_SIZE>>,
     <<"original_hash", 64, RESOURCE_HASH_SIZE>>, <<"hashmap_len", 96, 4>>,
     <<"hashmap_ptr", 100, 4>> >>

part_t ==
  << <<"payload_len", 0, 4>>, <<"payload_ptr", 4, 4>>, <<"maphash", 8, RESOURCE_MAPHASH_SIZE>> >>

envelope_t ==
  << <<"raw_len", 0, 4>>, <<"msgtype", 4, 4>>, <<"sequence", 8, 4>>,
     <<"payload_len", 12, 4>>, <<"payload_ptr", 16, 4>> >>

(* 64 parts in the bitmap and in the hashmap *)
reassembly_entry ==
  << <<"valid", 0, 1>>, <<"status", 1, 1>>, <<"window", 2, 1>>, <<"reserved", 3, 1>>,
     <<"total_parts", 4, 4>>, <<"received_count", 8, 4>>, <<"consecutive_idx", 12, 4>>,
     <<"resource_hash", 16, RESOURCE_HASH_SIZE>>,
     <<"random_hash", 48, RESOURCE_RANDOM_HASH_SIZE>>,
     <<"received_bitmap", 52, 64 \div 8>>, <<"hashmap", 60, 64 * RESOURCE_MAPHASH_SIZE>> >>

FormatsArePacked ==
  /\ Packed(advertisement_t, 104) /\ Packed(part_t, 12) /\ Packed(envelope_t, 20)
  /\ Packed(reassembly_entry, 316)

-----------------------------------------------------------------------------
(* what becomes of a plaintext, by the context byte of its packet *)
process_model(context, ok) ==
  IF ~ ok THEN "INVAL"
  ELSE IF context = 14 THEN "CHANNEL"
  ELSE IF context = 2 THEN "ADVERTISED"
  ELSE IF context = 1 THEN "PART_ACCEPTED"
  ELSE "INVAL"

reassembly_init(table) == [s \in DOMAIN table |-> EmptyEntry]

(* the first slot not valid, 0 when there is none *)
FirstFree(table) ==
  LET free[s \in 0 .. Capacity] ==
        IF s = 0 THEN 0
        ELSE IF free[s - 1] = 0 /\ table[s].status = "empty" THEN s ELSE free[s - 1]
  IN  free[Capacity]

(* status and table after an advertisement *)
advertise(table, r) ==
  LET slot == IF FirstFree(table) = 0 THEN 1 ELSE FirstFree(table)
  IN  IF PartCount[r] = 0 \/ PartCount[r] > MaxParts THEN <<"INVAL", table>>
      ELSE IF \E s \in Slot : table[s].status # "empty" /\ table[s].resource = r
        THEN <<"DUPLICATE", table>>
      ELSE <<"ADVERTISED",
             [table EXCEPT ![slot] =
                [status |-> "receiving", resource |-> r, received_count |-> 0,
                 consecutive_idx |-> 0, received_bitmap |-> {}]]>>

(* Slot after slot, the Window parts from one before the first one missing *)
(* are compared.  Parts are numbered from 0.                               *)
Compared(table, p, n) ==
  LET s     == 1 + ((n - 1) \div Window)
      entry == table[s]
      start == IF entry.consecutive_idx > 0 THEN entry.consecutive_idx - 1 ELSE 0
      idx   == start + ((n - 1) % Window)
  IN  IF entry.status # "receiving" THEN <<>>
      ELSE IF idx >= PartCount[entry.resource] THEN <<>>
      ELSE IF Hashmap[entry.resource][idx + 1] = MapHash[entry.resource][p]
        THEN <<s, idx>> ELSE <<>>

(* the n-th comparison decides if none before it did *)
FirstMatch(table, p) ==
  LET match[n \in 0 .. Capacity * Window] ==
        IF n = 0 THEN <<>>
        ELSE IF match[n - 1] # <<>> THEN match[n - 1] ELSE Compared(table, p, n)
  IN  match[Capacity * Window]

(* the loop that moves consecutive_index on, part by part *)
Consecutive(from, total, bitmap) ==
  LET index[n \in 0 .. total] ==
        IF n = 0 THEN from
        ELSE IF index[n - 1] < total /\ index[n - 1] + 1 \in bitmap
          THEN index[n - 1] + 1 ELSE index[n - 1]
  IN  index[total]

Whole(entry) == entry.received_count + 1 = PartCount[entry.resource]

(* the entry with part idx received *)
Recorded(entry, idx) ==
  LET bitmap == entry.received_bitmap \cup {idx + 1}
      total  == PartCount[entry.resource]
  IN  [status |-> IF Whole(entry) THEN "complete" ELSE "receiving",
       resource |-> entry.resource,
       received_count |-> entry.received_count + 1,
       consecutive_idx |-> Consecutive(entry.consecutive_idx, total, bitmap),
       received_bitmap |-> bitmap]

update_part(table, p) ==
  LET match == FirstMatch(table, p)
      s     == match[1]
      idx   == match[2]
  IN  IF match = <<>> THEN <<"INVAL", table>>
      ELSE IF idx + 1 \in table[s].received_bitmap THEN <<"DUPLICATE", table>>
      ELSE <<IF Whole(table[s]) THEN "COMPLETE" ELSE "PART_ACCEPTED",
             [table EXCEPT ![s] = Recorded(table[s], idx)]>>

-----------------------------------------------------------------------------
prove_process_model ==
  /\ process_model(14, TRUE) = "CHANNEL"
  /\ process_model(2, TRUE) = "ADVERTISED"
  /\ process_model(1, TRUE) = "PART_ACCEPTED"
  /\ process_model(126, TRUE) = "INVAL"
  /\ process_model(14, FALSE) = "INVAL"

Used(r) ==
  [EmptyEntry EXCEPT !.status = "receiving", !.resource = r,
                     !.received_count = 1, !.received_bitmap = {2}]

prove_init_model ==
  \A r \in Resource : reassembly_init([s \in Slot |-> Used(r)]) = [s \in Slot |-> EmptyEntry]

PartAt(r, i) == CHOOSE p \in Part : MapHash[r][p] = Hashmap[r][i]

(* A resource of three parts or more, all different, from its               *)
(* advertisement to its last part, the second part first and then twice.    *)
prove_model ==
  \A r \in Resource :
    /\ PartCount[r] \in 3 .. MaxParts
    /\ Cardinality({Hashmap[r][i] : i \in 1 .. PartCount[r]}) = PartCount[r]
    => LET advertised == advertise([s \in Slot |-> EmptyEntry], r)
           second     == update_part(advertised[2], PartAt(r, 2))
           first      == update_part(second[2], PartAt(r, 1))
           again      == update_part(first[2], PartAt(r, 2))
           upTo[i \in 2 .. PartCount[r]] ==
             IF i = 2 THEN again ELSE update_part(upTo[i - 1][2], PartAt(r, i))
           whole      == upTo[PartCount[r]]
           unknown    == {p \in Part : \A i \in 1 .. PartCount[r] :
                                        MapHash[r][p] # Hashmap[r][i]}
       IN  /\ advertised[1] = "ADVERTISED" /\ advertised[2][1].status = "receiving"
           /\ second[1] = "PART_ACCEPTED"
           /\ second[2][1].received_count = 1 /\ second[2][1].consecutive_idx = 0
           /\ first[1] = "PART_ACCEPTED" /\ first[2][1].consecutive_idx = 2
           /\ again[1] = "DUPLICATE" /\ again[2][1].received_count = 2
           /\ whole[1] = "COMPLETE" /\ whole[2][1].status = "complete"
           /\ whole[2][1].consecutive_idx = PartCount[r]
           /\ advertise(whole[2], r)[1] = "DUPLICATE"
           /\ \A p \in unknown : update_part(whole[2], p)[1] = "INVAL"

(* an advertisement of r as its peer sends it *)
Sent(r) ==
  AdvertisementOf(PartCount[r], PartCount[r] * RESOURCE_PART_MAX_LEN, 17)

(* the parser lets through what Reassembly takes for acceptable *)
ParserAgrees ==
  \A r \in Resource : r \in Acceptable <=> parse_strict(pack_adv(Sent(r)))[1] = "OK"

ResourceTables ==
  /\ prove_envelopes /\ prove_parts /\ prove_advertisements /\ FormatsArePacked
  /\ ParserAgrees
  /\ prove_process_model /\ prove_init_model /\ prove_model

Started == restarts = 0 /\ \A s \in Slot : ~ Valid(s)

(* an advertisement changes the table as the model does, and only when the *)
(* model changes it                                                        *)
AdvertisementsAgree ==
  LET table == resource_reassembly_table
  IN  \A r \in Resource :
        /\ Advertise(r) =>
             advertise(table, r) = <<process_model(2, TRUE), resource_reassembly_table'>>
        /\ advertise(table, r)[2] # table <=>
             r \in Acceptable /\ \A s \in Slot : ~ Holds(s, r)

(* so does a part, and what the model turns away lands nowhere new *)
PartsAgree ==
  LET table == resource_reassembly_table
      after == resource_reassembly_table'
  IN  \A p \in Part :
        /\ ReceivePart(p) =>
             update_part(table, p)
               \in {<<process_model(1, TRUE), after>>, <<"COMPLETE", after>>}
        /\ update_part(table, p)[1] \in {"DUPLICATE", "INVAL"} <=>
             \A s \in Slot, i \in Index :
               Lands(p, s, i) => i \in table[s].received_bitmap

RestartsAgree ==
  restarts' # restarts =>
    resource_reassembly_table' = reassembly_init(resource_reassembly_table)

(* Whatever resources, parts and restarts came before, each advertisement  *)
(* and each part is answered, and changes the table, as the loops of       *)
(* resource_reassembly.py do; also where that loses a transfer: a complete *)
(* one gives its slot to a third, and of two parts alike next to each      *)
(* other the second is taken for a repetition.  An advertisement reaches   *)
(* the table only with sizes and hashes that fit each other.               *)
ResourcesFollowContract ==
  [][(Started => ResourceTables) /\ AdvertisementsAgree /\ PartsAgree /\ RestartsAgree]_vars
=============================================================================
