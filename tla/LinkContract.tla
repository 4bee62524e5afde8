----------------------------- MODULE LinkContract -----------------------------
(***************************************************************************)
(* LinkTable against the reference models of src/proofs/link, and what     *)
(* LinkTable takes as ideal computed on bytes: link ids, session keys and  *)
(* session tokens, with SHA-256, HMAC, HKDF and AES as the code has them.  *)
(* Key agreement is on the smaller curve of X25519.                        *)
(*                                                                         *)
(* Link requests byte by byte are those of include/link.S,                 *)
(* link_request_build and link_request_parse.  A byte is a number.         *)
(***************************************************************************)
EXTENDS LinkTable, Encodings, SymmetricCrypto, X25519, TLC

CONSTANT LINK_REQUEST_RETICULUM_MDU   \* 484

LINK_REQUEST_HEADER_FLAGS == 2
LINK_REQUEST_RAW_LEN == 86
LINK_REQUEST_T_SIZE == 92
LINK_DEFAULT_MTU == 500
LINK_MODE_AES256_CBC == 1
LINK_TABLE_CAPACITY == 4
LINK_ENTRY_SIZE == 296
LINK_SESSION_TOKEN_OVERHEAD == 16 + 32
LINK_SESSION_PLAINTEXT_MAX == 431
LINK_SESSION_TOKEN_MAX == 480

(* three bits of cipher mode, 21 bits of MTU *)
Signals(mode, mtu) == ToBytes(mode * 2^21 + mtu, 3)

LINK_SIGNALS == Signals(LINK_MODE_AES256_CBC, LINK_DEFAULT_MTU)

link_request_raw ==
  << <<"flags", 0, 1>>, <<"hops", 1, 1>>, <<"dest", 2, 16>>, <<"context", 18, 1>>,
     <<"x25519", 19, 32>>, <<"ed25519", 51, 32>>, <<"signals", 83, 3>> >>

link_request_t ==
  << <<"raw_len", 0, 4>>, <<"mtu", 4, 4>>, <<"mode", 8, 4>>, <<"dest", 12, 16>>,
     <<"x25519", 28, 32>>, <<"ed25519", 60, 32>> >>

link_entry ==
  << <<"valid", 0, 1>>, <<"status", 1, 1>>, <<"mode", 2, 1>>, <<"reserved", 3, 1>>,
     <<"last_seen", 4, 4>>, <<"dest", 8, 16>>,
     <<"local_x25519", 24, 32>>, <<"local_x25519_sk", 56, 32>>,
     <<"local_ed25519", 88, 32>>, <<"local_ed25519_sk", 120, 32>>,
     <<"remote_x25519", 152, 32>>, <<"remote_ed25519", 184, 32>>,
     <<"link_id", 216, 16>>, <<"key_material", 232, 64>> >>

prove_constants ==
  /\ Packed(link_request_raw, LINK_REQUEST_RAW_LEN)
  /\ LINK_REQUEST_RAW_LEN <= LINK_REQUEST_RETICULUM_MDU
  /\ Packed(link_request_t, LINK_REQUEST_T_SIZE)
  /\ Packed(link_entry, LINK_ENTRY_SIZE)
  /\ LINK_TABLE_CAPACITY * LINK_ENTRY_SIZE = 1184
  /\ LINK_SIGNALS = <<32, 1, 244>>

(* The longest text fills its last block but for the byte of padding, and  *)
(* its token is the longest that is opened.                                *)
prove_token_sizes ==
  /\ (LINK_SESSION_PLAINTEXT_MAX + 1) % 16 = 0
  /\ LINK_SESSION_PLAINTEXT_MAX + 1 + LINK_SESSION_TOKEN_OVERHEAD = LINK_SESSION_TOKEN_MAX
  /\ 19 + LINK_SESSION_TOKEN_MAX <= LINK_DEFAULT_MTU

-----------------------------------------------------------------------------
(* a request is taken only as this firmware itself would send it *)
accepts(length, flags, context, signals) ==
  /\ length = LINK_REQUEST_RAW_LEN
  /\ length <= LINK_REQUEST_RETICULUM_MDU
  /\ flags = LINK_REQUEST_HEADER_FLAGS
  /\ context = 0
  /\ signals = LINK_SIGNALS

prove_acceptance_domain ==
  \A length \in 0 .. LINK_REQUEST_RETICULUM_MDU + 1, flags \in {0, 2}, context \in {0, 1},
     signals \in {LINK_SIGNALS, <<64, 1, 244>>, <<32, 1, 245>>} :
       accepts(length, flags, context, signals)
         <=> /\ length = LINK_REQUEST_RAW_LEN
             /\ flags = 2 /\ context = 0 /\ signals = LINK_SIGNALS

link_request_build(dest, x25519, ed25519, capacity) ==
  IF capacity < LINK_REQUEST_RAW_LEN THEN <<"OVERFLOW", <<>>>>
  ELSE <<"OK", <<LINK_REQUEST_HEADER_FLAGS, 0>> \o dest \o <<0>> \o x25519 \o ed25519
                 \o LINK_SIGNALS>>

(* The hops are whatever the nodes on the way made of them. *)
link_request_parse(raw) ==
  LET of(name) == Taken(link_request_raw, name, raw)
  IN  IF Len(raw) # LINK_REQUEST_RAW_LEN THEN <<"INVAL">>
      ELSE IF ~ accepts(Len(raw), of("flags")[1], of("context")[1], of("signals"))
        THEN <<"INVAL">>
      ELSE <<"OK", [raw_len |-> Len(raw), mtu |-> LINK_DEFAULT_MTU,
                    mode |-> LINK_MODE_AES256_CBC, dest |-> of("dest"),
                    x25519 |-> of("x25519"), ed25519 |-> of("ed25519")]>>

(* Every field of a request comes out of the place where it was put, a     *)
(* relayed request is the same one, and one that is too short or too long, *)
(* or differs in a field that is checked, is refused.                      *)
prove_field_ranges ==
  LET dest == [i \in 1 .. 16 |-> i]
      x25519 == [i \in 1 .. 32 |-> 100 + i]
      ed25519 == [i \in 1 .. 32 |-> 200 + i]
      built == link_request_build(dest, x25519, ed25519, LINK_REQUEST_RAW_LEN)[2]
      read == link_request_parse(built)
      Checked == {1, 19, 84, 85, 86}
      altered(i) == link_request_parse([built EXCEPT ![i] = (@ + 1) % 256])
  IN  /\ link_request_build(dest, x25519, ed25519, LINK_REQUEST_RAW_LEN - 1)[1] = "OVERFLOW"
      /\ Len(built) = LINK_REQUEST_RAW_LEN
      /\ read[1] = "OK"
      /\ read[2].dest = dest /\ read[2].x25519 = x25519 /\ read[2].ed25519 = ed25519
      /\ \A i \in 1 .. LINK_REQUEST_RAW_LEN :
           /\ altered(i) = <<"INVAL">> <=> i \in Checked
           /\ altered(i) = read <=> i = 2
      /\ \A k \in 0 .. LINK_REQUEST_RAW_LEN - 1 :
           link_request_parse(SubSeq(built, 1, k)) = <<"INVAL">>
      /\ link_request_parse(built \o <<0>>) = <<"INVAL">>

-----------------------------------------------------------------------------
accept_status(valid, raw_len, mtu, mode, duplicate) ==
  IF ~ valid \/ raw_len # LINK_REQUEST_RAW_LEN \/ mtu # LINK_DEFAULT_MTU
       \/ mode # LINK_MODE_AES256_CBC
    THEN "INVAL"
  ELSE IF duplicate THEN "DUPLICATE" ELSE "OK"

prove_status_model ==
  \A valid, duplicate \in BOOLEAN, raw_len \in {0, LINK_REQUEST_RAW_LEN},
     mtu \in {500, 501}, mode \in {0, 1} :
       accept_status(valid, raw_len, mtu, mode, duplicate) # "INVAL"
         <=> valid /\ raw_len = LINK_REQUEST_RAW_LEN /\ mtu = 500 /\ mode = 1

(* what link_process_packet makes of a packet *)
classify(packet_type, dest_type, context, known_link) ==
  IF packet_type \in {"linkrequest", "announce"} THEN "OK"
  ELSE IF packet_type = "data" /\ dest_type = "link" /\ context = 0 /\ known_link
    THEN "DECRYPTED"
  ELSE "INVAL"

prove_classification_model ==
  /\ \A packet_type \in {"linkrequest", "announce"} :
       classify(packet_type, "single", 0, FALSE) = "OK"
  /\ \A packet_type \in {"data", "proof"}, dest_type \in {"single", "link"},
        context \in {0, 1}, known_link \in BOOLEAN :
       classify(packet_type, dest_type, context, known_link) = "DECRYPTED"
         <=> packet_type = "data" /\ dest_type = "link" /\ context = 0 /\ known_link

-----------------------------------------------------------------------------
(* The slot a handshake writes, by one walk over the table: what it has    *)
(* seen before slot i is the slot of the destination, the first free one   *)
(* and the oldest one with its age.                                        *)
NothingSeen == [same |-> 0, first_invalid |-> 0, oldest |-> 0, oldest_age |-> -1]

SeenWith(table, dest, now, modulus, i, before) ==
  LET entry == table[i]
      age == (now - entry.last_seen) % modulus
  IN  IF before.same # 0 THEN before
      ELSE IF ~ entry.valid
        THEN IF before.first_invalid = 0
               THEN [before EXCEPT !.first_invalid = i] ELSE before
      ELSE IF entry.dest = dest THEN [before EXCEPT !.same = i]
      ELSE IF age > before.oldest_age
        THEN [before EXCEPT !.oldest = i, !.oldest_age = age]
      ELSE before

Walk(table, dest, now, modulus) ==
  LET seen[i \in 0 .. Len(table)] ==
        IF i = 0 THEN NothingSeen
        ELSE SeenWith(table, dest, now, modulus, i, seen[i - 1])
  IN  seen[Len(table)]

choose_slot(table, dest, now, modulus) ==
  LET walk == Walk(table, dest, now, modulus)
  IN  IF walk.same # 0 THEN walk.same
      ELSE IF walk.first_invalid # 0 THEN walk.first_invalid
      ELSE walk.oldest

UsedSlot(dest, last_seen) == [valid |-> TRUE, dest |-> dest, last_seen |-> last_seen]
EmptySlot == [valid |-> FALSE, dest |-> 0, last_seen |-> 0]

(* the destination's own slot, then a free one, then the oldest, which a   *)
(* clock of 16 bits that wrapped does not hide                             *)
prove_slot_model ==
  LET table == <<EmptySlot, UsedSlot(1, 10), UsedSlot(2, 20), EmptySlot>>
      full == [i \in 1 .. LINK_TABLE_CAPACITY |-> UsedSlot(i, 100 + 10 * i)]
      wrapped == <<UsedSlot(1, 2^16 - 16), UsedSlot(2, 10), UsedSlot(3, 20), UsedSlot(4, 30)>>
  IN  /\ choose_slot(table, 1, 50, 2^16) = 2
      /\ choose_slot(table, 3, 50, 2^16) = 1
      /\ choose_slot(full, 9, 200, 2^16) = 1
      /\ choose_slot(wrapped, 9, 40, 2^16) = 1
      /\ \A i \in 1 .. LINK_TABLE_CAPACITY :
           /\ choose_slot(full, i, 200, 2^16) = i
           /\ choose_slot([full EXCEPT ![i] = EmptySlot], 9, 200, 2^16) = i

-----------------------------------------------------------------------------
(* On bytes *)

Numbered(first, step, n) == Bytes([i \in 1 .. n |-> (first + step * (i - 1)) % 256])

link_id_of(dest, xpub, epub) ==
  SubSeq(sha256(<<Byte(LINK_REQUEST_HEADER_FLAGS)>> \o dest \o <<{}>> \o xpub \o epub), 1, 16)

prove_link_id_vector ==
  link_id_of(Numbered(0, 1, 16), Numbered(32, 1, 32), Numbered(128, 1, 32))
    = Bytes(<<141, 208, 168, 135, 96, 28, 63, 163, 117, 123, 127, 240, 253, 44, 57, 209>>)

hkdf_sha256(shared_secret, salt, length) ==
  hkdf_expand(hkdf_extract(salt, shared_secret), <<>>, length)

(* link_derive_keys: the link id is the salt *)
prove_reference_vector ==
  LET out == hkdf_sha256(Numbered(16, 7, 32), Numbered(128, 11, 16), 64)
  IN  /\ Len(out) = 64
      /\ SubSeq(out, 1, 8) = Bytes(<<103, 228, 12, 230, 154, 187, 183, 235>>)
      /\ SubSeq(out, 57, 64) = Bytes(<<223, 184, 81, 165, 32, 53, 202, 113>>)

padded(plaintext) ==
  LET pad == 16 - (Len(plaintext) % 16)
  IN  plaintext \o [i \in 1 .. pad |-> Byte(pad)]

HmacKey(key_material) == SubSeq(key_material, 1, 32)
AesKey(key_material) == expand_key(SubSeq(key_material, 33, 64))

token_encrypt(key_material, iv, plaintext) ==
  LET signed == iv \o cbc_encrypt(AesKey(key_material), iv, padded(plaintext))
  IN  signed \o hmac_sha256(HmacKey(key_material), signed)

(* link_session_decrypt: its status and the plaintext *)
token_decrypt(key_material, token, capacity) ==
  LET length == Len(token)
      signed == SubSeq(token, 1, length - 32)
      text == cbc_decrypt(AesKey(key_material), SubSeq(token, 1, 16),
                          SubSeq(token, 17, length - 32)) \o <<>>
      pad == Number(text[Len(text)])
      n == Len(text) - pad
  IN  IF length \notin LINK_SESSION_TOKEN_OVERHEAD + 16 .. LINK_SESSION_TOKEN_MAX
           \/ (length - LINK_SESSION_TOKEN_OVERHEAD) % 16 # 0
           \/ hmac_sha256(HmacKey(key_material), signed) # SubSeq(token, length - 31, length)
        THEN <<"INVAL", <<>>>>
      ELSE IF pad \notin 1 .. 16 \/ (\E i \in n + 1 .. Len(text) : text[i] # Byte(pad))
        THEN <<"INVAL", <<>>>>
      ELSE IF n > capacity THEN <<"OVERFLOW", <<>>>>
      ELSE <<"OK", SubSeq(text, 1, n)>>

SomeMaterial == Numbered(33, 11, 64)
SomeIv == Numbered(0, 17, 16)

prove_token_vector ==
  token_encrypt(SomeMaterial, SomeIv,
      Bytes(<<104, 101, 108, 108, 111, 32, 108, 105, 110, 107, 32, 115, 101, 115, 115, 105, 111, 110>>))
    = Bytes(<<
        0, 17, 34, 51, 68, 85, 102, 119, 136, 153, 170, 187, 204, 221, 238, 255,
        251, 159, 18, 58, 196, 68, 142, 249, 214, 150, 126, 160, 76, 241, 223, 134,
        93, 81, 153, 90, 131, 32, 152, 135, 25, 219, 149, 107, 72, 196, 111, 172,
        62, 215, 56, 7, 157, 112, 180, 123, 246, 17, 153, 122, 118, 95, 58, 54,
        152, 25, 135, 73, 243, 92, 157, 214, 146, 12, 80, 57, 71, 25, 68, 196>>)

(* what comes out is what went in, around every length of the padding;     *)
(* nothing comes out of a token cut short, with a changed byte, or under   *)
(* other keys                                                              *)
prove_tokens ==
  \A n \in {0, 1, 15, 16, 17} :
    LET text == Numbered(7, 1, n)
        token == token_encrypt(SomeMaterial, SomeIv, text)
        refuses(material, other) == token_decrypt(material, other, n)[1] = "INVAL"
    IN  /\ token_decrypt(SomeMaterial, token, n) = <<"OK", text>>
        /\ n > 0 => token_decrypt(SomeMaterial, token, n - 1)[1] = "OVERFLOW"
        /\ \A k \in {0, 47, 48, 63, Len(token) - 1} : refuses(SomeMaterial, SubSeq(token, 1, k))
        /\ \A i \in {1, 17, Len(token)} :
             refuses(SomeMaterial, [token EXCEPT ![i] = xor(@, {0})])
        /\ refuses(Numbered(34, 11, 64), token)

LinkTables ==
  /\ prove_constants /\ prove_token_sizes
  /\ prove_acceptance_domain /\ prove_field_ranges
  /\ prove_status_model /\ prove_classification_model /\ prove_slot_model
  /\ prove_link_id_vector /\ prove_reference_vector
  /\ prove_aes /\ prove_token_vector /\ prove_tokens
  /\ prove_field /\ prove_agreement({17, 200, 455, 1000})

-----------------------------------------------------------------------------
Started == generated = 0 /\ uptime = 0 /\ restarts = 0

StatusOf(r) ==
  accept_status(TRUE, LINK_REQUEST_RAW_LEN, LINK_DEFAULT_MTU, LINK_MODE_AES256_CBC,
                \E s \in Slot : Answered(r, s))

Scanned ==
  [s \in Slot |-> [valid |-> InUse(s), dest |-> link_table[s].dest,
                   last_seen |-> link_table[s].last_seen]]

ChosenSlot(d) == choose_slot(Scanned, d, Now, ClockModulus)

KnownLink(id) ==
  \E s \in Slot : link_table[s].status = "established" /\ link_table[s].link_id = id

(* a handshake writes the one slot that the walk chooses *)
SlotsAgree == \A d \in Dest, s \in Slot : PicksSlot(d, s) <=> s = ChosenSlot(d)

(* a request is a duplicate exactly when that slot holds its link *)
DuplicatesAgree ==
  \A r \in Request :
    LET held == link_table[ChosenSlot(r.dest)]
    IN  StatusOf(r) = "DUPLICATE"
          <=> /\ held.status = "established"
              /\ held.dest = r.dest /\ held.theirs = r.x25519

(* text is taken only for a link that classify knows *)
OpenedAreKnown ==
  \A token \in Arriving :
    Opens(token) => classify("data", "link", 0, KnownLink(token.link_id)) = "DECRYPTED"

(* Whatever the table holds and whatever the clock has wrapped to, a       *)
(* handshake writes the one slot that the walk of link_handshake_init.py   *)
(* chooses; a request is a duplicate exactly when that slot holds its      *)
(* established link; text is taken only for a link that classify knows.    *)
(* Two nodes agree on keys, and a token gives back the text that was put   *)
(* into it, or nothing.                                                    *)
LinksFollowContract ==
  /\ [][Started => LinkTables]_vars
  /\ [](SlotsAgree /\ DuplicatesAgree /\ OpenedAreKnown)

-----------------------------------------------------------------------------
(* What a small instance may exchange, and the limbs of its field *)
Symmetry == Permutations(Dest) \cup Permutations(PeerKey)

FieldWidths == <<3, 2, 3, 2>>
=============================================================================
