---------------------------- MODULE AnnounceFormats ----------------------------
(***************************************************************************)
(* Announces byte by byte: what announce_build writes, announce_parse      *)
(* reads and announce_validate checks, next to the models of               *)
(* src/proofs/announce.  A signature is a sequence of opaque bytes that    *)
(* name the key and what was signed.                                       *)
(***************************************************************************)
EXTENDS SymmetricCrypto, Encodings

ANNOUNCE_HEADER_FLAGS == 1
ANNOUNCE_HEADER2_FLAGS == 81
ANNOUNCE_CONTEXT_NONE == 0
ANNOUNCE_HEADER_LEN == 19
ANNOUNCE_H2_HEADER_LEN == 35
ANNOUNCE_BASE_RAW_LEN == 167
ANNOUNCE_H2_BASE_RAW_LEN == 183
ANNOUNCE_RETICULUM_MDU == 484
ANNOUNCE_MAX_APP_DATA == ANNOUNCE_RETICULUM_MDU - ANNOUNCE_BASE_RAW_LEN

(* the fixed part of an announce, as sent by its owner and as relayed *)
HEADER_1 ==
  << <<"flags", 0, 1>>, <<"hops", 1, 1>>, <<"destination_hash", 2, 16>>, <<"context", 18, 1>>,
     <<"public_key", 19, 64>>, <<"name_hash", 83, 10>>, <<"random_hash", 93, 10>>,
     <<"signature", 103, 64>> >>

HEADER_2 ==
  << <<"flags", 0, 1>>, <<"hops", 1, 1>>, <<"transport_id", 2, 16>>,
     <<"destination_hash", 18, 16>>, <<"context", 34, 1>>, <<"public_key", 35, 64>>,
     <<"name_hash", 99, 10>>, <<"random_hash", 109, 10>>, <<"signature", 119, 64>> >>

announce_rx_t ==
  << <<"raw_len", 0, 4>>, <<"payload_len", 4, 4>>, <<"app_data_len", 8, 4>>,
     <<"destination_hash", 12, 16>>, <<"public_key", 28, 64>>, <<"name_hash", 92, 10>>,
     <<"random_hash", 102, 10>>, <<"signature", 112, 64>>, <<"app_data_ptr", 176, 4>> >>

Copied == {"destination_hash", "public_key", "name_hash", "random_hash", "signature"}

LayoutOf(flags) == IF flags = ANNOUNCE_HEADER2_FLAGS THEN HEADER_2 ELSE HEADER_1
BaseOf(flags) ==
  IF flags = ANNOUNCE_HEADER2_FLAGS THEN ANNOUNCE_H2_BASE_RAW_LEN ELSE ANNOUNCE_BASE_RAW_LEN
HeaderOf(flags) ==
  IF flags = ANNOUNCE_HEADER2_FLAGS THEN ANNOUNCE_H2_HEADER_LEN ELSE ANNOUNCE_HEADER_LEN

-----------------------------------------------------------------------------
parse_accepts(length, flags, context) ==
  /\ length \in BaseOf(flags) .. ANNOUNCE_RETICULUM_MDU
  /\ flags \in {ANNOUNCE_HEADER_FLAGS, ANNOUNCE_HEADER2_FLAGS}
  /\ context = ANNOUNCE_CONTEXT_NONE

announce_parse(raw) ==
  IF \/ Len(raw) < 2
     \/ Len(raw) \notin BaseOf(raw[1]) .. ANNOUNCE_RETICULUM_MDU
     \/ raw[1] \notin {ANNOUNCE_HEADER_FLAGS, ANNOUNCE_HEADER2_FLAGS}
     \/ Taken(LayoutOf(raw[1]), "context", raw) # <<ANNOUNCE_CONTEXT_NONE>>
    THEN <<"INVAL">>
    ELSE <<"OK", [raw_len |-> Len(raw),
                  payload_len |-> Len(raw) - HeaderOf(raw[1]),
                  app_data |-> SubSeq(raw, BaseOf(raw[1]) + 1, Len(raw)),
                  fields |-> [f \in Copied |-> Taken(LayoutOf(raw[1]), f, raw)]]>>

validate_shape(raw_len, payload_len, app_len, app_ptr) ==
  /\ raw_len \in ANNOUNCE_BASE_RAW_LEN .. ANNOUNCE_RETICULUM_MDU
  /\ \E flags \in {ANNOUNCE_HEADER_FLAGS, ANNOUNCE_HEADER2_FLAGS} :
       /\ raw_len >= BaseOf(flags)
       /\ app_len = raw_len - BaseOf(flags)
       /\ payload_len = raw_len - HeaderOf(flags)
  /\ app_len <= ANNOUNCE_MAX_APP_DATA
  /\ app_len > 0 => app_ptr # 0

identity_hash(public_key) == SubSeq(sha256(Bytes(public_key)), 1, 16)

destination_hash(name_hash, public_key) ==
  Numbers(SubSeq(sha256(Bytes(name_hash) \o identity_hash(public_key)), 1, 16))

(* ed25519: only the owner of the key makes this of this data *)
ed25519_sign(public_key, data) == [i \in 1 .. 64 |-> <<i, public_key, data>>]

signed_data(fields, app_data) ==
  fields["destination_hash"] \o fields["public_key"] \o fields["name_hash"]
    \o fields["random_hash"] \o app_data

announce_validate(rx) ==
  /\ validate_shape(rx.raw_len, rx.payload_len, Len(rx.app_data), 1)
  /\ rx.fields["destination_hash"]
       = destination_hash(rx.fields["name_hash"], rx.fields["public_key"])
  /\ rx.fields["signature"]
       = ed25519_sign(rx.fields["public_key"], signed_data(rx.fields, rx.app_data))

announce_build(public_key, name_hash, random_hash, app_data, capacity) ==
  LET dest == destination_hash(name_hash, public_key)
      data == dest \o public_key \o name_hash \o random_hash \o app_data
  IN  IF \/ Len(app_data) > ANNOUNCE_MAX_APP_DATA
         \/ capacity < ANNOUNCE_BASE_RAW_LEN + Len(app_data)
        THEN <<"INVAL">>
        ELSE <<"OK", <<ANNOUNCE_HEADER_FLAGS, 0>> \o dest \o <<ANNOUNCE_CONTEXT_NONE>>
                      \o public_key \o name_hash \o random_hash
                      \o ed25519_sign(public_key, data) \o app_data>>

(* an announce as a transport node sends it on (announce_rebroadcast) *)
Relayed(raw, transport_id) ==
  <<ANNOUNCE_HEADER2_FLAGS, raw[2] + 1>> \o transport_id \o SubSeq(raw, 3, Len(raw))

-----------------------------------------------------------------------------
prove_acceptance_domain ==
  \A flags \in {0, 1, 64, 81} : \A context \in {0, 1} :
    \A length \in 0 .. ANNOUNCE_RETICULUM_MDU + 1 :
      LET at == IF flags = 81 THEN 35 ELSE 19
          raw == [i \in 1 .. length |-> IF i = 1 THEN flags ELSE IF i = at THEN context ELSE 7]
      IN  (announce_parse(raw)[1] = "OK") = parse_accepts(length, flags, context)

(* an announce that is accepted has all its fields within its bytes, and   *)
(* its application data is what is left                                    *)
prove_field_ranges ==
  \A flags \in {ANNOUNCE_HEADER_FLAGS, ANNOUNCE_HEADER2_FLAGS} :
    \A length \in BaseOf(flags) .. ANNOUNCE_RETICULUM_MDU :
      /\ \A f \in Copied :
           FieldOf(LayoutOf(flags), f)[2] + FieldOf(LayoutOf(flags), f)[3] <= length
      /\ length - BaseOf(flags) \in 0 .. ANNOUNCE_MAX_APP_DATA

prove_shapes ==
  \A flags \in {ANNOUNCE_HEADER_FLAGS, ANNOUNCE_HEADER2_FLAGS} :
    \A raw_len \in BaseOf(flags) .. ANNOUNCE_RETICULUM_MDU :
      LET payload_len == raw_len - HeaderOf(flags)
          app_len == raw_len - BaseOf(flags)
      IN  /\ validate_shape(raw_len, payload_len, app_len, 1)
          /\ ~validate_shape(raw_len, payload_len + 1, app_len, 1)
          /\ ~validate_shape(raw_len, payload_len, app_len + 1, 1)
          /\ app_len > 0 => ~validate_shape(raw_len, payload_len, app_len, 0)

prove_layouts ==
  /\ Packed(HEADER_1, ANNOUNCE_BASE_RAW_LEN)
  /\ Packed(HEADER_2, ANNOUNCE_H2_BASE_RAW_LEN)
  /\ Packed(announce_rx_t, 180)
  /\ 16 + 64 + 10 + 10 = 100 /\ 100 + ANNOUNCE_MAX_APP_DATA = 417

(* an announce of this node is valid with every neighbour and stays valid  *)
(* when it is relayed, once or twice; one altered byte of what is signed,  *)
(* or of the signature, makes it invalid, one of the header does not       *)
prove_announces ==
  \A app \in {<<>>, <<1>>, Filled(9, ANNOUNCE_MAX_APP_DATA - 32)} :
    LET pk == [i \in 1 .. 64 |-> i]
        built == announce_build(pk, Filled(5, 10), Filled(6, 10), app, ANNOUNCE_RETICULUM_MDU)
        h1 == built[2]
        h2 == Relayed(h1, Filled(8, 16))
        valid(raw) == announce_parse(raw)[1] = "OK" /\ announce_validate(announce_parse(raw)[2])
        altered(raw, i) == [raw EXCEPT ![i] = IF i \in 104 .. 167 THEN <<0, pk, <<>>>> ELSE 99]
    IN  /\ built[1] = "OK" /\ valid(h1) /\ valid(h2)
        /\ announce_build(pk, Filled(5, 10), Filled(6, 10), app,
                          ANNOUNCE_BASE_RAW_LEN + Len(app) - 1) = <<"INVAL">>
        /\ announce_parse(h2)[2].fields = announce_parse(h1)[2].fields
        /\ announce_parse(h2)[2].app_data = app
        /\ \A i \in {3, 18, 20, 51, 83, 84, 93, 94, 103, 104, 167, Len(h1)} :
             ~valid(altered(h1, i))
        /\ valid(altered(h1, 2)) /\ valid(altered(h2, 3)) /\ ~valid(altered(h1, 19))

AnnouncesAreValid ==
  /\ prove_acceptance_domain
  /\ prove_field_ranges
  /\ prove_shapes
  /\ prove_layouts
  /\ prove_announces
=============================================================================
