----------------------------- MODULE LxmfContract -----------------------------
(***************************************************************************)
(* The models that src/proofs/lxmf keeps of packing, parsing and           *)
(* dispatching, and that Lxmf does what they say; with the tables of the   *)
(* formats and digests that messages and announces are made of.            *)
(***************************************************************************)
EXTENDS Lxmf, AnnounceFormats, Digests

(* The identifier of a message is the digest of destination, source and    *)
(* payload; signed are these and the identifier.                           *)
message_id(dest, source, without_stamp) ==
  Numbers(sha256(Bytes(dest \o source \o without_stamp)))

signing_material(dest, source, without_stamp) ==
  dest \o source \o without_stamp \o message_id(dest, source, without_stamp)

From(first) == [i \in 1 .. 16 |-> first + i - 1]

(* the identifier the model is tested with, and what is signed of it *)
prove_message_ids ==
  LET dest == From(0)
      source == From(16)
      text == payload(Half, Title, Body, <<128>>)
      id == message_id(dest, source, text)
      material == signing_material(dest, source, text)
  IN  /\ id = <<152, 145, 124, 191, 197, 110, 196, 32, 89, 159, 92, 131, 55, 66, 248, 96,
                237, 95, 2, 123, 26, 21, 103, 161, 118, 44, 69, 75, 140, 170, 77, 180>>
      /\ Len(material) = 64 + Len(text)
      /\ SubSeq(material, 1, 32) = dest \o source
      /\ SubSeq(material, 33, 32 + Len(text)) = text
      /\ SubSeq(material, 33 + Len(text), Len(material)) = id
      /\ 2 * LXMF_HASH_SIZE + LXMF_PAYLOAD_MAX_LEN + 32 = 461

-----------------------------------------------------------------------------
packed_message(dest, source, seed, without_stamp) ==
  Message(dest, source, Signed(seed, dest, source, without_stamp), without_stamp)

(* the first four of the five elements, packed again *)
Repacked(p) == payload(p.timestamp, p.title, p.content, p.fields)

no_stamp_payload(raw) == Repacked(parse_payload(raw)[2])

sign(seed, dest, source, raw) == Signed(seed, dest, source, no_stamp_payload(raw))

prove_packing ==
  \A i \in Identities : \A in \in Inputs :
    LET raw == lxmf_payload_build(in, LXMF_PAYLOAD_MAX_LEN)[2]
        dest == delivery(i)
        capacity == LXMF_PACKED_PREFIX_SIZE + Len(raw)
    IN  /\ lxmf_message_pack(i, dest, hash(i), in, capacity)
             = <<"OK", packed_message(dest, hash(i), i, raw)>>
        /\ \A n \in {0, 95, 96, capacity - 1} :
             lxmf_message_pack(i, dest, hash(i), in, n) = OVERFLOW
        /\ \A j \in Identities \ {i} :
             lxmf_message_pack(i, dest, hash(j), in, capacity) = INVAL
        /\ lxmf_message_pack(None, dest, hash(i), in, capacity) = <<"MISSING">>
        /\ Stamped(raw, Filled(17, 16)) # raw
        /\ sign(i, dest, hash(i), Stamped(raw, Filled(17, 16))) = sign(i, dest, hash(i), raw)

(* a message that may be taken: it comes over an established link, or in a *)
(* packet, fits, can be read, and its source is known and signed it        *)
Acceptable(a) ==
  LET m == Reconstructed(a)
  IN  /\ a.mode = "direct" => a.link
      /\ a.mode = "opportunistic" => a.destination # None
      /\ a.mode \in {"direct", "opportunistic"}
      /\ ~m.cut
      /\ parse_payload(m.payload)[1] = "OK"
      /\ \E i \in paths : /\ m.source = delivery(i)
                          /\ m.signature = sign(i, m.dest, m.source, m.payload)

dispatch_model(id) ==
  [letter |-> id,
   status |-> IF slot = None THEN "OK"
              ELSE IF slot.message_id = id THEN "DUPLICATE" ELSE "CAPACITY"]

IsRefusal(answer) == answer.letter = None /\ answer.status \notin {"OK", "DUPLICATE"}

DispatchFollows ==
  \A a \in Arrivals :
    LET m == Reconstructed(a)
    IN  IF Acceptable(a)
          THEN Answer(a) = dispatch_model(<<m.dest, m.source, no_stamp_payload(m.payload)>>)
          ELSE IsRefusal(Answer(a))

(* the destination put before an opportunistic message makes it the direct one *)
ModesAgree ==
  \A a \in {b \in Arrivals : b.mode = "direct" /\ b.link} :
    Answer(a) = Answer([a EXCEPT !.mode = "opportunistic", !.destination = a.message.dest])

LxmfTables ==
  /\ prove_payloads /\ prove_readers_agree /\ prove_message_ids
  /\ prove_app_data /\ prove_structures /\ prove_packing
  /\ AnnouncesAreValid /\ DigestsAreExact

Started == slot = None /\ paths = {} /\ last.status = "none"

(* What is built is read back, with and without a stamp; the payload       *)
(* reader, the packer, the dispatch and the announce routines of the       *)
(* firmware agree with the models of src/proofs/lxmf and src/proofs/announce *)
(* on every input, whatever is in the path table and in the slot; the      *)
(* digests under them are the published ones.                              *)
LxmfFollowsContract ==
  /\ [][Started => LxmfTables]_vars
  /\ [](DispatchFollows /\ ModesAgree)
=============================================================================
