------------------------------- MODULE LxmfProofs -------------------------------
(***************************************************************************)
(* What Lxmf promises for every set of identities, every size of the path  *)
(* table and everything that may arrive: that the slot is a box for one    *)
(* letter, that what a node packs another never takes, that the two        *)
(* readers of a payload take the same ones, and that the dispatch decides  *)
(* as its reference model does.                                            *)
(***************************************************************************)
EXTENDS LxmfContract, FiniteSetTheorems, SequenceTheorems, WellFoundedInduction, TLAPS

-----------------------------------------------------------------------------
(* Reading a payload *)

(* whichever error a text is refused with, it is taken by both or by none *)
LEMMA TextsAgree ==
  ASSUME NEW raw, NEW pos, NEW cap
  PROVE  \/ bin8(raw, pos, cap, TRUE) = bin8(raw, pos, cap, FALSE)
         \/ /\ bin8(raw, pos, cap, TRUE)[1] # "OK"
            /\ bin8(raw, pos, cap, FALSE)[1] # "OK"
BY DEF bin8, INVAL, OVERFLOW

LEMMA TextStatus ==
  ASSUME NEW raw, NEW pos, NEW cap, NEW capFirst \in BOOLEAN
  PROVE  bin8(raw, pos, cap, capFirst)[1] \in {"OK", "INVAL", "OVERFLOW"}
BY DEF bin8, INVAL, OVERFLOW

LEMMA FieldsStatus ==
  ASSUME NEW raw, NEW start
  PROVE  skip_fields(raw, start)[1] \in {"OK", "INVAL", "OVERFLOW"}
<1>1. \A s, p, k : skip_entries(raw, s, p, k)[1] \in {"OK", "INVAL", "OVERFLOW"}
  BY DEF skip_entries, INVAL, OVERFLOW
<1>2. QED
  BY <1>1 DEF skip_fields, INVAL, OVERFLOW

(* what the reader makes of a payload, from what it makes of its parts *)
LEMMA ReadStatus ==
  ASSUME NEW raw, NEW capFirst \in BOOLEAN
  PROVE  PayloadRead(raw, capFirst)[1] \in {"OK", "INVAL", "OVERFLOW"}
<1> DEFINE title == bin8(raw, 11, LXMF_PAYLOAD_MAX_TITLE, capFirst)
           content == bin8(raw, title[2], LXMF_PAYLOAD_MAX_CONTENT, capFirst)
           fields == skip_fields(raw, content[2])
           n == fields[2] - 1
           stamped == raw[1] = 149
           stamp == IF stamped THEN bin8(raw, n + 1, LXMF_STAMP_MAX_LEN, capFirst)
                    ELSE <<"OK", n + 1, <<>>>>
<1>1. title[1] \in {"OK", "INVAL", "OVERFLOW"} /\ content[1] \in {"OK", "INVAL", "OVERFLOW"}
  BY TextStatus
<1>2. fields[1] \in {"OK", "INVAL", "OVERFLOW"}
  BY FieldsStatus
<1>3. stamp[1] \in {"OK", "INVAL", "OVERFLOW"}
  BY TextStatus
<1>4. QED
  BY <1>1, <1>2, <1>3 DEF PayloadRead, INVAL, OVERFLOW

(* The firmware reads a text before it looks whether the text is too long, *)
(* the model of src/proofs/lxmf/payload.py looks first                     *)
(* (lxmf_payload_parse.S, .Llpp_parse_bin8): of every payload, whatever    *)
(* its bytes are, they take the same or neither takes it.                  *)
THEOREM ReadersAgree ==
  \A raw : lxmf_payload_parse(raw)[1] = "OK" \/ parse_payload(raw)[1] = "OK"
             => lxmf_payload_parse(raw) = parse_payload(raw)
<1> SUFFICES ASSUME NEW raw,
                    PayloadRead(raw, FALSE)[1] = "OK" \/ PayloadRead(raw, TRUE)[1] = "OK"
             PROVE  PayloadRead(raw, FALSE) = PayloadRead(raw, TRUE)
  BY DEF lxmf_payload_parse, parse_payload
<1> DEFINE title(f) == bin8(raw, 11, LXMF_PAYLOAD_MAX_TITLE, f)
           content(f) == bin8(raw, title(f)[2], LXMF_PAYLOAD_MAX_CONTENT, f)
           fields(f) == skip_fields(raw, content(f)[2])
           n(f) == fields(f)[2] - 1
           stamp(f) == IF raw[1] = 149 THEN bin8(raw, n(f) + 1, LXMF_STAMP_MAX_LEN, f)
                       ELSE <<"OK", n(f) + 1, <<>>>>
<1>1. title(TRUE)[1] = "OK" \/ title(FALSE)[1] = "OK"
  BY DEF PayloadRead, INVAL, OVERFLOW
<1>2. title(TRUE) = title(FALSE)
  BY <1>1, TextsAgree
<1>3. content(TRUE)[1] = "OK" \/ content(FALSE)[1] = "OK"
  BY DEF PayloadRead, INVAL, OVERFLOW
<1>4. content(TRUE) = content(FALSE)
  BY <1>2, <1>3, TextsAgree
<1>5. n(TRUE) = n(FALSE)
  BY <1>4
<1>6. stamp(TRUE)[1] = "OK" \/ stamp(FALSE)[1] = "OK"
  BY DEF PayloadRead, INVAL, OVERFLOW
<1>7. stamp(TRUE) = stamp(FALSE)
  <2> HIDE DEF n
  <2>1. CASE raw[1] = 149
    <3> DEFINE text(f) == bin8(raw, n(TRUE) + 1, LXMF_STAMP_MAX_LEN, f)
    <3>1. stamp(TRUE) = text(TRUE) /\ stamp(FALSE) = text(FALSE)
      BY <1>5, <2>1
    <3>2. text(TRUE)[1] = "OK" \/ text(FALSE)[1] = "OK"
      BY <1>6, <3>1
    <3>3. QED
      BY <3>1, <3>2, TextsAgree
  <2>2. CASE raw[1] # 149
    BY <1>5, <2>2
  <2>3. QED
    BY <2>1, <2>2
<1> DEFINE result(t, c, g, s) ==
      IF Len(raw) > LXMF_PAYLOAD_MAX_STAMPED_LEN THEN OVERFLOW
      ELSE IF Len(raw) < 10 \/ raw[1] \notin {148, 149} \/ raw[2] # 203 THEN INVAL
      ELSE IF t[1] # "OK" THEN t
      ELSE IF c[1] # "OK" THEN c
      ELSE IF g[1] # "OK" THEN g
      ELSE IF g[2] - 1 > LXMF_PAYLOAD_MAX_LEN THEN OVERFLOW
      ELSE IF s[1] # "OK" THEN s
      ELSE IF (raw[1] = 149 /\ s[3] = <<>>) \/ s[2] # Len(raw) + 1 THEN INVAL
      ELSE <<"OK", [timestamp |-> SubSeq(raw, 3, 10),
                    title |-> t[3],
                    content |-> c[3],
                    fields |-> SubSeq(raw, c[2], g[2] - 1),
                    stamp |-> s[3],
                    without_stamp |-> Unstamp(raw, g[2] - 1)]>>
<1>8. \A f : PayloadRead(raw, f) = result(title(f), content(f), fields(f), stamp(f))
  BY Zenon DEF PayloadRead
<1>9. fields(TRUE) = fields(FALSE)
  BY <1>4
<1> HIDE DEF result, title, content, fields, n, stamp
<1>10. QED
  BY <1>2, <1>4, <1>7, <1>8, <1>9

-----------------------------------------------------------------------------
(* The slot is a mailbox *)

(* what the dispatch recognises was written by the owner of its source *)
LEMMA Dispatched ==
  ASSUME NEW a \in Arrivals
  PROVE  \/ Answer(a).letter \in Written /\ Answer(a) = Recognised(<<"OK", Answer(a).letter>>)
         \/ /\ Answer(a).letter = None
            /\ Answer(a).status \in {"INVAL", "NO_LINK", "SHORT", "CAPACITY",
                                     "UNKNOWN_SOURCE", "BAD_SIGNATURE"}
<1>1. CASE Refusal(a) # None
  BY <1>1 DEF Answer, Refusal, Refused
<1>2. CASE Refusal(a) = None
  <2> DEFINE m == Reconstructed(a)
             key == CHOOSE i \in Recalled(m) : TRUE
             read == lxmf_payload_parse(m.payload)
             parsed == lxmf_message_parse(m, key)
             l == <<m.dest, m.source, read[2].without_stamp>>
  <2>1. Answer(a) = Recognised(parsed)
    BY <1>2 DEF Answer
  <2>2. m.source = a.message.source /\ m.signature = a.message.signature
    BY LxmfAssumption DEF Reconstructed
  <2>3. Recalled(m) # {}
    <3>1. Recalled(a.message) # {}
      BY <1>2, LxmfAssumption DEF Refusal
    <3>2. QED
      BY <2>2, <3>1 DEF Recalled
  <2>4. m.source = delivery(key)
    BY <2>3 DEF Recalled
  <2> HIDE DEF m, key
  <2>5. CASE parsed = <<"OK", l>> /\ lxmf_message_verify(m, read[2].without_stamp, key)
    <3>1. a.message.signature = [by |-> key, over |-> l]
      BY <2>2, <2>5 DEF lxmf_message_verify, Signed
    <3>2. l[2] = delivery(key)
      BY <2>4
    <3>3. l \in Written
      <4> HIDE DEF l
      <4>1. PICK t : t = a.message.signature
        OBVIOUS
      <4>2. t.by = key /\ t.over = l
        BY <3>1, <4>1
      <4>3. t.over[2] \in {hash(t.by), delivery(t.by)}
        BY <3>2, <4>2
      <4>4. t \in {b.message.signature : b \in Arrivals}
        BY <4>1
      <4>5. QED
        BY <4>2, <4>3, <4>4 DEF Written
    <3>4. Recognised(<<"OK", l>>).letter = l
      BY DEF Recognised
    <3>5. QED
      BY <2>1, <2>5, <3>3, <3>4
  <2>6. CASE parsed[1] \in {"SHORT", "BAD_SIGNATURE", "INVAL", "OVERFLOW"}
    <3> HIDE DEF parsed
    <3>1. QED
      BY <2>1, <2>6 DEF Recognised, Refused
  <2>7. read[1] \in {"OK", "INVAL", "OVERFLOW"}
    BY ReadStatus DEF lxmf_payload_parse
  <2>8. parsed = IF m.cut THEN <<"SHORT">>
                 ELSE IF read[1] # "OK" THEN read
                 ELSE IF ~lxmf_message_verify(m, read[2].without_stamp, key)
                   THEN <<"BAD_SIGNATURE">>
                 ELSE <<"OK", l>>
    BY Zenon DEF lxmf_message_parse, Verified
  <2> HIDE DEF parsed, read, l
  <2>9. CASE m.cut
    BY <2>6, <2>8, <2>9
  <2>10. CASE ~m.cut
    BY <2>5, <2>6, <2>7, <2>8, <2>10
  <2>11. QED
    BY <2>9, <2>10
<1>3. QED
  BY <1>1, <1>2

(* the message kept is one of those that were written *)
Kept == slot = None \/ slot.message_id \in Written

LEMMA DispatchIsBrought ==
  ASSUME Kept, NEW a \in Arrivals, lxmf_inbound_dispatch(a)
  PROVE  Kept' /\ (Box!Refuse \/ \E l \in Written : Box!Bring(l))
<1> DEFINE l == Answer(a).letter
<1>1. last' = Answer(a) /\ slot' = IF last'.status = "OK" THEN Held(a, last'.letter) ELSE slot
  BY DEF lxmf_inbound_dispatch
<1>2. CASE l \in Written /\ Answer(a) = Recognised(<<"OK", l>>)
  <2>1. Held(a, l) # None /\ Held(a, l).message_id = l
    BY <1>2, LxmfAssumption DEF Held
  <2>2. last'.letter = l
    BY <1>1
  <2> HIDE DEF l
  <2>3. last'.status = IF slot = None THEN "OK"
                       ELSE IF slot.message_id = l THEN "DUPLICATE" ELSE "CAPACITY"
    BY <1>1, <1>2 DEF Recognised
  <2>4. CASE slot = None
    <3>1. slot' = Held(a, l)
      BY <1>1, <2>2, <2>3, <2>4
    <3>2. Kept'
      BY <1>2, <2>1, <3>1 DEF Kept
    <3>3. Box!Bring(l)
      BY <2>1, <2>2, <2>3, <2>4, <3>1 DEF Box!Bring
    <3>4. QED
      BY <1>2, <3>2, <3>3
  <2>5. CASE slot # None
    <3>1. slot' = slot
      BY <1>1, <2>3, <2>5
    <3>2. Kept'
      BY <3>1 DEF Kept
    <3>3. slot.message_id # None
      BY <2>5, LxmfAssumption DEF Kept
    <3>4. Box!Bring(l)
      BY <2>2, <2>3, <2>5, <3>1, <3>3 DEF Box!Bring
    <3>5. QED
      BY <1>2, <3>2, <3>4
  <2>6. QED
    BY <2>4, <2>5
<1>3. CASE /\ l = None
           /\ Answer(a).status \in {"INVAL", "NO_LINK", "SHORT", "CAPACITY",
                                    "UNKNOWN_SOURCE", "BAD_SIGNATURE"}
  <2>1. slot' = slot
    BY <1>1, <1>3
  <2>2. Kept'
    BY <2>1 DEF Kept
  <2>3. Box!Refuse
    BY <1>1, <1>3, <2>1 DEF Box!Refuse
  <2>4. QED
    BY <2>2, <2>3
<1>4. QED
  BY <1>2, <1>3, Dispatched

(* The slot is a box for one letter: it holds the first message that its   *)
(* source's owner signed and whose source was known until the node         *)
(* restarts; no message that was altered or carries another's name enters  *)
(* it, and the one in it is recognised however it comes again              *)
(* (lxmf_inbound_dispatch.S, lxmf_message_parse.S).                        *)
THEOREM SlotIsAMailbox == Spec => IsMailbox
<1>1. Init => Kept /\ Box!Init
  BY DEF Init, Kept, Box!Init
<1>2. Kept /\ [Next]_vars
        => Kept' /\ [Box!Next]_<<IF slot = None THEN None ELSE slot.message_id,
                                 last.letter, last.status>>
  <2> SUFFICES ASSUME Kept, [Next]_vars
               PROVE  Kept' /\ [Box!Next]_<<IF slot = None THEN None ELSE slot.message_id,
                                            last.letter, last.status>>
    OBVIOUS
  <2>1. ASSUME NEW a \in Arrivals, lxmf_inbound_dispatch(a)
        PROVE  Kept' /\ Box!Next
    BY <2>1, DispatchIsBrought DEF Box!Next
  <2>2. CASE \E i \in Identities : Announced(i)
    BY <2>2 DEF Announced, Kept
  <2>3. CASE Restart
    <3>1. Box!Restart
      BY <2>3 DEF Restart, Box!Restart
    <3>2. Kept'
      BY <2>3 DEF Restart, Kept
    <3>3. QED
      BY <3>1, <3>2 DEF Box!Next
  <2>4. CASE UNCHANGED vars
    BY <2>4 DEF vars, Kept
  <2>5. QED
    BY <2>1, <2>2, <2>3, <2>4 DEF Next
<1>3. QED
  BY <1>1, <1>2, PTL DEF Spec, IsMailbox, Box!Spec

-----------------------------------------------------------------------------
(* What a node packs *)

(* whatever is packed, and whatever room there is for it, names the        *)
(* identity it was signed with and is of a length that is looked at        *)
LEMMA PackedNamesTheIdentity ==
  ASSUME NEW i, NEW dest, NEW source, NEW capacity, NEW in,
         in.timestamp \in Seq(Nat), in.title \in Seq(Nat), in.content \in Seq(Nat),
         in.fields \in Seq(Nat),
         lxmf_message_pack(i, dest, source, in, capacity)[1] = "OK",
         NEW m, m = lxmf_message_pack(i, dest, source, in, capacity)[2]
  PROVE  /\ m.source = hash(i)
         /\ Length(m) \in LXMF_PACKED_PREFIX_SIZE .. LXMF_PACKED_MAX_STAMPED_LEN
<1> DEFINE built == lxmf_payload_build(in, capacity - LXMF_PACKED_PREFIX_SIZE)
           signed == lxmf_message_sign(i, dest, source, built[2])
<1>1. /\ built[1] = "OK"
      /\ signed[1] = "OK"
      /\ m = Message(dest, source, signed[2], built[2])
  BY DEF lxmf_message_pack, INVAL, OVERFLOW
<1>2. source = hash(i)
  BY <1>1 DEF lxmf_message_sign, SourceFits, INVAL, OVERFLOW
<1>3. Len(built[2]) \in 0 .. LXMF_PAYLOAD_MAX_LEN
  <2> DEFINE fields == IF in.fields = <<>> THEN <<128>> ELSE in.fields
             out == payload(in.timestamp, in.title, in.content, fields)
  <2>1. built[2] = out /\ ~(Len(out) > LXMF_PAYLOAD_MAX_LEN)
    BY <1>1 DEF lxmf_payload_build, INVAL, OVERFLOW
  <2>2. fields \in Seq(Nat)
    OBVIOUS
  <2>3. out \in Seq(Nat)
    <3> HIDE DEF fields
    <3>1. mp_bin8(in.title) \in Seq(Nat) /\ mp_bin8(in.content) \in Seq(Nat)
      BY DEF mp_bin8
    <3>2. QED
      BY <2>2, <3>1 DEF payload
  <2> HIDE DEF out
  <2>4. Len(out) \in Nat
    BY <2>3
  <2>5. LXMF_PAYLOAD_MAX_LEN = 397
    BY DEF LXMF_PAYLOAD_MAX_LEN
  <2> HIDE DEF built
  <2>6. Len(out) \in 0 .. 397
    <3>1. ~(Len(out) > 397)
      BY <2>1, <2>5
    <3>2. \A k \in Nat : ~(k > 397) => k \in 0 .. 397
      OBVIOUS
    <3>3. QED
      BY <2>4, <3>1, <3>2
  <2>7. QED
    BY <2>1, <2>5, <2>6
<1> HIDE DEF built
<1>4. Length(m) = LXMF_PACKED_PREFIX_SIZE + Len(built[2]) /\ m.source = source
  BY <1>1 DEF Message, Length
<1>5. LXMF_PACKED_PREFIX_SIZE = 96 /\ LXMF_PACKED_MAX_STAMPED_LEN = 527
  BY DEF LXMF_PACKED_PREFIX_SIZE, LXMF_PACKED_MAX_STAMPED_LEN,
     LXMF_PAYLOAD_MAX_STAMPED_LEN, LXMF_PAYLOAD_MAX_LEN, LXMF_STAMP_MAX_LEN,
     LXMF_HASH_SIZE, LXMF_SIGNATURE_SIZE
<1>6. Length(m) \in 96 .. 527
  <2> DEFINE k == Len(built[2])
  <2>1. k \in 0 .. 397
    BY <1>3 DEF LXMF_PAYLOAD_MAX_LEN
  <2>2. Length(m) = 96 + k
    BY <1>4, <1>5
  <2> HIDE DEF k
  <2>3. QED
    BY <2>1, <2>2
<1>7. QED
  BY <1>2, <1>4, <1>5, <1>6

LEMMA PackedParts ==
  ASSUME NEW m \in PackedHere
  PROVE  /\ \E i : m.source = hash(i)
         /\ Length(m) \in LXMF_PACKED_PREFIX_SIZE .. LXMF_PACKED_MAX_STAMPED_LEN
<1>1. PICK r \in Packings : PackedBy(r)[1] = "OK" /\ m = PackedBy(r)[2]
  BY Zenon DEF PackedHere
<1> DEFINE in == r.in
<1>2. in \in {Input(Title, Body, <<>>), Input(<<>>, <<>>, <<129, 1>>)}
  BY DEF Packings
<1> HIDE DEF in
<1>3. /\ in.timestamp \in Seq(Nat) /\ in.title \in Seq(Nat) /\ in.content \in Seq(Nat)
      /\ in.fields \in Seq(Nat)
  <2>1. CASE in = Input(Title, Body, <<>>)
    BY <2>1 DEF Input, Half, Title, Body
  <2>2. CASE in = Input(<<>>, <<>>, <<129, 1>>)
    BY <2>2 DEF Input, Half
  <2>3. QED
    BY <1>2, <2>1, <2>2
<1>4. /\ lxmf_message_pack(r.by, r.dest, r.source, in, 493)[1] = "OK"
      /\ m = lxmf_message_pack(r.by, r.dest, r.source, in, 493)[2]
  BY <1>1 DEF PackedBy, in
<1>5. ASSUME NEW i, NEW dest, NEW source,
             lxmf_message_pack(i, dest, source, in, 493)[1] = "OK",
             m = lxmf_message_pack(i, dest, source, in, 493)[2]
      PROVE  /\ m.source = hash(i)
             /\ Length(m) \in LXMF_PACKED_PREFIX_SIZE .. LXMF_PACKED_MAX_STAMPED_LEN
  BY <1>3, <1>5, PackedNamesTheIdentity
<1>6. QED
  BY <1>4, <1>5

(* A message that a node of this firmware packed names the hash of the     *)
(* identity as its source (lxmf_message_sign.S), a node that receives it   *)
(* looks it up among destinations (lxmf_inbound_dispatch.S): however many  *)
(* identities there are and whatever announces were heard, it is never     *)
(* taken.                                                                  *)
THEOREM PackedHereIsNeverTaken == Spec => []PackedHereIsUnknownThere
<1>1. PackedHereIsUnknownThere
  <2> SUFFICES ASSUME NEW m \in PackedHere
               PROVE  Answer([message |-> m, mode |-> "direct", link |-> TRUE,
                              destination |-> None]).status = "UNKNOWN_SOURCE"
    BY DEF PackedHereIsUnknownThere
  <2> DEFINE a == [message |-> m, mode |-> "direct", link |-> TRUE, destination |-> None]
  <2>1. PICK i : m.source = hash(i)
    BY PackedParts
  <2>2. Recalled(m) = {}
    BY <2>1 DEF Recalled, hash, delivery
  <2>3. /\ ~(Length(m) < LXMF_PACKED_PREFIX_SIZE)
        /\ ~(Length(m) > LXMF_PACKED_MAX_STAMPED_LEN)
    BY PackedParts DEF LXMF_PACKED_PREFIX_SIZE, LXMF_PACKED_MAX_STAMPED_LEN,
       LXMF_PAYLOAD_MAX_STAMPED_LEN, LXMF_PAYLOAD_MAX_LEN, LXMF_STAMP_MAX_LEN,
       LXMF_HASH_SIZE, LXMF_SIGNATURE_SIZE
  <2>4. /\ a.message = m /\ a.mode = "direct" /\ a.link = TRUE
    OBVIOUS
  <2> HIDE DEF a
  <2>5. Refusal(a) = "UNKNOWN_SOURCE"
    BY <2>2, <2>3, <2>4 DEF Refusal
  <2>6. "UNKNOWN_SOURCE" # None
    BY LxmfAssumption
  <2>7. Answer(a).status = "UNKNOWN_SOURCE"
    BY <2>5, <2>6 DEF Answer, Refused
  <2>8. QED
    BY <2>7 DEF a
<1>2. QED
  BY <1>1, PTL
-----------------------------------------------------------------------------
(* Loops *)

LEMMA LeastNumber ==
  ASSUME NEW S \in SUBSET Nat, S # {}
  PROVE  \E x \in S : \A y \in S : x <= y
<1> DEFINE R == StrictSubsetOrdering(Nat)
           Below == {0 .. x : x \in S}
<1>1. IsWellFoundedOn(R, FiniteSubsetsOf(Nat))
  BY FS_StrictSubsetOrderingWellFounded
<1>2. Below \subseteq FiniteSubsetsOf(Nat)
  <2>1. \A x \in S : IsFiniteSet(0 .. x)
    BY FS_Interval
  <2>2. \A x \in S : 0 .. x \in FiniteSubsetsOf(Nat)
    BY <2>1 DEF FiniteSubsetsOf
  <2> QED BY ONLY <2>2
<1>6. Below # {}
  OBVIOUS
<1>3. \E I \in Below : \A J \in Below : ~ (<<J, I>> \in R)
  <2> HIDE DEF R, Below
  <2> QED BY <1>1, <1>2, <1>6, WFMin
<1>4. PICK x \in S : \A y \in S : ~ (<<0 .. y, 0 .. x>> \in R)
  BY <1>3
<1>5. ASSUME NEW y \in S, y < x
      PROVE  FALSE
  <2>1. x \in 0 .. x /\ x \notin 0 .. y /\ 0 .. y \subseteq 0 .. x /\ 0 .. y \subseteq Nat
        /\ 0 .. x \subseteq Nat
    BY <1>5
  <2>2. <<0 .. y, 0 .. x>> \in R
    BY <2>1 DEF StrictSubsetOrdering
  <2> QED BY <1>4, <2>2
<1> QED BY <1>4, <1>5

(* ... and induction over numbers holds for every set of them. *)
LEMMA NatSetInduction ==
  ASSUME NEW S, 0 \in S, \A k \in Nat : k \in S => k + 1 \in S
  PROVE  Nat \subseteq S
<1> SUFFICES ASSUME ~ Nat \subseteq S
             PROVE  FALSE
  OBVIOUS
<1>1. PICK x \in Nat \ S : \A y \in Nat \ S : x <= y
  <2> DEFINE T == Nat \ S
  <2>1. T \in SUBSET Nat /\ T # {}
    OBVIOUS
  <2> HIDE DEF T
  <2>2. \E x \in T : \A y \in T : x <= y
    BY <2>1, LeastNumber
  <2> QED BY <2>2 DEF T
<1>2. x # 0 /\ x - 1 \in Nat
  BY <1>1
<1>3. x - 1 \in S
  BY <1>1, <1>2
<1>4. x - 1 + 1 = x
  BY <1>1
<1> QED BY <1>1, <1>2, <1>3, <1>4

(* A function defined over the numbers to n by its value at 0 and by each   *)
(* value from the one before exists.                                       *)
LEMMA RecursionExists ==
  ASSUME NEW S, NEW base \in S, NEW n \in Nat, NEW step \in [1 .. n -> [S -> S]]
  PROVE  \E F \in [0 .. n -> S] :
           \A i \in 0 .. n : F[i] = IF i = 0 THEN base ELSE step[i][F[i - 1]]
<1> DEFINE Built(m, F) ==
             \A i \in 0 .. m : F[i] = IF i = 0 THEN base ELSE step[i][F[i - 1]]
           Good == {m \in Nat : m <= n => \E F \in [0 .. m -> S] : Built(m, F)}
<1>1. 0 \in Good
  <2>1. [i \in 0 .. 0 |-> base] \in [0 .. 0 -> S] /\ Built(0, [i \in 0 .. 0 |-> base])
    OBVIOUS
  <2> QED BY <2>1
<1>2. ASSUME NEW m \in Nat, m \in Good
      PROVE  m + 1 \in Good
  <2> SUFFICES ASSUME m + 1 <= n
               PROVE  \E F \in [0 .. m + 1 -> S] : Built(m + 1, F)
    OBVIOUS
  <2>1. PICK F \in [0 .. m -> S] : Built(m, F)
    BY <1>2
  <2> DEFINE G == [i \in 0 .. m + 1 |-> IF i <= m THEN F[i] ELSE step[m + 1][F[m]]]
  <2>2. G \in [0 .. m + 1 -> S]
    <3>1. step[m + 1] \in [S -> S] /\ F[m] \in S
      OBVIOUS
    <3> QED BY <3>1
  <2>3. \A i \in 0 .. m : G[i] = F[i]
    OBVIOUS
  <2>4. G[m + 1] = step[m + 1][F[m]]
    OBVIOUS
  <2> HIDE DEF G
  <2>5. ASSUME NEW i \in 0 .. m + 1
        PROVE  G[i] = IF i = 0 THEN base ELSE step[i][G[i - 1]]
    <3>1. CASE i \in 0 .. m
      <4>1. i # 0 => i - 1 \in 0 .. m
        BY <3>1
      <4> QED BY <2>1, <2>3, <3>1, <4>1
    <3>2. CASE i = m + 1
      BY <2>3, <2>4, <3>2
    <3> QED BY <3>1, <3>2
  <2> QED BY <2>2, <2>5
<1>3. Nat \subseteq Good
  <2> HIDE DEF Good
  <2> QED BY <1>1, <1>2, NatSetInduction
<1> QED BY <1>3

Recurs(F, S, base, n, step) ==
  F \in [0 .. n -> S]
  /\ \A i \in 0 .. n : F[i] = IF i = 0 THEN base ELSE step[i][F[i - 1]]

LEMMA LoopExists ==
  \A S, base, n, step :
    base \in S /\ n \in Nat /\ step \in [1 .. n -> [S -> S]]
      => \E F : Recurs(F, S, base, n, step)
<1> SUFFICES ASSUME NEW S, NEW base \in S, NEW n \in Nat, NEW step \in [1 .. n -> [S -> S]]
             PROVE  \E F : Recurs(F, S, base, n, step)
  OBVIOUS
<1>1. \E F \in [0 .. n -> S] :
        \A i \in 0 .. n : F[i] = IF i = 0 THEN base ELSE step[i][F[i - 1]]
  BY RecursionExists
<1> QED BY <1>1 DEF Recurs

-----------------------------------------------------------------------------
(* Where reading goes on *)

LEMMA ScalarAdvances ==
  ASSUME NEW raw \in Seq(Nat), NEW pos \in Nat \ {0}
  PROVE  skip_scalar(raw, pos) \in {0} \cup (pos + 1 .. Len(raw) + 1)
<1>1. CASE pos > Len(raw)
  BY <1>1 DEF skip_scalar
<1>2. CASE ~ pos > Len(raw)
  <2> DEFINE marker == raw[pos]
             n == IF marker \in 0 .. 127 \cup {192, 194, 195} THEN 0
                  ELSE IF marker \in 160 .. 191 THEN marker - 160
                  ELSE IF marker = 204 THEN 1
                  ELSE IF marker = 205 THEN 2
                  ELSE IF marker = 206 THEN 4
                  ELSE IF marker \in {196, 217} /\ pos < Len(raw) THEN 1 + raw[pos + 1]
                  ELSE Len(raw)
  <2>1. skip_scalar(raw, pos) = IF pos + n > Len(raw) THEN 0 ELSE pos + n + 1
    BY <1>2 DEF skip_scalar
  <2>2. marker \in Nat /\ (pos < Len(raw) => raw[pos + 1] \in Nat) /\ Len(raw) \in Nat
    BY <1>2
  <2>3. n \in Nat
    <3> HIDE DEF marker
    <3> QED BY <2>2
  <2> HIDE DEF n
  <2> QED BY <2>1, <2>2, <2>3
<1> QED BY <1>1, <1>2

(* the function of the loop over the entries of the fields *)
IsSkip(F, raw, start, pos, scalars) ==
  F = [k \in 0 .. LXMF_PAYLOAD_MAX_FIELDS |->
         IF k = 0 THEN pos
         ELSE LET p == F[k - 1]
              IN  IF k > scalars \/ p = 0 \/ p - start > LXMF_PAYLOAD_MAX_FIELDS
                    THEN p ELSE skip_scalar(raw, p)]

(* the places that the loop may be at: after the first, in the payload, or *)
(* nowhere                                                                 *)
LEMMA SkipExists ==
  ASSUME NEW raw \in Seq(Nat), NEW start \in Nat, NEW pos \in 1 .. Len(raw) + 1,
         NEW scalars \in Nat
  PROVE  \E F \in [0 .. LXMF_PAYLOAD_MAX_FIELDS -> {0} \cup (pos .. Len(raw) + 1)] :
           IsSkip(F, raw, start, pos, scalars)
<1> DEFINE S == {0} \cup (pos .. Len(raw) + 1)
           n == LXMF_PAYLOAD_MAX_FIELDS
           base == pos
           next(k, p) == IF k > scalars \/ p = 0 \/ p - start > LXMF_PAYLOAD_MAX_FIELDS
                           THEN p ELSE skip_scalar(raw, p)
           step == [k \in 1 .. n |-> [p \in S |-> next(k, p)]]
<1>1. ASSUME NEW k \in 1 .. n, NEW p \in S
      PROVE  next(k, p) \in S
  <2>1. CASE p = 0
    BY <2>1
  <2>2. CASE p # 0
    <3>1. p \in Nat \ {0} /\ p >= pos /\ p \in Int /\ Len(raw) \in Nat /\ pos \in Int
      BY <2>2
    <3>2. skip_scalar(raw, p) \in {0} \cup (p + 1 .. Len(raw) + 1)
      BY <3>1, ScalarAdvances
    <3>3. skip_scalar(raw, p) \in S
      BY <3>1, <3>2
    <3> QED BY <3>3
  <2> QED BY <2>1, <2>2
<1>2. step \in [1 .. n -> [S -> S]]
  <2> HIDE DEF next, S, n
  <2> QED BY <1>1
<1>3. \A k \in 1 .. n : \A p \in S : step[k][p] = next(k, p)
  <2> HIDE DEF next, S, n
  <2> QED OBVIOUS
<1>4. base \in S /\ n \in Nat
  BY DEF LXMF_PAYLOAD_MAX_FIELDS
<1>5. PICK F \in [0 .. n -> S] :
        \A k \in 0 .. n : F[k] = IF k = 0 THEN base ELSE step[k][F[k - 1]]
  <2> HIDE DEF S, n, base, step, next
  <2>1. \E F : Recurs(F, S, base, n, step)
    BY ONLY <1>2, <1>4, LoopExists
  <2> QED BY <2>1 DEF Recurs
<1>6. \A k \in 0 .. n : F[k] = IF k = 0 THEN pos ELSE next(k, F[k - 1])
  <2>1. \A k \in 0 .. n : k # 0 => k \in 1 .. n /\ F[k - 1] \in S
    <3> HIDE DEF S, step
    <3>1. \A k \in 0 .. n : k # 0 => k \in 1 .. n /\ k - 1 \in 0 .. n
      BY <1>4
    <3> HIDE DEF n
    <3> QED BY <3>1
  <2> HIDE DEF next, S, n, step
  <2> QED BY <1>3, <1>5, <2>1 DEF base
<1>7. IsSkip(F, raw, start, pos, scalars)
  <2> HIDE DEF S, step
  <2>1. F = [k \in 0 .. n |-> F[k]]
    OBVIOUS
  <2> QED BY <1>6, <2>1 DEF IsSkip
<1> QED BY <1>7

LEMMA SkipIsUnique ==
  ASSUME NEW raw, NEW start, NEW pos, NEW scalars,
         NEW F, IsSkip(F, raw, start, pos, scalars),
         NEW G, IsSkip(G, raw, start, pos, scalars)
  PROVE  F = G
<1> DEFINE n == LXMF_PAYLOAD_MAX_FIELDS
           Same == {k \in Nat : k \in 0 .. n => F[k] = G[k]}
<1>1. n \in Nat
  BY DEF LXMF_PAYLOAD_MAX_FIELDS
<1>2. 0 \in Same
  BY <1>1 DEF IsSkip
<1>3. ASSUME NEW k \in Nat, k \in Same
      PROVE  k + 1 \in Same
  <2> SUFFICES ASSUME k + 1 \in 0 .. n
               PROVE  F[k + 1] = G[k + 1]
    OBVIOUS
  <2>1. k \in 0 .. n /\ k + 1 # 0 /\ k + 1 - 1 = k
    BY <1>1
  <2>2. F[k] = G[k]
    BY <1>3, <2>1
  <2> HIDE DEF n
  <2> QED BY <2>1, <2>2 DEF IsSkip, n
<1>4. Nat \subseteq Same
  <2> HIDE DEF Same
  <2> QED BY <1>2, <1>3, NatSetInduction
<1>5. \A k \in 0 .. n : F[k] = G[k]
  BY <1>1, <1>4
<1> QED BY <1>5 DEF IsSkip

LEMMA EntriesAdvance ==
  ASSUME NEW raw \in Seq(Nat), NEW start \in Nat, NEW pos \in 1 .. Len(raw) + 1,
         NEW scalars \in Nat,
         skip_entries(raw, start, pos, scalars)[1] = "OK"
  PROVE  skip_entries(raw, start, pos, scalars)[2] \in pos .. Len(raw) + 1
<1> DEFINE C == CHOOSE G : IsSkip(G, raw, start, pos, scalars)
           end == C[LXMF_PAYLOAD_MAX_FIELDS]
<1>1. PICK F \in [0 .. LXMF_PAYLOAD_MAX_FIELDS -> {0} \cup (pos .. Len(raw) + 1)] :
        IsSkip(F, raw, start, pos, scalars)
  BY SkipExists
<1>2. C = F
  <2>1. IsSkip(C, raw, start, pos, scalars)
    BY <1>1
  <2> HIDE DEF C
  <2> QED BY <1>1, <2>1, SkipIsUnique
<1>3. end \in {0} \cup (pos .. Len(raw) + 1)
  <2>1. LXMF_PAYLOAD_MAX_FIELDS \in 0 .. LXMF_PAYLOAD_MAX_FIELDS
    BY DEF LXMF_PAYLOAD_MAX_FIELDS
  <2> HIDE DEF C
  <2> QED BY <1>1, <1>2, <2>1
<1>4. skip_entries(raw, start, pos, scalars)
        = IF end = 0 THEN INVAL
          ELSE IF end - start > LXMF_PAYLOAD_MAX_FIELDS THEN OVERFLOW ELSE <<"OK", end>>
  BY Zenon DEF skip_entries, IsSkip
<1> HIDE DEF end
<1> QED BY <1>3, <1>4 DEF INVAL, OVERFLOW

LEMMA Part ==
  ASSUME NEW raw \in Seq(Nat), NEW m \in Nat \ {0}, NEW n \in Nat, m <= n + 1, n <= Len(raw)
  PROVE  /\ SubSeq(raw, m, n) \in Seq(Nat)
         /\ Len(SubSeq(raw, m, n)) = n - m + 1
         /\ \A i \in 1 .. n - m + 1 : SubSeq(raw, m, n)[i] = raw[m + i - 1]
<1>1. Len(raw) \in Nat /\ m \in Int /\ n \in Int
  OBVIOUS
<1>2. \A i \in m .. n : i \in 1 .. Len(raw)
  BY <1>1
<1>3. \A i \in m .. n : raw[i] \in Nat
  BY <1>2
<1>4. /\ SubSeq(raw, m, n) \in Seq(Nat)
      /\ Len(SubSeq(raw, m, n)) = IF m <= n THEN n - m + 1 ELSE 0
      /\ \A i \in 1 .. n - m + 1 : SubSeq(raw, m, n)[i] = raw[m + i - 1]
  BY <1>1, <1>3, SubSeqProperties
<1> QED BY <1>1, <1>4

Joins(u, s, t) ==
  /\ u \in Seq(Nat) /\ Len(u) = Len(s) + Len(t)
  /\ \A i \in 1 .. Len(s) : u[i] = s[i]
  /\ \A i \in 1 .. Len(t) : u[Len(s) + i] = t[i]

LEMMA Joined == \A s, t \in Seq(Nat) : Joins(s \o t, s, t)
<1> SUFFICES ASSUME NEW s \in Seq(Nat), NEW t \in Seq(Nat)
             PROVE  Joins(s \o t, s, t)
  OBVIOUS
<1>1. Len(s) \in Nat /\ Len(t) \in Nat
  OBVIOUS
<1>2. /\ s \o t \in Seq(Nat)
      /\ Len(s \o t) = Len(s) + Len(t)
      /\ \A i \in 1 .. Len(s) + Len(t) : (s \o t)[i] =
           IF i <= Len(s) THEN s[i] ELSE t[i - Len(s)]
  BY ConcatProperties
<1>3. \A i \in 1 .. Len(s) : i \in 1 .. Len(s) + Len(t) /\ i <= Len(s)
  BY <1>1
<1>4. \A i \in 1 .. Len(t) : /\ Len(s) + i \in 1 .. Len(s) + Len(t)
                             /\ ~ Len(s) + i <= Len(s) /\ Len(s) + i - Len(s) = i
  BY <1>1
<1> QED BY <1>2, <1>3, <1>4 DEF Joins

LEMMA FieldsAdvance ==
  ASSUME NEW raw \in Seq(Nat), NEW start \in Nat \ {0},
         skip_fields(raw, start)[1] = "OK"
  PROVE  skip_fields(raw, start)[2] \in start + 1 .. Len(raw) + 1
<1> DEFINE marker == raw[start]
           digits == IF marker = 222 THEN 2 ELSE IF marker = 223 THEN 4 ELSE 0
           next == start + digits + 1
           entries == IF digits = 0 THEN marker - 128
                      ELSE IF digits = 4 /\ (raw[start + 1] > 0 \/ raw[start + 2] > 0)
                        THEN 65536
                      ELSE 256 * raw[next - 2] + raw[next - 1]
           scalars == 2 * entries
<1>1. start <= Len(raw) /\ Len(raw) \in Nat
  BY DEF skip_fields, INVAL
<1>2. /\ skip_fields(raw, start) = skip_entries(raw, start, next, scalars)
      /\ marker \in 128 .. 143 \cup {222, 223}
      /\ ~ next > Len(raw) + 1
  BY <1>1 DEF skip_fields, INVAL
<1>3. digits \in {0, 2, 4} /\ (digits = 0 => marker \in 128 .. 143)
  BY <1>2
<1>4. next \in start + 1 .. Len(raw) + 1
  <2> HIDE DEF digits
  <2> QED BY <1>1, <1>2, <1>3
<1>5. scalars \in Nat
  <2>1. CASE digits = 0
    <3>1. entries = marker - 128
      BY <2>1
    <3> HIDE DEF digits, entries, marker
    <3>2. entries \in Nat
      BY ONLY <1>3, <2>1, <3>1
    <3> QED BY <3>2
  <2>2. CASE digits # 0
    <3>1. next - 1 \in 1 .. Len(raw) /\ next - 2 \in 1 .. Len(raw)
      <4> HIDE DEF digits
      <4> QED BY <1>1, <1>3, <1>4, <2>2
    <3>2. entries = 65536 \/ entries = 256 * raw[next - 2] + raw[next - 1]
      <4> HIDE DEF digits, next
      <4> QED BY <2>2
    <3>3. raw[next - 1] \in Nat /\ raw[next - 2] \in Nat
      <4> HIDE DEF next
      <4> QED BY <3>1
    <3> HIDE DEF entries, next
    <3>4. entries \in Nat
      BY <3>2, <3>3
    <3> QED BY <3>4
  <2> QED BY <2>1, <2>2
<1> HIDE DEF next, scalars
<1>6. start \in Nat /\ next \in 1 .. Len(raw) + 1
  BY <1>1, <1>4
<1>7. skip_fields(raw, start)[2] \in next .. Len(raw) + 1
  BY <1>2, <1>5, <1>6, EntriesAdvance
<1> QED BY <1>1, <1>4, <1>7

(* a text that was read is packed again as it was *)
LEMMA TextIsPart ==
  ASSUME NEW raw \in Seq(Nat), NEW pos \in Nat \ {0}, NEW cap \in Nat, NEW f \in BOOLEAN,
         NEW text, text = bin8(raw, pos, cap, f), text[1] = "OK"
  PROVE  /\ text[2] \in pos + 2 .. Len(raw) + 1
         /\ mp_bin8(text[3]) = SubSeq(raw, pos, text[2] - 1)
<1> DEFINE after == pos + 2 + raw[pos + 1]
           short == after > Len(raw) + 1
<1>1. pos + 1 <= Len(raw) /\ raw[pos] = 196 /\ Len(raw) \in Nat
  BY DEF bin8, INVAL
<1>2. text = IF raw[pos + 1] > cap /\ (f \/ ~ short) THEN OVERFLOW
             ELSE IF short THEN INVAL
             ELSE <<"OK", after, SubSeq(raw, pos + 2, after - 1)>>
  BY <1>1 DEF bin8
<1>3. ~ short /\ text = <<"OK", after, SubSeq(raw, pos + 2, after - 1)>>
  <2> HIDE DEF short, after
  <2> QED BY <1>2 DEF INVAL, OVERFLOW
<1> DEFINE n == raw[pos + 1]
           bytes == SubSeq(raw, pos + 2, pos + 1 + n)
           whole == SubSeq(raw, pos, pos + 1 + n)
           packed == mp_bin8(bytes)
<1>4. n \in Nat /\ raw[pos] = 196
  BY <1>1
<1>5. after = pos + 2 + n /\ after - 1 = pos + 1 + n /\ pos + 1 + n <= Len(raw)
  <2>1. ~ after > Len(raw) + 1 /\ after = pos + 2 + n
    BY <1>3
  <2> HIDE DEF n, after
  <2> QED BY ONLY <1>1, <1>4, <2>1, pos \in Nat
<1> HIDE DEF n, after, short
<1>6. /\ bytes \in Seq(Nat) /\ Len(bytes) = n
      /\ \A i \in 1 .. n : bytes[i] = raw[pos + 1 + i]
  <2> DEFINE m == pos + 2
             e == pos + 1 + n
  <2>1. m \in Nat \ {0} /\ e \in Nat /\ m <= e + 1 /\ e <= Len(raw) /\ e - m + 1 = n
        /\ \A i \in Nat : m + i - 1 = pos + 1 + i
    BY ONLY <1>4, <1>5, pos \in Nat, Len(raw) \in Nat, <1>1
  <2> HIDE DEF m, e
  <2>2. /\ SubSeq(raw, m, e) \in Seq(Nat)
        /\ Len(SubSeq(raw, m, e)) = e - m + 1
        /\ \A i \in 1 .. e - m + 1 : SubSeq(raw, m, e)[i] = raw[m + i - 1]
    BY <2>1, Part, Zenon
  <2>3. bytes = SubSeq(raw, m, e)
    BY DEF m, e
  <2>4. ASSUME NEW i \in 1 .. n
        PROVE  bytes[i] = raw[pos + 1 + i]
    <3>1. i \in 1 .. e - m + 1 /\ m + i - 1 = pos + 1 + i
      BY <2>1
    <3> QED BY <2>2, <2>3, <3>1
  <2> HIDE DEF bytes
  <2> QED BY <2>1, <2>2, <2>3, <2>4
<1>7. /\ whole \in Seq(Nat) /\ Len(whole) = 2 + n
      /\ \A i \in 1 .. 2 + n : whole[i] = raw[pos + i - 1]
  <2> DEFINE e == pos + 1 + n
  <2>1. e \in Nat /\ pos <= e + 1 /\ e <= Len(raw) /\ e - pos + 1 = 2 + n
    BY <1>4, <1>5
  <2> HIDE DEF e
  <2>2. /\ SubSeq(raw, pos, e) \in Seq(Nat)
        /\ Len(SubSeq(raw, pos, e)) = e - pos + 1
        /\ \A i \in 1 .. e - pos + 1 : SubSeq(raw, pos, e)[i] = raw[pos + i - 1]
    BY <2>1, Part
  <2>3. whole = SubSeq(raw, pos, e)
    BY DEF e
  <2> QED BY <2>1, <2>2, <2>3
<1> HIDE DEF bytes, whole
<1>8. /\ packed \in Seq(Nat) /\ Len(packed) = 2 + n
      /\ packed[1] = 196 /\ packed[2] = n
      /\ \A i \in 1 .. n : packed[2 + i] = bytes[i]
  <2> DEFINE head == <<196, n>>
  <2>1. head \in Seq(Nat) /\ Len(head) = 2 /\ head[1] = 196 /\ head[2] = n
    BY <1>4
  <2>2. packed = head \o bytes
    BY <1>6 DEF mp_bin8
  <2> HIDE DEF head, packed
  <2>3. /\ head \o bytes \in Seq(Nat)
        /\ Len(head \o bytes) = Len(head) + Len(bytes)
        /\ \A i \in 1 .. Len(head) : (head \o bytes)[i] = head[i]
        /\ \A i \in 1 .. Len(bytes) : (head \o bytes)[Len(head) + i] = bytes[i]
    <3>1. Joins(head \o bytes, head, bytes)
      BY <1>6, <2>1, Joined, Zenon
    <3> QED BY <3>1 DEF Joins
  <2> QED BY <1>6, <2>1, <2>2, <2>3
<1> HIDE DEF packed
<1>9. ASSUME NEW i \in 1 .. Len(packed)
      PROVE  packed[i] = whole[i]
  <2>1. i \in 1 .. 2 + n
    BY <1>8
  <2>2. CASE i = 1
    BY <1>4, <1>7, <1>8, <2>1, <2>2
  <2>3. CASE i = 2
    <3>1. whole[2] = raw[pos + 2 - 1] /\ pos + 2 - 1 = pos + 1
      BY <1>7, <2>1, <2>3
    <3> QED BY <1>8, <2>3, <3>1 DEF n
  <2>4. CASE i > 2
    <3>1. i - 2 \in 1 .. n /\ 2 + (i - 2) = i /\ pos + 1 + (i - 2) = pos + i - 1
      BY <1>4, <2>1, <2>4
    <3>2. packed[i] = bytes[i - 2]
      BY <1>8, <3>1
    <3>3. bytes[i - 2] = raw[pos + i - 1]
      BY <1>6, <3>1
    <3> QED BY <1>7, <2>1, <3>2, <3>3
  <2> QED BY <1>4, <2>1, <2>2, <2>3, <2>4
<1>10. packed = whole
  BY <1>7, <1>8, <1>9, SeqEqual
<1>11. text[2] = after /\ text[3] = SubSeq(raw, pos + 2, after - 1)
  BY ONLY <1>3
<1>12. mp_bin8(text[3]) = SubSeq(raw, pos, text[2] - 1)
  BY <1>5, <1>10, <1>11 DEF packed, whole, bytes
<1>13. after \in pos + 2 .. Len(raw) + 1
  BY <1>1, <1>4, <1>5
<1> QED BY <1>11, <1>12, <1>13

LEMMA UnstampExtends ==
  ASSUME NEW raw \in Seq(Nat), NEW k \in 1 .. Len(raw), NEW m \in k .. Len(raw)
  PROVE  Unstamp(raw, k) \o SubSeq(raw, k + 1, m) = Unstamp(raw, m)
<1> DEFINE first == Unstamp(raw, k)
           rest == SubSeq(raw, k + 1, m)
           all == Unstamp(raw, m)
<1>1. Len(raw) \in Nat /\ k \in Nat /\ m \in Nat /\ k <= m
  OBVIOUS
<1>2. ASSUME NEW j \in 1 .. Len(raw)
      PROVE  /\ Unstamp(raw, j) \in Seq(Nat) /\ Len(Unstamp(raw, j)) = j
             /\ Unstamp(raw, j)[1] = 148
             /\ \A i \in 2 .. j : Unstamp(raw, j)[i] = raw[i]
  <2> DEFINE s == SubSeq(raw, 2, j)
             head == <<148>>
             u == Unstamp(raw, j)
  <2>1. s \in Seq(Nat) /\ Len(s) = j - 1 /\ \A i \in 1 .. j - 1 : s[i] = raw[2 + i - 1]
    <3>1. 2 \in Nat \ {0} /\ j \in Nat /\ 2 <= j + 1 /\ j <= Len(raw) /\ j - 2 + 1 = j - 1
      BY <1>1
    <3> HIDE DEF s
    <3>2. /\ SubSeq(raw, 2, j) \in Seq(Nat)
          /\ Len(SubSeq(raw, 2, j)) = j - 2 + 1
          /\ \A i \in 1 .. j - 2 + 1 : SubSeq(raw, 2, j)[i] = raw[2 + i - 1]
      BY <3>1, Part
    <3> QED BY <3>1, <3>2 DEF s
  <2>2. u = head \o s
    BY DEF Unstamp
  <2>3. head \in Seq(Nat) /\ Len(head) = 1 /\ head[1] = 148
    OBVIOUS
  <2> HIDE DEF s, head, u
  <2>4. /\ head \o s \in Seq(Nat)
        /\ Len(head \o s) = Len(head) + Len(s)
        /\ \A i \in 1 .. Len(head) : (head \o s)[i] = head[i]
        /\ \A i \in 1 .. Len(s) : (head \o s)[Len(head) + i] = s[i]
    <3>1. Joins(head \o s, head, s)
      BY <2>1, <2>3, Joined, Zenon
    <3> QED BY <3>1 DEF Joins
  <2>5. ASSUME NEW i \in 2 .. j
        PROVE  u[i] = raw[i]
    <3>1. i - 1 \in 1 .. j - 1 /\ 1 + (i - 1) = i /\ 2 + (i - 1) - 1 = i
      OBVIOUS
    <3> DEFINE k1 == i - 1
    <3>4. k1 \in 1 .. Len(s)
      BY <2>1, <3>1
    <3> HIDE DEF k1
    <3>5. (head \o s)[1 + k1] = s[k1]
      BY <2>3, <2>4, <3>4
    <3>2. (head \o s)[i] = s[i - 1]
      BY <3>1, <3>5 DEF k1
    <3> QED BY <2>1, <2>2, <3>1, <3>2
  <2>6. u \in Seq(Nat) /\ Len(u) = j /\ u[1] = 148
    BY <1>1, <2>1, <2>2, <2>3, <2>4
  <2> QED BY <2>5, <2>6 DEF u
<1>3. rest \in Seq(Nat) /\ Len(rest) = m - k
      /\ \A i \in 1 .. m - k : rest[i] = raw[k + 1 + i - 1]
  <2>1. k + 1 \in Nat \ {0} /\ m \in Nat /\ k + 1 <= m + 1 /\ m <= Len(raw)
        /\ m - (k + 1) + 1 = m - k
    BY <1>1
  <2> DEFINE b == k + 1
  <2> HIDE DEF b
  <2>2. b \in Nat \ {0} /\ b <= m + 1 /\ m - b + 1 = m - k
    BY <2>1 DEF b
  <2>3. /\ SubSeq(raw, b, m) \in Seq(Nat)
        /\ Len(SubSeq(raw, b, m)) = m - b + 1
        /\ \A i \in 1 .. m - b + 1 : SubSeq(raw, b, m)[i] = raw[b + i - 1]
    BY <2>1, <2>2, Part
  <2>4. rest = SubSeq(raw, b, m)
    BY DEF b
  <2> QED BY <2>2, <2>3, <2>4 DEF b
<1>4. k \in 1 .. Len(raw) /\ m \in 1 .. Len(raw)
  BY <1>1
<1>5. /\ first \in Seq(Nat) /\ Len(first) = k /\ first[1] = 148
      /\ \A i \in 2 .. k : first[i] = raw[i]
  BY <1>2, <1>4
<1>6. /\ all \in Seq(Nat) /\ Len(all) = m /\ all[1] = 148
      /\ \A i \in 2 .. m : all[i] = raw[i]
  BY <1>2, <1>4
<1> HIDE DEF first, rest, all
<1> DEFINE both == first \o rest
<1>7. /\ both \in Seq(Nat) /\ Len(both) = m
      /\ \A i \in 1 .. k : both[i] = first[i]
      /\ \A i \in k + 1 .. m : both[i] = rest[i - k]
  <2>1. /\ both \in Seq(Nat) /\ Len(both) = Len(first) + Len(rest)
        /\ \A i \in 1 .. Len(first) : both[i] = first[i]
        /\ \A i \in 1 .. Len(rest) : both[Len(first) + i] = rest[i]
    <3>1. Joins(both, first, rest)
      BY <1>3, <1>5, Joined, Zenon
    <3> QED BY <3>1 DEF Joins
  <2> HIDE DEF both
  <2>2. Len(both) = m
    BY <1>1, <1>3, <1>5, <2>1
  <2>3. ASSUME NEW i \in k + 1 .. m
        PROVE  both[i] = rest[i - k]
    <3>1. i - k \in 1 .. m - k /\ k + (i - k) = i
      BY <1>1
    <3> QED BY <1>3, <1>5, <2>1, <3>1
  <2> QED BY <1>5, <2>1, <2>2, <2>3
<1> HIDE DEF both
<1>8. ASSUME NEW i \in 1 .. Len(both)
      PROVE  both[i] = all[i]
  <2>1. CASE i = 1
    BY <1>4, <1>5, <1>6, <1>7, <2>1
  <2>2. CASE i \in 2 .. k
    <3>1. i \in 2 .. m /\ i \in 1 .. k
      BY <1>1, <2>2
    <3> QED BY <1>5, <1>6, <1>7, <2>2, <3>1
  <2>3. CASE i \in k + 1 .. m
    <3>1. i \in 2 .. m /\ i - k \in 1 .. m - k /\ k + 1 + (i - k) - 1 = i
      BY <1>1, <1>4, <2>3
    <3> QED BY <1>3, <1>6, <1>7, <2>3, <3>1
  <2> QED BY <1>1, <1>7, <2>1, <2>2, <2>3
<1>9. both = all
  BY <1>6, <1>7, <1>8, SeqEqual
<1> QED BY <1>9 DEF both, first, rest, all

WholeText(raw, pos, text) ==
  /\ text[2] \in pos + 2 .. Len(raw) + 1
  /\ mp_bin8(text[3]) = SubSeq(raw, pos, text[2] - 1)

LEMMA TextIsWhole ==
  \A raw \in Seq(Nat), pos \in Nat \ {0}, cap \in Nat, f \in BOOLEAN :
    bin8(raw, pos, cap, f)[1] = "OK" => WholeText(raw, pos, bin8(raw, pos, cap, f))
<1> SUFFICES ASSUME NEW raw \in Seq(Nat), NEW pos \in Nat \ {0}, NEW cap \in Nat,
                    NEW f \in BOOLEAN, bin8(raw, pos, cap, f)[1] = "OK"
             PROVE  WholeText(raw, pos, bin8(raw, pos, cap, f))
  OBVIOUS
<1> DEFINE text == bin8(raw, pos, cap, f)
<1>1. text = bin8(raw, pos, cap, f) /\ text[1] = "OK"
  OBVIOUS
<1> HIDE DEF text
<1>2. /\ text[2] \in pos + 2 .. Len(raw) + 1
      /\ mp_bin8(text[3]) = SubSeq(raw, pos, text[2] - 1)
  BY <1>1, TextIsPart, Zenon
<1> QED BY <1>2 DEF WholeText, text

(* What is read of a payload, packed again as four elements, is the        *)
(* payload without its stamp, byte for byte.                               *)
LEMMA RepackedIsUnstamped ==
  ASSUME NEW raw \in Seq(Nat), NEW f \in BOOLEAN, PayloadRead(raw, f)[1] = "OK"
  PROVE  Repacked(PayloadRead(raw, f)[2]) = PayloadRead(raw, f)[2].without_stamp
<1> DEFINE title == bin8(raw, 11, LXMF_PAYLOAD_MAX_TITLE, f)
           content == bin8(raw, title[2], LXMF_PAYLOAD_MAX_CONTENT, f)
           fields == skip_fields(raw, content[2])
           n == fields[2] - 1
           stamp == IF raw[1] = 149 THEN bin8(raw, n + 1, LXMF_STAMP_MAX_LEN, f)
                    ELSE <<"OK", n + 1, <<>>>>
           read == [timestamp |-> SubSeq(raw, 3, 10),
                    title |-> title[3],
                    content |-> content[3],
                    fields |-> SubSeq(raw, content[2], n),
                    stamp |-> stamp[3],
                    without_stamp |-> Unstamp(raw, n)]
<1>1. PayloadRead(raw, f) =
        IF Len(raw) > LXMF_PAYLOAD_MAX_STAMPED_LEN THEN OVERFLOW
        ELSE IF Len(raw) < 10 \/ raw[1] \notin {148, 149} \/ raw[2] # 203 THEN INVAL
        ELSE IF title[1] # "OK" THEN title
        ELSE IF content[1] # "OK" THEN content
        ELSE IF fields[1] # "OK" THEN fields
        ELSE IF n > LXMF_PAYLOAD_MAX_LEN THEN OVERFLOW
        ELSE IF stamp[1] # "OK" THEN stamp
        ELSE IF (raw[1] = 149 /\ stamp[3] = <<>>) \/ stamp[2] # Len(raw) + 1 THEN INVAL
        ELSE <<"OK", read>>
  BY Zenon DEF PayloadRead
<1> HIDE DEF title, content, fields, n, stamp, read
<1>2. /\ ~ Len(raw) < 10 /\ raw[2] = 203
      /\ title[1] = "OK" /\ content[1] = "OK" /\ fields[1] = "OK"
      /\ PayloadRead(raw, f) = <<"OK", read>>
  BY <1>1 DEF INVAL, OVERFLOW
<1>3. Len(raw) \in Nat /\ 10 <= Len(raw)
  BY <1>2
<1> DEFINE t == title[2]
           c == content[2]
<1>4. t \in 13 .. Len(raw) + 1 /\ mp_bin8(title[3]) = SubSeq(raw, 11, t - 1)
  <2>1. 11 \in Nat \ {0} /\ LXMF_PAYLOAD_MAX_TITLE \in Nat
    BY DEF LXMF_PAYLOAD_MAX_TITLE
  <2> DEFINE pos == 11
             cap == LXMF_PAYLOAD_MAX_TITLE
  <2>2. title = bin8(raw, pos, cap, f)
    BY DEF title
  <2>3. pos \in Nat \ {0} /\ cap \in Nat /\ pos + 2 = 13
    BY <2>1
  <2> HIDE DEF pos, cap
  <2>4. title[2] \in pos + 2 .. Len(raw) + 1
        /\ mp_bin8(title[3]) = SubSeq(raw, pos, title[2] - 1)
    <3>1. WholeText(raw, pos, title)
      BY <1>2, <2>2, <2>3, TextIsWhole, Zenon
    <3> QED BY <3>1 DEF WholeText
  <2> QED BY <2>3, <2>4 DEF pos
<1>5. c \in t + 2 .. Len(raw) + 1 /\ mp_bin8(content[3]) = SubSeq(raw, t, c - 1)
  <2> DEFINE cap == LXMF_PAYLOAD_MAX_CONTENT
  <2>1. cap \in Nat /\ content = bin8(raw, t, cap, f)
    BY DEF LXMF_PAYLOAD_MAX_CONTENT, content
  <2> HIDE DEF t, cap
  <2>2. t \in Nat \ {0}
    BY ONLY <1>3, <1>4
  <2>3. content[2] \in t + 2 .. Len(raw) + 1
        /\ mp_bin8(content[3]) = SubSeq(raw, t, content[2] - 1)
    <3>1. WholeText(raw, t, content)
      BY <1>2, <2>1, <2>2, TextIsWhole, Zenon
    <3> QED BY <3>1 DEF WholeText
  <2> QED BY <2>3
<1>6. n \in c .. Len(raw)
  <2>1. c \in Nat \ {0}
    <3> HIDE DEF t, c
    <3> QED BY ONLY <1>3, <1>4, <1>5
  <2>2. fields = skip_fields(raw, c)
    BY DEF fields
  <2> HIDE DEF c
  <2>3. fields[2] \in c + 1 .. Len(raw) + 1
    BY <1>2, <2>1, <2>2, FieldsAdvance
  <2> QED BY <1>3, <2>1, <2>3 DEF n
<1>7. Unstamp(raw, 2) = <<148, 203>>
  <2>1. 2 \in Int /\ 1 \in Int /\ 2 \in 1 .. Len(raw)
    BY <1>3
  <2>2. SubSeq(raw, 2, 2) = <<203>>
    <3> DEFINE m == 2
               s == SubSeq(raw, m, m)
    <3>1. m \in Nat \ {0} /\ m \in Nat /\ m <= m + 1 /\ m <= Len(raw) /\ m - m + 1 = 1
          /\ m + 1 - 1 = m
      BY <1>3
    <3> HIDE DEF m
    <3>2. /\ s \in Seq(Nat) /\ Len(s) = m - m + 1
          /\ \A i \in 1 .. m - m + 1 : s[i] = raw[m + i - 1]
      BY <3>1, Part
    <3> HIDE DEF s
    <3>3. Len(s) = 1 /\ s[1] = raw[m]
      BY <3>1, <3>2
    <3>4. raw[m] = 203
      BY <1>2 DEF m
    <3>5. s = <<203>>
      <4> DEFINE u == <<203>>
      <4>1. u \in Seq(Nat) /\ Len(u) = 1 /\ u[1] = 203
        OBVIOUS
      <4> HIDE DEF u
      <4>2. Len(s) = Len(u) /\ \A i \in 1 .. Len(s) : s[i] = u[i]
        BY <3>3, <3>4, <4>1
      <4>3. s = u
        BY <3>2, <4>1, <4>2, SeqEqual
      <4> QED BY <4>3 DEF u
    <3> QED BY <3>5 DEF s, m
  <2>3. <<148>> \o <<203>> = <<148, 203>>
    <3> DEFINE s == <<148>>
               v == <<203>>
               u == <<148, 203>>
    <3>1. /\ s \in Seq(Nat) /\ Len(s) = 1 /\ s[1] = 148
          /\ v \in Seq(Nat) /\ Len(v) = 1 /\ v[1] = 203
          /\ u \in Seq(Nat) /\ Len(u) = 2 /\ u[1] = 148 /\ u[2] = 203
      OBVIOUS
    <3> HIDE DEF s, v, u
    <3> DEFINE w == s \o v
    <3>2. Joins(w, s, v)
      BY <3>1, Joined, Zenon
    <3> HIDE DEF w
    <3>3. w \in Seq(Nat) /\ Len(w) = 2 /\ w[1] = 148 /\ w[2] = 203
      BY <3>1, <3>2 DEF Joins
    <3>4. Len(w) = Len(u) /\ \A i \in 1 .. Len(w) : w[i] = u[i]
      BY <3>1, <3>3
    <3>5. w = u
      <4>1. w \in Seq(Nat) /\ u \in Seq(Nat)
        BY ONLY <3>1, <3>3
      <4> QED BY ONLY <3>4, <4>1, SeqEqual, Zenon
    <3> QED BY <3>5 DEF w, s, v, u
  <2> QED BY <2>2, <2>3, Zenon DEF Unstamp
<1> HIDE DEF t, c
<1>8. /\ 2 \in 1 .. Len(raw) /\ 10 \in 2 .. Len(raw)
      /\ 10 \in 1 .. Len(raw) /\ t - 1 \in 10 .. Len(raw)
      /\ t - 1 \in 1 .. Len(raw) /\ c - 1 \in t - 1 .. Len(raw)
      /\ c - 1 \in 1 .. Len(raw) /\ n \in c - 1 .. Len(raw)
  BY <1>3, <1>4, <1>5, <1>6
<1>9. /\ 2 + 1 = 3 /\ 10 + 1 = 11 /\ t - 1 + 1 = t /\ c - 1 + 1 = c
  BY <1>3, <1>4, <1>5
<1>10. \A k \in 1 .. Len(raw) : \A m \in k .. Len(raw) :
         Unstamp(raw, k) \o SubSeq(raw, k + 1, m) = Unstamp(raw, m)
  BY UnstampExtends
<1>11. /\ Unstamp(raw, 2) \o SubSeq(raw, 3, 10) = Unstamp(raw, 10)
       /\ Unstamp(raw, 10) \o SubSeq(raw, 11, t - 1) = Unstamp(raw, t - 1)
       /\ Unstamp(raw, t - 1) \o SubSeq(raw, t, c - 1) = Unstamp(raw, c - 1)
       /\ Unstamp(raw, c - 1) \o SubSeq(raw, c, n) = Unstamp(raw, n)
  <2>1. Unstamp(raw, 2) \o SubSeq(raw, 3, 10) = Unstamp(raw, 10)
    BY ONLY <1>8, <1>9, <1>10
  <2>2. Unstamp(raw, 10) \o SubSeq(raw, 11, t - 1) = Unstamp(raw, t - 1)
    BY ONLY <1>8, <1>9, <1>10
  <2>3. Unstamp(raw, t - 1) \o SubSeq(raw, t, c - 1) = Unstamp(raw, c - 1)
    BY ONLY <1>8, <1>9, <1>10
  <2>4. Unstamp(raw, c - 1) \o SubSeq(raw, c, n) = Unstamp(raw, n)
    BY ONLY <1>8, <1>9, <1>10
  <2> QED BY <2>1, <2>2, <2>3, <2>4
<1>12. payload(SubSeq(raw, 3, 10), title[3], content[3], SubSeq(raw, c, n)) = Unstamp(raw, n)
  <2>1. payload(SubSeq(raw, 3, 10), title[3], content[3], SubSeq(raw, c, n))
          = <<148, 203>> \o SubSeq(raw, 3, 10) \o SubSeq(raw, 11, t - 1)
              \o SubSeq(raw, t, c - 1) \o SubSeq(raw, c, n)
    BY <1>4, <1>5, Zenon DEF payload
  <2> QED BY <1>7, <1>11, <2>1, Zenon
<1>13. /\ read.timestamp = SubSeq(raw, 3, 10) /\ read.title = title[3]
       /\ read.content = content[3] /\ read.fields = SubSeq(raw, c, n)
       /\ read.without_stamp = Unstamp(raw, n)
  BY DEF read, c
<1>14. Repacked(read) = read.without_stamp
  BY <1>12, <1>13, Zenon DEF Repacked
<1>15. PayloadRead(raw, f)[2] = read
  BY <1>2
<1> QED BY <1>14, <1>15

(* What the signature of a message covers, read by the firmware or by the  *)
(* model: the same bytes.                                                  *)
LEMMA SignedIsUnstamped ==
  ASSUME NEW raw \in Seq(Nat),
         lxmf_payload_parse(raw)[1] = "OK" \/ parse_payload(raw)[1] = "OK"
  PROVE  /\ lxmf_payload_parse(raw)[1] = "OK" /\ parse_payload(raw)[1] = "OK"
         /\ lxmf_payload_parse(raw)[2].without_stamp = no_stamp_payload(raw)
<1>1. lxmf_payload_parse(raw) = parse_payload(raw)
  BY ReadersAgree
<1>2. Repacked(parse_payload(raw)[2]) = parse_payload(raw)[2].without_stamp
  <2>1. PayloadRead(raw, TRUE)[1] = "OK"
    BY <1>1 DEF parse_payload
  <2>2. TRUE \in BOOLEAN
    OBVIOUS
  <2> QED BY <2>1, <2>2, RepackedIsUnstamped DEF parse_payload
<1> QED BY <1>1, <1>2 DEF no_stamp_payload

-----------------------------------------------------------------------------
(* The dispatch against its model *)

LEMMA ReconstructedParts ==
  ASSUME NEW a \in Arrivals
  PROVE  LET m == Reconstructed(a)
         IN  /\ m.source = a.message.source /\ m.signature = a.message.signature
             /\ m.payload = a.message.payload /\ m.cut = a.message.cut
             /\ m.dest = IF a.mode = "opportunistic" THEN a.destination ELSE a.message.dest
BY LxmfAssumption DEF Reconstructed

LEMMA LengthIsLookedAt ==
  ASSUME NEW a \in Arrivals
  PROVE  /\ Length(a.message) < LXMF_PACKED_PREFIX_SIZE <=> a.message.cut
         /\ ~ a.message.cut =>
              (Length(a.message) > LXMF_PACKED_MAX_STAMPED_LEN
                 <=> Len(a.message.payload) > LXMF_PAYLOAD_MAX_STAMPED_LEN)
<1> DEFINE n == Len(a.message.payload)
<1>1. n \in Nat /\ a.message.cut \in BOOLEAN
  BY LxmfAssumption
<1>2. /\ LXMF_PACKED_PREFIX_SIZE = 96 /\ LXMF_PACKED_MAX_STAMPED_LEN = 527
      /\ LXMF_PAYLOAD_MAX_STAMPED_LEN = 431
  BY DEF LXMF_PACKED_PREFIX_SIZE, LXMF_PACKED_MAX_STAMPED_LEN,
     LXMF_PAYLOAD_MAX_STAMPED_LEN, LXMF_PAYLOAD_MAX_LEN, LXMF_STAMP_MAX_LEN,
     LXMF_HASH_SIZE, LXMF_SIGNATURE_SIZE
<1>3. Length(a.message) = IF a.message.cut THEN 95 ELSE 96 + n
  <2>1. Length(a.message) =
          IF a.message.cut THEN LXMF_PACKED_PREFIX_SIZE - 1 ELSE LXMF_PACKED_PREFIX_SIZE + n
    BY DEF Length
  <2> HIDE DEF n
  <2> QED BY <1>2, <2>1
<1> HIDE DEF n
<1>4. CASE a.message.cut
  BY <1>1, <1>2, <1>3, <1>4
<1>5. CASE ~ a.message.cut
  BY <1>1, <1>2, <1>3, <1>5 DEF n
<1> QED BY <1>4, <1>5

LEMMA ReadFits ==
  ASSUME NEW raw, NEW f, PayloadRead(raw, f)[1] = "OK"
  PROVE  ~ Len(raw) > LXMF_PAYLOAD_MAX_STAMPED_LEN
BY DEF PayloadRead, OVERFLOW

(* what comes of a message that is looked at *)
LEMMA Parsed ==
  ASSUME NEW m, NEW key
  PROVE  LET read == lxmf_payload_parse(m.payload)
         IN  lxmf_message_parse(m, key)
               = IF m.cut THEN <<"SHORT">>
                 ELSE IF read[1] # "OK" THEN read
                 ELSE IF m.signature # Signed(key, m.dest, m.source, read[2].without_stamp)
                   THEN <<"BAD_SIGNATURE">>
                 ELSE <<"OK", <<m.dest, m.source, read[2].without_stamp>>>>
<1> DEFINE read == lxmf_payload_parse(m.payload)
<1>1. lxmf_message_parse(m, key)
        = IF m.cut THEN <<"SHORT">>
          ELSE IF read[1] # "OK" THEN read
          ELSE IF ~ lxmf_message_verify(m, read[2].without_stamp, key)
            THEN <<"BAD_SIGNATURE">>
          ELSE <<"OK", <<m.dest, m.source, read[2].without_stamp>>>>
  BY Zenon DEF lxmf_message_parse, Verified
<1> HIDE DEF read
<1>2. lxmf_message_verify(m, read[2].without_stamp, key)
        <=> m.signature = Signed(key, m.dest, m.source, read[2].without_stamp)
  BY DEF lxmf_message_verify
<1>3. lxmf_message_parse(m, key)
        = IF m.cut THEN <<"SHORT">>
          ELSE IF read[1] # "OK" THEN read
          ELSE IF m.signature # Signed(key, m.dest, m.source, read[2].without_stamp)
            THEN <<"BAD_SIGNATURE">>
          ELSE <<"OK", <<m.dest, m.source, read[2].without_stamp>>>>
  BY <1>1, <1>2
<1> QED BY <1>3 DEF read

LEMMA DispatchAlwaysFollows == DispatchFollows
<1> SUFFICES ASSUME NEW a \in Arrivals
             PROVE  LET m == Reconstructed(a)
                    IN  IF Acceptable(a)
                          THEN Answer(a) =
                                 dispatch_model(<<m.dest, m.source, no_stamp_payload(m.payload)>>)
                          ELSE IsRefusal(Answer(a))
  BY DEF DispatchFollows
<1> DEFINE m == Reconstructed(a)
           read == lxmf_payload_parse(m.payload)
           key == CHOOSE i \in Recalled(m) : TRUE
           parsed == lxmf_message_parse(m, key)
           id == <<m.dest, m.source, no_stamp_payload(m.payload)>>
           ByPath(i) == /\ m.source = delivery(i)
                        /\ m.signature = sign(i, m.dest, m.source, m.payload)
<1>1. /\ m.source = a.message.source /\ m.signature = a.message.signature
      /\ m.payload = a.message.payload /\ m.cut = a.message.cut
  BY ReconstructedParts
<1>2. m.payload \in Seq(Nat)
  <2> HIDE DEF m
  <2> QED BY <1>1, LxmfAssumption
<1>3. Acceptable(a) <=>
        /\ a.mode = "direct" => a.link
        /\ a.mode = "opportunistic" => a.destination # None
        /\ a.mode \in {"direct", "opportunistic"}
        /\ ~ m.cut
        /\ parse_payload(m.payload)[1] = "OK"
        /\ \E i \in paths : ByPath(i)
  BY DEF Acceptable
<1>4. Recalled(a.message) = Recalled(m)
  <2> HIDE DEF m
  <2> QED BY <1>1 DEF Recalled
<1>5. Refusal(a) # None => Answer(a) = Refused(Refusal(a))
  BY DEF Answer
<1>6. Refusal(a) = None => Answer(a) = Recognised(parsed)
  BY DEF Answer
<1>7. parsed = IF m.cut THEN <<"SHORT">>
               ELSE IF read[1] # "OK" THEN read
               ELSE IF m.signature # Signed(key, m.dest, m.source, read[2].without_stamp)
                 THEN <<"BAD_SIGNATURE">>
               ELSE <<"OK", <<m.dest, m.source, read[2].without_stamp>>>>
  BY Parsed
<1>8. Recalled(m) # {} => key \in paths /\ delivery(key) = m.source
  BY DEF Recalled
<1>9. read[1] = "OK" \/ parse_payload(m.payload)[1] = "OK"
        => /\ read[1] = "OK" /\ parse_payload(m.payload)[1] = "OK"
           /\ read[2].without_stamp = no_stamp_payload(m.payload)
  <2> HIDE DEF m
  <2> QED BY <1>2, SignedIsUnstamped
<1>10. \A i : sign(i, m.dest, m.source, m.payload)
                = Signed(i, m.dest, m.source, no_stamp_payload(m.payload))
  BY DEF sign
<1>11. /\ Length(a.message) < LXMF_PACKED_PREFIX_SIZE <=> a.message.cut
       /\ ~ a.message.cut =>
            (Length(a.message) > LXMF_PACKED_MAX_STAMPED_LEN
               <=> Len(a.message.payload) > LXMF_PAYLOAD_MAX_STAMPED_LEN)
  BY LengthIsLookedAt
<1>12. parse_payload(m.payload)[1] = "OK" => ~ Len(m.payload) > LXMF_PAYLOAD_MAX_STAMPED_LEN
  <2> HIDE DEF m
  <2> QED BY ReadFits DEF parse_payload
<1>13. read[1] \in {"OK", "INVAL", "OVERFLOW"}
  BY ReadStatus DEF lxmf_payload_parse
<1>14. Recognised(<<"OK", id>>) = dispatch_model(id)
  <2> HIDE DEF id
  <2> QED BY DEF Recognised, dispatch_model
<1> HIDE DEF m, read, key, parsed, id, ByPath
<1>15. CASE Acceptable(a)
  <2>1. PICK i \in paths : ByPath(i)
    BY <1>3, <1>15
  <2>2. i \in Recalled(m) /\ m.source = delivery(i)
    BY <2>1 DEF Recalled, ByPath
  <2>3. key = i
    <3>1. delivery(key) = delivery(i)
      BY <1>8, <2>2
    <3> QED BY <3>1 DEF delivery
  <2>4. Refusal(a) = None
    BY <1>1, <1>3, <1>4, <1>11, <1>12, <1>15, <2>2, LxmfAssumption DEF Refusal
  <2>5. m.signature = Signed(key, m.dest, m.source, read[2].without_stamp)
    BY <1>3, <1>9, <1>10, <1>15, <2>1, <2>3 DEF ByPath
  <2>6. parsed = <<"OK", id>>
    BY <1>3, <1>7, <1>9, <1>15, <2>5 DEF id
  <2>7. Answer(a) = dispatch_model(id)
    BY <1>6, <1>14, <2>4, <2>6
  <2> QED BY <1>15, <2>7 DEF id, m
<1>16. CASE ~ Acceptable(a)
  <2>1. CASE Refusal(a) # None
    <3>1. Refusal(a) \in {"INVAL", "NO_LINK", "SHORT", "CAPACITY", "UNKNOWN_SOURCE"}
      BY <2>1 DEF Refusal
    <3>2. IsRefusal(Answer(a))
      BY <1>5, <2>1, <3>1 DEF IsRefusal, Refused
    <3> QED BY <1>16, <3>2
  <2>2. CASE Refusal(a) = None
    <3>1. /\ a.mode \in {"direct", "opportunistic"}
          /\ a.mode = "direct" => a.link
          /\ a.mode = "opportunistic" => a.destination # None
          /\ ~ m.cut /\ Recalled(m) # {}
      BY <1>1, <1>4, <1>11, <2>2, LxmfAssumption DEF Refusal
    <3>2. parsed[1] \in {"SHORT", "INVAL", "OVERFLOW", "BAD_SIGNATURE"}
      <4>1. CASE read[1] # "OK"
        BY <1>7, <1>13, <3>1, <4>1
      <4>2. CASE read[1] = "OK"
        <5>1. ~ ByPath(key)
          BY <1>3, <1>8, <1>9, <1>16, <3>1, <4>2
        <5>2. m.signature # Signed(key, m.dest, m.source, read[2].without_stamp)
          BY <1>8, <1>9, <1>10, <3>1, <4>2, <5>1 DEF ByPath
        <5>3. parsed = <<"BAD_SIGNATURE">>
          BY <1>7, <3>1, <4>2, <5>2
        <5> QED BY <5>3
      <4> QED BY <4>1, <4>2
    <3>3. IsRefusal(Answer(a))
      BY <1>6, <2>2, <3>2 DEF IsRefusal, Recognised, Refused
    <3> QED BY <1>16, <3>3
  <2> QED BY <2>1, <2>2
<1> QED BY <1>15, <1>16

LEMMA ModesAlwaysAgree == ModesAgree
<1> SUFFICES ASSUME NEW a \in Arrivals, a.mode = "direct", a.link
             PROVE  Answer(a) = Answer([a EXCEPT !.mode = "opportunistic",
                                                 !.destination = a.message.dest])
  BY DEF ModesAgree
<1> DEFINE b == [a EXCEPT !.mode = "opportunistic", !.destination = a.message.dest]
           m == a.message
           n == Reconstructed(b)
           key(l) == CHOOSE i \in Recalled(l) : TRUE
<1>1. b.mode = "opportunistic" /\ b.destination = m.dest /\ b.message = m
  BY LxmfAssumption
<1>2. m.dest # None /\ DOMAIN m = {"dest", "source", "signature", "payload", "cut"}
  BY LxmfAssumption
<1>3. Reconstructed(a) = m
  BY DEF Reconstructed
<1> HIDE DEF b, m
<1>4. n = [m EXCEPT !.dest = m.dest]
  BY <1>1 DEF Reconstructed
<1> HIDE DEF n
<1>5. /\ n.dest = m.dest /\ n.source = m.source /\ n.signature = m.signature
      /\ n.payload = m.payload /\ n.cut = m.cut
  BY <1>2, <1>4
<1>6. Recalled(n) = Recalled(m) /\ key(n) = key(m)
  BY <1>5 DEF Recalled
<1>7. Refusal(a) = Refusal(b)
  BY <1>1, <1>2 DEF Refusal, m
<1>8. lxmf_message_parse(n, key(n)) = lxmf_message_parse(m, key(m))
  <2> HIDE DEF key
  <2> QED BY <1>5, <1>6, Parsed
<1>9. Answer(a) = IF Refusal(a) # None THEN Refused(Refusal(a))
                  ELSE Recognised(lxmf_message_parse(m, key(m)))
  BY <1>3 DEF Answer
<1>10. Answer(b) = IF Refusal(b) # None THEN Refused(Refusal(b))
                   ELSE Recognised(lxmf_message_parse(n, key(n)))
  BY DEF Answer, n
<1>11. Answer(a) = Answer(b)
  <2> HIDE DEF key
  <2> QED BY <1>7, <1>8, <1>9, <1>10
<1> QED BY <1>11 DEF b

(* Whatever announces were heard, whatever is in the slot and whatever the *)
(* bytes of a payload are: a message is recognised by the firmware exactly *)
(* when the model of src/proofs/lxmf takes it, as the same one and with    *)
(* the same status, over a link or in a packet.                            *)
THEOREM DispatchFollowsModel == Spec => [](DispatchFollows /\ ModesAgree)
<1>1. DispatchFollows /\ ModesAgree
  BY DispatchAlwaysFollows, ModesAlwaysAgree
<1> QED BY <1>1, PTL

(* The vectors and formats that a run computes once are all that           *)
(* LxmfFollowsContract asks for beyond that.                               *)
THEOREM LxmfFollowsModels == LxmfTables => (Spec => LxmfFollowsContract)
<1> SUFFICES ASSUME LxmfTables
             PROVE  Spec => LxmfFollowsContract
  OBVIOUS
<1>1. DispatchFollows /\ ModesAgree
  BY DispatchAlwaysFollows, ModesAlwaysAgree
<1>2. [Next]_vars => [Started => LxmfTables]_vars
  OBVIOUS
<1> QED BY <1>1, <1>2, PTL DEF Spec, LxmfFollowsContract
=============================================================================
