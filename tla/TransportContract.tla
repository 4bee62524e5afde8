------------------------- MODULE TransportContract --------------------------
(***************************************************************************)
(* The reference models of src/proofs/transport, which the repository runs *)
(* on a few vectors beside the assembly: loops over an array of entries,   *)
(* and packets as sequences of fields.  Transport, whose tables are picked *)
(* by predicate and whose packets are records, is compared with them in    *)
(* every state it reaches.                                                 *)
(***************************************************************************)
EXTENDS TransportHistory, Encodings

CONSTANT None   \* path_lookup found no entry, path_update got no next hop

ASSUME ContractAssumption == None \notin Route \cup HopHash \cup {Nobody}

-----------------------------------------------------------------------------
(* include/transport.S: what the tables keep of a route and of a response *)

HASH_LEN == 16
HEADER_H2_SIZE == 2 + HASH_LEN + HASH_LEN + 1
TRANSPORT_PATH_CAPACITY == 8
TRANSPORT_PATH_ENTRY_SIZE == 120
TRANSPORT_PATH_RESPONSE_CAPACITY == 8
TRANSPORT_PATH_RESPONSE_RAW_MAX == 253
TRANSPORT_PATH_RESPONSE_ENTRY_SIZE == 280
TRANSPORT_PACKET_HASH_CAPACITY == 16

path_entry ==
  << <<"valid", 0, 1>>, <<"interface", 1, 1>>, <<"hops", 2, 1>>, <<"reserved", 3, 1>>,
     <<"last_seen", 4, 4>>, <<"dest", 8, HASH_LEN>>, <<"identity_hash", 24, HASH_LEN>>,
     <<"public_key", 40, 64>>, <<"next_hop", 104, HASH_LEN>> >>

path_response_entry ==
  << <<"valid", 0, 1>>, <<"reserved", 1, 3>>, <<"raw_len", 4, 4>>, <<"dest", 8, HASH_LEN>>,
     <<"raw", 24, TRANSPORT_PATH_RESPONSE_RAW_MAX>>, <<"padding", 277, 3>> >>

(* A response has room for whatever the radio sends; every route can have  *)
(* one; and an announce of HEADER_1 grows by one hash.                     *)
prove_constants ==
  /\ Packed(path_entry, TRANSPORT_PATH_ENTRY_SIZE)
  /\ TRANSPORT_PATH_CAPACITY * TRANSPORT_PATH_ENTRY_SIZE = 960
  /\ Packed(path_response_entry, TRANSPORT_PATH_RESPONSE_ENTRY_SIZE)
  /\ TRANSPORT_PATH_RESPONSE_CAPACITY * TRANSPORT_PATH_RESPONSE_ENTRY_SIZE = 2240
  /\ TRANSPORT_PATH_RESPONSE_CAPACITY = TRANSPORT_PATH_CAPACITY
  /\ TRANSPORT_PACKET_HASH_CAPACITY * HASH_LEN = 256
  /\ HEADER_H2_SIZE = 19 + HASH_LEN

-----------------------------------------------------------------------------
(* path_table.py: the table as an array, scanned from its first entry *)

path_init == [idx \in PathSlot |-> FreeSlot]

path_lookup(table, dest_hash) ==
  LET hit(idx) == table[idx].valid /\ table[idx].dest = dest_hash
  IN  IF \E idx \in PathSlot : hit(idx)
        THEN table[CHOOSE idx \in PathSlot :
                     hit(idx) /\ \A t \in 1 .. idx - 1 : ~ hit(t)]
        ELSE None

OlderFault(age, so) == age >= so.age   \* the last of several oldest wins

(* an entry replaces the oldest so far only when it is strictly older *)
Older(age, so) == age > so.age

(* what the loop of path_update knows before the first entry ... *)
Unvisited == [selected |-> 0, first_invalid |-> 0, oldest |-> 0, age |-> -1]

(* ... and after entry idx; it breaks at the destination's own entry *)
Visited(table, dest_hash, now, idx, so) ==
  LET age == (now - table[idx].last_seen) % ClockModulus
  IN  IF so.selected # 0
        THEN so
      ELSE IF ~ table[idx].valid
        THEN [so EXCEPT !.first_invalid = IF @ = 0 THEN idx ELSE @]
      ELSE IF table[idx].dest = dest_hash
        THEN [so EXCEPT !.selected = idx]
      ELSE IF Older(age, so)
        THEN [so EXCEPT !.oldest = idx, !.age = age]
        ELSE so

Scan(table, dest_hash, now) ==
  LET after[idx \in 0 .. PathCapacity] ==
        IF idx = 0 THEN Unvisited
                   ELSE Visited(table, dest_hash, now, idx, after[idx - 1])
  IN  after[PathCapacity]

path_update(table, dest_hash, interface_id, hops, now, next_hop) ==
  LET scan == Scan(table, dest_hash, now)
      selected == IF scan.selected # 0 THEN scan.selected
                  ELSE IF scan.first_invalid # 0 THEN scan.first_invalid
                  ELSE scan.oldest
  IN  [table EXCEPT ![selected] =
         [valid     |-> TRUE,
          interface |-> interface_id,
          hops      |-> hops,
          last_seen |-> now % ClockModulus,
          dest      |-> dest_hash,
          next_hop  |-> IF next_hop = None THEN dest_hash ELSE next_hop]]

-----------------------------------------------------------------------------
(* Packets on the wire.  A raw packet is the sequence of its fields; the   *)
(* flags byte is a record of the bits the code reads.                      *)

Flags(p) == [header |-> p.header, type |-> p.type]

Raw(p) ==
  IF p.header = 2
    THEN <<Flags(p), p.hops, p.tid, p.dest, p.context, p.body>>
    ELSE <<Flags(p), p.hops, p.dest, p.context, p.body>>

(* transport_packet_seen.py: the low flag bits, and everything after the   *)
(* hop count and the transport id                                          *)
packet_hashable(raw) ==
  <<raw[1].type>> \o SubSeq(raw, IF raw[1].header = 2 THEN 4 ELSE 3, Len(raw))

ANNOUNCE_HEADER2_FLAGS == [header |-> 2, type |-> "announce"]

(* path_response.py: a HEADER_1 announce gets a transport id in front of   *)
(* its destination hash, that of a HEADER_2 announce is replaced           *)
h1_response(raw, hops, local_id) ==
  LET out == <<ANNOUNCE_HEADER2_FLAGS, hops, local_id>> \o SubSeq(raw, 3, Len(raw))
  IN  [out EXCEPT ![5] = "path_response"]

h2_response(raw, hops, local_id) ==
  [raw EXCEPT ![1] = ANNOUNCE_HEADER2_FLAGS,
              ![2] = hops,
              ![3] = local_id,
              ![5] = "path_response"]

-----------------------------------------------------------------------------
(* process_announce.py and transport_process_packet.py: the status a       *)
(* caller sees                                                             *)

process_status(parse_ok, valid, lookup_rc, update_ok) ==
  IF ~ parse_ok \/ ~ valid THEN "ERR_INVAL"
  ELSE IF lookup_rc \notin {"OK", "ERR_NOT_FOUND"} THEN "ERR_INVAL"
  ELSE IF ~ update_ok THEN "ERR_INVAL"
  ELSE IF lookup_rc = "OK" THEN "UPDATED" ELSE "ACCEPTED"

process_model(parse_ok, delegated_status) ==
  IF parse_ok THEN delegated_status ELSE "ERR_INVAL"

prove_finite_model ==
  \A status \in {"ERR_INVAL", "OK", "UPDATED", "DUPLICATE", "FORWARDED"} :
    /\ process_model(FALSE, status) = "ERR_INVAL"
    /\ process_model(TRUE, status) = status

(* a packet that is neither refused nor new is an update *)
prove_status_model ==
  \A parse_ok, valid, update_ok \in BOOLEAN,
     lookup_rc \in {"OK", "ERR_NOT_FOUND", "ERR_INVAL"} :
    LET status == process_status(parse_ok, valid, lookup_rc, update_ok)
    IN  /\ status = "ERR_INVAL"
             <=> ~ (parse_ok /\ valid /\ update_ok) \/ lookup_rc = "ERR_INVAL"
        /\ status = "UPDATED" => lookup_rc = "OK"
        /\ status = "ACCEPTED" => lookup_rc = "ERR_NOT_FOUND"

(* transport_process_packet on a parsed announce, in terms of the guards   *)
(* of HearAnnounce and RefuseAnnounce; transport_path_lookup comes first   *)
AnnounceStatus(n, p) ==
  process_status(
    p.context = "none" /\ p.body \in AnnounceBody,
    p.dest \in Dest /\ p.body.genuine,
    IF path_lookup(path_table[n], p.dest) = None THEN "ERR_NOT_FOUND" ELSE "OK",
    p.hops + 1 < HopModulus)

-----------------------------------------------------------------------------
(* path_table.py's own walk through the table: insert, replace in place,   *)
(* fill, and evict the oldest                                              *)
FullTable(dests) ==
  LET filled[k \in 0 .. PathCapacity] ==
        IF k = 0 THEN path_init
        ELSE path_update(filled[k - 1], dests[k], "lora", 1, k - 1, None)
  IN  filled[PathCapacity]

PathTableWalk(dests) ==
  LET occupied(table) == {idx \in PathSlot : table[idx].valid}
      first == path_update(path_init, dests[1], "lora", 1, 0, None)
      again == path_update(first, dests[1], "lora", 2, 1, ZeroId)
      over == path_update(FullTable(dests), dests[PathCapacity + 1], "lora",
                          1, PathCapacity - 1, None)
  IN  /\ path_lookup(first, dests[1]).next_hop = dests[1]
      /\ occupied(again) = occupied(first)
      /\ path_lookup(again, dests[1]).hops = 2
      /\ path_lookup(again, dests[1]).next_hop = ZeroId
      /\ path_lookup(over, dests[1]) = None
      /\ path_lookup(over, dests[PathCapacity + 1]) # None
      /\ occupied(over) = PathSlot

(* with any destinations, all different; no clock value and no hop count   *)
(* in it wraps                                                             *)
PathTableWalks ==
  \A dests \in [1 .. PathCapacity + 1 -> Dest] :
    /\ \A i, j \in DOMAIN dests : dests[i] = dests[j] => i = j
    /\ {1, PathCapacity - 1} \subseteq ClockValue
    /\ 2 \in Hop
    => PathTableWalk(dests)

-----------------------------------------------------------------------------
UpdateFollows(n, p, iface) ==
  \A s \in PathSlot :
    PicksPathSlot(path_table[n], p.dest, Now(n), s) =>
      path_update(path_table[n], p.dest, iface, p.hops + 1, Now(n),
                  IF p.header = 2 THEN p.tid ELSE None)
        = [path_table[n] EXCEPT ![s] = RouteFrom(p, iface, Now(n))]

ResponseFollows(n, p) ==
  Raw(PathResponse(p, identity_current[n])) =
    IF p.header = 2
      THEN h2_response(Raw(p), p.hops + 1, identity_current[n])
      ELSE h1_response(Raw(p), p.hops + 1, identity_current[n])

SameHash(p, q) ==
  packet_hashable(Raw(p)) = packet_hashable(Raw(q)) <=> Hashable(p) = Hashable(q)

(* Whatever the table holds, however it came to hold it and whatever the   *)
(* clock has wrapped to, the next announce is written where the loop of    *)
(* path_table.py writes it and changes nothing else; it is answered with   *)
(* the status process_announce.py gives; a lookup returns what path_lookup *)
(* does; a cached response has the bytes path_response.py builds; and the  *)
(* hash of transport_packet_seen.py takes two packets for one exactly when *)
(* the transport does.                                                     *)
TablesFollowContract ==
  /\ HInit =>
       /\ prove_constants /\ prove_status_model /\ prove_finite_model /\ PathTableWalks
       /\ \A p, q \in LoraPackets : SameHash(p, q)
  /\ \A n \in Node :
      /\ \A p \in LoraPackets \cup HostAnnounces :
           p.type = "announce" =>
             /\ Acceptable(p) <=> AnnounceStatus(n, p) \in {"ACCEPTED", "UPDATED"}
             /\ Acceptable(p) =>
                  /\ AnnounceStatus(n, p) = "UPDATED" <=> Routed(path_table[n], p.dest)
                  /\ UpdateFollows(n, p, "lora")
                  /\ UpdateFollows(n, p, "kiss")
                  /\ p.body.long \/ ResponseFollows(n, p)
      /\ \A d \in Dest, s \in PathSlot :
           LooksUp(path_table[n], d, s) =>
             path_lookup(path_table[n], d) = path_table[n][s]
      /\ \A d \in Dest :
           path_lookup(path_table[n], d) = None <=> ~ Routed(path_table[n], d)
=============================================================================
