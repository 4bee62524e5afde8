------------------------------ MODULE LinkTable ------------------------------
(***************************************************************************)
(* The link table of one node: link_handshake_init, link_handshake_accept, *)
(* the data path of link_process_packet, and link_session_encrypt.  Link   *)
(* requests come from the air in any order, any number of times, and for   *)
(* any destination: the code does not ask whether the destination is local.*)
(*                                                                         *)
(* X25519, Ed25519, HKDF, AES and HMAC are ideal: key pairs are fresh,     *)
(* keys derived from different inputs differ, and a token decrypts under   *)
(* the keys it was made with and no others.  Fresh also after a restart is *)
(* true of the ESP32-C6 build, whose entropy is the hardware generator.    *)
(* The Ed25519 pair of a link the node opens goes into the request and is  *)
(* not read again.                                                         *)
(***************************************************************************)
EXTENDS Integers

CONSTANTS
  Dest, PeerKey, SignKey, NoKey, NoLink,   \* as in LinkSessions
  Capacity,       \* LINK_TABLE_CAPACITY, 4 in the code
  NoDest,         \* the destination hash of a slot never written
  ClockModulus,   \* clock_now_ms returns 32 bits: 2^32
  MaxKeyPairs,    \* bound on the key pairs a node generates
  MaxUptime,      \* bound on the time a node stays up
  MaxRestarts     \* bound on restarts

(* the key pairs the node generates, numbered *)
OwnKey == 1 .. MaxKeyPairs

ASSUME LinkAssumption ==
  /\ Capacity \in Nat \ {0}
  /\ ClockModulus \in Nat \ {0}
  /\ MaxKeyPairs \in Nat
  /\ MaxUptime \in Nat
  /\ MaxRestarts \in Nat
  /\ NoDest \notin Dest
  /\ NoKey \notin OwnKey \cup PeerKey

Request == [dest : Dest, x25519 : PeerKey, ed25519 : SignKey]

Material == [ours : OwnKey, link : Request]

NoMaterial == [ours |-> NoKey, link |-> NoLink]

(* NoLink is 16 zero bytes, which no hash is *)
ASSUME NoLinkAssumption == NoLink \notin Request

Slot == 1 .. Capacity

VARIABLES
  link_table,
  link_session_scratch,   \* whose text it holds, and of which session
  uptime,                 \* milliseconds since the restart, not wrapped
  generated,              \* history: the number of key pairs generated
  derived,                \* history: the keys link_derive_keys returned
  heard,                  \* history: when a slot was last used, not wrapped
  restarts

history == <<generated, derived, heard>>
vars == <<link_table, link_session_scratch, uptime, history, restarts>>

(* status "free" is a valid byte of 0 *)
Entry ==
  [status    : {"free", "pending", "established"},
   dest      : Dest \cup {NoDest},
   last_seen : 0 .. ClockModulus - 1,
   ours      : OwnKey \cup {NoKey},      \* local_x25519
   theirs    : PeerKey \cup {NoKey},     \* remote_x25519_pub
   link_id   : Request \cup {NoLink},
   keys      : Material \cup {NoMaterial}]

FreeEntry ==
  [status |-> "free", dest |-> NoDest, last_seen |-> 0, ours |-> NoKey,
   theirs |-> NoKey, link_id |-> NoLink, keys |-> NoMaterial]

NoText == [by |-> "nobody", keys |-> NoMaterial]

Init ==
  /\ link_table = [s \in Slot |-> FreeEntry]
  /\ link_session_scratch = NoText
  /\ uptime = 0
  /\ heard = [s \in Slot |-> 0]
  /\ generated = 0
  /\ derived = {}
  /\ restarts = 0

-----------------------------------------------------------------------------
(* Which slot a handshake writes; both handshakes scan alike *)

NowFault == uptime   \* the clock is wider than the field it is kept in

Now == uptime % ClockModulus

InUse(s) == link_table[s].status # "free"

LinkTo(s, d) == InUse(s) /\ link_table[s].dest = d

(* unsigned 32-bit subtraction now - last_seen *)
Age(s) == (Now - link_table[s].last_seen) % ClockModulus

PicksSlotFault(d, s) ==   \* the scan stops at the first free slot
  \/ ~ InUse(s) /\ \A t \in 1 .. s - 1 : InUse(t)
  \/ (\A t \in Slot : InUse(t)) /\ LinkTo(s, d)

PicksSlotClockFault(d, s) ==   \* timestamps are compared, not ages
  \/ LinkTo(s, d) /\ \A t \in 1 .. s - 1 : ~ LinkTo(t, d)
  \/ /\ ~ \E t \in Slot : LinkTo(t, d)
     /\ ~ InUse(s)
     /\ \A t \in 1 .. s - 1 : InUse(t)
  \/ /\ ~ \E t \in Slot : LinkTo(t, d)
     /\ \A t \in Slot : InUse(t)
     /\ \A t \in Slot : link_table[s].last_seen <= link_table[t].last_seen
     /\ \A t \in 1 .. s - 1 : link_table[s].last_seen < link_table[t].last_seen

(* the slot with the same destination, else the first free one, else the   *)
(* first of the oldest                                                     *)
PicksSlot(d, s) ==
  \/ LinkTo(s, d) /\ \A t \in 1 .. s - 1 : ~ LinkTo(t, d)
  \/ /\ ~ \E t \in Slot : LinkTo(t, d)
     /\ ~ InUse(s)
     /\ \A t \in 1 .. s - 1 : InUse(t)
  \/ /\ ~ \E t \in Slot : LinkTo(t, d)
     /\ \A t \in Slot : InUse(t)
     /\ \A t \in Slot : Age(t) <= Age(s)
     /\ \A t \in 1 .. s - 1 : Age(t) < Age(s)

Writes(s, entry) ==
  /\ link_table' = [link_table EXCEPT ![s] = entry]
  /\ heard' = [heard EXCEPT ![s] = uptime]

(* x25519_keypair returns a pair never seen before *)
Generates(k) ==
  /\ generated < MaxKeyPairs
  /\ k = generated + 1
  /\ generated' = k

-----------------------------------------------------------------------------
(* link_handshake_init: the slot is written whole, whatever it held *)
HandshakeInit(d) ==
  \E s \in Slot, k \in OwnKey :
    /\ PicksSlot(d, s)
    /\ Generates(k)
    /\ Writes(s, [status |-> "pending", dest |-> d, last_seen |-> Now,
                  ours |-> k, theirs |-> NoKey, link_id |-> NoLink,
                  keys |-> NoMaterial])
    /\ UNCHANGED <<link_session_scratch, uptime, derived, restarts>>

(* the established link the request asks for, as far as the code compares: *)
(* the Ed25519 key is not looked at                                        *)
Answered(r, s) ==
  /\ LinkTo(s, r.dest)
  /\ \A t \in 1 .. s - 1 : ~ LinkTo(t, r.dest)
  /\ link_table[s].status = "established"
  /\ link_table[s].theirs = r.x25519

(* link_handshake_accept of a request whose link is established *)
AcceptDuplicate(r) ==
  \E s \in Slot :
    /\ Answered(r, s)
    /\ Writes(s, [link_table[s] EXCEPT !.last_seen = Now])
    /\ UNCHANGED <<link_session_scratch, uptime, generated, derived, restarts>>

AcceptedFault(r, k, s) ==   \* keys derived before are kept
  [status |-> "established", dest |-> r.dest, last_seen |-> Now,
   ours |-> k, theirs |-> r.x25519, link_id |-> r,
   keys |-> IF link_table[s].keys # NoMaterial THEN link_table[s].keys
                                               ELSE [ours |-> k, link |-> r]]

Accepted(r, k, s) ==
  [status |-> "established", dest |-> r.dest, last_seen |-> Now,
   ours |-> k, theirs |-> r.x25519, link_id |-> r,
   keys |-> [ours |-> k, link |-> r]]

HandshakeAccept(r) ==
  /\ ~ \E s \in Slot : Answered(r, s)
  /\ \E s \in Slot, k \in OwnKey :
       /\ PicksSlot(r.dest, s)
       /\ Generates(k)
       /\ Writes(s, Accepted(r, k, s))
       /\ derived' = derived \cup {[ours |-> k, link |-> r]}
  /\ UNCHANGED <<link_session_scratch, uptime, restarts>>

-----------------------------------------------------------------------------
(* Text on a link *)

(* What may arrive: a token made with keys the node derived once, perhaps  *)
(* in an earlier session or before a restart, or with zeroes, under any    *)
(* link id.                                                                *)
Arriving == [link_id : Request \cup {NoLink}, keys : derived \cup {NoMaterial}]

FindsFault(token, s) == link_table[s].link_id = token.link_id   \* any slot

(* link_process_packet's scan stops at slot s *)
Finds(token, s) ==
  LET found(t) == /\ link_table[t].status = "established"
                  /\ link_table[t].link_id = token.link_id
  IN  found(s) /\ \A t \in 1 .. s - 1 : ~ found(t)

(* link_session_decrypt accepts the token: its HMAC is right *)
Opens(token) ==
  \E s \in Slot : Finds(token, s) /\ link_table[s].keys = token.keys

(* the plaintext is handed over in link_session_scratch; the link's        *)
(* last_seen is not refreshed                                              *)
Decrypt(token) ==
  /\ Opens(token)
  /\ link_session_scratch' = [by |-> "peer", keys |-> token.keys]
  /\ UNCHANGED <<link_table, uptime, history, restarts>>

Refuse ==
  /\ ~ \A token \in Arriving : Opens(token)
  /\ UNCHANGED vars

(* link_session_encrypt pads the plaintext in the same scratch buffer      *)
Encrypt(s) ==
  /\ link_table[s].status = "established"
  /\ link_session_scratch' = [by |-> "node", keys |-> link_table[s].keys]
  /\ UNCHANGED <<link_table, uptime, history, restarts>>

-----------------------------------------------------------------------------
Tick ==
  /\ uptime < MaxUptime
  /\ uptime' = uptime + 1
  /\ UNCHANGED <<link_table, link_session_scratch, history, restarts>>

Restart ==
  /\ restarts < MaxRestarts
  /\ restarts' = restarts + 1
  /\ link_table' = [s \in Slot |-> FreeEntry]
  /\ link_session_scratch' = NoText
  /\ uptime' = 0
  /\ heard' = [s \in Slot |-> 0]
  /\ UNCHANGED <<generated, derived>>

Next ==
  \/ \E d \in Dest : HandshakeInit(d)
  \/ \E r \in Request : AcceptDuplicate(r) \/ HandshakeAccept(r)
  \/ \E token \in Arriving : Decrypt(token)
  \/ Refuse
  \/ \E s \in Slot : Encrypt(s)
  \/ Tick
  \/ Restart

Spec == Init /\ [][Next]_vars
-----------------------------------------------------------------------------
TypeOK ==
  /\ link_table \in [Slot -> Entry]
  /\ link_session_scratch \in
       [by : {"nobody", "peer", "node"}, keys : Material \cup {NoMaterial}]
  /\ uptime \in 0 .. MaxUptime
  /\ generated \in 0 .. MaxKeyPairs
  /\ derived \subseteq Material
  /\ heard \in [Slot -> 0 .. MaxUptime]
  /\ restarts \in 0 .. MaxRestarts

(* A destination has one link: the scan for it looks past free slots, and  *)
(* gives up a slot only when there is none.                                *)
OneLinkPerDestination ==
  \A s, t \in Slot : InUse(s) /\ LinkTo(t, link_table[s].dest) => s = t

(* What an entry says of its link belongs together, however often its slot *)
(* was reused: the link id and the remote key are those of the request     *)
(* that was accepted for this destination, the keys were derived from them *)
(* and the entry's own key; a pending link has none of them.               *)
LinksAreWhole ==
  \A s \in Slot :
    LET entry == link_table[s]
    IN  /\ InUse(s) => entry.dest \in Dest
        /\ entry.status = "established" =>
             /\ entry.link_id \in Request
             /\ entry.link_id.dest = entry.dest
             /\ entry.link_id.x25519 = entry.theirs
             /\ entry.keys = [ours |-> entry.ours, link |-> entry.link_id]
             /\ entry.keys \in derived
        /\ entry.status = "pending" =>
             entry.link_id = NoLink /\ entry.keys = NoMaterial

(* Both at once, and every field in its range. *)
OneWholeLinkPerDestination == TypeOK /\ OneLinkPerDestination /\ LinksAreWhole

(* No established link is hidden by another slot: a token made with its    *)
(* keys is decrypted.                                                      *)
EveryLinkHears ==
  \A s \in Slot :
    link_table[s].status = "established" =>
      Opens([link_id |-> link_table[s].link_id, keys |-> link_table[s].keys])

(* A link is given up for another destination only when no slot is free,   *)
(* and then it is the one whose last handshake is longest ago, also when   *)
(* the clock has wrapped since, as long as no entry is older than a turn   *)
(* of the clock.                                                           *)
EvictsTheOldestHandshake ==
  [][\A s \in Slot :
       /\ InUse(s)
       /\ link_table'[s].dest \in Dest \ {link_table[s].dest}
       /\ \A t \in Slot : uptime - heard[t] < ClockModulus
       => \A t \in Slot : InUse(t) /\ heard[s] <= heard[t]]_vars

(* the session the table holds for a destination *)
SessionOf(d) ==
  IF \E s \in Slot : LinkTo(s, d)
    THEN LET s == CHOOSE t \in Slot : LinkTo(t, d)
         IN  [status |-> link_table[s].status, ours |-> link_table[s].ours,
              keys   |-> link_table[s].keys]
    ELSE [status |-> "none", ours |-> NoKey, keys |-> NoMaterial]

Held == [d \in Dest |-> SessionOf(d)]

Sessions == INSTANCE LinkSessions WITH
  session <- Held,
  text <- link_session_scratch,
  used <- 1 .. generated

(* The slots, the scans and the lookup by link id implement sessions: a    *)
(* repeated request keeps the keys, a new one replaces only its own        *)
(* destination's session unless the table is full, and no text of an       *)
(* earlier session, of a pending link or of zeroed keys gets through.      *)
IsLinkSessions == Sessions!Spec
=============================================================================
