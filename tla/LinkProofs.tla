------------------------------ MODULE LinkProofs ------------------------------
(***************************************************************************)
(* The link table, for any number of slots, destinations and keys, and for *)
(* any turn of the clock.                                                  *)
(***************************************************************************)
EXTENDS LinkContract, FiniteSetTheorems, WellFoundedInduction, TLAPS

USE DEF Slot, OwnKey

LInv == TypeOK /\ OneLinkPerDestination /\ LinksAreWhole

(* what a handshake for d, made with key pair k, may leave in its slot *)
Written(d, k, entry) ==
  /\ entry \in Entry
  /\ entry.dest = d
  /\ entry.last_seen = Now
  /\ entry.ours = k
  /\ entry.status # "free"
  /\ entry.status = "pending" =>
       entry.theirs = NoKey /\ entry.link_id = NoLink /\ entry.keys = NoMaterial
  /\ entry.status = "established" =>
       /\ entry.link_id \in Request /\ entry.link_id.dest = d
       /\ entry.link_id.x25519 = entry.theirs
       /\ entry.keys = [ours |-> k, link |-> entry.link_id]

LEMMA NowType ==
  ASSUME TypeOK
  PROVE  Now \in 0 .. ClockModulus - 1
BY LinkAssumption DEF TypeOK, Now

(* The slot a handshake picks is the only one its destination may have. *)
LEMMA PickedIsTheOnly ==
  ASSUME OneLinkPerDestination, NEW d \in Dest, NEW s \in Slot, PicksSlot(d, s)
  PROVE  \A t \in Slot : LinkTo(t, d) => t = s
BY DEF PicksSlot, OneLinkPerDestination, LinkTo

LEMMA PendingIsWritten ==
  ASSUME TypeOK, NEW d \in Dest, NEW k \in OwnKey
  PROVE  Written(d, k, [status |-> "pending", dest |-> d, last_seen |-> Now,
                        ours |-> k, theirs |-> NoKey, link_id |-> NoLink,
                        keys |-> NoMaterial])
BY NowType DEF Written, Entry

LEMMA AcceptedIsWritten ==
  ASSUME TypeOK, NEW r \in Request, NEW k \in OwnKey, NEW s \in Slot
  PROVE  Written(r.dest, k, Accepted(r, k, s))
BY NowType DEF Written, Entry, Accepted, Request, Material

(* A handshake keeps the invariant, whatever its slot held before. *)
LEMMA WritingKeepsLinks ==
  ASSUME LInv, NEW d \in Dest, NEW k \in OwnKey, NEW s \in Slot, NEW entry,
         PicksSlot(d, s), Written(d, k, entry), Writes(s, entry),
         derived \subseteq derived',
         entry.status = "established" => entry.keys \in derived'
  PROVE  /\ link_table' \in [Slot -> Entry]
         /\ heard' \in [Slot -> 0 .. MaxUptime]
         /\ OneLinkPerDestination'
         /\ LinksAreWhole'
<1>1. link_table' \in [Slot -> Entry] /\ heard' \in [Slot -> 0 .. MaxUptime]
  BY DEF LInv, TypeOK, Written, Writes
<1>2. \A t \in Slot : link_table'[t] = IF t = s THEN entry ELSE link_table[t]
  BY DEF LInv, TypeOK, Writes
<1>3. OneLinkPerDestination'
  <2>1. \A t \in Slot : LinkTo(t, d) => t = s
    BY PickedIsTheOnly DEF LInv
  <2>2. \A t \in Slot : LinkTo(t, d)' => t = s
    BY <1>2, <2>1 DEF LinkTo, InUse
  <2>3. entry.dest = d
    BY DEF Written
  <2> QED
    BY <1>2, <2>2, <2>3 DEF LInv, OneLinkPerDestination, LinkTo, InUse
<1>4. LinksAreWhole'
  BY <1>2 DEF LInv, LinksAreWhole, Written, InUse
<1> QED
  BY <1>1, <1>3, <1>4

(* Refreshing the time of an answered request disturbs nothing. *)
LEMMA RefreshingKeepsLinks ==
  ASSUME LInv, NEW s \in Slot, Writes(s, [link_table[s] EXCEPT !.last_seen = Now]),
         UNCHANGED derived
  PROVE  /\ link_table' \in [Slot -> Entry]
         /\ heard' \in [Slot -> 0 .. MaxUptime]
         /\ OneLinkPerDestination'
         /\ LinksAreWhole'
         /\ \A t \in Slot : /\ link_table'[t].status = link_table[t].status
                            /\ link_table'[t].dest = link_table[t].dest
                            /\ link_table'[t].ours = link_table[t].ours
                            /\ link_table'[t].keys = link_table[t].keys
<1>1. /\ link_table \in [Slot -> Entry]
      /\ uptime \in 0 .. MaxUptime
      /\ heard \in [Slot -> 0 .. MaxUptime]
      /\ Now \in 0 .. ClockModulus - 1
  BY NowType DEF LInv, TypeOK
<1>2. [link_table[s] EXCEPT !.last_seen = Now] \in Entry
  BY <1>1 DEF Entry
<1>3. link_table' \in [Slot -> Entry] /\ heard' \in [Slot -> 0 .. MaxUptime]
  BY <1>1, <1>2 DEF Writes
<1>4. \A t \in Slot : /\ link_table'[t].status = link_table[t].status
                      /\ link_table'[t].dest = link_table[t].dest
                      /\ link_table'[t].ours = link_table[t].ours
                      /\ link_table'[t].theirs = link_table[t].theirs
                      /\ link_table'[t].link_id = link_table[t].link_id
                      /\ link_table'[t].keys = link_table[t].keys
  BY <1>1 DEF Writes, Entry
<1>5. OneLinkPerDestination'
  BY <1>4 DEF LInv, OneLinkPerDestination, LinkTo, InUse
<1>6. LinksAreWhole'
  BY <1>4 DEF LInv, LinksAreWhole, InUse
<1> QED
  BY <1>3, <1>4, <1>5, <1>6

LEMMA InitInv == Init => LInv
<1> SUFFICES ASSUME Init PROVE LInv
  OBVIOUS
<1>1. FreeEntry \in Entry
  BY LinkAssumption DEF FreeEntry, Entry
<1>2. TypeOK
  BY <1>1, LinkAssumption DEF Init, TypeOK, NoText
<1>3. OneLinkPerDestination /\ LinksAreWhole
  BY DEF Init, OneLinkPerDestination, LinksAreWhole, InUse, LinkTo, FreeEntry
<1> QED
  BY <1>2, <1>3 DEF LInv

LEMMA NextInv == LInv /\ [Next]_vars => LInv'
<1> SUFFICES ASSUME LInv, [Next]_vars PROVE LInv'
  OBVIOUS
<1> USE LinkAssumption
<1>1. ASSUME NEW d \in Dest, HandshakeInit(d) PROVE LInv'
  <2>1. PICK s \in Slot, k \in OwnKey :
          /\ PicksSlot(d, s)
          /\ Generates(k)
          /\ Writes(s, [status |-> "pending", dest |-> d, last_seen |-> Now,
                        ours |-> k, theirs |-> NoKey, link_id |-> NoLink,
                        keys |-> NoMaterial])
          /\ UNCHANGED <<link_session_scratch, uptime, derived, restarts>>
    BY <1>1 DEF HandshakeInit
  <2>2. /\ link_table' \in [Slot -> Entry] /\ heard' \in [Slot -> 0 .. MaxUptime]
        /\ OneLinkPerDestination' /\ LinksAreWhole'
    BY <2>1, PendingIsWritten, WritingKeepsLinks DEF LInv
  <2> QED
    BY <2>1, <2>2 DEF LInv, TypeOK, Generates
<1>2. ASSUME NEW r \in Request, AcceptDuplicate(r) PROVE LInv'
  <2>1. PICK s \in Slot :
          /\ Writes(s, [link_table[s] EXCEPT !.last_seen = Now])
          /\ UNCHANGED <<link_session_scratch, uptime, generated, derived, restarts>>
    BY <1>2 DEF AcceptDuplicate
  <2> QED
    BY <2>1, RefreshingKeepsLinks DEF LInv, TypeOK
<1>3. ASSUME NEW r \in Request, HandshakeAccept(r) PROVE LInv'
  <2>1. PICK s \in Slot, k \in OwnKey :
          /\ PicksSlot(r.dest, s)
          /\ Generates(k)
          /\ Writes(s, Accepted(r, k, s))
          /\ derived' = derived \cup {[ours |-> k, link |-> r]}
    BY <1>3 DEF HandshakeAccept
  <2>2. r.dest \in Dest /\ Accepted(r, k, s).keys = [ours |-> k, link |-> r]
    BY DEF Request, Accepted
  <2>3. /\ link_table' \in [Slot -> Entry] /\ heard' \in [Slot -> 0 .. MaxUptime]
        /\ OneLinkPerDestination' /\ LinksAreWhole'
    <3>1. Written(r.dest, k, Accepted(r, k, s))
      BY AcceptedIsWritten DEF LInv
    <3> QED
      BY <2>1, <2>2, <3>1, WritingKeepsLinks
  <2>4. derived' \subseteq Material
    BY <2>1 DEF LInv, TypeOK, Material
  <2> QED
    BY <1>3, <2>1, <2>3, <2>4 DEF LInv, TypeOK, Generates, HandshakeAccept
<1>4. ASSUME NEW token \in Arriving, Decrypt(token) PROVE LInv'
  <2>1. token.keys \in Material \cup {NoMaterial}
    BY DEF Arriving, LInv, TypeOK
  <2> QED
    BY <1>4, <2>1 DEF Decrypt, history, LInv, TypeOK, OneLinkPerDestination,
                      LinksAreWhole, InUse, LinkTo
<1>5. CASE Refuse
  BY <1>5 DEF Refuse, vars, history, LInv, TypeOK, OneLinkPerDestination,
              LinksAreWhole, InUse, LinkTo
<1>6. ASSUME NEW s \in Slot, Encrypt(s) PROVE LInv'
  <2>1. link_table[s].keys \in Material \cup {NoMaterial}
    BY DEF LInv, TypeOK, Entry
  <2>2. UNCHANGED <<link_table, uptime, generated, derived, heard, restarts>>
    BY <1>6 DEF Encrypt, history
  <2>3. TypeOK'
    BY <1>6, <2>1, <2>2 DEF Encrypt, LInv, TypeOK
  <2> QED
    BY <2>2, <2>3 DEF LInv, OneLinkPerDestination, LinksAreWhole, InUse, LinkTo
<1>7. CASE Tick
  <2>1. UNCHANGED <<link_table, link_session_scratch, generated, derived, heard, restarts>>
    BY <1>7 DEF Tick, history
  <2>2. TypeOK'
    BY <1>7, <2>1, LinkAssumption DEF Tick, LInv, TypeOK
  <2> QED
    BY <2>1, <2>2 DEF LInv, OneLinkPerDestination, LinksAreWhole, InUse, LinkTo
<1>8. CASE Restart
  <2>1. FreeEntry \in Entry
    BY DEF FreeEntry, Entry
  <2>2. TypeOK'
    BY <1>8, <2>1 DEF Restart, LInv, TypeOK, NoText
  <2>3. OneLinkPerDestination' /\ LinksAreWhole'
    BY <1>8 DEF Restart, OneLinkPerDestination, LinksAreWhole, InUse, LinkTo, FreeEntry
  <2> QED
    BY <2>2, <2>3 DEF LInv
<1>9. CASE UNCHANGED vars
  BY <1>9 DEF vars, history, LInv, TypeOK, OneLinkPerDestination,
              LinksAreWhole, InUse, LinkTo
<1> QED
  BY <1>1, <1>2, <1>3, <1>4, <1>5, <1>6, <1>7, <1>8, <1>9 DEF Next

LEMMA LInvAlways == Spec => []LInv
BY InitInv, NextInv, PTL DEF Spec

(* The type invariant of the link table holds. *)
THEOREM LinkTypeCorrect == Spec => []TypeOK
BY LInvAlways, PTL DEF LInv

(* No sequence of handshakes gives a destination two slots. *)
THEOREM DestinationsHaveOneLink == Spec => []OneLinkPerDestination
BY LInvAlways, PTL DEF LInv

(* Reused slots keep nothing of the link they held before. *)
THEOREM LinksStayWhole == Spec => []LinksAreWhole
BY LInvAlways, PTL DEF LInv

(* The three together, as the run of the link table checks them. *)
THEOREM LinksStayOneAndWhole == Spec => []OneWholeLinkPerDestination
BY LInvAlways, PTL DEF LInv, OneWholeLinkPerDestination

(* The lookup by link id reaches every established link. *)
THEOREM EveryLinkIsReached == Spec => []EveryLinkHears
<1>1. LInv => EveryLinkHears
  <2> SUFFICES ASSUME LInv, NEW s \in Slot, link_table[s].status = "established"
               PROVE  Opens([link_id |-> link_table[s].link_id,
                             keys |-> link_table[s].keys])
    BY DEF EveryLinkHears
  <2>1. \A t \in Slot :
          link_table[t].status = "established"
          /\ link_table[t].link_id = link_table[s].link_id => t = s
    <3> SUFFICES ASSUME NEW t \in Slot, link_table[t].status = "established",
                        link_table[t].link_id = link_table[s].link_id
                 PROVE  t = s
      OBVIOUS
    <3>1. link_table[t].dest = link_table[s].dest
      BY DEF LInv, LinksAreWhole
    <3>2. InUse(s) /\ LinkTo(t, link_table[s].dest)
      BY <3>1 DEF InUse, LinkTo
    <3> QED
      BY <3>2 DEF LInv, OneLinkPerDestination
  <2> DEFINE token == [link_id |-> link_table[s].link_id, keys |-> link_table[s].keys]
  <2>2. token.link_id = link_table[s].link_id /\ token.keys = link_table[s].keys
    OBVIOUS
  <2> HIDE DEF token
  <2>3. \A t \in 1 .. s - 1 : t \in Slot /\ t # s
    BY LinkAssumption
  <2>4. Finds(token, s)
    BY <2>1, <2>2, <2>3 DEF Finds
  <2>5. Opens(token)
    BY <2>2, <2>4 DEF Opens
  <2> QED
    BY <2>5 DEF token
<1> QED
  BY <1>1, LInvAlways, PTL

-----------------------------------------------------------------------------
(* Eviction across a turn of the clock *)

Stamped ==
  \A s \in Slot : InUse(s) =>
    heard[s] <= uptime /\ link_table[s].last_seen = heard[s] % ClockModulus

(* The difference of two clock values, taken modulo the clock, is the time *)
(* between them when that is less than a turn.                             *)
LEMMA WrappedDifference ==
  ASSUME NEW m \in Nat \ {0}, NEW u \in Nat, NEW h \in Nat, h <= u, u - h < m
  PROVE  ((u % m) - (h % m)) % m = u - h
<1>1. PICK q \in Nat, r \in 0 .. m - 1 : u = q * m + r /\ u % m = r
  <2>1. u % m \in 0 .. m - 1 /\ u \div m \in Nat /\ u = (u \div m) * m + (u % m)
    OBVIOUS
  <2> QED
    BY <2>1
<1>2. PICK p \in Nat, v \in 0 .. m - 1 : h = p * m + v /\ h % m = v
  <2>1. h % m \in 0 .. m - 1 /\ h \div m \in Nat /\ h = (h \div m) * m + (h % m)
    OBVIOUS
  <2> QED
    BY <2>1
<1>3. q = p \/ q = p + 1
  <2>1. q * m - p * m > - m /\ q * m - p * m < 2 * m
    BY <1>1, <1>2
  <2>2. ASSUME q < p PROVE FALSE
    <3>1. PICK k \in Nat : p = q + 1 + k
      BY <2>2
    <3>2. p * m = q * m + m + k * m /\ k * m >= 0
      BY <3>1
    <3> QED
      BY <2>1, <3>2
  <2>3. ASSUME q > p + 1 PROVE FALSE
    <3>1. q - p - 2 \in Nat /\ q = p + 2 + (q - p - 2)
      BY <2>3
    <3>2. PICK k \in Nat : q = p + 2 + k
      BY <3>1
    <3>3. q * m = p * m + 2 * m + k * m /\ k * m >= 0
      BY <3>2
    <3> QED
      BY <2>1, <3>3
  <2> QED
    BY <2>2, <2>3
<1>4. CASE q = p
  <2>1. r - v = u - h /\ r - v \in 0 .. m - 1
    BY <1>1, <1>2, <1>4
  <2>2. \A x \in 0 .. m - 1 : x % m = x
    OBVIOUS
  <2> QED
    BY <1>1, <1>2, <2>1, <2>2
<1>5. CASE q = p + 1
  <2>1. r - v = u - h - m /\ u - h \in 0 .. m - 1
    BY <1>1, <1>2, <1>5
  <2>2. \A x \in 0 .. m - 1 : (x - m) % m = x
    OBVIOUS
  <2> QED
    BY <1>1, <1>2, <2>1, <2>2
<1> QED
  BY <1>3, <1>4, <1>5

LEMMA WritingStamps ==
  ASSUME TypeOK, Stamped, UNCHANGED uptime, NEW s \in Slot, NEW entry,
         Writes(s, entry), entry.last_seen = Now
  PROVE  Stamped'
<1>1. \A t \in Slot : t # s => /\ link_table'[t] = link_table[t]
                              /\ heard'[t] = heard[t]
  BY DEF Writes, TypeOK
<1>2. link_table'[s] = entry /\ heard'[s] = uptime /\ uptime \in Nat
  BY LinkAssumption DEF Writes, TypeOK
<1> QED
  BY <1>1, <1>2 DEF Stamped, InUse, Now

LEMMA NextStamped == LInv /\ Stamped /\ [Next]_vars => Stamped'
<1> SUFFICES ASSUME LInv, Stamped, [Next]_vars PROVE Stamped'
  OBVIOUS
<1>1. ASSUME NEW d \in Dest, HandshakeInit(d) PROVE Stamped'
  BY <1>1, WritingStamps DEF HandshakeInit, LInv
<1>2. ASSUME NEW r \in Request, AcceptDuplicate(r) PROVE Stamped'
  <2>1. PICK s \in Slot :
          Writes(s, [link_table[s] EXCEPT !.last_seen = Now]) /\ UNCHANGED uptime
    BY <1>2 DEF AcceptDuplicate
  <2>2. [link_table[s] EXCEPT !.last_seen = Now].last_seen = Now
    BY DEF LInv, TypeOK, Entry
  <2> QED
    BY <2>1, <2>2, WritingStamps DEF LInv
<1>3. ASSUME NEW r \in Request, HandshakeAccept(r) PROVE Stamped'
  BY <1>3, WritingStamps DEF HandshakeAccept, LInv, Accepted
<1>4. CASE Restart
  BY <1>4 DEF Restart, Stamped, InUse, FreeEntry
<1>5. CASE Tick
  <2>1. uptime \in Nat /\ \A s \in Slot : heard[s] \in Nat
    BY LinkAssumption DEF LInv, TypeOK
  <2>2. uptime' = uptime + 1 /\ UNCHANGED <<link_table, heard>>
    BY <1>5 DEF Tick, history
  <2> QED
    BY <2>1, <2>2 DEF Stamped, InUse
<1>6. CASE UNCHANGED <<link_table, uptime, heard>>
  BY <1>6 DEF Stamped, InUse
<1> QED
  BY <1>1, <1>2, <1>3, <1>4, <1>5, <1>6
     DEF Next, Decrypt, Refuse, Encrypt, vars, history

(* A destination loses its link to another one only in a full table, and   *)
(* then it is the one whose last handshake is longest ago.                 *)
THEOREM TheOldestHandshakeGoes == Spec => EvictsTheOldestHandshake
<1> DEFINE Lost(s) == /\ InUse(s)
                      /\ link_table'[s].dest \in Dest \ {link_table[s].dest}
           Recent == \A t \in Slot : uptime - heard[t] < ClockModulus
           Oldest(s) == \A t \in Slot : InUse(t) /\ heard[s] <= heard[t]
<1>1. ASSUME LInv, Stamped, Recent, NEW d \in Dest, NEW s \in Slot, PicksSlot(d, s),
             InUse(s), link_table[s].dest # d
      PROVE  Oldest(s)
  <2>1. \A t \in Slot : InUse(t) /\ Age(t) <= Age(s)
    BY <1>1 DEF PicksSlot, LinkTo
  <2>2. \A t \in Slot : Age(t) = uptime - heard[t]
    <3> SUFFICES ASSUME NEW t \in Slot PROVE Age(t) = uptime - heard[t]
      OBVIOUS
    <3>1. /\ heard[t] <= uptime /\ link_table[t].last_seen = heard[t] % ClockModulus
          /\ heard[t] \in Nat /\ uptime \in Nat /\ ClockModulus \in Nat \ {0}
      BY <1>1, <2>1, LinkAssumption DEF Stamped, LInv, TypeOK
    <3>2. uptime - heard[t] < ClockModulus
      BY <1>1
    <3>3. ((uptime % ClockModulus) - (heard[t] % ClockModulus)) % ClockModulus
            = uptime - heard[t]
      BY <3>1, <3>2, WrappedDifference
    <3> QED
      BY <3>1, <3>3 DEF Age, Now
  <2>3. uptime \in Nat /\ \A t \in Slot : heard[t] \in Nat
    BY <1>1, LinkAssumption DEF LInv, TypeOK
  <2> QED
    BY <2>1, <2>2, <2>3
<1>2. ASSUME LInv, Stamped, [Next]_vars, Recent, NEW s \in Slot, Lost(s)
      PROVE  Oldest(s)
  <2>1. ASSUME NEW d \in Dest, HandshakeInit(d) PROVE Oldest(s)
    <3>1. PICK t \in Slot : /\ PicksSlot(d, t)
                             /\ \E entry : Writes(t, entry) /\ entry.dest = d
      BY <2>1 DEF HandshakeInit
    <3>2. t = s /\ link_table[s].dest # d
      BY <1>2, <3>1 DEF Writes, LInv, TypeOK
    <3> QED
      BY <1>1, <1>2, <3>1, <3>2
  <2>2. ASSUME NEW r \in Request, HandshakeAccept(r) PROVE Oldest(s)
    <3>1. PICK t \in Slot : /\ PicksSlot(r.dest, t)
                             /\ \E entry : Writes(t, entry) /\ entry.dest = r.dest
      BY <2>2 DEF HandshakeAccept, Accepted
    <3>2. t = s /\ link_table[s].dest # r.dest /\ r.dest \in Dest
      BY <1>2, <3>1 DEF Writes, LInv, TypeOK, Request
    <3> QED
      BY <1>1, <1>2, <3>1, <3>2
  <2>3. ASSUME NEW r \in Request, AcceptDuplicate(r) PROVE FALSE
    <3>1. link_table'[s].dest = link_table[s].dest
      BY <2>3, <1>2, RefreshingKeepsLinks DEF AcceptDuplicate
    <3> QED
      BY <1>2, <3>1
  <2>4. CASE Restart
    BY <1>2, <2>4, LinkAssumption DEF Restart, FreeEntry
  <2>5. CASE UNCHANGED link_table
    BY <1>2, <2>5
  <2> QED
    BY <1>2, <2>1, <2>2, <2>3, <2>4, <2>5
       DEF Next, Decrypt, Refuse, Encrypt, Tick, vars
<1>3. LInv /\ Stamped /\ [Next]_vars
        => [\A s \in Slot : Lost(s) /\ Recent => Oldest(s)]_vars
  BY <1>2
<1>4. Init => Stamped
  BY DEF Init, Stamped, InUse, FreeEntry
<1>5. LInv /\ Stamped /\ [Next]_vars =>
        [\A s \in Slot :
           /\ InUse(s)
           /\ link_table'[s].dest \in Dest \ {link_table[s].dest}
           /\ \A t \in Slot : uptime - heard[t] < ClockModulus
           => \A t \in Slot : InUse(t) /\ heard[s] <= heard[t]]_vars
  BY <1>3
<1> QED
  BY <1>4, <1>5, InitInv, NextInv, NextStamped, PTL DEF Spec, EvictsTheOldestHandshake

-----------------------------------------------------------------------------
(* The table implements sessions *)

NoSession == [status |-> "none", ours |-> NoKey, keys |-> NoMaterial]

SessionIn(s) ==
  [status |-> link_table[s].status, ours |-> link_table[s].ours,
   keys   |-> link_table[s].keys]

LEMMA HeldSession ==
  ASSUME OneLinkPerDestination, NEW d \in Dest
  PROVE  /\ \A s \in Slot : LinkTo(s, d) => SessionOf(d) = SessionIn(s)
         /\ (\A s \in Slot : ~ LinkTo(s, d)) => SessionOf(d) = NoSession
<1>1. ASSUME NEW s \in Slot, LinkTo(s, d) PROVE SessionOf(d) = SessionIn(s)
  <2>1. \A t \in Slot : LinkTo(t, d) => t = s
    BY <1>1 DEF OneLinkPerDestination, LinkTo
  <2>2. (CHOOSE t \in Slot : LinkTo(t, d)) = s
    BY <1>1, <2>1
  <2> QED
    BY <1>1, <2>2 DEF SessionOf, SessionIn
<1>2. ASSUME \A s \in Slot : ~ LinkTo(s, d) PROVE SessionOf(d) = NoSession
  BY <1>2 DEF SessionOf, NoSession
<1> QED
  BY <1>1, <1>2

LEMMA HeldSessionNext ==
  ASSUME OneLinkPerDestination', NEW d \in Dest, NEW s \in Slot, LinkTo(s, d)'
  PROVE  SessionOf(d)' = SessionIn(s)'
<1>1. \A t \in Slot : LinkTo(t, d)' => t = s
  BY DEF OneLinkPerDestination, LinkTo
<1>2. (CHOOSE t \in Slot : LinkTo(t, d)') = s
  BY <1>1
<1> QED
  BY <1>2 DEF SessionOf, SessionIn

(* What a destination holds depends on the slots of that destination only. *)
LEMMA OtherSessionsStay ==
  ASSUME OneLinkPerDestination, OneLinkPerDestination', NEW c \in Dest,
         \A t \in Slot : /\ LinkTo(t, c)' <=> LinkTo(t, c)
                         /\ LinkTo(t, c) => SessionIn(t)' = SessionIn(t)
  PROVE  SessionOf(c)' = SessionOf(c)
<1>1. CASE \E t \in Slot : LinkTo(t, c)
  <2>1. PICK t \in Slot : LinkTo(t, c)
    BY <1>1
  <2>2. SessionOf(c) = SessionIn(t)
    BY <2>1, HeldSession
  <2>3. LinkTo(t, c)' /\ SessionIn(t)' = SessionIn(t)
    BY <2>1
  <2>4. SessionOf(c)' = SessionIn(t)'
    BY <2>3, HeldSessionNext
  <2> QED
    BY <2>2, <2>3, <2>4
<1>2. CASE \A t \in Slot : ~ LinkTo(t, c)
  <2>1. \A t \in Slot : ~ LinkTo(t, c)'
    BY <1>2
  <2>2. SessionOf(c)' = NoSession
    BY <2>1 DEF SessionOf, NoSession
  <2>3. SessionOf(c) = NoSession
    BY <1>2 DEF SessionOf, NoSession
  <2> QED
    BY <2>2, <2>3
<1> QED
  BY <1>1, <1>2

LEMMA LiveInTable ==
  ASSUME LInv
  PROVE  Sessions!Live = {d \in Dest : \E s \in Slot : LinkTo(s, d)}
<1> SUFFICES ASSUME NEW d \in Dest
             PROVE  SessionOf(d).status # "none" <=> \E s \in Slot : LinkTo(s, d)
  BY DEF Sessions!Live, Held
<1>1. ASSUME NEW s \in Slot, LinkTo(s, d) PROVE SessionOf(d).status # "none"
  <2>1. SessionOf(d) = SessionIn(s)
    BY <1>1, HeldSession DEF LInv
  <2> QED
    BY <2>1 DEF SessionIn, LInv, TypeOK, Entry
<1>2. ASSUME \A s \in Slot : ~ LinkTo(s, d) PROVE SessionOf(d).status = "none"
  BY <1>2 DEF SessionOf
<1> QED
  BY <1>1, <1>2

(* A full table holds as many sessions as it has slots. *)
LEMMA FullTable ==
  ASSUME LInv, \A s \in Slot : InUse(s)
  PROVE  Sessions!Full
<1> DEFINE place == [s \in Slot |-> link_table[s].dest]
<1>1. \A s \in Slot : link_table[s].dest \in Dest /\ LinkTo(s, link_table[s].dest)
  BY DEF LInv, LinksAreWhole, LinkTo
<1>2. place \in [Slot -> Sessions!Live]
  BY <1>1, LiveInTable
<1>3. \A s, t \in Slot : place[s] = place[t] => s = t
  BY <1>1 DEF LInv, OneLinkPerDestination, LinkTo
<1> HIDE DEF place
<1> QED
  BY <1>2, <1>3 DEF Sessions!Full

(* A handshake begins a session. *)
LEMMA WritingBegins ==
  ASSUME LInv, LInv', NEW d \in Dest, NEW k \in OwnKey, NEW s \in Slot, NEW entry,
         PicksSlot(d, s), Written(d, k, entry), Writes(s, entry), Generates(k),
         UNCHANGED link_session_scratch
  PROVE  Sessions!Begin(d, [status |-> entry.status, ours |-> k, keys |-> entry.keys])
<1> DEFINE new == [status |-> entry.status, ours |-> k, keys |-> entry.keys]
<1>1. \A t \in Slot : link_table'[t] = IF t = s THEN entry ELSE link_table[t]
  BY DEF LInv, TypeOK, Writes
<1>2. entry.dest = d /\ entry.status # "free" /\ entry.ours = k
  BY DEF Written
<1>3. SessionOf(d)' = new
  <2>1. LinkTo(s, d)'
    BY <1>1, <1>2 DEF LinkTo, InUse
  <2>2. SessionOf(d)' = SessionIn(s)'
    BY <2>1, HeldSessionNext DEF LInv
  <2> QED
    BY <1>1, <1>2, <2>2 DEF SessionIn
<1>4. ASSUME NEW c \in Dest, c # d, ~ LinkTo(s, c) PROVE SessionOf(c)' = SessionOf(c)
  <2>1. \A t \in Slot : /\ LinkTo(t, c)' <=> LinkTo(t, c)
                        /\ LinkTo(t, c) => SessionIn(t)' = SessionIn(t)
    BY <1>1, <1>2, <1>4 DEF LinkTo, InUse, SessionIn
  <2> QED
    BY <1>4, <2>1, OtherSessionsStay DEF LInv
<1>5. k \in OwnKey \ (1 .. generated) /\ (1 .. generated)' = (1 .. generated) \cup {k}
  <2>1. generated \in Nat /\ k = generated + 1 /\ generated' = generated + 1
    BY LinkAssumption DEF Generates, LInv, TypeOK
  <2>2. 1 .. generated + 1 = (1 .. generated) \cup {generated + 1}
    BY <2>1
  <2>3. k \notin 1 .. generated
    BY <2>1
  <2> QED
    BY <2>1, <2>2, <2>3
<1>6. CASE ~ InUse(s) \/ link_table[s].dest = d
  <2>1. \A c \in Dest : c # d => ~ LinkTo(s, c)
    BY <1>6 DEF LinkTo
  <2>2. Held' = [Held EXCEPT ![d] = new]
    BY <1>3, <1>4, <2>1 DEF Held
  <2> QED
    BY <1>5, <2>2 DEF Sessions!Begin
<1>7. CASE InUse(s) /\ link_table[s].dest # d
  <2> PICK old \in Dest : old = link_table[s].dest
    BY <1>7 DEF LInv, LinksAreWhole
  <2>1. (\A t \in Slot : ~ LinkTo(t, d)) /\ \A t \in Slot : InUse(t)
    BY <1>7 DEF PicksSlot, LinkTo
  <2>2. old \in Dest /\ LinkTo(s, old) /\ \A t \in Slot : LinkTo(t, old) => t = s
    BY <1>7 DEF LInv, LinksAreWhole, OneLinkPerDestination, LinkTo
  <2>3. SessionOf(old)' = NoSession
    <3>1. \A t \in Slot : ~ LinkTo(t, old)'
      BY <1>1, <1>2, <1>7, <2>2 DEF LinkTo, InUse
    <3> QED
      BY <3>1 DEF SessionOf, NoSession
  <2>4. \A c \in Dest : c # old => ~ LinkTo(s, c)
    BY DEF LinkTo
  <2>5. Held' = [Held EXCEPT ![d] = new, ![old] = NoSession]
    BY <1>3, <1>4, <1>7, <2>2, <2>3, <2>4 DEF Held
  <2>6. old \in Sessions!Live /\ d \notin Sessions!Live
    BY <2>1, <2>2, LiveInTable
  <2>7. Sessions!Full
    BY <2>1, FullTable
  <2>8. Sessions!NoSession = NoSession
    BY DEF Sessions!NoSession, Sessions!NoMaterial, NoSession, NoMaterial
  <2>9. \E e \in Sessions!Live :
          /\ d \notin Sessions!Live
          /\ Sessions!Full
          /\ Held' = [Held EXCEPT ![d] = new, ![e] = Sessions!NoSession]
    BY <2>5, <2>6, <2>7, <2>8
  <2>10. new.ours = k
    OBVIOUS
  <2> HIDE DEF new
  <2>11. Sessions!Begin(d, new)
    BY <1>5, <2>9, <2>10 DEF Sessions!Begin
  <2> QED
    BY <2>11 DEF new
<1> QED
  BY <1>6, <1>7

(* Text is taken from, or put on, the session in force. *)
LEMMA TalkingOnTheSession ==
  ASSUME LInv, NEW s \in Slot, NEW who, link_table[s].status = "established",
         link_session_scratch' = [by |-> who, keys |-> link_table[s].keys],
         UNCHANGED <<link_table, generated>>
  PROVE  \E d \in Dest : Sessions!Talk(d, who)
<1> DEFINE d == link_table[s].dest
<1>1. d \in Dest /\ LinkTo(s, d)
  BY DEF LInv, LinksAreWhole, LinkTo, InUse
<1>2. Held[d] = SessionIn(s)
  BY <1>1, HeldSession DEF LInv, Held
<1>3. UNCHANGED Held
  BY DEF Held, SessionOf, LinkTo, InUse
<1>4. Sessions!Talk(d, who)
  BY <1>2, <1>3 DEF Sessions!Talk, SessionIn
<1> QED
  BY <1>1, <1>4

LEMMA SameSessions ==
  ASSUME UNCHANGED <<link_table, link_session_scratch, generated>>
  PROVE  UNCHANGED Sessions!vars
BY DEF Sessions!vars, Held, SessionOf, LinkTo, InUse

LEMMA EmptyTableHoldsNothing ==
  ASSUME \A s \in Slot : link_table[s] = FreeEntry
  PROVE  Held = [d \in Dest |-> Sessions!NoSession]
BY DEF Held, SessionOf, LinkTo, InUse, FreeEntry, Sessions!NoSession,
       Sessions!NoMaterial, NoMaterial

(* Every step of the link table is a step of LinkSessions or leaves the    *)
(* sessions as they were.                                                  *)
LEMMA NextImplementsSessions ==
  ASSUME LInv, LInv', [Next]_vars
  PROVE  [Sessions!Next]_(Sessions!vars)
<1>1. ASSUME NEW d \in Dest, HandshakeInit(d) PROVE Sessions!Next
  <2> DEFINE entry(k) == [status |-> "pending", dest |-> d, last_seen |-> Now,
                          ours |-> k, theirs |-> NoKey, link_id |-> NoLink,
                          keys |-> NoMaterial]
  <2>1. PICK s \in Slot, k \in OwnKey :
          PicksSlot(d, s) /\ Generates(k) /\ Writes(s, entry(k))
          /\ UNCHANGED link_session_scratch
    BY <1>1 DEF HandshakeInit
  <2>2. Written(d, k, entry(k))
    BY PendingIsWritten DEF LInv
  <2>3. Sessions!Begin(d, [status |-> "pending", ours |-> k, keys |-> NoMaterial])
    BY <2>1, <2>2, WritingBegins
  <2> QED
    BY <2>3 DEF Sessions!Next, Sessions!Open, Sessions!NoMaterial, NoMaterial
<1>2. ASSUME NEW r \in Request, AcceptDuplicate(r) PROVE UNCHANGED Sessions!vars
  <2>1. PICK s \in Slot :
          Writes(s, [link_table[s] EXCEPT !.last_seen = Now])
          /\ UNCHANGED <<link_session_scratch, generated, derived>>
    BY <1>2 DEF AcceptDuplicate
  <2>2. \A t \in Slot : /\ link_table'[t].status = link_table[t].status
                        /\ link_table'[t].dest = link_table[t].dest
                        /\ link_table'[t].ours = link_table[t].ours
                        /\ link_table'[t].keys = link_table[t].keys
    BY <2>1, RefreshingKeepsLinks
  <2>3. ASSUME NEW c \in Dest PROVE SessionOf(c)' = SessionOf(c)
    <3>1. \A t \in Slot : /\ LinkTo(t, c)' <=> LinkTo(t, c)
                          /\ LinkTo(t, c) => SessionIn(t)' = SessionIn(t)
      BY <2>2 DEF LinkTo, InUse, SessionIn
    <3> QED
      BY <3>1, OtherSessionsStay DEF LInv
  <2> QED
    BY <2>1, <2>3 DEF Sessions!vars, Held
<1>3. ASSUME NEW r \in Request, HandshakeAccept(r) PROVE Sessions!Next
  <2>1. PICK s \in Slot, k \in OwnKey :
          PicksSlot(r.dest, s) /\ Generates(k) /\ Writes(s, Accepted(r, k, s))
    BY <1>3 DEF HandshakeAccept
  <2>2. r.dest \in Dest /\ UNCHANGED link_session_scratch
    BY <1>3 DEF HandshakeAccept, Request
  <2>3. Written(r.dest, k, Accepted(r, k, s))
    BY AcceptedIsWritten DEF LInv
  <2>4. Sessions!Begin(r.dest, [status |-> "established", ours |-> k,
                                keys |-> [ours |-> k, link |-> r]])
    <3>1. Accepted(r, k, s).status = "established"
          /\ Accepted(r, k, s).keys = [ours |-> k, link |-> r]
      BY DEF Accepted
    <3>2. Sessions!Begin(r.dest, [status |-> Accepted(r, k, s).status, ours |-> k,
                                  keys |-> Accepted(r, k, s).keys])
      BY <2>1, <2>2, <2>3, WritingBegins
    <3> QED
      BY <3>1, <3>2
  <2>5. Held[r.dest].status = "established" => Held[r.dest].keys.link.x25519 # r.x25519
    <3> SUFFICES ASSUME SessionOf(r.dest).status = "established"
                 PROVE  SessionOf(r.dest).keys.link.x25519 # r.x25519
      BY <2>2 DEF Held
    <3>1. PICK t \in Slot : LinkTo(t, r.dest)
      BY <2>2, HeldSession DEF LInv, NoSession
    <3>2. SessionOf(r.dest) = SessionIn(t)
      BY <2>2, <3>1, HeldSession DEF LInv
    <3>3. link_table[t].status = "established"
      BY <3>2 DEF SessionIn
    <3>4. link_table[t].keys.link.x25519 = link_table[t].theirs
      <4>1. /\ link_table[t].link_id.x25519 = link_table[t].theirs
            /\ link_table[t].keys
                 = [ours |-> link_table[t].ours, link |-> link_table[t].link_id]
        BY <3>3 DEF LInv, LinksAreWhole
      <4>2. link_table[t].keys.link = link_table[t].link_id
        BY <4>1
      <4> QED
        BY <4>1, <4>2
    <3>5. \A u \in 1 .. t - 1 : u \in Slot /\ u # t
      BY LinkAssumption
    <3>6. \A u \in 1 .. t - 1 : ~ LinkTo(u, r.dest)
      BY <3>1, <3>5 DEF LInv, OneLinkPerDestination, LinkTo
    <3>7. link_table[t].theirs # r.x25519
      BY <1>3, <3>1, <3>3, <3>6 DEF HandshakeAccept, Answered
    <3> QED
      BY <3>2, <3>4, <3>7 DEF SessionIn
  <2>6. Sessions!Answer(r)
    BY <2>4, <2>5 DEF Sessions!Answer
  <2> QED
    BY <2>6 DEF Sessions!Next, Sessions!Request, Request
<1>4. ASSUME NEW token \in Arriving, Decrypt(token) PROVE Sessions!Next
  <2>1. PICK s \in Slot : Finds(token, s) /\ link_table[s].keys = token.keys
    BY <1>4 DEF Decrypt, Opens
  <2>2. link_table[s].status = "established"
    BY <2>1 DEF Finds
  <2>3. \E d \in Dest : Sessions!Talk(d, "peer")
    BY <1>4, <2>1, <2>2, TalkingOnTheSession DEF Decrypt, history
  <2> QED
    BY <2>3 DEF Sessions!Next
<1>5. ASSUME NEW s \in Slot, Encrypt(s) PROVE Sessions!Next
  <2>1. \E d \in Dest : Sessions!Talk(d, "node")
    BY <1>5, TalkingOnTheSession DEF Encrypt, history
  <2> QED
    BY <2>1 DEF Sessions!Next
<1>6. CASE Restart
  <2>1. \A s \in Slot : link_table'[s] = FreeEntry
    BY <1>6 DEF Restart
  <2>2. Held' = [d \in Dest |-> Sessions!NoSession]
    BY <2>1 DEF Held, SessionOf, LinkTo, InUse, FreeEntry, Sessions!NoSession,
                Sessions!NoMaterial, NoMaterial
  <2>3. Sessions!Restart
    BY <1>6, <2>2 DEF Restart, Sessions!Restart, Sessions!NoText, NoText,
                      Sessions!NoMaterial, NoMaterial
  <2> QED
    BY <2>3 DEF Sessions!Next
<1>7. CASE Refuse \/ Tick \/ UNCHANGED vars
  BY <1>7, SameSessions DEF Refuse, Tick, vars, history
<1> QED
  BY <1>1, <1>2, <1>3, <1>4, <1>5, <1>6, <1>7 DEF Next

(* The slots, the scans and the lookup by link id implement one session    *)
(* per destination.                                                        *)
THEOREM LinkTableImplementsSessions == Spec => IsLinkSessions
<1>1. Init => Sessions!Init
  <2> SUFFICES ASSUME Init PROVE Sessions!Init
    OBVIOUS
  <2>1. Held = [d \in Dest |-> Sessions!NoSession]
    BY EmptyTableHoldsNothing DEF Init
  <2>2. 1 .. generated = {}
    BY DEF Init
  <2> QED
    BY <2>1, <2>2 DEF Init, Sessions!Init, Sessions!NoText, NoText,
                      Sessions!NoMaterial, NoMaterial
<1>2. LInv /\ LInv' /\ [Next]_vars => [Sessions!Next]_(Sessions!vars)
  BY NextImplementsSessions
<1> QED
  BY <1>1, <1>2, InitInv, NextInv, PTL DEF Spec, IsLinkSessions, Sessions!Spec
-----------------------------------------------------------------------------
(* The reference models.  Intervals that begin at zero are well-founded    *)
(* under inclusion, so a set of numbers has a least one ...                *)
LEMMA LeastNumber ==
  ASSUME NEW S \in SUBSET Nat, S # {}
  PROVE  \E x \in S : \A y \in S : x <= y
<1> DEFINE R == StrictSubsetOrdering(Nat)
           Below == {0 .. x : x \in S}
<1>1. IsWellFoundedOn(R, FiniteSubsetsOf(Nat))
  BY FS_StrictSubsetOrderingWellFounded
<1>2. Below \subseteq FiniteSubsetsOf(Nat)
  <2>1. \A x \in S : IsFiniteSet(0 .. x)
    BY FS_Interval
  <2> QED BY <2>1 DEF FiniteSubsetsOf
<1>6. Below # {}
  OBVIOUS
<1>3. \E I \in Below : \A J \in Below : ~ (<<J, I>> \in R)
  <2> HIDE DEF R, Below
  <2> QED BY <1>1, <1>2, <1>6, WFMin
<1>4. PICK x \in S : \A y \in S : ~ (<<0 .. y, 0 .. x>> \in R)
  BY <1>3
<1>5. ASSUME NEW y \in S, y < x
      PROVE  FALSE
  <2>1. x \in 0 .. x /\ x \notin 0 .. y /\ 0 .. y \subseteq 0 .. x /\ 0 .. y \subseteq Nat
        /\ 0 .. x \subseteq Nat
    BY <1>5
  <2>2. <<0 .. y, 0 .. x>> \in R
    BY <2>1 DEF StrictSubsetOrdering
  <2> QED BY <1>4, <2>2
<1> QED BY <1>4, <1>5

(* ... and induction over numbers holds for every set of them. *)
LEMMA NatSetInduction ==
  ASSUME NEW S, 0 \in S, \A k \in Nat : k \in S => k + 1 \in S
  PROVE  Nat \subseteq S
<1> SUFFICES ASSUME ~ Nat \subseteq S
             PROVE  FALSE
  OBVIOUS
<1>1. PICK x \in Nat \ S : \A y \in Nat \ S : x <= y
  <2> DEFINE T == Nat \ S
  <2>1. T \in SUBSET Nat /\ T # {}
    OBVIOUS
  <2> HIDE DEF T
  <2>2. \E x \in T : \A y \in T : x <= y
    BY <2>1, LeastNumber
  <2> QED BY <2>2 DEF T
<1>2. x # 0 /\ x - 1 \in Nat
  BY <1>1
<1>3. x - 1 \in S
  BY <1>1, <1>2
<1>4. x - 1 + 1 = x
  BY <1>1
<1> QED BY <1>1, <1>2, <1>3, <1>4

(* the function that holds what the walk has seen after each of n entries *)
IsWalk(F, table, dest, now, modulus, n) ==
  F = [i \in 0 .. n |->
         IF i = 0 THEN NothingSeen ELSE SeenWith(table, dest, now, modulus, i, F[i - 1])]

LEMMA WalkExists ==
  ASSUME NEW table, NEW dest, NEW now, NEW modulus, Len(table) \in Nat
  PROVE  \E F : /\ IsWalk(F, table, dest, now, modulus, Len(table))
                /\ Walk(table, dest, now, modulus) = F[Len(table)]
<1> DEFINE Built == {n \in Nat : \E F : IsWalk(F, table, dest, now, modulus, n)}
           Turn(i, before) == SeenWith(table, dest, now, modulus, i, before)
<1>1. 0 \in Built
  <2>1. IsWalk([i \in 0 .. 0 |-> NothingSeen], table, dest, now, modulus, 0)
    BY DEF IsWalk
  <2> QED BY <2>1
<1>2. ASSUME NEW n \in Nat, n \in Built
      PROVE  n + 1 \in Built
  <2>1. PICK F : IsWalk(F, table, dest, now, modulus, n)
    BY <1>2
  <2>2. \A i \in 0 .. n : F[i] = IF i = 0 THEN NothingSeen ELSE Turn(i, F[i - 1])
    BY <2>1 DEF IsWalk
  <2> DEFINE G == [i \in 0 .. n + 1 |-> IF i <= n THEN F[i] ELSE Turn(i, F[i - 1])]
  <2>3. \A i \in 0 .. n + 1 : G[i] = IF i = 0 THEN NothingSeen ELSE Turn(i, G[i - 1])
    <3> SUFFICES ASSUME NEW i \in 0 .. n + 1
                 PROVE  G[i] = IF i = 0 THEN NothingSeen ELSE Turn(i, G[i - 1])
      OBVIOUS
    <3> HIDE DEF Turn
    <3>1. CASE i <= n
      <4>1. G[i] = F[i]
        BY <3>1
      <4>2. i # 0 => G[i - 1] = F[i - 1]
        BY <3>1
      <4> HIDE DEF G
      <4> QED BY <2>2, <3>1, <4>1, <4>2
    <3>2. CASE i = n + 1
      <4>1. G[i] = Turn(i, F[i - 1])
        BY <3>2
      <4>2. G[i - 1] = F[i - 1] /\ i # 0
        BY <3>2
      <4> HIDE DEF G
      <4> QED BY <3>2, <4>1, <4>2
    <3> QED BY <3>1, <3>2
  <2>4. IsWalk(G, table, dest, now, modulus, n + 1)
    BY <2>3 DEF IsWalk
  <2> HIDE DEF G
  <2> QED BY <2>4
<1>3. Nat \subseteq Built
  <2> HIDE DEF Built
  <2> QED BY <1>1, <1>2, NatSetInduction
<1>5. \E F : IsWalk(F, table, dest, now, modulus, Len(table))
  BY <1>3
<1> DEFINE C == CHOOSE F : IsWalk(F, table, dest, now, modulus, Len(table))
<1>6. IsWalk(C, table, dest, now, modulus, Len(table))
  BY <1>5
<1>7. Walk(table, dest, now, modulus) = C[Len(table)]
  BY DEF Walk, IsWalk
<1> QED BY <1>6, <1>7

(* What the walk knows after n entries: the first entry of the             *)
(* destination if there is one, and otherwise the first free entry and the *)
(* first of the oldest among those in use.                                 *)
Knows(d, n, w) ==
  /\ w.same \in 0 .. n /\ w.first_invalid \in 0 .. n /\ w.oldest \in 0 .. n
  /\ w.oldest_age \in Int
  /\ w.same # 0 => LinkTo(w.same, d) /\ \A t \in 1 .. w.same - 1 : ~ LinkTo(t, d)
  /\ w.same = 0 =>
       /\ \A t \in 1 .. n : ~ LinkTo(t, d)
       /\ w.first_invalid = 0 => \A t \in 1 .. n : InUse(t)
       /\ w.first_invalid # 0 => /\ ~ InUse(w.first_invalid)
                                 /\ \A t \in 1 .. w.first_invalid - 1 : InUse(t)
       /\ w.oldest = 0 => w.oldest_age = -1 /\ \A t \in 1 .. n : ~ InUse(t)
       /\ w.oldest # 0 =>
            /\ InUse(w.oldest) /\ w.oldest_age = Age(w.oldest)
            /\ \A t \in 1 .. n : InUse(t) => Age(t) <= Age(w.oldest)
            /\ \A t \in 1 .. w.oldest - 1 : InUse(t) => Age(t) < Age(w.oldest)

WalkRecord ==
  [same : Nat, first_invalid : Nat, oldest : Nat, oldest_age : Int]

LEMMA ScannedTable ==
  ASSUME TypeOK
  PROVE  /\ Len(Scanned) = Capacity
         /\ \A s \in Slot : /\ Scanned[s].valid = InUse(s)
                            /\ Scanned[s].dest = link_table[s].dest
                            /\ Scanned[s].last_seen = link_table[s].last_seen
<1>1. Capacity \in Nat
  BY LinkAssumption
<1>2. \A s \in Slot :
        Scanned[s] = [valid |-> InUse(s), dest |-> link_table[s].dest,
                      last_seen |-> link_table[s].last_seen]
  BY DEF Scanned
<1>3. Len(Scanned) = Capacity
  BY <1>1 DEF Scanned
<1> QED BY <1>2, <1>3

LEMMA AgesAreNumbers ==
  ASSUME TypeOK, NEW s \in Slot
  PROVE  Age(s) \in Nat
<1>1. link_table[s] \in Entry /\ Now \in Int
  BY NowType, LinkAssumption DEF TypeOK
<1>2. link_table[s].last_seen \in Int
  BY <1>1, LinkAssumption DEF Entry
<1>3. Now - link_table[s].last_seen \in Int
  BY <1>1, <1>2
<1> QED BY <1>3, LinkAssumption DEF Age

LEMMA WalkTurn ==
  ASSUME TypeOK, NEW d \in Dest, NEW n \in Nat, n + 1 \in Slot,
         NEW w \in WalkRecord, Knows(d, n, w)
  PROVE  LET v == SeenWith(Scanned, d, Now, ClockModulus, n + 1, w)
         IN  v \in WalkRecord /\ Knows(d, n + 1, v)
<1> DEFINE i == n + 1
           v == SeenWith(Scanned, d, Now, ClockModulus, i, w)
<1> SUFFICES v \in WalkRecord /\ Knows(d, i, v)
  OBVIOUS
<1>1. /\ Scanned[i].valid = InUse(i)
      /\ Scanned[i].dest = link_table[i].dest
      /\ (Now - Scanned[i].last_seen) % ClockModulus = Age(i)
  BY ScannedTable DEF Age
<1>2. LinkTo(i, d) <=> InUse(i) /\ link_table[i].dest = d
  BY DEF LinkTo
<1>3. \A t \in 1 .. i : Age(t) \in Nat
  BY AgesAreNumbers, LinkAssumption
<1>4. \A t \in 1 .. i : t \in 1 .. n \/ t = i
  OBVIOUS
<1>5. InUse(i) \in BOOLEAN
  BY DEF InUse
<1>6. \A t : LinkTo(t, d) => InUse(t)
  BY DEF LinkTo
<1>7. CASE w.same # 0
  <2>1. v = w
    BY <1>7 DEF SeenWith
  <2> HIDE DEF v
  <2> QED BY <1>7, <2>1 DEF Knows, WalkRecord
<1>8. CASE w.same = 0 /\ ~ InUse(i) /\ w.first_invalid = 0
  <2>1. v = [w EXCEPT !.first_invalid = i]
    BY <1>1, <1>8 DEF SeenWith
  <2> HIDE DEF v
  <2> QED BY <1>4, <1>6, <1>8, <2>1 DEF Knows, WalkRecord
<1>9. CASE w.same = 0 /\ ~ InUse(i) /\ w.first_invalid # 0
  <2>1. v = w
    BY <1>1, <1>9 DEF SeenWith
  <2> HIDE DEF v
  <2> QED BY <1>4, <1>6, <1>9, <2>1 DEF Knows, WalkRecord
<1>10. CASE w.same = 0 /\ LinkTo(i, d)
  <2>1. v = [w EXCEPT !.same = i]
    BY <1>1, <1>2, <1>10 DEF SeenWith
  <2> HIDE DEF v
  <2> QED BY <1>4, <1>10, <2>1 DEF Knows, WalkRecord
<1>11. CASE w.same = 0 /\ InUse(i) /\ ~ LinkTo(i, d) /\ Age(i) > w.oldest_age
  <2>1. v = [w EXCEPT !.oldest = i, !.oldest_age = Age(i)]
    BY <1>1, <1>2, <1>11 DEF SeenWith
  <2> HIDE DEF v
  <2>2. /\ v \in WalkRecord /\ v.same = 0 /\ v.first_invalid = w.first_invalid
        /\ v.oldest = i /\ v.oldest_age = Age(i)
    <3>1. Age(i) \in Int /\ i \in Nat
      BY <1>3
    <3> QED BY <3>1, <1>11, <2>1 DEF WalkRecord
  <2>3. \A t \in 1 .. n : InUse(t) => Age(t) < Age(i)
    <3> SUFFICES ASSUME NEW t \in 1 .. n, InUse(t)
                 PROVE  Age(t) < Age(i)
      OBVIOUS
    <3>1. w.oldest # 0
      BY <1>11 DEF Knows
    <3>2. Age(t) <= w.oldest_age /\ w.oldest_age \in Int
      BY <1>11, <3>1 DEF Knows
    <3> QED BY <1>3, <1>11, <3>2
  <2>4. \A t \in 1 .. i : InUse(t) => Age(t) <= Age(i)
    BY <1>3, <1>4, <2>3
  <2>5. \A t \in 1 .. i : ~ LinkTo(t, d)
    BY <1>4, <1>11 DEF Knows
  <2> QED BY <1>3, <1>4, <1>11, <2>2, <2>3, <2>4, <2>5 DEF Knows
<1>12. CASE w.same = 0 /\ InUse(i) /\ ~ LinkTo(i, d) /\ ~ (Age(i) > w.oldest_age)
  <2>1. v = w
    BY <1>1, <1>2, <1>12 DEF SeenWith
  <2> HIDE DEF v
  <2> QED BY <1>3, <1>4, <1>12, <2>1 DEF Knows, WalkRecord
<1> QED
  BY <1>5, <1>6, <1>7, <1>8, <1>9, <1>10, <1>11, <1>12

(* The walk ends in the slot that PicksSlot describes without a walk. *)
LEMMA WalkChooses ==
  ASSUME TypeOK, NEW d \in Dest
  PROVE  /\ ChosenSlot(d) \in Slot
         /\ \A s \in Slot : PicksSlot(d, s) <=> s = ChosenSlot(d)
<1>1. Len(Scanned) = Capacity /\ Capacity \in Nat \ {0}
  BY ScannedTable, LinkAssumption
<1>2. PICK F : /\ IsWalk(F, Scanned, d, Now, ClockModulus, Capacity)
               /\ Walk(Scanned, d, Now, ClockModulus) = F[Capacity]
  BY <1>1, WalkExists
<1>3. \A i \in 0 .. Capacity :
        F[i] = IF i = 0 THEN NothingSeen
               ELSE SeenWith(Scanned, d, Now, ClockModulus, i, F[i - 1])
  BY <1>2 DEF IsWalk
<1> DEFINE Good == {n \in Nat : n <= Capacity => F[n] \in WalkRecord /\ Knows(d, n, F[n])}
<1>4. 0 \in Good
  <2>1. F[0] = NothingSeen
    BY <1>1, <1>3
  <2> QED BY <2>1 DEF NothingSeen, WalkRecord, Knows
<1>5. ASSUME NEW n \in Nat, n \in Good
      PROVE  n + 1 \in Good
  <2> SUFFICES ASSUME n + 1 <= Capacity
               PROVE  F[n + 1] \in WalkRecord /\ Knows(d, n + 1, F[n + 1])
    OBVIOUS
  <2>1. F[n + 1] = SeenWith(Scanned, d, Now, ClockModulus, n + 1, F[n])
    BY <1>1, <1>3
  <2>2. F[n] \in WalkRecord /\ Knows(d, n, F[n]) /\ n + 1 \in Slot
    BY <1>1, <1>5
  <2> HIDE DEF Good
  <2> QED BY <2>1, <2>2, WalkTurn
<1>6. Nat \subseteq Good
  <2> HIDE DEF Good
  <2> QED BY <1>4, <1>5, NatSetInduction
<1> DEFINE w == F[Capacity]
<1>7. w \in WalkRecord /\ Knows(d, Capacity, w)
  BY <1>1, <1>6
<1>8. ChosenSlot(d) = IF w.same # 0 THEN w.same
                      ELSE IF w.first_invalid # 0 THEN w.first_invalid ELSE w.oldest
  BY <1>2 DEF ChosenSlot, choose_slot
<1>9. \A t \in Slot : Age(t) \in Nat
  BY AgesAreNumbers
<1> HIDE DEF w
<1>10. CASE w.same # 0
  BY <1>1, <1>7, <1>8, <1>10 DEF Knows, PicksSlot
<1>11. CASE w.same = 0 /\ w.first_invalid # 0
  BY <1>1, <1>7, <1>8, <1>11 DEF Knows, PicksSlot, LinkTo
<1>12. CASE w.same = 0 /\ w.first_invalid = 0
  <2>1. w.oldest # 0
    BY <1>1, <1>7, <1>12 DEF Knows
  <2> QED
    BY <1>1, <1>7, <1>8, <1>9, <1>12, <2>1 DEF Knows, PicksSlot, LinkTo
<1> QED BY <1>10, <1>11, <1>12
LEMMA SlotsAlwaysAgree == TypeOK => SlotsAgree
BY WalkChooses DEF SlotsAgree

(* The slot a handshake writes is the only one that may answer a request,  *)
(* and it does so with its established link and the key of that link.      *)
LEMMA DuplicatesAlwaysAgree == TypeOK /\ OneLinkPerDestination => DuplicatesAgree
<1> SUFFICES ASSUME TypeOK, OneLinkPerDestination, NEW r \in Request
             PROVE  LET held == link_table[ChosenSlot(r.dest)]
                    IN  StatusOf(r) = "DUPLICATE"
                          <=> /\ held.status = "established"
                              /\ held.dest = r.dest /\ held.theirs = r.x25519
  BY DEF DuplicatesAgree
<1> DEFINE c == ChosenSlot(r.dest)
<1>1. r.dest \in Dest
  BY DEF Request
<1>2. \A s \in Slot : PicksSlot(r.dest, s) <=> s = c
  BY <1>1, SlotsAlwaysAgree DEF SlotsAgree
<1>3. StatusOf(r) = "DUPLICATE" <=> \E s \in Slot : Answered(r, s)
  BY DEF StatusOf, accept_status
<1> HIDE DEF c
<1>4. ASSUME NEW s \in Slot, Answered(r, s)
      PROVE  /\ link_table[c].status = "established"
             /\ link_table[c].dest = r.dest /\ link_table[c].theirs = r.x25519
  <2>1. s = c
    BY <1>2, <1>4 DEF Answered, PicksSlot
  <2> QED BY <1>4, <2>1 DEF Answered, LinkTo
<1>5. ASSUME link_table[c].status = "established", link_table[c].dest = r.dest,
             link_table[c].theirs = r.x25519, c \in Slot
      PROVE  Answered(r, c)
  <2>1. LinkTo(c, r.dest)
    BY <1>5 DEF LinkTo, InUse
  <2>2. \A t \in 1 .. c - 1 : ~ LinkTo(t, r.dest)
    <3> SUFFICES ASSUME NEW t \in 1 .. c - 1, LinkTo(t, r.dest)
                 PROVE  FALSE
      OBVIOUS
    <3>1. t \in Slot /\ t # c
      BY <1>5, LinkAssumption
    <3> QED BY <1>5, <2>1, <3>1 DEF OneLinkPerDestination, LinkTo
  <2> QED BY <1>5, <2>1, <2>2 DEF Answered
<1>6. c \in Slot
  BY WalkChooses, <1>1 DEF c
<1> QED BY <1>3, <1>4, <1>5, <1>6 DEF c

LEMMA OpenedAlwaysKnown == OpenedAreKnown
<1> SUFFICES ASSUME NEW token \in Arriving, Opens(token)
             PROVE  KnownLink(token.link_id)
  BY DEF OpenedAreKnown, classify
<1> QED BY DEF Opens, Finds, KnownLink

(* The slots that handshakes write, the duplicates they find and the links *)
(* that text is taken for are those of the reference models, for tables of *)
(* any size and clocks of any width.                                       *)
THEOREM LinksAgreeWithModels == Spec => [](SlotsAgree /\ DuplicatesAgree /\ OpenedAreKnown)
<1>1. LInv => SlotsAgree /\ DuplicatesAgree /\ OpenedAreKnown
  BY SlotsAlwaysAgree, DuplicatesAlwaysAgree, OpenedAlwaysKnown DEF LInv
<1> QED BY <1>1, LInvAlways, PTL

(* What a run computes once of the formats, the vectors and the small      *)
(* curve is all that LinksFollowContract asks for beyond that.             *)
THEOREM LinksFollowModels == LinkTables => (Spec => LinksFollowContract)
<1> SUFFICES ASSUME LinkTables
             PROVE  Spec => LinksFollowContract
  OBVIOUS
<1>1. [Started => LinkTables]_vars
  OBVIOUS
<1> QED BY <1>1, LinksAgreeWithModels, PTL DEF LinksFollowContract
===============================================================================
