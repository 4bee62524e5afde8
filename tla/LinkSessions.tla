----------------------------- MODULE LinkSessions -----------------------------
(***************************************************************************)
(* What the link table of one node promises to whoever uses its links: at  *)
(* most one session per destination, at most Capacity of them, each with a *)
(* key pair of its own; text is only ever that of the session in force.    *)
(* How sessions are kept in slots and found again is left to LinkTable.    *)
(***************************************************************************)
EXTENDS Naturals

CONSTANTS
  Dest,      \* destination hashes
  PeerKey,   \* X25519 public keys of the peers that ask for links
  SignKey,   \* their Ed25519 public keys
  OwnKey,    \* X25519 key pairs the node generates
  NoKey,     \* 32 zero bytes
  NoLink,    \* a zeroed link id
  Capacity   \* LINK_TABLE_CAPACITY, 4 in the code

(* what a link request carries; its hash is the link id, so the request    *)
(* stands for the id                                                       *)
Request == [dest : Dest, x25519 : PeerKey, ed25519 : SignKey]

(* key material is derived from the shared secret of the two X25519 keys,  *)
(* salted with the link id, which hashes the peer's key                    *)
Material == [ours : OwnKey, link : Request]

NoMaterial == [ours |-> NoKey, link |-> NoLink]

VARIABLES
  session,   \* per destination: its status, our key, the request, the keys
  text,      \* the text in link_session_scratch: who wrote it, on which keys
  used       \* the key pairs generated so far

vars == <<session, text, used>>

NoSession == [status |-> "none", ours |-> NoKey, keys |-> NoMaterial]

Live == {d \in Dest : session[d].status # "none"}

(* as many destinations as there is room for have a session *)
Full ==
  \E place \in [1 .. Capacity -> Live] :
    \A i, j \in 1 .. Capacity : place[i] = place[j] => i = j

NoText == [by |-> "nobody", keys |-> NoMaterial]

Init ==
  /\ session = [d \in Dest |-> NoSession]
  /\ text = NoText
  /\ used = {}

(* A session that begins replaces the one with the same destination; it    *)
(* costs another destination its session only when there is no room.       *)
Begin(d, new) ==
  /\ new.ours \in OwnKey \ used
  /\ used' = used \cup {new.ours}
  /\ \/ session' = [session EXCEPT ![d] = new]
     \/ \E e \in Live :
          /\ d \notin Live
          /\ Full
          /\ session' = [session EXCEPT ![d] = new, ![e] = NoSession]
  /\ UNCHANGED text

Open(d) ==
  \E k \in OwnKey :
    Begin(d, [status |-> "pending", ours |-> k, keys |-> NoMaterial])

(* a request from the peer that already has the session changes nothing    *)
Answer(r) ==
  /\ session[r.dest].status = "established"
       => session[r.dest].keys.link.x25519 # r.x25519
  /\ \E k \in OwnKey :
       Begin(r.dest, [status |-> "established", ours |-> k,
                      keys   |-> [ours |-> k, link |-> r]])

(* text is received, or prepared for sending, on the session in force *)
Talk(d, who) ==
  /\ session[d].status = "established"
  /\ text' = [by |-> who, keys |-> session[d].keys]
  /\ UNCHANGED <<session, used>>

Restart ==
  /\ session' = [d \in Dest |-> NoSession]
  /\ text' = NoText
  /\ UNCHANGED used

Next ==
  \/ \E d \in Dest : Open(d)
  \/ \E r \in Request : Answer(r)
  \/ \E d \in Dest, who \in {"peer", "node"} : Talk(d, who)
  \/ Restart

Spec == Init /\ [][Next]_vars
===============================================================================
