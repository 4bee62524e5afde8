-------------------------------- MODULE MCLxmf --------------------------------
(***************************************************************************)
(* Two identities that write to the node and announce themselves to it,    *)
(* one slot for their routes; messages as they are signed, with a stamp    *)
(* and with another, and with one thing changed.                           *)
(***************************************************************************)
EXTENDS LxmfContract

CONSTANTS Alice, Bob

RawOf(content) == payload(Half, <<84>>, content, <<128>>)

Hello == RawOf(<<72>>)
Bye == RawOf(<<66>>)
Never == RawOf(<<78>>)   \* nobody signs this one

Here == delivery("here")
Elsewhere == delivery("elsewhere")

(* as other LXMF clients write it: the source is the delivery destination *)
By(i, dest, raw) == Message(dest, delivery(i), Signed(i, dest, delivery(i), raw), raw)

With(m, raw) == [m EXCEPT !.payload = raw]

Changed(i, raw) ==
  LET m == By(i, Here, raw)
  IN  {m, By(i, Elsewhere, raw),
       With(m, Stamped(raw, Filled(17, 16))), With(m, Stamped(raw, Filled(18, 32))),
       With(m, Stamped(raw, Filled(18, 33))),
       With(m, Never), With(m, SubSeq(raw, 1, Len(raw) - 1)),
       With(m, raw \o Filled(0, LXMF_PAYLOAD_MAX_STAMPED_LEN)),
       [m EXCEPT !.signature.by = IF i = Alice THEN Bob ELSE Alice],
       [m EXCEPT !.dest = Elsewhere],
       [m EXCEPT !.cut = TRUE],
       Message(Here, hash(i), Signed(i, Here, hash(i), raw), raw)}

(* Bob writes in Alice's name *)
Pretended == Message(Here, delivery(Alice), Signed(Bob, Here, delivery(Alice), Never), Never)

Messages ==
  UNION {Changed(i, raw) : i \in {Alice, Bob}, raw \in {Hello, Bye}} \cup {Pretended}
    \cup PackedHere

SomeArrivals ==
  {[message |-> m, mode |-> "direct", link |-> l, destination |-> None] :
     m \in Messages, l \in BOOLEAN}
  \cup
  {[message |-> m, mode |-> "opportunistic", link |-> FALSE, destination |-> d] :
     m \in Messages, d \in {Here, Elsewhere, None}}
  \cup
  {[message |-> m, mode |-> "other", link |-> TRUE, destination |-> Here] : m \in Messages}
=============================================================================
