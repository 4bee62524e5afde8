----------------------------- MODULE SeenWindow ------------------------------
(***************************************************************************)
(* What packet deduplication promises: each node remembers the last        *)
(* Capacity distinct packets it let through, newest last, and lets a       *)
(* packet through only when it is not among them.                          *)
(***************************************************************************)
EXTENDS Integers, Sequences

CONSTANTS Node, Key, Capacity

VARIABLE window

(* w with k as its newest element, without its oldest when w was full *)
Slide(w, k) ==
  LET drop == IF Len(w) < Capacity THEN 0 ELSE 1
  IN  [i \in 1 .. Len(w) + 1 - drop |->
         IF i = Len(w) + 1 - drop THEN k ELSE w[i + drop]]

Remembers(w, k) == \E i \in 1 .. Len(w) : w[i] = k

Init == window = [n \in Node |-> << >>]

LetThrough(n, k) ==
  /\ ~ Remembers(window[n], k)
  /\ window' = [window EXCEPT ![n] = Slide(window[n], k)]

(* a reset forgets everything *)
Forget(n) == window' = [window EXCEPT ![n] = << >>]

Next == \E n \in Node : Forget(n) \/ \E k \in Key : LetThrough(n, k)

Spec == Init /\ [][Next]_window
=============================================================================
