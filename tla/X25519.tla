-------------------------------- MODULE X25519 --------------------------------
(***************************************************************************)
(* X25519 on limbs of alternating widths, as in x25519_*.S and their       *)
(* oracle src/proofs/crypto/x25519/_x25519_oracle.py, on a smaller field   *)
(* of the same shape: p is 2 to the sum of the widths, less a small fold.  *)
(* The code has ten limbs of 26 and 25 bits, p = 2^255 - 19 and a24 =      *)
(* 121665.  A string of bytes is the number it encodes.                    *)
(***************************************************************************)
EXTENDS Integers, Sequences

CONSTANTS
  Widths,   \* bits of each limb
  Fold,     \* 2^Total = Fold (mod p)
  a24,      \* (A - 2) / 4 of the curve
  Base      \* x25519_base_point

NLimbs == Len(Widths)
Limb == 1 .. NLimbs
RoundWeights == [i \in 0 .. NLimbs |->
  LET sum[j \in 0 .. NLimbs] == IF j = 0 THEN 0 ELSE sum[j - 1] + Widths[j] IN sum[i]]

Total == RoundWeights[NLimbs]
P == 2^Total - Fold

ASSUME X25519Assumption ==
  /\ \A i \in Limb : Widths[i] \in Nat \ {0, 1}
  /\ \A i \in Limb \ {NLimbs} : Widths[i] # Widths[i + 1]
  /\ \A i \in Limb : Widths[i] <= Widths[1]
  /\ Fold \in 1 .. 2^Widths[1] - 1
  /\ Base \in 1 .. P - 1

limb_weight(i) == 2^RoundWeights[i - 1]
Mask(i) == 2^Widths[i]

decode_limbs(l) ==
  LET n[i \in 0 .. NLimbs] == IF i = 0 THEN 0 ELSE n[i - 1] + l[i] * limb_weight(i)
  IN  n[NLimbs] % P

(* the limbs as a sequence: TLC evaluates each of them once, here *)
Limbs(l) == l \o <<>>

(* the bit above the field is dropped *)
field_unpack(wire) == Limbs([i \in Limb |-> (wire \div limb_weight(i)) % Mask(i)])

f_add(a, b) == Limbs([i \in Limb |-> a[i] + b[i]])
f_sub(a, b) == Limbs([i \in Limb |-> a[i] - b[i]])

(* carries run from limb to limb, that of the last one folds into the      *)
(* first; limbs are signed and \div rounds down, as srai does              *)
carry_round(l) ==
  LET carried[i \in Limb] ==   \* the limb with the carry of the one before it
        IF i = 1 THEN l[1] ELSE l[i] + (carried[i - 1] \div Mask(i - 1))
      top == carried[NLimbs] \div Mask(NLimbs)
  IN  Limbs([i \in Limb |-> (carried[i] % Mask(i)) + (IF i = 1 THEN Fold * top ELSE 0)])

P_LIMBS == [i \in Limb |-> IF i = 1 THEN Mask(1) - Fold ELSE Mask(i) - 1]

cond_sub_p(l) ==
  LET d[i \in Limb] ==
        l[i] - P_LIMBS[i] + (IF i > 1 /\ d[i - 1] < 0 THEN -1 ELSE 0)
  IN  IF d[NLimbs] < 0 THEN l ELSE [i \in Limb |-> d[i] % Mask(i)]

pack_canonical(l) ==
  LET n[i \in 0 .. NLimbs] == IF i = 0 THEN 0 ELSE n[i - 1] + l[i] * limb_weight(i)
  IN  n[NLimbs]

field_pack(l) ==
  pack_canonical(cond_sub_p(carry_round(carry_round(carry_round(l)))))

(* cells 2 .. 2 * NLimbs of the product; two limbs of the second width     *)
(* meet one bit above the weight of their cell                             *)
fproduct(a, b) ==
  [k \in 2 .. 2 * NLimbs |->
     LET term(i) == IF k - i \in Limb
                      THEN a[i] * b[k - i] * (IF i % 2 = 0 /\ k % 2 = 0 THEN 2 ELSE 1)
                      ELSE 0
         sum[i \in 0 .. NLimbs] == IF i = 0 THEN 0 ELSE sum[i - 1] + term(i)
     IN  sum[NLimbs]]

freduce_degreeFault(o) == Limbs([i \in Limb |-> o[i + 1]])   \* the high cells are dropped

freduce_degree(o) ==
  Limbs([i \in Limb |-> o[i + 1] + (IF i < NLimbs THEN Fold * o[i + 1 + NLimbs] ELSE 0)])

freduce_coefficients(o) == carry_round(carry_round(o))

field_mul(a, b) == freduce_coefficients(freduce_degree(fproduct(a, b)))

(* multiplied by a24 limb by limb, one more carry out of the first limb    *)
field_mul121665(l) ==
  LET r == carry_round([i \in Limb |-> l[i] * a24])
  IN  [r EXCEPT ![1] = @ % Mask(1), ![2] = @ + (r[1] \div Mask(1))]

power(l, n) ==
  LET raised[m \in 0 .. n] ==
        IF m = 0 THEN field_unpack(1)
        ELSE LET half == raised[m \div 2]
                 square == field_mul(half, half)
             IN  IF m % 2 = 1 THEN field_mul(square, l) ELSE square
  IN  raised[n]

field_inv(l) == power(l, P - 2)

-----------------------------------------------------------------------------
(* x25519_scalar_mult *)

(* the lowest bits cleared, the bit below the field's top bit set *)
decode_scalar(k) == 2^(Total - 1) + 8 * ((k \div 8) % 2^(Total - 4))

(* one turn of the ladder on <<x2, z2, x3, z3>> after the swaps *)
fmonty(x1, s) ==
  LET A == f_add(s[1], s[2])   B == f_sub(s[1], s[2])
      C == f_add(s[3], s[4])   D == f_sub(s[3], s[4])
      AA == field_mul(A, A)    BB == field_mul(B, B)
      DA == field_mul(D, A)    CB == field_mul(C, B)
      E == f_sub(AA, BB)
      plus == f_add(DA, CB)    minus == f_sub(DA, CB)
  IN  <<field_mul(AA, BB),
        field_mul(E, f_add(AA, field_mul121665(E))),
        field_mul(plus, plus),
        field_mul(x1, field_mul(minus, minus))>>

cswap(swap, s) == IF swap THEN <<s[3], s[4], s[1], s[2]>> ELSE s

(* the bits of k from the highest down; the swap of the last one is undone *)
ladder(k, x1, s) ==
  LET bit(t) == t < Total /\ (k \div 2^t) % 2 = 1
      down[t \in 0 .. Total] ==
        IF t = Total THEN s
        ELSE fmonty(x1, cswap(bit(t + 1) # bit(t), down[t + 1]))
  IN  cswap(bit(0), down[0])

montgomery_ladder(k, u) ==
  LET zero == field_unpack(0)
      one == field_unpack(1)
      s == ladder(k, u, <<one, zero, u, one>>)
  IN  field_mul(s[1], field_inv(s[2]))

scalar_mult(k, u) ==
  field_pack(montgomery_ladder(decode_scalar(k), field_unpack(u)))

public_key(k) == scalar_mult(k, Base)

-----------------------------------------------------------------------------
(* Limbs between the operations of the ladder: signed, each at most one    *)
(* addition of two reduced ones away from its width.                       *)
Loose(l) == \A i \in Limb : l[i] \in -(2 * Mask(i)) .. 2 * Mask(i)

Wires == 0 .. 2^(Total + 1) - 1
Residues == {field_unpack(a) : a \in {0, 1, 2, 7, 11, P - 1, P, 2^Total - 1}}
Others == {field_unpack(b) : b \in 0 .. 2^Total - 1}

prove_unpack ==
  \A w \in Wires :
    LET l == field_unpack(w)
    IN  /\ \A i \in Limb : l[i] \in 0 .. Mask(i) - 1
        /\ decode_limbs(l) = (w % 2^Total) % P
        /\ field_pack(l) = (w % 2^Total) % P

(* limbs on both sides of every boundary, negative ones and ones a bit too *)
(* wide among them                                                         *)
prove_pack ==
  /\ \A l \in [Limb -> {-1, 0, 1, Mask(1) - 1, Mask(1)}] : field_pack(l) = decode_limbs(l)
  /\ \A n \in 0 .. 2 : field_pack([i \in Limb |-> n * P_LIMBS[i]]) = 0
  /\ \A i \in Limb : field_pack([P_LIMBS EXCEPT ![i] = @ - 1]) = P - limb_weight(i)

prove_add ==
  \A x \in Residues, y \in Others :
    decode_limbs(f_add(x, y)) = (decode_limbs(x) + decode_limbs(y)) % P

prove_sub ==
  \A x \in Residues, y \in Others :
    decode_limbs(f_sub(x, y)) = (decode_limbs(x) - decode_limbs(y)) % P

(* a product of sums and differences, as the ladder takes it, is right and *)
(* fit to be multiplied again                                              *)
prove_mul ==
  \A x \in Residues, y \in Others :
    LET a == decode_limbs(x)
        b == decode_limbs(y)
        prod == field_mul(f_sub(x, y), f_add(x, y))
    IN  /\ decode_limbs(field_mul(x, y)) = (a * b) % P
        /\ field_pack(prod) = (a * a - b * b) % P
        /\ Loose(prod) /\ Loose(field_mul121665(f_sub(prod, x)))
        /\ decode_limbs(field_mul121665(y)) = (b * a24) % P

prove_inv ==
  \A x \in Residues :
    decode_limbs(x) # 0 => field_pack(field_mul(x, field_inv(x))) = 1

prove_decode_scalar ==
  \A k \in Wires :
    LET scalar == decode_scalar(k)
    IN  /\ scalar % 8 = 0
        /\ scalar \div 2^(Total - 1) = 1
        /\ (scalar \div 8) % 2^(Total - 4) = (k \div 8) % 2^(Total - 4)

(* in limbs, which are moved as they are, reduced or not *)
prove_cswap ==
  \A a, b \in {[i \in Limb |-> n] : n \in {0, 7, 8, 42, -1, 2 * Mask(1)}} :
    /\ cswap(FALSE, <<a, b, b, a>>) = <<a, b, b, a>>
    /\ cswap(TRUE, <<a, b, b, a>>) = <<b, a, a, b>>
    /\ \A swap \in BOOLEAN : cswap(swap, cswap(swap, <<a, a, b, b>>)) = <<a, a, b, b>>

prove_field ==
  /\ prove_unpack /\ prove_pack /\ prove_add /\ prove_sub /\ prove_mul /\ prove_inv
  /\ prove_decode_scalar /\ prove_cswap

prove_agreement(scalars) ==
  \A j, k \in scalars :
    scalar_mult(j, public_key(k)) = scalar_mult(k, public_key(j))
=============================================================================
