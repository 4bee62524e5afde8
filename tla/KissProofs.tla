------------------------------- MODULE KissProofs -------------------------------
(***************************************************************************)
(* Theorems about KissLine, for every payload the host may send: a frame   *)
(* that reaches the node whole is decoded to what was encoded, and damage  *)
(* to a frame costs at most the one after it.                              *)
(*                                                                         *)
(* The invariant says where the decoder is in the frame being sent.  It    *)
(* needs the layout of an encoded frame: how many bytes of it come before  *)
(* each byte of the payload.  Encode concatenates the escapes with         *)
(* FlattenSeq, whose recursive function is reasoned about by induction     *)
(* over the sets of numbers for which a claim holds.                       *)
(***************************************************************************)
EXTENDS KissLine, SequenceTheorems, FiniteSetTheorems, WellFoundedInduction, TLAPS

(* The least number outside S would be larger than the one before it, and  *)
(* intervals of numbers are well-founded under inclusion.                  *)
LEMMA NatSetInduction ==
  ASSUME NEW S, 0 \in S, \A n \in Nat : n \in S => n + 1 \in S
  PROVE  Nat \subseteq S
<1> SUFFICES ASSUME ~ Nat \subseteq S
             PROVE  FALSE
  OBVIOUS
<1> DEFINE T == Nat \ S
           R == StrictSubsetOrdering(Nat)
           Below == {0 .. x : x \in T}
<1>1. IsWellFoundedOn(R, FiniteSubsetsOf(Nat))
  BY FS_StrictSubsetOrderingWellFounded
<1>2. Below \subseteq FiniteSubsetsOf(Nat)
  <2>1. \A x \in T : IsFiniteSet(0 .. x)
    BY FS_Interval
  <2> QED BY <2>1 DEF FiniteSubsetsOf
<1>3. \E I \in Below : \A J \in Below : ~ (<<J, I>> \in R)
  <2> HIDE DEF R
  <2>1. Below # {}
    OBVIOUS
  <2> HIDE DEF Below
  <2> QED BY <1>1, <1>2, <2>1, WFMin
<1>4. PICK x \in T : \A y \in T : ~ (<<0 .. y, 0 .. x>> \in R)
  BY <1>3
<1>5. x - 1 \in T
  BY <1>4
<1>6. 0 .. (x - 1) \subseteq 0 .. x /\ 0 .. (x - 1) # 0 .. x
  <2>1. x \in 0 .. x /\ x \notin 0 .. (x - 1)
    OBVIOUS
  <2> QED BY <2>1
<1>7. <<0 .. (x - 1), 0 .. x>> \in R
  BY <1>6 DEF StrictSubsetOrdering
<1> QED BY <1>4, <1>5, <1>7

(* The function that FlattenSeq chooses exists: it is built up to n for    *)
(* every n.                                                                *)
LEMMA FlattenExists ==
  ASSUME NEW Elem, NEW s \in Seq(Seq(Elem)), s # <<>>
  PROVE  \E F : /\ F = [i \in 1 .. Len(s) |-> IF i = 1 THEN s[i] ELSE F[i - 1] \o s[i]]
                /\ FlattenSeq(s) = F[Len(s)]
<1> DEFINE Is(n, F) == F = [i \in 1 .. n |-> IF i = 1 THEN s[i] ELSE F[i - 1] \o s[i]]
           Built == {n \in Nat : \E F : Is(n, F)}
<1>1. 0 \in Built
  <2>1. Is(0, [i \in 1 .. 0 |-> 0])
    OBVIOUS
  <2> QED BY <2>1
<1>2. ASSUME NEW n \in Nat, n \in Built
      PROVE  n + 1 \in Built
  <2>1. PICK F : Is(n, F)
    BY <1>2
  <2>4. \A i \in 1 .. n : F[i] = IF i = 1 THEN s[i] ELSE F[i - 1] \o s[i]
    BY <2>1
  <2> DEFINE G == [i \in 1 .. n + 1 |->
                     IF i <= n THEN F[i] ELSE IF i = 1 THEN s[i] ELSE F[i - 1] \o s[i]]
  <2>2. \A i \in 1 .. n + 1 : G[i] = IF i = 1 THEN s[i] ELSE G[i - 1] \o s[i]
    <3> SUFFICES ASSUME NEW i \in 1 .. n + 1
                 PROVE  G[i] = IF i = 1 THEN s[i] ELSE G[i - 1] \o s[i]
      OBVIOUS
    <3>1. CASE i <= n
      <4>1. G[i] = F[i] /\ F[i] = IF i = 1 THEN s[i] ELSE F[i - 1] \o s[i]
        BY <2>4, <3>1
      <4>2. i # 1 => G[i - 1] = F[i - 1]
        BY <3>1
      <4> QED BY <4>1, <4>2
    <3>2. CASE i = n + 1
      <4>1. i # 1 => G[i - 1] = F[i - 1]
        BY <3>2
      <4> QED BY <3>2, <4>1
    <3> QED BY <3>1, <3>2
  <2>3. Is(n + 1, G)
    BY <2>2
  <2> HIDE DEF Is, G
  <2> QED BY <2>3
<1>3. Nat \subseteq Built
  <2> HIDE DEF Built
  <2> QED BY <1>1, <1>2, NatSetInduction
<1>4. Len(s) \in Nat /\ Len(s) # 0
  OBVIOUS
<1>5. \E G : Is(Len(s), G)
  BY <1>3, <1>4
<1> DEFINE C == CHOOSE F : Is(Len(s), F)
<1>6. Is(Len(s), C)
  BY <1>5
<1>7. FlattenSeq(s) = C[Len(s)]
  BY <1>4 DEF FlattenSeq
<1> QED BY <1>6, <1>7

(* F[k] is the first k of the sequences in E, one after the other *)
Concatenates(F, E, n) ==
  F[1] = E[1] /\ \A k \in 1 .. n - 1 : F[k + 1] = F[k] \o E[k + 1]

(* each piece E[k] ends where F[k] does, in all the longer sequences too   *)
HoldsPieces(F, E, n, Elem) ==
  \A m \in 1 .. n :
    /\ F[m] \in Seq(Elem)
    /\ \A k \in 1 .. m :
         /\ Len(E[k]) <= Len(F[k]) /\ Len(F[k]) <= Len(F[m])
         /\ \A i \in 1 .. Len(E[k]) : F[m][Len(F[k]) - Len(E[k]) + i] = E[k][i]

LEMMA ConcatenationOfPieces ==
  ASSUME NEW n \in Nat \ {0}, NEW Elem, NEW E \in [1 .. n -> Seq(Elem)],
         NEW F, Concatenates(F, E, n)
  PROVE  HoldsPieces(F, E, n, Elem)
<1> USE DEF Concatenates
<1> DEFINE Good(m) ==
             \A k \in 1 .. m :
                  /\ F[k] \in Seq(Elem)
                  /\ Len(E[k]) <= Len(F[k]) /\ Len(F[k]) <= Len(F[m])
                  /\ \A i \in 1 .. Len(E[k]) :
                       F[m][Len(F[k]) - Len(E[k]) + i] = E[k][i]
           Done == {m \in Nat : m + 1 \in 1 .. n => Good(m + 1)}
<1>1. \A k \in 1 .. n : E[k] \in Seq(Elem) /\ Len(E[k]) \in Nat
  OBVIOUS
<1>6. \A m : m \in Done <=> m \in Nat /\ (m + 1 \in 1 .. n => Good(m + 1))
  <2> HIDE DEF Good
  <2> QED OBVIOUS
<1> HIDE DEF Good, Done
<1>2. 0 \in Done
  <2>1. 1 \in 1 .. n
    OBVIOUS
  <2>2. F[1] \in Seq(Elem) /\ Len(E[1]) \in Nat
    BY <1>1, <2>1
  <2>3. Good(1)
    <3>1. ASSUME NEW k \in 1 .. 1
          PROVE  k = 1
      OBVIOUS
    <3>2. ASSUME NEW i \in 1 .. Len(E[1])
          PROVE  F[1][Len(F[1]) - Len(E[1]) + i] = E[1][i]
      <4>1. Len(F[1]) - Len(E[1]) + i = i
        BY <2>2
      <4> QED BY <4>1
    <3> QED BY <2>2, <3>1, <3>2 DEF Good
  <2> QED BY <2>3, <1>6
<1>3. ASSUME NEW m \in Nat, m \in Done
      PROVE  m + 1 \in Done
  <2> SUFFICES ASSUME m + 2 \in 1 .. n
               PROVE  Good(m + 2)
    <3>1. (m + 1) + 1 = m + 2
      OBVIOUS
    <3> QED BY <1>6, <3>1
  <2>1. Good(m + 1)
    <3>1. m + 1 \in 1 .. n
      OBVIOUS
    <3> QED BY <1>3, <1>6, <3>1
  <2> DEFINE a == F[m + 1]
             b == E[m + 2]
  <2>2. F[m + 2] = a \o b
    <3>1. m + 1 \in 1 .. n - 1 /\ (m + 1) + 1 = m + 2
      OBVIOUS
    <3> QED BY <3>1
  <2>3. a \in Seq(Elem) /\ b \in Seq(Elem)
    <3>1. m + 1 \in 1 .. m + 1 /\ m + 2 \in 1 .. n
      OBVIOUS
    <3> QED BY <1>1, <2>1, <3>1 DEF Good
  <2> HIDE DEF a, b
  <2>4. /\ a \o b \in Seq(Elem) /\ Len(a \o b) = Len(a) + Len(b)
        /\ Len(a) \in Nat /\ Len(b) \in Nat
        /\ \A i \in 1 .. Len(a) : (a \o b)[i] = a[i]
        /\ \A i \in 1 .. Len(b) : (a \o b)[Len(a) + i] = b[i]
    <3> HIDE <2>1, <2>2, <1>1
    <3> QED BY <2>3
  <2>5. ASSUME NEW k \in 1 .. m + 2
        PROVE  /\ F[k] \in Seq(Elem)
               /\ Len(E[k]) <= Len(F[k]) /\ Len(F[k]) <= Len(F[m + 2])
               /\ \A i \in 1 .. Len(E[k]) : F[m + 2][Len(F[k]) - Len(E[k]) + i] = E[k][i]
    <3>1. CASE k = m + 2
      <4>1. E[k] = b /\ F[k] = a \o b
        BY <2>2, <3>1 DEF b
      <4> QED BY <2>2, <2>4, <4>1
    <3>2. CASE k \in 1 .. m + 1
      <4>1. /\ F[k] \in Seq(Elem)
            /\ Len(E[k]) <= Len(F[k]) /\ Len(F[k]) <= Len(a)
            /\ \A i \in 1 .. Len(E[k]) : a[Len(F[k]) - Len(E[k]) + i] = E[k][i]
        BY <2>1, <3>2 DEF a, Good
      <4>2. Len(E[k]) \in Nat
        BY <1>1
      <4>3. Len(F[k]) \in Int
        BY <4>1
      <4>4. ASSUME NEW i \in 1 .. Len(E[k])
            PROVE  F[m + 2][Len(F[k]) - Len(E[k]) + i] = E[k][i]
        <5>1. Len(F[k]) - Len(E[k]) + i \in 1 .. Len(a)
          <6>1. Len(a) \in Nat
            BY <2>4
          <6>2. Len(F[k]) <= Len(a) /\ Len(E[k]) <= Len(F[k])
            BY <4>1
          <6> QED BY <4>2, <4>3, <6>1, <6>2
        <5> QED BY <5>1, <4>1, <2>2, <2>4
      <4>5. Len(F[k]) <= Len(F[m + 2])
        <5>1. Len(F[k]) <= Len(a) /\ Len(F[m + 2]) = Len(a) + Len(b)
          BY <2>2, <2>4, <4>1
        <5> QED BY <2>4, <4>3, <5>1
      <4> QED BY <4>1, <4>4, <4>5
    <3>3. k = m + 2 \/ k \in 1 .. m + 1
      OBVIOUS
    <3> HIDE DEF a, b, Good
    <3> QED BY ONLY <3>1, <3>2, <3>3
  <2> QED BY <2>2, <2>3, <2>4, <2>5 DEF Good
<1>4. Nat \subseteq Done
  BY <1>2, <1>3, NatSetInduction
<1>5. ASSUME NEW m \in 1 .. n
      PROVE  Good(m)
  <2>1. m - 1 \in Nat /\ (m - 1) + 1 = m
    OBVIOUS
  <2> QED BY <1>4, <1>6, <2>1
<1>7. \A m \in 1 .. n : m \in 1 .. m
  OBVIOUS
<1> QED BY <1>5, <1>7 DEF Good, HoldsPieces

(* what stands between the FENDs of a frame *)
Plain == Byte \ {FEND}

LEMMA EscapedIsPlain ==
  ASSUME NEW b \in Byte
  PROVE  Escaped(b) \in Seq(Plain) /\ Len(Escaped(b)) \in {1, 2}
<1>1. FESC \in Plain /\ TFEND \in Plain /\ TFESC \in Plain
  BY KissAssumption DEF Plain, Byte
<1>2. \A x, y \in Plain : <<x, y>> \in Seq(Plain) /\ <<x>> \in Seq(Plain)
  OBVIOUS
<1>3. Len(<<FESC, TFEND>>) = 2 /\ Len(<<FESC, TFESC>>) = 2 /\ Len(<<b>>) = 1
  OBVIOUS
<1>4. b # FEND => b \in Plain
  BY DEF Plain
<1> QED BY <1>1, <1>2, <1>3, <1>4 DEF Escaped

Pieces(p) == [i \in DOMAIN p |-> Escaped(p[i])]

(* at[k] bytes of the body come before the escape of the (k+1)st byte *)
BodyLayout(p, at) ==
  LET body == FlattenSeq(Pieces(p))
  IN  /\ body \in Seq(Plain)
      /\ at \in [0 .. Len(p) -> Nat]
      /\ at[0] = 0 /\ at[Len(p)] = Len(body)
      /\ \A k \in 0 .. Len(p) - 1 :
           /\ at[k + 1] = at[k] + Len(Escaped(p[k + 1]))
           /\ at[k + 1] <= Len(body)
           /\ \A i \in 1 .. Len(Escaped(p[k + 1])) : body[at[k] + i] = Escaped(p[k + 1])[i]

LEMMA BodyHasLayout ==
  ASSUME NEW p \in Seq(Byte)
  PROVE  \E at : BodyLayout(p, at)
<1> DEFINE n == Len(p)
           E == Pieces(p)
<1>1. n \in Nat /\ DOMAIN p = 1 .. n /\ \A k \in 1 .. n : p[k] \in Byte
  OBVIOUS
<1>2. E \in [1 .. n -> Seq(Plain)] /\ \A k \in 1 .. n : E[k] = Escaped(p[k])
  BY <1>1, EscapedIsPlain DEF Pieces
<1>3. E \in Seq(Seq(Plain)) /\ Len(E) = n
  BY <1>1, <1>2
<1> HIDE DEF E
<1>4. CASE n = 0
  <2> DEFINE at == [k \in 0 .. n |-> 0]
  <2>1. FlattenSeq(E) = E /\ E \in Seq(Plain)
    BY <1>3, <1>4 DEF FlattenSeq
  <2>2. BodyLayout(p, at)
    BY <1>3, <1>4, <2>1 DEF BodyLayout, E
  <2> QED BY <2>2
<1>5. CASE n # 0
  <2>1. PICK F : /\ F = [i \in 1 .. Len(E) |-> IF i = 1 THEN E[i] ELSE F[i - 1] \o E[i]]
                 /\ FlattenSeq(E) = F[Len(E)]
    <3>1. E # <<>>
      BY <1>3, <1>5
    <3> QED BY <1>3, <3>1, FlattenExists
  <2>2. \A k \in 1 .. n : F[k] = IF k = 1 THEN E[k] ELSE F[k - 1] \o E[k]
    BY <1>3, <2>1
  <2>3. F[1] = E[1] /\ \A k \in 1 .. n - 1 : F[k + 1] = F[k] \o E[k + 1]
    <3>1. 1 \in 1 .. n
      BY <1>1, <1>5
    <3>2. \A k \in 1 .. n - 1 : k + 1 \in 1 .. n /\ k + 1 # 1 /\ (k + 1) - 1 = k
      BY <1>1
    <3> HIDE DEF n
    <3> QED BY <2>2, <3>1, <3>2
  <2>4. \A m \in 1 .. n :
           /\ F[m] \in Seq(Plain)
           /\ \A k \in 1 .. m :
                /\ Len(E[k]) <= Len(F[k]) /\ Len(F[k]) <= Len(F[m])
                /\ \A i \in 1 .. Len(E[k]) : F[m][Len(F[k]) - Len(E[k]) + i] = E[k][i]
    <3>1. n \in Nat \ {0}
      BY <1>1, <1>5
    <3>2. E \in [1 .. n -> Seq(Plain)]
      BY <1>2
    <3>3. Concatenates(F, E, n)
      BY <2>3 DEF Concatenates
    <3> HIDE DEF n
    <3>4. HoldsPieces(F, E, n, Plain)
      BY <3>1, <3>2, <3>3, ConcatenationOfPieces
    <3> QED BY <3>4 DEF HoldsPieces
  <2> DEFINE at == [k \in 0 .. n |-> IF k = 0 THEN 0 ELSE Len(F[k])]
             body == F[n]
  <2>5. FlattenSeq(E) = body /\ body \in Seq(Plain)
    <3>1. n \in 1 .. n
      BY <1>1, <1>5
    <3> QED BY <1>3, <2>1, <2>4, <3>1
  <2>6. at \in [0 .. n -> Nat] /\ at[0] = 0 /\ at[n] = Len(body)
    <3>1. \A k \in 1 .. n : Len(F[k]) \in Nat
      BY <2>4
    <3> QED BY <1>1, <1>5, <3>1
  <2>7. ASSUME NEW k \in 0 .. n - 1
        PROVE  /\ at[k + 1] = at[k] + Len(E[k + 1])
               /\ at[k + 1] <= Len(body)
               /\ \A i \in 1 .. Len(E[k + 1]) : body[at[k] + i] = E[k + 1][i]
    <3>1. k + 1 \in 1 .. n /\ n \in 1 .. n
      BY <1>1, <1>5
    <3>2. E[k + 1] \in Seq(Plain) /\ Len(E[k + 1]) \in Nat
      BY <1>2, <3>1
    <3>3. at[k + 1] = Len(F[k + 1])
      BY <3>1
    <3>4. at[k + 1] = at[k] + Len(E[k + 1])
      <4>1. CASE k = 0
        BY <2>3, <3>2, <3>3, <4>1
      <4>2. CASE k # 0
        <5>1. k \in 1 .. n - 1 /\ at[k] = Len(F[k])
          BY <4>2
        <5>2. F[k] \in Seq(Plain) /\ F[k + 1] = F[k] \o E[k + 1]
          <6>1. k \in 1 .. n
            BY <4>2
          <6> QED BY <2>3, <2>4, <5>1, <6>1
        <5>3. Len(F[k + 1]) = Len(F[k]) + Len(E[k + 1])
          BY <3>2, <5>2
        <5> HIDE DEF at
        <5> QED BY <3>3, <5>1, <5>3
      <4> QED BY <4>1, <4>2
    <3>5. at[k] = Len(F[k + 1]) - Len(E[k + 1])
      <4>1. at[k] \in Nat
        BY <2>6
      <4>2. Len(F[k + 1]) \in Nat
        BY <2>4, <3>1
      <4> HIDE DEF at
      <4> QED BY <3>2, <3>3, <3>4, <4>1, <4>2
    <3> HIDE DEF at
    <3> QED BY <2>4, <3>1, <3>3, <3>4, <3>5
  <2>8. BodyLayout(p, at)
    <3> HIDE DEF at
    <3>1. \A k \in 0 .. n - 1 : E[k + 1] = Escaped(p[k + 1])
      BY <1>1, <1>2
    <3> QED BY <2>5, <2>6, <2>7, <3>1 DEF BodyLayout, E
  <2> QED BY <2>8
<1> QED BY <1>4, <1>5

(* Where the parts of an encoded frame are: at[k] bytes come before the    *)
(* (k+1)st byte of the payload, or its escape.                             *)
FrameLayout(p, at) ==
  LET e == Encode(p)
  IN  /\ e \in Seq(Byte)
      /\ at \in [0 .. Len(p) -> Nat]
      /\ at[0] = 2 /\ at[Len(p)] = Len(e) - 1
      /\ \A k \in 0 .. Len(p) : at[k] >= 2
      /\ e[1] = FEND /\ e[2] = Zero /\ e[Len(e)] = FEND
      /\ \A i \in 2 .. Len(e) - 1 : e[i] # FEND
      /\ \A k \in 0 .. Len(p) - 1 :
           /\ at[k + 1] = at[k] + Len(Escaped(p[k + 1]))
           /\ at[k + 1] < Len(e)
           /\ \A i \in 1 .. Len(Escaped(p[k + 1])) : e[at[k] + i] = Escaped(p[k + 1])[i]

LEMMA FrameHasLayout ==
  ASSUME NEW p \in Seq(Byte)
  PROVE  \E at : FrameLayout(p, at)
<1>1. PICK pos : BodyLayout(p, pos)
  BY BodyHasLayout
<1> DEFINE body == FlattenSeq(Pieces(p))
           n == Len(p)
           at == [k \in 0 .. n |-> 2 + pos[k]]
           e == <<FEND, Zero>> \o body \o <<FEND>>
<1>2. e = Encode(p)
  BY DEF Encode, Pieces
<1>3. /\ body \in Seq(Plain) /\ n \in Nat
      /\ pos \in [0 .. n -> Nat] /\ pos[0] = 0 /\ pos[n] = Len(body)
      /\ \A k \in 0 .. n - 1 :
           /\ pos[k + 1] = pos[k] + Len(Escaped(p[k + 1]))
           /\ pos[k + 1] <= Len(body)
           /\ \A i \in 1 .. Len(Escaped(p[k + 1])) : body[pos[k] + i] = Escaped(p[k + 1])[i]
  BY <1>1 DEF BodyLayout
<1> HIDE DEF body, n
<1>4. Plain \subseteq Byte /\ FEND \in Byte /\ Zero \in Plain
  BY KissAssumption DEF Plain, Byte
<1>5. body \in Seq(Byte) /\ Len(body) \in Nat /\ \A i \in 1 .. Len(body) : body[i] # FEND
  BY <1>3, <1>4 DEF Plain
<1>6. /\ e \in Seq(Byte) /\ Len(e) = Len(body) + 3
      /\ e[1] = FEND /\ e[2] = Zero /\ e[Len(e)] = FEND
      /\ \A i \in 1 .. Len(body) : e[2 + i] = body[i]
  <2> HIDE <1>1, <1>2, <1>3
  <2> QED BY <1>4, <1>5
<1> HIDE DEF e
<1>7. \A i \in 2 .. Len(e) - 1 : e[i] # FEND
  <2> SUFFICES ASSUME NEW i \in 2 .. Len(e) - 1
               PROVE  e[i] # FEND
    OBVIOUS
  <2>1. CASE i = 2
    BY <1>6, <2>1, KissAssumption
  <2>2. CASE i # 2
    <3>1. i - 2 \in 1 .. Len(body) /\ 2 + (i - 2) = i
      BY <1>5, <1>6, <2>2
    <3> QED BY <1>5, <1>6, <3>1
  <2> QED BY <2>1, <2>2
<1>8. /\ at \in [0 .. n -> Nat] /\ at[0] = 2 /\ at[n] = Len(e) - 1
      /\ \A k \in 0 .. n : at[k] >= 2
      /\ \A k \in 0 .. n - 1 : at[k] = 2 + pos[k] /\ at[k + 1] = 2 + pos[k + 1]
  BY <1>3, <1>5, <1>6
<1> HIDE DEF at
<1>9. ASSUME NEW k \in 0 .. n - 1
      PROVE  /\ at[k + 1] = at[k] + Len(Escaped(p[k + 1]))
             /\ at[k + 1] < Len(e)
             /\ \A i \in 1 .. Len(Escaped(p[k + 1])) : e[at[k] + i] = Escaped(p[k + 1])[i]
  <2>1. k \in 0 .. n /\ k + 1 \in 0 .. n /\ k + 1 \in 1 .. n
    BY <1>3
  <2>2. pos[k] \in Nat /\ pos[k + 1] \in Nat
    BY <1>3, <2>1
  <2>3. Escaped(p[k + 1]) \in Seq(Plain) /\ Len(Escaped(p[k + 1])) \in Nat
    <3>1. p[k + 1] \in Byte
      BY <2>1 DEF n
    <3> QED BY <3>1, EscapedIsPlain
  <2>4. at[k + 1] = at[k] + Len(Escaped(p[k + 1])) /\ at[k + 1] < Len(e)
    <3>1. /\ pos[k + 1] = pos[k] + Len(Escaped(p[k + 1])) /\ pos[k + 1] <= Len(body)
          /\ at[k] = 2 + pos[k] /\ at[k + 1] = 2 + pos[k + 1]
      BY <1>3, <1>8
    <3>2. Len(body) \in Nat /\ Len(e) = Len(body) + 3
      BY <1>5, <1>6
    <3>3. /\ Len(Escaped(p[k + 1])) \in Nat /\ pos[k] \in Nat /\ pos[k + 1] \in Nat
      BY <2>2, <2>3
    <3>4. at[k + 1] = at[k] + Len(Escaped(p[k + 1]))
      BY ONLY <3>1, <3>3
    <3>5. at[k + 1] < Len(e)
      BY ONLY <3>1, <3>2, <3>3
    <3> QED BY <3>4, <3>5
  <2>5. ASSUME NEW i \in 1 .. Len(Escaped(p[k + 1]))
        PROVE  e[at[k] + i] = Escaped(p[k + 1])[i]
    <3>1. pos[k + 1] = pos[k] + Len(Escaped(p[k + 1])) /\ pos[k + 1] <= Len(body)
      BY <1>3
    <3>2. at[k] = 2 + pos[k]
      BY <1>8
    <3>3. pos[k] + i \in 1 .. Len(body) /\ at[k] + i = 2 + (pos[k] + i)
      <4>1. /\ Len(Escaped(p[k + 1])) \in Nat /\ Len(body) \in Nat
            /\ pos[k] \in Nat /\ i \in 1 .. Len(Escaped(p[k + 1]))
        BY <1>5, <2>2, <2>3
      <4> QED BY ONLY <3>1, <3>2, <4>1
    <3> QED BY <1>3, <1>6, <3>3
  <2> QED BY <2>4, <2>5
<1>10. FrameLayout(p, at)
  BY <1>2, <1>6, <1>7, <1>8, <1>9 DEF FrameLayout, n
<1> QED BY <1>10

At(p) == CHOOSE at : FrameLayout(p, at)

(* what is left of a frame when j of its bytes were read *)
Rest(p, j) == [i \in 1 .. Len(Encode(p)) - j |-> Encode(p)[i + j]]

(* reading a frame byte by byte takes the rest to the next rest *)
LEMMA RestOfFrame ==
  ASSUME NEW p \in Seq(Byte)
  PROVE  /\ FrameLayout(p, At(p))
         /\ Encode(p) \in Seq(Byte) /\ Len(Encode(p)) \in Nat /\ Len(Encode(p)) >= 3
         /\ Rest(p, 0) = Encode(p) /\ Rest(p, Len(Encode(p))) = <<>>
         /\ \A j \in 0 .. Len(Encode(p)) - 1 :
              /\ Rest(p, j) # <<>>
              /\ Head(Rest(p, j)) = Encode(p)[j + 1]
              /\ Tail(Rest(p, j)) = Rest(p, j + 1)
              /\ Rest(p, j) = Encode(p) => j = 0
<1>1. FrameLayout(p, At(p))
  BY FrameHasLayout DEF At
<1> DEFINE e == Encode(p)
<1>2. e \in Seq(Byte) /\ Len(e) \in Nat
  BY <1>1 DEF FrameLayout
<1>3. Len(e) >= 3
  <2>1. At(p)[Len(p)] = Len(e) - 1 /\ At(p)[Len(p)] >= 2
    BY <1>1 DEF FrameLayout
  <2> QED BY <1>2, <2>1
<1> HIDE DEF e
<1>4. Rest(p, 0) = e
  <2>1. Rest(p, 0) = [i \in 1 .. Len(e) |-> e[i]]
    BY <1>2 DEF Rest, e
  <2> QED BY <1>2, <2>1
<1>5. Rest(p, Len(e)) = <<>>
  BY <1>2 DEF Rest, e
<1>6. ASSUME NEW j \in 0 .. Len(e) - 1
      PROVE  /\ Rest(p, j) # <<>>
             /\ Head(Rest(p, j)) = e[j + 1]
             /\ Tail(Rest(p, j)) = Rest(p, j + 1)
             /\ Rest(p, j) = e => j = 0
  <2> DEFINE r == Rest(p, j)
             t == Rest(p, j + 1)
  <2>1. r = [i \in 1 .. Len(e) - j |-> e[i + j]] /\ Len(e) - j \in Nat \ {0}
    BY <1>2 DEF Rest, e
  <2>2. r \in Seq(Byte) /\ Len(r) = Len(e) - j /\ r[1] = e[j + 1]
    BY <1>2, <2>1
  <2>3. t = [i \in 1 .. Len(e) - j - 1 |-> e[i + (j + 1)]]
    BY <1>2 DEF Rest, e
  <2>4. t \in Seq(Byte) /\ Len(t) = Len(r) - 1
    <3>1. \A i \in 1 .. Len(e) - j - 1 : i + (j + 1) \in 1 .. Len(e)
      BY <1>2
    <3>2. \A i \in 1 .. Len(e) - j - 1 : e[i + (j + 1)] \in Byte
      BY <1>2, <3>1
    <3>3. Len(e) - j - 1 \in Nat
      BY <2>1
    <3> HIDE DEF t
    <3> QED BY <1>2, <2>2, <2>3, <3>2, <3>3
  <2>5. \A i \in 1 .. Len(t) : t[i] = r[i + 1]
    <3> SUFFICES ASSUME NEW i \in 1 .. Len(t)
                 PROVE  t[i] = r[i + 1]
      OBVIOUS
    <3> HIDE DEF t, r
    <3>1. i \in 1 .. Len(e) - j - 1 /\ i + 1 \in 1 .. Len(e) - j
      BY <1>2, <2>2, <2>4
    <3>2. t[i] = e[i + (j + 1)] /\ r[i + 1] = e[(i + 1) + j]
      BY <2>1, <2>3, <3>1
    <3>3. i + (j + 1) = (i + 1) + j
      BY <3>1
    <3> QED BY <3>2, <3>3
  <2> HIDE DEF r, t
  <2>6. r # <<>> /\ Head(r) = r[1]
    BY <1>2, <2>2
  <2>7. Tail(r) = t
    <3>1. Tail(r) \in Seq(Byte) /\ Len(Tail(r)) = Len(r) - 1
      BY <2>2, <2>6
    <3>2. \A i \in 1 .. Len(t) : Tail(r)[i] = t[i]
      BY <2>2, <2>4, <2>5, <2>6
    <3> QED BY <2>4, <3>1, <3>2, SeqEqual
  <2>8. r = e => j = 0
    BY <1>2, <2>2
  <2> QED BY <2>2, <2>6, <2>7, <2>8 DEF r, t
<1> QED BY <1>1, <1>2, <1>3, <1>4, <1>5, <1>6 DEF e

(* what the line carries for the (k+1)st byte of the payload *)
LEMMA PayloadByte ==
  ASSUME NEW p \in Seq(Byte), NEW k \in 0 .. Len(p) - 1
  PROVE  LET c == p[k + 1]
             e == Encode(p)
             j == At(p)[k]
         IN  /\ c \in Byte
             /\ j \in Nat /\ j + 1 < Len(e)
             /\ c \notin {FEND, FESC} => e[j + 1] = c /\ At(p)[k + 1] = j + 1
             /\ c \in {FEND, FESC} =>
                  /\ j + 2 < Len(e) /\ At(p)[k + 1] = j + 2
                  /\ e[j + 1] = FESC /\ e[j + 2] = IF c = FEND THEN TFEND ELSE TFESC
<1> DEFINE c == p[k + 1]
           e == Encode(p)
           at == At(p)
           E == Escaped(c)
<1>1. /\ at \in [0 .. Len(p) -> Nat] /\ at[k + 1] = at[k] + Len(E) /\ at[k + 1] < Len(e)
      /\ \A i \in 1 .. Len(E) : e[at[k] + i] = E[i]
  BY RestOfFrame DEF FrameLayout
<1>2. k + 1 \in 1 .. Len(p) /\ k \in 0 .. Len(p) /\ c \in Byte /\ Len(e) \in Nat
  BY RestOfFrame
<1>3. at[k] \in Nat
  BY <1>1, <1>2
<1>4. /\ c \notin {FEND, FESC} => Len(E) = 1 /\ E[1] = c
      /\ c \in {FEND, FESC} => Len(E) = 2 /\ E[1] = FESC /\ E[2] = IF c = FEND THEN TFEND ELSE TFESC
  BY DEF Escaped
<1> HIDE DEF c, e, at, E
<1>5. CASE c \notin {FEND, FESC}
  BY <1>1, <1>2, <1>3, <1>4, <1>5 DEF c, e, at
<1>6. CASE c \in {FEND, FESC}
  <2>1. 1 \in 1 .. Len(E) /\ 2 \in 1 .. Len(E) /\ Len(E) = 2
    BY <1>4, <1>6
  <2> QED BY <1>1, <1>2, <1>3, <1>4, <1>6, <2>1 DEF c, e, at
<1> QED BY <1>5, <1>6
-----------------------------------------------------------------------------
(* the next FEND starts a frame *)
Clean == ~ (kiss_in_frame /\ kiss_buf # <<>>)

(* The six places the decoder can be in a frame of which nothing was lost. *)

NotBegun ==
  line = Encode(current) /\ reports = <<>> /\ (whole_before => Clean)

AfterFend ==
  /\ line = Rest(current, 1) /\ reports = <<>>
  /\ kiss_in_frame /\ ~ kiss_escaped /\ ~ kiss_saw_type /\ kiss_buf = <<>>

(* the first k bytes of the payload, and nothing was reported yet *)
HasRead(k) ==
  /\ reports = <<>>
  /\ kiss_in_frame /\ kiss_saw_type
  /\ kiss_buf = SubSeq(current, 1, k) /\ k <= MaxFrame

BetweenBytes ==
  \E k \in 0 .. Len(current) :
    HasRead(k) /\ ~ kiss_escaped /\ line = Rest(current, At(current)[k])

InEscape ==
  \E k \in 0 .. Len(current) - 1 :
    /\ HasRead(k) /\ kiss_escaped /\ line = Rest(current, At(current)[k] + 1)
    /\ current[k + 1] \in {FEND, FESC}

TooLong == reports = <<Error>> /\ Len(current) > MaxFrame

EndedTheFrameBefore ==
  ~ whole_before /\ Len(reports) = 1 /\ reports[1].status = 1

(* the rest of the frame is ignored, for one of two reasons *)
Skipping ==
  /\ ~ kiss_in_frame
  /\ \E j \in 1 .. Len(Encode(current)) - 1 : line = Rest(current, j)
  /\ TooLong \/ EndedTheFrameBefore

Done ==
  /\ line = <<>> /\ Clean
  /\ reports = Expected(current) \/ EndedTheFrameBefore

Phase == NotBegun \/ AfterFend \/ BetweenBytes \/ InEscape \/ Skipping \/ Done

(* the inductive invariant *)
Inv == TypeOK /\ (whole => Phase)

LEMMA PayloadsAreBytes == TypeOK => current \in Seq(Byte)
<1>1. <<>> \in Seq(Byte)
  OBVIOUS
<1> QED BY <1>1, KissLineAssumption DEF TypeOK

LEMMA EncodeIsBytes == \A p \in Seq(Byte) : Encode(p) \in Seq(Byte)
BY RestOfFrame

(* reading one byte of the current frame *)
LEMMA Reads ==
  ASSUME TypeOK, ReadByte, NEW j \in 0 .. Len(Encode(current)) - 1, line = Rest(current, j)
  PROVE  /\ DecodeByte(Encode(current)[j + 1])
         /\ line' = Rest(current, j + 1)
         /\ UNCHANGED <<current, whole, whole_before>>
BY PayloadsAreBytes, RestOfFrame DEF ReadByte

(* every action keeps the types; the decoder takes no byte beyond MaxFrame *)
LEMMA TypeStep == TypeOK /\ [Next]_vars => TypeOK'
<1> SUFFICES ASSUME TypeOK, [Next]_vars
             PROVE  TypeOK'
  OBVIOUS
<1> USE DEF TypeOK, DecoderTypeOK, flags
<1>e. <<>> \in Seq(Byte) /\ Len(<<>>) <= MaxFrame
  BY KissAssumption
<1>1. ASSUME NEW p \in Payload, HostSends(p)
      PROVE  TypeOK'
  <2>1. Encode(p) \in Seq(Byte)
    BY EncodeIsBytes, KissLineAssumption
  <2>2. <<>> \in Seq([status : {1, -1}, payload : Seq(Byte)])
    OBVIOUS
  <2> QED BY <1>1, <2>1, <2>2 DEF HostSends, decoder
<1>2. CASE ReadByte
  <2> DEFINE b == Head(line)
  <2>1. line \in Seq(Byte) /\ line # <<>> /\ b \in Byte /\ Tail(line) \in Seq(Byte)
    BY <1>2 DEF ReadByte
  <2>2. DecodeByte(b)
    BY <1>2 DEF ReadByte
  <2> HIDE DEF b
  <2>3. DecoderTypeOK'
    <3>1. CASE CompletesFrame(b) \/ StartsFrame(b) \/ IgnoresByte(b) \/ TakesType(b)
               \/ StartsEscape(b) \/ FramingError(b)
      BY <1>e, <3>1 DEF CompletesFrame, StartsFrame, IgnoresByte, TakesType, StartsEscape,
                        FramingError, SetFlags
    <3>2. CASE TakesByte(b)
      <4>1. PICK c \in Unescaped(b) : kiss_buf' = Append(kiss_buf, c)
        BY <3>2 DEF TakesByte
      <4>2. c \in Byte
        BY <2>1 DEF Unescaped, Byte
      <4>3. kiss_buf' \in Seq(Byte) /\ Len(kiss_buf') = Len(kiss_buf) + 1 /\ Len(kiss_buf) \in Nat
        BY <4>1, <4>2
      <4>4. Len(kiss_buf') <= MaxFrame
        BY <3>2, <4>3, KissAssumption DEF TakesByte, Fits
      <4> QED BY <3>2, <4>3, <4>4 DEF TakesByte, SetFlags
    <3> QED BY <2>2, <3>1, <3>2 DEF DecodeByte
  <2>4. reports' \in Seq([status : {1, -1}, payload : Seq(Byte)])
    <3> DEFINE R == [status : {1, -1}, payload : Seq(Byte)]
    <3>1. Error \in R
      BY <1>e DEF Error
    <3>2. Frame(kiss_buf') \in R
      BY <2>3 DEF Frame
    <3> HIDE DEF R
    <3>3. reports \in Seq(R)
      BY DEF R
    <3>4. \/ reports' = reports
          \/ reports' = Append(reports, Frame(kiss_buf'))
          \/ reports' = Append(reports, Error)
      BY <1>2 DEF ReadByte
    <3>5. \A r \in R : Append(reports, r) \in Seq(R)
      BY ONLY <3>3
    <3>6. reports' \in Seq(R)
      BY ONLY <3>1, <3>2, <3>3, <3>4, <3>5
    <3> QED BY <3>6 DEF R
  <2>5. /\ line' \in Seq(Byte) /\ current' \in Payload \cup {<<>>}
        /\ whole' \in BOOLEAN /\ whole_before' \in BOOLEAN
    BY <1>2, <2>1 DEF ReadByte, b
  <2> HIDE DEF TypeOK, DecoderTypeOK
  <2> QED BY <2>3, <2>4, <2>5 DEF TypeOK
<1>3. CASE LoseByte
  <2>1. line' \in Seq(Byte) /\ whole' \in BOOLEAN
    <3>1. line \in Seq(Byte) /\ line # <<>> /\ line' = Tail(line) /\ whole' = FALSE
      BY <1>3 DEF LoseByte
    <3> HIDE DEF TypeOK, DecoderTypeOK
    <3>2. Tail(line) \in Seq(Byte)
      BY <3>1
    <3> QED BY <3>1, <3>2
  <2>2. DecoderTypeOK'
    BY <1>3 DEF LoseByte, decoder
  <2>3. UNCHANGED <<current, whole_before, reports>>
    BY <1>3 DEF LoseByte
  <2> HIDE DEF DecoderTypeOK
  <2> QED BY <2>1, <2>2, <2>3
<1>4. CASE Restart
  BY <1>4, <1>e DEF Restart, SetFlags
<1>5. CASE UNCHANGED vars
  BY <1>5 DEF vars, decoder
<1> QED BY <1>1, <1>2, <1>3, <1>4, <1>5 DEF Next


(* the byte of the payload that ends here is taken, or does not fit *)
LEMMA PayloadByteStep ==
  ASSUME TypeOK, ReadByte, NEW k \in 0 .. Len(current) - 1, HasRead(k), NEW b,
         Unescaped(b) = {current[k + 1]}, TakesByte(b) \/ FramingError(b),
         NEW i \in 1 .. Len(Encode(current)) - 1, At(current)[k + 1] = i, line' = Rest(current, i)
  PROVE  Phase'
<1> DEFINE p == current
           n == Len(p)
           c == p[k + 1]
<1>1. p \in Seq(Byte) /\ n \in Nat /\ k + 1 \in 0 .. n /\ k + 1 \in 1 .. n
  BY PayloadsAreBytes
<1>2. /\ reports = <<>> /\ kiss_in_frame /\ kiss_saw_type
      /\ kiss_buf = SubSeq(p, 1, k) /\ k <= MaxFrame
  BY DEF HasRead
<1>3. p' = p /\ whole_before' = whole_before
  BY DEF ReadByte
<1>4. \/ returned' = 0 /\ reports' = reports
      \/ returned' = 1 /\ reports' = Append(reports, Frame(kiss_buf'))
      \/ returned' = -1 /\ reports' = Append(reports, Error)
  BY DEF ReadByte
<1>5. Len(kiss_buf) = k
  <2> HIDE DEF p
  <2> QED BY <1>1, <1>2 DEF n
<1> HIDE DEF p, n
<1>6. CASE TakesByte(b)
  <2>1. kiss_buf' = Append(SubSeq(p, 1, k), c) /\ k < MaxFrame
    BY <1>2, <1>5, <1>6 DEF TakesByte, Fits, c, p
  <2>2. SubSeq(p, 1, k + 1) = Append(SubSeq(p, 1, k), c)
    BY <1>1, SubSeqRecursiveSecond DEF n, c
  <2>3. k + 1 <= MaxFrame
    BY <2>1, <1>1, KissAssumption
  <2>4. reports' = <<>> /\ kiss_in_frame' /\ ~ kiss_escaped' /\ kiss_saw_type'
    BY <1>2, <1>4, <1>6 DEF TakesByte, SetFlags
  <2>5. BetweenBytes'
    BY <1>1, <1>3, <2>1, <2>2, <2>3, <2>4 DEF BetweenBytes, HasRead, p, n
  <2> QED BY <2>5 DEF Phase
<1>7. CASE FramingError(b)
  <2>1. ~ (k < MaxFrame)
    BY <1>5, <1>7 DEF FramingError, Fits
  <2>2. n > MaxFrame
    BY <1>1, <2>1, KissAssumption
  <2>3. reports' = <<Error>> /\ ~ kiss_in_frame'
    BY <1>2, <1>4, <1>7 DEF FramingError, SetFlags
  <2>4. Skipping'
    BY <1>3, <2>2, <2>3 DEF Skipping, TooLong, Error, p, n
  <2> QED BY <2>4 DEF Phase
<1> QED BY <1>6, <1>7

(* one byte read takes the decoder from each place to the next *)
LEMMA PhaseStep ==
  ASSUME TypeOK, whole => Phase, ReadByte, whole
  PROVE  Phase'
<1> DEFINE p == current
           e == Encode(p)
           n == Len(p)
<1>1. p \in Seq(Byte) /\ n \in Nat
  BY PayloadsAreBytes
<1>2. FrameLayout(p, At(p)) /\ Len(e) \in Nat /\ Len(e) >= 3 /\ Rest(p, 0) = e
      /\ Rest(p, Len(e)) = <<>>
  BY <1>1, RestOfFrame
<1>3. /\ e[1] = FEND /\ e[2] = Zero /\ e[Len(e)] = FEND /\ At(p)[0] = 2 /\ At(p)[n] = Len(e) - 1
      /\ \A i \in 2 .. Len(e) - 1 : e[i] # FEND
  BY <1>2 DEF FrameLayout
<1>4. p' = p /\ whole_before' = whole_before
  BY DEF ReadByte
<1> HIDE DEF e
<1>5. ASSUME NEW j \in 0 .. Len(e) - 1, line = Rest(p, j)
      PROVE  DecodeByte(e[j + 1]) /\ line' = Rest(p, j + 1)
  BY <1>5, Reads DEF e
<1>6. \/ returned' = 0 /\ reports' = reports
      \/ returned' = 1 /\ reports' = Append(reports, Frame(kiss_buf'))
      \/ returned' = -1 /\ reports' = Append(reports, Error)
  BY DEF ReadByte
<1>7. FEND # FESC /\ FEND # TFEND /\ FEND # TFESC /\ FEND # Zero /\ TFEND # TFESC /\ MaxFrame \in Nat
  BY KissAssumption
<1> HIDE DEF p, n
<1>a. CASE NotBegun
  <2>1. 0 \in 0 .. Len(e) - 1 /\ line = Rest(p, 0)
    BY <1>2, <1>a DEF NotBegun, e, p
  <2>2. DecodeByte(FEND) /\ line' = Rest(p, 1)
    BY <1>3, <1>5, <2>1
  <2>3. CASE CompletesFrame(FEND)
    <3>1. reports' = <<Frame(kiss_buf')>> /\ ~ kiss_in_frame' /\ ~ whole_before
      BY <1>6, <1>a, <2>3 DEF CompletesFrame, NotBegun, Clean, SetFlags
    <3>2. EndedTheFrameBefore'
      BY <1>4, <3>1 DEF EndedTheFrameBefore, Frame
    <3>3. 1 \in 1 .. Len(e) - 1
      BY <1>2
    <3>4. Skipping'
      BY <1>4, <2>2, <3>1, <3>2, <3>3 DEF Skipping, e, p
    <3> QED BY <3>4 DEF Phase
  <2>4. CASE StartsFrame(FEND)
    <3>1. AfterFend'
      BY <1>4, <1>6, <1>a, <2>2, <2>4 DEF AfterFend, StartsFrame, SetFlags, NotBegun, p
    <3> QED BY <3>1 DEF Phase
  <2> QED BY <2>2, <2>3, <2>4 DEF DecodeByte, IgnoresByte, TakesType, StartsEscape, TakesByte,
                               FramingError, InPayload
<1>b. CASE AfterFend
  <2>1. 1 \in 0 .. Len(e) - 1 /\ line = Rest(p, 1)
    BY <1>2, <1>b DEF AfterFend, p
  <2>2. DecodeByte(Zero) /\ line' = Rest(p, 2)
    BY <1>3, <1>5, <2>1
  <2>3. TakesType(Zero)
    BY <1>7, <1>b, <2>2 DEF AfterFend, DecodeByte, CompletesFrame, StartsFrame, IgnoresByte,
                            StartsEscape, TakesByte, FramingError, InPayload
  <2>4. reports' = <<>> /\ kiss_in_frame' /\ kiss_saw_type' /\ ~ kiss_escaped' /\ kiss_buf' = <<>>
    BY <1>6, <1>b, <2>3 DEF AfterFend, TakesType, SetFlags
  <2>5. SubSeq(p, 1, 0) = <<>> /\ 0 \in 0 .. n /\ 0 <= MaxFrame
    BY <1>1, <1>7
  <2>6. BetweenBytes'
    BY <1>3, <1>4, <2>2, <2>4, <2>5 DEF BetweenBytes, HasRead, p, n
  <2> QED BY <2>6 DEF Phase
<1>c. ASSUME NEW k \in 0 .. n, HasRead(k), ~ kiss_escaped, line = Rest(p, At(p)[k])
      PROVE  Phase'
  <2>1. /\ reports = <<>> /\ kiss_in_frame /\ kiss_saw_type
        /\ kiss_buf = SubSeq(p, 1, k) /\ k <= MaxFrame
    BY <1>c DEF HasRead, p
  <2>2. CASE k = n
    <3>1. Len(e) - 1 \in 0 .. Len(e) - 1 /\ line = Rest(p, Len(e) - 1)
      BY <1>2, <1>3, <1>c, <2>2
    <3>2. DecodeByte(FEND) /\ line' = <<>>
      BY <1>2, <1>3, <1>5, <3>1
    <3>3. kiss_buf = p
      BY <1>1, <2>1, <2>2, SubSeqFull DEF n
    <3>4. CASE p = <<>>
      <4>1. StartsFrame(FEND)
        BY <2>1, <3>2, <3>3, <3>4 DEF DecodeByte, CompletesFrame, IgnoresByte, TakesType,
                                StartsEscape, TakesByte, FramingError, InPayload
      <4>2. reports' = <<>> /\ kiss_buf' = <<>>
        BY <1>6, <2>1, <4>1 DEF StartsFrame
      <4>3. Done'
        BY <1>4, <3>2, <3>4, <4>2 DEF Done, Clean, Expected, p
      <4> QED BY <4>3 DEF Phase
    <3>5. CASE p # <<>>
      <4>1. CompletesFrame(FEND)
        BY <2>1, <3>2, <3>3, <3>5 DEF DecodeByte, StartsFrame, IgnoresByte, TakesType,
                                StartsEscape, TakesByte, FramingError, InPayload
      <4>2. reports' = <<Frame(p)>> /\ ~ kiss_in_frame'
        BY <1>6, <2>1, <3>3, <4>1 DEF CompletesFrame, SetFlags
      <4>3. ~ (n > MaxFrame)
        BY <1>1, <1>7, <2>1, <2>2
      <4>4. Done'
        BY <1>4, <3>2, <3>5, <4>2, <4>3 DEF Done, Clean, Expected, Frame, p, n
      <4> QED BY <4>4 DEF Phase
    <3> QED BY <3>4, <3>5
  <2>3. CASE k # n
    <3> DEFINE c == p[k + 1]
               j == At(p)[k]
    <3>1. k \in 0 .. n - 1 /\ k + 1 \in 0 .. n
      BY <1>1, <2>3
    <3>2. /\ c \in Byte /\ j \in Nat /\ j + 1 < Len(e)
          /\ c \notin {FEND, FESC} => e[j + 1] = c /\ At(p)[k + 1] = j + 1
          /\ c \in {FEND, FESC} => e[j + 1] = FESC
      BY <1>1, <3>1, PayloadByte DEF e, n
    <3> HIDE DEF c, j
    <3>3. DecodeByte(e[j + 1]) /\ line' = Rest(p, j + 1)
      BY <1>2, <1>5, <1>c, <3>2 DEF j
    <3>4. CASE c \in {FEND, FESC}
      <4>1. StartsEscape(FESC)
        BY <1>7, <1>c, <2>1, <3>2, <3>3, <3>4 DEF DecodeByte, CompletesFrame, StartsFrame, IgnoresByte,
                               TakesType, TakesByte, FramingError, InPayload, Unescaped
      <4>2. /\ reports' = <<>> /\ kiss_in_frame' /\ kiss_saw_type' /\ kiss_escaped'
            /\ kiss_buf' = SubSeq(p, 1, k)
        BY <1>6, <2>1, <4>1 DEF StartsEscape, SetFlags
      <4>3. InEscape'
        BY <1>4, <2>1, <3>1, <3>3, <3>4, <4>2 DEF InEscape, HasRead, c, j, p, n
      <4> QED BY <4>3 DEF Phase
    <3>5. CASE c \notin {FEND, FESC}
      <4>1. Unescaped(c) = {c}
        BY <1>c, <3>5 DEF Unescaped
      <4>2. DecodeByte(c)
        BY <3>2, <3>3, <3>5
      <4>3. TakesByte(c) \/ FramingError(c)
        BY <3>5, <2>1, <4>2 DEF DecodeByte, CompletesFrame, StartsFrame, IgnoresByte,
                               TakesType, StartsEscape, InPayload
      <4>4. At(p)[k + 1] = j + 1
        BY <3>2, <3>5
      <4>5. j + 1 \in 1 .. Len(e) - 1
        BY <1>2, <3>2
      <4> HIDE DEF Phase
      <4> QED BY <1>c, <3>1, <3>3, <4>1, <4>3, <4>4, <4>5, PayloadByteStep DEF c, e, n, p
    <3> QED BY <3>4, <3>5
  <2> QED BY <2>2, <2>3
<1>d. ASSUME NEW k \in 0 .. n - 1, HasRead(k), kiss_escaped, p[k + 1] \in {FEND, FESC},
             line = Rest(p, At(p)[k] + 1)
      PROVE  Phase'
  <2> DEFINE c == p[k + 1]
             j == At(p)[k]
             b == IF c = FEND THEN TFEND ELSE TFESC
  <2>1. kiss_in_frame /\ kiss_saw_type
    BY <1>d DEF HasRead
  <2>2. j \in Nat /\ j + 2 < Len(e) /\ At(p)[k + 1] = j + 2 /\ e[j + 2] = b
    BY <1>1, <1>d, PayloadByte DEF e, n
  <2> HIDE DEF j
  <2>3. DecodeByte(b) /\ line' = Rest(p, j + 2)
    <3>1. j + 1 \in 0 .. Len(e) - 1 /\ (j + 1) + 1 = j + 2
      BY <1>2, <2>2
    <3> QED BY <1>5, <1>d, <2>2, <3>1 DEF j
  <2>4. Unescaped(b) = {c}
    BY <1>7, <1>d DEF Unescaped
  <2>5. b # FEND
    BY <1>7
  <2> HIDE DEF b, c
  <2>6. TakesByte(b) \/ FramingError(b)
    BY <1>d, <2>1, <2>3, <2>5 DEF DecodeByte, CompletesFrame, StartsFrame, IgnoresByte,
                           TakesType, StartsEscape, InPayload
  <2>7. j + 2 \in 1 .. Len(e) - 1
    BY <1>2, <2>2
  <2> QED BY <1>d, <2>2, <2>3, <2>4, <2>6, <2>7, PayloadByteStep DEF c, e, n, p
<1>e. ASSUME Skipping
      PROVE  Phase'
  <2>1. PICK j \in 1 .. Len(e) - 1 : line = Rest(p, j)
    BY <1>e DEF Skipping, e, p
  <2>2. ~ kiss_in_frame /\ (TooLong \/ EndedTheFrameBefore)
    BY <1>e DEF Skipping
  <2>3. DecodeByte(e[j + 1]) /\ line' = Rest(p, j + 1)
    BY <1>5, <2>1
  <2>4. CASE j = Len(e) - 1
    <3>5. DecodeByte(FEND) /\ line' = <<>>
      <4>1. j + 1 = Len(e)
        BY <1>2, <2>4
      <4> QED BY <1>2, <1>3, <2>3, <4>1
    <3>1. StartsFrame(FEND) /\ line' = <<>>
      BY <2>2, <3>5 DEF DecodeByte, CompletesFrame, IgnoresByte, TakesType,
                       StartsEscape, TakesByte, FramingError, InPayload
    <3>2. reports' = reports /\ kiss_buf' = <<>>
      BY <1>6, <3>1 DEF StartsFrame
    <3>3. TooLong => reports' = Expected(p)
      <4>1. n > MaxFrame => p # <<>>
        BY <1>1, <1>7 DEF n
      <4> QED BY <3>2, <4>1 DEF TooLong, Expected, n, p
    <3>4. Done'
      BY <1>4, <2>2, <3>1, <3>2, <3>3 DEF Done, Clean, EndedTheFrameBefore, p
    <3> QED BY <3>4 DEF Phase
  <2>5. CASE j # Len(e) - 1
    <3>1. j + 1 \in 2 .. Len(e) - 1 /\ j + 1 \in 1 .. Len(e) - 1
      BY <1>2, <2>5
    <3>2. IgnoresByte(e[j + 1])
      BY <1>3, <2>2, <2>3, <3>1 DEF DecodeByte, CompletesFrame, StartsFrame, TakesType,
                       StartsEscape, TakesByte, FramingError, InPayload
    <3>3. reports' = reports /\ ~ kiss_in_frame'
      BY <1>6, <2>2, <3>2 DEF IgnoresByte, flags
    <3>4. Skipping'
      BY <1>4, <2>2, <2>3, <3>1, <3>3 DEF Skipping, TooLong, EndedTheFrameBefore, e, p
    <3> QED BY <3>4 DEF Phase
  <2> QED BY <2>4, <2>5
<1>f. ~ Done
  BY DEF Done, ReadByte
<1>g. BetweenBytes => Phase'
  BY <1>c DEF BetweenBytes, n, p
<1>h. InEscape => Phase'
  BY <1>d DEF InEscape, n, p
<1> QED BY <1>a, <1>b, <1>e, <1>f, <1>g, <1>h DEF Phase

LEMMA InvInit == Init => Inv
<1> SUFFICES ASSUME Init
             PROVE  Inv
  OBVIOUS
<1>1. /\ <<>> \in Seq(Byte) /\ Len(<<>>) = 0
      /\ <<>> \in Seq([status : {1, -1}, payload : Seq(Byte)])
  OBVIOUS
<1>2. TypeOK
  <2>1. DecoderTypeOK
    <3>1. flags = <<FALSE, FALSE, FALSE>> /\ kiss_buf = <<>> /\ returned = 0
      BY DEF Init, DecoderReset, flags
    <3>2. kiss_buf \in Seq(Byte) /\ Len(kiss_buf) <= MaxFrame
      BY <1>1, <3>1, KissAssumption
    <3> QED BY <3>1, <3>2 DEF DecoderTypeOK
  <2> QED BY <1>1, <2>1 DEF Init, TypeOK
<1>3. Done
  BY DEF Init, DecoderReset, Done, Clean, Expected
<1> QED BY <1>2, <1>3 DEF Inv, Phase

(* what is left on the line tells the start and the end of a frame *)
LEMMA LineOfPhase ==
  ASSUME TypeOK, Phase
  PROVE  /\ line = <<>> => Done
         /\ line = Encode(current) => NotBegun
<1> DEFINE p == current
           L == Len(Encode(p))
<1>1. p \in Seq(Byte) /\ Len(p) \in Nat
  BY PayloadsAreBytes
<1>2. /\ L \in Nat /\ L >= 3 /\ Rest(p, 0) = Encode(p) /\ Encode(p) # <<>>
      /\ At(p)[Len(p)] = L - 1
      /\ \A k \in 0 .. Len(p) : At(p)[k] \in Nat /\ At(p)[k] >= 2
      /\ \A j \in 1 .. L - 1 : Rest(p, j) # <<>> /\ Rest(p, j) # Encode(p)
  <2>1. /\ L \in Nat /\ L >= 3 /\ Rest(p, 0) = Encode(p) /\ Encode(p) # <<>>
        /\ FrameLayout(p, At(p))
    BY <1>1, RestOfFrame
  <2>2. ASSUME NEW j \in 1 .. L - 1
        PROVE  Rest(p, j) # <<>> /\ Rest(p, j) # Encode(p)
    <3>1. j \in 0 .. L - 1 /\ j # 0
      BY <2>1
    <3> QED BY <1>1, <3>1, RestOfFrame
  <2> HIDE DEF p, L
  <2>3. /\ At(p)[Len(p)] = L - 1
        /\ \A k \in 0 .. Len(p) : At(p)[k] \in Nat /\ At(p)[k] >= 2
    BY <2>1 DEF FrameLayout, L
  <2> QED BY <2>1, <2>2, <2>3
<1> HIDE DEF p, L
<1>3. ASSUME NEW k \in 0 .. Len(p) - 1
      PROVE  k \in 0 .. Len(p) /\ At(p)[k] + 1 < L
  BY <1>1, PayloadByte DEF L
<1>4. ASSUME NEW j \in 1 .. L - 1, line = Rest(p, j)
      PROVE  line # <<>> /\ line # Encode(p)
  BY <1>2, <1>4
<1>5. NotBegun => line # <<>>
  BY <1>2 DEF NotBegun, p
<1>6. Done => line # Encode(p)
  BY <1>2 DEF Done
<1>7. AfterFend => \E j \in 1 .. L - 1 : line = Rest(p, j)
  BY <1>2 DEF AfterFend, p
<1>8. Skipping => \E j \in 1 .. L - 1 : line = Rest(p, j)
  BY DEF Skipping, p, L
<1>9. BetweenBytes => \E j \in 1 .. L - 1 : line = Rest(p, j)
  <2> SUFFICES ASSUME NEW k \in 0 .. Len(p), line = Rest(p, At(p)[k])
               PROVE  At(p)[k] \in 1 .. L - 1
    BY DEF BetweenBytes, p
  <2>1. CASE k = Len(p)
    BY <1>2, <2>1
  <2>2. CASE k # Len(p)
    <3>1. k \in 0 .. Len(p) - 1
      BY <1>1, <2>2
    <3> QED BY <1>2, <1>3, <3>1
  <2> QED BY <2>1, <2>2
<1>10. InEscape => \E j \in 1 .. L - 1 : line = Rest(p, j)
  <2> SUFFICES ASSUME NEW k \in 0 .. Len(p) - 1, line = Rest(p, At(p)[k] + 1)
               PROVE  At(p)[k] + 1 \in 1 .. L - 1
    BY DEF InEscape, p
  <2> QED BY <1>2, <1>3
<1> QED BY <1>4, <1>5, <1>6, <1>7, <1>8, <1>9, <1>10 DEF Phase, p

LEMMA InvStep == Inv /\ [Next]_vars => Inv'
<1> SUFFICES ASSUME Inv, [Next]_vars
             PROVE  Inv'
  OBVIOUS
<1>1. TypeOK /\ (whole => Phase) /\ current \in Seq(Byte)
  BY PayloadsAreBytes DEF Inv
<1>2. TypeOK'
  BY <1>1, TypeStep
<1>3. /\ Encode(current) \in Seq(Byte) /\ Len(Encode(current)) >= 3
      /\ Len(Encode(current)) \in Nat
      /\ Rest(current, 0) = Encode(current)
  BY <1>1, RestOfFrame
<1>4. whole => /\ line = <<>> => Done
               /\ line = Encode(current) => NotBegun
  BY <1>1, LineOfPhase
<1>5. ASSUME NEW p \in Payload, HostSends(p), whole'
      PROVE  Phase'
  <2>1. NotBegun'
    BY <1>4, <1>5 DEF HostSends, NotBegun, Done, Clean, decoder, flags
  <2> QED BY <2>1 DEF Phase
<1>6. CASE ReadByte
  <2>1. whole' = whole
    BY <1>6 DEF ReadByte
  <2> QED BY <1>1, <1>2, <1>6, <2>1, PhaseStep DEF Inv
<1>7. CASE LoseByte
  BY <1>2, <1>7 DEF LoseByte, Inv
<1>8. ASSUME Restart, whole'
      PROVE  Phase'
  <2>1. whole /\ line \in {<<>>, Encode(current)}
    BY <1>8 DEF Restart
  <2>2. ~ kiss_in_frame' /\ UNCHANGED <<line, current, whole_before, reports>>
    BY <1>8 DEF Restart, SetFlags
  <2>3. CASE line = Encode(current)
    <3>1. NotBegun
      BY <1>4, <2>1, <2>3
    <3>2. NotBegun'
      BY <2>2, <3>1 DEF NotBegun, Clean
    <3> QED BY <3>2 DEF Phase
  <2>4. CASE line = <<>>
    <3>1. Done
      BY <1>4, <2>1, <2>4
    <3>2. Done'
      BY <2>2, <3>1 DEF Done, Clean, EndedTheFrameBefore, Expected
    <3> QED BY <3>2 DEF Phase
  <2> QED BY <2>1, <2>3, <2>4
<1>9. CASE UNCHANGED vars
  <2>1. UNCHANGED <<line, current, whole, whole_before, reports, kiss_in_frame, kiss_escaped,
                    kiss_saw_type, kiss_buf>>
    BY <1>9 DEF vars, decoder, flags
  <2> QED BY <1>1, <1>2, <2>1 DEF Inv, Phase, NotBegun, AfterFend, BetweenBytes, InEscape, HasRead,
                            Skipping, Done, Clean, TooLong, EndedTheFrameBefore, Expected
<1> QED BY <1>2, <1>5, <1>6, <1>7, <1>8, <1>9 DEF Next, Inv

(* kiss_decode_byte never stores more than MaxFrame bytes, and only bytes. *)
THEOREM KissTypesAreRight == Spec => []TypeOK
<1>1. Init => TypeOK
  BY InvInit DEF Inv
<1>2. TypeOK /\ [Next]_vars => TypeOK'
  BY TypeStep
<1> QED BY <1>1, <1>2, PTL DEF Spec

LEMMA InvHolds == Spec => []Inv
BY InvInit, InvStep, PTL DEF Spec

LEMMA SentIsDone == Inv => (Sent => Done)
BY LineOfPhase DEF Inv, Sent

(* kiss_decode_byte undoes kiss_encode_frame: of two frames in a row that  *)
(* reach the node whole, the second is reported once and as it was sent,   *)
(* whatever payloads are sent, bytes lost and resets happen before.        *)
THEOREM DecodingUndoesEncoding == Spec => []WholeFramesArrive
<1>1. Inv => WholeFramesArrive
  BY SentIsDone DEF WholeFramesArrive, Done, EndedTheFrameBefore
<1> QED BY <1>1, InvHolds, PTL

(* After a damaged frame, the next whole one is reported as sent, or its   *)
(* FEND ends the damaged one and the decoder is ready for the frame after. *)
THEOREM DamageIsBounded == Spec => []DamageEndsWithTheNextFrame
<1>1. Inv => DamageEndsWithTheNextFrame
  BY SentIsDone DEF DamageEndsWithTheNextFrame, Done, EndedTheFrameBefore, Clean
<1> QED BY <1>1, InvHolds, PTL
================================================================================
