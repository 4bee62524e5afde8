--------------------------- MODULE SymmetricCrypto ----------------------------
(***************************************************************************)
(* SHA-256, HMAC-SHA-256 and HKDF as the oracles of src/proofs/crypto      *)
(* compute them.  A byte or a word is the set of its one bits.             *)
(*                                                                         *)
(* AES-256 and its CBC mode as src/proofs/crypto/aes/_aes_oracle.py (and   *)
(* the assembly in src/src/crypto/aes) compute them.  A byte is the set of *)
(* its one bits, a block a sequence of 16 bytes, column after column.      *)
(***************************************************************************)
EXTENDS Integers, Sequences, FiniteSets

xor(x, y) == (x \ y) \cup (y \ x)

BitsOf(n, width) == {b \in 0 .. width - 1 : (n \div 2^b) % 2 = 1}

Byte(n) == BitsOf(n, 8)

Number(b) ==
  LET bit(c) == IF c \in b THEN 2^c ELSE 0
  IN  bit(0) + bit(1) + bit(2) + bit(3) + bit(4) + bit(5) + bit(6) + bit(7)

Bytes(numbers) == [i \in DOMAIN numbers |-> Byte(numbers[i])]
Numbers(bytes) == [i \in DOMAIN bytes |-> Number(bytes[i])]

(* TLC's integers end below 2^32: a word is written as its halves *)
Word(half) == {b + 16 : b \in BitsOf(half[1], 16)} \cup BitsOf(half[2], 16)
Words(halves) == [i \in DOMAIN halves |-> Word(halves[i])]

(* the carry of a turn is above that of the turn before *)
add(x, y) ==
  LET sum[part, carry \in SUBSET (0 .. 31)] ==
        IF carry = {} THEN part
        ELSE sum[xor(part, carry), {b + 1 : b \in (part \cap carry) \ {31}}]
  IN  sum[x, y]

rotr(x, n) == {(b - n) % 32 : b \in x}
shr(x, n) == {b - n : b \in {c \in x : c >= n}}

ch(x, y, z) == (x \cap y) \cup (z \ x)
maj(x, y, z) == (x \cap y) \cup (x \cap z) \cup (y \cap z)

Sigma0(x) == xor(xor(rotr(x, 2), rotr(x, 13)), rotr(x, 22))
Sigma1(x) == xor(xor(rotr(x, 6), rotr(x, 11)), rotr(x, 25))
sigma0(x) == xor(xor(rotr(x, 7), rotr(x, 18)), shr(x, 3))
sigma1(x) == xor(xor(rotr(x, 17), rotr(x, 19)), shr(x, 10))

SHA256_IV == Words(<<
  <<27145, 58983>>, <<47975, 44677>>, <<15470, 62322>>, <<42319, 62778>>,
  <<20750, 21119>>, <<39685, 26764>>, <<8067, 55723>>, <<23520, 52505>> >>)

SHA256_K == Words(<<
  <<17034, 12184>>, <<28983, 17553>>, <<46528, 64463>>, <<59829, 56229>>,
  <<14678, 49755>>, <<23025, 4593>>, <<37439, 33444>>, <<43804, 24277>>,
  <<55303, 43672>>, <<4739, 23297>>, <<9265, 34238>>, <<21772, 32195>>,
  <<29374, 23924>>, <<32990, 45566>>, <<39900, 1703>>, <<49563, 61812>>,
  <<58523, 27073>>, <<61374, 18310>>, <<4033, 40390>>, <<9228, 41420>>,
  <<11753, 11375>>, <<19060, 33962>>, <<23728, 43484>>, <<30457, 35034>>,
  <<38974, 20818>>, <<43057, 50797>>, <<45059, 10184>>, <<48985, 32711>>,
  <<50912, 3059>>, <<54695, 37191>>, <<1738, 25425>>, <<5161, 10599>>,
  <<10167, 2693>>, <<11803, 8504>>, <<19756, 28156>>, <<21304, 3347>>,
  <<25866, 29524>>, <<30314, 2747>>, <<33218, 51502>>, <<37490, 11397>>,
  <<41663, 59553>>, <<43034, 26187>>, <<49739, 35696>>, <<51052, 20899>>,
  <<53650, 59417>>, <<54937, 1572>>, <<62478, 13701>>, <<4202, 41072>>,
  <<6564, 49430>>, <<7735, 27656>>, <<10056, 30540>>, <<13488, 48309>>,
  <<14620, 3251>>, <<20184, 43594>>, <<23452, 51791>>, <<26670, 28659>>,
  <<29839, 33518>>, <<30885, 25455>>, <<33992, 30740>>, <<36039, 520>>,
  <<37054, 65530>>, <<42064, 27883>>, <<48889, 41975>>, <<50801, 30962>> >>)

(* 4 bytes, the most significant first *)
Big(bytes) == UNION {{b + 8 * (4 - i) : b \in bytes[i]} : i \in 1 .. 4}

schedule(block) ==
  LET upto[t \in 16 .. 64] ==
        IF t = 16 THEN block
        ELSE LET W == upto[t - 1]
             IN  Append(W, add(add(sigma1(W[t - 2]), W[t - 7]),
                               add(sigma0(W[t - 15]), W[t - 16])))
  IN  upto[64]

(* one round on <<a, b, c, d, e, f, g, h>> *)
round(s, kw) ==
  LET T1 == add(add(s[8], Sigma1(s[5])), add(ch(s[5], s[6], s[7]), kw))
      T2 == add(Sigma0(s[1]), maj(s[1], s[2], s[3]))
  IN  <<add(T1, T2), s[1], s[2], s[3], add(s[4], T1), s[5], s[6], s[7]>>

(* never empty: the comparison has TLC evaluate the rounds in their order   *)
rounds(s, W) ==
  LET after[t \in 0 .. 64] ==
        IF t = 0 THEN s
        ELSE LET before == after[t - 1]
             IN  IF before = <<>> THEN before ELSE round(before, add(SHA256_K[t], W[t]))
  IN  after[64]

compress_block(H_in, block) ==
  LET W == schedule([i \in 1 .. 16 |-> Big(SubSeq(block, 4 * i - 3, 4 * i))])
      out == rounds(H_in, W)
  IN  IF H_in = <<>> THEN H_in ELSE [i \in 1 .. 8 |-> add(H_in[i], out[i])]

(* eight bytes, the most significant first *)
length_field(bits) == [i \in 1 .. 8 |-> IF i < 5 THEN {} ELSE Byte((bits \div 256^(8 - i)) % 256)]

Stream == INSTANCE Streaming WITH
  BLOCK <- 64, LENGTH <- 8, IV <- SHA256_IV, STOP <- {7}, ZERO <- {}

(* the digest as bytes *)
sha256(data) ==
  LET h == Stream!digest(data)
  IN  [i \in 1 .. 32 |->
         {b % 8 :
            b \in {c \in h[(i + 3) \div 4] : c \div 8 = 3 - ((i - 1) % 4)}}]

-----------------------------------------------------------------------------
(* a key of up to a block as it is, a longer one hashed *)
hmac_sha256(key, msg) ==
  LET block == IF Len(key) > 64 THEN sha256(key) ELSE key
      pad(n) == [i \in 1 .. 64 |-> IF i <= Len(block) THEN xor(block[i], Byte(n)) ELSE Byte(n)]
  IN  sha256(pad(92) \o sha256(pad(54) \o msg))

hkdf_extract(salt, ikm) ==
  hmac_sha256(IF salt = <<>> THEN [i \in 1 .. 32 |-> {}] ELSE salt, ikm)

(* each block is keyed with the one before, the first with none *)
hkdf_expand(prk, info, length) ==
  LET n == (length + 31) \div 32
      okm[i \in 0 .. n] ==
        IF i = 0 THEN <<>>
        ELSE LET before == okm[i - 1]
                 t_prev == IF i = 1 THEN <<>> ELSE SubSeq(before, 32 * i - 63, 32 * i - 32)
             IN  before \o hmac_sha256(prk, t_prev \o info \o <<Byte(i)>>)
  IN  SubSeq(okm[n], 1, length)

-----------------------------------------------------------------------------
(* TLC evaluates the bytes of a sequence here, once *)
Evaluated(s) == s \o <<>>

xtime(b) ==
  xor({c + 1 : c \in b \ {7}}, IF 7 \in b THEN {0, 1, 3, 4} ELSE {})

(* a product in GF(2^8): the bits in an odd number of the shifted terms *)
product(b, c) ==
  LET term[k \in 0 .. 7] == IF k = 0 THEN b ELSE xtime(term[k - 1])
      terms == Evaluated([k \in 1 .. 8 |-> term[k - 1]])
  IN  {x \in 0 .. 7 : Cardinality({k \in c : x \in terms[k + 1]}) % 2 = 1}

(* by the number n, one of 1, 2, 4, 8, 9, 11, 13, 14 *)
gf_mul(b, n) == product(b, Byte(n))

square(b) == product(b, b)

(* b to the 254: all its squarings but the first, multiplied *)
inverse(b) ==
  LET power[k \in 0 .. 7] == IF k = 0 THEN b ELSE square(power[k - 1])
      all[k \in 0 .. 7] == IF k = 0 THEN {0} ELSE product(all[k - 1], power[k])
  IN  all[7]

(* the table is the affine image of the inverse, 0 taken as its own *)
SBOX ==
  Evaluated([n \in 1 .. 256 |->
         LET i == inverse(Byte(n - 1))
             turned(k) == {(c + k) % 8 : c \in i}
         IN  xor(xor(xor(i, turned(1)), xor(turned(2), turned(3))),
                 xor(turned(4), {0, 1, 5, 6}))])

sub_byte(b) == SBOX[Number(b) + 1]

INV_SBOX ==
  Evaluated([n \in 1 .. 256 |-> CHOOSE b \in SUBSET (0 .. 7) : sub_byte(b) = Byte(n - 1)])

inv_sub_byte(b) == INV_SBOX[Number(b) + 1]

RCON == [n \in 1 .. 7 |-> {n - 1}]

sub_word(w) == [i \in 1 .. 4 |-> sub_byte(w[i])]
rot_word(w) == <<w[2], w[3], w[4], w[1]>>

sub_bytes(state) == [i \in 1 .. 16 |-> sub_byte(state[i])]
inv_sub_bytes(state) == [i \in 1 .. 16 |-> inv_sub_byte(state[i])]

xor_bytes(s, t) == Evaluated([i \in DOMAIN s |-> xor(s[i], t[i])])
add_round_key(state, rk) == xor_bytes(state, rk)

(* row r of column c, both from 0 *)
Cell(state, c, r) == state[4 * (c % 4) + r + 1]
Column(i) == (i - 1) \div 4
Row(i) == (i - 1) % 4

ShiftFault(i) == Column(i) - Row(i)   \* the wrong way

Shift(i) == Column(i) + Row(i)

shift_rows(state) == [i \in 1 .. 16 |-> Cell(state, Shift(i), Row(i))]
inv_shift_rows(state) == [i \in 1 .. 16 |-> Cell(state, Column(i) + 4 - Row(i), Row(i))]

(* each cell of a column is a sum of its four, with turned coefficients *)
mixed(state, by) ==
  Evaluated([i \in 1 .. 16 |->
     LET part(r) == gf_mul(Cell(state, Column(i), r), by[1 + ((r - Row(i)) % 4)])
     IN  xor(xor(part(0), part(1)), xor(part(2), part(3)))])

mix_columns(state) == mixed(state, <<2, 3, 1, 1>>)
inv_mix_columns(state) == mixed(state, <<14, 11, 13, 9>>)

(* the schedule as a sequence of 4-byte words *)
words_from(key_words) ==
  LET upto[n \in 8 .. 60] ==
        IF n = 8 THEN key_words
        ELSE LET i == n - 1
                 w == upto[i]
                 last == w[i]
                 temp == IF i % 8 = 0
                           THEN xor_bytes(sub_word(rot_word(last)), <<RCON[i \div 8], {}, {}, {}>>)
                         ELSE IF i % 8 = 4 THEN sub_word(last) ELSE last
             IN  Append(w, xor_bytes(w[i - 7], temp))
  IN  upto[60]

expand_key(key) ==
  LET w == words_from([i \in 1 .. 8 |-> SubSeq(key, 4 * i - 3, 4 * i)])
  IN  [r \in 0 .. 14 |-> w[4 * r + 1] \o w[4 * r + 2] \o w[4 * r + 3] \o w[4 * r + 4]]

(* the last of the 14 rounds mixes no columns *)
encrypt_block(rk, pt) ==
  LET sub(state) == shift_rows(sub_bytes(state))
      after[r \in 0 .. 13] ==
        IF r = 0 THEN add_round_key(pt, rk[0])
        ELSE add_round_key(mix_columns(sub(after[r - 1])), rk[r])
  IN  add_round_key(sub(after[13]), rk[14])

decrypt_block(rk, ct) ==
  LET sub(state, r) == add_round_key(inv_sub_bytes(inv_shift_rows(state)), rk[r])
      before[r \in 1 .. 14] ==
        IF r = 14 THEN add_round_key(ct, rk[14])
        ELSE inv_mix_columns(sub(before[r + 1], r))
  IN  sub(before[1], 0)

Block(text, i) == SubSeq(text, 16 * i - 15, 16 * i)

(* the iv takes the place of a block before the first *)
cbc_encrypt(rk, iv, pt) ==
  LET n == Len(pt) \div 16
      out[i \in 0 .. n] ==
        IF i = 0 THEN iv
        ELSE LET prev == out[i - 1]
             IN  prev \o encrypt_block(rk, xor_bytes(Block(prev, i), Block(pt, i)))
  IN  SubSeq(out[n], 17, 16 * n + 16)

cbc_decrypt(rk, iv, ct) ==
  LET all == iv \o ct
      text == Evaluated([i \in 1 .. Len(ct) \div 16 |->
                 xor_bytes(Block(all, i), decrypt_block(rk, Block(all, i + 1)))])
  IN  [k \in 1 .. 16 * Len(text) |-> text[(k + 15) \div 16][1 + ((k - 1) % 16)]]

-----------------------------------------------------------------------------
(* the steps on their own: rows of a state of 16 different bytes, which    *)
(* shows where every byte goes                                             *)
prove_rows ==
  LET counter == Bytes([i \in 1 .. 16 |-> i - 1])
  IN  /\ Numbers(shift_rows(counter)) = <<0, 5, 10, 15, 4, 9, 14, 3, 8, 13, 2, 7, 12, 1, 6, 11>>
      /\ shift_rows(inv_shift_rows(counter)) = counter
      /\ inv_shift_rows(shift_rows(counter)) = counter

(* columns: the example of FIPS 197 in each of the four, beside zeroes     *)
prove_columns ==
  \A c \in 0 .. 3 :
    LET state(column) ==
          [i \in 1 .. 16 |-> IF Column(i) = c THEN Byte(column[Row(i) + 1]) ELSE {}]
        before == state(<<219, 19, 83, 69>>)
        after == state(<<142, 77, 161, 188>>)
    IN  mix_columns(before) = after /\ inv_mix_columns(after) = before

(* FIPS 197 C.3, and NIST SP 800-38A F.2.5 and F.2.6 *)
prove_aes ==
  LET rk == expand_key(Bytes([i \in 1 .. 32 |-> i - 1]))
      pt == Bytes([i \in 1 .. 16 |-> 17 * (i - 1)])
      ct == Bytes(<<142, 162, 183, 202, 81, 103, 69, 191, 234, 252, 73, 144, 75, 73, 96, 137>>)
      cbc_rk == expand_key(Bytes(<<
        96, 61, 235, 16, 21, 202, 113, 190, 43, 115, 174, 240, 133, 125, 119, 129,
        31, 53, 44, 7, 59, 97, 8, 215, 45, 152, 16, 163, 9, 20, 223, 244>>))
      iv == Bytes([i \in 1 .. 16 |-> i - 1])
      cbc_pt == Bytes(<<
        107, 193, 190, 226, 46, 64, 159, 150, 233, 61, 126, 17, 115, 147, 23, 42,
        174, 45, 138, 87, 30, 3, 172, 156, 158, 183, 111, 172, 69, 175, 142, 81,
        48, 200, 28, 70, 163, 92, 228, 17, 229, 251, 193, 25, 26, 10, 82, 239,
        246, 159, 36, 69, 223, 79, 155, 23, 173, 43, 65, 123, 230, 108, 55, 16>>)
      cbc_ct == Bytes(<<
        245, 140, 76, 4, 214, 229, 241, 186, 119, 158, 171, 251, 95, 123, 251, 214,
        156, 252, 78, 150, 126, 219, 128, 141, 103, 159, 119, 123, 198, 112, 44, 125,
        57, 242, 51, 105, 169, 217, 186, 207, 165, 48, 226, 99, 4, 35, 20, 97,
        178, 235, 5, 226, 195, 155, 233, 252, 218, 108, 25, 7, 140, 106, 157, 27>>)
  IN  /\ prove_rows /\ prove_columns
      /\ encrypt_block(rk, pt) = ct /\ decrypt_block(rk, ct) = pt
      /\ cbc_encrypt(cbc_rk, iv, cbc_pt) = cbc_ct
      /\ cbc_decrypt(cbc_rk, iv, cbc_ct) = cbc_pt
=============================================================================
