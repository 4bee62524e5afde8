------------------------------ MODULE Streaming ------------------------------
(***************************************************************************)
(* The streaming side of SHA-256: sha256_init, sha256_update and           *)
(* sha256_final on a context that keeps the bytes of a block not yet whole *)
(* (src/proofs/crypto/sha256/sha256_update.py, sha256_final.py).  Blocks   *)
(* and their compression are parameters.                                   *)
(***************************************************************************)
EXTENDS Integers, Sequences

CONSTANTS
  BLOCK,              \* bytes in a block, 64
  LENGTH,             \* bytes of the length at the end of the last block, 8;
                      \* fewer than a block has
  IV,                 \* the first chaining value
  STOP, ZERO,         \* the bytes 0x80 and 0
  length_field(_),    \* the length in bits, as the last bytes of a block
  compress_block(_, _)

Ctx == [h |-> IV, length_bits |-> 0, block_buf |-> <<>>]

(* compress the whole blocks of the data, keep the tail *)
whole_blocks(ctx, data) ==
  LET n == Len(data) \div BLOCK
      after[i \in 0 .. n] ==
        IF i = 0 THEN ctx.h
        ELSE compress_block(after[i - 1], SubSeq(data, BLOCK * (i - 1) + 1, BLOCK * i))
  IN  [ctx EXCEPT !.h = after[n], !.block_buf = @ \o SubSeq(data, BLOCK * n + 1, Len(data))]

TopUpFault(ctx, data) == BLOCK - Len(ctx.block_buf)   \* also when it is more

(* how much of the data goes to a block begun before *)
TopUp(ctx, data) ==
  IF ctx.block_buf = <<>> THEN 0
  ELSE IF Len(data) < BLOCK - Len(ctx.block_buf)
    THEN Len(data) ELSE BLOCK - Len(ctx.block_buf)

py_update(ctx, data) ==
  LET n == TopUp(ctx, data)
      topped == ctx.block_buf \o SubSeq(data, 1, n)
      longer == [ctx EXCEPT !.length_bits = @ + 8 * Len(data), !.block_buf = topped]
      begun == IF Len(topped) = BLOCK
                 THEN [longer EXCEPT !.h = compress_block(@, topped), !.block_buf = <<>>]
                 ELSE longer
  IN  whole_blocks(begun, SubSeq(data, n + 1, Len(data)))

Zeroes(n) == [i \in 1 .. n |-> ZERO]

(* a stop byte, zeroes, and the length at the end of a block: of the next  *)
(* block when this one has no room for it                                  *)
final(ctx) ==
  LET used == Len(ctx.block_buf) + 1 + LENGTH
      room == IF used <= BLOCK THEN BLOCK - used ELSE 2 * BLOCK - used
  IN  whole_blocks([ctx EXCEPT !.block_buf = <<>>],
                   ctx.block_buf \o <<STOP>> \o Zeroes(room)
                     \o length_field(ctx.length_bits)).h

digest(data) == final(py_update(Ctx, data))

-----------------------------------------------------------------------------
(* FIPS 180-4: the message is padded as a whole, then cut into blocks      *)
Padded(data) ==
  LET k == (2 * BLOCK - 1 - LENGTH - (Len(data) % BLOCK)) % BLOCK
  IN  data \o <<STOP>> \o Zeroes(k) \o length_field(8 * Len(data))

(* H(i) from H(i - 1) and the message block M(i) *)
chain(h, data) ==
  LET N == Len(data) \div BLOCK
      M(i) == [j \in 1 .. BLOCK |-> data[BLOCK * (i - 1) + j]]
      H[i \in 0 .. N] == IF i = 0 THEN h ELSE compress_block(H[i - 1], M(i))
  IN  H[N]

(* every message up to some length, fed in one, two or three pieces, ends  *)
(* in the digest of the whole and in a context that holds less than a block *)
prove_streaming(byte, longest) ==
  \A n \in 0 .. longest :
    LET msg == [i \in 1 .. n |-> byte[i]]
    IN  \A i \in 0 .. n : \A j \in i .. n :
          LET fed == py_update(py_update(py_update(Ctx, SubSeq(msg, 1, i)),
                                         SubSeq(msg, i + 1, j)),
                               SubSeq(msg, j + 1, n))
          IN  /\ fed = py_update(Ctx, msg)
              /\ Len(fed.block_buf) = n % BLOCK
              /\ final(fed) = chain(IV, Padded(msg))
=============================================================================
