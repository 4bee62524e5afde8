------------------------------ MODULE Digests ------------------------------
(***************************************************************************)
(* The published and the boundary vectors that the verifiers of            *)
(* src/proofs/crypto run the routines of src/src/crypto on, computed by    *)
(* the definitions they test; and the streaming of SHA-256 on a block size *)
(* small enough to try every message and every way to cut it.              *)
(***************************************************************************)
EXTENDS SymmetricCrypto, Encodings

Ramp(step, first, n) == [i \in 1 .. n |-> Byte((step * (i - 1) + first) % 256)]
Text(numbers) == Bytes(numbers)

sha256_ctx ==
  << <<"h", 0, 32>>, <<"length_bits", 32, 8>>, <<"block_buf", 40, 64>>,
     <<"block_len", 104, 4>>, <<"pad", 108, 4>> >>

(* little-endian *)
Octets(w) == [k \in 1 .. 4 |-> {b % 8 : b \in {c \in w : c \div 8 = k - 1}}]
Number32(bytes) ==
  Number(bytes[1]) + 256 * Number(bytes[2]) + 65536 * Number(bytes[3])
WordAt(bytes, i) == UNION {{b + 8 * k : b \in bytes[4 * i + k - 3]} : k \in 0 .. 3}
Small32(n) == <<Byte(n % 256), Byte((n \div 256) % 256), Byte(n \div 65536), {}>>

WordsToBytes(h) == [i \in 1 .. 32 |-> Octets(h[(i + 3) \div 4])[1 + ((i - 1) % 4)]]

(* a context in memory; what of its block is not in use holds anything *)
ctx_to_bytes(ctx, filler) ==
  WordsToBytes(ctx.h) \o Small32(ctx.length_bits) \o Ramp(0, 0, 4)
    \o ctx.block_buf \o [i \in 1 .. 64 - Len(ctx.block_buf) |-> filler]
    \o Small32(Len(ctx.block_buf)) \o [i \in 1 .. 4 |-> filler]

bytes_to_ctx(bytes) ==
  LET h == Taken(sha256_ctx, "h", bytes)
      block_len == Number32(Taken(sha256_ctx, "block_len", bytes))
  IN  [h           |-> [i \in 1 .. 8 |-> WordAt(h, i)],
       length_bits |-> Number32(Taken(sha256_ctx, "length_bits", bytes)),
       block_buf   |-> SubSeq(Taken(sha256_ctx, "block_buf", bytes), 1, block_len)]

(* the block and the padding keep what they hold *)
sha256_init(bytes) ==
  WordsToBytes(SHA256_IV) \o Ramp(0, 0, 8) \o Taken(sha256_ctx, "block_buf", bytes)
    \o Ramp(0, 0, 4) \o Taken(sha256_ctx, "pad", bytes)

(* any memory becomes the empty context, which is found again where        *)
(* sha256_update and sha256_final look for it                              *)
prove_init ==
  LET sentinel == Ramp(0, 170, 112)
      made == sha256_init(sentinel)
      some(n) == [h |-> SHA256_IV, length_bits |-> 70000 + n, block_buf |-> Ramp(3, 80, n)]
  IN  /\ bytes_to_ctx(made) = Stream!Ctx
      /\ \A field \in {"block_buf", "pad"} :
           Taken(sha256_ctx, field, made) = Taken(sha256_ctx, field, sentinel)
      /\ \A n \in {0, 1, 10, 63} :
           /\ bytes_to_ctx(ctx_to_bytes(some(n), Byte(205))) = some(n)
           /\ Len(ctx_to_bytes(some(n), Byte(205))) = 112

(* "abc" and the empty message in one block each *)
prove_compression ==
  LET block(data) == data \o <<{7}>> \o [i \in 1 .. 55 - Len(data) |-> {}]
                       \o length_field(8 * Len(data))
  IN  /\ Packed(sha256_ctx, 112)
      /\ compress_block(SHA256_IV, block(Text(<<97, 98, 99>>)))
           = Words(<< <<47736, 5823>>, <<36609, 53226>>, <<16705, 16606>>, <<23982, 8739>>,
                      <<45059, 24995>>, <<38423, 31388>>, <<46096, 65377>>, <<61952, 5549>> >>)
      /\ compress_block(SHA256_IV, block(<<>>))
           = Words(<< <<58288, 50242>>, <<39164, 7188>>, <<39675, 62664>>, <<39279, 47396>>,
                      <<10158, 16868>>, <<25755, 37708>>, <<42133, 39195>>, <<30802, 47189>> >>)

(* one byte short of a second block of padding, the first with one, ... *)
prove_digests ==
  /\ Numbers(SubSeq(sha256(Ramp(0, 0, 0)), 1, 8)) = <<227, 176, 196, 66, 152, 252, 28, 20>>
  /\ Numbers(SubSeq(sha256(Text(<<97, 98, 99>>)), 1, 8)) = <<186, 120, 22, 191, 143, 1, 207, 234>>
  /\ Numbers(SubSeq(sha256(Ramp(1, 0, 55)), 1, 8)) = <<70, 62, 178, 142, 114, 248, 46, 10>>
  /\ Numbers(SubSeq(sha256(Ramp(1, 0, 56)), 1, 8)) = <<218, 42, 228, 214, 179, 103, 72, 242>>
  /\ Numbers(SubSeq(sha256(Ramp(0, 0, 64)), 1, 8)) = <<245, 165, 253, 66, 209, 106, 32, 48>>
  /\ Numbers(SubSeq(sha256(Ramp(13, 7, 100)), 1, 8)) = <<197, 255, 66, 176, 129, 235, 108, 151>>
  /\ Numbers(SubSeq(sha256(Ramp(11, 3, 119)), 1, 8)) = <<215, 110, 196, 82, 19, 78, 21, 114>>
  /\ Numbers(SubSeq(sha256(Ramp(7, 5, 128)), 1, 8)) = <<215, 158, 229, 121, 204, 77, 186, 254>>
  /\ Numbers(SubSeq(sha256(Ramp(17, 11, 129)), 1, 8)) = <<53, 15, 27, 239, 33, 195, 187, 144>>

(* a context that already holds bytes of a block *)
prove_resume ==
  LET begun == [h |-> SHA256_IV, length_bits |-> 4660, block_buf |-> Ramp(3, 80, 10)]
      fed(ctx, data) == Stream!py_update(ctx, data)
  IN  \A n \in {0, 53, 54, 55, 80} :
        /\ fed(begun, Ramp(1, 0, n)).length_bits = 4660 + 8 * n
        /\ Len(fed(begun, Ramp(1, 0, n)).block_buf) = (10 + n) % 64
        /\ \A k \in {0, 1, n \div 2} : k <= n =>
             fed(fed(begun, SubSeq(Ramp(1, 0, n), 1, k)), SubSeq(Ramp(1, 0, n), k + 1, n))
               = fed(begun, Ramp(1, 0, n))

(* RFC 4231, no key and no message, a key of exactly a block *)
prove_macs ==
  /\ Numbers(SubSeq(hmac_sha256(Ramp(0, 11, 20),
       Text(<<72, 105, 32, 84, 104, 101, 114, 101>>)), 1, 8))
       = <<176, 52, 76, 97, 216, 219, 56, 83>>
  /\ Numbers(SubSeq(hmac_sha256(Text(<<74, 101, 102, 101>>),
       Text(<<119, 104, 97, 116, 32, 100, 111, 32, 121, 97, 32, 119, 97, 110, 116, 32,
             102, 111, 114, 32, 110, 111, 116, 104, 105, 110, 103, 63>>)), 1, 8))
       = <<91, 220, 193, 70, 191, 96, 117, 78>>
  /\ Numbers(SubSeq(hmac_sha256(Ramp(0, 170, 20),
       Ramp(0, 221, 50)), 1, 8))
       = <<119, 62, 169, 30, 54, 128, 14, 70>>
  /\ Numbers(SubSeq(hmac_sha256(Ramp(1, 1, 25),
       Ramp(0, 205, 50)), 1, 8))
       = <<130, 85, 138, 56, 154, 68, 60, 14>>
  /\ Numbers(SubSeq(hmac_sha256(Ramp(0, 170, 131),
       Text(<<84, 101, 115, 116, 32, 85, 115, 105, 110, 103, 32, 76, 97, 114, 103, 101,
             114, 32, 84, 104, 97, 110, 32, 66, 108, 111, 99, 107, 45, 83, 105, 122,
             101, 32, 75, 101, 121, 32, 45, 32, 72, 97, 115, 104, 32, 75, 101, 121, 32,
             70, 105, 114, 115, 116>>)), 1, 8))
       = <<96, 228, 49, 89, 30, 224, 182, 127>>
  /\ Numbers(SubSeq(hmac_sha256(<<>>,
       <<>>), 1, 8))
       = <<182, 19, 103, 154, 8, 20, 217, 236>>
  /\ Numbers(SubSeq(hmac_sha256(Ramp(5, 1, 64),
       Ramp(3, 2, 40)), 1, 8))
       = <<237, 191, 143, 87, 205, 11, 129, 117>>

(* RFC 5869, A.1 to A.3 *)
PRK_1 == Text(<<7, 119, 9, 54, 44, 46, 50, 223, 13, 220, 63, 13, 196, 123, 186, 99, 144,
              182, 199, 59, 181, 15, 156, 49, 34, 236, 132, 74, 215, 194, 179, 229>>)
PRK_2 == Text(<<6, 166, 184, 140, 88, 83, 54, 26, 6, 16, 76, 156, 235, 53, 180, 92, 239,
              118, 0, 20, 144, 70, 113, 1, 74, 25, 63, 64, 193, 95, 194, 68>>)
PRK_3 == Text(<<25, 239, 36, 163, 44, 113, 123, 22, 127, 51, 169, 29, 111, 100, 139,
              223, 150, 89, 103, 118, 175, 219, 99, 119, 172, 67, 76, 28, 41, 60, 203,
              4>>)

prove_extracts ==
  /\ hkdf_extract(Ramp(1, 0, 13), Ramp(0, 11, 22)) = PRK_1
  /\ hkdf_extract(Ramp(1, 96, 80), Ramp(1, 0, 80)) = PRK_2
  /\ hkdf_extract(<<>>, Ramp(0, 11, 22)) = PRK_3

prove_expansions ==
  /\ Numbers(hkdf_expand(PRK_1, Ramp(1, 240, 10), 42))
       = <<60, 178, 95, 37, 250, 172, 213, 122, 144, 67, 79, 100, 208, 54, 47, 42, 45,
           45, 10, 144, 207, 26, 90, 76, 93, 176, 45, 86, 236, 196, 197, 191, 52, 0,
           114, 8, 213, 184, 135, 24, 88, 101>>
  /\ Numbers(hkdf_expand(PRK_2, Ramp(1, 176, 80), 82))
       = <<177, 30, 57, 141, 200, 3, 39, 161, 200, 231, 247, 140, 89, 106, 73, 52, 79,
           1, 46, 218, 45, 78, 250, 216, 160, 80, 204, 76, 25, 175, 169, 124, 89, 4, 90,
           153, 202, 199, 130, 114, 113, 203, 65, 198, 94, 89, 14, 9, 218, 50, 117, 96,
           12, 47, 9, 184, 54, 119, 147, 169, 172, 163, 219, 113, 204, 48, 197, 129,
           121, 236, 62, 135, 193, 76, 1, 213, 193, 243, 67, 79, 29, 135>>
  /\ Numbers(hkdf_expand(PRK_3, <<>>, 42))
       = <<141, 164, 231, 117, 165, 99, 193, 143, 113, 95, 128, 42, 6, 60, 90, 49,
           184, 161, 31, 92, 94, 225, 135, 158, 195, 69, 78, 95, 60, 115, 141, 45, 157,
           32, 19, 149, 250, 164, 182, 26, 150, 200>>
  /\ \A n \in {32, 64, 96} :
       hkdf_expand(PRK_1, Ramp(1, 97, 5), n) = SubSeq(hkdf_expand(PRK_1, Ramp(1, 97, 5), 96), 1, n)

-----------------------------------------------------------------------------
(* blocks of four letters, chained as the history of the blocks *)
Symbolic(h, block) == Append(h, block)
Count(n) == <<n>>

Small == INSTANCE Streaming WITH
  BLOCK <- 4, LENGTH <- 1, IV <- <<>>, STOP <- "stop", ZERO <- "zero",
  length_field <- Count, compress_block <- Symbolic

letter == [i \in 1 .. 10 |-> <<i>>]

DigestsAreExact ==
  /\ prove_init /\ prove_compression /\ prove_digests /\ prove_resume
  /\ prove_macs /\ prove_extracts /\ prove_expansions
  /\ Small!prove_streaming(letter, 10)
=============================================================================
