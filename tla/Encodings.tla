------------------------------ MODULE Encodings -------------------------------
(***************************************************************************)
(* Structures in memory and packets on the air as the include files of     *)
(* src/src/include lay them out: sequences of <<field, offset, size>>.     *)
(*                                                                         *)
(* Bytes as numbers, and the few forms of MessagePack that advertisements  *)
(* of resources and LXMF messages are made of.                             *)
(***************************************************************************)
EXTENDS Integers, Sequences

(* Every field begins where the one before it ends and the last one ends   *)
(* with the structure: no two share a byte, none reaches past the end.     *)
Packed(layout, size) ==
  /\ \A i \in DOMAIN layout :
       layout[i][2] = IF i = 1 THEN 0 ELSE layout[i - 1][2] + layout[i - 1][3]
  /\ layout[Len(layout)][2] + layout[Len(layout)][3] = size
  /\ \A i, j \in DOMAIN layout : layout[i][1] = layout[j][1] => i = j

FieldOf(layout, name) == layout[CHOOSE i \in DOMAIN layout : layout[i][1] = name]

(* the bytes of a field *)
Taken(layout, name, bytes) ==
  LET f == FieldOf(layout, name) IN SubSeq(bytes, f[2] + 1, f[2] + f[3])

-----------------------------------------------------------------------------
(* n bytes, the most significant first, and back *)
ToBytes(value, n) == [i \in 1 .. n |-> (value \div 256^(n - i)) % 256]

FromBytes(bytes) ==
  LET value[i \in 0 .. Len(bytes)] == IF i = 0 THEN 0 ELSE 256 * value[i - 1] + bytes[i]
  IN  value[Len(bytes)]

Filled(byte, n) == [i \in 1 .. n |-> byte]

mp_uint(value) ==
  IF value < 128 THEN <<value>>
  ELSE IF value < 256 THEN <<204, value>>
  ELSE IF value < 65536 THEN <<205>> \o ToBytes(value, 2)
  ELSE <<206>> \o ToBytes(value, 4)

mp_bin(data) ==
  (IF Len(data) < 256 THEN <<196, Len(data)>> ELSE <<197>> \o ToBytes(Len(data), 2)) \o data

Encoded(kind, value) ==
  IF kind = "uint" THEN mp_uint(value) ELSE IF kind = "bin" THEN mp_bin(value) ELSE <<192>>

(* an array of fewer than 16 elements, each given by its kind and value *)
packb(elements) ==
  LET packed[i \in 0 .. Len(elements)] ==
        IF i = 0 THEN <<144 + Len(elements)>>
        ELSE packed[i - 1] \o Encoded(elements[i][1], elements[i][2])
  IN  packed[Len(elements)]
=============================================================================
