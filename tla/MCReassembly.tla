----------------------------- MODULE MCReassembly -----------------------------
(* Reassembly on a small instance: a resource longer than the window, a    *)
(* short one, one with two parts alike that shares two with another, one   *)
(* with no parts and one with too many.                                    *)
EXTENDS ResourceContract, TLC

CONSTANTS long, short, twin, other, big, empty, p1, p2, p3, p4, q1, q2, t1, u1, v1

MCResource == {long, short, twin, other, big, empty}
MCPart == {p1, p2, p3, p4, q1, q2, t1, u1, v1}
MCHash == MCResource \X MCPart

MCMapHash == [r \in MCResource |-> [p \in MCPart |-> <<r, p>>]]

Contents ==
  (long :> <<p1, p2, p3, p4>>) @@ (short :> <<q1, q2>>) @@
  (twin :> <<t1, t1, u1>>) @@ (other :> <<u1, t1>>) @@ (empty :> <<>>) @@
  (big :> <<t1, v1, t1, v1, t1>>)

MCHashmap ==
  [r \in MCResource |->
    [i \in 1 .. Len(Contents[r]) |-> MCMapHash[r][Contents[r][i]]]]
===============================================================================
