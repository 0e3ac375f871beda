------------------------------ MODULE MCLnKv -------------------------------
(* Small instances of LnKv for TLC. *)
EXTENDS LnKv, TLC

CONSTANTS k1, k2, k3, vA, vB, vLong, vHuge

\* Items of two units (vA, vB) and of three (vLong), header included; vHuge
\* does not fit into a block.
MCBodySize == [v \in Values |-> IF v = vLong THEN 2 ELSE IF v = vHuge THEN Cap ELSE 1]

\* Keys are interchangeable, and so are values of the same size.
Symmetry == Permutations(Keys) \cup Permutations(Values \cap {vA, vB})

=============================================================================
