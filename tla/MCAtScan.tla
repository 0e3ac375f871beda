------------------------------ MODULE MCAtScan ------------------------------
(* Small instances of AtScan for TLC. *)
EXTENDS AtScan
CONSTANTS a, b, c
=============================================================================
