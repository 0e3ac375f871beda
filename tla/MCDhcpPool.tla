----------------------------- MODULE MCDhcpPool -----------------------------
(* Small instances of DhcpPool for TLC. *)
EXTENDS DhcpPool, TLC
CONSTANTS a, b, c
StationSymmetry == Permutations(Stations)
=============================================================================
