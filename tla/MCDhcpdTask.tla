---------------------------- MODULE MCDhcpdTask ----------------------------
(* Small instances of DhcpdTask for TLC. *)
EXTENDS DhcpdTask
CONSTANTS c1, c2, s1, s2, s3, s4
=============================================================================
