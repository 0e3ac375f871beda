----------------------------- MODULE MCLnNvds ------------------------------
(* A small instance of LnNvds for TLC. *)
EXTENDS LnNvds

CONSTANTS v1, v2, ver

=============================================================================
