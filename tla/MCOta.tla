------------------------------- MODULE MCOta -------------------------------
(* A small instance of Ota for TLC. *)
EXTENDS Ota

CONSTANTS r0, r1, r2, r3

\* The factory release; one that fits the OTA partition compressed and is
\* larger than it uncompressed; one that fits uncompressed and, as it does not
\* compress, fills the partition exactly compressed; and one that is too large
\* compressed.
MCVer == [r \in Releases |-> CASE r = r0 -> 0 [] r = r1 -> 1 [] r = r2 -> 2 [] r = r3 -> 3]
MCOrigSize == [r \in Releases |-> CASE r = r0 -> 1 [] r = r1 -> 4 [] r = r2 -> 2 [] r = r3 -> 5]
MCXzSize == [r \in Releases |-> CASE r = r0 -> 1 [] r = r1 -> 2 [] r = r2 -> 3 [] r = r3 -> 4]
MCDiffSize == [r \in Releases |-> 1]

\* What the server may answer with.
MCFiles == [rel : {r1, r2}, form : {"xz", "orig"}] \cup
  {[rel |-> r3, form |-> "xz"], [rel |-> r2, form |-> "diff"], [rel |-> r0, form |-> "page"]}

=============================================================================
