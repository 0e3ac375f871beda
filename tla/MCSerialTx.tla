----------------------------- MODULE MCSerialTx -----------------------------
(* A small instance of SerialTx, and of the Fifo below it, for TLC. *)
EXTENDS SerialTx
CONSTANTS t1, t2, t3
MCByte == Tasks \X (1 .. MaxPuts)
=============================================================================
