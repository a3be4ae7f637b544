---------------------------- MODULE MCWriterLock ----------------------------
(***************************************************************************)
(* Instances of WriterLock for TLC: two processes of one family, and two    *)
(* that belong to nobody else.                                              *)
(***************************************************************************)
EXTENDS WriterLock

CONSTANTS a1, a2, b, c

MCFamily == [p \in Procs |-> CASE p \in {a1, a2} -> "A" [] p = b -> "B" [] OTHER -> "C"]
=============================================================================
