---------------------------- MODULE MCFederation ----------------------------
(***************************************************************************)
(* Instances of Federation for TLC.                                         *)
(***************************************************************************)
EXTENDS Federation, TLC

CONSTANT m1

\* One message of the box that was asked.
MCOne == m1 :> "resp"
=============================================================================
