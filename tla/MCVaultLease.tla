---------------------------- MODULE MCVaultLease ----------------------------
(***************************************************************************)
(* Instances of VaultLease for TLC.  F is one launch of the app with its two *)
(* node siblings and a pipeline child, G another launch.                    *)
(***************************************************************************)
EXTENDS VaultLease, TLC

CONSTANTS f1, f2, g1, fc, tool, other

MCKind   == [p \in Procs |-> CASE p = fc -> "child" [] p = tool -> "tool"
                               [] p = other -> "stranger" [] OTHER -> "app"]
MCFamily == [p \in Procs |-> CASE p \in {f1, f2, fc} -> "F" [] p = g1 -> "G"
                               [] p = tool -> "T" [] OTHER -> "O"]

\* The siblings of a launch are alike, and a presence file is nothing but its name.
AnyFile == Permutations(Files)
Alike   == Permutations({f1, f2}) \cup AnyFile
=============================================================================
