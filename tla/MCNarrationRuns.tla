--------------------------- MODULE MCNarrationRuns ---------------------------
(***************************************************************************)
(* Instance of NarrationRuns for TLC.                                       *)
(***************************************************************************)
EXTENDS NarrationRuns, TLC

CONSTANTS r1, r2

\* Nothing tells one run id from another.
MCSymmetry == Permutations(Runs)

\* Two runs have a list of one entity each, or one run has a list of two.
FewListed == Cardinality(listed[r1]) + Cardinality(listed[r2]) <= 2
=============================================================================
