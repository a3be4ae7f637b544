----------------------------- MODULE MCVaultInit -----------------------------
(***************************************************************************)
(* Three processes that boot the vault.                                     *)
(***************************************************************************)
EXTENDS VaultInit

CONSTANTS p1, p2, p3

MCProcs == {p1, p2, p3}

\* Nothing is said of what follows a mistaken steal, so it is not explored.
UpToMistake == ~mistaken
=============================================================================
