--------------------------- MODULE VaultProcesses ---------------------------
(***************************************************************************)
(* The processes that open one vault: they claim its lease (VaultLease) and *)
(* then its writer lock (WriterLock).                                       *)
(***************************************************************************)
CONSTANTS
  Procs,
  Family    \* the app launch each belongs to: its token, or an ancestor that has one
=============================================================================
