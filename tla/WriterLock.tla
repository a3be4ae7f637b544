----------------------------- MODULE WriterLock -----------------------------
(***************************************************************************)
(* The writer lock that getDb takes on the vault, src/db/writer-lock.js: a  *)
(* file, created exclusively, that holds the pid, start time and family of  *)
(* its holder.  Members of the holder's family ride on its lock; a file     *)
(* whose holder is dead, or that names nobody, is reclaimed.                *)
(*                                                                          *)
(* The file is known by its creator, who has one at a time.  Creating it,   *)
(* writing the holder into it, reading and unlinking it are separate system *)
(* calls: a write goes to the file its process created, an unlink takes     *)
(* whatever file has the name by then.                                      *)
(***************************************************************************)
EXTENDS VaultProcesses, Integers

CONSTANTS
  RECLAIM_RETRY,
  NoFile

ASSUME LockAssumption ==
  /\ NoFile \notin Procs
  /\ RECLAIM_RETRY \in Nat

VARIABLES
  path,     \* whose file has the name of the lock
  named,    \* that file names its creator
  place,    \* where each process is; "dead" covers a zombie
  attempt,
  settled   \* history: who wrote itself into the file that has the name, when
            \* nobody was about to unlink that file

lockVars == <<path, named, place, attempt, settled>>

\* Here a process has read the file and is about to unlink what has its name.
Unlinking  == {"unlink", "relUnlink"}
LockPlaces == Unlinking \cup {"out", "create", "write", "read", "holder", "rider", "relRead", "dead"}

\* The retries of a claim stay within RECLAIM_RETRY; the rest are the types.
LockTypeOK ==
  /\ path \in Procs \cup {NoFile}
  /\ named \in BOOLEAN
  /\ place \in [Procs -> LockPlaces]
  /\ attempt \in [Procs -> 0..RECLAIM_RETRY]
  /\ settled \subseteq Procs

LockInit ==
  /\ path = NoFile
  /\ named = FALSE
  /\ place = [p \in Procs |-> "out"]
  /\ attempt = [p \in Procs |-> 0]
  /\ settled = {}

moveTo(p, l) == place' = [place EXCEPT ![p] = l]

-----------------------------------------------------------------------------

\* acquireVaultWriterLock() is called; the claims of several processes overlap.
Acquire(p) ==
  /\ place[p] = "out"
  /\ moveTo(p, "create")
  /\ UNCHANGED <<path, named, attempt, settled>>

\* open(..., 'wx'): fails if the name is taken.
Create(p) ==
  /\ place[p] = "create"
  /\ \/ path = NoFile /\ path' = p /\ named' = FALSE /\ moveTo(p, "write")
     \/ path # NoFile /\ UNCHANGED <<path, named>> /\ moveTo(p, "read")
  /\ UNCHANGED <<attempt, settled>>

\* The file written to is the one that was created, whether or not it still has
\* the name.
WriteHolder(p) ==
  /\ place[p] = "write"
  /\ settled' = IF path = p /\ \A q \in Procs : place[q] \notin Unlinking
                THEN settled \cup {p} ELSE settled \ {p}
  /\ named' = IF path = p THEN TRUE ELSE named
  /\ moveTo(p, "holder")
  /\ attempt' = [attempt EXCEPT ![p] = 0]
  /\ UNCHANGED path

\* The write fails (a full disk): the error surfaces and an empty file stays.
WriteFails(p) ==
  /\ place[p] = "write"
  /\ moveTo(p, "out")
  /\ attempt' = [attempt EXCEPT ![p] = 0]
  /\ UNCHANGED <<path, named, settled>>

\* Mutant: a pid that is still in the process table is alive, zombie or not.
holderStillLive_Zombie(h) == TRUE

\* Mutant: a live process whose start time cannot be read counts as dead.
holderStillLive_Unproven(h) == FALSE

holderStillLive(h) == place[h] # "dead"

\* The file is read and its holder classified.
Legible == path # NoFile /\ named

ReadHolder(p) ==
  /\ place[p] = "read"
  /\ \/ /\ ~(Legible /\ holderStillLive(path))
        /\ moveTo(p, "unlink") /\ UNCHANGED attempt
     \/ /\ Legible /\ holderStillLive(path)
        /\ moveTo(p, IF Family[path] = Family[p] THEN "rider" ELSE "out")
        /\ attempt' = [attempt EXCEPT ![p] = 0]
  /\ UNCHANGED <<path, named, settled>>

\* Reclaim: unlink, and create again unless that was the last attempt.
Unlink(p) ==
  /\ place[p] = "unlink"
  /\ path' = NoFile /\ named' = FALSE
  /\ IF attempt[p] < RECLAIM_RETRY
     THEN moveTo(p, "create") /\ attempt' = [attempt EXCEPT ![p] = @ + 1]
     ELSE moveTo(p, "out") /\ attempt' = [attempt EXCEPT ![p] = 0]
  /\ UNCHANGED settled

\* Mutant: closing the database leaves the file behind.
Close_KeepsFile(p) ==
  /\ place[p] \in {"holder", "rider"}
  /\ moveTo(p, "out")
  /\ UNCHANGED <<path, named, attempt, settled>>

\* The database is closed.  A rider's release does nothing.
Close(p) ==
  /\ place[p] \in {"holder", "rider"}
  /\ moveTo(p, IF place[p] = "holder" THEN "relRead" ELSE "out")
  /\ UNCHANGED <<path, named, attempt, settled>>

\* releaseIfOwner(): read, and unlink if it is ours.
ReleaseReads(p) ==
  /\ place[p] = "relRead"
  /\ moveTo(p, IF path = p /\ named THEN "relUnlink" ELSE "out")
  /\ UNCHANGED <<path, named, attempt, settled>>

ReleaseUnlinks(p) ==
  /\ place[p] = "relUnlink"
  /\ path' = NoFile /\ named' = FALSE
  /\ moveTo(p, "out")
  /\ UNCHANGED <<attempt, settled>>

Kill(p) ==
  /\ place[p] # "dead"
  /\ moveTo(p, "dead")
  /\ attempt' = [attempt EXCEPT ![p] = 0]
  /\ UNCHANGED <<path, named, settled>>

\* The program's own steps, and then everything that can happen.
Step(p) ==
  \/ Create(p) \/ WriteHolder(p) \/ WriteFails(p) \/ ReadHolder(p) \/ Unlink(p)
  \/ ReleaseReads(p) \/ ReleaseUnlinks(p)

LockNext == \E p \in Procs : Acquire(p) \/ Step(p) \/ Close(p) \/ Kill(p)

LockSpec == LockInit /\ [][LockNext]_lockVars

\* Code that has started runs on.  Nobody is assumed to open, close or crash.
LockFairSpec == LockSpec /\ \A p \in Procs : WF_lockVars(Step(p))

-----------------------------------------------------------------------------

\* A refusal is never for nothing: the file names only a process that holds the
\* lock, is giving it back, or is dead.  A live process that has closed the
\* vault is not named, so nobody is locked out by a holder that is none.
HolderIsReal ==
  Legible => place[path] \in {"holder", "relRead", "relUnlink", "dead"}

\* "Never steals a LIVE holder" and "never delete a lock that was reclaimed and
\* re-taken by someone else" (writer-lock.js:35, 245): a process that wrote
\* itself into the file with the name, at a moment when nobody was between
\* reading that file and unlinking it, has it until it closes or is killed, and
\* what its release then unlinks is its own.  It holds through any number of
\* overlapping claims, reclaims, releases and kills, and leaves one such holder
\* at a time.  A holder that did not settle so may have lost the file already,
\* or lose it to the one that was about to unlink it: then two hold the lock
\* (OneHolder).
SettledHolderKeeps == \A p \in settled :
  place[p] \in {"holder", "relRead", "relUnlink"} => path = p /\ named

\* "One app family or nothing": at most one process at a time believes that it
\* owns the lock file.  It fails when a claimant reads a file that another has
\* created and not yet written.
OneHolder ==
  \A p, q \in Procs : place[p] = "holder" /\ place[q] = "holder" => p = q

\* "A hard-killed holder's stale lock is reclaimable": a process that finds the
\* file of a dead holder replaces it, unless it is killed itself.
DeadHolderReclaimed ==
  \A h, p \in Procs :
    (path = h /\ place[h] = "dead" /\ place[p] = "create") ~> (path # h \/ place[p] = "dead")

=============================================================================
