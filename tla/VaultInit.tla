------------------------------ MODULE VaultInit ------------------------------
(***************************************************************************)
(* How a process comes to serve the vault when at-rest encryption is on:    *)
(* initVaultStorage (db/init.js) under the cross-process init lock, with    *)
(* the one-time encryption of a plaintext vault (account/                   *)
(* db-cipher-migrate.js), then the open and the purge of the plaintext      *)
(* original (index.js).  Every file operation is a step, and a process may  *)
(* be killed between any two.  Killed processes do not come back; others    *)
(* boot in their place.  A file's rows are what the owner has in it.  Files *)
(* are known by name: a handle whose file was renamed is not followed, which*)
(* matters only after a mistaken steal.                                     *)
(***************************************************************************)
EXTENDS Naturals, FiniteSets

CONSTANTS
  Procs,
  MaxItems,     \* bound: items the owner ever has
  Free          \* no lock file

ASSUME InitAssumption == Free \notin Procs /\ MaxItems \in Nat \ {0}

VARIABLES
  hardlinks,  \* the filesystem can link, so that the lock appears complete
  lock,       \* who made .vault-init.lock
  named,      \* it has its pid in it
  pc,
  src,        \* rows of the vault a process is copying
  db,         \* the vault
  tmp,        \* <db>.cipher-tmp
  pre,        \* the <db>.pre-cipher-* files
  wrote,      \* history: all the owner has ever put into the vault
  unmoored,   \* history: a swap was begun and not completed
  kept,       \* history: the originals that the last purge left
  outrun,     \* history: who has found a lock stale that another has since removed
  mistaken    \* history: one of those removed another lock in its stead

lockVars == <<lock, named, hardlinks, outrun, mistaken>>
files    == <<db, tmp, pre>>
history  == <<wrote, unmoored, kept>>
vars == <<lockVars, pc, src, files, history>>

Items == 1..MaxItems
NoFile == [kind |-> "none", rows |-> {}]
Blank  == [kind |-> "blank", rows |-> {}]
Torn   == [kind |-> "torn", rows |-> {}]
Cipher(rows) == [kind |-> "cipher", rows |-> rows]
Plain(rows)  == [kind |-> "plain", rows |-> rows]

\* Whoever is here has the init lock by right.
Critical == {"schema", "apply", "clear", "copy", "copying", "rekey", "rekeying", "parity", "aside",
             "swap", "release", "fail"}
Places == Critical \cup {"out", "publish", "write", "wait", "steal", "open", "purge", "purging",
                         "serve", "zombie", "dead"}
Killed == {"zombie", "dead"}

Vaults == {NoFile, Blank} \cup {Cipher(r) : r \in SUBSET Items} \cup {Plain(r) : r \in SUBSET Items}

\* The vault itself is never torn.
TypeOK ==
  /\ hardlinks \in BOOLEAN /\ named \in BOOLEAN /\ unmoored \in BOOLEAN /\ mistaken \in BOOLEAN
  /\ lock \in Procs \cup {Free}
  /\ pc \in [Procs -> Places]
  /\ src \in [Procs -> SUBSET Items]
  /\ db \in Vaults /\ tmp \in Vaults \cup {Torn}
  /\ pre \subseteq Vaults /\ kept \subseteq Vaults
  /\ wrote \subseteq Items /\ outrun \subseteq Procs

\* A first launch, or the first one with at-rest encryption.
Init ==
  /\ hardlinks \in BOOLEAN
  /\ lock = Free /\ named = FALSE
  /\ pc = [p \in Procs |-> "out"]
  /\ src = [p \in Procs |-> {}]
  /\ \/ db = NoFile /\ wrote = {}
     \/ db = Plain({1}) /\ wrote = {1}
  /\ tmp = NoFile /\ pre = {}
  /\ unmoored = FALSE /\ kept = {}
  /\ outrun = {} /\ mistaken = FALSE

At(p, here, there) == pc[p] = here /\ pc' = [pc EXCEPT ![p] = there]

\* A process ends, or starts over.
Forget(p) == src' = [src EXCEPT ![p] = {}]

\* The lock file goes, whoever's it is.
Unlink(p) ==
  /\ lock' = Free /\ named' = FALSE
  /\ outrun' = (outrun \cup {q \in Procs : pc[q] = "steal"}) \ {p}

-----------------------------------------------------------------------------
(* The init lock.                                                           *)

Boot(p) ==
  /\ At(p, "out", "publish")
  /\ UNCHANGED <<lockVars, src, files, history>>

\* The lock is linked into place with its pid in it, or where there are no
\* hard links created empty.
publishLock(p) ==
  /\ \/ /\ lock = Free /\ lock' = p /\ named' = hardlinks
        /\ At(p, "publish", IF hardlinks THEN "schema" ELSE "write")
     \/ /\ lock # Free /\ At(p, "publish", "wait")
        /\ UNCHANGED <<lock, named>>
  /\ UNCHANGED <<hardlinks, outrun, mistaken, src, files, history>>

\* A write that fails leaves the file as it is.
WritePid(p) ==
  /\ \/ At(p, "write", "schema") /\ named' = (named \/ lock = p)
     \/ At(p, "write", "out") /\ UNCHANGED named
  /\ UNCHANGED <<lock, hardlinks, outrun, mistaken, src, files, history>>

\* Mutant: an empty lock is abandoned.
Stale_Empty == ~named \/ pc[lock] = "dead"

\* Mutant: a pid that is in use is the holder's.
Stale_Never == ~named /\ pc[lock] # "write"

\* The holder is gone, or the file has been empty for LOCK_GRACE_MS, longer
\* than its maker takes to write.  A killed process that nobody has waited for
\* still has its pid and its start time: it passes for alive.
Stale == IF named THEN pc[lock] = "dead" ELSE pc[lock] # "write"

\* Any number of waiters may judge one lock.
FindStale(p) ==
  /\ lock # Free /\ Stale
  /\ At(p, "wait", "steal")
  /\ UNCHANGED <<lockVars, src, files, history>>

FindFree(p) ==
  /\ lock = Free /\ At(p, "wait", "publish")
  /\ UNCHANGED <<lockVars, src, files, history>>

\* LOCK_WAIT_MAX_MS are over.
GiveUp(p) ==
  /\ lock # Free /\ ~Stale /\ At(p, "wait", "out")
  /\ UNCHANGED <<lockVars, src, files, history>>

Steal(p) ==
  /\ At(p, "steal", "publish") /\ Unlink(p)
  /\ mistaken' = (mistaken \/ (p \in outrun /\ lock # Free))
  /\ UNCHANGED <<hardlinks, src, files, history>>

\* releaseLock() unlinks whatever has the name.
releaseLock(p) ==
  /\ \/ At(p, "release", "open") /\ UNCHANGED src
     \/ At(p, "fail", "out") /\ Forget(p)
  /\ Unlink(p)
  /\ UNCHANGED <<hardlinks, mistaken, files, history>>

-----------------------------------------------------------------------------
(* The schema and the encryption.                                           *)

\* Mutant: a temp file of a crashed run is cleaned up at every boot.
openSchema_Tidies(p) ==
  /\ At(p, "schema", "apply")
  /\ db' = IF db = NoFile THEN Blank ELSE db
  /\ tmp' = NoFile
  /\ UNCHANGED <<lockVars, src, pre, history>>

\* ensureVaultSchema: opening a vault that is not there creates it.
openSchema(p) ==
  /\ At(p, "schema", "apply")
  /\ db' = IF db = NoFile THEN Blank ELSE db
  /\ UNCHANGED <<lockVars, src, tmp, pre, history>>

\* An empty file is opened with the key; the schema makes it an encrypted
\* vault.  A plaintext one is migrated as such and encrypted next.
applyMigrations(p) ==
  /\ At(p, "apply", IF db.kind = "plain" THEN "clear" ELSE "release")
  /\ db' = IF db = Blank THEN Cipher({}) ELSE db
  /\ UNCHANGED <<lockVars, src, tmp, pre, history>>

\* What is not found or cannot be read makes an operation fail (Throws), and
\* what cannot be removed here makes VACUUM INTO fail.
clearTemp(p) ==
  /\ At(p, "clear", "copy")
  /\ tmp' \in {NoFile, tmp}
  /\ UNCHANGED <<lockVars, src, db, pre, history>>

\* The vault is opened, which creates it if it has been moved, its rows are
\* counted and VACUUM INTO begins.
copyStarts(p) ==
  /\ db.kind # "cipher" /\ tmp = NoFile
  /\ At(p, "copy", "copying")
  /\ src' = [src EXCEPT ![p] = db.rows]
  /\ db' = Plain(db.rows) /\ tmp' = Torn
  /\ UNCHANGED <<lockVars, pre, history>>

\* The writer of a file that another has removed writes into nothing.
copyEnds(p) ==
  /\ At(p, "copying", "rekey")
  /\ tmp' = IF tmp = Torn THEN Plain(src[p]) ELSE tmp
  /\ UNCHANGED <<lockVars, src, db, pre, history>>

rekeyStarts(p) ==
  /\ tmp.kind = "plain" /\ At(p, "rekey", "rekeying")
  /\ tmp' = Torn
  /\ UNCHANGED <<lockVars, src, db, pre, history>>

rekeyEnds(p) ==
  /\ At(p, "rekeying", "parity")
  /\ tmp' = IF tmp = Torn THEN Cipher(src[p]) ELSE tmp
  /\ UNCHANGED <<lockVars, src, db, pre, history>>

parity(p) ==
  /\ tmp = Cipher(src[p]) /\ At(p, "parity", "aside")
  /\ UNCHANGED <<lockVars, src, files, history>>

swapAside(p) ==
  /\ db # NoFile /\ At(p, "aside", "swap")
  /\ pre' = pre \cup {db} /\ db' = NoFile
  /\ UNCHANGED <<lockVars, src, tmp, history>>

swapIn(p) ==
  /\ tmp \notin {NoFile, Torn} /\ At(p, "swap", "release")
  /\ db' = tmp /\ tmp' = NoFile
  /\ UNCHANGED <<lockVars, src, pre, history>>

\* An operation fails and the boot is refused.  A failed parity check, and
\* nothing else, removes the temp file, if it can.
Throws(p) ==
  /\ \/ /\ \E l \in {"schema", "apply", "copy", "copying", "rekey", "rekeying", "aside", "swap"} :
             At(p, l, "fail")
        /\ UNCHANGED tmp
     \/ At(p, "parity", "fail") /\ tmp' \in {NoFile, tmp}
  /\ unmoored' = (unmoored \/ pc[p] = "swap")
  /\ UNCHANGED <<lockVars, src, db, pre, wrote, kept>>

-----------------------------------------------------------------------------
(* Serving the vault.                                                       *)

\* Mutant: only the process that encrypted the vault purges.
getDb_PurgesOwn(p) ==
  /\ db.kind # "plain"
  /\ db' = Cipher(db.rows)
  /\ At(p, "open", IF src[p] # {} THEN "purge" ELSE "serve")
  /\ UNCHANGED <<lockVars, src, tmp, pre, history>>

\* The vault is opened with the key, which creates it if it is not there.
getDb(p) ==
  /\ db.kind # "plain" /\ At(p, "open", "purge")
  /\ db' = Cipher(db.rows)
  /\ UNCHANGED <<lockVars, src, tmp, pre, history>>

\* A plaintext vault does not open with the key, and any open may fail.
getDbFails(p) ==
  /\ At(p, "open", "out") /\ Forget(p)
  /\ UNCHANGED <<lockVars, files, history>>

\* purgePlaintextBackup reads the live vault with the key.  On any doubt it
\* keeps every original, and the vault is served all the same.
purgeChecks(p) ==
  /\ \/ /\ db.kind = "cipher" /\ At(p, "purge", "purging")
        /\ UNCHANGED kept
     \/ At(p, "purge", "serve") /\ kept' = pre
  /\ UNCHANGED <<lockVars, src, files, wrote, unmoored>>

\* What cannot be removed stays; what is not plaintext is not touched.
purgeDeletes(p) == \E gone \in SUBSET {f \in pre : f.kind = "plain"} :
  /\ At(p, "purging", "serve")
  /\ pre' = pre \ gone /\ kept' = pre'
  /\ UNCHANGED <<lockVars, src, db, tmp, wrote, unmoored>>

Writes(p) == \E i \in Items \ wrote :
  /\ pc[p] = "serve" /\ db.kind = "cipher"
  /\ \A j \in Items \ wrote : i <= j
  /\ db' = [db EXCEPT !.rows = @ \cup {i}]
  /\ wrote' = wrote \cup {i}
  /\ UNCHANGED <<lockVars, pc, src, tmp, pre, unmoored, kept>>

Quit(p) ==
  /\ At(p, "serve", "out") /\ Forget(p)
  /\ UNCHANGED <<lockVars, files, history>>

Crash(p) ==
  /\ pc[p] \notin Killed \cup {"out"} /\ At(p, pc[p], "zombie") /\ Forget(p)
  /\ unmoored' = (unmoored \/ pc[p] = "swap")
  /\ UNCHANGED <<lockVars, files, wrote, kept>>

\* Its parent, if it ever does, waits for it.
Reap(p) ==
  /\ At(p, "zombie", "dead")
  /\ UNCHANGED <<lockVars, src, files, history>>

Step(p) ==
  \/ publishLock(p) \/ WritePid(p) \/ FindStale(p) \/ FindFree(p) \/ Steal(p) \/ releaseLock(p)
  \/ openSchema(p) \/ applyMigrations(p) \/ clearTemp(p) \/ copyStarts(p) \/ copyEnds(p)
  \/ rekeyStarts(p) \/ rekeyEnds(p) \/ parity(p) \/ swapAside(p) \/ swapIn(p)
  \/ getDb(p) \/ purgeChecks(p) \/ purgeDeletes(p)

Next == \E p \in Procs :
  Step(p) \/ Boot(p) \/ GiveUp(p) \/ Throws(p) \/ getDbFails(p) \/ Writes(p) \/ Quit(p)
    \/ Crash(p) \/ Reap(p)

Spec == Init /\ [][Next]_vars

\* Code that has started runs on.  Nobody is assumed to boot, quit,
\* be killed or be reaped.
FairSpec == Spec /\ \A p \in Procs : WF_vars(Step(p))

-----------------------------------------------------------------------------
(* Properties.                                                              *)

\* "A live holder is never stolen, and neither is one that is still being
\* written" (acquireLock): two processes are between taking and releasing the
\* init lock at once only after a mistaken steal, in which a waiter that had
\* found the lock stale was outrun by another and removed a lock it had never
\* judged.  Kills, half-written locks, failed writes and failed boots do not
\* bring it about.  acquireLock does nothing against the mistaken steal
\* (VaultStealRace.cfg), and the other properties of the files except it too:
\* two initialisers share one temp file.
OneInitialiser ==
  ~mistaken => Cardinality({p \in Procs : pc[p] \in Critical}) <= 1

\* Whatever the owner has put into the vault is whole in some file that is
\* left, wherever a process is killed or fails, if there was no mistaken steal
\* (ensureVaultEncrypted clears only a temp file whose original is there;
\* purgePlaintextBackup).
NothingIsLost ==
  ~mistaken => wrote \subseteq UNION {f.rows : f \in {db, tmp} \cup pre}

\* A process that serves the vault serves all of it, if there was no mistaken
\* steal and no swap was left between its two renames: after that the next
\* boot finds no vault, makes a fresh one and purges the original, and what
\* there was is in the temp file only.
ServesTheVault ==
  (\E p \in Procs : pc[p] = "serve") /\ ~unmoored /\ ~mistaken => wrote \subseteq db.rows

\* The owner's data are all there: in some file, and in the vault that is served.
VaultInv == TypeOK /\ NothingIsLost /\ ServesTheVault

\* What init.js:137 says of the lock, "a live holder is never stolen": no two
\* initialisers, mistaken steals included.  It fails.
NeverStolen == Cardinality({p \in Procs : pc[p] \in Critical}) <= 1

\* What db-cipher-migrate.js:11 says of the encryption, "a mid-run crash leaves
\* the original plaintext vault intact": a process that serves the vault serves
\* all of it, wherever another was killed.  It fails: the swap is two renames.
CrashLeavesVault ==
  (\E p \in Procs : pc[p] = "serve") /\ ~mistaken => wrote \subseteq db.rows

\* While a process serves the vault, a plaintext of it in the directory is an
\* original that the last purge was not sure of or could not remove; however
\* many boots were killed before, no other copy is left, no original that no
\* purge has seen, and no temp file (clearTemp, purgePlaintextBackup), if there
\* was no mistaken steal.
NoPlaintextBeside ==
  (\E p \in Procs : pc[p] = "serve") /\ ~mistaken
    => \A f \in {db, tmp} \cup (pre \ kept) : f.kind \notin {"plain", "torn"}

\* The lock of a process that was killed and waited for by its parent does not
\* keep the others out: one that waits for it ends the wait, unless it is killed
\* itself; runs with a mistaken steal are left aside.  A zombie's lock does keep
\* them out, until LOCK_WAIT_MAX_MS (GiveUp).
DeadHolderReplaced == \A h, p \in Procs :
  (lock = h /\ pc[h] = "dead" /\ pc[p] = "wait") ~> (lock # h \/ pc[p] \in Killed \/ mistaken)

=============================================================================
