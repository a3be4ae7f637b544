----------------------------- MODULE VaultLease -----------------------------
(***************************************************************************)
(* Who may write to the vault: src/db/vault-lease.js and src/db/vault-mode.js. *)
(*                                                                          *)
(* Independent processes share a directory: a lease file on which the owner *)
(* holds a kernel lock, a metadata file naming the holder and its family,   *)
(* one presence file per user of the vault, which that user holds a lock    *)
(* on, and the mode bits of the vault itself.  One action is one system     *)
(* call or one synchronous piece of code between two of them, so every      *)
(* interleaving of two processes is there.  A killed process drops its      *)
(* kernel locks and nothing else.  The vault is encrypted; one that is      *)
(* stored in plaintext never has its mode changed.                          *)
(*                                                                          *)
(* Families are app launches: the shell gives its node siblings, and they   *)
(* give the children they spawn, one token.  A standalone entry point mints *)
(* a token of its own.                                                      *)
(***************************************************************************)
EXTENDS VaultProcesses, Integers

CONSTANTS
  Kind,           \* "app": an entry point; "child": spawned with role and token;
                  \* "tool": runs with the lease disabled; "stranger": opens the
                  \* file without considering it the canonical vault
  Files,          \* names of presence files, random in the code
  CLAIM_RETRIES,
  MaxCrashes,     \* bound on kills in a behaviour
  NoProc, NoName

Apps     == {p \in Procs : Kind[p] = "app"}
Children == {p \in Procs : Kind[p] = "child"}

ASSUME ProcAssumption ==
  /\ NoProc \notin Procs /\ NoName \notin Files
  /\ \A p \in Procs : Kind[p] \in {"app", "child", "tool", "stranger"}
  /\ CLAIM_RETRIES \in Nat
  /\ MaxCrashes \in Nat

VARIABLES
  lock,      \* who holds BEGIN EXCLUSIVE on the lease file
  meta,      \* whom the metadata file names
  mode,      \* the vault files: "rw" (0600) or "ro" (0400)
  pc,        \* where each process is
  exited,    \* processes whose 'exit' listener of joinVault has started
  attempts,  \* retries of a claim that met a nameless holder
  crashes,
  dir,       \* the presence files that have their names
  held,      \* who holds the lock of each presence file, named or not
  mine,      \* each process' own presence file
  step,      \* what its scan of the presences does next
  todo,      \* the files its scan has yet to probe
  probe,     \* the file it probes
  visible,   \* history: who locked its presence file while that had its name
             \* and nobody was about to unlink it
  seen,      \* history: the visible users of the vault when a scan listed the
             \* directory, without those who have gone since
  doubted    \* history: a scan ended because it could not tell

leaseVars == <<lock, meta, attempts>>
fileVars  == <<dir, held, mine, visible>>
scanVars  == <<step, todo, probe, seen, doubted>>
vars == <<leaseVars, mode, pc, exited, crashes, fileVars, scanVars>>

Owners   == {"owner", "successor"}
Using    == Owners \cup {"inheritor", "guest"}
Leaving  == {"leaving", "exiting"}
Sealing  == {"sealing", "exitSealing"}
Places   == Using \cup Leaving \cup Sealing
              \cup {"out", "busy", "locked", "relocked", "joining", "created", "joined",
                    "tookOver", "spawned", "probing", "probeBusy",
                    "releasing", "checkMeta", "unlinkMeta"}

\* The retries of a claim and the kills stay within their bounds; the rest are
\* the types.
TypeOK ==
  /\ lock \in Procs \cup {NoProc}
  /\ meta \in Procs \cup {NoProc}
  /\ mode \in {"rw", "ro"}
  /\ pc \in [Procs -> Places]
  /\ exited \subseteq Procs
  /\ attempts \in [Procs -> 0..CLAIM_RETRIES]
  /\ crashes \in 0..MaxCrashes
  /\ dir \subseteq Files
  /\ held \in [Files -> Procs \cup {NoProc}]
  /\ mine \in [Procs -> Files \cup {NoName}]
  /\ step \in [Procs -> {"list", "next", "rollback", "reap"}]
  /\ todo \in [Procs -> SUBSET Files]
  /\ probe \in [Procs -> Files \cup {NoName}]
  /\ visible \subseteq Procs
  /\ seen \in [Procs -> SUBSET Procs]
  /\ doubted \in BOOLEAN

\* The vault was sealed by the last one out.
Init ==
  /\ lock = NoProc
  /\ meta = NoProc
  /\ mode = "ro"
  /\ pc = [p \in Procs |-> "out"]
  /\ exited = {}
  /\ attempts = [p \in Procs |-> 0]
  /\ crashes = 0
  /\ dir = {}
  /\ held = [f \in Files |-> NoProc]
  /\ mine = [p \in Procs |-> NoName]
  /\ step = [p \in Procs |-> "list"]
  /\ todo = [p \in Procs |-> {}]
  /\ probe = [p \in Procs |-> NoName]
  /\ visible = {}
  /\ seen = [p \in Procs |-> {}]
  /\ doubted = FALSE

goto(p, l) == pc' = [pc EXCEPT ![p] = l]

-----------------------------------------------------------------------------
(* claimVaultOwnership() of an entry point.                                 *)

\* BEGIN EXCLUSIVE with no busy timeout.
Claim(p) ==
  /\ Kind[p] = "app" /\ pc[p] = "out"
  /\ \/ lock = NoProc /\ lock' = p /\ goto(p, "locked")
     \/ lock # NoProc /\ UNCHANGED lock /\ goto(p, "busy")
  /\ UNCHANGED <<meta, mode, attempts, exited, crashes, fileVars, scanVars>>

\* Held: by our own family, so inherit; by nobody who says so, so try again; or
\* by somebody else, so refuse.
SameFamily(p) == meta # NoProc /\ Family[meta] = Family[p]

BusyReadsMeta(p) ==
  /\ pc[p] = "busy"
  /\ \/ /\ SameFamily(p)
        /\ goto(p, "joining")
        /\ attempts' = [attempts EXCEPT ![p] = 0]
        /\ UNCHANGED lock
     \/ /\ meta = NoProc /\ attempts[p] < CLAIM_RETRIES
        /\ IF lock = NoProc
           THEN lock' = p /\ goto(p, "locked") /\ attempts' = [attempts EXCEPT ![p] = 0]
           ELSE UNCHANGED <<lock, pc>> /\ attempts' = [attempts EXCEPT ![p] = @ + 1]
     \/ /\ ~SameFamily(p)
        /\ meta = NoProc => attempts[p] = CLAIM_RETRIES
        /\ goto(p, "out")
        /\ attempts' = [attempts EXCEPT ![p] = 0]
        /\ UNCHANGED lock
  /\ UNCHANGED <<meta, mode, exited, crashes, fileVars, scanVars>>

\* Mutant: an owner declares itself whether or not it could publish.
PublishFails_OwnsAnyway(p) ==
  /\ pc[p] \in {"locked", "relocked"}
  /\ goto(p, IF pc[p] = "locked" THEN "joining" ELSE "tookOver")
  /\ UNCHANGED <<leaseVars, mode, exited, crashes, fileVars, scanVars>>

\* publishMeta(): temp file and rename, so it is there whole or not at all.  A
\* process that takes over has joined before.
PublishMeta(p) ==
  /\ pc[p] \in {"locked", "relocked"}
  /\ meta' = p
  /\ goto(p, IF pc[p] = "locked" THEN "joining" ELSE "tookOver")
  /\ UNCHANGED <<lock, mode, attempts, exited, crashes, fileVars, scanVars>>

\* It failed: the claim is rolled back; an inheritor stays one.
PublishFails(p) ==
  /\ pc[p] \in {"locked", "relocked"}
  /\ lock' = NoProc
  /\ goto(p, IF pc[p] = "locked" THEN "out" ELSE "inheritor")
  /\ UNCHANGED <<meta, mode, attempts, exited, crashes, fileVars, scanVars>>

unlockVaultFiles(p) ==
  /\ pc[p] \in {"joined", "tookOver"}
  /\ mode' = "rw"
  /\ goto(p, IF pc[p] = "joined" THEN "owner" ELSE "successor")
  /\ UNCHANGED <<leaseVars, exited, crashes, fileVars, scanVars>>

\* Mutant: an inheritor waits for the owner to say goodbye.
TakeOver_AfterReleaseOnly(p) ==
  /\ pc[p] = "inheritor"
  /\ lock = NoProc /\ meta = NoProc
  /\ lock' = p
  /\ goto(p, "relocked")
  /\ UNCHANGED <<meta, mode, attempts, exited, crashes, fileVars, scanVars>>

\* armTakeover(): an inheritor tries again every few seconds, and on every open.
\* While the lease is held it stays what it is, whoever holds it.
TakeOver(p) ==
  /\ pc[p] = "inheritor"
  /\ lock = NoProc
  /\ lock' = p
  /\ goto(p, "relocked")
  /\ UNCHANGED <<meta, mode, attempts, exited, crashes, fileVars, scanVars>>

-----------------------------------------------------------------------------
(* Processes that never claim.                                              *)

\* A pipeline child is spawned by an app process that is using the vault ...
SpawnChild(p) ==
  /\ Kind[p] = "child" /\ pc[p] = "out"
  /\ \E a \in Apps : Family[a] = Family[p] /\ pc[a] \in Owners \cup {"inheritor"}
  /\ goto(p, "spawned")
  /\ UNCHANGED <<leaseVars, mode, exited, crashes, fileVars, scanVars>>

\* ... and opens the vault later.  The probe takes the lock for a moment.
ProbeOwnership(p) ==
  /\ pc[p] = "spawned"
  /\ \/ lock = NoProc /\ lock' = p /\ goto(p, "probing")
     \/ lock # NoProc /\ UNCHANGED lock /\ goto(p, "probeBusy")
  /\ UNCHANGED <<meta, mode, attempts, exited, crashes, fileVars, scanVars>>

\* Mutant: a child that finds the lease free goes down the path of an app.
ProbeFree_Claims(p) ==
  /\ pc[p] = "probing"
  /\ goto(p, "locked")
  /\ UNCHANGED <<leaseVars, mode, exited, crashes, fileVars, scanVars>>

\* FREE: no live app owns the vault, the child is refused.
ProbeFree(p) ==
  /\ pc[p] = "probing"
  /\ lock' = NoProc
  /\ goto(p, "out")
  /\ UNCHANGED <<meta, mode, attempts, exited, crashes, fileVars, scanVars>>

\* HELD: by our family, so join; otherwise refused.
ProbeReadsMeta(p) ==
  /\ pc[p] = "probeBusy"
  /\ goto(p, IF SameFamily(p) THEN "joining" ELSE "out")
  /\ UNCHANGED <<leaseVars, mode, exited, crashes, fileVars, scanVars>>

\* With the lease disabled: unlock the files first, then join.
SkipUnlocks(p) ==
  /\ Kind[p] = "tool" /\ pc[p] = "out"
  /\ mode' = "rw"
  /\ goto(p, "joining")
  /\ UNCHANGED <<leaseVars, exited, crashes, fileVars, scanVars>>

\* Not the canonical vault: join only.
StrangerJoins(p) ==
  /\ Kind[p] = "stranger" /\ pc[p] = "out"
  /\ goto(p, "joining")
  /\ UNCHANGED <<leaseVars, mode, exited, crashes, fileVars, scanVars>>

-----------------------------------------------------------------------------
(* joinVault(): a presence file of our own is created and then locked.  What *)
(* goes wrong with that is swallowed, and the process uses the vault all the *)
(* same.                                                                     *)

Joined(p) ==
  IF Kind[p] # "app" THEN "guest" ELSE IF lock = p THEN "joined" ELSE "inheritor"

\* A name is random: it has not been used before.
Fresh(f) ==
  /\ f \notin dir /\ held[f] = NoProc
  /\ \A q \in Procs : mine[q] # f /\ probe[q] # f /\ f \notin todo[q]

CreatePresence(p) ==
  /\ pc[p] = "joining"
  /\ \E f \in Files : Fresh(f) /\ dir' = dir \cup {f} /\ mine' = [mine EXCEPT ![p] = f]
  /\ goto(p, "created")
  /\ UNCHANGED <<leaseVars, mode, exited, crashes, held, visible, scanVars>>

\* BEGIN EXCLUSIVE on the file that was created, whether or not it still has its
\* name.  It fails if a scan is just probing the file.
LockPresence(p) ==
  /\ pc[p] = "created" /\ held[mine[p]] = NoProc
  /\ held' = [held EXCEPT ![mine[p]] = p]
  /\ visible' = IF mine[p] \in dir /\ \A q \in Procs : ~(step[q] = "reap" /\ probe[q] = mine[p])
                THEN visible \cup {p} ELSE visible
  /\ goto(p, Joined(p))
  /\ UNCHANGED <<leaseVars, mode, exited, crashes, dir, mine, scanVars>>

\* The name, the file or the lock is not to be had; a created file stays.
PresenceFails(p) ==
  /\ pc[p] \in {"joining", "created"}
  /\ mine' = [mine EXCEPT ![p] = NoName]
  /\ goto(p, Joined(p))
  /\ UNCHANGED <<leaseVars, mode, exited, crashes, dir, held, visible, scanVars>>

-----------------------------------------------------------------------------
(* Leaving.  An owner leaves twice: once in release() and once in the 'exit' *)
(* listener of joinVault, in either order.                                  *)

\* The locks of a process are dropped; nobody sees it there any longer.
Drop(p) ==
  /\ held' = [f \in Files |-> IF held[f] = p THEN NoProc ELSE held[f]]
  /\ mine' = [mine EXCEPT ![p] = NoName]
  /\ visible' = visible \ {p}
  /\ seen' = [q \in Procs |-> IF q = p THEN {} ELSE seen[q] \ {p}]

\* The presence is closed and its file unlinked.  (One step: in between, a scan
\* finds the file free, as it does when the file is gone.)
Withdraw(p) ==
  /\ Drop(p)
  /\ dir' = dir \ {mine[p]}
  /\ UNCHANGED <<step, todo, probe, doubted>>

\* closeAll(): the release function of a claim made at boot.  What a takeover
\* returned is held by nobody, so a successor does not get here.
Release(p) ==
  /\ pc[p] = "owner"
  /\ Withdraw(p)
  /\ goto(p, "leaving")
  /\ UNCHANGED <<leaseVars, mode, exited, crashes>>

\* The process exits: leaveVault().  Who may not seal is done with that.
Exit(p) ==
  /\ pc[p] \in Using
  /\ Withdraw(p)
  /\ IF Kind[p] = "stranger" THEN goto(p, "out") /\ UNCHANGED exited
     ELSE goto(p, "exiting") /\ exited' = exited \cup {p}
  /\ UNCHANGED <<leaseVars, mode, crashes>>

\* release() goes on to the lease; the listener is followed by release(), on
\* 'exit' too, if that has not run.
AfterLeave(p) ==
  IF pc[p] \in {"leaving", "sealing"} THEN "releasing"
  ELSE IF lock = p THEN "leaving" ELSE "out"

\* A process that is gone forgets that its listener ran.
Proceed(p) ==
  /\ goto(p, AfterLeave(p))
  /\ exited' = IF AfterLeave(p) = "out" THEN exited \ {p} ELSE exited

\* The scan is over.
Scanned(p) ==
  /\ step' = [step EXCEPT ![p] = "list"]
  /\ todo' = [todo EXCEPT ![p] = {}]
  /\ probe' = [probe EXCEPT ![p] = NoName]

\* We do not seal.
GiveUp(p) == Proceed(p) /\ Scanned(p) /\ seen' = [seen EXCEPT ![p] = {}]

\* anyOtherPresenceAlive(): the directory is read, once.
ListPresences(p) ==
  /\ pc[p] \in Leaving /\ step[p] = "list"
  /\ todo' = [todo EXCEPT ![p] = dir]
  /\ seen' = [seen EXCEPT ![p] = visible]
  /\ step' = [step EXCEPT ![p] = "next"]
  /\ UNCHANGED <<leaseVars, mode, pc, exited, crashes, fileVars, probe, doubted>>

\* Mutant: a file that somebody holds is passed over.
ProbePresence_Skips(p) ==
  /\ pc[p] \in Leaving /\ step[p] = "next"
  /\ \E f \in todo[p] : todo' = [todo EXCEPT ![p] = @ \ {f}]
  /\ UNCHANGED <<leaseVars, mode, pc, exited, crashes, fileVars, step, probe, seen, doubted>>

\* A file of the list is probed by taking its lock.  If somebody holds it, there
\* is another user and we do not seal.  (Probing a name that is gone makes an
\* empty file and unlinks it: passed over.)
ProbePresence(p) ==
  /\ pc[p] \in Leaving /\ step[p] = "next"
  /\ \E f \in todo[p] :
       \/ /\ f \in dir /\ held[f] = NoProc
          /\ held' = [held EXCEPT ![f] = p]
          /\ probe' = [probe EXCEPT ![p] = f]
          /\ step' = [step EXCEPT ![p] = "rollback"]
          /\ UNCHANGED <<pc, exited, todo, seen>>
       \/ /\ f \in dir /\ held[f] # NoProc
          /\ GiveUp(p)
          /\ UNCHANGED held
       \/ /\ f \notin dir
          /\ todo' = [todo EXCEPT ![p] = @ \ {f}]
          /\ UNCHANGED <<pc, exited, held, step, probe, seen>>
  /\ UNCHANGED <<leaseVars, mode, crashes, dir, mine, visible, doubted>>

\* Nobody held it: the lock is given back ...
RollBackProbe(p) ==
  /\ step[p] = "rollback"
  /\ held' = [held EXCEPT ![probe[p]] = NoProc]
  /\ step' = [step EXCEPT ![p] = "reap"]
  /\ UNCHANGED <<leaseVars, mode, pc, exited, crashes, dir, mine, visible, todo, probe, seen, doubted>>

\* ... and the file is unlinked as a dead process' leavings.
ReapPresence(p) ==
  /\ step[p] = "reap"
  /\ dir' = dir \ {probe[p]}
  /\ todo' = [todo EXCEPT ![p] = @ \ {probe[p]}]
  /\ probe' = [probe EXCEPT ![p] = NoName]
  /\ step' = [step EXCEPT ![p] = "next"]
  /\ UNCHANGED <<leaseVars, mode, pc, exited, crashes, held, mine, visible, seen, doubted>>

\* The directory or a file cannot be read: who cannot tell does not seal.
ScanDoubts(p) ==
  /\ pc[p] \in Leaving /\ step[p] \in {"list", "next"}
  /\ GiveUp(p)
  /\ doubted' = TRUE
  /\ UNCHANGED <<leaseVars, mode, crashes, fileVars>>

\* Mutant: only the owner seals.
NobodyElse_OwnerOnly(p) ==
  /\ pc[p] \in Leaving /\ step[p] = "next" /\ todo[p] = {}
  /\ Scanned(p)
  /\ IF lock # p THEN Proceed(p)
     ELSE goto(p, IF pc[p] = "leaving" THEN "sealing" ELSE "exitSealing") /\ UNCHANGED exited
  /\ UNCHANGED <<leaseVars, mode, crashes, fileVars, seen, doubted>>

\* No other presence is alive: we are the last, and seal.
NobodyElse(p) ==
  /\ pc[p] \in Leaving /\ step[p] = "next" /\ todo[p] = {}
  /\ Scanned(p)
  /\ goto(p, IF pc[p] = "leaving" THEN "sealing" ELSE "exitSealing")
  /\ UNCHANGED <<leaseVars, mode, exited, crashes, fileVars, seen, doubted>>

lockVaultFiles(p) ==
  /\ pc[p] \in Sealing
  /\ mode' = "ro"
  /\ Proceed(p)
  /\ seen' = [seen EXCEPT ![p] = {}]
  /\ UNCHANGED <<leaseVars, crashes, fileVars, step, todo, probe, doubted>>

\* release(): the lock, then the metadata if they are still ours.
ReleaseLock(p) ==
  /\ pc[p] = "releasing"
  /\ lock' = NoProc
  /\ goto(p, "checkMeta")
  /\ UNCHANGED <<meta, attempts, mode, exited, crashes, fileVars, scanVars>>

\* After release(), the process exits, unless it did so before.
AfterRelease(p) ==
  /\ goto(p, IF p \in exited THEN "out" ELSE "exiting")
  /\ exited' = IF p \in exited THEN exited \ {p} ELSE exited \cup {p}

ReadOwnMeta(p) ==
  /\ pc[p] = "checkMeta"
  /\ IF meta = p THEN goto(p, "unlinkMeta") /\ UNCHANGED exited ELSE AfterRelease(p)
  /\ UNCHANGED <<leaseVars, mode, crashes, fileVars, scanVars>>

UnlinkMeta(p) ==
  /\ pc[p] = "unlinkMeta"
  /\ meta' = NoProc
  /\ AfterRelease(p)
  /\ UNCHANGED <<lock, attempts, mode, crashes, fileVars, scanVars>>

\* SIGKILL, anywhere: the kernel releases the locks, the files stay.
Crash(p) ==
  /\ pc[p] # "out" /\ crashes < MaxCrashes
  /\ crashes' = crashes + 1
  /\ lock' = IF lock = p THEN NoProc ELSE lock
  /\ Drop(p) /\ Scanned(p)
  /\ goto(p, "out")
  /\ exited' = exited \ {p}
  /\ attempts' = [attempts EXCEPT ![p] = 0]
  /\ UNCHANGED <<meta, mode, dir, doubted>>

\* The steps of joinVault() and of anyOtherPresenceAlive().
Join(p) == CreatePresence(p) \/ LockPresence(p) \/ PresenceFails(p)

Scan(p) ==
  \/ ListPresences(p) \/ ProbePresence(p) \/ RollBackProbe(p) \/ ReapPresence(p)
  \/ ScanDoubts(p) \/ NobodyElse(p)

\* What a process does once it has been started, asked to leave, or elected.
Run(p) ==
  \/ BusyReadsMeta(p) \/ PublishMeta(p) \/ PublishFails(p) \/ unlockVaultFiles(p)
  \/ ProbeOwnership(p) \/ ProbeFree(p) \/ ProbeReadsMeta(p) \/ Join(p)
  \/ Scan(p) \/ lockVaultFiles(p) \/ ReleaseLock(p) \/ ReadOwnMeta(p) \/ UnlinkMeta(p)

Next ==
  \E p \in Procs :
    \/ Claim(p) \/ TakeOver(p) \/ SpawnChild(p) \/ SkipUnlocks(p) \/ StrangerJoins(p)
    \/ Run(p) \/ Release(p) \/ Exit(p) \/ Crash(p)

Spec == Init /\ [][Next]_vars

\* Code that runs goes on, a publish does not fail for ever, and the takeover
\* timer keeps firing although children probe the lease in between.  Nobody is
\* assumed to start, to leave or to be killed.
Fairness ==
  /\ \A p \in Procs : WF_vars(Run(p))
  /\ \A p \in Apps : SF_vars(PublishMeta(p)) /\ SF_vars(TakeOver(p))

FairSpec == Spec /\ Fairness

-----------------------------------------------------------------------------
(* What holds.                                                              *)

\* "A spawned child may never claim": a process that the app spawned never owns
\* the vault and is never named as its holder, whatever it finds when it opens
\* the vault after its app died.
ChildNeverOwns ==
  \A c \in Children : /\ meta # c
                       /\ lock = c => pc[c] = "probing"
                       /\ pc[c] \notin Owners \cup {"inheritor"}

\* There is one owner, and the metadata never name anybody else while it owns
\* the vault: publishing before declaring means that a process that finds the
\* lease held by an owner is never told of a stranger.
OwnerNotMisnamed ==
  \A p \in Procs : pc[p] \in Owners => lock = p /\ meta \in {p, NoProc}

\* "Whoever leaves last finds no other live presence and seals": from its
\* decision to seal until the files are read-only, a process does not overlook
\* anybody who used the vault already when it listed the presences and still
\* does, while other processes register, probe, reap and are killed around it.
\* That is promised to those that are visible: a scan that probes a presence file
\* between its creation and its lock unlinks it, and then its process
\* is not (UsersAreSeen); nor is one that came after the list was made.
NobodySeenIsSealedOut == \A p \in Procs : pc[p] \in Sealing => seen[p] = {}

\* "Whoever leaves last seals": unless a process was killed or a scan could not
\* tell, a vault nobody uses is read-only, whatever the order in which processes
\* start and leave, whoever failed to register, and although one process' probe
\* of a file looks to another's like a user.  (Not so when strangers use it, who
\* keep others from sealing and never seal.)
LastOneOutSeals ==
  crashes = 0 /\ ~doubted /\ (\A p \in Procs : pc[p] = "out") => mode = "ro"

\* After every graceful exit the metadata are gone: unless a process was killed,
\* metadata name a process that is still there.
MetaOfTheLiving ==
  crashes = 0 /\ meta # NoProc => pc[meta] # "out"

\* The sibling that survives takes over: an inheritor is not left for ever in a
\* vault without an owner (under FairSpec).
OwnerlessHeals ==
  \A a \in Apps : pc[a] = "inheritor" ~> \/ \E p \in Apps : pc[p] \in Owners
                                          \/ pc[a] \in {"exiting", "out"}

-----------------------------------------------------------------------------
(* What the comments say and the code does not do.                          *)

\* "Every process that uses the vault holds an exclusive lock on its own presence
\* file for its lifetime", under a name that others find, while the disk and the
\* directory work: not if a scan comes between its creation and its lock.
UsersAreSeen ==
  \A p \in Procs : pc[p] \in Using /\ mine[p] # NoName => mine[p] \in dir

\* "Writable iff someone owns it".
OwnerWritable == \A p \in Procs : pc[p] \in Owners => mode = "rw"

\* "Two app instances must not share one vault".
OneFamily ==
  \A p, q \in Apps : {pc[p], pc[q]} \subseteq Owners \cup {"inheritor"}
                        => Family[p] = Family[q]

\* "The app spawns two node siblings ... and the other must proceed rather than
\* fail": a sibling is not told of another instance while its family claims.
SiblingProceeds ==
  [][\A p \in Apps :
       pc[p] = "busy" /\ pc'[p] = "out" /\ crashes' = crashes
       /\ lock # NoProc /\ meta # NoProc
         => Family[lock] # Family[p]]_vars

=============================================================================
