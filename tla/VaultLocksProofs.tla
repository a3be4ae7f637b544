-------------------------- MODULE VaultLocksProofs --------------------------
(***************************************************************************)
(* The safety of the two locks on the vault, for any number of processes    *)
(* and kills.  The lease: for processes of any kind and family and any      *)
(* number of presence files, who owns the vault, whom the metadata name,    *)
(* whom a process that seals has not overlooked, and that the last one out  *)
(* seals.  The writer lock: for any number of retries and of claims that    *)
(* overlap, whom its file names, and who keeps it.                          *)
(***************************************************************************)
EXTENDS VaultLease, WriterLock, TLAPS

-----------------------------------------------------------------------------
(* THE LEASE: who holds it, and whom the metadata name.                     *)

\* Where a process holds the lease for sure, and where it may hold it.
HoldPlaces == Owners \cup {"locked", "relocked", "joined", "tookOver", "probing",
                           "leaving", "sealing", "releasing"}
MayHold    == HoldPlaces \cup {"joining", "created", "exiting", "exitSealing"}

\* Where an owner that has published is before it has given up its metadata.
NamedPlaces == Owners \cup {"joined", "tookOver", "leaving", "sealing", "releasing",
                            "checkMeta", "unlinkMeta"}

\* The lease has one holder, and it is where its code says.
LeaseInv ==
  \A p \in Procs :
    /\ pc[p] \in HoldPlaces => lock = p
    /\ lock = p => pc[p] \in MayHold

\* Which kind of process is where.
KindInv ==
  \A p \in Procs :
    /\ Kind[p] = "child" => pc[p] \in {"out", "spawned", "probing", "probeBusy", "joining",
                                      "created", "guest", "exiting", "exitSealing"}
    /\ Kind[p] \in {"tool", "stranger"} => pc[p] \in {"out", "joining", "created", "guest",
                                                     "exiting", "exitSealing"}
    /\ Kind[p] = "app" => pc[p] \notin {"spawned", "probing", "probeBusy", "guest"}
    /\ Kind[p] # "app" /\ lock = p => pc[p] = "probing"

\* Only apps publish, only while they hold the lease.
NameInv ==
  /\ meta # NoProc => Kind[meta] = "app"
  /\ \A p \in Procs :
       (\/ pc[p] \in Owners \cup {"joined", "tookOver"}
        \/ lock = p /\ pc[p] \in {"joining", "created"})
         => meta \in {p, NoProc}

\* Without kills, the process that the metadata name has yet to clear them.
LivingInv ==
  crashes = 0 /\ meta # NoProc
    => \/ pc[meta] \in NamedPlaces
       \/ pc[meta] \in {"joining", "created", "exiting", "exitSealing"} /\ lock = meta

IInv == TypeOK /\ LeaseInv /\ KindInv /\ NameInv /\ LivingInv

-----------------------------------------------------------------------------
(* These invariants are inductive.                                          *)

\* What one process does.
StepOf(p) ==
  \/ Claim(p) \/ TakeOver(p) \/ SpawnChild(p) \/ SkipUnlocks(p) \/ StrangerJoins(p)
  \/ Run(p) \/ Release(p) \/ Exit(p) \/ Crash(p)

\* Each step keeps the types.
LEMMA TypeStep ==
  ASSUME IInv, NEW p \in Procs, StepOf(p)
  PROVE  TypeOK'
<1> USE ProcAssumption DEF IInv, TypeOK, goto, leaseVars, fileVars, scanVars, Places, Using, Owners, Leaving, Sealing
<1>1. CASE Claim(p)
  BY <1>1 DEF Claim
<1>2. CASE BusyReadsMeta(p)
  BY <1>2 DEF BusyReadsMeta, SameFamily
<1>3. CASE PublishMeta(p) \/ PublishFails(p)
  BY <1>3 DEF PublishMeta, PublishFails
<1>4. CASE unlockVaultFiles(p) \/ TakeOver(p)
  BY <1>4 DEF unlockVaultFiles, TakeOver
<1>5. CASE SpawnChild(p) \/ ProbeOwnership(p)
  BY <1>5 DEF SpawnChild, ProbeOwnership
<1>6. CASE ProbeFree(p) \/ ProbeReadsMeta(p)
  BY <1>6 DEF ProbeFree, ProbeReadsMeta, SameFamily
<1>7. CASE SkipUnlocks(p) \/ StrangerJoins(p)
  BY <1>7 DEF SkipUnlocks, StrangerJoins
<1>8. CASE CreatePresence(p) \/ LockPresence(p) \/ PresenceFails(p)
  BY <1>8 DEF CreatePresence, LockPresence, PresenceFails, Joined
<1>9. CASE Release(p) \/ Exit(p)
  BY <1>9 DEF Release, Exit, Withdraw, Drop, Using
<1>10. CASE ListPresences(p) \/ RollBackProbe(p) \/ ReapPresence(p)
  BY <1>10 DEF ListPresences, RollBackProbe, ReapPresence
<1>11. CASE ProbePresence(p) \/ ScanDoubts(p)
  <2>1. CASE ScanDoubts(p)
    BY <2>1 DEF ScanDoubts, GiveUp, Proceed, Scanned, AfterLeave
  <2>2. CASE ProbePresence(p)
    <3>1. PICK f \in todo[p] : ProbePresence(p)!2!(f)
      BY <2>2 DEF ProbePresence
    <3>2. f \in Files
      BY <3>1
    <3>3. CASE f \in dir /\ held[f] # NoProc
      BY <2>2, <3>1, <3>2, <3>3 DEF ProbePresence, GiveUp, Proceed, Scanned, AfterLeave
    <3>4. CASE ~(f \in dir /\ held[f] # NoProc)
      BY <2>2, <3>1, <3>2, <3>4 DEF ProbePresence
    <3>5. QED
      BY <3>3, <3>4
  <2>3. QED
    BY <1>11, <2>1, <2>2
<1>12. CASE NobodyElse(p) \/ lockVaultFiles(p)
  BY <1>12 DEF NobodyElse, lockVaultFiles, Scanned, Proceed, AfterLeave
<1>13. CASE ReleaseLock(p)
  BY <1>13 DEF ReleaseLock
<1>14. CASE ReadOwnMeta(p)
  BY <1>14 DEF ReadOwnMeta, AfterRelease
<1>15. CASE UnlinkMeta(p)
  BY <1>15 DEF UnlinkMeta, AfterRelease
<1>16. CASE Crash(p)
  BY <1>16 DEF Crash, Drop, Scanned
<1>17. QED
  BY <1>1, <1>2, <1>3, <1>4, <1>5, <1>6, <1>7, <1>8, <1>9, <1>10, <1>11, <1>12, <1>13,
     <1>14, <1>15, <1>16 DEF StepOf, Run, Join, Scan

\* Only who takes the lock is where the lock is held.
LEMMA LeaseStep ==
  ASSUME IInv, NEW p \in Procs, StepOf(p)
  PROVE  LeaseInv'
<1> USE ProcAssumption DEF IInv, TypeOK, LeaseInv, KindInv, HoldPlaces, MayHold, goto, leaseVars, Using, Owners, Leaving, Sealing
<1>1. CASE Claim(p)
  BY <1>1 DEF Claim
<1>2. CASE BusyReadsMeta(p)
  BY <1>2 DEF BusyReadsMeta, SameFamily
<1>3. CASE PublishMeta(p) \/ PublishFails(p)
  BY <1>3 DEF PublishMeta, PublishFails
<1>4. CASE unlockVaultFiles(p) \/ TakeOver(p)
  BY <1>4 DEF unlockVaultFiles, TakeOver
<1>5. CASE SpawnChild(p) \/ ProbeOwnership(p)
  BY <1>5 DEF SpawnChild, ProbeOwnership
<1>6. CASE ProbeFree(p) \/ ProbeReadsMeta(p)
  BY <1>6 DEF ProbeFree, ProbeReadsMeta, SameFamily
<1>7. CASE SkipUnlocks(p) \/ StrangerJoins(p)
  BY <1>7 DEF SkipUnlocks, StrangerJoins
<1>8. CASE CreatePresence(p) \/ LockPresence(p) \/ PresenceFails(p)
  BY <1>8 DEF CreatePresence, LockPresence, PresenceFails, Joined
<1>9. CASE Release(p) \/ Exit(p)
  BY <1>9 DEF Release, Exit, Withdraw, Drop, Using
<1>10. CASE ListPresences(p) \/ RollBackProbe(p) \/ ReapPresence(p)
  BY <1>10 DEF ListPresences, RollBackProbe, ReapPresence
<1>11. CASE ProbePresence(p) \/ ScanDoubts(p)
  BY <1>11 DEF ProbePresence, ScanDoubts, GiveUp, Proceed, Scanned, AfterLeave
<1>12. CASE NobodyElse(p) \/ lockVaultFiles(p)
  BY <1>12 DEF NobodyElse, lockVaultFiles, Scanned, Proceed, AfterLeave
<1>13. CASE ReleaseLock(p)
  BY <1>13 DEF ReleaseLock
<1>14. CASE ReadOwnMeta(p)
  BY <1>14 DEF ReadOwnMeta, AfterRelease
<1>15. CASE UnlinkMeta(p)
  BY <1>15 DEF UnlinkMeta, AfterRelease
<1>16. CASE Crash(p)
  BY <1>16 DEF Crash, Drop, Scanned
<1>17. QED
  BY <1>1, <1>2, <1>3, <1>4, <1>5, <1>6, <1>7, <1>8, <1>9, <1>10, <1>11, <1>12, <1>13,
     <1>14, <1>15, <1>16 DEF StepOf, Run, Join, Scan

\* No kind of process gets where only others belong.
LEMMA KindStep ==
  ASSUME IInv, NEW p \in Procs, StepOf(p)
  PROVE  KindInv'
<1> USE ProcAssumption DEF IInv, TypeOK, LeaseInv, KindInv, HoldPlaces, MayHold, goto, leaseVars, Using, Owners, Leaving, Sealing
<1>1. CASE Claim(p)
  BY <1>1 DEF Claim
<1>2. CASE BusyReadsMeta(p)
  BY <1>2 DEF BusyReadsMeta, SameFamily
<1>3. CASE PublishMeta(p) \/ PublishFails(p)
  BY <1>3 DEF PublishMeta, PublishFails
<1>4. CASE unlockVaultFiles(p) \/ TakeOver(p)
  BY <1>4 DEF unlockVaultFiles, TakeOver
<1>5. CASE SpawnChild(p) \/ ProbeOwnership(p)
  BY <1>5 DEF SpawnChild, ProbeOwnership
<1>6. CASE ProbeFree(p) \/ ProbeReadsMeta(p)
  BY <1>6 DEF ProbeFree, ProbeReadsMeta, SameFamily
<1>7. CASE SkipUnlocks(p) \/ StrangerJoins(p)
  BY <1>7 DEF SkipUnlocks, StrangerJoins
<1>8. CASE CreatePresence(p) \/ LockPresence(p) \/ PresenceFails(p)
  BY <1>8 DEF CreatePresence, LockPresence, PresenceFails, Joined
<1>9. CASE Release(p) \/ Exit(p)
  BY <1>9 DEF Release, Exit, Withdraw, Drop, Using
<1>10. CASE ListPresences(p) \/ RollBackProbe(p) \/ ReapPresence(p)
  BY <1>10 DEF ListPresences, RollBackProbe, ReapPresence
<1>11. CASE ProbePresence(p) \/ ScanDoubts(p)
  BY <1>11 DEF ProbePresence, ScanDoubts, GiveUp, Proceed, Scanned, AfterLeave
<1>12. CASE NobodyElse(p) \/ lockVaultFiles(p)
  BY <1>12 DEF NobodyElse, lockVaultFiles, Scanned, Proceed, AfterLeave
<1>13. CASE ReleaseLock(p)
  BY <1>13 DEF ReleaseLock
<1>14. CASE ReadOwnMeta(p)
  BY <1>14 DEF ReadOwnMeta, AfterRelease
<1>15. CASE UnlinkMeta(p)
  BY <1>15 DEF UnlinkMeta, AfterRelease
<1>16. CASE Crash(p)
  BY <1>16 DEF Crash, Drop, Scanned
<1>17. QED
  BY <1>1, <1>2, <1>3, <1>4, <1>5, <1>6, <1>7, <1>8, <1>9, <1>10, <1>11, <1>12, <1>13,
     <1>14, <1>15, <1>16 DEF StepOf, Run, Join, Scan

\* Who has published is named until it clears the name.
LEMMA NameStep ==
  ASSUME IInv, NEW p \in Procs, StepOf(p)
  PROVE  NameInv'
<1> USE ProcAssumption DEF IInv, TypeOK, LeaseInv, KindInv, NameInv, HoldPlaces, MayHold, goto, leaseVars, Using, Owners, Leaving, Sealing
<1>1. CASE Claim(p)
  BY <1>1 DEF Claim
<1>2. CASE BusyReadsMeta(p)
  BY <1>2 DEF BusyReadsMeta, SameFamily
<1>3. CASE PublishMeta(p) \/ PublishFails(p)
  BY <1>3 DEF PublishMeta, PublishFails
<1>4. CASE unlockVaultFiles(p) \/ TakeOver(p)
  BY <1>4 DEF unlockVaultFiles, TakeOver
<1>5. CASE SpawnChild(p) \/ ProbeOwnership(p)
  BY <1>5 DEF SpawnChild, ProbeOwnership
<1>6. CASE ProbeFree(p) \/ ProbeReadsMeta(p)
  BY <1>6 DEF ProbeFree, ProbeReadsMeta, SameFamily
<1>7. CASE SkipUnlocks(p) \/ StrangerJoins(p)
  BY <1>7 DEF SkipUnlocks, StrangerJoins
<1>8. CASE CreatePresence(p) \/ LockPresence(p) \/ PresenceFails(p)
  BY <1>8 DEF CreatePresence, LockPresence, PresenceFails, Joined
<1>9. CASE Release(p) \/ Exit(p)
  BY <1>9 DEF Release, Exit, Withdraw, Drop, Using
<1>10. CASE ListPresences(p) \/ RollBackProbe(p) \/ ReapPresence(p)
  BY <1>10 DEF ListPresences, RollBackProbe, ReapPresence
<1>11. CASE ProbePresence(p) \/ ScanDoubts(p)
  BY <1>11 DEF ProbePresence, ScanDoubts, GiveUp, Proceed, Scanned, AfterLeave
<1>12. CASE NobodyElse(p) \/ lockVaultFiles(p)
  BY <1>12 DEF NobodyElse, lockVaultFiles, Scanned, Proceed, AfterLeave
<1>13. CASE ReleaseLock(p)
  BY <1>13 DEF ReleaseLock
<1>14. CASE ReadOwnMeta(p)
  BY <1>14 DEF ReadOwnMeta, AfterRelease
<1>15. CASE UnlinkMeta(p)
  BY <1>15 DEF UnlinkMeta, AfterRelease
<1>16. CASE Crash(p)
  BY <1>16 DEF Crash, Drop, Scanned
<1>17. QED
  BY <1>1, <1>2, <1>3, <1>4, <1>5, <1>6, <1>7, <1>8, <1>9, <1>10, <1>11, <1>12, <1>13,
     <1>14, <1>15, <1>16 DEF StepOf, Run, Join, Scan

\* Who is named gives up the lease on its way out, and then the name.
LEMMA LivingStep ==
  ASSUME IInv, NEW p \in Procs, StepOf(p)
  PROVE  LivingInv'
<1> USE ProcAssumption DEF IInv, TypeOK, LeaseInv, KindInv, NameInv, LivingInv, HoldPlaces, MayHold, NamedPlaces, goto, leaseVars, Using, Owners, Leaving, Sealing
<1>1. CASE Claim(p)
  BY <1>1 DEF Claim
<1>2. CASE BusyReadsMeta(p)
  BY <1>2 DEF BusyReadsMeta, SameFamily
<1>3. CASE PublishMeta(p) \/ PublishFails(p)
  BY <1>3 DEF PublishMeta, PublishFails
<1>4. CASE unlockVaultFiles(p) \/ TakeOver(p)
  BY <1>4 DEF unlockVaultFiles, TakeOver
<1>5. CASE SpawnChild(p) \/ ProbeOwnership(p)
  BY <1>5 DEF SpawnChild, ProbeOwnership
<1>6. CASE ProbeFree(p) \/ ProbeReadsMeta(p)
  BY <1>6 DEF ProbeFree, ProbeReadsMeta, SameFamily
<1>7. CASE SkipUnlocks(p) \/ StrangerJoins(p)
  BY <1>7 DEF SkipUnlocks, StrangerJoins
<1>8. CASE CreatePresence(p) \/ LockPresence(p) \/ PresenceFails(p)
  BY <1>8 DEF CreatePresence, LockPresence, PresenceFails, Joined
<1>9. CASE Release(p) \/ Exit(p)
  BY <1>9 DEF Release, Exit, Withdraw, Drop, Using
<1>10. CASE ListPresences(p) \/ RollBackProbe(p) \/ ReapPresence(p)
  BY <1>10 DEF ListPresences, RollBackProbe, ReapPresence
<1>11. CASE ProbePresence(p) \/ ScanDoubts(p)
  BY <1>11 DEF ProbePresence, ScanDoubts, GiveUp, Proceed, Scanned, AfterLeave
<1>12. CASE NobodyElse(p) \/ lockVaultFiles(p)
  BY <1>12 DEF NobodyElse, lockVaultFiles, Scanned, Proceed, AfterLeave
<1>13. CASE ReleaseLock(p)
  BY <1>13 DEF ReleaseLock
<1>14. CASE ReadOwnMeta(p)
  BY <1>14 DEF ReadOwnMeta, AfterRelease
<1>15. CASE UnlinkMeta(p)
  BY <1>15 DEF UnlinkMeta, AfterRelease
<1>16. CASE Crash(p)
  BY <1>16 DEF Crash, Drop, Scanned
<1>17. QED
  BY <1>1, <1>2, <1>3, <1>4, <1>5, <1>6, <1>7, <1>8, <1>9, <1>10, <1>11, <1>12, <1>13,
     <1>14, <1>15, <1>16 DEF StepOf, Run, Join, Scan

\* IInv is inductive.
LEMMA IInvStep == IInv /\ [Next]_vars => IInv'
<1> SUFFICES ASSUME IInv, [Next]_vars PROVE IInv'
  OBVIOUS
<1>1. CASE Next
  <2>1. PICK p \in Procs : StepOf(p)
    BY <1>1 DEF Next, StepOf
  <2>2. QED
    BY <2>1, TypeStep, LeaseStep, KindStep, NameStep, LivingStep DEF IInv
<1>2. CASE UNCHANGED vars
  BY <1>2 DEF vars, leaseVars, fileVars, scanVars, IInv, TypeOK, LeaseInv, KindInv, NameInv,
    LivingInv
<1>3. QED
  BY <1>1, <1>2

\* It holds in every reachable state.
THEOREM Inductive == Spec => []IInv
<1>1. Init => IInv
  <2>1. Init => doubted \in BOOLEAN
    BY Zenon DEF Init
  <2>2. QED
    BY <2>1, ProcAssumption
     DEF Init, IInv, TypeOK, LeaseInv, KindInv, NameInv, LivingInv, HoldPlaces, MayHold,
         NamedPlaces, Owners, Using, Leaving, Sealing, Places
<1>2. QED
  BY <1>1, IInvStep, PTL DEF Spec

\* The type invariant of the lease.
THEOREM TypeCorrect == Spec => []TypeOK
<1>1. IInv => TypeOK
  BY DEF IInv
<1>2. QED
  BY <1>1, Inductive, PTL

\* A spawned child never owns the vault, however many apps, children and tools
\* start, leave and are killed in whatever order.
THEOREM ChildrenNeverOwn == Spec => []ChildNeverOwns
<1>1. IInv => ChildNeverOwns
  BY ProcAssumption DEF IInv, TypeOK, KindInv, NameInv, ChildNeverOwns, Children, Owners
<1>2. QED
  BY <1>1, Inductive, PTL

\* There is one owner, and the metadata never name another process beside it.
THEOREM OwnerNeverMisnamed == Spec => []OwnerNotMisnamed
<1>1. IInv => OwnerNotMisnamed
  BY DEF IInv, LeaseInv, NameInv, OwnerNotMisnamed, HoldPlaces, Owners
<1>2. QED
  BY <1>1, Inductive, PTL

\* Without kills, the metadata name a process that is still there.
THEOREM MetadataOfTheLiving == Spec => []MetaOfTheLiving
<1>1. IInv => MetaOfTheLiving
  BY DEF IInv, LivingInv, MetaOfTheLiving, NamedPlaces, Owners
<1>2. QED
  BY <1>1, Inductive, PTL

-----------------------------------------------------------------------------
(* THE LEASE: who is seen by whom.                                          *)

\* Where a process is between joining the vault and leaving it.
Registered == Using \cup {"joined", "tookOver", "relocked"}

\* A process that has a presence file holds its lock, nobody else has the same
\* file, and nothing else is locked but what a scan probes.
OwnFileInv ==
  /\ \A p \in Procs :
       /\ mine[p] # NoName => pc[p] \in Registered \cup {"created"}
       /\ mine[p] # NoName /\ pc[p] \in Registered => held[mine[p]] = p
       /\ pc[p] = "created" => mine[p] # NoName
  /\ \A p, q \in Procs : mine[p] = mine[q] /\ p # q => mine[p] = NoName
  /\ \A f \in Files : held[f] # NoProc =>
       \/ mine[held[f]] = f /\ pc[held[f]] \in Registered
       \/ probe[held[f]] = f /\ step[held[f]] = "rollback"

\* A scan is done by a process that leaves, and holds the file it probes.
ScanInv ==
  \A p \in Procs :
    /\ step[p] # "list" => pc[p] \in Leaving
    /\ step[p] = "rollback" => held[probe[p]] = p
    /\ step[p] \in {"rollback", "reap"} => probe[p] # NoName
    /\ pc[p] \in Sealing => todo[p] = {}

\* Who is visible is so by a file that has its name, and nobody is about to
\* unlink it.
VisibleInv ==
  \A p \in visible :
    /\ mine[p] \in dir
    /\ pc[p] \in Registered
    /\ \A q \in Procs : step[q] = "reap" => probe[q] # mine[p]

\* A scan has yet to probe the files of those it has seen, if they are still there.
SeenInv ==
  \A p \in Procs : step[p] # "list" \/ pc[p] \in Sealing =>
    \A q \in seen[p] : q \in visible /\ mine[q] \in todo[p]

FilesInv == OwnFileInv /\ ScanInv /\ VisibleInv /\ SeenInv

\* A file that is locked by its owner is unlocked only by it.
LEMMA OwnFileStep ==
  ASSUME IInv, FilesInv, NEW p \in Procs, StepOf(p)
  PROVE  OwnFileInv'
<1> USE ProcAssumption DEF IInv, TypeOK, FilesInv, OwnFileInv, ScanInv, VisibleInv, SeenInv, Registered, Using, Owners, Leaving, Sealing, goto, leaseVars, fileVars, scanVars
<1>1. CASE Claim(p)
  BY <1>1 DEF Claim
<1>2. CASE BusyReadsMeta(p)
  BY <1>2 DEF BusyReadsMeta, SameFamily
<1>3. CASE PublishMeta(p) \/ PublishFails(p)
  BY <1>3 DEF PublishMeta, PublishFails
<1>4. CASE unlockVaultFiles(p) \/ TakeOver(p)
  BY <1>4 DEF unlockVaultFiles, TakeOver
<1>5. CASE SpawnChild(p) \/ ProbeOwnership(p)
  BY <1>5 DEF SpawnChild, ProbeOwnership
<1>6. CASE ProbeFree(p) \/ ProbeReadsMeta(p)
  BY <1>6 DEF ProbeFree, ProbeReadsMeta, SameFamily
<1>7. CASE SkipUnlocks(p) \/ StrangerJoins(p)
  BY <1>7 DEF SkipUnlocks, StrangerJoins
<1>8. CASE CreatePresence(p) \/ LockPresence(p) \/ PresenceFails(p)
  <2>1. CASE CreatePresence(p)
    <3>1. PICK f \in Files : Fresh(f) /\ mine' = [mine EXCEPT ![p] = f]
      BY <2>1 DEF CreatePresence
    <3>2. held[f] = NoProc /\ \A q \in Procs : mine[q] # f
      BY <3>1 DEF Fresh
    <3>3. QED
      BY <2>1, <3>1, <3>2 DEF CreatePresence
  <2>2. CASE LockPresence(p)
    <3>1. mine[p] \in Files
      BY <2>2 DEF LockPresence
    <3>2. Joined(p) \in Registered
      BY DEF Joined
    <3>3. QED
      BY <2>2, <3>1, <3>2 DEF LockPresence
  <2>3. CASE PresenceFails(p)
    <3>1. Joined(p) \in Registered
      BY DEF Joined
    <3>2. \A f \in Files : held[f] # p
      BY <2>3 DEF PresenceFails
    <3>3. QED
      BY <2>3, <3>1, <3>2 DEF PresenceFails
  <2>4. QED
    BY <1>8, <2>1, <2>2, <2>3
<1>9. CASE Release(p) \/ Exit(p)
  BY <1>9 DEF Release, Exit, Withdraw, Drop, Using
<1>10. CASE ListPresences(p) \/ RollBackProbe(p) \/ ReapPresence(p)
  BY <1>10 DEF ListPresences, RollBackProbe, ReapPresence
<1>11. CASE ProbePresence(p) \/ ScanDoubts(p)
  BY <1>11 DEF ProbePresence, ScanDoubts, GiveUp, Proceed, Scanned, AfterLeave
<1>12. CASE NobodyElse(p) \/ lockVaultFiles(p)
  BY <1>12 DEF NobodyElse, lockVaultFiles, Scanned, Proceed, AfterLeave
<1>13. CASE ReleaseLock(p)
  BY <1>13 DEF ReleaseLock
<1>14. CASE ReadOwnMeta(p)
  BY <1>14 DEF ReadOwnMeta, AfterRelease
<1>15. CASE UnlinkMeta(p)
  BY <1>15 DEF UnlinkMeta, AfterRelease
<1>16. CASE Crash(p)
  BY <1>16 DEF Crash, Drop, Scanned
<1>17. QED
  BY <1>1, <1>2, <1>3, <1>4, <1>5, <1>6, <1>7, <1>8, <1>9, <1>10, <1>11, <1>12, <1>13,
     <1>14, <1>15, <1>16 DEF StepOf, Run, Join, Scan

\* A scan runs to its end in the process that leaves.
LEMMA ScanStep ==
  ASSUME IInv, FilesInv, NEW p \in Procs, StepOf(p)
  PROVE  ScanInv'
<1> USE ProcAssumption DEF IInv, TypeOK, FilesInv, OwnFileInv, ScanInv, VisibleInv, SeenInv, Registered, Using, Owners, Leaving, Sealing, goto, leaseVars, fileVars, scanVars
<1>1. CASE Claim(p)
  BY <1>1 DEF Claim
<1>2. CASE BusyReadsMeta(p)
  BY <1>2 DEF BusyReadsMeta, SameFamily
<1>3. CASE PublishMeta(p) \/ PublishFails(p)
  BY <1>3 DEF PublishMeta, PublishFails
<1>4. CASE unlockVaultFiles(p) \/ TakeOver(p)
  BY <1>4 DEF unlockVaultFiles, TakeOver
<1>5. CASE SpawnChild(p) \/ ProbeOwnership(p)
  BY <1>5 DEF SpawnChild, ProbeOwnership
<1>6. CASE ProbeFree(p) \/ ProbeReadsMeta(p)
  BY <1>6 DEF ProbeFree, ProbeReadsMeta, SameFamily
<1>7. CASE SkipUnlocks(p) \/ StrangerJoins(p)
  BY <1>7 DEF SkipUnlocks, StrangerJoins
<1>8. CASE CreatePresence(p) \/ LockPresence(p) \/ PresenceFails(p)
  BY <1>8 DEF CreatePresence, LockPresence, PresenceFails, Joined
<1>9. CASE Release(p) \/ Exit(p)
  BY <1>9 DEF Release, Exit, Withdraw, Drop, Using
<1>10. CASE ListPresences(p) \/ RollBackProbe(p) \/ ReapPresence(p)
  BY <1>10 DEF ListPresences, RollBackProbe, ReapPresence
<1>11. CASE ProbePresence(p) \/ ScanDoubts(p)
  BY <1>11 DEF ProbePresence, ScanDoubts, GiveUp, Proceed, Scanned, AfterLeave
<1>12. CASE NobodyElse(p) \/ lockVaultFiles(p)
  BY <1>12 DEF NobodyElse, lockVaultFiles, Scanned, Proceed, AfterLeave
<1>13. CASE ReleaseLock(p)
  BY <1>13 DEF ReleaseLock
<1>14. CASE ReadOwnMeta(p)
  BY <1>14 DEF ReadOwnMeta, AfterRelease
<1>15. CASE UnlinkMeta(p)
  BY <1>15 DEF UnlinkMeta, AfterRelease
<1>16. CASE Crash(p)
  BY <1>16 DEF Crash, Drop, Scanned
<1>17. QED
  BY <1>1, <1>2, <1>3, <1>4, <1>5, <1>6, <1>7, <1>8, <1>9, <1>10, <1>11, <1>12, <1>13,
     <1>14, <1>15, <1>16 DEF StepOf, Run, Join, Scan

\* A scan reaps only what it found free, and no visible user's file is.
LEMMA VisibleStep ==
  ASSUME IInv, FilesInv, NEW p \in Procs, StepOf(p)
  PROVE  VisibleInv'
<1> USE ProcAssumption DEF IInv, TypeOK, FilesInv, OwnFileInv, ScanInv, VisibleInv, SeenInv, Registered, Using, Owners, Leaving, Sealing, goto, leaseVars, fileVars, scanVars
<1>1. CASE Claim(p)
  BY <1>1 DEF Claim
<1>2. CASE BusyReadsMeta(p)
  BY <1>2 DEF BusyReadsMeta, SameFamily
<1>3. CASE PublishMeta(p) \/ PublishFails(p)
  BY <1>3 DEF PublishMeta, PublishFails
<1>4. CASE unlockVaultFiles(p) \/ TakeOver(p)
  BY <1>4 DEF unlockVaultFiles, TakeOver
<1>5. CASE SpawnChild(p) \/ ProbeOwnership(p)
  BY <1>5 DEF SpawnChild, ProbeOwnership
<1>6. CASE ProbeFree(p) \/ ProbeReadsMeta(p)
  BY <1>6 DEF ProbeFree, ProbeReadsMeta, SameFamily
<1>7. CASE SkipUnlocks(p) \/ StrangerJoins(p)
  BY <1>7 DEF SkipUnlocks, StrangerJoins
<1>8. CASE CreatePresence(p) \/ LockPresence(p) \/ PresenceFails(p)
  BY <1>8 DEF CreatePresence, LockPresence, PresenceFails, Joined
<1>9. CASE Release(p) \/ Exit(p)
  BY <1>9 DEF Release, Exit, Withdraw, Drop, Using
<1>10. CASE ListPresences(p) \/ RollBackProbe(p) \/ ReapPresence(p)
  BY <1>10 DEF ListPresences, RollBackProbe, ReapPresence
<1>11. CASE ProbePresence(p) \/ ScanDoubts(p)
  BY <1>11 DEF ProbePresence, ScanDoubts, GiveUp, Proceed, Scanned, AfterLeave
<1>12. CASE NobodyElse(p) \/ lockVaultFiles(p)
  BY <1>12 DEF NobodyElse, lockVaultFiles, Scanned, Proceed, AfterLeave
<1>13. CASE ReleaseLock(p)
  BY <1>13 DEF ReleaseLock
<1>14. CASE ReadOwnMeta(p)
  BY <1>14 DEF ReadOwnMeta, AfterRelease
<1>15. CASE UnlinkMeta(p)
  BY <1>15 DEF UnlinkMeta, AfterRelease
<1>16. CASE Crash(p)
  BY <1>16 DEF Crash, Drop, Scanned
<1>17. QED
  BY <1>1, <1>2, <1>3, <1>4, <1>5, <1>6, <1>7, <1>8, <1>9, <1>10, <1>11, <1>12, <1>13,
     <1>14, <1>15, <1>16 DEF StepOf, Run, Join, Scan

\* A scan passes over a file only when it is free or gone.
LEMMA SeenStep ==
  ASSUME IInv, FilesInv, NEW p \in Procs, StepOf(p)
  PROVE  SeenInv'
<1> USE ProcAssumption DEF IInv, TypeOK, FilesInv, OwnFileInv, ScanInv, VisibleInv, SeenInv, Registered, Using, Owners, Leaving, Sealing, goto, leaseVars, fileVars, scanVars
<1>1. CASE Claim(p)
  BY <1>1 DEF Claim
<1>2. CASE BusyReadsMeta(p)
  BY <1>2 DEF BusyReadsMeta, SameFamily
<1>3. CASE PublishMeta(p) \/ PublishFails(p)
  BY <1>3 DEF PublishMeta, PublishFails
<1>4. CASE unlockVaultFiles(p) \/ TakeOver(p)
  BY <1>4 DEF unlockVaultFiles, TakeOver
<1>5. CASE SpawnChild(p) \/ ProbeOwnership(p)
  BY <1>5 DEF SpawnChild, ProbeOwnership
<1>6. CASE ProbeFree(p) \/ ProbeReadsMeta(p)
  BY <1>6 DEF ProbeFree, ProbeReadsMeta, SameFamily
<1>7. CASE SkipUnlocks(p) \/ StrangerJoins(p)
  BY <1>7 DEF SkipUnlocks, StrangerJoins
<1>8. CASE CreatePresence(p) \/ LockPresence(p) \/ PresenceFails(p)
  BY <1>8 DEF CreatePresence, LockPresence, PresenceFails, Joined
<1>9. CASE Release(p) \/ Exit(p)
  BY <1>9 DEF Release, Exit, Withdraw, Drop, Using
<1>10. CASE ListPresences(p) \/ RollBackProbe(p) \/ ReapPresence(p)
  BY <1>10 DEF ListPresences, RollBackProbe, ReapPresence
<1>11. CASE ProbePresence(p) \/ ScanDoubts(p)
  BY <1>11 DEF ProbePresence, ScanDoubts, GiveUp, Proceed, Scanned, AfterLeave
<1>12. CASE NobodyElse(p) \/ lockVaultFiles(p)
  BY <1>12 DEF NobodyElse, lockVaultFiles, Scanned, Proceed, AfterLeave
<1>13. CASE ReleaseLock(p)
  BY <1>13 DEF ReleaseLock
<1>14. CASE ReadOwnMeta(p)
  BY <1>14 DEF ReadOwnMeta, AfterRelease
<1>15. CASE UnlinkMeta(p)
  BY <1>15 DEF UnlinkMeta, AfterRelease
<1>16. CASE Crash(p)
  BY <1>16 DEF Crash, Drop, Scanned
<1>17. QED
  BY <1>1, <1>2, <1>3, <1>4, <1>5, <1>6, <1>7, <1>8, <1>9, <1>10, <1>11, <1>12, <1>13,
     <1>14, <1>15, <1>16 DEF StepOf, Run, Join, Scan

\* FilesInv is inductive, given IInv.
LEMMA FilesInvStep == IInv /\ FilesInv /\ [Next]_vars => FilesInv'
<1> SUFFICES ASSUME IInv, FilesInv, [Next]_vars PROVE FilesInv'
  OBVIOUS
<1>1. CASE Next
  <2>1. PICK p \in Procs : StepOf(p)
    BY <1>1 DEF Next, StepOf
  <2>2. QED
    BY <2>1, OwnFileStep, ScanStep, VisibleStep, SeenStep DEF FilesInv
<1>2. CASE UNCHANGED vars
  BY <1>2 DEF vars, leaseVars, fileVars, scanVars, FilesInv, OwnFileInv, ScanInv, VisibleInv,
    SeenInv
<1>3. QED
  BY <1>1, <1>2

\* It holds in every reachable state.
THEOREM FilesInductive == Spec => []FilesInv
<1>1. Init => FilesInv
  BY ProcAssumption
     DEF Init, FilesInv, OwnFileInv, ScanInv, VisibleInv, SeenInv, Registered, Using, Owners,
         Leaving, Sealing
<1>2. QED
  BY <1>1, Inductive, FilesInvStep, PTL DEF Spec

\* A process that seals has not overlooked a visible user that was there when it
\* listed the presences, for any number of processes of any kind that register,
\* fail to, probe, reap, leave and are killed meanwhile.
THEOREM SeenAreNotSealedOut == Spec => []NobodySeenIsSealedOut
<1>1. FilesInv => NobodySeenIsSealedOut
  BY DEF FilesInv, ScanInv, SeenInv, NobodySeenIsSealedOut
<1>2. QED
  BY <1>1, FilesInductive, PTL

-----------------------------------------------------------------------------
(* THE LEASE: the last one out.                                             *)

\* Where a process uses the vault, or is yet to decide about sealing it.
Sealers == Registered \cup {"joining", "created"} \cup Leaving \cup Sealing

\* Without kills and doubts, a writable vault has a process that will decide.
SealerExists ==
  crashes = 0 /\ ~doubted /\ mode = "rw" => \E p \in Procs : pc[p] \in Sealers

\* Each step keeps one: who gives up sealing has met a lock, and its holder uses
\* the vault or probes a file, on its own way out.
LEMMA SealerKept ==
  ASSUME IInv, FilesInv, SealerExists, [Next]_vars, \A p \in Procs : Kind[p] # "stranger"
  PROVE  SealerExists'
<1> USE DEF IInv, TypeOK, Sealers, Registered, Using, Owners, Leaving, Sealing, goto, leaseVars,
      fileVars, scanVars
<1> SUFFICES ASSUME Next, crashes' = 0, ~doubted', mode' = "rw"
             PROVE  \E p \in Procs : pc'[p] \in Sealers
  BY DEF SealerExists, vars
<1>1. PICK r \in Procs : StepOf(r)
  BY DEF Next, StepOf
<1>2. CASE Claim(r) \/ BusyReadsMeta(r) \/ PublishMeta(r) \/ PublishFails(r) \/ TakeOver(r)
  BY <1>2 DEF Claim, BusyReadsMeta, PublishMeta, PublishFails, TakeOver, SealerExists
<1>3. CASE SpawnChild(r) \/ ProbeOwnership(r) \/ ProbeFree(r) \/ ProbeReadsMeta(r)
  BY <1>3 DEF SpawnChild, ProbeOwnership, ProbeFree, ProbeReadsMeta, SealerExists
<1>4. CASE unlockVaultFiles(r) \/ SkipUnlocks(r) \/ StrangerJoins(r)
  BY <1>4 DEF unlockVaultFiles, SkipUnlocks, StrangerJoins
<1>5. CASE Join(r)
  BY <1>5 DEF Join, CreatePresence, LockPresence, PresenceFails, Joined
<1>6. CASE Release(r) \/ Exit(r)
  BY <1>6 DEF Release, Exit
<1>7. CASE ListPresences(r) \/ RollBackProbe(r) \/ ReapPresence(r) \/ NobodyElse(r)
  BY <1>7 DEF ListPresences, RollBackProbe, ReapPresence, NobodyElse, SealerExists
<1>8. CASE ProbePresence(r)
  <2>1. PICK f \in todo[r] : ProbePresence(r)!2!(f)
    BY <1>8 DEF ProbePresence
  <2>2. f \in Files
    BY <2>1
  <2>3. CASE f \in dir /\ held[f] # NoProc
    <3>1. held[f] \in Procs \ {r} /\ pc[held[f]] \in Sealers
      BY <1>8, <2>2, <2>3 DEF ProbePresence, FilesInv, OwnFileInv, ScanInv
    <3>2. pc'[held[f]] = pc[held[f]]
      BY <2>1, <2>3, <3>1 DEF GiveUp, Proceed
    <3>3. QED
      BY <3>1, <3>2
  <2>4. CASE ~(f \in dir /\ held[f] # NoProc)
    <3>1. pc' = pc
      BY <2>1, <2>4
    <3>2. QED
      BY <1>8, <3>1 DEF ProbePresence
  <2>5. QED
    BY <2>3, <2>4
<1>9. CASE ScanDoubts(r) \/ lockVaultFiles(r) \/ Crash(r)
  BY <1>9 DEF ScanDoubts, lockVaultFiles, Crash
<1>10. CASE ReleaseLock(r) \/ ReadOwnMeta(r) \/ UnlinkMeta(r)
  BY <1>10 DEF ReleaseLock, ReadOwnMeta, UnlinkMeta, AfterRelease, SealerExists
<1>11. QED
  BY <1>1, <1>2, <1>3, <1>4, <1>5, <1>6, <1>7, <1>8, <1>9, <1>10 DEF StepOf, Run, Scan

\* If every process considers the vault its own, the last one out seals it: with
\* no kills and no doubts, a vault nobody uses is read-only.
THEOREM LastOutSeals ==
  ASSUME \A p \in Procs : Kind[p] # "stranger"
  PROVE  Spec => []LastOneOutSeals
<1>1. Init => SealerExists
  BY DEF Init, SealerExists
<1>2. IInv /\ FilesInv /\ SealerExists /\ [Next]_vars => SealerExists'
  BY SealerKept
<1>3. IInv /\ SealerExists => LastOneOutSeals
  BY DEF IInv, TypeOK, SealerExists, LastOneOutSeals, Sealers, Registered, Using, Owners, Leaving,
    Sealing
<1>4. QED
  BY <1>1, <1>2, <1>3, Inductive, FilesInductive, PTL DEF Spec

-----------------------------------------------------------------------------
(* THE WRITER LOCK.                                                         *)

\* If the file names its creator, that one holds it, gives it back, or left it
\* behind when it was killed; a creator that holds the file is named by it.
FileInv ==
  \A p \in Procs : path = p =>
    /\ named => place[p] \in {"holder", "relRead", "relUnlink", "dead"}
    /\ place[p] \in {"holder", "relRead", "relUnlink"} => named

LockInv == LockTypeOK /\ FileInv

\* The invariant is inductive: only its creator names itself in a file, and it
\* becomes the holder in the same step.
LEMMA LockStep == LockInv /\ [LockNext]_lockVars => LockInv'
<1> SUFFICES ASSUME LockInv, [LockNext]_lockVars PROVE LockInv'
  OBVIOUS
<1> USE LockAssumption DEF LockInv, LockTypeOK, FileInv, moveTo, LockPlaces, Unlinking
<1>1. ASSUME NEW p \in Procs, Acquire(p) PROVE LockInv'
  BY <1>1 DEF Acquire
<1>2. ASSUME NEW p \in Procs, Create(p) PROVE LockInv'
  <2>1. named' \in BOOLEAN
    BY <1>2, Zenon DEF Create
  <2>2. QED
    BY <1>2, <2>1 DEF Create
<1>3. ASSUME NEW p \in Procs, WriteHolder(p) PROVE LockInv'
  <2>1. named' \in BOOLEAN
    BY <1>3, Zenon DEF WriteHolder
  <2>2. CASE path = p
    <3>1. named'
      BY <1>3, <2>2, Zenon DEF WriteHolder
    <3>2. QED
      BY <1>3, <2>1, <2>2, <3>1 DEF WriteHolder
  <2>3. CASE path # p
    <3>1. named' = named
      BY <1>3, <2>3, Zenon DEF WriteHolder
    <3>2. QED
      BY <1>3, <2>1, <2>3, <3>1 DEF WriteHolder
  <2>4. QED
    BY <2>2, <2>3
<1>4. ASSUME NEW p \in Procs, ReadHolder(p) PROVE LockInv'
  BY <1>4 DEF ReadHolder
<1>5. ASSUME NEW p \in Procs, Unlink(p) PROVE LockInv'
  <2>1. named' \in BOOLEAN
    BY <1>5, Zenon DEF Unlink
  <2>2. QED
    BY <1>5, <2>1 DEF Unlink
<1>6. ASSUME NEW p \in Procs, Close(p) PROVE LockInv'
  BY <1>6 DEF Close
<1>7. ASSUME NEW p \in Procs, ReleaseReads(p) PROVE LockInv'
  BY <1>7 DEF ReleaseReads
<1>8. ASSUME NEW p \in Procs, ReleaseUnlinks(p) PROVE LockInv'
  BY <1>8 DEF ReleaseUnlinks
<1>9. ASSUME NEW p \in Procs, Kill(p) PROVE LockInv'
  BY <1>9 DEF Kill
<1>10. ASSUME NEW p \in Procs, WriteFails(p) PROVE LockInv'
  BY <1>10 DEF WriteFails
<1>11. CASE UNCHANGED lockVars
  BY <1>11 DEF lockVars
<1>12. QED
  BY <1>1, <1>2, <1>3, <1>4, <1>5, <1>6, <1>7, <1>8, <1>9, <1>10, <1>11 DEF LockNext, Step

\* The invariant holds in every reachable state.
THEOREM LockInvariance == LockSpec => []LockInv
<1>1. LockInit => LockInv
  <2>1. LockInit => named \in BOOLEAN
    BY Zenon DEF LockInit
  <2>2. QED
    BY <2>1, LockAssumption DEF LockInit, LockInv, LockTypeOK, FileInv, LockPlaces, Unlinking
<1>2. QED
  BY <1>1, LockStep, PTL DEF LockSpec

\* The lock names a holder, one that gives the lock back, or a dead process, also
\* when any number of claims, reclaims and releases overlap.
THEOREM HolderAlwaysReal == LockSpec => []HolderIsReal
<1>1. LockInv => HolderIsReal
  BY DEF LockInv, LockTypeOK, FileInv, HolderIsReal, Legible
<1>2. QED
  BY <1>1, LockInvariance, PTL

-----------------------------------------------------------------------------
(* Who settled keeps the file.                                              *)

\* Whoever settled has the file, and nobody else is about to unlink it.
SettledInv ==
  \A p \in settled : place[p] \in {"holder", "relRead", "relUnlink"} =>
    /\ path = p /\ named
    /\ \A q \in Procs : q # p => place[q] \notin Unlinking

\* Each step preserves it: as long as the holder has the file and is not dead, a
\* claimant reads that it is held, and a process that gives the lock back reads
\* that the file is not its own.
LEMMA SettledStep ==
  ASSUME LockInv, SettledInv, [LockNext]_lockVars
  PROVE  SettledInv'
<1> USE LockAssumption
    DEF LockInv, LockTypeOK, FileInv, SettledInv, moveTo, Unlinking, LockPlaces
<1>1. ASSUME NEW p \in Procs, Acquire(p) PROVE SettledInv'
  BY <1>1 DEF Acquire
<1>2. ASSUME NEW p \in Procs, Create(p) PROVE SettledInv'
  BY <1>2 DEF Create
<1>3. ASSUME NEW p \in Procs, WriteHolder(p) PROVE SettledInv'
  <2>0. settled' \subseteq Procs
    BY <1>3 DEF WriteHolder
  <2>1. \A q \in Procs \ {p} : q \in settled' <=> q \in settled
    BY <1>3 DEF WriteHolder
  <2>2. \A q \in Procs \ {p} : place'[q] = place[q]
    BY <1>3 DEF WriteHolder
  <2>3. CASE path = p /\ \A q \in Procs : place[q] \notin Unlinking
    <3>1. path' = p /\ named' = TRUE /\ \A q \in Procs : place'[q] \notin Unlinking
      BY <1>3, <2>3 DEF WriteHolder
    <3>2. \A q \in settled' \ {p} : place'[q] \notin {"holder", "relRead", "relUnlink"}
      BY <2>0, <2>1, <2>2, <2>3
    <3>3. QED
      BY <3>1, <3>2
  <2>4. CASE ~(path = p /\ \A q \in Procs : place[q] \notin Unlinking)
    <3>1. p \notin settled' /\ path' = path /\ (named => named')
      BY <1>3, <2>4, Zenon DEF WriteHolder
    <3>2. QED
      BY <1>3, <2>1, <2>2, <3>1 DEF WriteHolder
  <2>5. QED
    BY <2>3, <2>4
<1>4. ASSUME NEW p \in Procs, ReadHolder(p) PROVE SettledInv'
  BY <1>4 DEF ReadHolder, Legible, holderStillLive
<1>5. ASSUME NEW p \in Procs, Unlink(p) PROVE SettledInv'
  BY <1>5 DEF Unlink
<1>6. ASSUME NEW p \in Procs, Close(p) PROVE SettledInv'
  BY <1>6 DEF Close
<1>7. ASSUME NEW p \in Procs, ReleaseReads(p) PROVE SettledInv'
  BY <1>7 DEF ReleaseReads
<1>8. ASSUME NEW p \in Procs, ReleaseUnlinks(p) PROVE SettledInv'
  BY <1>8 DEF ReleaseUnlinks
<1>9. ASSUME NEW p \in Procs, Kill(p) PROVE SettledInv'
  BY <1>9 DEF Kill
<1>10. ASSUME NEW p \in Procs, WriteFails(p) PROVE SettledInv'
  BY <1>10 DEF WriteFails
<1>11. CASE UNCHANGED lockVars
  BY <1>11 DEF lockVars
<1>12. QED
  BY <1>1, <1>2, <1>3, <1>4, <1>5, <1>6, <1>7, <1>8, <1>9, <1>10, <1>11 DEF LockNext, Step

\* A holder that wrote itself into the file while nobody was about to unlink it
\* has it until it closes or is killed, whatever other processes claim, reclaim
\* and release meanwhile; two such holders at a time there are not.
THEOREM SettledHoldersKeep == LockSpec => []SettledHolderKeeps
<1>1. LockInit => SettledInv
  BY DEF LockInit, SettledInv
<1>2. LockInv /\ SettledInv /\ [LockNext]_lockVars => SettledInv'
  BY SettledStep
<1>3. SettledInv => SettledHolderKeeps
  BY DEF SettledInv, SettledHolderKeeps
<1>4. QED
  BY <1>1, <1>2, <1>3, LockInvariance, PTL DEF LockSpec

=============================================================================
