--------------------------- MODULE VaultInitProofs ---------------------------
(***************************************************************************)
(* What the init lock and the encryption guarantee for any number of        *)
(* processes, items and kills, and however many waiters judge one lock: two *)
(* initialisers only after a mistaken steal, and without one no lost row,   *)
(* and no plaintext beside a served vault but what a purge left there.      *)
(***************************************************************************)
EXTENDS VaultInit, FiniteSetTheorems, TLAPS

(* Where a process is says what it knows of the lock: one that has found it *)
(* stale may rely on that until another removes the lock ...                *)
LockInv ==
  /\ \A p \in Procs : pc[p] \in Critical => lock = p /\ named
  /\ \A p \in Procs : pc[p] = "write" => lock = p
  /\ \A p \in Procs : pc[p] = "steal" /\ p \notin outrun => lock # Free /\ Stale

(* ... and of the vault, of the temp file ...                               *)
Copies == {"copying", "rekey", "rekeying", "parity", "aside", "swap"}
PlaceInv == \A p \in Procs :
  /\ pc[p] = "apply" => db # NoFile
  /\ pc[p] \in {"clear", "copy"} \cup (Copies \ {"swap"}) => db.kind = "plain"
  /\ pc[p] \in Copies \ {"swap"} => src[p] = db.rows
  /\ pc[p] = "swap" => db = NoFile /\ wrote \subseteq src[p] /\ ~unmoored
  /\ pc[p] \in {"aside", "swap"} => tmp = Cipher(src[p])
  /\ pc[p] \in {"release", "open", "purge", "purging", "serve"} => db.kind = "cipher"
  /\ pc[p] = "serve" => pre \subseteq kept

(* ... and where the owner's rows are.  A torn or plain temp file has its   *)
(* original beside it.                                                      *)
DataInv ==
  /\ tmp.kind \in {"torn", "plain"} => db.kind = "plain"
  /\ unmoored => db.kind # "plain" /\ wrote \subseteq db.rows \cup tmp.rows
  /\ ~unmoored /\ (\A p \in Procs : pc[p] # "swap") => wrote \subseteq db.rows

(* Only the types survive a mistaken steal.                                 *)
IInv == TypeOK /\ (~mistaken => LockInv /\ PlaceInv /\ DataInv)

-----------------------------------------------------------------------------
\* Each step preserves each part, the types whatever has happened, the rest while
\* no mistaken steal has.
LEMMA TypeStep ==
  ASSUME TypeOK, [Next]_vars
  PROVE  TypeOK'
<1> USE InitAssumption DEF TypeOK, Vaults, At, Places, Critical, Killed, NoFile, Blank, Torn,
       Cipher,
     Plain, lockVars, files, history
<1>0. db.rows \in SUBSET Items
  OBVIOUS
<1>1. ASSUME NEW p \in Procs, Boot(p) PROVE TypeOK'
  BY <1>1 DEF Boot
<1>2. ASSUME NEW p \in Procs, publishLock(p) PROVE TypeOK'
  BY <1>2 DEF publishLock
<1>3. ASSUME NEW p \in Procs, WritePid(p) PROVE TypeOK'
  <2>1. named' \in BOOLEAN
    BY <1>3, Zenon DEF WritePid
  <2>2. QED
    BY <1>3, <2>1 DEF WritePid
<1>4. ASSUME NEW p \in Procs, FindStale(p) PROVE TypeOK'
  BY <1>4 DEF FindStale
<1>5. ASSUME NEW p \in Procs, FindFree(p) PROVE TypeOK'
  BY <1>5 DEF FindFree
<1>6. ASSUME NEW p \in Procs, GiveUp(p) PROVE TypeOK'
  BY <1>6 DEF GiveUp
<1>7. ASSUME NEW p \in Procs, Steal(p) PROVE TypeOK'
  BY <1>7 DEF Steal, Unlink
<1>8. ASSUME NEW p \in Procs, releaseLock(p) PROVE TypeOK'
  BY <1>8 DEF releaseLock, Forget, Unlink
<1>9. ASSUME NEW p \in Procs, openSchema(p) PROVE TypeOK'
  BY <1>9 DEF openSchema
<1>10. ASSUME NEW p \in Procs, applyMigrations(p) PROVE TypeOK'
  BY <1>10 DEF applyMigrations
<1>11. ASSUME NEW p \in Procs, clearTemp(p) PROVE TypeOK'
  BY <1>11 DEF clearTemp
<1>12. ASSUME NEW p \in Procs, copyStarts(p) PROVE TypeOK'
  BY <1>0, <1>12 DEF copyStarts
<1>13. ASSUME NEW p \in Procs, copyEnds(p) PROVE TypeOK'
  BY <1>13 DEF copyEnds
<1>14. ASSUME NEW p \in Procs, rekeyStarts(p) PROVE TypeOK'
  BY <1>14 DEF rekeyStarts
<1>15. ASSUME NEW p \in Procs, rekeyEnds(p) PROVE TypeOK'
  BY <1>15 DEF rekeyEnds
<1>16. ASSUME NEW p \in Procs, parity(p) PROVE TypeOK'
  BY <1>16 DEF parity
<1>17. ASSUME NEW p \in Procs, swapAside(p) PROVE TypeOK'
  BY <1>17 DEF swapAside
<1>18. ASSUME NEW p \in Procs, swapIn(p) PROVE TypeOK'
  BY <1>18 DEF swapIn
<1>19. ASSUME NEW p \in Procs, Throws(p) PROVE TypeOK'
  BY <1>19 DEF Throws
<1>20. ASSUME NEW p \in Procs, getDb(p) PROVE TypeOK'
  BY <1>0, <1>20 DEF getDb
<1>21. ASSUME NEW p \in Procs, getDbFails(p) PROVE TypeOK'
  BY <1>21 DEF getDbFails, Forget
<1>22. ASSUME NEW p \in Procs, purgeChecks(p) PROVE TypeOK'
  BY <1>22 DEF purgeChecks
<1>23. ASSUME NEW p \in Procs, purgeDeletes(p) PROVE TypeOK'
  BY <1>23 DEF purgeDeletes
<1>24. ASSUME NEW p \in Procs, Writes(p) PROVE TypeOK'
  <2>1. PICK i \in Items : db' = [db EXCEPT !.rows = @ \cup {i}] /\ wrote' = wrote \cup {i}
    BY <1>24 DEF Writes
  <2>2. PICK r \in SUBSET Items : db = Cipher(r)
    BY <1>24 DEF Writes
  <2>3. db' = Cipher(r \cup {i}) /\ r \cup {i} \in SUBSET Items
    BY <2>1, <2>2
  <2>4. db' \in Vaults
    <3> HIDE DEF Cipher, Plain, NoFile, Blank
    <3>1. QED
      BY <2>3 DEF Vaults
  <2>5. wrote' \subseteq Items
    BY <2>1
  <2>6. QED
    BY <1>24, <2>4, <2>5 DEF Writes
<1>25. ASSUME NEW p \in Procs, Quit(p) PROVE TypeOK'
  BY <1>25 DEF Quit, Forget
<1>26. ASSUME NEW p \in Procs, Crash(p) PROVE TypeOK'
  BY <1>26 DEF Crash, Forget
<1>27. ASSUME NEW p \in Procs, Reap(p) PROVE TypeOK'
  BY <1>27 DEF Reap
<1>28. CASE UNCHANGED vars
  BY <1>28 DEF vars, lockVars, files, history
<1> QED
  BY <1>1, <1>2, <1>3, <1>4, <1>5, <1>6, <1>7, <1>8, <1>9, <1>10, <1>11, <1>12, <1>13,
       <1>14, <1>15, <1>16, <1>17, <1>18, <1>19, <1>20, <1>21, <1>22, <1>23, <1>24, <1>25,
       <1>26, <1>27, <1>28 DEF Next, Step

\* A mistaken steal is never forgotten.
LEMMA Unforgotten ==
  ASSUME TypeOK, [Next]_vars, ~mistaken'
  PROVE  ~mistaken
  BY DEF TypeOK, Next, Step, vars, lockVars, Boot, publishLock, WritePid, FindStale, FindFree,
       GiveUp, Steal, releaseLock, openSchema, applyMigrations, clearTemp, copyStarts,
       copyEnds, rekeyStarts, rekeyEnds, parity, swapAside, swapIn, Throws, getDb, getDbFails,
       purgeChecks, purgeDeletes, Writes, Quit, Crash, Reap

LEMMA LockStep ==
  ASSUME TypeOK, ~mistaken, LockInv, [Next]_vars, ~mistaken'
  PROVE  LockInv'
<1> USE InitAssumption DEF TypeOK, LockInv, At, Stale, Critical, Killed, lockVars
<1>1. ASSUME NEW p \in Procs, Boot(p) PROVE LockInv'
  BY <1>1 DEF Boot
<1>2. ASSUME NEW p \in Procs, publishLock(p) PROVE LockInv'
  BY <1>2 DEF publishLock
<1>3. ASSUME NEW p \in Procs, WritePid(p) PROVE LockInv'
  BY <1>3 DEF WritePid
<1>4. ASSUME NEW p \in Procs, FindStale(p) PROVE LockInv'
  BY <1>4 DEF FindStale
<1>5. ASSUME NEW p \in Procs, FindFree(p) PROVE LockInv'
  BY <1>5 DEF FindFree
<1>6. ASSUME NEW p \in Procs, GiveUp(p) PROVE LockInv'
  BY <1>6 DEF GiveUp
<1>7. ASSUME NEW p \in Procs, Steal(p) PROVE LockInv'
  BY <1>7 DEF Steal, Unlink
<1>8. ASSUME NEW p \in Procs, releaseLock(p) PROVE LockInv'
  BY <1>8 DEF releaseLock, Forget, Unlink
<1>9. ASSUME NEW p \in Procs, openSchema(p) PROVE LockInv'
  BY <1>9 DEF openSchema
<1>10. ASSUME NEW p \in Procs, applyMigrations(p) PROVE LockInv'
  BY <1>10 DEF applyMigrations
<1>11. ASSUME NEW p \in Procs, clearTemp(p) PROVE LockInv'
  BY <1>11 DEF clearTemp
<1>12. ASSUME NEW p \in Procs, copyStarts(p) PROVE LockInv'
  BY <1>12 DEF copyStarts
<1>13. ASSUME NEW p \in Procs, copyEnds(p) PROVE LockInv'
  BY <1>13 DEF copyEnds
<1>14. ASSUME NEW p \in Procs, rekeyStarts(p) PROVE LockInv'
  BY <1>14 DEF rekeyStarts
<1>15. ASSUME NEW p \in Procs, rekeyEnds(p) PROVE LockInv'
  BY <1>15 DEF rekeyEnds
<1>16. ASSUME NEW p \in Procs, parity(p) PROVE LockInv'
  BY <1>16 DEF parity
<1>17. ASSUME NEW p \in Procs, swapAside(p) PROVE LockInv'
  BY <1>17 DEF swapAside
<1>18. ASSUME NEW p \in Procs, swapIn(p) PROVE LockInv'
  BY <1>18 DEF swapIn
<1>19. ASSUME NEW p \in Procs, Throws(p) PROVE LockInv'
  BY <1>19 DEF Throws
<1>20. ASSUME NEW p \in Procs, getDb(p) PROVE LockInv'
  BY <1>20 DEF getDb
<1>21. ASSUME NEW p \in Procs, getDbFails(p) PROVE LockInv'
  BY <1>21 DEF getDbFails, Forget
<1>22. ASSUME NEW p \in Procs, purgeChecks(p) PROVE LockInv'
  BY <1>22 DEF purgeChecks
<1>23. ASSUME NEW p \in Procs, purgeDeletes(p) PROVE LockInv'
  BY <1>23 DEF purgeDeletes
<1>24. ASSUME NEW p \in Procs, Writes(p) PROVE LockInv'
  BY <1>24 DEF Writes
<1>25. ASSUME NEW p \in Procs, Quit(p) PROVE LockInv'
  BY <1>25 DEF Quit, Forget
<1>26. ASSUME NEW p \in Procs, Crash(p) PROVE LockInv'
  BY <1>26 DEF Crash, Forget
<1>27. ASSUME NEW p \in Procs, Reap(p) PROVE LockInv'
  BY <1>27 DEF Reap
<1>28. CASE UNCHANGED vars
  BY <1>28 DEF vars, lockVars, files, history
<1> QED
  BY <1>1, <1>2, <1>3, <1>4, <1>5, <1>6, <1>7, <1>8, <1>9, <1>10, <1>11, <1>12, <1>13,
       <1>14, <1>15, <1>16, <1>17, <1>18, <1>19, <1>20, <1>21, <1>22, <1>23, <1>24, <1>25,
       <1>26, <1>27, <1>28 DEF Next, Step

LEMMA PlaceStep ==
  ASSUME TypeOK, ~mistaken, LockInv, PlaceInv, DataInv, [Next]_vars
  PROVE  PlaceInv'
<1> USE InitAssumption DEF TypeOK, Vaults, LockInv, PlaceInv, DataInv, At, Critical, Killed,
     Copies, NoFile, Blank, Torn, Cipher, Plain, lockVars, files, history
<1>1. ASSUME NEW p \in Procs, Boot(p) PROVE PlaceInv'
  BY <1>1 DEF Boot
<1>2. ASSUME NEW p \in Procs, publishLock(p) PROVE PlaceInv'
  BY <1>2 DEF publishLock
<1>3. ASSUME NEW p \in Procs, WritePid(p) PROVE PlaceInv'
  BY <1>3 DEF WritePid
<1>4. ASSUME NEW p \in Procs, FindStale(p) PROVE PlaceInv'
  BY <1>4 DEF FindStale
<1>5. ASSUME NEW p \in Procs, FindFree(p) PROVE PlaceInv'
  BY <1>5 DEF FindFree
<1>6. ASSUME NEW p \in Procs, GiveUp(p) PROVE PlaceInv'
  BY <1>6 DEF GiveUp
<1>7. ASSUME NEW p \in Procs, Steal(p) PROVE PlaceInv'
  BY <1>7 DEF Steal, Unlink
<1>8. ASSUME NEW p \in Procs, releaseLock(p) PROVE PlaceInv'
  BY <1>8 DEF releaseLock, Forget, Unlink
<1>9. ASSUME NEW p \in Procs, openSchema(p) PROVE PlaceInv'
  BY <1>9 DEF openSchema
<1>10. ASSUME NEW p \in Procs, applyMigrations(p) PROVE PlaceInv'
  BY <1>10 DEF applyMigrations
<1>11. ASSUME NEW p \in Procs, clearTemp(p) PROVE PlaceInv'
  BY <1>11 DEF clearTemp
<1>12. ASSUME NEW p \in Procs, copyStarts(p) PROVE PlaceInv'
  BY <1>12 DEF copyStarts
<1>13. ASSUME NEW p \in Procs, copyEnds(p) PROVE PlaceInv'
  BY <1>13 DEF copyEnds
<1>14. ASSUME NEW p \in Procs, rekeyStarts(p) PROVE PlaceInv'
  BY <1>14 DEF rekeyStarts
<1>15. ASSUME NEW p \in Procs, rekeyEnds(p) PROVE PlaceInv'
  BY <1>15 DEF rekeyEnds
<1>16. ASSUME NEW p \in Procs, parity(p) PROVE PlaceInv'
  BY <1>16 DEF parity
<1>17. ASSUME NEW p \in Procs, swapAside(p) PROVE PlaceInv'
  BY <1>17 DEF swapAside
<1>18. ASSUME NEW p \in Procs, swapIn(p) PROVE PlaceInv'
  BY <1>18 DEF swapIn
<1>19. ASSUME NEW p \in Procs, Throws(p) PROVE PlaceInv'
  BY <1>19 DEF Throws
<1>20. ASSUME NEW p \in Procs, getDb(p) PROVE PlaceInv'
  BY <1>20 DEF getDb
<1>21. ASSUME NEW p \in Procs, getDbFails(p) PROVE PlaceInv'
  BY <1>21 DEF getDbFails, Forget
<1>22. ASSUME NEW p \in Procs, purgeChecks(p) PROVE PlaceInv'
  BY <1>22 DEF purgeChecks
<1>23. ASSUME NEW p \in Procs, purgeDeletes(p) PROVE PlaceInv'
  BY <1>23 DEF purgeDeletes
<1>24. ASSUME NEW p \in Procs, Writes(p) PROVE PlaceInv'
  BY <1>24 DEF Writes
<1>25. ASSUME NEW p \in Procs, Quit(p) PROVE PlaceInv'
  BY <1>25 DEF Quit, Forget
<1>26. ASSUME NEW p \in Procs, Crash(p) PROVE PlaceInv'
  BY <1>26 DEF Crash, Forget
<1>27. ASSUME NEW p \in Procs, Reap(p) PROVE PlaceInv'
  BY <1>27 DEF Reap
<1>28. CASE UNCHANGED vars
  BY <1>28 DEF vars, lockVars, files, history
<1> QED
  BY <1>1, <1>2, <1>3, <1>4, <1>5, <1>6, <1>7, <1>8, <1>9, <1>10, <1>11, <1>12, <1>13,
       <1>14, <1>15, <1>16, <1>17, <1>18, <1>19, <1>20, <1>21, <1>22, <1>23, <1>24, <1>25,
       <1>26, <1>27, <1>28 DEF Next, Step

LEMMA DataStep ==
  ASSUME TypeOK, ~mistaken, LockInv, PlaceInv, DataInv, [Next]_vars
  PROVE  DataInv'
<1> USE InitAssumption DEF TypeOK, Vaults, LockInv, PlaceInv, DataInv, At, Critical, Killed,
     Copies, NoFile, Blank, Torn, Cipher, Plain, lockVars, files, history
<1>1. ASSUME NEW p \in Procs, Boot(p) PROVE DataInv'
  BY <1>1 DEF Boot
<1>2. ASSUME NEW p \in Procs, publishLock(p) PROVE DataInv'
  BY <1>2 DEF publishLock
<1>3. ASSUME NEW p \in Procs, WritePid(p) PROVE DataInv'
  BY <1>3 DEF WritePid
<1>4. ASSUME NEW p \in Procs, FindStale(p) PROVE DataInv'
  BY <1>4 DEF FindStale
<1>5. ASSUME NEW p \in Procs, FindFree(p) PROVE DataInv'
  BY <1>5 DEF FindFree
<1>6. ASSUME NEW p \in Procs, GiveUp(p) PROVE DataInv'
  BY <1>6 DEF GiveUp
<1>7. ASSUME NEW p \in Procs, Steal(p) PROVE DataInv'
  BY <1>7 DEF Steal, Unlink
<1>8. ASSUME NEW p \in Procs, releaseLock(p) PROVE DataInv'
  BY <1>8 DEF releaseLock, Forget, Unlink
<1>9. ASSUME NEW p \in Procs, openSchema(p) PROVE DataInv'
  BY <1>9 DEF openSchema
<1>10. ASSUME NEW p \in Procs, applyMigrations(p) PROVE DataInv'
  BY <1>10 DEF applyMigrations
<1>11. ASSUME NEW p \in Procs, clearTemp(p) PROVE DataInv'
  BY <1>11 DEF clearTemp
<1>12. ASSUME NEW p \in Procs, copyStarts(p) PROVE DataInv'
  BY <1>12 DEF copyStarts
<1>13. ASSUME NEW p \in Procs, copyEnds(p) PROVE DataInv'
  BY <1>13 DEF copyEnds
<1>14. ASSUME NEW p \in Procs, rekeyStarts(p) PROVE DataInv'
  BY <1>14 DEF rekeyStarts
<1>15. ASSUME NEW p \in Procs, rekeyEnds(p) PROVE DataInv'
  BY <1>15 DEF rekeyEnds
<1>16. ASSUME NEW p \in Procs, parity(p) PROVE DataInv'
  BY <1>16 DEF parity
<1>17. ASSUME NEW p \in Procs, swapAside(p) PROVE DataInv'
  BY <1>17 DEF swapAside
<1>18. ASSUME NEW p \in Procs, swapIn(p) PROVE DataInv'
  BY <1>18 DEF swapIn
<1>19. ASSUME NEW p \in Procs, Throws(p) PROVE DataInv'
  BY <1>19 DEF Throws
<1>20. ASSUME NEW p \in Procs, getDb(p) PROVE DataInv'
  BY <1>20 DEF getDb
<1>21. ASSUME NEW p \in Procs, getDbFails(p) PROVE DataInv'
  BY <1>21 DEF getDbFails, Forget
<1>22. ASSUME NEW p \in Procs, purgeChecks(p) PROVE DataInv'
  BY <1>22 DEF purgeChecks
<1>23. ASSUME NEW p \in Procs, purgeDeletes(p) PROVE DataInv'
  BY <1>23 DEF purgeDeletes
<1>24. ASSUME NEW p \in Procs, Writes(p) PROVE DataInv'
  BY <1>24 DEF Writes
<1>25. ASSUME NEW p \in Procs, Quit(p) PROVE DataInv'
  BY <1>25 DEF Quit, Forget
<1>26. ASSUME NEW p \in Procs, Crash(p) PROVE DataInv'
  BY <1>26 DEF Crash, Forget
<1>27. ASSUME NEW p \in Procs, Reap(p) PROVE DataInv'
  BY <1>27 DEF Reap
<1>28. CASE UNCHANGED vars
  BY <1>28 DEF vars, lockVars, files, history
<1> QED
  BY <1>1, <1>2, <1>3, <1>4, <1>5, <1>6, <1>7, <1>8, <1>9, <1>10, <1>11, <1>12, <1>13,
       <1>14, <1>15, <1>16, <1>17, <1>18, <1>19, <1>20, <1>21, <1>22, <1>23, <1>24, <1>25,
       <1>26, <1>27, <1>28 DEF Next, Step

\* The invariant holds in every reachable state.
THEOREM Invariance == Spec => []IInv
<1>1. Init => IInv
  <2> SUFFICES ASSUME Init PROVE IInv
    OBVIOUS
  <2>1. TypeOK
    <3>1. {1} \in SUBSET Items
      BY InitAssumption DEF Items
    <3>2. db \in Vaults /\ wrote \subseteq Items
      BY <3>1 DEF Init, Vaults
    <3>3. hardlinks \in BOOLEAN /\ named \in BOOLEAN /\ unmoored \in BOOLEAN /\ mistaken \in BOOLEAN
      BY Zenon DEF Init
    <3>4. QED
      BY <3>2, <3>3 DEF Init, TypeOK, Places, Vaults
  <2>2. LockInv /\ PlaceInv
    BY DEF Init, LockInv, PlaceInv, Critical, Copies
  <2>3. DataInv
    BY DEF Init, DataInv, NoFile, Plain
  <2>4. QED
    BY <2>1, <2>2, <2>3 DEF IInv
<1>2. IInv /\ [Next]_vars => IInv'
  <2> SUFFICES ASSUME IInv, [Next]_vars PROVE IInv'
    OBVIOUS
  <2>1. TypeOK'
    BY TypeStep DEF IInv
  <2>2. ASSUME ~mistaken' PROVE (LockInv /\ PlaceInv /\ DataInv)'
    <3>1. TypeOK /\ ~mistaken /\ LockInv /\ PlaceInv /\ DataInv
      BY <2>2, Unforgotten DEF IInv
    <3>2. QED
      BY <2>2, <3>1, LockStep, PlaceStep, DataStep
  <2>3. QED
    BY <2>1, <2>2 DEF IInv
<1>3. QED
  BY <1>1, <1>2, PTL DEF Spec

\* Through kills, failed boots, stale and half-written locks and any number of
\* waiters that judge one lock at once, two processes are between taking and
\* releasing the init lock only after a waiter has removed a lock it had not judged.
THEOREM InitialisersAlternate == Spec => []OneInitialiser
<1>1. IInv => OneInitialiser
  <2> SUFFICES ASSUME IInv, ~mistaken PROVE Cardinality({p \in Procs : pc[p] \in Critical}) <= 1
    BY DEF OneInitialiser
  <2> DEFINE S == {p \in Procs : pc[p] \in Critical}
  <2>1. S = {} \/ \E p : S = {p}
    BY DEF IInv, LockInv
  <2>2. Cardinality(S) \in {0, 1}
    <3> HIDE DEF S
    <3>1. CASE S = {}
      BY <3>1, FS_EmptySet
    <3>2. CASE \E p : S = {p}
      BY <3>2, FS_Singleton
    <3>3. QED
      BY <2>1, <3>1, <3>2
  <2>3. QED
    BY <2>2
<1>2. QED
  BY <1>1, Invariance, PTL

\* While no steal was mistaken, whatever the owner has put into the vault is whole
\* in some file, and a process that serves the vault serves all of it unless a swap
\* was cut short.
THEOREM RowsSurvive == Spec => []VaultInv
<1>1. IInv => NothingIsLost
  <2> SUFFICES ASSUME IInv, ~mistaken PROVE wrote \subseteq UNION {f.rows : f \in {db,
       tmp} \cup pre}
    BY DEF NothingIsLost
  <2>1. wrote \subseteq db.rows \/ wrote \subseteq db.rows \cup tmp.rows
    BY DEF IInv, PlaceInv, DataInv, Cipher
  <2>2. QED
    BY <2>1
<1>2. IInv => ServesTheVault
  BY DEF IInv, PlaceInv, DataInv, ServesTheVault, NoFile
<1>3. IInv => VaultInv
  BY <1>1, <1>2 DEF IInv, VaultInv
<1>4. QED
  BY <1>3, Invariance, PTL

\* While no steal was mistaken, a plaintext beside a vault that is served is one
\* that the last purge declined or failed to remove.
THEOREM PlaintextGone == Spec => []NoPlaintextBeside
<1>1. IInv => NoPlaintextBeside
  BY DEF IInv, PlaceInv, DataInv, NoPlaintextBeside
<1>2. QED
  BY <1>1, Invariance, PTL
=============================================================================
