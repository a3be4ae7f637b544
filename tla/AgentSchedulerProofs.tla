------------------------- MODULE AgentSchedulerProofs -------------------------
(***************************************************************************)
(* What the agent's scheduler guarantees for any number of tasks, retries,  *)
(* questions, imports and crashes.                                          *)
(***************************************************************************)
EXTENDS AgentScheduler, SequenceTheorems, FiniteSetTheorems, TLAPS

Queued == {lane[i] : i \in 1..Len(lane)}

(* The lane has a task once, while it is in the executing set, and only on  *)
(* a due instant no turn has begun on.                                      *)
LaneInv ==
  /\ \A i, j \in 1..Len(lane) : lane[i] = lane[j] => i = j
  /\ Queued \subseteq executing \cap owed
  /\ turn \in executing \cup {Idle} /\ turn \notin Queued

(* A due instant is owed until a turn begins, which lasts as long as the    *)
(* row still says "due".                                                    *)
OwedInv == \A t \in Tasks : task[t].next = "due" => t \in owed \cup {turn}

(* What is remembered as done has come to an end.                           *)
RowInv == OneOffHadItsTurn /\ CyclesStayArmed /\ recent \subseteq ended

(* A task that is off is not taken again, and if the lane still has it, no  *)
(* fire has begun.                                                          *)
OffInv == \A t \in Tasks :
  /\ offFires[t] <= 1
  /\ t \in off => task[t].status \notin {"absent", "active"}
  /\ t \in off \cap Queued => offFires[t] = 0

IInv == TypeOK /\ LaneInv /\ OwedInv /\ RowInv /\ OffInv /\ NeverTalksOver

-----------------------------------------------------------------------------
(* The lane.                                                                *)

LEMMA TakesHead ==
  ASSUME IInv, NextInLane
  PROVE  /\ lane' \in Seq(Tasks)
         /\ Head(lane) \in Queued /\ Queued' = Queued \ {Head(lane)}
         /\ \A i, j \in 1..Len(lane') : lane'[i] = lane'[j] => i = j
<1>1. lane \in Seq(Tasks) /\ lane # <<>> /\ lane' = Tail(lane)
  BY DEF IInv, TypeOK, NextInLane
<1>2. /\ lane' \in Seq(Tasks) /\ Len(lane') = Len(lane) - 1 /\ Head(lane) = lane[1]
      /\ \A i \in 1..Len(lane') : lane'[i] = lane[i + 1]
      /\ Len(lane) \in Nat \ {0}
  BY <1>1, HeadTailProperties, EmptySeq
<1>3. \A i, j \in 1..Len(lane) : lane[i] = lane[j] => i = j
  BY DEF IInv, LaneInv
<1>4. Head(lane) \in Queued
  BY <1>2 DEF Queued
<1>5. Queued' = Queued \ {Head(lane)}
  <2>1. ASSUME NEW x \in Queued' PROVE x \in Queued \ {Head(lane)}
    <3>1. PICK i \in 1..Len(lane') : x = lane'[i]
      BY DEF Queued
    <3>2. x = lane[i + 1] /\ i + 1 \in 1..Len(lane) /\ 1 \in 1..Len(lane) /\ i + 1 # 1
      BY <1>2, <3>1
    <3>3. x \in Queued /\ x # lane[1]
      BY <1>3, <3>2 DEF Queued
    <3>4. QED
      BY <1>2, <3>3
  <2>2. ASSUME NEW x \in Queued \ {Head(lane)} PROVE x \in Queued'
    <3>1. PICK i \in 1..Len(lane) : x = lane[i] /\ i # 1
      BY <1>2 DEF Queued
    <3>2. i - 1 \in 1..Len(lane') /\ x = lane'[i - 1]
      BY <1>2, <3>1
    <3>3. QED
      BY <3>2 DEF Queued
  <2>3. QED
    BY <2>1, <2>2
<1>6. \A i, j \in 1..Len(lane') : lane'[i] = lane'[j] => i = j
  <2> SUFFICES ASSUME NEW i \in 1..Len(lane'), NEW j \in 1..Len(lane'), lane'[i] = lane'[j]
               PROVE  i = j
    OBVIOUS
  <2>1. i + 1 \in 1..Len(lane) /\ j + 1 \in 1..Len(lane) /\ lane[i + 1] = lane[j + 1]
    BY <1>2
  <2>2. i + 1 = j + 1
    BY <1>3, <2>1
  <2>3. QED
    BY <2>2
<1>7. QED
  BY <1>2, <1>4, <1>5, <1>6

LEMMA TickAppends ==
  ASSUME IInv, tick
  PROVE  /\ lane' \in Seq(Tasks) /\ Queued' \subseteq Queued \cup Takes
         /\ \A i, j \in 1..Len(lane') : lane'[i] = lane'[j] => i = j
<1> DEFINE n == Cardinality(Takes)
<1>1. PICK order \in SetToSeqs(Takes) : lane' = lane \o order
  BY DEF tick
<1>2. n \in Nat /\ Takes \subseteq Tasks
  BY FS_Subset, FS_CardinalityType, AgentAssumption DEF Takes, Due
<1>3. order \in [1..n -> Takes] /\ \A i, j \in 1..n : i # j => order[i] # order[j]
  BY <1>1 DEF SetToSeqs
<1>4. order \in Seq(Tasks) /\ Len(order) = n
  BY <1>2, <1>3, LenProperties
<1>5. lane \in Seq(Tasks) /\ Len(lane) \in Nat
  BY LenProperties DEF IInv, TypeOK
<1>6. /\ lane' \in Seq(Tasks) /\ Len(lane') = Len(lane) + n
      /\ \A i \in 1..Len(lane') :
           lane'[i] = IF i <= Len(lane) THEN lane[i] ELSE order[i - Len(lane)]
  <2>1. /\ lane \o order \in Seq(Tasks)
        /\ Len(lane \o order) = Len(lane) + Len(order)
        /\ \A i \in 1..Len(lane) + Len(order) :
             (lane \o order)[i] = IF i <= Len(lane) THEN lane[i] ELSE order[i - Len(lane)]
    BY <1>4, <1>5, ConcatProperties
  <2>2. QED
    BY <1>1, <1>4, <2>1
<1>7. \A i \in 1..Len(lane') :
        \/ i \in 1..Len(lane) /\ lane'[i] = lane[i] /\ lane'[i] \in Queued
        \/ /\ i \notin 1..Len(lane) /\ i - Len(lane) \in 1..n
           /\ lane'[i] = order[i - Len(lane)] /\ lane'[i] \in Takes
  <2> SUFFICES ASSUME NEW i \in 1..Len(lane')
               PROVE  \/ i \in 1..Len(lane) /\ lane'[i] = lane[i] /\ lane'[i] \in Queued
                      \/ /\ i \notin 1..Len(lane) /\ i - Len(lane) \in 1..n
                         /\ lane'[i] = order[i - Len(lane)] /\ lane'[i] \in Takes
    OBVIOUS
  <2>1. CASE i <= Len(lane)
    <3>1. i \in 1..Len(lane) /\ lane'[i] = lane[i]
      BY <1>2, <1>5, <1>6, <2>1
    <3>2. QED
      BY <3>1 DEF Queued
  <2>2. CASE ~(i <= Len(lane))
    <3>1. i \notin 1..Len(lane) /\ i - Len(lane) \in 1..n /\ lane'[i] = order[i - Len(lane)]
      BY <1>2, <1>5, <1>6, <2>2
    <3>2. order[i - Len(lane)] \in Takes
      BY <1>3, <3>1
    <3>3. QED
      BY <3>1, <3>2
  <2>3. QED
    BY <2>1, <2>2
<1>8. Queued \cap Takes = {}
  BY DEF IInv, LaneInv, Takes
<1>9. \A i, j \in 1..Len(lane') : lane'[i] = lane'[j] => i = j
  <2> SUFFICES ASSUME NEW i \in 1..Len(lane'), NEW j \in 1..Len(lane'), lane'[i] = lane'[j]
               PROVE  i = j
    OBVIOUS
  <2>1. CASE i \in 1..Len(lane) /\ j \in 1..Len(lane)
    BY <1>7, <2>1 DEF IInv, LaneInv
  <2>2. CASE i \notin 1..Len(lane) /\ j \notin 1..Len(lane)
    <3>1. /\ i - Len(lane) \in 1..n /\ j - Len(lane) \in 1..n
          /\ order[i - Len(lane)] = order[j - Len(lane)]
      BY <1>7, <2>2
    <3>2. i - Len(lane) = j - Len(lane)
      BY <1>3, <3>1
    <3>3. QED
      BY <1>5, <1>6, <3>2
  <2>3. QED
    BY <1>7, <1>8, <2>1, <2>2
<1>10. Queued' \subseteq Queued \cup Takes
  BY <1>7 DEF Queued
<1>11. QED
  BY <1>6, <1>9, <1>10

-----------------------------------------------------------------------------
(* The row at the end of a fire.                                            *)

EndsFire(t) == advance(t) \/ holdFire(t) \/ retryLater(t)

LEMMA RowAtEnd ==
  ASSUME TypeOK, NEW t \in Tasks, EndsFire(t)
  PROVE  /\ owed' = owed
         /\ task' \in [Tasks -> [status : Statuses, next : {"none", "later", "due"}]]
         /\ \A u \in Tasks \ {t} : task'[u] = task[u]
         /\ task'[t].next # "due"
         /\ t \notin Once => task'[t].next = "later" /\ task'[t].status = task[t].status
         /\ \/ task'[t].status = task[t].status
            \/ task'[t].status = "completed" /\ advance(t)
<1>1. CASE t \in Once /\ advance(t)
  <2>1. /\ owed' = owed
        /\ task' = [[task EXCEPT ![t].next = "none"] EXCEPT ![t].status = "completed"]
    BY <1>1 DEF advance, markTaskRun, computeNextRun
  <2>2. QED
    BY <1>1, <2>1 DEF TypeOK, Statuses
<1>2. CASE t \notin Once \/ ~advance(t)
  <2>1. owed' = owed /\ task' = [task EXCEPT ![t].next = "later"]
    BY <1>2 DEF EndsFire, advance, holdFire, retryLater, markTaskRun
  <2>2. QED
    BY <2>1 DEF TypeOK, Statuses
<1>3. QED
  BY <1>1, <1>2

LEMMA RowsKeptAtEnd ==
  ASSUME TypeOK, RowInv, NEW t \in Tasks, EndsFire(t),
         recent' \subseteq ended', ended \subseteq ended', unpaid \subseteq unpaid',
         t \in ended' \cup unpaid' \/ t \notin Once \/ holdFire(t) \/ retryLater(t)
  PROVE  RowInv'
<1>1. /\ \A u \in Tasks \ {t} : task'[u] = task[u]
      /\ t \notin Once => task'[t].next = "later" /\ task'[t].status = task[t].status
  BY RowAtEnd
<1>2. OneOffHadItsTurn'
  <2> SUFFICES ASSUME NEW u \in Once, task'[u].status = "completed"
               PROVE  u \in ended' \cup unpaid'
    BY DEF OneOffHadItsTurn
  <2>1. CASE u # t
    BY <1>1, <2>1, AgentAssumption DEF RowInv, OneOffHadItsTurn
  <2>2. CASE u = t /\ (holdFire(t) \/ retryLater(t))
    <3>1. task' = [task EXCEPT ![t].next = "later"]
      BY <2>2 DEF holdFire, retryLater, markTaskRun
    <3>2. task'[t].status = task[t].status
      BY <3>1 DEF TypeOK
    <3>3. QED
      BY <2>2, <3>2 DEF RowInv, OneOffHadItsTurn
  <2>3. QED
    BY <2>1, <2>2
<1>3. CyclesStayArmed'
  <2> SUFFICES ASSUME NEW u \in Tasks \ Once, task'[u].status # "absent"
               PROVE  task'[u].next # "none" /\ task'[u].status # "completed"
    BY DEF CyclesStayArmed
  <2>1. CASE u # t
    BY <1>1, <2>1 DEF RowInv, CyclesStayArmed
  <2>2. CASE u = t
    <3>1. task'[u].next = "later" /\ task'[u].status = task[u].status
      BY <1>1, <2>2
    <3>2. QED
      BY <3>1 DEF RowInv, CyclesStayArmed
  <2>3. QED
    BY <2>1, <2>2
<1>4. QED
  BY <1>2, <1>3 DEF RowInv

-----------------------------------------------------------------------------
(* The steps, a part of the invariant at a time.                            *)

LEMMA TypeStep ==
  ASSUME IInv, [Next]_vars
  PROVE  TypeOK'
<1> USE DEF rowVars, laneVars, talkVars, offVars, vars
<1> TypeOK
  BY DEF IInv
<1>1. ASSUME NEW t \in Tasks, TimePasses(t) PROVE TypeOK'
  BY <1>1, AgentAssumption DEF TypeOK, TimePasses
<1>2. ASSUME NEW t \in Tasks, DedupPasses(t) PROVE TypeOK'
  BY <1>2, AgentAssumption DEF TypeOK, DedupPasses
<1>3. ASSUME NEW t \in Tasks, SkipFire(t) PROVE TypeOK'
  <2>1. EndsFire(t)
    BY <1>3 DEF EndsFire, SkipFire
  <2>2. lane' \in Seq(Tasks)
    BY <1>3, TakesHead DEF SkipFire
  <2>3. /\ retries' \in [Tasks -> 0..MAX_RETRIES] /\ faults' \in 0..MaxFaults
    BY <1>3, AgentAssumption DEF TypeOK, SkipFire, NextInLane, Leave
  <2>4. asks' \in 0..MaxAsks
    <3>1. asks' = asks \/ (asks < MaxAsks /\ asks' = asks + 1)
      BY <1>3, Zenon DEF SkipFire, NextInLane, Leave
    <3>2. QED
      BY <3>1, AgentAssumption DEF TypeOK
  <2>5. /\ importing' \in BOOLEAN /\ talkedOver' \in BOOLEAN
        /\ floor' \in {"free", "fresh", "stale"} /\ offFires' \in [Tasks -> 0..2]
    BY <1>3, Zenon DEF TypeOK, SkipFire, NextInLane, Leave
  <2>6. /\ executing' \subseteq Tasks /\ recent' \subseteq Tasks
        /\ turn' \in Tasks \cup {Idle}
        /\ ended' \subseteq Tasks /\ unpaid' \subseteq Tasks /\ off' \subseteq Tasks
    BY <1>3 DEF TypeOK, SkipFire, NextInLane, Leave
  <2>7. QED
    BY <2>1, <2>2, <2>3, <2>4, <2>5, <2>6, RowAtEnd DEF TypeOK
<1>4. ASSUME NEW t \in Tasks, HoldFire(t) PROVE TypeOK'
  <2>1. EndsFire(t)
    BY <1>4 DEF EndsFire, HoldFire
  <2>2. lane' \in Seq(Tasks)
    BY <1>4, TakesHead DEF HoldFire
  <2>3. /\ retries' \in [Tasks -> 0..MAX_RETRIES] /\ faults' \in 0..MaxFaults
    BY <1>4, AgentAssumption DEF TypeOK, HoldFire, NextInLane, Leave, holdProactiveDelivery,
         Fault
  <2>4. asks' \in 0..MaxAsks
    <3>1. asks' = asks \/ (asks < MaxAsks /\ asks' = asks + 1)
      BY <1>4, Zenon DEF HoldFire, NextInLane, Leave, holdProactiveDelivery, Fault
    <3>2. QED
      BY <3>1, AgentAssumption DEF TypeOK
  <2>5. /\ importing' \in BOOLEAN /\ talkedOver' \in BOOLEAN
        /\ floor' \in {"free", "fresh", "stale"} /\ offFires' \in [Tasks -> 0..2]
    BY <1>4, Zenon DEF TypeOK, HoldFire, NextInLane, Leave, holdProactiveDelivery, Fault
  <2>6. /\ executing' \subseteq Tasks /\ recent' \subseteq Tasks
        /\ turn' \in Tasks \cup {Idle}
        /\ ended' \subseteq Tasks /\ unpaid' \subseteq Tasks /\ off' \subseteq Tasks
    BY <1>4 DEF TypeOK, HoldFire, NextInLane, Leave, holdProactiveDelivery, Fault
  <2>7. QED
    BY <2>1, <2>2, <2>3, <2>4, <2>5, <2>6, RowAtEnd DEF TypeOK
<1>5. ASSUME NEW t \in Tasks, BeginTurn(t) PROVE TypeOK'
  <2>1. lane' \in Seq(Tasks)
    BY <1>5, TakesHead DEF BeginTurn
  <2>2. offFires' \in [Tasks -> 0..2]
    <3>1. offFires[t] \in 0..2 /\ (offFires[t] < 2 => offFires[t] + 1 \in 0..2)
      BY DEF TypeOK
    <3>2. QED
      BY <1>5, <3>1 DEF TypeOK, BeginTurn
  <2>3. QED
    BY <1>5, <2>1, <2>2 DEF TypeOK, BeginTurn
<1>6. ASSUME NEW t \in Tasks, TurnSpeaks(t) PROVE TypeOK'
  <2>1. EndsFire(t)
    BY <1>6 DEF EndsFire, TurnSpeaks
  <2>2. lane' \in Seq(Tasks)
    BY <1>6 DEF TurnSpeaks, TypeOK
  <2>3. /\ retries' \in [Tasks -> 0..MAX_RETRIES] /\ faults' \in 0..MaxFaults
    BY <1>6, AgentAssumption DEF TypeOK, TurnSpeaks, Ends, Leave, Resets, Deliver,
         holdProactiveDelivery, Fault
  <2>4. asks' \in 0..MaxAsks
    <3>1. asks' = asks \/ (asks < MaxAsks /\ asks' = asks + 1)
      BY <1>6, Zenon DEF TurnSpeaks, Ends, Leave, Resets, Deliver, holdProactiveDelivery,
           Fault
    <3>2. QED
      BY <3>1, AgentAssumption DEF TypeOK
  <2>5. /\ importing' \in BOOLEAN /\ talkedOver' \in BOOLEAN
        /\ floor' \in {"free", "fresh", "stale"} /\ offFires' \in [Tasks -> 0..2]
    BY <1>6, Zenon DEF TypeOK, TurnSpeaks, Ends, Leave, Resets, Deliver,
         holdProactiveDelivery, Fault
  <2>6. /\ executing' \subseteq Tasks /\ recent' \subseteq Tasks
        /\ turn' \in Tasks \cup {Idle}
        /\ ended' \subseteq Tasks /\ unpaid' \subseteq Tasks /\ off' \subseteq Tasks
    BY <1>6 DEF TypeOK, TurnSpeaks, Ends, Leave, Resets, Deliver, holdProactiveDelivery, Fault
  <2>7. QED
    BY <2>1, <2>2, <2>3, <2>4, <2>5, <2>6, RowAtEnd DEF TypeOK
<1>7. ASSUME NEW t \in Tasks, TurnIsSilent(t) PROVE TypeOK'
  <2>1. EndsFire(t)
    BY <1>7 DEF EndsFire, TurnIsSilent
  <2>2. lane' \in Seq(Tasks)
    BY <1>7 DEF TurnIsSilent, TypeOK
  <2>3. /\ retries' \in [Tasks -> 0..MAX_RETRIES] /\ faults' \in 0..MaxFaults
    BY <1>7, AgentAssumption DEF TypeOK, TurnIsSilent, Ends, Leave, Resets
  <2>4. asks' \in 0..MaxAsks
    <3>1. asks' = asks \/ (asks < MaxAsks /\ asks' = asks + 1)
      BY <1>7, Zenon DEF TurnIsSilent, Ends, Leave, Resets
    <3>2. QED
      BY <3>1, AgentAssumption DEF TypeOK
  <2>5. /\ importing' \in BOOLEAN /\ talkedOver' \in BOOLEAN
        /\ floor' \in {"free", "fresh", "stale"} /\ offFires' \in [Tasks -> 0..2]
    BY <1>7, Zenon DEF TypeOK, TurnIsSilent, Ends, Leave, Resets
  <2>6. /\ executing' \subseteq Tasks /\ recent' \subseteq Tasks
        /\ turn' \in Tasks \cup {Idle}
        /\ ended' \subseteq Tasks /\ unpaid' \subseteq Tasks /\ off' \subseteq Tasks
    BY <1>7 DEF TypeOK, TurnIsSilent, Ends, Leave, Resets
  <2>7. QED
    BY <2>1, <2>2, <2>3, <2>4, <2>5, <2>6, RowAtEnd DEF TypeOK
<1>8. ASSUME NEW t \in Tasks, TurnFails(t) PROVE TypeOK'
  <2>1. EndsFire(t)
    BY <1>8 DEF EndsFire, TurnFails
  <2>2. lane' \in Seq(Tasks)
    BY <1>8 DEF TurnFails, TypeOK
  <2>3. /\ retries' \in [Tasks -> 0..MAX_RETRIES] /\ faults' \in 0..MaxFaults
    BY <1>8, AgentAssumption DEF TypeOK, TurnFails, Ends, Leave, Resets
  <2>4. asks' \in 0..MaxAsks
    <3>1. asks' = asks \/ (asks < MaxAsks /\ asks' = asks + 1)
      BY <1>8, Zenon DEF TurnFails, Ends, Leave, Resets
    <3>2. QED
      BY <3>1, AgentAssumption DEF TypeOK
  <2>5. /\ importing' \in BOOLEAN /\ talkedOver' \in BOOLEAN
        /\ floor' \in {"free", "fresh", "stale"} /\ offFires' \in [Tasks -> 0..2]
    BY <1>8, Zenon DEF TypeOK, TurnFails, Ends, Leave, Resets
  <2>6. /\ executing' \subseteq Tasks /\ recent' \subseteq Tasks
        /\ turn' \in Tasks \cup {Idle}
        /\ ended' \subseteq Tasks /\ unpaid' \subseteq Tasks /\ off' \subseteq Tasks
    BY <1>8 DEF TypeOK, TurnFails, Ends, Leave, Resets
  <2>7. QED
    BY <2>1, <2>2, <2>3, <2>4, <2>5, <2>6, RowAtEnd DEF TypeOK
<1>9. ASSUME NEW t \in Tasks, createTask(t) PROVE TypeOK'
  <2>1. task' \in [Tasks -> [status : Statuses, next : {"none", "later", "due"}]]
    BY <1>9 DEF createTask, TypeOK, Statuses
  <2>2. off' \subseteq Tasks /\ offFires' \in [Tasks -> 0..2]
    BY <1>9 DEF createTask, TypeOK
  <2>3. QED
    BY <1>9, <2>1, <2>2 DEF createTask, TypeOK
<1>10. ASSUME NEW t \in Tasks, updateTask(t) PROVE TypeOK'
  <2>1. task' \in [Tasks -> [status : Statuses, next : {"none", "later", "due"}]]
    <3>1. PICK status \in {task[t].status, "active"}, next \in {"later", task[t].next} :
                task' = [task EXCEPT ![t] = [status |-> status, next |-> next]]
      BY <1>10 DEF updateTask
    <3>2. task[t] \in [status : Statuses, next : {"none", "later", "due"}]
      BY DEF TypeOK
    <3>3. status \in Statuses /\ next \in {"none", "later", "due"}
      BY <3>2 DEF Statuses
    <3>4. QED
      BY <3>1, <3>3 DEF TypeOK
  <2>2. off' \subseteq Tasks /\ offFires' \in [Tasks -> 0..2]
    BY <1>10 DEF updateTask, TypeOK
  <2>3. QED
    BY <1>10, <2>1, <2>2 DEF updateTask, TypeOK
<1>11. ASSUME NEW t \in Tasks, NEW status \in {"paused", "cancelled"}, setTaskStatus(t, status) PROVE TypeOK'
  <2>1. task' \in [Tasks -> [status : Statuses, next : {"none", "later", "due"}]]
    BY <1>11 DEF setTaskStatus, TypeOK, Statuses
  <2>2. off' \subseteq Tasks /\ offFires' \in [Tasks -> 0..2]
    BY <1>11 DEF setTaskStatus, TypeOK
  <2>3. QED
    BY <1>11, <2>1, <2>2 DEF setTaskStatus, TypeOK
<1>12. CASE tick
  <2>1. lane' \in Seq(Tasks) /\ executing' \subseteq Tasks
    BY <1>12, TickAppends DEF tick, Takes, Due, TypeOK
  <2>2. QED
    BY <1>12, <2>1 DEF tick, TypeOK
<1>13. CASE HumanWrites
  BY <1>13, AgentAssumption DEF TypeOK, HumanWrites
<1>14. CASE AgentAsks
  BY <1>14, AgentAssumption DEF TypeOK, AgentAsks
<1>15. CASE QuestionAges
  BY <1>15, AgentAssumption DEF TypeOK, QuestionAges
<1>16. CASE ImportStarts
  <2>1. importing' \in BOOLEAN
    BY <1>16, Zenon DEF ImportStarts
  <2>2. QED
    BY <1>16, <2>1, AgentAssumption DEF TypeOK, ImportStarts, Fault
<1>17. CASE ImportEnds
  <2>1. importing' \in BOOLEAN
    BY <1>17, Zenon DEF ImportEnds
  <2>2. QED
    BY <1>17, <2>1, AgentAssumption DEF TypeOK, ImportEnds
<1>18. CASE Crash
  <2>1. /\ lane' \in Seq(Tasks) /\ importing' \in BOOLEAN
    BY <1>18, Zenon, EmptySeq DEF Crash
  <2>2. task' \in [Tasks -> [status : Statuses, next : {"none", "later", "due"}]]
    BY <1>18 DEF Crash, TypeOK, Due
  <2>3. retries' \in [Tasks -> 0..MAX_RETRIES] /\ faults' \in 0..MaxFaults
    BY <1>18, AgentAssumption DEF Crash, Fault, TypeOK
  <2>4. QED
    BY <1>18, <2>1, <2>2, <2>3 DEF Crash, TypeOK
<1>19. CASE UNCHANGED vars
  BY <1>19, AgentAssumption DEF TypeOK, vars
<1>20. QED
  BY <1>1, <1>2, <1>3, <1>4, <1>5, <1>6, <1>7, <1>8, <1>9, <1>10, <1>11, <1>12, <1>13,
       <1>14, <1>15, <1>16, <1>17, <1>18, <1>19 DEF Next

LEMMA LaneKept ==
  ASSUME IInv, [Next]_vars
  PROVE  LaneInv'
<1> USE DEF rowVars, laneVars, talkVars, offVars, vars
<1> TypeOK /\ LaneInv /\ OwedInv
  BY DEF IInv
<1> Idle \notin Tasks /\ Idle \notin Queued /\ Queued \subseteq Tasks
  BY AgentAssumption DEF TypeOK, LaneInv, Idle
<1>1. ASSUME NEW t \in Tasks, TimePasses(t) PROVE LaneInv'
  <2>1. owed' = owed \cup {t} /\ lane' = lane /\ executing' = executing /\ turn' = turn
    BY <1>1 DEF TimePasses
  <2>2. QED
    BY <2>1 DEF LaneInv, Queued
<1>2. ASSUME NEW t \in Tasks, DedupPasses(t) PROVE LaneInv'
  <2>1. owed' = owed /\ lane' = lane /\ executing' = executing /\ turn' = turn
    BY <1>2 DEF DedupPasses
  <2>2. QED
    BY <2>1 DEF LaneInv, Queued
<1>3. ASSUME NEW t \in Tasks, SkipFire(t) PROVE LaneInv'
  <2>1. EndsFire(t)
    BY <1>3 DEF EndsFire, SkipFire
  <2>2. owed' = owed
    BY <2>1, RowAtEnd
  <2>3. Queued' = Queued \ {t} /\ \A i, j \in 1..Len(lane') : lane'[i] = lane'[j] => i = j
    BY <1>3, TakesHead DEF SkipFire
  <2>4. executing' = executing \ {t} /\ turn' = Idle /\ turn = Idle
    BY <1>3 DEF SkipFire, NextInLane, Leave
  <2>5. QED
    BY <2>2, <2>3, <2>4 DEF LaneInv
<1>4. ASSUME NEW t \in Tasks, HoldFire(t) PROVE LaneInv'
  <2>1. EndsFire(t)
    BY <1>4 DEF EndsFire, HoldFire
  <2>2. owed' = owed
    BY <2>1, RowAtEnd
  <2>3. Queued' = Queued \ {t} /\ \A i, j \in 1..Len(lane') : lane'[i] = lane'[j] => i = j
    BY <1>4, TakesHead DEF HoldFire
  <2>4. executing' = executing \ {t} /\ turn' = Idle /\ turn = Idle
    BY <1>4 DEF HoldFire, NextInLane, Leave, holdProactiveDelivery, Fault
  <2>5. QED
    BY <2>2, <2>3, <2>4 DEF LaneInv
<1>5. ASSUME NEW t \in Tasks, BeginTurn(t) PROVE LaneInv'
  <2>1. /\ t \in Queued /\ Queued' = Queued \ {t}
        /\ \A i, j \in 1..Len(lane') : lane'[i] = lane'[j] => i = j
    BY <1>5, TakesHead DEF BeginTurn
  <2>2. executing' = executing /\ turn' = t /\ owed' = owed \ {t}
    BY <1>5 DEF BeginTurn
  <2>3. QED
    BY <2>1, <2>2 DEF LaneInv
<1>6. ASSUME NEW t \in Tasks, TurnSpeaks(t) PROVE LaneInv'
  <2>1. EndsFire(t)
    BY <1>6 DEF EndsFire, TurnSpeaks
  <2>2. owed' = owed
    BY <2>1, RowAtEnd
  <2>3. lane' = lane /\ executing' = executing \ {t} /\ turn = t /\ turn' = Idle
    BY <1>6 DEF TurnSpeaks, Ends, Leave, Resets, Deliver, holdProactiveDelivery, Fault
  <2>4. QED
    BY <2>2, <2>3 DEF LaneInv, Queued
<1>7. ASSUME NEW t \in Tasks, TurnIsSilent(t) PROVE LaneInv'
  <2>1. EndsFire(t)
    BY <1>7 DEF EndsFire, TurnIsSilent
  <2>2. owed' = owed
    BY <2>1, RowAtEnd
  <2>3. lane' = lane /\ executing' = executing \ {t} /\ turn = t /\ turn' = Idle
    BY <1>7 DEF TurnIsSilent, Ends, Leave, Resets
  <2>4. QED
    BY <2>2, <2>3 DEF LaneInv, Queued
<1>8. ASSUME NEW t \in Tasks, TurnFails(t) PROVE LaneInv'
  <2>1. EndsFire(t)
    BY <1>8 DEF EndsFire, TurnFails
  <2>2. owed' = owed
    BY <2>1, RowAtEnd
  <2>3. lane' = lane /\ executing' = executing \ {t} /\ turn = t /\ turn' = Idle
    BY <1>8 DEF TurnFails, Ends, Leave, Resets
  <2>4. QED
    BY <2>2, <2>3 DEF LaneInv, Queued
<1>9. ASSUME NEW t \in Tasks, createTask(t) PROVE LaneInv'
  <2>1. owed' = owed /\ lane' = lane /\ executing' = executing /\ turn' = turn
    BY <1>9 DEF createTask
  <2>2. QED
    BY <2>1 DEF LaneInv, Queued
<1>10. ASSUME NEW t \in Tasks, updateTask(t) PROVE LaneInv'
  <2>1. owed' = owed /\ lane' = lane /\ executing' = executing /\ turn' = turn
    BY <1>10 DEF updateTask
  <2>2. QED
    BY <2>1 DEF LaneInv, Queued
<1>11. ASSUME NEW t \in Tasks, NEW status \in {"paused", "cancelled"}, setTaskStatus(t, status) PROVE LaneInv'
  <2>1. owed' = owed /\ lane' = lane /\ executing' = executing /\ turn' = turn
    BY <1>11 DEF setTaskStatus
  <2>2. QED
    BY <2>1 DEF LaneInv, Queued
<1>12. CASE tick
  <2>1. /\ executing' = executing \cup Takes /\ turn' = turn /\ owed' = owed
        /\ Queued' \subseteq Queued \cup Takes
        /\ \A i, j \in 1..Len(lane') : lane'[i] = lane'[j] => i = j
    BY <1>12, TickAppends DEF tick
  <2>2. Takes \subseteq owed /\ turn \notin Takes
    BY DEF LaneInv, OwedInv, Takes, Due
  <2>3. QED
    BY <2>1, <2>2 DEF LaneInv
<1>13. CASE HumanWrites
  <2>1. owed' = owed /\ lane' = lane /\ executing' = executing /\ turn' = turn
    BY <1>13 DEF HumanWrites
  <2>2. QED
    BY <2>1 DEF LaneInv, Queued
<1>14. CASE AgentAsks
  <2>1. owed' = owed /\ lane' = lane /\ executing' = executing /\ turn' = turn
    BY <1>14 DEF AgentAsks
  <2>2. QED
    BY <2>1 DEF LaneInv, Queued
<1>15. CASE QuestionAges
  <2>1. owed' = owed /\ lane' = lane /\ executing' = executing /\ turn' = turn
    BY <1>15 DEF QuestionAges
  <2>2. QED
    BY <2>1 DEF LaneInv, Queued
<1>16. CASE ImportStarts
  <2>1. owed' = owed /\ lane' = lane /\ executing' = executing /\ turn' = turn
    BY <1>16 DEF ImportStarts, Fault
  <2>2. QED
    BY <2>1 DEF LaneInv, Queued
<1>17. CASE ImportEnds
  <2>1. owed' = owed /\ lane' = lane /\ executing' = executing /\ turn' = turn
    BY <1>17 DEF ImportEnds
  <2>2. QED
    BY <2>1 DEF LaneInv, Queued
<1>18. CASE Crash
  <2>1. Len(lane') = 0 /\ turn' = Idle
    BY <1>18 DEF Crash
  <2>2. QED
    BY <2>1 DEF LaneInv, Queued
<1>19. CASE UNCHANGED vars
  <2>1. owed' = owed /\ lane' = lane /\ executing' = executing /\ turn' = turn
    BY <1>19 DEF vars
  <2>2. QED
    BY <2>1 DEF LaneInv, Queued
<1>20. QED
  BY <1>1, <1>2, <1>3, <1>4, <1>5, <1>6, <1>7, <1>8, <1>9, <1>10, <1>11, <1>12, <1>13,
       <1>14, <1>15, <1>16, <1>17, <1>18, <1>19 DEF Next

LEMMA OwedKept ==
  ASSUME TypeOK, OwedInv, [Next]_vars
  PROVE  OwedInv'
<1> USE DEF rowVars, laneVars, talkVars, offVars, vars
<1>1. ASSUME NEW t \in Tasks, TimePasses(t) PROVE OwedInv'
  BY <1>1 DEF OwedInv, TimePasses, TypeOK
<1>2. ASSUME NEW t \in Tasks, DedupPasses(t) PROVE OwedInv'
  BY <1>2 DEF OwedInv, DedupPasses
<1>3. ASSUME NEW t \in Tasks, SkipFire(t) PROVE OwedInv'
  <2>1. EndsFire(t) /\ turn' = turn
    BY <1>3 DEF EndsFire, SkipFire
  <2>2. QED
    BY <2>1, RowAtEnd DEF OwedInv
<1>4. ASSUME NEW t \in Tasks, HoldFire(t) PROVE OwedInv'
  <2>1. EndsFire(t) /\ turn' = turn
    BY <1>4 DEF EndsFire, HoldFire
  <2>2. QED
    BY <2>1, RowAtEnd DEF OwedInv
<1>5. ASSUME NEW t \in Tasks, BeginTurn(t) PROVE OwedInv'
  <2>1. task' = task /\ owed' = owed \ {t} /\ turn = Idle /\ turn' = t
    BY <1>5 DEF BeginTurn, NextInLane
  <2>2. QED
    BY <2>1, AgentAssumption DEF OwedInv, Idle
<1>6. ASSUME NEW t \in Tasks, TurnSpeaks(t) PROVE OwedInv'
  <2>1. EndsFire(t) /\ turn = t
    BY <1>6 DEF EndsFire, Ends, TurnSpeaks
  <2>2. QED
    BY <2>1, RowAtEnd DEF OwedInv
<1>7. ASSUME NEW t \in Tasks, TurnIsSilent(t) PROVE OwedInv'
  <2>1. EndsFire(t) /\ turn = t
    BY <1>7 DEF EndsFire, Ends, TurnIsSilent
  <2>2. QED
    BY <2>1, RowAtEnd DEF OwedInv
<1>8. ASSUME NEW t \in Tasks, TurnFails(t) PROVE OwedInv'
  <2>1. EndsFire(t) /\ turn = t
    BY <1>8 DEF EndsFire, Ends, TurnFails
  <2>2. QED
    BY <2>1, RowAtEnd DEF OwedInv
<1>9. ASSUME NEW t \in Tasks, createTask(t) PROVE OwedInv'
  BY <1>9 DEF OwedInv, createTask, TypeOK
<1>10. ASSUME NEW t \in Tasks, updateTask(t) PROVE OwedInv'
  BY <1>10 DEF OwedInv, updateTask, TypeOK
<1>11. ASSUME NEW t \in Tasks, NEW status \in {"paused", "cancelled"}, setTaskStatus(t, status) PROVE OwedInv'
  BY <1>11 DEF OwedInv, setTaskStatus, TypeOK
<1>12. CASE tick
  BY <1>12 DEF OwedInv, tick
<1>13. CASE HumanWrites
  BY <1>13 DEF OwedInv, HumanWrites
<1>14. CASE AgentAsks
  BY <1>14 DEF OwedInv, AgentAsks
<1>15. CASE QuestionAges
  BY <1>15 DEF OwedInv, QuestionAges
<1>16. CASE ImportStarts
  BY <1>16 DEF OwedInv, ImportStarts, Fault
<1>17. CASE ImportEnds
  BY <1>17 DEF OwedInv, ImportEnds
<1>18. CASE Crash
  BY <1>18 DEF OwedInv, Crash, Fault, Due, TypeOK
<1>19. CASE UNCHANGED vars
  BY <1>19 DEF OwedInv, vars
<1>20. QED
  BY <1>1, <1>2, <1>3, <1>4, <1>5, <1>6, <1>7, <1>8, <1>9, <1>10, <1>11, <1>12, <1>13,
       <1>14, <1>15, <1>16, <1>17, <1>18, <1>19 DEF Next

LEMMA RowKept ==
  ASSUME TypeOK, RowInv, [Next]_vars
  PROVE  RowInv'
<1> USE DEF rowVars, laneVars, talkVars, offVars, vars
<1>1. ASSUME NEW t \in Tasks, TimePasses(t) PROVE RowInv'
  BY <1>1, AgentAssumption DEF RowInv, OneOffHadItsTurn, CyclesStayArmed, TimePasses, TypeOK
<1>2. ASSUME NEW t \in Tasks, DedupPasses(t) PROVE RowInv'
  BY <1>2, AgentAssumption DEF RowInv, OneOffHadItsTurn, CyclesStayArmed, DedupPasses
<1>3. ASSUME NEW t \in Tasks, SkipFire(t) PROVE RowInv'
  <2>1. EndsFire(t)
    BY <1>3 DEF EndsFire, SkipFire
  <2>2. recent' \subseteq ended' /\ ended \subseteq ended' /\ unpaid \subseteq unpaid'
    BY <1>3 DEF SkipFire, NextInLane, Leave, RowInv
  <2>3. \/ t \in ended' \cup unpaid' \/ t \notin Once
        \/ holdFire(t) \/ retryLater(t)
    BY <1>3 DEF SkipFire, NextInLane, Leave, RowInv
  <2>4. QED
    BY <2>1, <2>2, <2>3, RowsKeptAtEnd
<1>4. ASSUME NEW t \in Tasks, HoldFire(t) PROVE RowInv'
  <2>1. EndsFire(t)
    BY <1>4 DEF EndsFire, HoldFire
  <2>2. recent' \subseteq ended' /\ ended \subseteq ended' /\ unpaid \subseteq unpaid'
    BY <1>4 DEF HoldFire, NextInLane, Leave, holdProactiveDelivery, Fault, RowInv
  <2>3. \/ t \in ended' \cup unpaid' \/ t \notin Once
        \/ holdFire(t) \/ retryLater(t)
    BY <1>4 DEF HoldFire, NextInLane, Leave, holdProactiveDelivery, Fault, RowInv
  <2>4. QED
    BY <2>1, <2>2, <2>3, RowsKeptAtEnd
<1>5. ASSUME NEW t \in Tasks, BeginTurn(t) PROVE RowInv'
  BY <1>5, AgentAssumption DEF RowInv, OneOffHadItsTurn, CyclesStayArmed, BeginTurn, NextInLane
<1>6. ASSUME NEW t \in Tasks, TurnSpeaks(t) PROVE RowInv'
  <2>1. EndsFire(t)
    BY <1>6 DEF EndsFire, TurnSpeaks
  <2>2. recent' \subseteq ended' /\ ended \subseteq ended' /\ unpaid \subseteq unpaid'
    BY <1>6 DEF TurnSpeaks, Ends, Leave, Resets, Deliver, holdProactiveDelivery, Fault, RowInv
  <2>3. \/ t \in ended' \cup unpaid' \/ t \notin Once
        \/ holdFire(t) \/ retryLater(t)
    BY <1>6 DEF TurnSpeaks, Ends, Leave, Resets, Deliver, holdProactiveDelivery, Fault, RowInv
  <2>4. QED
    BY <2>1, <2>2, <2>3, RowsKeptAtEnd
<1>7. ASSUME NEW t \in Tasks, TurnIsSilent(t) PROVE RowInv'
  <2>1. EndsFire(t)
    BY <1>7 DEF EndsFire, TurnIsSilent
  <2>2. recent' \subseteq ended' /\ ended \subseteq ended' /\ unpaid \subseteq unpaid'
    BY <1>7 DEF TurnIsSilent, Ends, Leave, Resets, RowInv
  <2>3. \/ t \in ended' \cup unpaid' \/ t \notin Once
        \/ holdFire(t) \/ retryLater(t)
    BY <1>7 DEF TurnIsSilent, Ends, Leave, Resets, RowInv
  <2>4. QED
    BY <2>1, <2>2, <2>3, RowsKeptAtEnd
<1>8. ASSUME NEW t \in Tasks, TurnFails(t) PROVE RowInv'
  <2>1. EndsFire(t)
    BY <1>8 DEF EndsFire, TurnFails
  <2>2. recent' \subseteq ended' /\ ended \subseteq ended' /\ unpaid \subseteq unpaid'
    BY <1>8 DEF TurnFails, Ends, Leave, Resets, RowInv
  <2>3. \/ t \in ended' \cup unpaid' \/ t \notin Once
        \/ holdFire(t) \/ retryLater(t)
    BY <1>8 DEF TurnFails, Ends, Leave, Resets, RowInv
  <2>4. QED
    BY <2>1, <2>2, <2>3, RowsKeptAtEnd
<1>9. ASSUME NEW t \in Tasks, createTask(t) PROVE RowInv'
  BY <1>9, AgentAssumption DEF RowInv, OneOffHadItsTurn, CyclesStayArmed, createTask, TypeOK
<1>10. ASSUME NEW t \in Tasks, updateTask(t) PROVE RowInv'
  BY <1>10, AgentAssumption DEF RowInv, OneOffHadItsTurn, CyclesStayArmed, updateTask, TypeOK
<1>11. ASSUME NEW t \in Tasks, NEW status \in {"paused", "cancelled"}, setTaskStatus(t, status) PROVE RowInv'
  BY <1>11, AgentAssumption DEF RowInv, OneOffHadItsTurn, CyclesStayArmed, setTaskStatus, TypeOK
<1>12. CASE tick
  BY <1>12, AgentAssumption DEF RowInv, OneOffHadItsTurn, CyclesStayArmed, tick
<1>13. CASE HumanWrites
  BY <1>13, AgentAssumption DEF RowInv, OneOffHadItsTurn, CyclesStayArmed, HumanWrites
<1>14. CASE AgentAsks
  BY <1>14, AgentAssumption DEF RowInv, OneOffHadItsTurn, CyclesStayArmed, AgentAsks
<1>15. CASE QuestionAges
  BY <1>15, AgentAssumption DEF RowInv, OneOffHadItsTurn, CyclesStayArmed, QuestionAges
<1>16. CASE ImportStarts
  BY <1>16, AgentAssumption DEF RowInv, OneOffHadItsTurn, CyclesStayArmed, ImportStarts, Fault
<1>17. CASE ImportEnds
  BY <1>17, AgentAssumption DEF RowInv, OneOffHadItsTurn, CyclesStayArmed, ImportEnds
<1>18. CASE Crash
  BY <1>18, AgentAssumption DEF RowInv, OneOffHadItsTurn, CyclesStayArmed, Crash, Fault,
       TypeOK, Due
<1>19. CASE UNCHANGED vars
  BY <1>19, AgentAssumption DEF RowInv, OneOffHadItsTurn, CyclesStayArmed, vars
<1>20. QED
  BY <1>1, <1>2, <1>3, <1>4, <1>5, <1>6, <1>7, <1>8, <1>9, <1>10, <1>11, <1>12, <1>13,
       <1>14, <1>15, <1>16, <1>17, <1>18, <1>19 DEF Next

LEMMA OffKept ==
  ASSUME IInv, [Next]_vars
  PROVE  OffInv'
<1> USE DEF rowVars, laneVars, talkVars, offVars, vars
<1> TypeOK /\ OffInv
  BY DEF IInv
<1>1. ASSUME NEW t \in Tasks, TimePasses(t) PROVE OffInv'
  <2>1. /\ off' = off /\ offFires' = offFires /\ lane' = lane
        /\ \A u \in Tasks : u \in off => task'[u].status = task[u].status
    BY <1>1 DEF TimePasses, TypeOK, OffInv
  <2>2. QED
    BY <2>1 DEF OffInv, Queued
<1>2. ASSUME NEW t \in Tasks, DedupPasses(t) PROVE OffInv'
  <2>1. task' = task /\ off' = off /\ offFires' = offFires /\ lane' = lane
    BY <1>2 DEF DedupPasses
  <2>2. QED
    BY <2>1 DEF OffInv, Queued
<1>3. ASSUME NEW t \in Tasks, SkipFire(t) PROVE OffInv'
  <2>1. EndsFire(t) /\ off' = off /\ offFires' = offFires
    BY <1>3 DEF EndsFire, SkipFire
  <2>2. Queued' \subseteq Queued
    BY <1>3, TakesHead DEF SkipFire
  <2>3. QED
    BY <2>1, <2>2, RowAtEnd DEF OffInv
<1>4. ASSUME NEW t \in Tasks, HoldFire(t) PROVE OffInv'
  <2>1. EndsFire(t) /\ off' = off /\ offFires' = offFires
    BY <1>4 DEF EndsFire, HoldFire
  <2>2. Queued' \subseteq Queued
    BY <1>4, TakesHead DEF HoldFire
  <2>3. QED
    BY <2>1, <2>2, RowAtEnd DEF OffInv
<1>5. ASSUME NEW t \in Tasks, BeginTurn(t) PROVE OffInv'
  <2>1. t \in Queued /\ Queued' = Queued \ {t}
    BY <1>5, TakesHead DEF BeginTurn
  <2>2. /\ task' = task /\ off' = off
        /\ \A u \in Tasks \ {t} : offFires'[u] = offFires[u]
        /\ offFires'[t] = IF t \in off /\ offFires[t] < 2 THEN offFires[t] + 1 ELSE offFires[t]
    BY <1>5 DEF BeginTurn, TypeOK
  <2>3. QED
    BY <2>1, <2>2 DEF OffInv
<1>6. ASSUME NEW t \in Tasks, TurnSpeaks(t) PROVE OffInv'
  <2>1. EndsFire(t) /\ off' = off /\ offFires' = offFires /\ lane' = lane
    BY <1>6 DEF EndsFire, TurnSpeaks
  <2>2. QED
    BY <2>1, RowAtEnd DEF OffInv, Queued
<1>7. ASSUME NEW t \in Tasks, TurnIsSilent(t) PROVE OffInv'
  <2>1. EndsFire(t) /\ off' = off /\ offFires' = offFires /\ lane' = lane
    BY <1>7 DEF EndsFire, TurnIsSilent
  <2>2. QED
    BY <2>1, RowAtEnd DEF OffInv, Queued
<1>8. ASSUME NEW t \in Tasks, TurnFails(t) PROVE OffInv'
  <2>1. EndsFire(t) /\ off' = off /\ offFires' = offFires /\ lane' = lane
    BY <1>8 DEF EndsFire, TurnFails
  <2>2. QED
    BY <2>1, RowAtEnd DEF OffInv, Queued
<1>9. ASSUME NEW t \in Tasks, createTask(t) PROVE OffInv'
  <2>1. /\ off' = off /\ offFires' = offFires /\ lane' = lane
        /\ \A u \in Tasks : u \in off => task'[u].status = task[u].status
    BY <1>9 DEF createTask, TypeOK, OffInv
  <2>2. QED
    BY <2>1 DEF OffInv, Queued
<1>10. ASSUME NEW t \in Tasks, updateTask(t) PROVE OffInv'
  <2>1. /\ offFires' = offFires /\ lane' = lane
        /\ \A u \in Tasks : u \in off' => u \in off /\ task'[u].status = task[u].status
    BY <1>10 DEF updateTask, TypeOK, OffInv
  <2>2. QED
    BY <2>1 DEF OffInv, Queued
<1>11. ASSUME NEW t \in Tasks, NEW status \in {"paused", "cancelled"}, setTaskStatus(t, status) PROVE OffInv'
  <2>1. /\ lane' = lane /\ off' = off \cup {t}
        /\ \A u \in Tasks \ {t} : task'[u] = task[u] /\ offFires'[u] = offFires[u]
        /\ task'[t].status = status
        /\ offFires'[t] = IF t \in off THEN offFires[t] ELSE 0
    BY <1>11 DEF setTaskStatus, TypeOK
  <2>2. QED
    BY <2>1 DEF OffInv, Queued
<1>12. CASE tick
  <2>1. Queued' \subseteq Queued \cup Takes
    BY <1>12, TickAppends
  <2>2. task' = task /\ off' = off /\ offFires' = offFires
    BY <1>12 DEF tick
  <2>3. QED
    BY <2>1, <2>2 DEF OffInv, Takes, Due
<1>13. CASE HumanWrites
  <2>1. task' = task /\ off' = off /\ offFires' = offFires /\ lane' = lane
    BY <1>13 DEF HumanWrites
  <2>2. QED
    BY <2>1 DEF OffInv, Queued
<1>14. CASE AgentAsks
  <2>1. task' = task /\ off' = off /\ offFires' = offFires /\ lane' = lane
    BY <1>14 DEF AgentAsks
  <2>2. QED
    BY <2>1 DEF OffInv, Queued
<1>15. CASE QuestionAges
  <2>1. task' = task /\ off' = off /\ offFires' = offFires /\ lane' = lane
    BY <1>15 DEF QuestionAges
  <2>2. QED
    BY <2>1 DEF OffInv, Queued
<1>16. CASE ImportStarts
  <2>1. task' = task /\ off' = off /\ offFires' = offFires /\ lane' = lane
    BY <1>16 DEF ImportStarts, Fault
  <2>2. QED
    BY <2>1 DEF OffInv, Queued
<1>17. CASE ImportEnds
  <2>1. task' = task /\ off' = off /\ offFires' = offFires /\ lane' = lane
    BY <1>17 DEF ImportEnds
  <2>2. QED
    BY <2>1 DEF OffInv, Queued
<1>18. CASE Crash
  <2>1. Queued' = {} /\ off' = off /\ offFires' = offFires
    BY <1>18 DEF Crash, Queued
  <2>2. \A t \in Tasks : task'[t].status = task[t].status
    BY <1>18 DEF Crash, Due, TypeOK
  <2>3. QED
    BY <2>1, <2>2 DEF OffInv
<1>19. CASE UNCHANGED vars
  <2>1. task' = task /\ off' = off /\ offFires' = offFires /\ lane' = lane
    BY <1>19 DEF vars
  <2>2. QED
    BY <2>1 DEF OffInv, Queued
<1>20. QED
  BY <1>1, <1>2, <1>3, <1>4, <1>5, <1>6, <1>7, <1>8, <1>9, <1>10, <1>11, <1>12, <1>13,
       <1>14, <1>15, <1>16, <1>17, <1>18, <1>19 DEF Next

LEMMA FloorKept == ASSUME NeverTalksOver, [Next]_vars PROVE NeverTalksOver'
<1> USE DEF rowVars, laneVars, talkVars, offVars, vars, NeverTalksOver
<1>1. ASSUME NEW t \in Tasks, TurnSpeaks(t) PROVE NeverTalksOver'
  BY <1>1 DEF TurnSpeaks, Deliver, shouldHoldProactive
<1>2. ASSUME NEW t \in Tasks, LaneStep(t) \/ TurnIsSilent(t) \/ TurnFails(t)
      PROVE NeverTalksOver'
  BY <1>2 DEF LaneStep, SkipFire, HoldFire, BeginTurn, TurnIsSilent, TurnFails
<1>3. ASSUME NEW t \in Tasks, NEW status \in {"paused", "cancelled"},
             \/ TimePasses(t) \/ DedupPasses(t) \/ createTask(t) \/ updateTask(t)
             \/ setTaskStatus(t, status)
      PROVE NeverTalksOver'
  BY <1>3 DEF TimePasses, DedupPasses, createTask, updateTask, setTaskStatus
<1>4. CASE \/ tick \/ HumanWrites \/ AgentAsks \/ QuestionAges
           \/ ImportStarts \/ ImportEnds \/ Crash \/ UNCHANGED vars
  BY <1>4 DEF tick, HumanWrites, AgentAsks, QuestionAges, ImportStarts, ImportEnds, Crash
<1>5. QED
  BY <1>1, <1>2, <1>3, <1>4 DEF Next, LaneStep

-----------------------------------------------------------------------------
(* The theorems.                                                            *)

LEMMA InvInit == Init => IInv
<1> SUFFICES ASSUME Init PROVE IInv
  OBVIOUS
<1> USE DEF Init
<1>1. TypeOK
  <2>1. /\ importing \in BOOLEAN /\ talkedOver \in BOOLEAN
        /\ lane \in Seq(Tasks) /\ turn \in Tasks \cup {Idle}
    BY Zenon, EmptySeq
  <2>2. asks \in 0..MaxAsks /\ faults \in 0..MaxFaults
    BY AgentAssumption
  <2>3. retries \in [Tasks -> 0..MAX_RETRIES] /\ offFires \in [Tasks -> 0..2]
    BY AgentAssumption
  <2>4. QED
    BY <2>1, <2>2, <2>3 DEF TypeOK, Statuses
<1>2. LaneInv
  <2>1. Len(lane) = 0 /\ turn = Idle
    OBVIOUS
  <2>2. QED
    BY <2>1 DEF LaneInv, Queued
<1>3. OwedInv /\ RowInv /\ OffInv /\ NeverTalksOver
  BY AgentAssumption
  DEF OwedInv, RowInv, OneOffHadItsTurn, CyclesStayArmed, OffInv, NeverTalksOver
<1>4. QED
  BY <1>1, <1>2, <1>3 DEF IInv

LEMMA InvStep == IInv /\ [Next]_vars => IInv'
BY TypeStep, LaneKept, OwedKept, RowKept, OffKept, FloorKept DEF IInv

(* The invariant the proofs rest on holds in every behaviour.               *)
THEOREM Invariance == Spec => []IInv
BY InvInit, InvStep, PTL DEF Spec

(* A one-off is completed only by the end of a turn, which may have said     *)
(* nothing, or by the budget, never by a hold, a retry, a boot or a crash; a *)
(* cycle stays armed; a task that is off begins at most one more fire        *)
(* (holdFire, retryLater, advance, buildCyclePatch, tick).                   *)
THEOREM CompletedByTurnOrBudget == Spec => []AgentInv
<1>1. IInv => AgentInv
  BY DEF IInv, AgentInv, RowInv, OffInv, OffFiresAtMostOnce
<1>2. QED
  BY <1>1, Invariance, PTL

(* No message nobody asked for goes out over a fresh question (runTask's    *)
(* two looks at the floor).                                                 *)
THEOREM YieldsTheFloor == Spec => []NeverTalksOver
<1>1. IInv => NeverTalksOver
  BY DEF IInv
<1>2. QED
  BY <1>1, Invariance, PTL

(* No due instant is given two turns in a process, however ticks, waits in  *)
(* the lane, owner's edits and crashes are interleaved (the executing set). *)
THEOREM OneTurn == Spec => OneTurnPerFire
<1>1. IInv /\ [Next]_vars => [\A t \in Tasks : turn # t /\ turn' = t => t \in owed]_vars
  <2> SUFFICES ASSUME IInv, Next, NEW t \in Tasks, turn # t, turn' = t PROVE t \in owed
    BY DEF OneTurnPerFire
  <2> USE DEF rowVars, laneVars, talkVars, offVars
  <2>1. t # Idle
    BY AgentAssumption DEF Idle
  <2>2. BeginTurn(t)
    <3>1. ASSUME NEW u \in Tasks, BeginTurn(u) PROVE BeginTurn(t)
      BY <3>1 DEF BeginTurn
    <3>2. ASSUME NEW u \in Tasks,
                 \/ TimePasses(u) \/ DedupPasses(u) \/ SkipFire(u) \/ HoldFire(u)
                 \/ createTask(u) \/ updateTask(u)
                 \/ \E status \in {"paused", "cancelled"} : setTaskStatus(u, status)
          PROVE FALSE
      BY <3>2 DEF TimePasses, DedupPasses, SkipFire, HoldFire, createTask, updateTask,
                  setTaskStatus
    <3>3. ASSUME NEW u \in Tasks, TurnSpeaks(u) \/ TurnIsSilent(u) \/ TurnFails(u)
          PROVE FALSE
      BY <2>1, <3>3 DEF TurnSpeaks, TurnIsSilent, TurnFails, Ends
    <3>4. ~(\/ tick \/ HumanWrites \/ AgentAsks \/ QuestionAges
            \/ ImportStarts \/ ImportEnds \/ Crash)
      BY <2>1 DEF tick, HumanWrites, AgentAsks, QuestionAges, ImportStarts, ImportEnds, Crash
    <3>5. QED
      BY <3>1, <3>2, <3>3, <3>4 DEF Next
  <2>3. t \in Queued
    BY <2>2, TakesHead DEF BeginTurn
  <2>4. QED
    BY <2>3 DEF IInv, LaneInv
<1>2. QED
  BY <1>1, Invariance, PTL DEF Spec, OneTurnPerFire
=============================================================================
