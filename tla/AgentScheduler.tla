--------------------------- MODULE AgentScheduler ---------------------------
(***************************************************************************)
(* The autonomous turns of the agent (agent/scheduler.js, lane.js,          *)
(* turn-taking.js, cycle-output.js, db/harness.js).  A tick takes the tasks *)
(* that are due into a serial lane; the lane runs one task at a time from   *)
(* the row the tick read, however long it has waited.  A task is a one-off  *)
(* or a recurring cycle; what it says may reach the person, and then it     *)
(* yields the floor to a question the person has not answered.  Steps end   *)
(* where the code waits for the model; the SQL between two waits is one     *)
(* step.                                                                    *)
(***************************************************************************)
EXTENDS Naturals, Sequences, FiniteSets, SequencesExt

CONSTANTS
  Tasks,
  Once,          \* the tasks with schedule 'once'; the others are cycles
  ToPerson,      \* the tasks whose output_target reaches the person
  Essential,     \* the tasks the token budget does not hold back
  MAX_RETRIES,   \* scheduler.js: RETRY_BACKOFF_MIN.length
  MaxAsks,       \* bound: questions the agent ever asks
  MaxFaults      \* bound: crashes, imports, failed reads of the floor

ASSUME AgentAssumption ==
  /\ Once \subseteq Tasks /\ ToPerson \subseteq Tasks /\ Essential \subseteq Tasks
  /\ IsFiniteSet(Tasks) /\ "idle" \notin Tasks
  /\ MAX_RETRIES \in Nat /\ MaxAsks \in Nat /\ MaxFaults \in Nat

VARIABLES
  task,       \* scheduled_tasks: [status, next], next being "none", "later" or "due"
  executing,  \* the tasks in the lane, to be skipped by a tick
  lane,       \* the tasks waiting in the lane
  turn,       \* the task whose turn the model has, or Idle
  retries,    \* attempts of a task's present fire that failed
  recent,     \* the tasks with a run done in the last DEDUP_MS
  floor,      \* the last agent question: "free" (none, answered), "fresh", "stale"
  importing,  \* a bulk import has the vault
  asks, faults,
  owed,       \* history: came due, and no turn has begun on it in this process
  ended,      \* history: a turn of the task came to an end of its own
  unpaid,     \* history: the budget skipped a fire of the task
  off,        \* history: the tasks the owner turned off last
  offFires,   \* history: fires begun since then, at most 2
  talkedOver  \* history: a message went out over an open question

rowVars  == <<task, owed, ended, unpaid>>
laneVars == <<executing, lane, turn, retries>>
talkVars == <<floor, asks, talkedOver>>
offVars  == <<off, offFires>>
vars == <<rowVars, laneVars, talkVars, recent, importing, faults, offVars>>

Idle == "idle"
Statuses == {"absent", "active", "paused", "cancelled", "completed"}

TypeOK ==
  /\ task \in [Tasks -> [status : Statuses, next : {"none", "later", "due"}]]
  /\ executing \subseteq Tasks /\ recent \subseteq Tasks
  /\ lane \in Seq(Tasks)
  /\ turn \in Tasks \cup {Idle}
  /\ retries \in [Tasks -> 0..MAX_RETRIES]
  /\ floor \in {"free", "fresh", "stale"} /\ importing \in BOOLEAN
  /\ asks \in 0..MaxAsks /\ faults \in 0..MaxFaults
  /\ owed \subseteq Tasks /\ ended \subseteq Tasks /\ unpaid \subseteq Tasks
  /\ off \subseteq Tasks /\ offFires \in [Tasks -> 0..2] /\ talkedOver \in BOOLEAN

Init ==
  /\ task = [t \in Tasks |-> [status |-> "absent", next |-> "none"]]
  /\ executing = {} /\ lane = <<>> /\ turn = Idle
  /\ retries = [t \in Tasks |-> 0]
  /\ recent = {} /\ floor = "free" /\ importing = FALSE
  /\ asks = 0 /\ faults = 0
  /\ owed = {} /\ ended = {} /\ unpaid = {}
  /\ off = {} /\ offFires = [t \in Tasks |-> 0] /\ talkedOver = FALSE

-----------------------------------------------------------------------------
(* The row of a task.                                                       *)

\* A once task that has fired has no further run; the run of a cycle may fail
\* to be computed (a cron that matches nothing, a bad zone).
computeNextRun(t) == IF t \in Once THEN {"none"} ELSE {"later", "none"}

\* The status is left as the owner may have set it meanwhile.
markTaskRun(t, next) == [task EXCEPT ![t].next = next]

\* A cycle whose next run is unknown is armed all the same; a once task that
\* has none left is completed, whatever its status is by now.
advance(t) == \E next \in computeNextRun(t) :
  /\ task' = IF t \in Once
               THEN [markTaskRun(t, next) EXCEPT ![t].status = "completed"]
               ELSE markTaskRun(t, "later")
  /\ UNCHANGED owed

\* Mutant: a held fire is recorded like any other.
holdFire_Consumes(t) == advance(t)

\* A held one-off is deferred, a held fire of a cycle is given up.
holdFire(t) ==
  \/ t \notin Once /\ advance(t)
  \/ t \in Once /\ task' = markTaskRun(t, "later") /\ UNCHANGED owed

retryLater(t) == task' = markTaskRun(t, "later") /\ UNCHANGED owed

-----------------------------------------------------------------------------
(* The floor.                                                               *)

shouldHoldProactive == floor = "fresh"

Fault == faults < MaxFaults /\ faults' = faults + 1

\* A floor that cannot be read holds as well.
holdProactiveDelivery == (shouldHoldProactive /\ UNCHANGED faults) \/ Fault

HumanWrites ==
  /\ floor # "free" /\ floor' = "free"
  /\ UNCHANGED <<rowVars, laneVars, asks, talkedOver, recent, importing, faults, offVars>>

\* The first greeting, or an answer in the chat that ends in a question.
AgentAsks ==
  /\ asks < MaxAsks /\ asks' = asks + 1 /\ floor' = "fresh"
  /\ UNCHANGED <<rowVars, laneVars, talkedOver, recent, importing, faults, offVars>>

\* The question grows older than DEFAULT_HOLD_MS.
QuestionAges ==
  /\ floor = "fresh" /\ floor' = "stale"
  /\ UNCHANGED <<rowVars, laneVars, asks, talkedOver, recent, importing, faults, offVars>>

\* A message that reaches the person may end in a question itself.
Deliver ==
  /\ talkedOver' = (talkedOver \/ floor = "fresh")
  /\ \/ floor' = "free" /\ UNCHANGED asks
     \/ asks < MaxAsks /\ asks' = asks + 1 /\ floor' = "fresh"

-----------------------------------------------------------------------------
(* The tick and the lane.                                                   *)

Due == {t \in Tasks : task[t].status = "active" /\ task[t].next = "due"}

TimePasses(t) ==
  /\ task[t].next = "later"
  /\ task' = [task EXCEPT ![t].next = "due"]
  /\ owed' = owed \cup {t}
  /\ UNCHANGED <<ended, unpaid, laneVars, talkVars, recent, importing, faults, offVars>>

DedupPasses(t) ==
  /\ t \in recent /\ recent' = recent \ {t}
  /\ UNCHANGED <<rowVars, laneVars, talkVars, importing, faults, offVars>>

\* Mutant: a tick takes what is due, also what the lane still has.
Takes_Again == Due

Takes == Due \ executing

tick ==
  /\ ~importing /\ Takes # {}
  /\ \E order \in SetToSeqs(Takes) : lane' = lane \o order
  /\ executing' = executing \cup Takes
  /\ UNCHANGED <<rowVars, turn, retries, talkVars, recent, importing, faults, offVars>>

\* Mutant: a task that failed is not taken out of the executing set.
Leave_OnSuccess(t, ok) == executing' = IF ok THEN executing \ {t} ELSE executing

\* The lane goes on and the task may be taken again, whatever became of it.
Leave(t, ok) == executing' = executing \ {t}

NextInLane == lane # <<>> /\ turn = Idle /\ lane' = Tail(lane)

\* A duplicate of a run just done, or a fire the daily budget does not allow.
SkipFire(t) ==
  /\ NextInLane /\ t = Head(lane)
  /\ \/ t \in recent /\ UNCHANGED unpaid
     \/ t \notin recent /\ t \notin Essential /\ unpaid' = unpaid \cup {t}
  /\ advance(t) /\ Leave(t, TRUE)
  /\ UNCHANGED <<ended, turn, retries, talkVars, recent, importing, faults, offVars>>

HoldFire(t) ==
  /\ NextInLane /\ t = Head(lane) /\ t \notin recent
  /\ t \in ToPerson /\ holdProactiveDelivery
  /\ retries' = [retries EXCEPT ![t] = 0]
  /\ holdFire(t) /\ Leave(t, TRUE)
  /\ UNCHANGED <<ended, unpaid, turn, talkVars, recent, importing, offVars>>

BeginTurn(t) ==
  /\ NextInLane /\ t = Head(lane) /\ t \notin recent
  /\ t \in ToPerson => ~shouldHoldProactive
  /\ turn' = t /\ owed' = owed \ {t}
  /\ offFires' = [offFires EXCEPT ![t] = IF t \in off /\ @ < 2 THEN @ + 1 ELSE @]
  /\ UNCHANGED <<task, ended, unpaid, off, executing, retries, talkVars, recent, importing, faults>>

-----------------------------------------------------------------------------
(* How a turn ends.                                                         *)

Ends(t) == turn = t /\ turn' = Idle
Resets(t) == retries' = [retries EXCEPT ![t] = 0]

\* Mutant: the floor is looked at before the turn only.
TurnSpeaks_NoRecheck(t) ==
  /\ Ends(t) /\ t \in ToPerson
  /\ advance(t) /\ Resets(t) /\ Deliver /\ Leave(t, TRUE)
  /\ recent' = recent \cup {t} /\ ended' = ended \cup {t}
  /\ UNCHANGED <<unpaid, lane, importing, faults, offVars>>

\* The turn has something to say: the floor is looked at again, the message
\* is stored, or storing it fails and the fire is recorded as such.
TurnSpeaks(t) ==
  /\ Ends(t) /\ t \in ToPerson
  /\ \/ /\ holdProactiveDelivery /\ holdFire(t) /\ Resets(t)
        /\ UNCHANGED <<talkVars, recent, ended>>
     \/ /\ ~shouldHoldProactive /\ Deliver /\ advance(t) /\ Resets(t)
        /\ recent' = recent \cup {t} /\ ended' = ended \cup {t}
        /\ UNCHANGED faults
     \/ /\ ~shouldHoldProactive /\ advance(t)
        /\ ended' = ended \cup {t}
        /\ UNCHANGED <<talkVars, recent, retries, faults>>
  /\ Leave(t, TRUE)
  /\ UNCHANGED <<unpaid, lane, importing, offVars>>

\* Nothing to deliver: a quiet day, no capable model, a fragment, a sentinel,
\* or a task that only writes memory; only the last leaves a run 'done'.
TurnIsSilent(t) ==
  /\ Ends(t) /\ advance(t) /\ Resets(t)
  /\ recent' \in {recent} \cup {recent \cup {u} : u \in {t} \ ToPerson}
  /\ ended' = ended \cup {t}
  /\ Leave(t, TRUE)
  /\ UNCHANGED <<unpaid, lane, talkVars, importing, faults, offVars>>

\* A transport failure is tried again, a bounded number of times; any other
\* one, and the last, gives the fire up.
TurnFails(t) ==
  /\ Ends(t)
  /\ \/ /\ retries[t] < MAX_RETRIES
        /\ retries' = [retries EXCEPT ![t] = @ + 1]
        /\ retryLater(t) /\ UNCHANGED ended
     \/ Resets(t) /\ advance(t) /\ ended' = ended \cup {t}
  /\ Leave(t, FALSE)
  /\ UNCHANGED <<unpaid, lane, talkVars, recent, importing, faults, offVars>>

-----------------------------------------------------------------------------
(* The owner, imports and crashes.                                          *)

\* schedule_task and the seeding of the cycles: a row with a run ahead.
createTask(t) ==
  /\ task[t].status = "absent"
  /\ task' = [task EXCEPT ![t] = [status |-> "active", next |-> "later"]]
  /\ UNCHANGED <<owed, ended, unpaid, laneVars, talkVars, recent, importing, faults, offVars>>

\* cancel_task looks only whether the task exists.
setTaskStatus(t, status) ==
  /\ task[t].status # "absent" /\ task[t].status # status
  /\ status = "paused" => t \notin Once
  /\ task' = [task EXCEPT ![t].status = status]
  /\ off' = off \cup {t}
  /\ offFires' = [offFires EXCEPT ![t] = IF t \in off THEN @ ELSE 0]
  /\ UNCHANGED <<owed, ended, unpaid, laneVars, talkVars, recent, importing, faults>>

\* A cycle is switched on, or gets a new schedule or zone: its next run is
\* computed afresh, and stays as it was when that fails.
updateTask(t) ==
  /\ t \notin Once /\ task[t].status # "absent"
  /\ \E status \in {task[t].status, "active"}, next \in {"later", task[t].next} :
       /\ task' = [task EXCEPT ![t] = [status |-> status, next |-> next]]
       /\ off' = IF status = "active" THEN off \ {t} ELSE off
  /\ task' # task
  /\ UNCHANGED <<owed, ended, unpaid, laneVars, talkVars, recent, importing, faults, offFires>>

ImportStarts ==
  /\ ~importing /\ importing' = TRUE /\ Fault
  /\ UNCHANGED <<rowVars, laneVars, talkVars, recent, offVars>>

ImportEnds ==
  /\ importing /\ importing' = FALSE
  /\ UNCHANGED <<rowVars, laneVars, talkVars, recent, faults, offVars>>

\* What is in memory is gone.  At boot what is overdue is put off by
\* OVERDUE_BUMP_MS, longer than DEDUP_MS.
Crash ==
  /\ Fault
  /\ executing' = {} /\ lane' = <<>> /\ turn' = Idle
  /\ retries' = [t \in Tasks |-> 0]
  /\ recent' = {} /\ importing' = FALSE
  /\ task' = [t \in Tasks |-> IF t \in Due THEN [task[t] EXCEPT !.next = "later"] ELSE task[t]]
  /\ owed' = owed \cup ({turn} \cap Tasks)
  /\ UNCHANGED <<ended, unpaid, talkVars, offVars>>

Next ==
  \/ \E t \in Tasks :
       \/ TimePasses(t) \/ DedupPasses(t)
       \/ SkipFire(t) \/ HoldFire(t) \/ BeginTurn(t)
       \/ TurnSpeaks(t) \/ TurnIsSilent(t) \/ TurnFails(t)
       \/ createTask(t) \/ updateTask(t)
       \/ \E status \in {"paused", "cancelled"} : setTaskStatus(t, status)
  \/ tick \/ HumanWrites \/ AgentAsks \/ QuestionAges
  \/ ImportStarts \/ ImportEnds \/ Crash

Spec == Init /\ [][Next]_vars

LaneStep(t) == SkipFire(t) \/ HoldFire(t) \/ BeginTurn(t)
TurnStep(t) == TurnSpeaks(t) \/ TurnIsSilent(t) \/ TurnFails(t)

\* The clock goes on, the tick's timer is set again whatever a tick does, the
\* lane runs what it has, a turn ends (the provider call has a timeout), and
\* so does an import.
FairSpec ==
  /\ Spec
  /\ WF_vars(tick) /\ WF_vars(QuestionAges) /\ WF_vars(ImportEnds)
  /\ \A t \in Tasks : /\ WF_vars(TimePasses(t))
                      /\ WF_vars(LaneStep(t)) /\ WF_vars(TurnStep(t))

-----------------------------------------------------------------------------
(* Properties.                                                              *)

\* A one-off is completed only by the end of a turn of it, or by the daily
\* budget that took its fire: being held by the floor, put off for a retry,
\* bumped at boot or lost with the process does not use it up (holdFire,
\* retryLater, the boot's bump, advance).  The turn may have said nothing: a
\* silent one, one whose message could not be stored, a failure that is not
\* tried again and a fire the budget skips all complete the row unsaid.
OneOffHadItsTurn == \A t \in Once :
  task[t].status = "completed" => t \in ended \cup unpaid

\* A cycle that exists always has a run ahead and is never completed: neither
\* a next run that cannot be computed nor an edit while a turn of it runs
\* leaves it "active but dead" (advance, buildCyclePatch).
CyclesStayArmed == \A t \in Tasks \ Once :
  task[t].status # "absent" => task[t].next # "none" /\ task[t].status # "completed"

\* A message the person did not ask for never goes out over a fresh question
\* they have not answered, though the question may be asked while the turn
\* runs (runTask looks at the floor before the turn and before the delivery).
NeverTalksOver == ~talkedOver

\* Once the owner has paused or cancelled a task, at most one fire of it still
\* begins, the one a tick had taken into the lane (markTaskRun, tick).
OffFiresAtMostOnce == \A t \in Tasks : offFires[t] <= 1

\* A one-off is not completed before a turn of it has ended or the budget took
\* its fire, a cycle stays armed, and a task that was turned off begins at most
\* one more fire.
AgentInv == TypeOK /\ OneOffHadItsTurn /\ CyclesStayArmed /\ OffFiresAtMostOnce

\* A turn begins only on a fire no turn of this process has begun on: however long a task
\* waits in the lane, and whatever ends it, it is not run twice for one due
\* instant (the executing set, and the next run that every end writes).
OneTurnPerFire == [][\A t \in Tasks : turn # t /\ turn' = t => t \in owed]_vars

\* What is due and active is run or otherwise dealt with: no end of a task
\* leaves it behind in the executing set and no other task keeps the lane.
DueIsHandled == \A t \in Tasks : t \in Due ~> t \notin Due

\* A one-off comes to an end though the person never answers and the provider
\* fails as it likes: a hold ends, and retries are counted.
ReminderConcludes == \A t \in Once :
  task[t].status = "active" ~> task[t].status # "active"

\* Nothing that is due is left behind, and a promise is not put off for ever.
TasksConclude == DueIsHandled /\ ReminderConcludes

=============================================================================
