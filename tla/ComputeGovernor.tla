--------------------------- MODULE ComputeGovernor ---------------------------
(***************************************************************************)
(* The process-wide broker for heavy compute, src/core/compute-governor.js *)
(* Every lane asks `admit` for a ticket before it loads a model or starts a *)
(* bulk computation.  One model slot is shared by the resident and the      *)
(* interactive lanes; bulk lanes share a memory budget.                     *)
(*                                                                          *)
(* The broker is synchronous JavaScript: each action below is one turn of   *)
(* the event loop, except that a drained waiter runs inside the turn of the *)
(* release that woke it.  While such a waiter is on the stack, `pending`    *)
(* names it and every other action is disabled.                             *)
(***************************************************************************)
EXTENDS Integers, Sequences, FiniteSets, FiniteSetsExt

CONSTANTS
  Lanes,              \* lane ids, the `lane` argument of admit
  Klass,              \* the class each lane always asks for
  EstimateGb,         \* the estimate each lane passes
  Leased,             \* lanes admitted with timeoutMs > 0
  Spawning,           \* lanes whose work is a child process bound to the ticket
  LateKeys,           \* spawning lanes that resolve their keys after admission
  KillTimed,          \* spawning lanes whose child is killed after MAX_MS
  Waiters,            \* closures handed to queueForResident
  QueueLane,          \* the lane they are queued under: clustering, and no other
  BULK_MAX, AGING_THRESHOLD, RESIDENT_QUEUE_MAX,
  Budgets,            \* budgets the hardware probe can compute, in GB
  COLD_BUDGET_GB,
  Pressures,          \* levels the memory probe can report
  Tickets,            \* pool of ticket ids: bounds the owners alive at one time
  StackDepth,         \* bound on nested drains before the stack overflows
  NoLane, NoWaiter

Classes == {"resident", "bulk", "interactive"}

ASSUME LaneAssumption ==
  /\ NoLane \notin Lanes
  /\ Klass \in [Lanes -> Classes]
  /\ EstimateGb \in [Lanes -> Nat]
  /\ Leased \subseteq Lanes
  /\ Spawning \subseteq Lanes
  /\ LateKeys \subseteq Spawning
  /\ KillTimed \subseteq Spawning
  /\ QueueLane \in Lanes
  /\ Klass[QueueLane] = "resident"
  /\ NoWaiter \notin Waiters

ASSUME BoundAssumption ==
  /\ BULK_MAX \in Nat \ {0}
  /\ AGING_THRESHOLD \in Nat \ {0}
  /\ RESIDENT_QUEUE_MAX \in Nat \ {0}
  /\ Budgets \subseteq Nat
  /\ COLD_BUDGET_GB \in Nat
  /\ "ok" \in Pressures
  /\ Pressures \subseteq {"ok", "warn", "critical"}
  /\ IsFiniteSet(Tickets)
  /\ StackDepth \in Nat \ {0}

RESIDENT_MAX == 1

\* The lanes whose refusals are counted: only those of plain-resident lanes are
\* ever read, and only by the admission of an interactive lane.
AgingLanes ==
  {l \in Lanes : Klass[l] = "resident" /\ \E m \in Lanes : Klass[m] = "interactive"}

VARIABLES
  held,         \* ids in _tickets
  laneOf,       \* the lane of a ticket that is held or whose owner still runs
  preemptedBy,  \* the lane that asked the ticket's holder to yield, or NoLane
  beat,         \* the ticket was granted or heartbeated within its lease
  work,         \* what the ticket's owner is doing, whether it is held or not
  refusals,     \* _laneRefusals, saturating at AGING_THRESHOLD
  pressure,     \* the cached reading of the memory-pressure probe
  budget,       \* budgetGb()
  queue,        \* _residentQueue
  pending,      \* the waiter whose fn is on the stack
  wakes,        \* waiters run so far within the current turn
  spun          \* a chain of drains once ended in a stack overflow

ticketVars == <<held, laneOf, preemptedBy, beat, work>>
queueVars  == <<queue, pending, wakes, spun>>
probeVars  == <<pressure, budget>>
vars == <<ticketVars, refusals, probeVars, queueVars>>

\* An in-process owner works until it releases.  A spawning owner has a live
\* child, or one that exited while a descendant keeps its pipes open ("orphan").
\* An owner that threw between admission and its work does nothing ("none").
Work == {"none", "inproc", "child", "orphan"}

\* The lane of a ticket is known as long as it is held or its owner still runs,
\* through reclaims and re-grants; the rest are the types.
TypeOK ==
  /\ held \subseteq Tickets
  /\ laneOf \in [Tickets -> Lanes \cup {NoLane}]
  /\ preemptedBy \in [Tickets -> Lanes \cup {NoLane}]
  /\ beat \in [Tickets -> BOOLEAN]
  /\ work \in [Tickets -> Work]
  /\ \A i \in Tickets : (i \in held \/ work[i] # "none") => laneOf[i] \in Lanes
  /\ refusals \in [AgingLanes -> 0..AGING_THRESHOLD]
  /\ pressure \in Pressures
  /\ budget \in Budgets \cup {COLD_BUDGET_GB}
  /\ queue \in Seq(Waiters)
  /\ pending \in Waiters \cup {NoWaiter}
  /\ wakes \in 0..StackDepth
  /\ spun \in BOOLEAN

Init ==
  /\ held = {}
  /\ laneOf = [i \in Tickets |-> NoLane]
  /\ preemptedBy = [i \in Tickets |-> NoLane]
  /\ beat = [i \in Tickets |-> FALSE]
  /\ work = [i \in Tickets |-> "none"]
  /\ refusals = [l \in AgingLanes |-> 0]
  /\ pressure = "ok"
  /\ budget = COLD_BUDGET_GB
  /\ queue = <<>>
  /\ pending = NoWaiter
  /\ wakes = 0
  /\ spun = FALSE

-----------------------------------------------------------------------------
(* Reading the ticket table.                                               *)

holdsSlot(i) == Klass[laneOf[i]] \in {"resident", "interactive"}

SlotHolders == {i \in held : holdsSlot(i)}
BulkHolders == {i \in held : Klass[laneOf[i]] = "bulk"}

residentCount == Cardinality(SlotHolders)
bulkCount     == Cardinality(BulkHolders)
bulkGb        == MapThenSumSet(LAMBDA i : EstimateGb[laneOf[i]], BulkHolders)

\* A plain-resident lane refused often enough is promoted over interactive.
agedBackgroundExists == \E l \in AgingLanes : refusals[l] >= AGING_THRESHOLD

PressureRefuses(l) ==
  \/ pressure = "critical"
  \/ /\ pressure = "warn"
     /\ IF Klass[l] = "bulk" THEN residentCount > 0 ELSE bulkCount > 0

\* Mutant: interactive is granted the slot as soon as it has asked for it.
RoomFor_PreemptGrants(l) ==
  Klass[l] = "interactive" \/ residentCount < RESIDENT_MAX

\* Mutant: only the newcomer's estimate is compared with the budget.
RoomFor_SumUnchecked(l) ==
  IF Klass[l] = "bulk" THEN bulkCount < BULK_MAX /\ EstimateGb[l] <= budget
  ELSE residentCount < RESIDENT_MAX

\* The decision of admit() for each class, pressure aside.
RoomFor(l) ==
  /\ Klass[l] \in {"resident", "interactive"} => residentCount < RESIDENT_MAX
  /\ Klass[l] = "interactive" => ~agedBackgroundExists
  /\ Klass[l] = "bulk" => /\ bulkCount < BULK_MAX
                          /\ EstimateGb[l] <= budget
                          /\ bulkCount > 0 => bulkGb + EstimateGb[l] <= budget

Admissible(l) == ~PressureRefuses(l) /\ RoomFor(l)

\* A refused interactive request asks the slot's holder to yield.
Preempts(l) ==
  /\ Klass[l] = "interactive"
  /\ ~PressureRefuses(l)
  /\ ~agedBackgroundExists
  /\ residentCount >= RESIDENT_MAX

-----------------------------------------------------------------------------
(* The pieces of admit, doRelease and the resident queue.                   *)

bumpRefusal(l) ==
  refusals' = [r \in AgingLanes |->
    IF r = l /\ refusals[r] < AGING_THRESHOLD THEN refusals[r] + 1 ELSE refusals[r]]

clearRefusal(l) ==
  refusals' = [r \in AgingLanes |-> IF r = l THEN 0 ELSE refusals[r]]

\* The refused branch of admit, with the preempt request it may leave behind.
Refuse(l) ==
  /\ ~Admissible(l)
  /\ bumpRefusal(l)
  /\ preemptedBy' = [i \in Tickets |->
       IF Preempts(l) /\ i \in SlotHolders /\ preemptedBy[i] = NoLane
       THEN l ELSE preemptedBy[i]]
  /\ UNCHANGED <<held, laneOf, beat, work>>

\* grant(): a fresh ticket, whose owner goes on in the same turn to do w.
Fresh == {i \in Tickets : i \notin held /\ work[i] = "none"}

grant(l, w) ==
  /\ Admissible(l)
  /\ clearRefusal(l)
  /\ \E i \in Fresh :
       /\ held' = held \cup {i}
       /\ laneOf' = [laneOf EXCEPT ![i] = l]
       /\ preemptedBy' = [preemptedBy EXCEPT ![i] = NoLane]
       /\ beat' = [beat EXCEPT ![i] = TRUE]
       /\ work' = [work EXCEPT ![i] = w]

\* What an admitted lane goes on to do: work in process, spawn its child, or
\* throw on a missing key before the spawn and leave its ticket behind.
Starts(l) == (IF l \in Spawning THEN {"child"} ELSE {"inproc"})
             \cup (IF l \in LateKeys THEN {"none"} ELSE {})

\* drainResidentQueue() on queue q while `holders` hold the slot: at most one
\* waiter is taken off and called.  A chain of calls deeper than the stack is
\* cut by the catch of the innermost drain, before or after its shift.
drainResidentQueue(holders, q) ==
  IF q = <<>> \/ Cardinality(holders) >= RESIDENT_MAX
  THEN queue' = q /\ pending' = NoWaiter /\ wakes' = 0 /\ UNCHANGED spun
  ELSE IF wakes < StackDepth
  THEN /\ queue' = Tail(q)
       /\ pending' = Head(q)
       /\ wakes' = wakes + 1
       /\ UNCHANGED spun
  ELSE /\ queue' \in {q, Tail(q)}
       /\ pending' = NoWaiter
       /\ wakes' = 0
       /\ spun' = TRUE

\* queueForResident(): coalesced by lane (there is one lane, so any entry
\* coalesces), bounded, and drained at once when the slot is free.
queueForResident(w) ==
  IF queue # <<>> \/ Len(queue) >= RESIDENT_QUEUE_MAX
  THEN UNCHANGED <<queue, spun>> /\ pending' = NoWaiter /\ wakes' = 0
  ELSE drainResidentQueue(SlotHolders, Append(queue, w))

\* Mutant: a release does not look at the queue.
doRelease_NoDrain(i) == held' = held \ {i} /\ UNCHANGED queueVars

\* doRelease(): a no-op for a ticket that is gone already.
doRelease(i) ==
  /\ held' = held \ {i}
  /\ IF i \in held /\ holdsSlot(i)
     THEN drainResidentQueue(SlotHolders \ {i}, queue)
     ELSE UNCHANGED queueVars

\* The id of a ticket that is not held, and whose owner is done, is fresh again.
Forget(i) ==
  /\ laneOf' = [laneOf EXCEPT ![i] = NoLane]
  /\ preemptedBy' = [preemptedBy EXCEPT ![i] = NoLane]
  /\ beat' = [beat EXCEPT ![i] = FALSE]
  /\ work' = [work EXCEPT ![i] = "none"]

Idle == pending = NoWaiter

-----------------------------------------------------------------------------
(* The callers.                                                             *)

\* admit(), for a caller that gives up or retries by itself when refused.
Admit(l) ==
  /\ Idle
  /\ (\E w \in Starts(l) : grant(l, w)) \/ Refuse(l)
  /\ UNCHANGED <<probeVars, queueVars>>

\* admit() succeeded and spawn threw: the ticket is released in the same turn.
AdmitSpawnFails(l) ==
  /\ Idle
  /\ l \in Spawning /\ Admissible(l)
  /\ clearRefusal(l)
  /\ IF Klass[l] = "bulk" THEN UNCHANGED queueVars
     ELSE drainResidentQueue(SlotHolders, queue)
  /\ UNCHANGED <<ticketVars, probeVars>>

\* A lane that must eventually run queues its retry when it is refused.
AdmitOrQueue(w) ==
  /\ Idle
  /\ Refuse(QueueLane)
  /\ queueForResident(w)
  /\ UNCHANGED probeVars

\* The waiter's fn: it asks again and queues itself again if still refused.
WaiterRetries ==
  /\ ~Idle
  /\ \/ /\ grant(QueueLane, "child")
        /\ pending' = NoWaiter /\ wakes' = 0 /\ UNCHANGED <<queue, spun>>
     \/ Refuse(QueueLane) /\ queueForResident(pending)
  /\ UNCHANGED probeVars

\* It is admitted and its spawn throws.
WaiterSpawnFails ==
  /\ ~Idle
  /\ Admissible(QueueLane)
  /\ clearRefusal(QueueLane)
  /\ drainResidentQueue(SlotHolders, queue)
  /\ UNCHANGED <<ticketVars, probeVars>>

\* The waiter's fn finds that its job no longer wants to run.
WaiterDeclines ==
  /\ ~Idle
  /\ pending' = NoWaiter /\ wakes' = 0
  /\ UNCHANGED <<ticketVars, refusals, probeVars, queue, spun>>

\* An in-process owner reaches its finally block.
Release(i) ==
  /\ Idle
  /\ work[i] = "inproc"
  /\ Forget(i)
  /\ doRelease(i)
  /\ UNCHANGED <<refusals, probeVars>>

\* Mutant: the ticket is released on 'exit' instead of 'close'.
ChildExits_Releases(i) ==
  /\ Idle
  /\ work[i] = "child"
  /\ work' = [work EXCEPT ![i] = "orphan"]
  /\ doRelease(i)
  /\ UNCHANGED <<laneOf, preemptedBy, beat, refusals, probeVars>>

\* The spawned process exits, its pipes still open in a descendant.
ChildExits(i) ==
  /\ Idle
  /\ work[i] = "child"
  /\ work' = [work EXCEPT ![i] = "orphan"]
  /\ UNCHANGED <<held, laneOf, preemptedBy, beat, refusals, probeVars, queueVars>>

\* 'close', or the 'error' of a process that never started, fires on the bound
\* child: bindChild's onEnd.
ChildCloses(i) ==
  /\ Idle
  /\ work[i] \in {"child", "orphan"}
  /\ Forget(i)
  /\ doRelease(i)
  /\ UNCHANGED <<refusals, probeVars>>

Heartbeat(i) ==
  /\ Idle
  /\ i \in held /\ work[i] = "inproc"
  /\ beat' = [beat EXCEPT ![i] = TRUE]
  /\ UNCHANGED <<held, laneOf, preemptedBy, work, refusals, probeVars, queueVars>>

\* A whole lease passes without a heartbeat.
LeaseLapses(i) ==
  /\ Idle
  /\ i \in held /\ laneOf[i] \in Leased /\ beat[i]
  /\ beat' = [beat EXCEPT ![i] = FALSE]
  /\ UNCHANGED <<held, laneOf, preemptedBy, work, refusals, probeVars, queueVars>>

\* Mutant: the lease does not ask for the child.
childStillRunning_Never(i) == FALSE

childStillRunning(i) == work[i] = "child"

\* Mutant: a ticket whose child has ended is taken for one that runs.
LeaseReclaims_InProcessOnly(i) ==
  /\ Idle
  /\ i \in held /\ laneOf[i] \in Leased
  /\ work[i] \in {"none", "inproc"} /\ ~beat[i]
  /\ doRelease(i)
  /\ IF work[i] = "none" THEN Forget(i) ELSE UNCHANGED <<laneOf, preemptedBy, beat, work>>
  /\ UNCHANGED <<refusals, probeVars>>

\* The lease timer fires for good: no live child and no heartbeat.  The owner,
\* if there is one, does not notice and works on.
LeaseReclaims(i) ==
  /\ Idle
  /\ i \in held /\ laneOf[i] \in Leased
  /\ ~childStillRunning(i)
  /\ ~beat[i]
  /\ doRelease(i)
  /\ IF work[i] = "none" THEN Forget(i) ELSE UNCHANGED <<laneOf, preemptedBy, beat, work>>
  /\ UNCHANGED <<refusals, probeVars>>

\* abandonPreempt(ticketId, lane): withdrawn only by the lane that asked.
abandonPreempt(i, l) ==
  preemptedBy' = IF i \in held /\ preemptedBy[i] = l
                 THEN [preemptedBy EXCEPT ![i] = NoLane] ELSE preemptedBy

Abandon(i, l) ==
  /\ Idle
  /\ preemptedBy[i] = l
  /\ abandonPreempt(i, l)
  /\ UNCHANGED <<held, laneOf, beat, work, refusals, probeVars, queueVars>>

\* The pressure probe is read again once its cached value is too old.
ReadPressure ==
  /\ Idle
  /\ pressure' \in Pressures \ {pressure}
  /\ UNCHANGED <<ticketVars, refusals, budget, queueVars>>

\* The asynchronous hardware probe lands.
RefreshBudget ==
  /\ Idle
  /\ budget' \in Budgets \ {budget}
  /\ UNCHANGED <<ticketVars, refusals, pressure, queueVars>>

Next ==
  \/ \E l \in Lanes : Admit(l) \/ AdmitSpawnFails(l)
  \/ \E w \in Waiters : AdmitOrQueue(w)
  \/ WaiterRetries \/ WaiterSpawnFails \/ WaiterDeclines
  \/ \E i \in Tickets : \/ Release(i) \/ ChildExits(i) \/ ChildCloses(i)
                        \/ Heartbeat(i) \/ LeaseLapses(i) \/ LeaseReclaims(i)
                        \/ \E l \in Lanes : Abandon(i, l)
  \/ ReadPressure \/ RefreshBudget

Spec == Init /\ [][Next]_vars

\* Timers fire, the kill timer of a pipeline job ends its process, and a call
\* on the stack returns.  No owner is assumed to release, to heartbeat or to
\* stop heartbeating, and no other child is assumed to exit.  Strong fairness:
\* the event loop runs an expired timer although other turns come in between.
Fairness ==
  /\ \A i \in Tickets : /\ SF_vars(LeaseLapses(i))
                        /\ SF_vars(LeaseReclaims(i))
                        /\ SF_vars(laneOf[i] \in KillTimed /\ ChildExits(i))
  /\ WF_vars(WaiterRetries \/ WaiterSpawnFails \/ WaiterDeclines)

FairSpec == Spec /\ Fairness

-----------------------------------------------------------------------------
(* Safety.                                                                  *)

\* At most one model is loaded under a ticket: RESIDENT and INTERACTIVE lanes
\* together never hold more than the slot (RESIDENT_MAX, the crash the governor
\* exists to prevent), whatever the order of admissions, lease reclaims, child
\* exits and drained waiters.
SlotBound == residentCount <= RESIDENT_MAX

\* The lease never takes the ticket of a child process that is still running,
\* so the slot is not handed out under it (armLease, childStillRunning).
RunningChildKeepsTicket ==
  \A i \in Tickets : work[i] = "child" => i \in held

\* Two owners of model lanes run side by side only after a lease reclaim: one of
\* the two has lost its ticket ("the ONLY path that can momentarily
\* double-admit"), after a whole lease without a heartbeat, and it is an
\* in-process lane or a job whose child has exited.
DoubleUseOnlyAfterReclaim ==
  \A i, j \in Tickets :
    i # j /\ work[i] # "none" /\ work[j] # "none" /\ holdsSlot(i) /\ holdsSlot(j)
      => \E k \in {i, j} : /\ k \notin held
                          /\ laneOf[k] \in Leased /\ ~beat[k]
                          /\ work[k] # "child"

\* A waiter is never left parked beside a free slot: whoever frees the slot
\* drains the queue, and a waiter that arrives at a free slot is run at once.
\* (After a drain chain has overflowed the stack this is no longer so.)
NoLostWakeup ==
  Idle /\ queue # <<>> /\ ~spun => residentCount >= RESIDENT_MAX

\* Every step that grants a BULK ticket leaves the sum of the estimates within
\* the budget in force (the budget may shrink later, so this is about steps).
BulkGrantsFitBudget ==
  [][(\E i \in held' \ held : Klass[laneOf'[i]] = "bulk")
       => bulkGb' <= budget]_vars

\* No step grants anything under critical pressure, nor puts a model beside a
\* bulk lane under a warning: also when the admission happens inside the drain
\* of a release.
GrantsRespectPressure ==
  [][held' \ held # {} =>
       /\ pressure # "critical"
       /\ pressure = "warn" => SlotHolders' = {} \/ BulkHolders' = {}]_vars

\* What is granted fits the memory there is, by both of its measures.
GrantsFitMemory == BulkGrantsFitBudget /\ GrantsRespectPressure

-----------------------------------------------------------------------------
(* Liveness, under FairSpec.                                                *)

\* "A leaked ticket must never wedge the app": a leased ticket that stays held
\* for ever without a running child belongs to an owner that heartbeats for ever.
LeaseBackstop ==
  \A i \in Tickets :
    <>[](i \in held /\ laneOf[i] \in Leased /\ ~childStillRunning(i)) => []<>beat[i]

\* The ticket of a job with a kill timer comes back, even if its child hangs and
\* a descendant keeps its pipes open so that 'close' never fires.
KillTimedTicketReturns ==
  \A i \in Tickets : (i \in held /\ laneOf[i] \in KillTimed) ~> (i \notin held)

\* A ticket whose owner has forgotten it, or whose child hangs, comes back.
TicketsReturn == LeaseBackstop /\ KillTimedTicketReturns

\* If every ticket keeps coming back, a parked waiter is run (or was lost to a
\* drain chain that overflowed the stack).
QueuedWaiterRuns ==
  (\A i \in Tickets : []<>(i \notin held)) => (queue # <<>> ~> ~Idle \/ spun)

-----------------------------------------------------------------------------

\* "Draining one per call - never a while-loop - is what stops a
\* pressure-refused waiter from spinning forever": one turn runs one waiter.
OneWakePerTurn == wakes <= 1

=============================================================================
