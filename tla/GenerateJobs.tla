---------------------------- MODULE GenerateJobs ----------------------------
(***************************************************************************)
(* The job runner of the mindscape pipeline, src/jobs.js, on top of the     *)
(* compute governor: Generate (clustering), Measure and Backfill share one  *)
(* single-flight latch; a refused Generate is parked in the governor's      *)
(* queue.  Bulk deletes (core/delete-lane.js, portal-data.js) contend with  *)
(* them.  A job is the governor's waiter of the same name.                  *)
(*                                                                          *)
(* The governor's 'close' listener was bound before the runner's own, so    *)
(* its release, and the waiter that this release wakes, come first: between *)
(* the two, `closing` names the job whose handler is still to run.          *)
(*                                                                          *)
(* The row of a job in the activity feed is open, closed by the job, or     *)
(* abandoned: taken for dead by the reaper, which runs with every poll of   *)
(* the feed and knows the heartbeats only (db/activity-feed.js).            *)
(***************************************************************************)
EXTENDS ComputeGovernor

CONSTANTS
  MeasureLane, DescribeLane,
  JOBS_HIGH, JOBS_LOW,  \* the table is evicted down to LOW when it exceeds HIGH
  Deletes,              \* delete requests that can be in flight at once
  NoTicket, NoDelete

Jobs == Waiters
NoJob == NoWaiter

ASSUME JobAssumption ==
  /\ MeasureLane \in Lanes /\ Klass[MeasureLane] = "bulk"
  /\ DescribeLane \in Lanes \ {QueueLane} /\ Klass[DescribeLane] = "resident"
  /\ {QueueLane, MeasureLane, DescribeLane} \subseteq Spawning
  /\ JOBS_HIGH \in Nat /\ JOBS_LOW \in 0..JOBS_HIGH
  /\ NoTicket \notin Tickets
  /\ NoDelete \notin Deletes

VARIABLES
  table,         \* ids in the `jobs` map
  kind, status,  \* of every job of which the process still holds a reference
  child,         \* state.child, as the ticket the child is bound to
  busy,          \* jobs that work in process: running backfills
  feed,          \* the job's row in the activity feed (and its pipeline_runs row)
  runningJobId,  \* the single-flight latch
  closing,       \* the job whose close handler runs next in this turn
  deletePhase,   \* a delete request: idle, asked (before its await), running
  deleteJob      \* the delete the route remembers

jobVars    == <<table, kind, status, child, busy, feed, runningJobId, closing>>
deleteVars == <<deletePhase, deleteJob>>
allVars    == <<vars, jobVars, deleteVars>>

\* Outside its close handler, a job's handle is a child that has not closed.
JobsTypeOK ==
  /\ table \subseteq Jobs
  /\ kind \in [Jobs -> {"none", "generate", "measure", "backfill"}]
  /\ status \in [Jobs -> {"none", "running", "done", "error", "canceled"}]
  /\ child \in [Jobs -> Tickets \cup {NoTicket}]
  /\ \A j \in Jobs \ {closing} :
       child[j] # NoTicket => work[child[j]] \in {"child", "orphan"}
  /\ busy \subseteq Jobs
  /\ feed \in [Jobs -> {"none", "open", "abandoned", "closed"}]
  /\ runningJobId \in Jobs \cup {NoJob}
  /\ closing \in Jobs \cup {NoJob}
  /\ deletePhase \in [Deletes -> {"idle", "asked", "running"}]
  /\ deleteJob \in Deletes \cup {NoDelete}

JobsInit ==
  /\ Init
  /\ table = {}
  /\ kind = [j \in Jobs |-> "none"]
  /\ status = [j \in Jobs |-> "none"]
  /\ child = [j \in Jobs |-> NoTicket]
  /\ busy = {}
  /\ feed = [j \in Jobs |-> "none"]
  /\ runningJobId = NoJob
  /\ closing = NoJob
  /\ deletePhase = [d \in Deletes |-> "idle"]
  /\ deleteJob = NoDelete

-----------------------------------------------------------------------------
(* Helpers.                                                                 *)

TurnStarts == Idle /\ closing = NoJob

isDeleteRunning == \E d \in Deletes : deletePhase[d] = "running"

\* Mutant: the latch looks at the status and not at the child.
isClusteringRunning_StatusOnly ==
  runningJobId \in table /\ status[runningJobId] = "running"

\* The latch: a job is running, or canceled with its child not yet reaped.
isClusteringRunning ==
  /\ runningJobId \in table
  /\ status[runningJobId] = "running" \/ child[runningJobId] # NoTicket

chronicleChildRunning ==
  \E i \in Tickets : laneOf[i] = DescribeLane /\ work[i] \in {"child", "orphan"}

\* A job id that nothing in the process refers to any more.
FreshJobs ==
  {j \in Jobs : /\ j \notin table \cup busy
                /\ child[j] = NoTicket
                /\ \A k \in DOMAIN queue : queue[k] # j}

\* Finished jobs leave a table that has grown past HIGH, down to LOW.
Evicted(E) ==
  LET finished == {j \in table : status[j] # "running"}
  IN  /\ E \subseteq finished
      /\ IF Cardinality(table) > JOBS_HIGH
         THEN Cardinality(table \ E) = JOBS_LOW \/ (E = finished /\ Cardinality(table \ E) > JOBS_LOW)
         ELSE E = {}

\* The ticket granted by this step, if the governor granted one.
GrantedTicket(j) ==
  \E i \in Tickets : held' = held \cup {i} /\ i \notin held /\ child' = [child EXCEPT ![j] = i]

\* Mutant: a row that the reaper has taken is left as it is, as by a heartbeat.
finishRow_WhileRunning(row) == IF row = "open" THEN "closed" ELSE row

\* publishTerminal, finish(): the row becomes terminal, whatever it was.
finishRow(row) == "closed"

\* The new job's state: in the table as s, its feed row as f.  Of an evicted job
\* the process keeps no more than that it is not running.
NewJob(j, k, s, f) ==
  \E E \in SUBSET table :
    /\ Evicted(E)
    /\ table' = (table \ E) \cup {j}
    /\ kind' = [x \in Jobs |-> IF x = j THEN k ELSE IF x \in E THEN "none" ELSE kind[x]]
    /\ status' = [x \in Jobs |-> IF x = j THEN s ELSE IF x \in E THEN "none" ELSE status[x]]
    /\ feed' = [x \in Jobs |-> IF x = j THEN f ELSE IF x \in E THEN "none" ELSE feed[x]]
    /\ runningJobId' = IF s = "running" THEN j ELSE NoJob

-----------------------------------------------------------------------------
(* Generate.                                                                *)

\* The guards of startClusteringJob that change nothing when they refuse: the
\* kill switch and the disk guard may refuse at any time, and then nothing is
\* started; the others are:
MayStart(j) ==
  /\ TurnStarts
  /\ j \in FreshJobs
  /\ ~isClusteringRunning

\* Admitted at once: launch() spawns the child and binds it to the ticket.
StartGenerate(j) ==
  /\ MayStart(j) /\ ~isDeleteRunning
  /\ NewJob(j, "generate", "running", "open")
  /\ grant(QueueLane, "child")
  /\ GrantedTicket(j)
  /\ UNCHANGED <<probeVars, queueVars, busy, closing, deleteVars>>

\* Admitted, but spawn throws: the job ends in error and its row is closed.
StartGenerateFails(j) ==
  /\ MayStart(j) /\ ~isDeleteRunning
  /\ NewJob(j, "generate", "error", "closed")
  /\ AdmitSpawnFails(QueueLane)
  /\ UNCHANGED <<child, busy, closing, deleteVars>>

\* Refused: the job stays "running" and its retry is parked, or coalesced onto
\* an entry that is parked already.
ParkGenerate(j) ==
  /\ MayStart(j) /\ ~isDeleteRunning
  /\ NewJob(j, "generate", "running", "open")
  /\ AdmitOrQueue(j)
  /\ UNCHANGED <<child, busy, closing, deleteVars>>

\* The parked retry runs when the slot frees, in the turn that freed it.
RetryLaunches ==
  /\ ~Idle /\ status[pending] = "running"
  /\ grant(QueueLane, "child")
  /\ GrantedTicket(pending)
  /\ pending' = NoWaiter /\ wakes' = 0
  /\ UNCHANGED <<queue, spun, probeVars, table, kind, status, busy, feed, runningJobId, closing, deleteVars>>

RetryParksAgain ==
  /\ ~Idle /\ status[pending] = "running"
  /\ Refuse(QueueLane) /\ queueForResident(pending)
  /\ UNCHANGED <<probeVars, jobVars, deleteVars>>

RetrySpawnFails ==
  /\ ~Idle /\ status[pending] = "running"
  /\ WaiterSpawnFails
  /\ status' = [status EXCEPT ![pending] = "error"]
  /\ feed' = [feed EXCEPT ![pending] = finishRow(@)]
  /\ runningJobId' = IF runningJobId = pending THEN NoJob ELSE runningJobId
  /\ UNCHANGED <<table, kind, child, busy, closing, deleteVars>>

RetryFindsJobCanceled ==
  /\ ~Idle /\ status[pending] # "running"
  /\ WaiterDeclines
  /\ UNCHANGED <<jobVars, deleteVars>>

-----------------------------------------------------------------------------
(* Measure and Backfill.                                                    *)

StartMeasure(j) ==
  /\ MayStart(j) /\ ~isDeleteRunning
  /\ NewJob(j, "measure", "running", "open")
  /\ grant(MeasureLane, "child")
  /\ GrantedTicket(j)
  /\ UNCHANGED <<probeVars, queueVars, busy, closing, deleteVars>>

StartMeasureFails(j) ==
  /\ MayStart(j) /\ ~isDeleteRunning
  /\ NewJob(j, "measure", "error", "closed")
  /\ AdmitSpawnFails(MeasureLane)
  /\ UNCHANGED <<child, busy, closing, deleteVars>>

\* Refused: job and feed row are cleaned up, the caller is told "busy".
MeasureBusy(j) ==
  /\ MayStart(j) /\ ~isDeleteRunning
  /\ Refuse(MeasureLane)
  /\ \E E \in SUBSET table :
       /\ Evicted(E)
       /\ table' = table \ E
       /\ kind' = [x \in Jobs |-> IF x \in E THEN "none" ELSE kind[x]]
       /\ status' = [x \in Jobs |-> IF x \in E THEN "none" ELSE status[x]]
       /\ feed' = [x \in Jobs |-> IF x \in E THEN "none" ELSE feed[x]]
  /\ runningJobId' = NoJob
  /\ UNCHANGED <<probeVars, queueVars, child, busy, closing, deleteVars>>

\* A backfill runs inside this process, without child, ticket or feed row.  It
\* does not look at the delete lane, and does not evict.
StartBackfill(j) ==
  /\ MayStart(j)
  /\ kind' = [kind EXCEPT ![j] = "backfill"]
  /\ status' = [status EXCEPT ![j] = "running"]
  /\ feed' = [feed EXCEPT ![j] = "none"]
  /\ table' = table \cup {j}
  /\ runningJobId' = j
  /\ busy' = busy \cup {j}
  /\ UNCHANGED <<vars, child, closing, deleteVars>>

\* Its last statement and finally block; a cancel has not stopped it.
BackfillEnds(j) ==
  /\ TurnStarts
  /\ j \in busy
  /\ \E s \in {"done", "error"} :
       status' = [status EXCEPT ![j] = IF j \in table THEN s ELSE @]
  /\ busy' = busy \ {j}
  /\ runningJobId' = IF runningJobId = j THEN NoJob ELSE runningJobId
  /\ UNCHANGED <<vars, table, kind, child, feed, closing, deleteVars>>

-----------------------------------------------------------------------------
(* Cancel and completion.                                                   *)

\* reap(): a row without a heartbeat for 45 s.  Only a launched job sends any; a
\* parked one does not, and one that is launched late cannot take its row back.
\* By the wall clock a machine that slept makes a launched job's row stale, too.
Reap(j) ==
  /\ TurnStarts
  /\ feed[j] = "open"
  /\ feed' = [feed EXCEPT ![j] = "abandoned"]
  /\ UNCHANGED <<vars, table, kind, status, child, busy, runningJobId, closing, deleteVars>>

\* cancelJob(): the status at once, the child by signal; a parked job has none,
\* and its retry stays in the queue.
Cancel(j) ==
  /\ TurnStarts
  /\ j \in table /\ status[j] = "running"
  /\ status' = [status EXCEPT ![j] = "canceled"]
  /\ UNCHANGED <<vars, table, kind, child, busy, feed, runningJobId, closing, deleteVars>>

\* 'close' or 'error' of a job's child: the governor's listener comes first.
JobChildCloses(j) ==
  /\ TurnStarts
  /\ child[j] # NoTicket
  /\ ChildCloses(child[j])
  /\ closing' = j
  /\ UNCHANGED <<table, kind, status, child, busy, feed, runningJobId, deleteVars>>

\* finish(): the handle and, if it is still this job's, the latch.
Finish(j) ==
  /\ child' = [child EXCEPT ![j] = NoTicket]
  /\ runningJobId' = IF runningJobId = j THEN NoJob ELSE runningJobId
  /\ closing' = NoJob

\* The close handler of a run that failed or was canceled.
CloseHandler(j) ==
  /\ closing = j /\ Idle
  /\ status' = [status EXCEPT ![j] = IF @ = "canceled" THEN @ ELSE "error"]
  /\ feed' = [feed EXCEPT ![j] = finishRow(@)]
  /\ Finish(j)
  /\ UNCHANGED <<vars, table, kind, busy, deleteVars>>

\* Mutant: the handler releases the slot's holder, whoever it is by now.
CloseHandlerDone_ReleasesHolder(j) ==
  /\ closing = j /\ Idle
  /\ status[j] # "canceled"
  /\ status' = [status EXCEPT ![j] = "done"]
  /\ feed' = [feed EXCEPT ![j] = finishRow(@)]
  /\ Finish(j)
  /\ held' = {}
  /\ UNCHANGED <<laneOf, preemptedBy, beat, work, refusals, probeVars, queueVars>>
  /\ UNCHANGED <<table, kind, busy, deleteVars>>

\* The close handler of a run that exited 0.  A Generate goes on to narrate its
\* chronicles, in the slot that its own child has just left.
CloseHandlerDone(j) ==
  /\ closing = j /\ Idle
  /\ status[j] # "canceled"
  /\ status' = [status EXCEPT ![j] = "done"]
  /\ feed' = [feed EXCEPT ![j] = finishRow(@)]
  /\ Finish(j)
  /\ \/ /\ kind[j] = "generate" /\ ~chronicleChildRunning
        /\ Admit(DescribeLane) \/ AdmitSpawnFails(DescribeLane)
     \/ /\ kind[j] = "measure" \/ chronicleChildRunning
        /\ UNCHANGED vars
  /\ UNCHANGED <<table, kind, busy, deleteVars>>

\* The error handler: it publishes nothing for a canceled job.
ErrorHandler(j) ==
  /\ closing = j /\ Idle
  /\ status' = [status EXCEPT ![j] = IF @ = "canceled" THEN @ ELSE "error"]
  /\ feed' = [feed EXCEPT ![j] = IF status[j] = "canceled" THEN @ ELSE finishRow(@)]
  /\ Finish(j)
  /\ UNCHANGED <<vars, table, kind, busy, deleteVars>>

-----------------------------------------------------------------------------
(* The bulk delete route.                                                   *)

\* POST /data/delete passes its first checks and awaits narrationRunning().
AskDelete(d) ==
  /\ TurnStarts
  /\ deletePhase[d] = "idle"
  /\ deleteJob # NoDelete => deletePhase[deleteJob] # "running"
  /\ deletePhase' = [deletePhase EXCEPT ![d] = "asked"]
  /\ UNCHANGED <<vars, jobVars, deleteJob>>

\* The await returns: a narration walk is running, or the lane is taken.
DeleteRefused(d) ==
  /\ TurnStarts
  /\ deletePhase[d] = "asked"
  /\ deletePhase' = [deletePhase EXCEPT ![d] = "idle"]
  /\ UNCHANGED <<vars, jobVars, deleteJob>>

BeginDelete(d) ==
  /\ TurnStarts
  /\ deletePhase[d] = "asked"
  /\ deletePhase' = [deletePhase EXCEPT ![d] = "running"]
  /\ deleteJob' = d
  /\ UNCHANGED <<vars, jobVars>>

EndDelete(d) ==
  /\ TurnStarts
  /\ deletePhase[d] = "running"
  /\ deletePhase' = [deletePhase EXCEPT ![d] = "idle"]
  /\ UNCHANGED <<vars, jobVars, deleteJob>>

-----------------------------------------------------------------------------
(* Everything else the governor does.                                       *)

OtherAdmit(l) ==
  /\ TurnStarts
  /\ l = DescribeLane => ~chronicleChildRunning
  /\ Admit(l) \/ AdmitSpawnFails(l)
  /\ UNCHANGED <<jobVars, deleteVars>>

OtherTicket(i) ==
  /\ TurnStarts
  /\ \/ Release(i) \/ Heartbeat(i) \/ ChildExits(i)
     \/ LeaseLapses(i) \/ LeaseReclaims(i)
     \/ ChildCloses(i) /\ \A j \in Jobs : child[j] # i
     \/ \E l \in Lanes : Abandon(i, l)
  /\ UNCHANGED <<jobVars, deleteVars>>

Probes ==
  /\ TurnStarts
  /\ ReadPressure \/ RefreshBudget
  /\ UNCHANGED <<jobVars, deleteVars>>

JobsNext ==
  \/ \E j \in Jobs : \/ StartGenerate(j) \/ StartGenerateFails(j) \/ ParkGenerate(j)
                     \/ StartMeasure(j) \/ StartMeasureFails(j) \/ MeasureBusy(j)
                     \/ StartBackfill(j) \/ BackfillEnds(j)
                     \/ Cancel(j) \/ Reap(j) \/ JobChildCloses(j)
                     \/ CloseHandler(j) \/ CloseHandlerDone(j) \/ ErrorHandler(j)
  \/ RetryLaunches \/ RetryParksAgain \/ RetrySpawnFails \/ RetryFindsJobCanceled
  \/ \E d \in Deletes : \/ AskDelete(d) \/ DeleteRefused(d)
                        \/ BeginDelete(d) \/ EndDelete(d)
  \/ \E l \in Lanes \ {QueueLane, MeasureLane} : OtherAdmit(l)
  \/ \E i \in Tickets : OtherTicket(i)
  \/ Probes

JobsSpec == JobsInit /\ [][JobsNext]_allVars

\* Calls on the stack and handlers of the same event run; every owner of a
\* ticket ends and a leaked ticket's lease lapses (that children without a kill
\* timer end by themselves is an assumption).  Nobody is assumed to ask for
\* anything.
TicketEnds(i) ==
  \/ OtherTicket(i) /\ (Release(i) \/ ChildCloses(i))
  \/ OtherTicket(i) /\ work[i] = "none" /\ (LeaseLapses(i) \/ LeaseReclaims(i))

JobsFairness ==
  /\ WF_allVars(RetryLaunches \/ RetryParksAgain \/ RetrySpawnFails \/ RetryFindsJobCanceled)
  /\ \A j \in Jobs : /\ WF_allVars(CloseHandler(j) \/ CloseHandlerDone(j) \/ ErrorHandler(j))
                     /\ SF_allVars(JobChildCloses(j))
                     /\ SF_allVars(BackfillEnds(j))
  /\ \A i \in Tickets : SF_allVars(TicketEnds(i))

JobsFairSpec == JobsSpec /\ JobsFairness

-----------------------------------------------------------------------------
(* Safety.                                                                  *)

\* Single flight: a job that is running, or whose child is not yet reaped, owns
\* the latch and is in the table, so two pipeline children never write to the
\* vault together and an eviction never loses a live one - through cancel and
\* restart, parked retries, failed spawns and lease reclaims.
SingleFlight ==
  \A j \in Jobs : child[j] # NoTicket \/ (j \in table /\ status[j] = "running")
                    => runningJobId = j /\ j \in table

\* A parked retry belongs to a job that has not been launched, so waking it
\* cannot start the same Generate twice.
ParkedOnce ==
  \A k \in DOMAIN queue : child[queue[k]] = NoTicket /\ queue[k] # pending

\* The activity feed, as far as it can be believed: a row that its job closed means
\* that the job has ended and its child is gone; and a job that ended by itself has
\* closed its row, also when the reaper had taken it for dead while it waited for
\* the slot or worked.  A row that the reaper abandoned says nothing of its job.
FeedTellsTheTruth ==
  \A j \in table \ {closing} :
    /\ feed[j] = "closed" => status[j] # "running" /\ child[j] = NoTicket
    /\ kind[j] # "backfill" /\ status[j] \in {"done", "error"} => feed[j] = "closed"

\* The job table, its parked entries and the feed agree.
JobsInv == JobsTypeOK /\ ParkedOnce /\ FeedTellsTheTruth

\* The runner uses the governor within its contract: each of its turns is one
\* turn of ComputeGovernor, or leaves the governor alone.
UsesGovernor == Spec

\* "portal-data.js already refuses to START a delete while a Generate runs":
\* with the guard in startClusteringJob, no delete runs beside a pipeline child.
DeleteExcludesPipeline ==
  isDeleteRunning => \A j \in Jobs : child[j] = NoTicket

-----------------------------------------------------------------------------
(* Liveness, under JobsFairSpec.                                            *)

\* A parked Generate is launched or ends once its retry is the queued one,
\* through cancels, reclaims and memory pressure (or the retry was lost to a
\* drain chain that overflowed the stack).
ParkedRetryRuns ==
  \A j \in Jobs : ((\E k \in DOMAIN queue : queue[k] = j) /\ status[j] = "running")
                    ~> (status[j] # "running" \/ child[j] # NoTicket \/ spun)

\* "A user-initiated Generate MUST eventually run": every Generate that was
\* accepted is launched or ends.
GenerateEventuallyRuns ==
  \A j \in Jobs : (kind[j] = "generate" /\ status[j] = "running")
                    ~> (status[j] # "running" \/ child[j] # NoTicket)

=============================================================================
