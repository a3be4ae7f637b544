# Mycelium: formal models of the vault, its pipelines and its messengers

This directory holds TLA+ specifications of Mycelium (the repository under
`src/`; paths below are relative to its `src/` directory unless they start with
`packages/`, `pipeline/` and so on), the TLC configurations that check
them on small instances, and TLAPS proofs of the safety properties for every
value of the constants. `PROJECT.json` lists components, runs, mutants, the
source lines behind each definition, hazards and theorems.

Check a run with `tlc -config MCVaultLease.cfg MCVaultLease`, a proof with
`tlapm VaultLocksProofs.tla`.

## 1. The system

Mycelium is a self-hosted memory for AI models: a Node server that ingests
conversations and notes into one encrypted SQLite file (the vault), enriches and
clusters them with local models, and serves them over MCP and REST. The desktop
shell (`src-tauri`) spawns two Node siblings by design, `server-rest.js` and a
remote MCP; pipeline stages are further child processes; and any other MCP client
can start `node src/index.js` on the same vault. So there are two kinds of
concurrency: independent processes around one file, and event-loop turns and
child processes around one scarce GPU or memory.

| Component | State | Operations | What makes it hard | Correct when |
|---|---|---|---|---|
| Compute governor, `core/compute-governor.js` | ticket table, refusal counters, cached pressure and budget, queue of waiters, lease timers | admit, release, heartbeat, bind a child, lease expiry, queue and drain, preempt and withdraw | callbacks nested in callbacks, timers racing children, leaked tickets | one model is loaded at a time, nobody loses its slot while its child runs, nobody waits beside a free slot |
| Pipeline job runner, `jobs.js` | job table, single-flight latch, child handles, activity-feed rows | Generate, Measure, Backfill, cancel, close and error handlers, parked retry | the close handler of one job can launch the next one inside the governor's own handler; cancel is a signal | one pipeline child at a time, every accepted Generate runs, what the jobs write to the feed is true |
| Delete lane, `core/delete-lane.js`, `portal-data.js` | count of running deletes, the remembered job | start and end a bulk delete | an await between check and claim | no delete beside a pipeline |
| Vault lease and mode bits, `db/vault-lease.js`, `db/vault-mode.js` | kernel lock on the lease file, metadata file, presence files, mode bits of the vault | claim, inherit, take over, probe, join, leave, seal, release | each step is a system call that another process can interleave with; SIGKILL anywhere | one family owns the vault, children never do, the vault is read-only when nobody uses it |
| Writer lock, `db/writer-lock.js` | lock file with pid, start time and family | acquire, ride, reclaim, refuse, release | create, write, read and unlink are separate calls; stale files | one family writes |
| Migration lock, encryption and first open, `db/init.js`, `account/db-cipher-migrate.js` | lock file, the vault file, its temp copy and its plaintext original | publish, wait, steal, migrate, encrypt, swap, purge | two waiters steal the same dead lock; a crash between any two file operations | one process initialises, no row of the vault is lost, no plaintext stays that could be removed |
| Boot and halt markers, `index.js`, `db/vault-halt.js` | marker files, integrity verdicts | check, quarantine, refuse, recover | crash between marker and action | a damaged vault is not written to |
| Narration runs, `jobs.js:904-1139`, `agent/narration-walk.js` | `narration_runs` rows, the latch, the walk in memory | start, pause, resume, cancel, turn, progress write, finish | rows outlive the process; the owner's words arrive during a turn | one walk at a time, the checkpoint and the badges are true |
| Transcription lane, `enrich/transcribe-attachment.js` | wait loop on the governor | admit, wait, withdraw | preempts a changing holder | no holder keeps yielding to nobody |
| Enrichment drainer, `enrich/drainer.js`, `enrich/service.js`, `enrich/derived-text.js`, `db/messages.js` | columns of each message, attempts, back-off, per-cycle sets | select, embed, judge, label, extract, self-heal, reclaim | the owner writes between a select and its writes; an outage looks like bad rows | rows tell the truth about themselves, none falls between queues, a bad head does not block the rest |
| Connectors, `connectors/` | a row (status, cursor, streak, budget), tokens and the handshake apart | connect, callback, timer and manual sync, refresh, disconnect | stale state across awaits; a source that shows one page at a time | the cursor is earned, disconnect is final, items arrive |
| Federation, `federation/`, `db/connections.js` | connection rows, owed acceptances, outgoing messages, seen nonces | request, accept, block, withdraw, send, pull, dispatch, mark, acknowledge, retry | at-least-once delivery over two transports, crashes between the steps | a message takes effect once, an acceptance reaches the asker, a block is final |
| Agent scheduler, `agent/scheduler.js` and its helpers, `db/harness.js` | scheduled tasks, the lane, the executing set, retries, the floor | tick, hold, run, deliver, re-arm, retry, the owner's edits | the floor changes during a turn; the lane runs a row read long ago | no double or misplaced turn, no promise forgotten |
| Channel daemon, `packages/channel-daemon` | poll offset, dedup window, lanes, media queue | poll, coalesce, run, send | redelivery, timeouts, rate limits | one answer per message |
| Backup, restore, destruction, `account/`, `system/` | snapshots, sidecar files | copy, verify, swap, wipe | a crash between two steps | one good vault at every moment |
| The rest (crypto, search, ingest, inference, identity and auth, tools and REST, analysis, portal, mobile, shell) | see `PROJECT.json` | | mostly data, numerics or I/O | |

How the modelled parts interact. A process claims the lease (`index.js`,
`db/index.js:112`) and then takes the writer lock (`db/index.js:118`) before it
opens the vault. The app's job runner asks the governor for a ticket before it
spawns a pipeline child, binds the child to the ticket, and hands it the family
token and the role `child` (`jobs.js:299-303`), by which the child passes both
locks and may own neither. The governor calls back into the runner when it
drains its queue; the runner asks the delete lane before it starts a job. A narration walk
holds the governor's resident slot, the drainer asks the governor before it
embeds and before it labels; both stand back from a full-export import, which
writes messages itself. Agent turns stand back from it too.

## 2. Modules

| Module | Models | Extends |
|---|---|---|
| `ComputeGovernor` | `core/compute-governor.js` and the way its callers use tickets | |
| `GenerateJobs` | `jobs.js:165-613`, the delete lane and route, the feed's rows (`db/activity-feed.js`) | `ComputeGovernor` (same variables) |
| `VaultProcesses` | the processes that open a vault, and their families | |
| `VaultLease` | `db/vault-lease.js`, `db/vault-mode.js` | `VaultProcesses` |
| `WriterLock` | `db/writer-lock.js` | `VaultProcesses` |
| `VaultInit` | `db/init.js`, `account/db-cipher-migrate.js`, the keyed open of `index.js` | |
| `EnrichmentDrainer` | the message stages of `enrich/drainer.js` and `enrich/service.js`, the statements of `db/messages.js` they share with the owner's | |
| `NarrationRuns` | `jobs.js:904-1139`, `agent/narration-walk.js` | |
| `ConnectorSync` | `connectors/scheduler.js`, `connectors/store.js`, what `connectors/adapters/gmail.js` and `linear.js` return, `portal-connectors.js` | |
| `Federation` | `db/connections.js`, `federation/pull-loop.js`, `handlers.js`, `relay-queue.js` | instantiates `PeerMail` |
| `PeerMail` | what federation promises about direct messages: the abstract specification | |
| `AgentScheduler` | `agent/scheduler.js`, `lane.js`, `turn-taking.js`, `cycle-output.js`, `db/harness.js` | |
| `MC...` | constants for TLC | the module of that name |
| `...Proofs` | inductive invariants, theorems, proofs | the module of that name; `GenerateJobsProofs` has the governor's too, `VaultLocksProofs` those of the lease and the writer lock |

**ComputeGovernor.** `held` is the keys of `_tickets`, `laneOf`, `preemptedBy`
and `beat` the fields of a ticket, `refusals`, `queue` the maps of the same
purpose. Ticket ids in the code are unique for ever; here they are a pool, and an
id is reused only when its owner has ended. `work` is not a variable of the code:
it says what the owner of a ticket is really doing, in process (`inproc`), as a
live child (`child`), as an exited child whose descendants keep its pipes open
(`orphan`: `exitCode` is set but 'close' has not fired), or nothing (`none`: an
owner that threw between admission and its work). It is what lets a property
speak of real double use, rather than of the table's view of it. One action is
one turn of the event loop. A drained waiter runs inside the turn that
released, so `pending` names a waiter on the stack and blocks all other actions;
`wakes` counts the waiters run in the turn, and when their nesting reaches
`StackDepth` the stack overflows, which the code's `catch` turns into a lost
waiter (`spun`). Time is abstracted: `LeaseLapses` says that a lease passed
without a heartbeat, `ReadPressure` and `RefreshBudget` that a cached value was
renewed.

**GenerateJobs.** A job is the governor's waiter of the same name. Every action
of the runner conjoins the governor's action and its own changes. The governor
binds its close listener before the runner does, so `JobChildCloses` is the
governor's half of the event, then `Retry...` may run a parked job, then
`CloseHandler`, `CloseHandlerDone` or `ErrorHandler` of the first job; `closing`
remembers it. A parked job is "running" without a child, as in the code. The
feed row and the `pipeline_runs` row are one variable because they are written
together. `Reap` is the feed's reaper, which any poll runs and which turns a running
row without a heartbeat into an abandoned one; a parked job sends none, so its row is
fair game from the moment it is written, and `finishRow` writes over it when the job
ends. The delete route is split at its `await`.

**VaultLease.** Each process is a program counter; an action is one system call
or the synchronous code between two. `lock` is SQLite's exclusive lock on the
lease file, which the kernel drops on a kill; `meta` is the metadata file, which
it does not drop. The claim is `Claim`, `BusyReadsMeta` (retry, inherit or refuse),
`PublishMeta` or `PublishFails`, `Join`, `unlockVaultFiles`. A presence file is created
and then locked, each of which may fail in silence (`CreatePresence`, `LockPresence`,
`PresenceFails`): `dir` is the files that have their names, `held` who locks them, named
or not, `mine` each process' own. Whoever leaves scans the presences (`Scan`): it reads
the directory once, then takes each file's lock, rolls back and unlinks, one system
call at a time, or meets a lock it cannot have and gives up; a directory or file it
cannot read makes it give up as well (`doubted`). `visible` remembers who locked its
file while that had its name and no scan was about to unlink it, `seen` which of
those a scan had before it, until they leave. A probe of a file whose name is gone
makes an empty file and unlinks it, and is passed over; closing and unlinking one's own
presence is one step. An owner leaves twice, in `release()` and in the
exit listener (`exited`), in either order. A process that took over
("successor") has no release function held by anyone. Kinds: `app` claims,
`child` probes, `tool` runs with the lease disabled, `stranger` opens the file
without considering it the canonical vault, joins, and never seals. The vault is an
encrypted one; the mode of a plaintext vault is never changed (`db/vault-mode.js:128`).

**WriterLock.** A lock file is known by its creator, which is enough since a
process has at most one at a time. `named` says that the file contains its
creator's pid. A write goes to the creator's file even if its name has been taken
away; an unlink takes whatever file has the name. `settled` remembers who wrote itself
into a file that had the name while nobody was about to unlink it. Claims of
different processes overlap as they like. `dead` covers zombies; the pid
and start time comparison is modelled by what it decides, whether the holder is
alive. A process passes both locks, so the two modules share `VaultProcesses` and no
names (`place` beside the lease's `pc`, `LockSpec` beside `Spec`): they can be extended
together, as the proofs do.

The modules below share two conventions. SQLite is opened synchronously and all
tables but `secrets` are read and written without decryption outside it, so a
chain of SQL statements that waits for nothing else runs to its end before any
other handler: a step ends where the code waits for the network, a model, a
timer or the secrets table. And a history variable (marked "history" where it is
declared) is read by properties only, never by a guard, except where a bound
needs it: once two of its owner's operations have overlapped, `ConnectorSync`'s
owner begins nothing more.

**VaultInit.** Processes boot into one directory. `lock` is the creator of
`.vault-init.lock`, `named` whether it has its pid in it (with hard links it
appears complete, without them it is created and written in two steps), `db`,
`tmp` and `pre` are the vault, `<db>.cipher-tmp` and the `.pre-cipher-*` files,
each with a kind and the rows of the owner it holds. `pc` walks through
`acquireLock`, `applySchemaAndMigrations`, `ensureVaultEncrypted` (clear, copy,
rekey, parity, the two renames of the swap as `aside` and `swap`), `releaseLock`,
the keyed open and `purgePlaintextBackup`; each file operation is a step. `Crash`
is possible anywhere, `Throws` wherever an operation can fail; what the code fails to
remove stays (`clearTemp`, `purgeChecks`, `purgeDeletes`), and `kept` remembers what the
last purge left. A killed process is a zombie, which the code takes for alive, until its
parent has waited for it (`Reap`). Waiting ends in `GiveUp` (the deadline) or in two
steps, `FindStale` and `Steal` (the unlink), and any number of waiters may be between
them: `outrun` is those whose judgement another's unlink has overtaken, `mistaken` that one
of them has removed a lock it never judged. `wrote` is everything the owner put into a
vault that was served.

**EnrichmentDrainer.** `row` has the columns of `messages` that these stages use:
`nlp` (`nlp_processed`), `mark` and `n` (what `nlp_error` says and its counter),
`cat`, `vec`, `text`, `forgotten`. A text is a revision number, a vector the
revision it was computed from. One action of the cycle is one pass of
`drainOnce`'s phases: the select, one row's embedding and write, the judging of
the rows that came back empty, and the same for labels and extraction; `pc` says
where the cycle is and `todo`, `seen`, `prior` what the pass has in hand. The
owner's actions (`updateContent`, `markForReembed`, `redact`, retry, an import's
vectors) fall between; a message changed while a writer had it in hand is put in
`overwritten`, since the code loses such a change (section 3). A transcript is two
calls, `DerivedText` on the attachment and then `Requeue` of its message, which may come
any time later or be lost (`RequeueLost`, a restart): `requeues` counts the calls under
way, `missed` remembers the messages whose vector was left behind. `nature` says how
the service will answer for a message while it is up: good, slow (only when
alone), poison (never), misfit (a vector of the wrong length), blank.

**NarrationRuns.** A walk is a record with its item, its own done set, the wires
its turns used and what it has achieved; `status`, `doneIds`, `device`, `counted`
are the row of a run. The owner's actions are single steps and may fall into a
turn. Every segment begins with a worklist of its own, any set of the entities:
clustering changes it between two segments, and a query that fails is an empty one
(`buildWorklist`). `walk` has room for two walks so that a second one could be seen.

**ConnectorSync.** The row (status, cursor, idle streak, budget), the tokens and
the handshake are three variables because the code keeps them in three places.
`runSync` is `ManualSync` or `cycle` (reads the row), `Enter` (checks that no
pass runs), `PassStep` (sets syncing, reads the tokens, pulls, writes back: the
write-back reads the row, waits for the secrets table and then writes), and
linking and disconnecting are cut at the same places. A pull gets `Listed`, the newest
`PAGE_SIZE` items past the cursor, without those that could not be fetched one by one
(`Pulls`), captures them up to the cap, and goes on behind the newest (`nextCursor`).
Gmail lists newest first and refuses single items; that Linear's page, asked for in the
order of `updatedAt`, is its newest too is an assumption. `skipped` remembers the
items that a newer one of their pass left behind, `torn` that a crash came between a
link's two writes, tokens and row. The seconds of Gmail's `after:` and the millisecond it adds to
the cursor of an idle pass are not modelled, nor the mock adapter.

**Federation.** Two boxes, `init` which asks and `resp` which is asked. A delivery
under way is a record in `flight`; it reaches the relay (`mail`, `relay`), or,
when that fails, the peer's direct handler, or is lost. The pull loop is `Pull`,
`handleOne` or `DropUnopened` for each envelope in any order (eight workers),
`Ack`, and then the two outboxes. Nonces are those of the rows they are drawn
for. `MailIsKept` maps these variables to `PeerMail`: `status` is the sender's row
with `sending` and `failed` both read as sent, `held` what the relay has.

**AgentScheduler.** Two kinds of task, one-off and cycle. A tick takes due tasks
into the lane; `SkipFire`, `HoldFire` and `BeginTurn` are the ways a task leaves
the head of the lane, `TurnSpeaks`, `TurnIsSilent` and `TurnFails` the ways a turn
ends. The floor is `free`, `fresh` (a question is open) or `stale` (older than
`DEFAULT_HOLD_MS`); only a fresh one holds.

## 3. Runs

Passing runs (all listed in `PROJECT.json`):

| Run | Instance | Distinct states | Shows |
|---|---|---|---|
| `governor` | 5 lanes (two resident of which one resolves keys late, one interactive, two bulk), 2 tickets, 1 waiter, two budgets, three pressures | 52k | `SlotBound`, `RunningChildKeepsTicket`, `DoubleUseOnlyAfterReclaim`, `NoLostWakeup`, `GrantsFitMemory` (budget and pressure at every grant); liveness `TicketsReturn` (leaked, and of hung children), `QueuedWaiterRuns` |
| `jobs` | 2 jobs, 2 tickets, 1 delete, a table that evicts at every start, a reaper | 137k | `SingleFlight`, `JobsInv` (types, a parked job is launched once, what jobs write to the feed is true), that the runner refines the governor (`UsesGovernor`); liveness `ParkedRetryRuns` |
| `vault_lease` | two siblings and a tool, 3 presence files; 1 kill | 2.9M | `NobodySeenIsSealedOut`, `LastOneOutSeals` |
| `lease_liveness` | two siblings, their child, a stranger, no presence file to be had; 1 kill | 163k | `ChildNeverOwns`, `OwnerNotMisnamed`; liveness `OwnerlessHeals` |
| `writer_lock` | 3 processes of 2 families, any overlap of claims, any kills | 86k | `HolderIsReal`, `SettledHolderKeeps`; liveness `DeadHolderReclaimed` |
| `vault_init` | 3 processes, 2 items, any kills, up to the first mistaken steal | 181k | `OneInitialiser`, `VaultInv` (every row is in some file, and in the one that is served), `NoPlaintextBeside`; liveness `DeadHolderReplaced` |
| `enrichment` | 2 messages of 3 mixes of natures, 3 events of the owner or the machine, 1 import | 6.1M | `DrainerInv` (rows tell the truth, none is stranded), `AttemptsAreKept` |
| `enrichment_liveness` | 3 messages, two that never embed ahead of a good one among the mixes, batches of 2, 1 event | 361k | `OutageCostsOneRow`; liveness `HeadsDoNotWedge` |
| `federation` | a request, its acceptance and 1 message over 2 envelopes (the rest goes directly) and a pull window of 2; 1 row a box, 1 fault, 1 change of mind | 1.9M | `FederationInv` (an acceptance is on its way), `MailIsKept` (the refinement of `PeerMail`), `BlockSticks` |
| `narration` | 2 runs, 2 entities on all their lists together, 1 fault | 9.7M | `NarrationInv` (one walker, an honest checkpoint), `BadgesAreTrue`, `NothingRedone` |
| `connectors` | 1 account, 2 grants, 2 items, pages of 1, 1 fault | 741k | `ConnectorInv` (the cursor is earned), `DisconnectSticks`; liveness `ItemsArrive` |
| `agent` | a reminder and an essential cycle, 1 retry, 2 questions, 1 fault | 207k | `AgentInv` (a reminder is completed by a turn or the budget only, cycles stay armed, off fires at most once), `NeverTalksOver`, `OneTurnPerFire`; liveness `TasksConclude` |

Bounds. Two tickets are the slot's holder and a reclaimed owner that still runs,
or two bulk lanes that together fit one budget and not the other; a third one
would be needed to meet `BULK_MAX` (2), so the count of bulk lanes is a guard that
no run reaches, and no property speaks of it. The slot's properties and the budget's
are proved for any number of tickets and of bulk lanes. The queue holds one waiter because it is coalesced by
lane and one lane uses it. Two jobs are a closing and a parked one, or a canceled
one with its stale entry and a newcomer; the table's limits (50 and 25 in the
code) are 0, so finished jobs are evicted on every start. For the lease, two
siblings and one process that does not claim are the smallest cast with an owner, an
inheritor and somebody who outstays both, and one kill is enough to leave stale metadata; the proofs have no
such bound. `CLAIM_RETRIES` is 1: one retry and its exhaustion. The presence files
multiply the states, so what does not depend on them is asked in a run that has none
(`lease_liveness`: every registration fails). Three files are one for each of three
processes, and as a name that was reaped is fresh again the pool does not run out.
Siblings and names of files are interchangeable (`SYMMETRY`); no run with a liveness
property uses symmetry. A second launch of the app appears in the configurations of
the table below and in the theorems, which are for any families. In the writer lock
every process may die, so its run does not check for deadlock; three processes are a
holder, one that reclaims and one that comes between.

The other instances. Three processes are a holder, a thief and a bystander of the
init lock; two items are one written before and one after an encryption. Its run ends
at the first mistaken steal (`CONSTRAINT UpToMistake`), since every property excepts
what follows one; any number of waiters may be about to steal until then. Two messages are the
least for which an empty answer can be told from an outage, three with batches of
two let two bad heads fill a batch; three events are an edit, an outage and its
end. For federation one message suffices because messages meet only in the pull
window, which two envelopes fill; which payloads travel in them, and whether one is a
second copy of the other, is open, and every other delivery takes the direct path.
One row a box leaves out a second request after a withdrawal: `FederationRows.cfg` has
two rows and one envelope, and passes as well (2.8M states).
Two runs of narration compete for one latch; two entities are one in the checkpoint
and one to come, and the run explores two runs over one each and one run over both
(`CONSTRAINT FewListed`). Two items against
a page of one make the cursor pass an item. The cap of a pass is no smaller than a page,
as in the code, where it is never reached (pages of 25 and 50, a cap of 500); the proofs
cover a smaller one. With two accounts the connector's invariants hold as well (10.3M
states). One retry and its
exhaustion stand for the code's list of back-offs; `MaxAsks` bounds the questions
because an agent that asks for ever does hold a reminder for ever. `CHECK_DEADLOCK` is
off where everybody may be dead or everything may be used up (`writer_lock`,
`vault_init`, `federation`, `narration`, `connectors`).


Disagreements between a comment or a promise and the code. Each has a small
configuration of its own beside the runs, which TLC refutes within seconds;
`tlc -config WriterLockRace.cfg MCWriterLock` prints the trace. They are not in
`PROJECT.json` because they are meant to fail:

| Configuration, module, property | What the text says | What happens |
|---|---|---|
| `GovernorSpin.cfg`, `MCComputeGovernor`, `OneWakePerTurn` | `core/compute-governor.js:254-255`: "Draining one per call — never a while-loop — is what stops a pressure-refused waiter from spinning forever." | A waiter refused for memory pressure beside a free slot re-queues itself, and re-queueing drains (line 249): it recurses within one turn until the stack overflows. |
| `JobsParkedCancel.cfg`, `MCGenerateJobs`, `GenerateEventuallyRuns` | `jobs.js:433-434`: "a user-initiated Generate MUST eventually run" | A Generate coalesced onto a canceled job's parked retry never starts: the closure belongs to the canceled job. |
| `JobsDelete.cfg`, `MCGenerateJobs`, `DeleteExcludesPipeline` | `jobs.js:183-184`: "portal-data.js already refuses to START a delete while a Generate runs" | `portal-data.js:75` asks about narration walks only; a bulk delete starts beside a running Generate. |
| `LeaseWritable.cfg`, `MCVaultLease`, `OwnerWritable` | `db/vault-lease.js:92`: "writable iff someone owns it" | Presences are checked and the mode is changed in two steps (line 305): a vault is sealed under a process that has just claimed it. |
| `LeaseUnseen.cfg`, `MCVaultLease`, `UsersAreSeen` | `db/vault-lease.js:105-107`: "Every process that uses the vault holds an exclusive lock on its own presence file for its lifetime" | A scan that comes between the creation of a presence file (line 122) and its lock (123) finds it free and unlinks it (149): its process uses the vault and no later scan finds it. |
| `LeaseOneFamily.cfg`, `MCVaultLease`, `OneFamily` | `db/vault-lease.js:887`: "two app instances must not share one vault" | A second instance claims before the survivor of a killed owner takes over, and both go on (lines 784, 567). |
| `LeaseSibling.cfg`, `MCVaultLease`, `SiblingProceeds` | `db/vault-lease.js:694-697`: "exactly one wins the lock and the other MUST proceed rather than fail." | After a crash, a sibling is refused on the previous launch's metadata while its own family is mid-claim (line 837). |
| `WriterLockRace.cfg`, `MCWriterLock`, `OneHolder` | `db/writer-lock.js:34-35`: "never steals a LIVE holder" | Two claimants both hold the lock: the file is empty between create and write (line 194), and an empty file is reclaimed (line 208). |
| `VaultStealRace.cfg`, `MCVaultInit`, `NeverStolen` | `db/init.js:137-138`: "reclaims a lock ONLY when its holder is provably gone … A live holder is never stolen, and neither is one that is still being written." | Two waiters both find a dead holder's lock (line 161); the first replaces it, the second unlinks the replacement (line 167), and both initialise. |
| `VaultSwapCrash.cfg`, `MCVaultInit`, `CrashLeavesVault` | `account/db-cipher-migrate.js:11-12`: "a mid-run crash leaves the original plaintext vault intact" | A kill between the two renames (lines 122 and 124) leaves no vault; the next boot makes a fresh one, proves that it opens, and purges the original. |
| `NarrationUnlisted.cfg`, `MCNarrationRuns`, `DoneDidSomething` | `jobs.js:985-989`: a run is to end as error when it produced nothing | A worklist whose query failed is an empty one (`agent/narration-walk.js:39`, `51`), and the run is done with nothing handled (`jobs.js:995-998`). |
| `ConnectorSkips.cfg`, `MCConnectorSync`, `NothingSkipped` | `connectors/adapters/gmail.js:71`: "Incremental by internalDate" | Of two new items beyond a page of one, the newer is pulled and the cursor passes the older (lines 75, 90), which is never asked for again; so is one whose own request fails (83). |

Two more configurations of `MCFederation` pass and are beside the runs only because they
ask the runs' question again, or at another size. `FederationRows.cfg`: a withdrawal
and a second request (90 s). `FederationLiveness.cfg`: under fair deliveries and loops a
retry is delivered or uses up its attempts (`RetriesEnd`), about a minute.

Other deviations of the governor, the job runner and the lease, reachable in the models:

- Narration, naming and discovery children have no kill timer and a live child
  re-arms its lease, so a hung one keeps the slot, although
  `compute-governor.js:189-190` says that MAX_MS bounds it.
- A job canceled while it is parked gets no terminal feed row (`jobs.js:259-260`
  says that every exit path owes one).
- A canceled backfill works on while the latch is free and the next Generate runs
  (`jobs.js:479-480` says that they cannot race).
- A child of a killed app joins on the dead app's metadata while another family is
  mid-claim (`vault-lease.js:961` says that it is refused).
- A releasing owner unlinks the metadata of a successor that published between
  its read and its unlink (`vault-lease.js:939-943`).
- The feed row of a parked job is abandoned after 45 seconds, since only a job that was
  launched sends heartbeats (`jobs.js:358-362`), and says so while the child runs, until
  the job ends; so does a running job's after a suspend that takes longer. `jobs.js:259`
  names the reaper as what closes the rows of jobs that died.
- A registration that fails is swallowed (`vault-lease.js:125`): its process uses the
  vault and nobody who leaves finds it. Of two that leave at once, one may take the
  other's probe of a dead file for a user and give up; the other goes on
  (`LastOneOutSeals`).
- A holder of the writer lock that is between its create and its write, or that writes
  itself into a file another is about to unlink, loses it to a second one
  (`db/writer-lock.js:194`, `208`); `SettledHolderKeeps` speaks of all others.

Deviations of the other modules, found while they were written. Where a property
has an exception (`overwritten`, `missed`, `overlapped`, `torn`, `skipped`, `unwritten`,
`stuck`, `lost`, `unmoored`, `kept`, `mistaken`, `doubted`), this is what it stands for:

- *Enrichment.* Every write of a pass is an UPDATE by id alone, so what the owner
  writes between a pass's select and its write is lost: an edit keeps the vector of
  the old text, a redacted message gets its vector back, a retry's fresh budget is
  overwritten, and a row can end tagged and not embedded, which `db/messages.js:869`
  calls unreachable by every entry point. A cycle that is under way goes on writing during a
  full-export import, whose own vector pass writes onto forgotten and edited
  rows; of two imports the first to finish ends the quiet for both. A blank row is
  set aside and not looked at again when its transcript arrives later. The re-queue of
  a transcript's message is a second call whose failure is swallowed
  (`enrich/derived-text.js:152-154`); if it fails, or a crash comes first, the message
  keeps the vector of its old text (`missed`). The comment at
  `enrich/service.js:318-319` counts one attempt per cycle in the worst case; a row
  judged alone adds a second.
- *Federation.* An envelope whose sender cannot be resolved at the moment is dropped and
  acknowledged, although the sender counts it as delivered and does not send it
  again (`federation/relay-queue.js:66-69` says that its outbox does). A crash inside
  `sendMessage` leaves the row at sending for ever. The debt of an acceptance is
  written by a second UPDATE whose failure is swallowed (`db/connections.js:595-598`).
  Withdrawing and asking again leaves the new request pending for ever with a peer
  that has accepted before (`NobodyStranded` states the contrary). A dispatch
  that keeps throwing stays at the head of the pull window. The direct handler
  remembers a nonce for five minutes, and ten retries of the outbox fit into less.
- *Narration.* A row that cannot be written after the admission keeps slot and latch
  until the process ends (`jobs.js:1033`, `1090`). A walk that throws after a pause or a
  cancel writes error over it. The progress after a skip binds a Boolean and is
  refused by SQLite, so skips reach the checkpoint with the next turn only.
  Whether a run "described" or "reflected" is remembered per segment: a third segment
  forgets a turn that could not be attributed, and a run whose last segment failed
  altogether ends as error although an earlier one wrote. A worklist that is empty, or
  that the database would not tell, ends as done.
- *Connectors.* A disconnect during a pass is undone by the pass's write-back, and a
  token refresh after it stores the tokens again. A connect during a pass gets the
  old account's cursor (`overlapped`). A crash between a link's two writes leaves the new
  tokens with the old row and its cursor, until the next link or disconnect (`torn`;
  `connectors/scheduler.js:96-97`, `127-128`). Whatever a pass leaves behind a newer item, because
  it is off the source's page, cannot be fetched or is over the cap, is passed by the
  cursor for good (`skipped`). A
  manual sync while the handshake is open ends as connected or error without tokens.
- *Agent.* A crash after the delivery and before the re-arming delivers again under
  another id, because boot moves `next_run`, of which the id is made
  (`agent/cycle-output.js:79-81`). A fire that the budget or the duplicate check skips,
  or whose delivery fails, completes a one-off unsaid. A cancel during a turn of a
  one-off is overwritten with completed, and a task turned off while it is queued
  fires once more. An edit of the schedule during a turn is overwritten from the
  row the tick had read.
- *First open.* `holderStillLive` takes a process whose start time `ps` cannot tell for
  dead (`db/init.js:82-83`), although only a holder that is provably gone is to be
  replaced. After a mistaken steal two processes initialise at once and share one
  temp file, which each clears as a dead run's (`account/db-cipher-migrate.js:64`): rows
  can be lost, and no property speaks of what follows (`mistaken`). A killed holder whose
  parent has not waited for it is taken for alive (`db/init.js:56-60`; the writer lock
  asks `ps` for zombies, `db/writer-lock.js:73-91`), so that the waiters time out and
  fail to boot. The purge of the plaintext keeps everything when it is in doubt, its
  removals may fail, and the vault is served regardless
  (`account/db-cipher-migrate.js:149-192`, `index.js:269-272`): `kept` is what it left.
- *Lease.* A scan that cannot read the directory or a file does not seal (`doubted`), so
  the vault then stays writable until somebody else leaves.

## 4. Fairness

- `ComputeGovernor!FairSpec`: lease timers and the kill timer fire although other
  turns intervene (strong fairness: a Node timer that has expired runs, whatever
  came between), and code on the stack returns. No owner is assumed to release or
  to heartbeat, and no child to exit, except one that has a kill timer.
- `GenerateJobs!JobsFairSpec`: handlers of an event run; every owner of a ticket
  ends and a leaked ticket's lease lapses. That children without a kill timer end
  is an assumption the code does not enforce; `ParkedRetryRuns` and
  `GenerateEventuallyRuns` ask whether a Generate can starve even so.
  `JobsParkedCancel.cfg` has no memory pressure: under pressure that never ends a
  Generate is meant to wait.
- `VaultLease!FairSpec`: code that runs goes on (`Run`); a publish does not fail for ever;
  the takeover interval keeps firing although children take the lock for a moment
  in their probes (strong fairness). Nobody is assumed to start, leave or be
  killed.
- `WriterLock!LockFairSpec`, `VaultInit!FairSpec`: weak fairness of each process's own
  steps; nobody is assumed to boot, quit or die, and no parent to wait for a child that
  was killed.
- `EnrichmentDrainer!FairSpec`: the timer starts cycles for ever and no call inside one
  blocks for good (each has a timeout); the governor's admission and the select
  succeed now and then (strong fairness); the re-queue that follows a transcript comes or
  fails. `HeadsDoNotWedge` assumes besides that the
  service is up from some time on.
- `ConnectorSync!FairSpec`: the timer ticks, a pass comes to an end, days pass; no owner has to
  connect, publish or press a button.
- `AgentScheduler!FairSpec`: time passes, the tick's timer is set again whatever a tick
  does, the lane runs what it has, a turn ends (the provider call has a timeout), a
  question ages, an import ends. The person owes no answer.
- `Federation!FairSpec` (`FederationLiveness.cfg` only): deliveries end by their
  timeouts, each box's loop goes on. The network owes nothing.
- `NarrationRuns` and the `federation` run have safety properties only.

## 5. Proofs

All proofs are for any constants that satisfy the named `ASSUME`s.

**GenerateJobsProofs** proves of the governor, in its first part, `TypeOK`, `SlotBound`, `RunningChildKeepsTicket`,
`DoubleUseOnlyAfterReclaim`, `NoLostWakeup` and `GrantsFitMemory` from one
inductive invariant `IInv`. Its ticket half says that no two holders of the slot
differ, and that an owner which works without its ticket was reclaimed from
(leased, without a heartbeat, no live child). Its queue half says that a waiter on
the stack runs beside an empty queue and a free slot (otherwise a nested grant
could make a second holder), that the queue has at most one entry, and that a
parked entry means a taken slot. `NoLostWakeup` alone is not inductive: a drain in
the middle of a turn breaks it until the waiter on the stack has finished. Lemmas
treat `grant`, `Refuse`, `drainResidentQueue`, `queueForResident` and `doRelease`
once, and the step proof combines them per action. The budget half of
`GrantsFitMemory` compares a sum, which the model takes with a fold of the community
modules, before and after a ticket is added. A fold is a recursive function that
picks elements by `CHOOSE`, so three facts come first: it exists on every finite set
(`LedgerExists`), its values are numbers (`LedgerNat`), and any element can be the one
taken out (`TakeOut`). They are proved by induction over the size of the set. The
library's induction theorems take an operator and cannot be cited; `UpFromZero` says
the same of a set of numbers and follows from `<` being well-founded.

**VaultLocksProofs** proves of the lease, in its first part, `TypeOK`,
`ChildNeverOwns`, `OwnerNotMisnamed` and `MetaOfTheLiving` for any number of processes, families and kills from
`IInv`: who holds the lock is where its code says (`LeaseInv`), which kinds can be
where (`KindInv`), only apps are named and an owner is not misnamed (`NameInv`),
and without kills the named process has yet to clear its metadata (`LivingInv`).
`NobodySeenIsSealedOut` needs what is true of the presence files at every step
(`FilesInv`): a process that has one holds its lock and nothing else is locked but what
a scan probes (`OwnFileInv`), a scan holds the file it is about to roll back
(`ScanInv`), a visible user's file has its name and nobody is about to unlink it
(`VisibleInv`), and whom a scan has seen is either gone or on its list (`SeenInv`), so
that its end finds the lock. `LastOutSeals` needs one more
inductive fact, that a writable vault always has somebody who will decide about
sealing it (who gives up has met a lock, and its holder is using the vault or scanning
itself), and the assumption that there is no stranger: a stranger's presence
keeps others from sealing, and it does not seal itself. It speaks of histories without
kills and without a scan that could not tell.

**VaultLocksProofs** proves of the writer lock, in its second part, `HolderIsReal` and
`SettledHolderKeeps` with any overlap of claims, reclaims and releases, from the fact
that a file naming its creator is held by it (`FileInv`), and that whoever settled has
the file and nobody else is about to unlink it (`SettledInv`): a process unlinks only
what it has read as empty or as a dead process', and by then the file can only have
changed if its creator had not settled. `WriterLockRace.cfg` shows the one that had not.

**GenerateJobsProofs** proves of the runner, in its second part, that every turn of it is a turn of the
governor or leaves it alone (`KeepsTheContract`, the `UsesGovernor` of the `jobs` run);
so what is proved of the governor holds under the runner as well
(`RunnerKeepsSlot`), and its `IInv` is kept. To it `JInv` adds what is live:
the latch belongs to every job that is running or has a child, hence to one job
(`LatchInv`); a parked job and a running backfill have no child (`WaitInv`); a
child that is bound has not closed unless its handler is due (`ChildrenRun`).
`OneFlight` and `JobsAgree` follow. `FeedTellsTheTruth` is about the rows that jobs have closed,
whatever the reaper did before. It is not inductive without `LatchInv`: a parked retry that launches
while the close handler of another job is still due would bind a child that this
handler does not know of; both would own the latch, so it cannot be.

**VaultInitProofs** proves `OneInitialiser`, `VaultInv` and `NoPlaintextBeside` for any
number of processes (finitely many), items, kills and waiters that steal, up to the
first mistaken steal, which the properties name. `LockInv` says what a process knows of
the lock at each of its places: one that has found it stale may rely on that until
another removes it (`outrun`). `PlaceInv` is what it knows of the vault and the temp file
(a plaintext vault while it copies, an encrypted one from the release on, no original
beside it when it serves but what its purge left), and `DataInv` where the owner's rows are:
a torn or plain temp file has its original beside it, and until a swap is cut
short everything written is in the vault or in the copy about to replace it.

**NarrationRunsProofs** proves `NarrationInv`, `BadgesAreTrue` and `NothingRedone` for any
runs and any number of entities, none included. `WalkerInv`: one walk at most has the slot, and none beside an
admission that got stuck. `RecordInv`: the walk remembers at least what its row says
and at most what was handled, its turn is on an entity that remains, and the walk
knows of every wire but those whose record was lost. `RowInv`: what the rows say. The
next entity is the least one left, for which a lemma uses that `<` on the naturals is
well-founded.

**AgentSchedulerProofs** proves `AgentInv`, `NeverTalksOver` and the action property
`OneTurnPerFire` for any finite set of tasks. `AgentInv` does not say that a completed reminder was
spoken: a turn may be silent, and a fire that the budget skips completes it as well
(section 3). `LaneInv`: a queued task is in the lane once, it is in the executing set,
and no turn has begun on its due instant; `OwedInv`: a row that says "due" is owed a
turn or is having it; `RowInv` and `OffInv`: a completed one-off has had a turn that ended, or was not paid for,
and a task that is off is not taken again. `OneTurnPerFire` follows from `LaneInv` alone,
because only the head of the lane begins a turn.

**FederationProofs** proves that `Federation` implements `PeerMail`
(`MailIsKeptAlways`): under the mapping of `PM` the initial state is one of
`PeerMail`, and each action is one of its steps or changes nothing the owners
see, one step of `StepImplements` per action. `ReportsAreTrue` carries the abstract promise over: a message
reported as delivered is held or was shown, unless its loss was admitted, and is
shown once. `FlightInv` is what makes retries safe: of a message that is
still to be delivered one delivery at most is under way, and its row tells whose.
`SweepInv` says that a sweep has only failed rows with attempts left, `KeptInv`
that whatever was answered, acknowledged or remembered as seen has been kept,
`MailInv` that every index points into the relay. `AcceptInv` strengthens
`FederationInv` (`AcceptanceArrives`): a delivery may cross the debt off only once the acceptance is
sealed, and none of an earlier row's acceptance can cross off the present one. `BlocksStick` is the
action property.

**EnrichmentDrainerProofs** proves `DrainerInv`, `AttemptsAreKept` and
`OutageCostsOneRow` for any messages, imports, limits and batch sizes. `DrainerInv` is not
inductive: every write is an `UPDATE` by id that looks at no other column, so it is right
only because what its writer read is still so. `HandInv` says this of each writer: a row
that a pass or its judge holds, and that nobody overwrote, is still pending, not forgotten,
and has the text and the attempts that the select returned; one that the labeller holds
has a vector, one that the extractor holds is still embedded. It also says that
nothing given up is ever in hand, not even overwritten, which `GivenUpStaysSo` needs.
`LoopInv` has what makes an attempt count once: a row is left to the judge or
still to be tried, never both, and what is to be judged is outside the cycle's set; its
count of the rows to do bounds the candidates, which is what keeps their counter from
running below zero. `TextInv` says that a vector, stored or about to be, is of the row's
text unless its re-queue is still to come or was lost. `ProbeInv` carries `OutageCostsOneRow`
through the passes of a cycle: while nothing embeds, the judged rows that were not alone
in their pass are one at most, and its being judged has spent the cycle's probe
(`sentinel`). `RowInv` adds that a pending row has attempts left. Each
statement of `db/messages.js` has a lemma for what it does to one row, each writer one for what it
writes, and `IInv` was checked by TLC first (6.1 million states).

**ConnectorSyncProofs** proves `ConnectorInv` and `DisconnectSticks` for any accounts, items, pages, caps,
limits and faults, with whatever the source leaves out of a page. Neither is inductive: the store reads the row, waits for the
secrets table and then writes, so a row that a caller or a pass has read long ago is
written back over the present one. `CursorInv` therefore says of every copy (the
stored row, the caller's, the one a pass goes on from and the one it is to write) that
its cursor is earned and belongs to the account whose tokens are stored; `TokenInv`
that a pass pulls with the stored tokens and that a disconnect past their removal finds
none; `AwayInv` that no copy of a row that is not linked has synced anything. Each
holds until a link or disconnect overlaps something (`overlapped`), and `CursorInv` and
`AwayInv` not between the two writes of a link or after a crash there. A link or disconnect that overlaps
nothing finds neither a pass nor a caller, hence no copy (`Alone`). `IInv` was checked by
TLC first, with two accounts (10.3 million states).

Proving changed the models where TLC had passed and they were imprecise: `CASE`
expressions with overlapping guards are a free choice in TLA+, and those in
`NarrationRuns` and `VaultLease` are now `IF`s in the order of the code;
`NoPlaintextBeside` lost a condition that it did not need. The properties of
`ConnectorSync` used to except the whole of a link under way; they hold while its
code is exchanged too, and now except only the moment between its two writes.

Only model-checked: the liveness properties, since fairness and `ENABLED` are out of
the prover's reach. Every invariant and every action property of a run is proved, under the
hypotheses named above. Proved and in
no run are `TypeOK` of the governor and the lease, and `MetaOfTheLiving`.

## 6. Left out of the modelled parts

- Governor: the timer that unloads an idle model, the re-entrancy guard of
  `withTicket`, events and status.
- Job runner: stage parsing, statistics, cache invalidation and the search
  refresh after a run; the stall flag; the kill switch and disk guard, which may
  refuse at any time and change nothing. `refused: queue_full` cannot happen with
  one queued lane.
- Lease: creating and repairing the lease file and the inode check after the lock
  (a hazard of its own, planned); the modes of a plaintext vault; `UNKNOWN` probes, which refuse like `FREE`; bounded shutdown.
- Writer lock: reuse of a pid with the same start second, failures of `ps`, and
  other errors of the exclusive create, which end the claim without effect. A
  second open in the holder's own process rides like any family member.
- `VaultInit`: what a migration's SQL does, the write-ahead-log guard, the copy made
  before a migration, the gate of a first encounter, halt markers, the search
  sidecar, relocation of the mind files.
- `EnrichmentDrainer`: attachments, documents, clustering triggers and the other stages of
  the cycle; what a label or an entity is.
- `NarrationRuns`: the order of the worklist, its scopes, counts beyond "something was
  written", the feed row on screen.
- `ConnectorSync`: the requests and formats of the adapters, the mock adapter, `revokeAll`, the timer's import guard.
- `Federation`: spaces and their members, profiles, cryptography of envelopes, DID
  resolution and the request filter; the last three decide only whether a payload is taken.
- `AgentScheduler`: the inside of a turn, channel turns, the grammar of schedules, failures
  of `markTaskRun`'s own write.

Not modelled at all, and why: the channel daemon, the transcription lane, boot and
halt markers, backup and restore and the repair of the lease file have state
machines worth modelling and come next (section 7). Cryptography, search, the
mindscape's analysis, parsers of exports and inference routing are computation over data or
calls to other services, with no protocol state a model checker could explore.
The portal (about half of the repository's lines), the mobile app and the desktop
shell are user interfaces; REST and MCP handlers and tools keep no state between
two requests. This is why the modelled lines are a small share of the repository
although they hold most of its concurrent state.

## 7. Plan

1. Done: governor, job runner, lease, writer lock, with their theorems.
2. Done: first open and encryption, enrichment, federation with its abstract
   specification, narration runs, connectors, agent scheduler.
3. Done: proofs for the job runner, first open, narration runs, the agent, federation
   with its refinement, enrichment and connectors.
4. Models to come: `ChannelDaemon` (poll offset, duplicates, lanes), `TranscribeLane`
   on the governor, `LeaseRepair` (`db/vault-lease.js:388-523`, the inode race), boot
   and halt markers, snapshot and restore.
