-------------------------- MODULE EnrichmentDrainer --------------------------
(***************************************************************************)
(* The enrichment drain: src/enrich/drainer.js cycle() on top of the passes *)
(* of src/enrich/service.js and the statements of src/db/messages.js.  One  *)
(* cycle runs at a time (`running`): it embeds pending messages in passes,  *)
(* judges the rows whose embedding came back empty, then labels (L1) and    *)
(* extracts (L2).  Every row write is an UPDATE by id that looks at no      *)
(* other column, and there is an await before each one: the owner's edits,  *)
(* late transcripts, forgets, retries and a full-export import land between *)
(* a pass's SELECT and its writes.                                          *)
(*                                                                          *)
(* A message is the number of its place in creation order.  Its text is a   *)
(* revision number; a vector is the revision it was computed from.  What    *)
(* the embedding service makes of a message (`nature`) never changes.       *)
(* The compute governor's answers to the two admissions are left open.      *)
(***************************************************************************)
EXTENDS Integers, FiniteSets

CONSTANTS
  N,                        \* messages of the vault
  Mixes,                    \* the natures of the messages: functions on 1..N
  Imports,                  \* full-export imports that may run
  BATCH,                    \* rows of one select (50, 25)
  EMBED_MAX_ATTEMPTS, LABEL_MAX_ATTEMPTS,
  MAX_JUDGED_PER_PASS,
  MAX_PASSES,               \* passes of one cycle (200)
  STALL_BACKOFF_AFTER, STALL_BACKOFF_MAX_CYCLES,
  MaxText,                  \* bound on the revisions of one message
  MaxEvents                 \* bound on what the owner and the machine do

Messages == 1..N
NoVec == -1
\* Counting stalls further than this changes no back-off.
NoProgressCap == STALL_BACKOFF_AFTER + STALL_BACKOFF_MAX_CYCLES

ASSUME DrainerAssumption ==
  /\ {N, BATCH, EMBED_MAX_ATTEMPTS, LABEL_MAX_ATTEMPTS, MAX_JUDGED_PER_PASS,
      MAX_PASSES, STALL_BACKOFF_AFTER, STALL_BACKOFF_MAX_CYCLES} \subseteq Nat \ {0}
  /\ MaxText \in Nat /\ MaxEvents \in Nat
  /\ Mixes \subseteq [Messages -> {"good", "slow", "poison", "misfit", "blank"}]

VARIABLES
  row,            \* the columns of the messages table this code reads and writes
  overwritten,    \* messages changed under a writer that had already read them
  requeues,       \* re-queue calls under way for derived text that is stored
  missed,         \* messages that keep an older vector, the re-queue having failed
  nature,
  pc,             \* where the cycle is; "idle" when `running` is false
  embedOk,        \* the health read at the top of the cycle
  cycleSet,       \* attemptedThisCycle
  alone,          \* its rows that were judged as the only candidate of a pass
  sentinel,       \* IDLE_JUDGE_SENTINEL is in attemptedThisCycle
  passes,
  cycleEmbedded,  \* `embedded` of the cycle is positive
  embedMoved,     \* a row left the pending set this cycle
  ended,          \* how the embed loop ended: drained, stalled, threw, open
  todo,           \* rows the current loop has still to write
  seen, prior,    \* their text and counted attempts, as the select returned them
  transient,      \* transientRows
  candidates,     \* rows.length - skipped
  progress,       \* embedded > 0, or enriched > 0 in a labelling pass
  moved,          \* embedded + failed + skipped > 0
  idleHealthOk,
  noProgress, stallBackoff, stallBounced, cappedReclaimed, labelAttempts,
  service,        \* the embedding service: up, down, or shedding (healthy, no vectors)
  embedPaused, categorizePaused,
  importing,      \* where each import is
  events

lateVars  == <<requeues, missed>>
rowVars   == <<row, overwritten, lateVars>>
passVars  == <<todo, seen, prior, transient, candidates, progress, moved, idleHealthOk>>
loopVars  == <<cycleEmbedded, cycleSet, alone, sentinel, passes>>
cycleVars == <<embedOk, embedMoved, ended, loopVars>>
stallVars == <<noProgress, stallBackoff, stallBounced>>
memVars   == <<stallVars, cappedReclaimed, labelAttempts>>
flagVars  == <<embedPaused, categorizePaused>>
vars == <<rowVars, nature, pc, passVars, cycleVars, memVars, service, flagVars,
          importing, events>>

Stages == {"idle", "embed", "pass", "rows", "judge", "gate",
           "label", "labelRows", "nlp", "nlpRows"}

TypeOK ==
  /\ row \in [Messages -> [nlp : {-1, 0, 1, 2},
                           mark : {"none", "retry", "capped", "error"},
                           n : 0..EMBED_MAX_ATTEMPTS,
                           vec : -1..MaxText, text : 0..MaxText,
                           cat : {-1, 0, 1}, forgotten : BOOLEAN]]
  /\ overwritten \subseteq Messages /\ missed \subseteq Messages
  /\ requeues \in [Messages -> Nat]
  /\ nature \in Mixes
  /\ pc \in Stages
  /\ embedOk \in BOOLEAN /\ sentinel \in BOOLEAN /\ cycleEmbedded \in BOOLEAN /\ embedMoved \in BOOLEAN
  /\ cycleSet \subseteq Messages /\ alone \subseteq Messages
  /\ passes \in 0..MAX_PASSES
  /\ ended \in {"drained", "stalled", "threw", "open"}
  /\ todo \subseteq Messages /\ transient \subseteq Messages
  /\ seen \in [Messages -> 0..MaxText]
  /\ prior \in [Messages -> 0..EMBED_MAX_ATTEMPTS]
  /\ candidates \in 0..BATCH
  /\ progress \in BOOLEAN /\ moved \in BOOLEAN /\ idleHealthOk \in BOOLEAN
  /\ noProgress \in 0..NoProgressCap
  /\ stallBackoff \in 0..STALL_BACKOFF_MAX_CYCLES
  /\ stallBounced \in BOOLEAN /\ cappedReclaimed \in BOOLEAN
  /\ labelAttempts \in [Messages -> 0..LABEL_MAX_ATTEMPTS]
  /\ service \in {"up", "down", "shedding"}
  /\ embedPaused \in BOOLEAN /\ categorizePaused \in BOOLEAN
  /\ importing \in [Imports -> {"none", "open", "done"}]
  /\ events \in 0..MaxEvents

Init ==
  /\ row = [m \in Messages |-> [nlp |-> 0, mark |-> "none", n |-> 0, vec |-> NoVec,
                                text |-> 0, cat |-> 0, forgotten |-> FALSE]]
  /\ overwritten = {} /\ missed = {} /\ requeues = [m \in Messages |-> 0]
  /\ nature \in Mixes
  /\ pc = "idle"
  /\ embedOk = FALSE /\ cycleSet = {} /\ alone = {} /\ sentinel = FALSE /\ passes = 0
  /\ cycleEmbedded = FALSE
  /\ embedMoved = FALSE /\ ended = "open"
  /\ todo = {} /\ transient = {} /\ candidates = 0
  /\ seen = [m \in Messages |-> 0] /\ prior = [m \in Messages |-> 0]
  /\ progress = FALSE /\ moved = FALSE /\ idleHealthOk = FALSE
  /\ noProgress = 0 /\ stallBackoff = 0 /\ stallBounced = FALSE
  /\ cappedReclaimed = FALSE /\ labelAttempts = [m \in Messages |-> 0]
  /\ service = "up"
  /\ embedPaused = FALSE /\ categorizePaused = FALSE
  /\ importing = [i \in Imports |-> "none"]
  /\ events = 0

-----------------------------------------------------------------------------
(* The statements of db/messages.js, each on one row.                       *)

\* The first k rows of S, oldest or newest first; the next row of a loop.
Oldest(S, k) == {m \in S : Cardinality({x \in S : x < m}) < k}
Newest(S, k) == {m \in S : Cardinality({x \in S : x > m}) < k}
First(m, S)  == m \in S /\ \A x \in S : m <= x
Last(m, S)   == m \in S /\ \A x \in S : x <= m

PendingEnrichment == {m \in Messages : row[m].nlp = 0 /\ ~row[m].forgotten}
PendingCategories ==
  {m \in Messages : row[m].cat = 0 /\ row[m].vec # NoVec /\ ~row[m].forgotten}
PendingNlp == {m \in Messages : row[m].nlp = 2 /\ ~row[m].forgotten}

updateEnrichment(r, vec, nlp, mark, n) ==
  [r EXCEPT !.vec = vec, !.nlp = nlp, !.mark = mark, !.n = n]

updateNlp(r, nlp, mark) == [r EXCEPT !.nlp = nlp, !.mark = mark, !.n = 0]

updateCategories(r, cat) == [r EXCEPT !.cat = cat]

\* Derived text arrived: only a row that has a vector is queued again.
markForReembed(r) ==
  IF r.vec # NoVec /\ ~r.forgotten
    THEN [r EXCEPT !.vec = NoVec, !.nlp = 0, !.mark = "none", !.n = 0, !.cat = 0]
    ELSE r

\* Mutant: the state is left alone, as the vector is cleared.
updateContent_KeepsState(r, text) == [r EXCEPT !.text = text, !.vec = NoVec, !.cat = 0]

updateContent(r, text) ==
  [r EXCEPT !.text = text, !.vec = NoVec, !.nlp = 0, !.mark = "none", !.n = 0, !.cat = 0]

redact(r) == [r EXCEPT !.vec = NoVec, !.mark = "none", !.n = 0, !.forgotten = TRUE]

GaveUp(r) == r.nlp = -1 /\ r.vec = NoVec /\ r.mark = "capped"

selfHealStrandedEmbeds(r) ==
  IF r.nlp = -1 /\ r.vec = NoVec /\ r.mark # "capped"
    THEN [r EXCEPT !.nlp = 0, !.mark = "none", !.n = 0] ELSE r

reclaimGaveUpRows(r) ==
  LET e == IF GaveUp(r) THEN [r EXCEPT !.nlp = 0, !.mark = "none", !.n = 0] ELSE r
  IN  IF e.cat = -1 THEN [e EXCEPT !.cat = 0] ELSE e

\* The retry route also clears the markers of rows that are still pending.
resetEnrichmentGiveUps(r) ==
  LET e == reclaimGaveUpRows(r)
  IN  IF e.nlp = 0 /\ e.mark = "retry" THEN [e EXCEPT !.mark = "none", !.n = 0] ELSE e

\* A writer holds m when it has read the row and has yet to write it.
InHand(m) == m \in todo \/ (pc = "rows" /\ m \in transient)

-----------------------------------------------------------------------------
(* The embedding stage of a cycle.                                          *)

\* What the service answers for the text it is given: a long timeout lets a
\* slow text through.
Answer(m, long) ==
  IF service # "up" \/ nature[m] = "poison" \/ (nature[m] = "slow" /\ ~long) THEN "null"
  ELSE IF nature[m] = "misfit" THEN "misfit" ELSE "vector"

isImportQuiesced == \E i \in Imports : importing[i] = "open"

EndPassVars ==
  /\ todo' = {} /\ transient' = {} /\ candidates' = 0
  /\ seen' = [m \in Messages |-> 0] /\ prior' = [m \in Messages |-> 0]
  /\ progress' = FALSE /\ moved' = FALSE /\ idleHealthOk' = FALSE

LeaveLoop ==
  /\ cycleEmbedded' = FALSE /\ cycleSet' = {} /\ alone' = {}
  /\ sentinel' = FALSE /\ passes' = 0

ForgetCycle == embedOk' = FALSE /\ embedMoved' = FALSE /\ ended' = "open"

\* The cycle reads the service's health and, once per process, gives every
\* row that was given up another chance.
StartCycle ==
  /\ pc = "idle" /\ ~isImportQuiesced
  /\ pc' = "embed"
  /\ embedOk' = (service # "down")
  /\ IF ~cappedReclaimed /\ ~(embedPaused /\ categorizePaused)
       THEN /\ cappedReclaimed' = TRUE
            /\ row' = [m \in Messages |-> reclaimGaveUpRows(row[m])]
       ELSE UNCHANGED <<cappedReclaimed, row>>
  /\ UNCHANGED <<overwritten, lateVars, nature, passVars, embedMoved, ended, loopVars, stallVars,
                 labelAttempts, service, flagVars, importing, events>>

SkipEmbed ==
  /\ pc = "embed"
  /\ \/ (~embedOk \/ embedPaused) /\ UNCHANGED <<stallBackoff, ended>>
     \/ /\ embedOk /\ ~embedPaused /\ stallBackoff > 0
        /\ stallBackoff' = stallBackoff - 1
        /\ ended' = "stalled"
  /\ pc' = "gate"
  /\ UNCHANGED <<rowVars, nature, passVars, embedOk, embedMoved, loopVars,
                 noProgress, stallBounced, cappedReclaimed, labelAttempts, service,
                 flagVars, importing, events>>

RefuseEmbed ==
  /\ pc = "embed" /\ embedOk /\ ~embedPaused /\ stallBackoff = 0
  /\ pc' = "gate"
  /\ UNCHANGED <<rowVars, nature, passVars, cycleVars, memVars, service, flagVars,
                 importing, events>>

AdmitEmbed ==
  /\ pc = "embed" /\ embedOk /\ ~embedPaused /\ stallBackoff = 0
  /\ pc' = "pass"
  /\ row' = [m \in Messages |-> selfHealStrandedEmbeds(row[m])]
  /\ UNCHANGED <<overwritten, lateVars, nature, passVars, cycleVars, memVars, service, flagVars,
                 importing, events>>

\* drainOnce: the select; the loop's own ends, an empty select included.
SelectPass ==
  /\ pc = "pass" /\ passes < MAX_PASSES /\ ~embedPaused
  /\ LET batch == Oldest(PendingEnrichment, BATCH) IN
       IF batch = {}
         THEN /\ ended' = "drained" /\ pc' = "gate"
              /\ LeaveLoop /\ UNCHANGED passVars
         ELSE /\ pc' = "rows"
              /\ todo' = batch /\ candidates' = Cardinality(batch)
              /\ seen' = [m \in Messages |-> IF m \in batch THEN row[m].text ELSE 0]
              /\ prior' = [m \in Messages |-> IF m \in batch THEN row[m].n ELSE 0]
              /\ passes' = passes + 1
              /\ UNCHANGED <<ended, cycleEmbedded, cycleSet, alone, sentinel, transient, progress, moved,
                             idleHealthOk>>
  /\ UNCHANGED <<rowVars, nature, embedOk, embedMoved, memVars, service, flagVars,
                 importing, events>>

\* The pass limit, a pause, or a select that throws.
LeavePasses ==
  /\ pc = "pass"
  /\ \/ (passes = MAX_PASSES \/ embedPaused) /\ UNCHANGED ended
     \/ passes < MAX_PASSES /\ ~embedPaused /\ ended' = "threw"
  /\ pc' = "gate"
  /\ LeaveLoop
  /\ UNCHANGED <<rowVars, nature, passVars, embedOk, embedMoved, memVars, service, flagVars, importing, events>>

\* One row of the pass, in creation order: blank text is skipped for good, no
\* vector leaves the row for the judge, a misfit is set aside with its error.
EmbedRow(m) ==
  /\ pc = "rows" /\ First(m, todo)
  /\ todo' = todo \ {m}
  /\ LET blank  == nature[m] = "blank" /\ seen[m] = 0
         answer == Answer(m, FALSE)
     IN
       \/ /\ blank
          /\ row' = [row EXCEPT ![m] = updateEnrichment(@, @.vec, 1, "none", 0)]
          /\ candidates' = candidates - 1
          /\ moved' = TRUE /\ embedMoved' = TRUE
          /\ UNCHANGED <<transient, progress>>
       \/ /\ ~blank /\ answer = "null"
          /\ transient' = transient \cup {m}
          /\ UNCHANGED <<row, candidates, moved, embedMoved, progress>>
       \/ /\ ~blank /\ answer = "misfit"
          /\ row' = [row EXCEPT ![m] = updateEnrichment(@, @.vec, -1, "error", 0)]
          /\ moved' = TRUE
          /\ UNCHANGED <<candidates, transient, embedMoved, progress>>
       \/ /\ ~blank /\ answer = "vector"
          /\ row' = [row EXCEPT ![m] = updateEnrichment(@, seen[m], 2, "none", 0)]
          /\ moved' = TRUE /\ embedMoved' = TRUE /\ progress' = TRUE
          /\ UNCHANGED <<candidates, transient>>
  /\ UNCHANGED <<overwritten, lateVars, nature, pc, seen, prior, idleHealthOk, embedOk, loopVars,
                 ended, memVars, service, flagVars, importing, events>>

\* Mutant: a healthy service does not count as proof when nothing embeds.
Suspects_Frozen(idleOk) ==
  LET sole == candidates <= 1
  IN  Oldest({m \in transient \ cycleSet : progress \/ (prior[m] > 0 /\ sole)},
             IF progress \/ sole THEN MAX_JUDGED_PER_PASS ELSE 0)

\* Mutant: rows already tried in this cycle are judged again.
Suspects_Again(idleOk) ==
  LET sole == candidates <= 1
      cap  == IF progress \/ sole THEN MAX_JUDGED_PER_PASS ELSE IF idleOk THEN 1 ELSE 0
  IN  Oldest({m \in transient : progress \/ (prior[m] > 0 /\ sole) \/ idleOk}, cap)

\* The rows whose failure may be held against them.
Suspects(idleOk) ==
  LET sole == candidates <= 1
      cap  == IF progress \/ sole THEN MAX_JUDGED_PER_PASS ELSE IF idleOk THEN 1 ELSE 0
  IN  Oldest({m \in transient \ cycleSet :
                progress \/ (prior[m] > 0 /\ sole) \/ idleOk}, cap)

\* Mutant: the probe is asked in every pass.
JudgePass_EveryPass ==
  /\ pc = "rows" /\ todo = {}
  /\ LET probe == ~progress /\ candidates > 1 /\ transient # {}
     IN  /\ idleHealthOk' = (probe /\ service # "down")
         /\ sentinel' = (sentinel \/ idleHealthOk')
         /\ todo' = Suspects(idleHealthOk')
  /\ pc' = "judge"
  /\ UNCHANGED <<rowVars, nature, seen, prior, transient, candidates, progress, moved,
                 embedOk, cycleEmbedded, cycleSet, alone, passes, embedMoved, ended, memVars,
                 service, flagVars, importing, events>>

\* After the rows: a health probe, once per cycle, when nothing embedded
\* though several rows could have.
JudgePass ==
  /\ pc = "rows" /\ todo = {}
  /\ LET probe == ~progress /\ candidates > 1 /\ transient # {} /\ ~sentinel
     IN  /\ idleHealthOk' = (probe /\ service # "down")
         /\ sentinel' = (sentinel \/ idleHealthOk')
         /\ todo' = Suspects(idleHealthOk')
  /\ pc' = "judge"
  /\ UNCHANGED <<rowVars, nature, seen, prior, transient, candidates, progress, moved,
                 embedOk, cycleEmbedded, cycleSet, alone, passes, embedMoved, ended, memVars, service,
                 flagVars, importing, events>>

\* A judged row gets one long embedding; failing that, the attempt counts.
JudgeRow(m) ==
  /\ pc = "judge" /\ First(m, todo)
  /\ todo' = todo \ {m}
  /\ cycleSet' = cycleSet \cup {m}
  /\ alone' = IF candidates <= 1 THEN alone \cup {m} ELSE alone
  /\ LET n == prior[m] + 1 IN
       \/ /\ Answer(m, TRUE) = "vector"
          /\ row' = [row EXCEPT ![m] = updateEnrichment(@, seen[m], 2, "none", 0)]
          /\ progress' = TRUE /\ moved' = TRUE /\ embedMoved' = TRUE
       \/ /\ Answer(m, TRUE) # "vector" /\ n >= EMBED_MAX_ATTEMPTS
          /\ row' = [row EXCEPT ![m] = updateEnrichment(@, @.vec, -1, "capped", n)]
          /\ moved' = TRUE /\ embedMoved' = TRUE
          /\ UNCHANGED progress
       \/ /\ Answer(m, TRUE) # "vector" /\ n < EMBED_MAX_ATTEMPTS
          /\ row' = [row EXCEPT ![m] = updateEnrichment(@, @.vec, 0, "retry", n)]
          /\ UNCHANGED <<progress, moved, embedMoved>>
  /\ UNCHANGED <<overwritten, lateVars, nature, pc, seen, prior, transient, candidates, idleHealthOk,
                 embedOk, cycleEmbedded, sentinel, passes, ended, memVars, service, flagVars, importing,
                 events>>

StallBackoff(k) ==
  LET p == 2 ^ (k - STALL_BACKOFF_AFTER + 1)
  IN  IF p < STALL_BACKOFF_MAX_CYCLES THEN p ELSE STALL_BACKOFF_MAX_CYCLES

\* A pass that moved nothing ends the loop; repeated, it backs the drain off
\* and restarts the service once.
EndPass ==
  /\ pc = "judge" /\ todo = {}
  /\ EndPassVars
  /\ IF moved
       THEN /\ pc' = "pass"
            /\ IF progress THEN noProgress' = 0 /\ stallBackoff' = 0 /\ stallBounced' = FALSE
                           ELSE UNCHANGED stallVars
            /\ cycleEmbedded' = (cycleEmbedded \/ progress)
            /\ UNCHANGED <<ended, cycleSet, alone, sentinel, passes, service>>
       ELSE LET k == IF noProgress < NoProgressCap THEN noProgress + 1 ELSE noProgress
            IN  /\ pc' = "gate" /\ ended' = "stalled" /\ LeaveLoop
                /\ noProgress' = k
                /\ IF k >= STALL_BACKOFF_AFTER
                     THEN /\ stallBackoff' = StallBackoff(k)
                          /\ stallBounced' = TRUE
                          /\ service' = IF stallBounced THEN service ELSE "down"
                     ELSE UNCHANGED <<stallBackoff, stallBounced, service>>
  /\ UNCHANGED <<rowVars, nature, embedOk, embedMoved,
                 cappedReclaimed, labelAttempts, flagVars, importing, events>>

-----------------------------------------------------------------------------
(* The labelling and extraction stages.                                     *)

\* Deferred while embedding progresses and its backlog remains.
deferCategorizeForEmbed == embedOk /\ ~embedPaused /\ embedMoved /\ ended = "open"

\* The cycle ends here when it defers, is paused, or the governor refuses.
EndCycle ==
  /\ pc \in {"gate", "nlp"}
  /\ pc' = "idle"
  /\ EndPassVars /\ ForgetCycle
  /\ UNCHANGED <<rowVars, nature, loopVars, memVars, service, flagVars, importing, events>>

AdmitCategorize ==
  /\ pc = "gate" /\ ~categorizePaused /\ ~deferCategorizeForEmbed
  /\ pc' = "label"
  /\ ForgetCycle
  /\ UNCHANGED <<rowVars, nature, passVars, loopVars, memVars, service, flagVars,
                 importing, events>>

\* Either stage may also be left before a pass: no model, a pause, the time
\* budget, an interactive turn that wants the slot, nothing to do.
SelectCategories ==
  /\ pc = "label" /\ ~categorizePaused
  /\ todo' = Newest(PendingCategories, BATCH) /\ todo' # {}
  /\ pc' = "labelRows"
  /\ UNCHANGED <<rowVars, nature, seen, prior, transient, candidates, progress, moved,
                 idleHealthOk, cycleVars, memVars, service, flagVars, importing, events>>

LeaveLabels ==
  /\ \/ pc = "label"
     \/ pc = "labelRows" /\ todo = {}
  /\ pc' = "nlp"
  /\ EndPassVars
  /\ UNCHANGED <<rowVars, nature, cycleVars, memVars, service, flagVars, importing, events>>

\* Another pass, when this one labelled without a failure.
NextLabels ==
  /\ pc = "labelRows" /\ todo = {} /\ ~moved
  /\ pc' = "label"
  /\ EndPassVars
  /\ UNCHANGED <<rowVars, nature, cycleVars, memVars, service, flagVars, importing, events>>

\* One row, newest first.  A failure counts once something was labelled in
\* this pass or the row has failed before; every failure but the last one
\* stops the pass.  `moved` records that a row failed.
LabelRow(m) ==
  /\ pc = "labelRows" /\ Last(m, todo)
  /\ \/ /\ row' = [row EXCEPT ![m] = updateCategories(@, 1)]
        /\ labelAttempts' = [labelAttempts EXCEPT ![m] = 0]
        /\ progress' = (progress \/ nature[m] # "blank")
        /\ todo' = todo \ {m}
        /\ UNCHANGED moved
     \/ LET n == labelAttempts[m] + 1 IN
        /\ nature[m] # "blank"
        /\ moved' = TRUE
        /\ \/ /\ ~progress /\ labelAttempts[m] = 0
              /\ todo' = {}
              /\ UNCHANGED <<row, labelAttempts>>
           \/ /\ (progress \/ labelAttempts[m] > 0) /\ n >= LABEL_MAX_ATTEMPTS
              /\ row' = [row EXCEPT ![m] = updateCategories(@, -1)]
              /\ labelAttempts' = [labelAttempts EXCEPT ![m] = 0]
              /\ todo' = todo \ {m}
           \/ /\ (progress \/ labelAttempts[m] > 0) /\ n < LABEL_MAX_ATTEMPTS
              /\ labelAttempts' = [labelAttempts EXCEPT ![m] = n]
              /\ todo' = {}
              /\ UNCHANGED row
        /\ UNCHANGED progress
  /\ UNCHANGED <<overwritten, lateVars, nature, pc, seen, prior, transient, candidates, idleHealthOk,
                 cycleVars, stallVars, cappedReclaimed, service, flagVars, importing, events>>

SelectNlp ==
  /\ pc = "nlp" /\ ~categorizePaused
  /\ todo' = Oldest(PendingNlp, BATCH) /\ todo' # {}
  /\ pc' = "nlpRows"
  /\ UNCHANGED <<rowVars, nature, seen, prior, transient, candidates, progress, moved,
                 idleHealthOk, cycleVars, memVars, service, flagVars, importing, events>>

\* A failure is recorded on the row and the pass goes on.
NlpRow(m) ==
  /\ pc = "nlpRows" /\ First(m, todo)
  /\ todo' = todo \ {m}
  /\ \E nlp \in {1, -1} :
       row' = [row EXCEPT ![m] = updateNlp(@, nlp, IF nlp = 1 THEN "none" ELSE "error")]
  /\ UNCHANGED <<overwritten, lateVars, nature, pc, seen, prior, transient, candidates, progress, moved,
                 idleHealthOk, cycleVars, memVars, service, flagVars, importing, events>>

EndNlp ==
  /\ pc = "nlpRows" /\ todo = {}
  /\ pc' = "nlp"
  /\ UNCHANGED <<rowVars, nature, passVars, cycleVars, memVars, service, flagVars,
                 importing, events>>

-----------------------------------------------------------------------------
(* What happens around the drain.                                           *)

Event == events < MaxEvents /\ events' = events + 1

cycleState == <<pc, passVars, cycleVars, memVars>>

\* An owner's or an importer's write: it is lost on a writer that holds m.
Write(m, r) ==
  /\ row' = [row EXCEPT ![m] = r]
  /\ overwritten' = IF InHand(m) THEN overwritten \cup {m} ELSE overwritten

EditMessage(m) ==
  /\ Event /\ ~row[m].forgotten /\ row[m].text < MaxText
  /\ Write(m, updateContent(row[m], row[m].text + 1))
  /\ missed' = missed \ {m}
  /\ UNCHANGED <<requeues, nature, cycleState, service, flagVars, importing>>

\* A transcript, caption or description is stored on the attachment; queueing
\* the message again is a call of its own, which comes second.
DerivedText(m) ==
  /\ Event /\ ~row[m].forgotten /\ row[m].text < MaxText
  /\ row' = [row EXCEPT ![m].text = @ + 1]
  /\ requeues' = [requeues EXCEPT ![m] = @ + 1]
  /\ UNCHANGED <<overwritten, missed, nature, cycleState, service, flagVars, importing>>

Requeue(m) ==
  /\ requeues[m] > 0
  /\ requeues' = [requeues EXCEPT ![m] = @ - 1]
  /\ Write(m, markForReembed(row[m]))
  /\ missed' = missed \ {m}
  /\ UNCHANGED <<nature, cycleState, service, flagVars, importing, events>>

\* The call failed and the failure is swallowed: an older vector stays.
Outdated(m) == row[m].vec \notin {NoVec, row[m].text}

RequeueLost(m) ==
  /\ requeues[m] > 0
  /\ requeues' = [requeues EXCEPT ![m] = @ - 1]
  /\ missed' = IF InHand(m) \/ Outdated(m) THEN missed \cup {m} ELSE missed
  /\ UNCHANGED <<row, overwritten, nature, cycleState, service, flagVars, importing, events>>

Forget(m) ==
  /\ Event /\ ~row[m].forgotten
  /\ Write(m, redact(row[m]))
  /\ UNCHANGED <<lateVars, nature, cycleState, service, flagVars, importing>>

\* POST /enrichment/retry-failed.
RetryFailed ==
  /\ Event
  /\ row' = [m \in Messages |-> resetEnrichmentGiveUps(row[m])]
  /\ overwritten' = overwritten \cup {m \in Messages : InHand(m) /\ row'[m] # row[m]}
  /\ labelAttempts' = [m \in Messages |-> 0]
  /\ stallBackoff' = 0 /\ stallBounced' = FALSE
  /\ UNCHANGED <<lateVars, nature, pc, passVars, cycleVars, noProgress, cappedReclaimed, service,
                 flagVars, importing>>

\* Pausing embedding also restarts the service, to stop what it computes.
PauseProcessing ==
  /\ Event
  /\ \/ ~embedPaused /\ embedPaused' = TRUE /\ service' = "down" /\ UNCHANGED categorizePaused
     \/ ~categorizePaused /\ categorizePaused' = TRUE /\ UNCHANGED <<embedPaused, service>>
  /\ UNCHANGED <<rowVars, nature, cycleState, importing>>

ResumeProcessing ==
  /\ embedPaused \/ categorizePaused
  /\ embedPaused' = FALSE /\ categorizePaused' = FALSE
  /\ stallBackoff' = 0 /\ stallBounced' = FALSE
  /\ UNCHANGED <<rowVars, nature, pc, passVars, cycleVars, noProgress, cappedReclaimed,
                 labelAttempts, service, importing, events>>

ServiceFails ==
  /\ Event /\ service = "up"
  /\ service' \in {"down", "shedding"}
  /\ UNCHANGED <<rowVars, nature, cycleState, flagVars, importing>>

ServiceRecovers ==
  /\ service # "up"
  /\ service' = "up"
  /\ UNCHANGED <<rowVars, nature, cycleState, flagVars, importing, events>>

\* The server dies and starts again: memory, latch, import and the re-queue
\* calls are gone, the pauses are read back.
Restart ==
  /\ Event
  /\ pc' = "idle"
  /\ EndPassVars /\ LeaveLoop /\ ForgetCycle
  /\ noProgress' = 0 /\ stallBackoff' = 0 /\ stallBounced' = FALSE
  /\ cappedReclaimed' = FALSE /\ labelAttempts' = [m \in Messages |-> 0]
  /\ importing' = [i \in Imports |-> IF importing[i] = "open" THEN "done" ELSE importing[i]]
  /\ requeues' = [m \in Messages |-> 0]
  /\ missed' = missed \cup {m \in Messages : requeues[m] > 0 /\ Outdated(m)}
  /\ UNCHANGED <<row, overwritten, nature, service, flagVars>>

\* A full-export import holds the quiesce latch while it restores the bundle.
ImportStarts(i) ==
  /\ Event /\ importing[i] = "none"
  /\ importing' = [importing EXCEPT ![i] = "open"]
  /\ UNCHANGED <<rowVars, nature, cycleState, service, flagVars>>

\* The bundle was exported before any change: its vectors are of revision 0.
ImportVector(i, m) ==
  /\ importing[i] = "open"
  /\ row' = [row EXCEPT ![m] = [@ EXCEPT !.vec = 0, !.nlp = 1]]
  /\ overwritten' = IF InHand(m) \/ row[m].text # 0 \/ row[m].forgotten
                      THEN overwritten \cup {m} ELSE overwritten
  /\ UNCHANGED <<lateVars, nature, cycleState, service, flagVars, importing, events>>

ImportEnds(i) ==
  /\ importing[i] = "open"
  /\ importing' = [importing EXCEPT ![i] = "done"]
  /\ UNCHANGED <<rowVars, nature, cycleState, service, flagVars, events>>

EmbedStep ==
  \/ StartCycle \/ SkipEmbed \/ RefuseEmbed \/ AdmitEmbed
  \/ SelectPass \/ LeavePasses \/ JudgePass \/ EndPass
  \/ \E m \in Messages : EmbedRow(m) \/ JudgeRow(m)

ModelStep ==
  \/ EndCycle \/ AdmitCategorize
  \/ SelectCategories \/ LeaveLabels \/ NextLabels
  \/ SelectNlp \/ EndNlp
  \/ \E m \in Messages : LabelRow(m) \/ NlpRow(m)

Around ==
  \/ RetryFailed \/ PauseProcessing \/ ResumeProcessing
  \/ ServiceFails \/ ServiceRecovers \/ Restart
  \/ \E m \in Messages : EditMessage(m) \/ DerivedText(m) \/ Forget(m)
  \/ \E m \in Messages : Requeue(m) \/ RequeueLost(m)
  \/ \E i \in Imports :
       \/ ImportStarts(i) \/ ImportEnds(i)
       \/ \E m \in Messages : ImportVector(i, m)

Next == EmbedStep \/ ModelStep \/ Around

Spec == Init /\ [][Next]_vars

\* The timer starts cycles for ever and nothing inside one blocks for good;
\* the governor grants the drain its ticket, and the select succeeds, now and
\* then.  A re-queue call ends, one way or the other.
Fairness ==
  /\ WF_vars(EmbedStep) /\ WF_vars(ModelStep)
  /\ SF_vars(AdmitEmbed) /\ SF_vars(SelectPass)
  /\ WF_vars(\E m \in Messages : Requeue(m) \/ RequeueLost(m))

FairSpec == Spec /\ Fairness

-----------------------------------------------------------------------------
(* Properties.                                                              *)

\* Outside the messages that changed under a writer's hands: no row is both
\* embedded and pending, only an embedded message is tagged, a forgotten one has
\* no vector; and a vector is of the text the message has now, unless the
\* re-queue for text that came later is still under way or failed.
RowsTellTheTruth ==
  \A m \in Messages \ overwritten :
    /\ row[m].vec # NoVec =>
         /\ row[m].nlp # 0 /\ ~row[m].forgotten
         /\ row[m].vec = row[m].text \/ requeues[m] > 0 \/ m \in missed
    /\ row[m].cat = 1 => row[m].vec # NoVec \/ row[m].forgotten

\* A message without a vector is queued, given up or set aside with an error,
\* each of which some path takes back into the queue; only one that was blank
\* when it was read is done, and stays so when text arrives for it later.
\* Nothing falls between the stages' queues.
NothingStranded ==
  \A m \in Messages \ overwritten :
    row[m].vec = NoVec /\ ~row[m].forgotten =>
      row[m].nlp \in {0, -1} \/ (row[m].nlp = 1 /\ nature[m] = "blank")

\* The columns by which the queues select rows agree with what was done to them.
DrainerInv == TypeOK /\ RowsTellTheTruth /\ NothingStranded

\* A row's failure is counted at most once in a cycle, and one at a time.
AttemptsCountOnce ==
  [][\A m \in Messages : row'[m].n > row[m].n =>
       m \notin cycleSet /\ (row'[m].n = row[m].n + 1 \/ m \in overwritten)]_vars

\* service.js: `the unfreeze is ONE row per cycle'.  Several rows failing
\* together look like an outage: through all the passes of a cycle that embeds
\* nothing, whatever each of them moves and whatever the service answers, at most
\* one row is judged among several; any other was the only candidate of its pass.
OutageCostsOneRow ==
  ~cycleEmbedded /\ ~progress => \A m, x \in cycleSet \ alone : m = x

\* A row that was given up comes back only by the boot's reclaim or by what
\* the owner does: never by the self-heal of every cycle.
GivenUpStaysSo ==
  [][\A m \in Messages : GaveUp(row[m]) /\ row'[m].nlp = 0 =>
       ~cappedReclaimed \/ events' # events]_vars

\* A row is given up after its attempts, counted one by one, and stays so.
AttemptsAreKept == AttemptsCountOnce /\ GivenUpStaysSo

\* With a service that is up from some time on, rows that can never embed do
\* not keep a good one behind them in the queue: it is embedded, unless an
\* overloaded service made the drain give it up before or its re-queue failed.
ServiceSteady == <>[](service = "up" /\ ~embedPaused /\ ~isImportQuiesced)
HeadsDoNotWedge ==
  ServiceSteady => \A m \in Messages :
    (row[m].nlp = 0 /\ nature[m] = "good") ~>
      \/ row[m].vec = row[m].text \/ row[m].forgotten
      \/ GaveUp(row[m]) \/ m \in overwritten \cup missed
=============================================================================
