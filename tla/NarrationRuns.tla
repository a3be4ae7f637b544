--------------------------- MODULE NarrationRuns ---------------------------
(***************************************************************************)
(* Narration runs (jobs.js 904-1139, agent/narration-walk.js): a walk over  *)
(* an ordered worklist, one model turn per entity, that the owner starts,   *)
(* pauses, resumes and cancels while it runs.  The row of a run is its      *)
(* checkpoint and its claim: which entities are done, how it ended, and     *)
(* whether its content stayed on this device.  The handlers and what the    *)
(* walk does between two turns run without interruption (SQL on plain       *)
(* tables is synchronous); other steps fall into a turn.  The activity feed *)
(* row that mirrors a run on screen is left out.                            *)
(***************************************************************************)
EXTENDS Naturals, FiniteSets

CONSTANTS
  Runs,         \* run ids, each used once
  NumItems,     \* entities that a worklist may hold
  MaxFaults     \* bound: failed writes, thrown walks and crashes

ASSUME NarrationAssumption ==
  NumItems \in Nat /\ MaxFaults \in Nat /\ "none" \notin Runs

Items == 1..NumItems
Walks == 1..2             \* walks in memory: one, and one to show there is no other

VARIABLES
  status,    \* narration_runs.status
  doneIds,   \* done_ids
  device,    \* on_this_device: "on", "off", or "null"
  counted,   \* described + reflected > 0
  latch,     \* narrationRunning
  slot,      \* who has the resident model slot of the compute governor
  walk,      \* the walks under way
  handled,   \* history: entities a run described, reflected on or skipped
  listed,    \* history: the worklist of a run's last segment
  missed,    \* history: entities whose turn failed in a run's last segment
  left,      \* history: runs that had a turn off this device
  unwritten, \* history: runs one of whose progress writes was lost
  stuck,     \* history: a run's first write failed after it was admitted
  faults

rowVars == <<status, doneIds, device, counted>>
listVars == <<listed, missed>>
vars == <<rowVars, latch, slot, walk, handled, listVars, left, unwritten, stuck, faults>>

Wires == {"on", "off", "unknown"}
\* The walk's place, its worklist, its done set, and which outcomes and wires it has met.
WalkRecs == [run : Runs, at : {"next", "turn"}, list : SUBSET Items, item : 0..NumItems,
             done : SUBSET Items, wires : SUBSET Wires,
             wrote : BOOLEAN, skipped : BOOLEAN, failed : BOOLEAN]
NoWalk == [run |-> "none"]
Active == {w \in Walks : walk[w] # NoWalk}

TypeOK ==
  /\ status \in [Runs -> {"none", "running", "paused", "canceled", "done", "error"}]
  /\ doneIds \in [Runs -> SUBSET Items] /\ device \in [Runs -> {"on", "off", "null"}]
  /\ counted \in [Runs -> BOOLEAN]
  /\ latch \in Runs \cup {"none"} /\ slot \in {"free", "narration", "other"}
  /\ \A w \in Walks : walk[w] = NoWalk \/ walk[w] \in WalkRecs
  /\ handled \in [Runs -> SUBSET Items]
  /\ listed \in [Runs -> SUBSET Items] /\ missed \in [Runs -> SUBSET Items]
  /\ left \subseteq Runs /\ unwritten \subseteq Runs /\ stuck \in BOOLEAN
  /\ faults \in 0..MaxFaults

Init ==
  /\ status = [r \in Runs |-> "none"] /\ doneIds = [r \in Runs |-> {}]
  /\ device = [r \in Runs |-> "null"] /\ counted = [r \in Runs |-> FALSE]
  /\ latch = "none" /\ slot = "free"
  /\ walk = [w \in Walks |-> NoWalk]
  /\ handled = [r \in Runs |-> {}]
  /\ listed = [r \in Runs |-> {}] /\ missed = [r \in Runs |-> {}]
  /\ left = {} /\ unwritten = {} /\ stuck = FALSE
  /\ faults = 0

Fault == faults < MaxFaults /\ faults' = faults + 1

-----------------------------------------------------------------------------
(* What the owner does.                                                     *)

admit == slot = "free" /\ slot' = "narration"

\* What a segment may list: what there is to walk by then, but for what a query
\* fails to tell; there may be nothing at all.
buildWorklist == SUBSET Items

\* A walk of r begins, with a new list and what the row says of earlier segments.
Begin(r, done, wires) ==
  \E w \in Walks \ Active, list \in buildWorklist :
    /\ walk' = [walk EXCEPT ![w] = [run |-> r, at |-> "next", list |-> list, item |-> 0,
                                    done |-> done, wires |-> wires, wrote |-> FALSE,
                                    skipped |-> FALSE, failed |-> FALSE]]
    /\ listed' = [listed EXCEPT ![r] = list] /\ missed' = [missed EXCEPT ![r] = {}]

\* A run whose walk is alive answers for itself; otherwise the model slot is
\* taken, then the row inserted.  If that write fails, slot and latch stay.
startNarrationWalkJob(r) ==
  /\ status[r] = "none"
  /\ ~\E q \in Runs : latch = q /\ status[q] = "running"
  /\ admit
  /\ latch' = r
  /\ \/ /\ status' = [status EXCEPT ![r] = "running"]
        /\ Begin(r, {}, {})
        /\ UNCHANGED <<stuck, faults>>
     \/ /\ Fault /\ stuck' = TRUE
        /\ UNCHANGED <<status, walk, listVars>>
  /\ UNCHANGED <<doneIds, device, counted, handled, left, unwritten>>

pauseNarration(r) ==
  /\ status[r] = "running"
  /\ status' = [status EXCEPT ![r] = "paused"]
  /\ UNCHANGED <<doneIds, device, counted, latch, slot, walk, handled, listVars, left,
                 unwritten, stuck, faults>>

\* Mutant: a resumed walk starts with a clean record.
makeDeviceTally_Unseeded(r) == {}

\* What the row tells a resumed walk of the wires used before it; no verdict
\* although turns were counted means one that could not be attributed.
makeDeviceTally(r) ==
  CASE device[r] = "off" -> {"off"}
    [] device[r] = "on"  -> {"on"}
    [] OTHER             -> IF counted[r] THEN {"unknown"} ELSE {}

\* Mutant: the walk is not told what is done already.
resumeNarration_FromScratch(r) ==
  /\ status[r] = "paused" /\ latch \in {"none", r}
  /\ admit
  /\ latch' = r
  /\ status' = [status EXCEPT ![r] = "running"]
  /\ Begin(r, {}, makeDeviceTally(r))
  /\ UNCHANGED <<doneIds, device, counted, handled, left, unwritten, stuck, faults>>

resumeNarration(r) ==
  /\ status[r] = "paused" /\ latch \in {"none", r}
  /\ admit
  /\ latch' = r
  /\ \/ /\ status' = [status EXCEPT ![r] = "running"]
        /\ Begin(r, doneIds[r], makeDeviceTally(r))
        /\ UNCHANGED <<stuck, faults>>
     \/ /\ Fault /\ stuck' = TRUE
        /\ UNCHANGED <<status, walk, listVars>>
  /\ UNCHANGED <<doneIds, device, counted, handled, left, unwritten>>

cancelNarration(r) ==
  /\ status[r] \in {"running", "paused"}
  /\ status' = [status EXCEPT ![r] = "canceled"]
  /\ latch' = IF latch = r THEN "none" ELSE latch
  /\ UNCHANGED <<doneIds, device, counted, slot, walk, handled, listVars, left, unwritten,
                 stuck, faults>>

-----------------------------------------------------------------------------
(* The walk.                                                                *)

Set(w, rec) == walk' = [walk EXCEPT ![w] = rec]
Remaining(w) == {i \in walk[w].list : i > walk[w].item /\ i \notin walk[w].done}

\* The last word in the row, then the finally of both paths: slot and latch.
End(w, word) ==
  LET r == walk[w].run
  IN  /\ Set(w, NoWalk)
      /\ slot' = "free"
      /\ latch' = IF latch = r THEN "none" ELSE latch
      /\ status' = [status EXCEPT ![r] = word]

\* A paused or canceled run keeps its word; otherwise it is done, unless it
\* failed and neither wrote nor skipped anything in this segment.
finishNarrationRun(w) ==
  IF status[walk[w].run] # "running" THEN status[walk[w].run]
  ELSE IF walk[w].failed /\ ~walk[w].wrote /\ ~walk[w].skipped THEN "error"
  ELSE "done"

\* The worklist is through, or the row says that the owner wants a stop.
WalkReturns(w) ==
  /\ walk[w].at = "next"
  /\ Remaining(w) = {} \/ status[walk[w].run] # "running"
  /\ End(w, finishNarrationRun(w))
  /\ UNCHANGED <<doneIds, device, counted, handled, listVars, left, unwritten, stuck, faults>>

NextItem(w) == CHOOSE i \in Remaining(w) : \A j \in Remaining(w) : i <= j

\* An entity that is named and has nothing new is skipped without a turn.  The
\* progress it reports carries a Boolean where a count belongs, so that its
\* write is refused and the checkpoint waits for the next turn's.
CoverageSkip(w) ==
  /\ walk[w].at = "next" /\ Remaining(w) # {} /\ status[walk[w].run] = "running"
  /\ LET i == NextItem(w)
     IN  /\ Set(w, [walk[w] EXCEPT !.item = i, !.done = @ \cup {i}, !.skipped = TRUE])
         /\ handled' = [handled EXCEPT ![walk[w].run] = @ \cup {i}]
  /\ UNCHANGED <<rowVars, latch, slot, listVars, left, unwritten, stuck, faults>>

TurnBegins(w) ==
  /\ walk[w].at = "next" /\ Remaining(w) # {} /\ status[walk[w].run] = "running"
  /\ Set(w, [walk[w] EXCEPT !.item = NextItem(w), !.at = "turn"])
  /\ UNCHANGED <<rowVars, latch, slot, handled, listVars, left, unwritten, stuck, faults>>

\* One turn off this device is one too many; one that cannot be attributed
\* leaves the verdict open.
Verdict(wires) ==
  IF "off" \in wires THEN "off"
  ELSE IF wires = {"on"} THEN "on"
  ELSE "null"

\* The row is written from the walk's memory; a failed write is swallowed.
onProgress(rec) ==
  \/ /\ doneIds' = [doneIds EXCEPT ![rec.run] = rec.done]
     /\ device' = [device EXCEPT ![rec.run] = Verdict(rec.wires)]
     /\ counted' = [counted EXCEPT ![rec.run] = rec.wrote]
     /\ UNCHANGED <<unwritten, faults>>
  \/ /\ Fault /\ unwritten' = unwritten \cup {rec.run}
     /\ UNCHANGED <<doneIds, device, counted>>

\* The model answered, wherever it runs: it described the entity or said
\* something and left it.
TurnAnswers(w, wire) ==
  LET rec == [walk[w] EXCEPT !.at = "next", !.done = @ \cup {walk[w].item},
                             !.wires = @ \cup {wire}, !.wrote = TRUE]
  IN  /\ walk[w].at = "turn"
      /\ Set(w, rec)
      /\ handled' = [handled EXCEPT ![rec.run] = @ \cup {rec.item}]
      /\ left' = IF wire = "off" THEN left \cup {rec.run} ELSE left
      /\ onProgress(rec)
      /\ UNCHANGED <<status, latch, slot, listVars, stuck>>

\* Mutant: an entity whose turn failed is checked off.
TurnFails_Checked(w, wires) ==
  LET rec == [walk[w] EXCEPT !.at = "next", !.done = @ \cup {walk[w].item},
                             !.wires = @ \cup wires, !.failed = TRUE]
  IN  /\ walk[w].at = "turn"
      /\ Set(w, rec)
      /\ left' = IF "off" \in wires THEN left \cup {rec.run} ELSE left
      /\ onProgress(rec)
      /\ missed' = [missed EXCEPT ![rec.run] = @ \cup {rec.item}]
      /\ UNCHANGED <<status, latch, slot, handled, listed, stuck>>

\* The turn produced nothing, after its prompt had gone out over a wire, or
\* was refused before any.
TurnFails(w, wires) ==
  LET rec == [walk[w] EXCEPT !.at = "next", !.wires = @ \cup wires, !.failed = TRUE]
  IN  /\ walk[w].at = "turn"
      /\ Set(w, rec)
      /\ left' = IF "off" \in wires THEN left \cup {rec.run} ELSE left
      /\ onProgress(rec)
      /\ missed' = [missed EXCEPT ![rec.run] = @ \cup {rec.item}]
      /\ UNCHANGED <<status, latch, slot, handled, listed, stuck>>

\* A query of the walk, or its last status write, throws: the run is an error,
\* whatever its status was, if at least that can be written.
WalkThrows(w) ==
  /\ Fault
  /\ \E word \in {"error", status[walk[w].run]} : End(w, word)
  /\ unwritten' = unwritten \cup {walk[w].run}
  /\ UNCHANGED <<doneIds, device, counted, handled, listVars, left, stuck>>

-----------------------------------------------------------------------------
(* Its surroundings.                                                        *)

OtherLaneAdmitted == slot = "free" /\ slot' = "other"
OtherLaneReleased == slot = "other" /\ slot' = "free"
OtherLane ==
  /\ OtherLaneAdmitted \/ OtherLaneReleased
  /\ UNCHANGED <<rowVars, latch, walk, handled, listVars, left, unwritten, stuck, faults>>

\* A prompt that was out is not accounted for.
Restart ==
  /\ Fault
  /\ LET cut == {walk[w].run : w \in {v \in Active : walk[v].at = "turn"}}
     IN  unwritten' = unwritten \cup cut /\ left' \in {left, left \cup cut}
  /\ walk' = [w \in Walks |-> NoWalk]
  /\ latch' = "none" /\ slot' = "free" /\ stuck' = FALSE
  /\ UNCHANGED <<rowVars, handled, listVars>>

Owner(r) ==
  \/ startNarrationWalkJob(r) \/ pauseNarration(r)
  \/ resumeNarration(r) \/ cancelNarration(r)

WalkStep(w) ==
  /\ w \in Active
  /\ \/ WalkReturns(w) \/ CoverageSkip(w) \/ TurnBegins(w) \/ WalkThrows(w)
     \/ \E wire \in Wires : TurnAnswers(w, wire)
     \/ \E wires \in {{}} \cup {{x} : x \in Wires} : TurnFails(w, wires)

Next ==
  \/ \E r \in Runs : Owner(r)
  \/ \E w \in Walks : WalkStep(w)
  \/ OtherLane \/ Restart

Spec == Init /\ [][Next]_vars

-----------------------------------------------------------------------------
(* Properties.                                                              *)

\* One walk at a time loads the model, whatever the owner starts, pauses,
\* cancels and resumes while a turn is out, and it holds the model slot; nobody
\* else holds it for narration, except a start or resume whose row could not be
\* written.
OneWalker ==
  /\ Cardinality(Active) <= 1
  /\ slot = "narration" <=> Active # {} \/ stuck

\* The badge "on this device" is never shown for a run that sent something
\* away in any of its segments, unless a progress write of it was lost.
OnDeviceIsTrue == \A r \in left : device[r] = "on" => r \in unwritten

\* The checkpoint of a run holds only what one of its segments really handled.
CheckpointIsHonest == \A r \in Runs : doneIds[r] \subseteq handled[r]

\* One walk, with one checkpoint that can be trusted.
NarrationInv == TypeOK /\ OneWalker /\ CheckpointIsHonest

\* No segment spends a turn on an entity that the checkpoint has.
NothingRedone ==
  \A w \in Active : walk[w].at = "turn" => walk[w].item \notin doneIds[walk[w].run]

\* A run ends as done when every entity of its last worklist was handled, by this
\* segment or an earlier one, or had its turn in vain, and not all of them had.  An
\* empty worklist is done at once, also one that the database would not tell.
DoneIsEarned == \A r \in Runs : status[r] = "done" =>
  /\ listed[r] \subseteq handled[r] \cup missed[r]
  /\ listed[r] # {} => listed[r] \ missed[r] # {}

\* What the screen says of a run, that it is done and that it stayed on this
\* device, is true of what it took for its worklist.
BadgesAreTrue == OnDeviceIsTrue /\ DoneIsEarned

-----------------------------------------------------------------------------
(* What does not hold.                                                      *)

\* A run that accomplished nothing in any segment does not end as done.
DoneDidSomething == \A r \in Runs : status[r] = "done" => handled[r] # {}
=============================================================================
