------------------------- MODULE NarrationRunsProofs -------------------------
(***************************************************************************)
(* What a narration run's checkpoint and badge are worth, for any number of *)
(* runs and entities and any number of pauses, lost writes and crashes.     *)
(***************************************************************************)
EXTENDS NarrationRuns, FiniteSetTheorems, TLAPS

WalksOK == walk \in [Walks -> WalkRecs \cup {NoWalk}]

(* One walk at most, and none beside an admission that got stuck.           *)
WalkerInv ==
  /\ \A v, w \in Active : v = w
  /\ slot = "narration" <=> Active # {} \/ stuck
  /\ stuck => Active = {}

(* How far a walk is on its worklist l: what lies behind it is done, or in  *)
(* the set m of entities whose turn was in vain.                            *)
Progress(rec, l, m) ==
  /\ rec.list = l
  /\ m \cap rec.done = {}
  /\ m # {} => rec.failed
  /\ rec.wrote \/ rec.skipped => l \cap rec.done # {}
  /\ \A i \in m : i <= rec.item
  /\ \A i \in l :
       i < rec.item \/ (i = rec.item /\ rec.at = "next") => i \in rec.done \cup m
  /\ rec.at = "turn" => rec.item \in l \ (rec.done \cup m)

(* What a walk remembers covers the row of its run, was really handled, and *)
(* knows of every wire but those whose writes were lost.                    *)
RecordInv == \A w \in Active :
  LET r == walk[w].run
  IN  /\ status[r] \in {"running", "paused", "canceled"}
      /\ doneIds[r] \subseteq walk[w].done /\ walk[w].done \subseteq handled[r]
      /\ Progress(walk[w], listed[r], missed[r])
      /\ r \in left \ unwritten => "off" \in walk[w].wires

(* What the rows say.                                                       *)
RowInv ==
  /\ CheckpointIsHonest /\ DoneIsEarned
  /\ \A r \in left \ unwritten : device[r] = "off"
  /\ \A r \in Runs : status[r] = "none" => doneIds[r] = {} /\ r \notin left

IInv == TypeOK /\ WalksOK /\ WalkerInv /\ RecordInv /\ RowInv

-----------------------------------------------------------------------------
(* The next entity of a walk is one that remains.                           *)

LEMMA Least ==
  ASSUME NEW S \in SUBSET Nat, S # {}
  PROVE  \E i \in S : \A j \in S : i <= j
<1> DEFINE Below == {ij \in Nat \X Nat : ij[1] < ij[2]}
<1>1. IsWellFoundedOn(Below, Nat)
  BY NatLessThanWellFounded DEF OpToRel
<1>2. PICK i \in S : \A j \in S : <<j, i>> \notin Below
  <2> HIDE DEF Below
  <2>1. QED
    BY <1>1, WFMin
<1>3. ASSUME NEW j \in S PROVE i <= j
  <2>1. i \in Nat /\ j \in Nat /\ <<j, i>> \notin Below
    BY <1>2
  <2>2. ~(j < i)
    BY <2>1
  <2>3. QED
    BY <2>1, <2>2
<1>4. QED
  BY <1>3

LEMMA NextRemains ==
  ASSUME NEW w, walk[w] \in WalkRecs, Remaining(w) # {}
  PROVE  /\ NextItem(w) \in Remaining(w)
         /\ \A i \in walk[w].list : i < NextItem(w) => i \in walk[w].done \/ i <= walk[w].item
<1>1. walk[w].list \in SUBSET Nat /\ walk[w].item \in Nat
  BY NarrationAssumption DEF Items, WalkRecs
<1>2. Remaining(w) \in SUBSET Nat
  BY <1>1 DEF Remaining
<1>3. NextItem(w) \in Remaining(w) /\ \A j \in Remaining(w) : NextItem(w) <= j
  BY <1>2, Least DEF NextItem
<1>4. ASSUME NEW i \in walk[w].list, i < NextItem(w)
      PROVE  i \in walk[w].done \/ i <= walk[w].item
  <2>1. i \notin Remaining(w)
    BY <1>1, <1>2, <1>3, <1>4
  <2>2. QED
    BY <1>1, <2>1 DEF Remaining
<1>5. QED
  BY <1>3, <1>4

-----------------------------------------------------------------------------
(* How steps change the walks.                                              *)

Alone(w) == Active = {w} /\ walk[w] \in WalkRecs /\ walk[w].run \in Runs

LEMMA ActiveAlone ==
  ASSUME IInv, NEW w \in Active
  PROVE  Alone(w) /\ slot = "narration" /\ ~stuck /\ w \in Walks
BY NarrationAssumption DEF IInv, WalksOK, WalkerInv, Active, NoWalk, WalkRecs, Alone

\* A walk that goes on stays the only one.
LEMMA GoesOn ==
  ASSUME IInv, NEW w \in Active, NEW rec \in WalkRecs, Set(w, rec)
  PROVE  WalksOK' /\ Active' = {w} /\ walk'[w] = rec
<1>1. rec # NoWalk
  BY NarrationAssumption DEF NoWalk, WalkRecs
<1>2. w \in Walks /\ Active = {w}
  BY ActiveAlone DEF Alone
<1>3. walk' = [walk EXCEPT ![w] = rec] /\ walk \in [Walks -> WalkRecs \cup {NoWalk}]
  BY DEF Set, IInv, WalksOK
<1>4. WalksOK' /\ walk'[w] = rec
  BY <1>2, <1>3 DEF WalksOK
<1>5. QED
  BY <1>1, <1>2, <1>3, <1>4 DEF Active

\* A walk that is over leaves none.
LEMMA IsOver ==
  ASSUME IInv, NEW w \in Active, Set(w, NoWalk)
  PROVE  WalksOK' /\ Active' = {}
<1>1. w \in Walks /\ Active = {w}
  BY ActiveAlone DEF Alone
<1>2. walk' = [walk EXCEPT ![w] = NoWalk] /\ walk \in [Walks -> WalkRecs \cup {NoWalk}]
  BY DEF Set, IInv, WalksOK
<1>3. QED
  BY <1>1, <1>2 DEF Active, WalksOK

\* A walk begins alone, with an empty record but for what it is told.
FirstRec(r, list, done, wires) ==
  [run |-> r, at |-> "next", list |-> list, item |-> 0, done |-> done, wires |-> wires,
   wrote |-> FALSE, skipped |-> FALSE, failed |-> FALSE]

LEMMA Begins ==
  ASSUME IInv, NEW r \in Runs, NEW done \in SUBSET Items, NEW wires \in SUBSET Wires,
         admit, Begin(r, done, wires)
  PROVE  /\ ~stuck /\ WalksOK'
         /\ \E w \in Walks, list \in SUBSET Items :
              /\ Active' = {w} /\ walk'[w] = FirstRec(r, list, done, wires)
              /\ listed' = [listed EXCEPT ![r] = list] /\ missed' = [missed EXCEPT ![r] = {}]
<1>1. ~stuck /\ Active = {}
  BY DEF IInv, WalkerInv, admit
<1>2. PICK w \in Walks, list \in SUBSET Items :
        /\ walk' = [walk EXCEPT ![w] = FirstRec(r, list, done, wires)]
        /\ listed' = [listed EXCEPT ![r] = list] /\ missed' = [missed EXCEPT ![r] = {}]
  BY DEF Begin, buildWorklist, FirstRec
<1>3. FirstRec(r, list, done, wires) \in WalkRecs
  BY NarrationAssumption DEF FirstRec, WalkRecs
<1>4. FirstRec(r, list, done, wires) # NoWalk
  BY NarrationAssumption DEF FirstRec, NoWalk
<1>5. walk \in [Walks -> WalkRecs \cup {NoWalk}]
  BY DEF IInv, WalksOK
<1> HIDE DEF FirstRec
<1>6. WalksOK' /\ walk'[w] = FirstRec(r, list, done, wires)
  BY <1>2, <1>3, <1>5 DEF WalksOK
<1>7. Active' = {w}
  BY <1>1, <1>2, <1>4, <1>5 DEF Active
<1>8. QED
  BY <1>1, <1>2, <1>6, <1>7

\* The record that a walk's step leaves is well formed.
LEMMA RecordTypes ==
  ASSUME NEW rec \in WalkRecs
  PROVE  /\ \A i \in Items :
              /\ [rec EXCEPT !.item = i, !.at = "turn"] \in WalkRecs
              /\ [rec EXCEPT !.item = i, !.done = @ \cup {i}, !.skipped = TRUE] \in WalkRecs
         /\ rec.item \in Items => \A wire \in Wires :
              [rec EXCEPT !.at = "next", !.done = @ \cup {rec.item}, !.wires = @ \cup {wire},
                          !.wrote = TRUE] \in WalkRecs
         /\ \A wires \in SUBSET Wires :
              [rec EXCEPT !.at = "next", !.wires = @ \cup wires, !.failed = TRUE] \in WalkRecs
<1> USE DEF WalkRecs
<1>1. rec.done \subseteq Items /\ rec.wires \subseteq Wires /\ Items \subseteq 0..NumItems
  BY NarrationAssumption DEF Items
<1>2. ASSUME NEW i \in Items
      PROVE  [rec EXCEPT !.item = i, !.at = "turn"] \in WalkRecs
  BY <1>1
<1>3. ASSUME NEW i \in Items
      PROVE  [rec EXCEPT !.item = i, !.done = @ \cup {i}, !.skipped = TRUE] \in WalkRecs
  <2>1. rec.done \cup {i} \in SUBSET Items /\ TRUE \in BOOLEAN
    BY <1>1
  <2>2. QED
    BY <1>1, <2>1
<1>4. ASSUME rec.item \in Items, NEW wire \in Wires
      PROVE  [rec EXCEPT !.at = "next", !.done = @ \cup {rec.item}, !.wires = @ \cup {wire},
                         !.wrote = TRUE] \in WalkRecs
  <2>1. rec.done \cup {rec.item} \in SUBSET Items /\ rec.wires \cup {wire} \in SUBSET Wires
    BY <1>1, <1>4
  <2>2. QED
    BY <2>1
<1>5. ASSUME NEW wires \in SUBSET Wires
      PROVE  [rec EXCEPT !.at = "next", !.wires = @ \cup wires, !.failed = TRUE] \in WalkRecs
  <2>1. rec.wires \cup wires \in SUBSET Wires
    BY <1>1
  <2>2. QED
    BY <2>1
<1>6. QED
  BY <1>2, <1>3, <1>4, <1>5

\* A walk that goes to its next entity, and one whose turn is over, is as far as
\* its record says.
LEMMA NextProgress ==
  ASSUME NEW rec \in WalkRecs, NEW l, NEW m \in SUBSET Items, Progress(rec, l, m),
         rec.at = "next", NEW i \in l \ rec.done, i > rec.item,
         \A x \in l : x < i => x \in rec.done \/ x <= rec.item
  PROVE  /\ Progress([rec EXCEPT !.item = i, !.at = "turn"], l, m)
         /\ Progress([rec EXCEPT !.item = i, !.done = @ \cup {i}, !.skipped = TRUE], l, m)
<1>1. /\ l \subseteq Nat /\ m \subseteq Nat /\ rec.item \in Nat /\ i \in Nat
      /\ \A x \in m : x <= rec.item
  BY NarrationAssumption DEF WalkRecs, Progress, Items
<1>2. i \notin m /\ \A x \in m : x <= i
  BY <1>1
<1>3. \A x \in l : x < i => x \in rec.done \cup m
  BY <1>1 DEF Progress
<1>4. QED
  BY <1>1, <1>2, <1>3 DEF Progress, WalkRecs

LEMMA TurnProgress ==
  ASSUME NEW rec \in WalkRecs, NEW l, NEW m \in SUBSET Items, Progress(rec, l, m),
         rec.at = "turn"
  PROVE  /\ \A wire : Progress([rec EXCEPT !.at = "next", !.done = @ \cup {rec.item},
                                            !.wires = @ \cup {wire}, !.wrote = TRUE], l, m)
         /\ \A wires : Progress([rec EXCEPT !.at = "next", !.wires = @ \cup wires,
                                             !.failed = TRUE], l, m \cup {rec.item})
<1>1. /\ l \subseteq Nat /\ m \subseteq Nat /\ rec.item \in Nat
      /\ rec.item \in l \ (rec.done \cup m)
  BY NarrationAssumption DEF WalkRecs, Progress, Items
<1>2. \A x \in l : x < rec.item => x \in rec.done \cup m
  BY DEF Progress
<1>3. QED
  BY <1>1, <1>2 DEF Progress, WalkRecs

-----------------------------------------------------------------------------
(* Each step preserves the invariant.                                       *)

\* A start or resume: its walk knows what the row says, or none begins.
LEMMA StartStep ==
  ASSUME IInv, NEW r \in Runs, admit, latch' = r,
         NEW done, NEW wires \in SUBSET Wires,
         done = doneIds[r], r \in left \ unwritten => "off" \in wires,
         \/ /\ status' = [status EXCEPT ![r] = "running"]
            /\ Begin(r, done, wires)
            /\ UNCHANGED <<stuck, faults>>
         \/ /\ Fault /\ stuck' = TRUE
            /\ UNCHANGED <<status, walk, listVars>>,
         UNCHANGED <<doneIds, device, counted, handled, left, unwritten>>
  PROVE  IInv'
<1> USE NarrationAssumption DEF IInv, admit, listVars
<1>1. done \in SUBSET Items /\ done \subseteq handled[r]
  BY DEF TypeOK, RowInv, CheckpointIsHonest
<1>2. CASE /\ status' = [status EXCEPT ![r] = "running"]
           /\ Begin(r, done, wires)
           /\ UNCHANGED <<stuck, faults>>
  <2>1. PICK w \in Walks, list \in SUBSET Items :
          /\ Active' = {w} /\ walk'[w] = FirstRec(r, list, done, wires)
          /\ listed' = [listed EXCEPT ![r] = list] /\ missed' = [missed EXCEPT ![r] = {}]
    BY <1>1, <1>2, Begins
  <2>2. WalksOK' /\ ~stuck
    BY <1>1, <1>2, Begins
  <2>3. TypeOK'
    BY <1>2, <2>1, <2>2 DEF TypeOK, WalksOK
  <2>4. WalkerInv'
    BY <1>2, <2>1, <2>2 DEF WalkerInv
  <2>5. RecordInv'
    <3>1. status'[r] = "running" /\ listed'[r] = list /\ missed'[r] = {}
      BY <1>2, <2>1 DEF TypeOK
    <3>2. Progress(FirstRec(r, list, done, wires), list, {})
      BY NarrationAssumption DEF Progress, FirstRec, Items
    <3>3. QED
      BY <1>1, <2>1, <3>1, <3>2 DEF RecordInv, FirstRec
  <2>6. RowInv'
    BY <1>2, <2>1 DEF TypeOK, RowInv, CheckpointIsHonest, DoneIsEarned
  <2>7. QED
    BY <2>2, <2>3, <2>4, <2>5, <2>6
<1>3. CASE Fault /\ stuck' = TRUE /\ UNCHANGED <<status, walk, listVars>>
  <2>1. Active' = {} /\ WalksOK'
    BY <1>3 DEF WalkerInv, WalksOK, Active
  <2>2. TypeOK'
    BY <1>3 DEF TypeOK, Fault
  <2>3. WalkerInv' /\ RecordInv' /\ RowInv'
    BY <1>3, <2>1 DEF WalkerInv, RecordInv, RowInv, CheckpointIsHonest, DoneIsEarned
  <2>4. QED
    BY <2>1, <2>2, <2>3
<1>4. QED
  BY <1>2, <1>3

\* A row that gets another status, but not that of a run that is done.
LEMMA StatusStep ==
  ASSUME IInv, NEW r \in Runs, NEW word \in {"paused", "canceled"},
         status' = [status EXCEPT ![r] = word],
         latch' \in Runs \cup {"none"},
         UNCHANGED <<doneIds, device, counted, slot, walk, handled, listVars, left, unwritten,
                     stuck, faults>>
  PROVE  IInv'
<1> USE DEF IInv, listVars
<1>1. TypeOK'
  BY DEF TypeOK
<1>2. WalksOK' /\ WalkerInv' /\ RecordInv'
  BY DEF TypeOK, WalksOK, WalkerInv, RecordInv, Active, WalkRecs, NoWalk
<1>3. RowInv'
  BY DEF TypeOK, RowInv, CheckpointIsHonest, DoneIsEarned
<1>4. QED
  BY <1>1, <1>2, <1>3

Earned(r) ==
  /\ listed[r] \subseteq handled[r] \cup missed[r]
  /\ listed[r] # {} => listed[r] \ missed[r] # {}

\* A walk ends with a word that, if it is "done", is earned.
LEMMA EndStep ==
  ASSUME IInv, NEW w \in Active,
         NEW word \in {"running", "paused", "canceled", "done", "error"},
         word = "done" => Earned(walk[w].run),
         End(w, word),
         unwritten \subseteq unwritten', unwritten' \subseteq Runs, faults' \in 0..MaxFaults,
         UNCHANGED <<doneIds, device, counted, handled, listVars, left, stuck>>
  PROVE  IInv'
<1> USE DEF IInv, listVars
<1>1. Alone(w) /\ ~stuck
  BY ActiveAlone
<1>2. WalksOK' /\ Active' = {}
  BY IsOver DEF End
<1>3. TypeOK'
  BY <1>1, <1>2 DEF TypeOK, WalksOK, End, Alone
<1>4. WalkerInv' /\ RecordInv'
  BY <1>1, <1>2 DEF WalkerInv, RecordInv, End
<1>5. RowInv'
  BY <1>1 DEF TypeOK, RowInv, CheckpointIsHonest, DoneIsEarned, Earned, End, Alone
<1>6. QED
  BY <1>2, <1>3, <1>4, <1>5

\* A walk that goes on, with a record that covers what the row says and what was
\* handled.
WalkGoesOn(w, rec) ==
  /\ Set(w, rec)
  /\ rec.run = walk[w].run /\ walk[w].done \subseteq rec.done
  /\ rec.done \subseteq handled'[rec.run]
  /\ Progress(rec, listed[rec.run], missed'[rec.run])

LEMMA GoesOnStep ==
  ASSUME IInv, NEW w \in Active, NEW rec \in WalkRecs, WalkGoesOn(w, rec),
         handled' \in [Runs -> SUBSET Items], \A r \in Runs : handled[r] \subseteq handled'[r],
         walk[w].wires = rec.wires,
         UNCHANGED <<rowVars, latch, slot, listVars, left, unwritten, stuck, faults>>
  PROVE  IInv'
<1> USE DEF IInv, listVars
<1>1. Alone(w)
  BY ActiveAlone
<1>2. WalksOK' /\ Active' = {w} /\ walk'[w] = rec
  BY GoesOn DEF WalkGoesOn
<1>3. TypeOK'
  BY <1>2 DEF TypeOK, WalksOK, rowVars
<1>4. WalkerInv'
  BY <1>1, <1>2 DEF WalkerInv, Alone
<1>5. RecordInv'
  BY <1>1, <1>2 DEF RecordInv, WalkGoesOn, rowVars
<1>6. RowInv'
  BY DEF RowInv, CheckpointIsHonest, DoneIsEarned, rowVars
<1>7. QED
  BY <1>2, <1>3, <1>4, <1>5, <1>6

\* A turn is over and its progress written or lost.
LEMMA TurnStep ==
  ASSUME IInv, NEW w \in Active, NEW rec \in WalkRecs, WalkGoesOn(w, rec),
         handled' \in [Runs -> SUBSET Items], \A r \in Runs : handled[r] \subseteq handled'[r],
         NEW wires \in SUBSET Wires, rec.wires = walk[w].wires \cup wires,
         left' = IF "off" \in wires THEN left \cup {rec.run} ELSE left,
         missed' \in [Runs -> SUBSET Items],
         \A r \in Runs \ {rec.run} : missed'[r] = missed[r],
         onProgress(rec),
         UNCHANGED <<status, latch, slot, listed, stuck>>
  PROVE  IInv'
<1> USE DEF IInv
<1>1. Alone(w) /\ rec.run \in Runs /\ status[rec.run] \in {"running", "paused", "canceled"}
  BY ActiveAlone DEF Alone, WalkGoesOn, RecordInv
<1>2. WalksOK' /\ Active' = {w} /\ walk'[w] = rec
  BY GoesOn DEF WalkGoesOn
<1>3. rec.run \in left' \ unwritten => "off" \in rec.wires
  BY <1>1 DEF RecordInv, WalkGoesOn
<1>4. WalkerInv'
  BY <1>1, <1>2 DEF WalkerInv, Alone
<1>5. CASE /\ doneIds' = [doneIds EXCEPT ![rec.run] = rec.done]
           /\ device' = [device EXCEPT ![rec.run] = Verdict(rec.wires)]
           /\ counted' = [counted EXCEPT ![rec.run] = rec.wrote]
           /\ UNCHANGED <<unwritten, faults>>
  <2>1. TypeOK'
    <3>1. Verdict(rec.wires) \in {"on", "off", "null"}
      BY DEF Verdict
    <3>2. rec.done \subseteq Items /\ rec.wrote \in BOOLEAN
      BY DEF WalkRecs
    <3>3. left' \subseteq Runs
      BY <1>1 DEF TypeOK
    <3>4. QED
      BY <1>1, <1>2, <1>5, <3>1, <3>2, <3>3 DEF TypeOK, WalksOK
  <2>2. RecordInv'
    BY <1>1, <1>2, <1>3, <1>5 DEF TypeOK, WalkGoesOn, RecordInv
  <2>3. RowInv'
    <3>1. CheckpointIsHonest' /\ DoneIsEarned'
      BY <1>1, <1>5 DEF TypeOK, RowInv, CheckpointIsHonest, DoneIsEarned, WalkGoesOn
    <3>2. ASSUME NEW q \in left' \ unwritten' PROVE device'[q] = "off"
      <4>1. CASE q = rec.run
        <5>1. "off" \in rec.wires
          BY <1>3, <1>5, <3>2, <4>1
        <5>2. Verdict(rec.wires) = "off"
          BY <5>1 DEF Verdict
        <5>3. QED
          BY <1>1, <1>5, <4>1, <5>2 DEF TypeOK
      <4>2. CASE q # rec.run
        BY <1>1, <1>5, <3>2, <4>2 DEF TypeOK, RowInv
      <4>3. QED
        BY <4>1, <4>2
    <3>3. ASSUME NEW q \in Runs, status'[q] = "none" PROVE doneIds'[q] = {} /\ q \notin left'
      BY <1>1, <1>5, <3>3 DEF TypeOK, RowInv
    <3>4. QED
      BY <3>1, <3>2, <3>3 DEF RowInv
  <2>4. QED
    BY <1>2, <1>4, <2>1, <2>2, <2>3
<1>6. CASE Fault /\ unwritten' = unwritten \cup {rec.run} /\ UNCHANGED <<doneIds, device, counted>>
  <2>1. TypeOK'
    BY <1>1, <1>2, <1>6, NarrationAssumption DEF TypeOK, WalksOK, Fault
  <2>2. RecordInv'
    BY <1>1, <1>2, <1>6 DEF TypeOK, RecordInv, WalkGoesOn
  <2>3. RowInv'
    BY <1>1, <1>6 DEF TypeOK, RowInv, CheckpointIsHonest, DoneIsEarned
  <2>4. QED
    BY <1>2, <1>4, <2>1, <2>2, <2>3
<1>7. QED
  BY <1>5, <1>6 DEF onProgress

LEMMA InvStep == IInv /\ [Next]_vars => IInv'
<1> SUFFICES ASSUME IInv, [Next]_vars PROVE IInv'
  OBVIOUS
<1> USE NarrationAssumption DEF IInv
<1>1. ASSUME NEW r \in Runs, startNarrationWalkJob(r) PROVE IInv'
  <2>1. doneIds[r] = {} /\ r \notin left
    BY <1>1 DEF startNarrationWalkJob, RowInv
  <2>2. QED
    BY <1>1, <2>1, StartStep DEF startNarrationWalkJob
<1>2. ASSUME NEW r \in Runs, pauseNarration(r) PROVE IInv'
  BY <1>2, StatusStep DEF pauseNarration, TypeOK
<1>3. ASSUME NEW r \in Runs, resumeNarration(r) PROVE IInv'
  <2>1. makeDeviceTally(r) \in SUBSET Wires
    BY DEF makeDeviceTally, Wires
  <2>2. r \in left \ unwritten => "off" \in makeDeviceTally(r)
    BY DEF makeDeviceTally, RowInv
  <2>3. QED
    BY <1>3, <2>1, <2>2, StartStep DEF resumeNarration
<1>4. ASSUME NEW r \in Runs, cancelNarration(r) PROVE IInv'
  BY <1>4, StatusStep DEF cancelNarration, TypeOK
<1>5. ASSUME NEW w \in Active, WalkReturns(w) PROVE IInv'
  <2>1. Alone(w)
    BY ActiveAlone
  <2>2. status[walk[w].run] \in {"running", "paused", "canceled", "done", "error"}
    BY <2>1 DEF TypeOK, Alone, RecordInv
  <2>3. finishNarrationRun(w) \in {"running", "paused", "canceled", "done", "error"}
    BY <2>2 DEF finishNarrationRun
  <2>4. finishNarrationRun(w) = "done" => Earned(walk[w].run)
    <3> SUFFICES ASSUME finishNarrationRun(w) = "done" PROVE Earned(walk[w].run)
      OBVIOUS
    <3> DEFINE r == walk[w].run
    <3>1. status[r] = "running" /\ Remaining(w) = {}
      BY <1>5 DEF finishNarrationRun, RecordInv, WalkReturns
    <3>2. ~walk[w].failed \/ walk[w].wrote \/ walk[w].skipped
      BY <3>1 DEF finishNarrationRun
    <3>3. Progress(walk[w], listed[r], missed[r]) /\ walk[w].done \subseteq handled[r]
      BY DEF RecordInv
    <3>4. listed[r] \subseteq walk[w].done \cup missed[r]
      <4> SUFFICES ASSUME NEW i \in listed[r] PROVE i \in walk[w].done \cup missed[r]
        OBVIOUS
      <4>1. i \in walk[w].list /\ i \in Nat /\ walk[w].item \in Nat
        BY <2>1, <3>3 DEF Progress, Alone, WalkRecs, Items
      <4>2. i <= walk[w].item \/ i \in walk[w].done
        BY <3>1, <4>1 DEF Remaining
      <4>3. QED
        BY <1>5, <3>3, <4>1, <4>2 DEF Progress, WalkReturns
    <3>5. listed[r] # {} => listed[r] \ missed[r] # {}
      BY <3>2, <3>3 DEF Progress
    <3>6. QED
      BY <3>3, <3>4, <3>5 DEF Earned
  <2>5. QED
    BY <1>5, <2>3, <2>4, EndStep DEF WalkReturns, TypeOK
<1>6. ASSUME NEW w \in Active, CoverageSkip(w) PROVE IInv'
  <2> DEFINE i == NextItem(w)
             rec == [walk[w] EXCEPT !.item = i, !.done = @ \cup {i}, !.skipped = TRUE]
  <2>1. Alone(w)
    BY ActiveAlone
  <2>7. /\ i \in walk[w].list \ walk[w].done /\ i > walk[w].item
        /\ \A x \in walk[w].list : x < i => x \in walk[w].done \/ x <= walk[w].item
        /\ i \in Items /\ walk[w].at = "next"
    BY <1>6, <2>1, NextRemains DEF CoverageSkip, Remaining, Alone, WalkRecs
  <2>8. Progress(rec, listed[walk[w].run], missed[walk[w].run])
    <3>1. Progress(walk[w], listed[walk[w].run], missed[walk[w].run])
      BY DEF RecordInv
    <3>2. walk[w].list = listed[walk[w].run] /\ missed[walk[w].run] \in SUBSET Items
      BY <2>1, <3>1 DEF Progress, TypeOK, Alone
    <3>3. i \in listed[walk[w].run] \ walk[w].done /\ walk[w] \in WalkRecs
      BY <2>1, <2>7, <3>2 DEF Alone
    <3>4. QED
      BY <2>7, <3>1, <3>2, <3>3, NextProgress
  <2>2. rec \in WalkRecs
    BY <2>1, <2>7, RecordTypes DEF Alone
  <2>3. handled' = [handled EXCEPT ![walk[w].run] = @ \cup {i}] /\ Set(w, rec)
    BY <1>6 DEF CoverageSkip
  <2>4. WalkGoesOn(w, rec) /\ rec.wires = walk[w].wires
    BY <1>6, <2>1, <2>3, <2>8 DEF CoverageSkip, listVars, WalkGoesOn, RecordInv, TypeOK, Alone,
       WalkRecs
  <2>5. handled' \in [Runs -> SUBSET Items] /\ \A r \in Runs : handled[r] \subseteq handled'[r]
    BY <2>1, <2>3, <2>7 DEF TypeOK, Alone
  <2> HIDE DEF rec
  <2>6. QED
    BY <1>6, <2>2, <2>4, <2>5, GoesOnStep DEF CoverageSkip
<1>7. ASSUME NEW w \in Active, TurnBegins(w) PROVE IInv'
  <2> DEFINE i == NextItem(w)
             rec == [walk[w] EXCEPT !.item = i, !.at = "turn"]
  <2>1. Alone(w)
    BY ActiveAlone
  <2>6. /\ i \in walk[w].list \ walk[w].done /\ i > walk[w].item
        /\ \A x \in walk[w].list : x < i => x \in walk[w].done \/ x <= walk[w].item
        /\ i \in Items /\ walk[w].at = "next"
    BY <1>7, <2>1, NextRemains DEF TurnBegins, Remaining, Alone, WalkRecs
  <2>7. Progress(rec, listed[walk[w].run], missed[walk[w].run])
    <3>1. Progress(walk[w], listed[walk[w].run], missed[walk[w].run])
      BY DEF RecordInv
    <3>2. walk[w].list = listed[walk[w].run] /\ missed[walk[w].run] \in SUBSET Items
      BY <2>1, <3>1 DEF Progress, TypeOK, Alone
    <3>3. i \in listed[walk[w].run] \ walk[w].done /\ walk[w] \in WalkRecs
      BY <2>1, <2>6, <3>2 DEF Alone
    <3>4. QED
      BY <2>6, <3>1, <3>2, <3>3, NextProgress
  <2>2. rec \in WalkRecs
    BY <2>1, <2>6, RecordTypes DEF Alone
  <2>3. Set(w, rec) /\ handled' = handled
    BY <1>7 DEF TurnBegins
  <2>4. WalkGoesOn(w, rec) /\ rec.wires = walk[w].wires
    BY <1>7, <2>1, <2>3, <2>7 DEF TurnBegins, listVars, WalkGoesOn, RecordInv, Alone, WalkRecs
  <2> HIDE DEF rec
  <2>5. QED
    BY <1>7, <2>2, <2>3, <2>4, GoesOnStep DEF TurnBegins, TypeOK
<1>8. ASSUME NEW w \in Active, WalkThrows(w) PROVE IInv'
  <2>1. Alone(w)
    BY ActiveAlone
  <2>2. PICK word \in {"error", status[walk[w].run]} : End(w, word)
    BY <1>8 DEF WalkThrows
  <2>3. word \in {"running", "paused", "canceled", "done", "error"}
    BY <2>1 DEF TypeOK, Alone, RecordInv
  <2>4. word # "done"
    BY DEF RecordInv
  <2>5. unwritten \subseteq unwritten' /\ unwritten' \subseteq Runs /\ faults' \in 0..MaxFaults
    BY <1>8, <2>1 DEF WalkThrows, Fault, TypeOK, Alone
  <2>6. QED
    BY <1>8, <2>2, <2>3, <2>4, <2>5, EndStep DEF WalkThrows
<1>9. ASSUME NEW w \in Active, NEW wire \in Wires, TurnAnswers(w, wire) PROVE IInv'
  <2> DEFINE rec == [walk[w] EXCEPT !.at = "next", !.done = @ \cup {walk[w].item},
                                    !.wires = @ \cup {wire}, !.wrote = TRUE]
  <2>1. Alone(w) /\ walk[w].item \in Items
    BY <1>9, ActiveAlone DEF TurnAnswers, RecordInv, Progress, Alone, WalkRecs
  <2>9. Progress(rec, listed[walk[w].run], missed[walk[w].run])
    BY <1>9, <2>1, TurnProgress DEF TurnAnswers, RecordInv, TypeOK, Alone
  <2>2. rec \in WalkRecs
    BY <2>1, RecordTypes DEF Alone
  <2>3. rec.run = walk[w].run /\ rec.wires = walk[w].wires \cup {wire} /\ rec.item = walk[w].item
    BY <2>1 DEF Alone, WalkRecs
  <2>4. /\ Set(w, rec) /\ onProgress(rec)
        /\ handled' = [handled EXCEPT ![rec.run] = @ \cup {walk[w].item}]
        /\ left' = IF "off" \in {wire} THEN left \cup {rec.run} ELSE left
        /\ UNCHANGED <<status, latch, slot, listVars, stuck>>
    BY <1>9, <2>3 DEF TurnAnswers
  <2>5. WalkGoesOn(w, rec)
    BY <2>1, <2>3, <2>4, <2>9 DEF listVars, WalkGoesOn, RecordInv, TypeOK, Alone, WalkRecs
  <2>6. handled' \in [Runs -> SUBSET Items] /\ \A r \in Runs : handled[r] \subseteq handled'[r]
    BY <2>1, <2>3, <2>4 DEF TypeOK, Alone
  <2>7. {wire} \in SUBSET Wires
    OBVIOUS
  <2> HIDE DEF rec
  <2>8. QED
    BY <2>2, <2>3, <2>4, <2>5, <2>6, <2>7, TurnStep DEF TypeOK, listVars
<1>10. ASSUME NEW w \in Active, NEW wires \in SUBSET Wires, TurnFails(w, wires) PROVE IInv'
  <2> DEFINE rec == [walk[w] EXCEPT !.at = "next", !.wires = @ \cup wires, !.failed = TRUE]
  <2>1. Alone(w) /\ walk[w].item \in Items
    BY <1>10, ActiveAlone DEF TurnFails, RecordInv, Progress, Alone, WalkRecs
  <2>7. Progress(rec, listed[walk[w].run], missed[walk[w].run] \cup {walk[w].item})
    BY <1>10, <2>1, TurnProgress DEF TurnFails, RecordInv, TypeOK, Alone
  <2>2. rec \in WalkRecs
    BY <2>1, RecordTypes DEF Alone
  <2>3. rec.run = walk[w].run /\ rec.wires = walk[w].wires \cup wires /\ rec.item = walk[w].item
    BY <2>1 DEF Alone, WalkRecs
  <2>4. /\ Set(w, rec) /\ onProgress(rec) /\ handled' = handled
        /\ left' = IF "off" \in wires THEN left \cup {rec.run} ELSE left
        /\ missed' = [missed EXCEPT ![rec.run] = @ \cup {walk[w].item}]
        /\ UNCHANGED <<status, latch, slot, listed, stuck>>
    BY <1>10, <2>3 DEF TurnFails
  <2>8. /\ missed' \in [Runs -> SUBSET Items]
        /\ missed'[rec.run] = missed[rec.run] \cup {walk[w].item}
        /\ \A q \in Runs \ {rec.run} : missed'[q] = missed[q]
    BY <2>1, <2>3, <2>4 DEF TypeOK, Alone
  <2>5. WalkGoesOn(w, rec)
    BY <2>1, <2>3, <2>4, <2>7, <2>8 DEF WalkGoesOn, RecordInv, Alone, WalkRecs
  <2> HIDE DEF rec
  <2>6. QED
    BY <2>2, <2>3, <2>4, <2>5, <2>8, TurnStep DEF TypeOK
<1>11. CASE OtherLane
  <2>1. slot # "narration" /\ slot' # "narration" /\ slot' \in {"free", "narration", "other"}
    BY <1>11 DEF OtherLane, OtherLaneAdmitted, OtherLaneReleased
  <2>2. UNCHANGED <<rowVars, latch, walk, handled, listVars, left, unwritten, stuck, faults>>
    BY <1>11 DEF OtherLane
  <2>3. QED
    BY <2>1, <2>2 DEF TypeOK, WalksOK, WalkerInv, RecordInv, RowInv, CheckpointIsHonest,
         DoneIsEarned, Active, rowVars, listVars
<1>12. CASE Restart
  <2> DEFINE cut == {walk[w].run : w \in {v \in Active : walk[v].at = "turn"}}
  <2>1. cut \subseteq Runs /\ \A r \in cut : status[r] # "none"
    BY ActiveAlone DEF Alone, RecordInv
  <2>2. unwritten' = unwritten \cup cut /\ left' \in {left, left \cup cut}
    BY <1>12 DEF Restart
  <2> HIDE DEF cut
  <2>3. WalksOK' /\ Active' = {}
    BY <1>12 DEF Restart, WalksOK, Active
  <2>4. /\ left' \subseteq Runs /\ unwritten' \subseteq Runs
        /\ left' \ unwritten' \subseteq left \ unwritten
    BY <2>1, <2>2 DEF TypeOK
  <2>5. TypeOK'
    <3>1. faults' \in 0..MaxFaults /\ latch' \in Runs \cup {"none"}
      BY <1>12 DEF Restart, TypeOK, Fault
    <3>2. \A w \in Walks : walk'[w] = NoWalk \/ walk'[w] \in WalkRecs
      BY <2>3 DEF WalksOK
    <3>3. QED
      BY <1>12, <2>4, <3>1, <3>2 DEF Restart, TypeOK, rowVars, listVars
  <2>6. RowInv'
    BY <1>12, <2>1, <2>2, <2>4 DEF Restart, RowInv, CheckpointIsHonest, DoneIsEarned, rowVars,
       listVars
  <2>7. QED
    BY <1>12, <2>3, <2>5, <2>6 DEF Restart, WalkerInv, RecordInv
<1>13. CASE UNCHANGED vars
  BY <1>13 DEF vars, rowVars, listVars, TypeOK, WalksOK, WalkerInv, RecordInv, RowInv,
       CheckpointIsHonest, DoneIsEarned, Active
<1>14. QED
  BY <1>1, <1>2, <1>3, <1>4, <1>5, <1>6, <1>7, <1>8, <1>9, <1>10, <1>11, <1>12, <1>13
     DEF Next, Owner, WalkStep

-----------------------------------------------------------------------------
(* What it comes to.                                                        *)

\* The invariant holds in every reachable state.
THEOREM Invariance == Spec => []IInv
<1>1. Init => IInv
  <2> SUFFICES ASSUME Init PROVE IInv
    OBVIOUS
  <2>1. Active = {} /\ WalksOK
    BY DEF Init, Active, WalksOK
  <2>2. TypeOK
    <3>1. 0 \in 0..MaxFaults
      BY NarrationAssumption
    <3>2. \A w \in Walks : walk[w] = NoWalk \/ walk[w] \in WalkRecs
      BY <2>1 DEF WalksOK
    <3>3. counted \in [Runs -> BOOLEAN] /\ stuck \in BOOLEAN
      BY Zenon DEF Init
    <3>4. QED
      BY <3>1, <3>2, <3>3 DEF Init, TypeOK
  <2>3. QED
    BY <2>1, <2>2 DEF Init, IInv, WalkerInv, RecordInv, RowInv, CheckpointIsHonest, DoneIsEarned
<1>2. QED
  BY <1>1, InvStep, PTL DEF Spec

\* One walk at a time has the model, with a checkpoint that holds only what was
\* handled.
THEOREM OneHonestWalker == Spec => []NarrationInv
<1>1. IInv => Cardinality(Active) <= 1
  <2> SUFFICES ASSUME IInv PROVE Cardinality(Active) \in {0, 1}
    OBVIOUS
  <2>1. \A w \in Active : Active = {w}
    BY DEF IInv, WalkerInv
  <2>2. CASE Active = {}
    BY <2>2, FS_EmptySet
  <2>3. CASE \E w : Active = {w}
    BY <2>3, FS_Singleton
  <2>4. QED
    BY <2>1, <2>2, <2>3
<1>2. IInv => NarrationInv
  BY <1>1 DEF IInv, WalkerInv, RowInv, NarrationInv, OneWalker
<1>3. QED
  BY <1>2, Invariance, PTL

\* What the screen says of a run is true of what it took for its worklist: if it
\* is done, every entity of the last one was handled or failed, and not all of them
\* failed (an empty list, also one that could not be read, is done at once); and
\* nothing of it left this device if it says so, unless that write was lost.
THEOREM BadgesTrue == Spec => []BadgesAreTrue
<1>1. IInv => BadgesAreTrue
  BY DEF IInv, RowInv, BadgesAreTrue, OnDeviceIsTrue
<1>2. QED
  BY <1>1, Invariance, PTL

\* No turn is spent on an entity that the checkpoint has.
THEOREM TurnsAreNew == Spec => []NothingRedone
<1>1. IInv => NothingRedone
  BY DEF IInv, RecordInv, Progress, NothingRedone
<1>2. QED
  BY <1>1, Invariance, PTL
=============================================================================
