----------------------- MODULE EnrichmentDrainerProofs -----------------------
(***************************************************************************)
(* What the drain guarantees for any number of messages, imports, attempts  *)
(* and batch sizes: the columns of a row that nobody wrote under a writer's *)
(* hands tell the truth, no message falls between the queues, an attempt is *)
(* counted once in a cycle, and a row that was given up stays so.           *)
(***************************************************************************)
EXTENDS EnrichmentDrainer, FiniteSetTheorems, NaturalsInduction, TLAPS

Texts  == 0..MaxText
Vecs   == -1..MaxText
Counts == 0..EMBED_MAX_ATTEMPTS
RowRecs == [nlp : {-1, 0, 1, 2}, mark : {"none", "retry", "capped", "error"}, n : Counts,
            vec : Vecs, text : Texts, cat : {-1, 0, 1}, forgotten : BOOLEAN]

\* What RowsTellTheTruth and NothingStranded say of the columns of one row.
Truthful(r) ==
  /\ r.vec # NoVec => r.nlp # 0 /\ ~r.forgotten
  /\ r.cat = 1 => r.vec # NoVec \/ r.forgotten
Placed(r, m) ==
  r.vec = NoVec /\ ~r.forgotten => r.nlp \in {0, -1} \/ (r.nlp = 1 /\ nature[m] = "blank")

\* A pending row has attempts left.
Counted(r) == r.nlp = 0 => r.n < EMBED_MAX_ATTEMPTS

RowInv ==
  /\ \A m \in Messages : Counted(row[m]) /\ prior[m] < EMBED_MAX_ATTEMPTS
  /\ \A m \in Messages \ overwritten : Truthful(row[m]) /\ Placed(row[m], m)

\* Only a loop over rows has rows to write; of a pass, each is tried once, and
\* once in the cycle it may be judged.
LoopInv ==
  /\ pc \notin {"rows", "judge", "labelRows", "nlpRows"} => todo = {}
  /\ pc \notin {"rows", "judge"} => transient = {}
  /\ pc = "rows" => todo \cap transient = {} /\ Cardinality(todo) <= candidates
  /\ pc = "judge" => todo \cap cycleSet = {}

\* What a writer remembers of a row is still so, unless the row was overwritten;
\* and nothing that is written under the embedder's hands gives a row up.
HandInv == \A m \in Messages :
  /\ pc \in {"rows", "judge"} /\ InHand(m) =>
       /\ row[m].nlp \in {0, 1}
       /\ m \notin overwritten => row[m].nlp = 0 /\ ~row[m].forgotten /\ prior[m] = row[m].n
  /\ pc = "labelRows" /\ m \in todo \ overwritten => row[m].vec # NoVec
  /\ pc = "nlpRows" /\ m \in todo \ overwritten => row[m].nlp = 2 /\ ~row[m].forgotten

\* A vector v of m is of its text, or the re-queue that text owes is under way,
\* or lost.
Current(v, m) == v = row[m].text \/ requeues[m] > 0 \/ m \in missed

\* So is the one a row has, and the one a writer is about to compute.
TextInv == \A m \in Messages \ overwritten :
  /\ row[m].vec # NoVec => Current(row[m].vec, m)
  /\ pc \in {"rows", "judge"} /\ InHand(m) => Current(seen[m], m)

\* The rows a cycle has judged, and those it is about to judge among several.
Judged == IF pc = "judge" /\ candidates > 1 THEN cycleSet \cup todo ELSE cycleSet

\* The first row judged among several while nothing embeds spends the probe.
ProbeInv ==
  /\ pc \notin {"pass", "rows", "judge"} => cycleSet = {}
  /\ ~cycleEmbedded /\ ~progress =>
       /\ \A m, x \in Judged \ alone : m = x
       /\ Judged \ alone # {} => sentinel

IInv == TypeOK /\ RowInv /\ LoopInv /\ HandInv /\ TextInv /\ ProbeInv

-----------------------------------------------------------------------------
(* Arithmetic.                                                              *)

\* A non-empty set of naturals below a bound has a greatest element.
LEMMA Greatest ==
  ASSUME NEW K \in Nat, NEW S \in SUBSET (0..K), S # {}
  PROVE  \E m \in S : \A x \in S : x <= m
<1> DEFINE Below == {ij \in Nat \X Nat : ij[1] < ij[2]}
           T == {K - x : x \in S}
<1>1. IsWellFoundedOn(Below, Nat)
  BY NatLessThanWellFounded DEF OpToRel
<1>2. T \subseteq Nat /\ T # {}
  <2>1. \A x \in S : x \in Nat /\ x <= K /\ K - x \in Nat
    OBVIOUS
  <2>2. QED
    BY <2>1
<1>3. PICK t \in T : \A y \in T : <<y, t>> \notin Below
  <2> HIDE DEF Below, T
  <2>1. QED
    BY <1>1, <1>2, WFMin
<1>4. PICK m \in S : t = K - m
  BY <1>3
<1>5. ASSUME NEW x \in S PROVE x <= m
  <2>1. K - x \in T /\ <<K - x, t>> \notin Below
    BY <1>3
  <2>2. ~(K - x < t) /\ K - x \in Nat /\ t \in Nat
    BY <1>2, <2>1
  <2>3. QED
    BY <1>4, <2>2
<1>6. QED
  BY <1>5

\* A select returns no more rows than it asks for.
LEMMA OldestIs ==
  ASSUME NEW S \in SUBSET Messages, NEW k \in Nat
  PROVE  /\ Oldest(S, k) \subseteq S /\ IsFiniteSet(Oldest(S, k))
         /\ Cardinality(Oldest(S, k)) \in 0..k
<1> DEFINE T == Oldest(S, k)
<1>1. N \in Nat /\ IsFiniteSet(Messages)
  BY DrainerAssumption, FS_Interval DEF Messages
<1>2. T \subseteq S /\ IsFiniteSet(S) /\ IsFiniteSet(T)
  BY <1>1, FS_Subset DEF Oldest
<1>3. Cardinality(T) \in Nat
  BY <1>2, FS_CardinalityType
<1>4. CASE T = {}
  BY <1>2, <1>4, FS_EmptySet
<1>5. CASE T # {}
  <2>1. T \in SUBSET (0..N)
    <3>1. \A x \in S : x \in 0..N
      BY <1>1 DEF Messages
    <3>2. QED
      BY <1>2, <3>1
  <2>2. PICK m \in T : \A x \in T : x <= m
    BY <1>1, <1>5, <2>1, Greatest
  <2>3. T \ {m} \subseteq {x \in S : x < m} /\ IsFiniteSet({x \in S : x < m})
    BY <1>1, <1>2, <2>1, <2>2, FS_Subset
  <2>4. Cardinality(T \ {m}) <= Cardinality({x \in S : x < m})
    BY <2>3, FS_Subset
  <2>5. Cardinality(T \ {m}) = Cardinality(T) - 1
    BY <1>2, <2>2, FS_RemoveElement
  <2>6. Cardinality({x \in S : x < m}) < k /\ Cardinality({x \in S : x < m}) \in Nat
    BY <2>2, <2>3, FS_CardinalityType DEF Oldest
  <2>7. QED
    BY <1>2, <1>3, <2>4, <2>5, <2>6
<1>6. QED
  BY <1>4, <1>5

\* The back-off, a power of two, is within its limit.
LEMMA StallBackoffType ==
  ASSUME NEW k \in Nat, k >= STALL_BACKOFF_AFTER
  PROVE  StallBackoff(k) \in 0..STALL_BACKOFF_MAX_CYCLES
<1> DEFINE n == k - STALL_BACKOFF_AFTER + 1
<1>1. STALL_BACKOFF_MAX_CYCLES \in Nat /\ n \in Nat
  BY DrainerAssumption
<1>2. 2^n \in Nat
  <2>1. IsFiniteSet(1..n) /\ Cardinality(1..n) = n
    BY <1>1, FS_Interval
  <2>2. IsFiniteSet(SUBSET (1..n)) /\ Cardinality(SUBSET (1..n)) = 2^n
    BY <2>1, FS_SUBSET
  <2>3. QED
    BY <2>2, FS_CardinalityType
<1>3. QED
  BY <1>1, <1>2 DEF StallBackoff

-----------------------------------------------------------------------------
(* The statements, each on one row.                                         *)

\* What the bounds of the columns contain.
LEMMA Bounds ==
  /\ 0 \in Counts /\ 0 \in Vecs /\ NoVec \in Vecs /\ 0 < EMBED_MAX_ATTEMPTS
  /\ \A t \in Texts : t \in Vecs /\ t # NoVec /\ (t < MaxText => t + 1 \in Texts)
  /\ \A n \in Counts : n \in Nat /\ (n < EMBED_MAX_ATTEMPTS => n + 1 \in Counts)
BY DrainerAssumption DEF Counts, Vecs, Texts, NoVec

\* The columns the extraction writes.
LEMMA UpdateNlpIs ==
  ASSUME NEW r \in RowRecs, NEW k \in {-1, 1}, NEW mark \in {"none", "error"}
  PROVE  LET u == updateNlp(r, k, mark)
         IN  /\ u \in RowRecs /\ u.nlp = k /\ u.mark = mark /\ u.n = 0 /\ u.vec = r.vec
             /\ u.text = r.text /\ u.cat = r.cat /\ u.forgotten = r.forgotten
BY Bounds DEF updateNlp, RowRecs

\* The column the labelling writes.
LEMMA UpdateCategoriesIs ==
  ASSUME NEW r \in RowRecs, NEW c \in {-1, 1}
  PROVE  LET u == updateCategories(r, c)
         IN  /\ u \in RowRecs /\ u.cat = c /\ u.nlp = r.nlp /\ u.mark = r.mark /\ u.n = r.n
             /\ u.vec = r.vec /\ u.text = r.text /\ u.forgotten = r.forgotten
BY DEF updateCategories, RowRecs

\* Each reset gives back to the queue rows without a vector only.
Reset(r, h) ==
  /\ h \in RowRecs /\ h.vec = r.vec /\ h.text = r.text /\ h.forgotten = r.forgotten
  /\ h.n \in {0, r.n} /\ h.cat \in {0, r.cat}
  /\ \/ h.nlp = r.nlp /\ h.mark \in {"none", r.mark}
     \/ r.nlp = -1 /\ r.vec = NoVec /\ h.nlp = 0 /\ h.n = 0

\* The three resets are resets; the self-heal leaves a given-up row alone.
LEMMA ResetIs ==
  ASSUME NEW r \in RowRecs
  PROVE  /\ Reset(r, selfHealStrandedEmbeds(r)) /\ Reset(r, reclaimGaveUpRows(r))
         /\ Reset(r, resetEnrichmentGiveUps(r))
         /\ GaveUp(r) => selfHealStrandedEmbeds(r) = r
<1> DEFINE e == IF GaveUp(r) THEN [r EXCEPT !.nlp = 0, !.mark = "none", !.n = 0] ELSE r
           h == IF e.cat = -1 THEN [e EXCEPT !.cat = 0] ELSE e
<1> USE Bounds
<1>1. Reset(r, selfHealStrandedEmbeds(r)) /\ (GaveUp(r) => selfHealStrandedEmbeds(r) = r)
  BY DEF selfHealStrandedEmbeds, RowRecs, Reset, GaveUp
<1>2. Reset(r, e)
  BY DEF GaveUp, RowRecs, Reset
<1>3. Reset(e, h) /\ h.nlp = e.nlp /\ h.n = e.n /\ h.mark = e.mark
  <2> HIDE DEF e
  <2>1. QED
    BY <1>2 DEF RowRecs, Reset
<1>4. h = reclaimGaveUpRows(r)
  BY DEF reclaimGaveUpRows
<1>5. Reset(r, h)
  <2> HIDE DEF e, h
  <2>1. QED
    BY <1>2, <1>3 DEF Reset
<1>6. Reset(r, resetEnrichmentGiveUps(r))
  <2> HIDE DEF h
  <2>1. resetEnrichmentGiveUps(r) =
          IF h.nlp = 0 /\ h.mark = "retry" THEN [h EXCEPT !.mark = "none", !.n = 0] ELSE h
    BY <1>4 DEF resetEnrichmentGiveUps
  <2>2. QED
    BY <1>5, <2>1 DEF RowRecs, Reset
<1>7. QED
  BY <1>1, <1>4, <1>5, <1>6

\* A reset row is as good as it was.
LEMMA ResetKeeps ==
  ASSUME NEW m \in Messages, NEW r \in RowRecs, NEW h, Reset(r, h)
  PROVE  /\ Counted(r) => Counted(h)
         /\ Truthful(r) => Truthful(h)
         /\ Placed(r, m) => Placed(h, m)
BY Bounds DEF Reset, RowRecs, Counted, Truthful, Placed

\* Edits, a re-queue and redaction take the vector; what is left is pending, or
\* as it was.
LEMMA OwnersAre ==
  ASSUME NEW m \in Messages, NEW r \in RowRecs, NEW u,
         \/ r.text < MaxText /\ u = updateContent(r, r.text + 1)
         \/ u = markForReembed(r)
         \/ u = redact(r)
  PROVE  /\ u \in RowRecs /\ u.nlp \in {0, r.nlp} /\ u.n \in {0, r.n}
         /\ u.vec = NoVec \/ u = r
         /\ Counted(r) => Counted(u)
         /\ Truthful(r) => Truthful(u)
         /\ Truthful(r) /\ Placed(r, m) => Placed(u, m)
<1>1. r.text \in Texts /\ r.n \in Counts /\ 0 \in Counts /\ NoVec \in Vecs /\ 0 < EMBED_MAX_ATTEMPTS
  BY Bounds DEF RowRecs
<1>2. r.text < MaxText => r.text + 1 \in Texts
  BY <1>1, Bounds
<1> DEFINE Taken == /\ u \in RowRecs /\ u.vec = NoVec /\ u.nlp \in {0, r.nlp} /\ u.n \in {0, r.n}
                    /\ u.cat \in {0, r.cat} /\ u.forgotten \in BOOLEAN
                    /\ \/ u.nlp = 0 /\ u.n = 0 /\ u.cat = 0 /\ u.forgotten = r.forgotten
                       \/ r.vec = NoVec /\ u.nlp = r.nlp /\ u.n = r.n /\ u.cat = r.cat
                          /\ u.forgotten = r.forgotten
                       \/ u.forgotten /\ u.n = 0
<1>3. ASSUME r.text < MaxText, u = updateContent(r, r.text + 1)
      PROVE  Taken
  <2>1. /\ u = [r EXCEPT !.text = r.text + 1, !.vec = NoVec, !.nlp = 0, !.mark = "none",
                        !.n = 0, !.cat = 0]
        /\ r.text + 1 \in Texts
    BY <1>2, <1>3 DEF updateContent
  <2>2. Taken
    BY <1>1, <2>1 DEF RowRecs
  <2>3. QED
    BY <2>2
<1>4. ASSUME u = markForReembed(r)
      PROVE  Taken \/ u = r
  <2>1. CASE r.vec # NoVec /\ ~r.forgotten
    <3>1. u = [r EXCEPT !.vec = NoVec, !.nlp = 0, !.mark = "none", !.n = 0, !.cat = 0]
      BY <1>4, <2>1 DEF markForReembed
    <3>2. QED
      BY <1>1, <2>1, <3>1 DEF RowRecs
  <2>2. CASE ~(r.vec # NoVec /\ ~r.forgotten)
    BY <1>4, <2>2 DEF markForReembed
  <2>3. QED
    BY <2>1, <2>2
<1>5. ASSUME u = redact(r)
      PROVE  Taken
  BY <1>1, <1>5 DEF redact, RowRecs
<1>6. Taken \/ u = r
  BY <1>3, <1>4, <1>5
<1>7. Counted(r) => Counted(u)
  BY <1>1, <1>6 DEF Counted
<1>8. Truthful(r) => Truthful(u)
  BY <1>6 DEF Truthful, RowRecs
<1>9. Truthful(r) /\ Placed(r, m) => Placed(u, m)
  BY <1>6 DEF Placed, Truthful, RowRecs
<1>10. QED
  BY <1>6, <1>7, <1>8, <1>9

-----------------------------------------------------------------------------
(* What the steps that write rows write.                                    *)

\* A loop writes one row and leaves the others alone.
Writes(m, r) ==
  /\ r \in RowRecs /\ row' \in [Messages -> RowRecs] /\ row'[m] = r
  /\ \A x \in Messages \ {m} : row'[x] = row[x]

\* One row is written by an EXCEPT.
LEMMA Written ==
  ASSUME TypeOK, NEW m \in Messages, NEW r \in RowRecs, row' = [row EXCEPT ![m] = r]
  PROVE  Writes(m, r)
BY DEF TypeOK, RowRecs, Counts, Vecs, Texts, Writes

\* A row of the table is a record of these columns.
LEMMA RowType == TypeOK => row \in [Messages -> RowRecs]
BY DEF TypeOK, RowRecs, Counts, Vecs, Texts

Same(r, o) == r.text = o.text /\ r.cat = o.cat /\ r.forgotten = o.forgotten

\* The embedder's write: the row is left to the judge, skipped, set aside, or
\* given the vector of the text that was read.
LEMMA EmbedRowWrites ==
  ASSUME TypeOK, NEW m \in Messages, EmbedRow(m)
  PROVE  /\ Writes(m, row'[m]) /\ Same(row'[m], row[m])
         /\ \/ row'[m] = row[m] /\ transient' = transient \cup {m}
            \/ /\ transient' = transient /\ row'[m].n = 0
               /\ \/ row'[m].vec = row[m].vec /\ row'[m].nlp = 1 /\ nature[m] = "blank"
                  \/ row'[m].vec = row[m].vec /\ row'[m].nlp = -1
                  \/ row'[m].vec = seen[m] /\ row'[m].nlp = 2
<1>1. row \in [Messages -> RowRecs] /\ row[m] \in RowRecs
  BY RowType
<1>2. row[m].vec \in Vecs /\ seen[m] \in Vecs /\ 0 \in Counts
  BY <1>1, DrainerAssumption DEF TypeOK, RowRecs, Vecs, Counts
<1>3. CASE row' = row /\ transient' = transient \cup {m}
  BY <1>1, <1>3 DEF Writes, Same
<1>4. CASE /\ row' = [row EXCEPT ![m] = updateEnrichment(row[m], row[m].vec, 1, "none", 0)]
           /\ transient' = transient /\ nature[m] = "blank"
  <2> DEFINE u == updateEnrichment(row[m], row[m].vec, 1, "none", 0)
  <2>1. /\ u \in RowRecs /\ Same(u, row[m])
        /\ u.vec = row[m].vec /\ u.nlp = 1 /\ u.n = 0
    BY <1>1, <1>2 DEF updateEnrichment, RowRecs, Same
  <2>2. Writes(m, u)
    BY <1>4, <2>1, Written
  <2>3. QED
    BY <1>4, <2>1, <2>2 DEF Writes
<1>5. CASE /\ row' = [row EXCEPT ![m] = updateEnrichment(row[m], row[m].vec, -1, "error", 0)]
           /\ transient' = transient
  <2> DEFINE u == updateEnrichment(row[m], row[m].vec, -1, "error", 0)
  <2>1. /\ u \in RowRecs /\ Same(u, row[m])
        /\ u.vec = row[m].vec /\ u.nlp = -1 /\ u.n = 0
    BY <1>1, <1>2 DEF updateEnrichment, RowRecs, Same
  <2>2. Writes(m, u)
    BY <1>5, <2>1, Written
  <2>3. QED
    BY <1>5, <2>1, <2>2 DEF Writes
<1>6. CASE /\ row' = [row EXCEPT ![m] = updateEnrichment(row[m], seen[m], 2, "none", 0)]
           /\ transient' = transient
  <2> DEFINE u == updateEnrichment(row[m], seen[m], 2, "none", 0)
  <2>1. /\ u \in RowRecs /\ Same(u, row[m])
        /\ u.vec = seen[m] /\ u.nlp = 2 /\ u.n = 0
    BY <1>1, <1>2 DEF updateEnrichment, RowRecs, Same
  <2>2. Writes(m, u)
    BY <1>6, <2>1, Written
  <2>3. QED
    BY <1>6, <2>1, <2>2 DEF Writes
<1>7. QED
  BY <1>3, <1>4, <1>5, <1>6 DEF EmbedRow

\* The judge's: a vector, or one more attempt than was read, the last of which
\* gives the row up.
LEMMA JudgeRowWrites ==
  ASSUME TypeOK, RowInv, NEW m \in Messages, JudgeRow(m)
  PROVE  /\ Writes(m, row'[m]) /\ Same(row'[m], row[m])
         /\ \/ row'[m].n = 0 /\ row'[m].vec = seen[m] /\ row'[m].nlp = 2
            \/ /\ row'[m].n = prior[m] + 1 /\ row'[m].vec = row[m].vec
               /\ row'[m].nlp = -1 \/ (row'[m].nlp = 0 /\ row'[m].n < EMBED_MAX_ATTEMPTS)
<1>1. row \in [Messages -> RowRecs] /\ row[m] \in RowRecs
  BY RowType
<1>2. /\ row[m].vec \in Vecs /\ seen[m] \in Vecs /\ 0 \in Counts /\ prior[m] + 1 \in Counts
  BY <1>1, DrainerAssumption DEF TypeOK, RowInv, RowRecs, Vecs, Counts
<1>3. CASE row' = [row EXCEPT ![m] = updateEnrichment(row[m], seen[m], 2, "none", 0)]
  <2> DEFINE u == updateEnrichment(row[m], seen[m], 2, "none", 0)
  <2>1. /\ u \in RowRecs /\ Same(u, row[m])
        /\ u.vec = seen[m] /\ u.nlp = 2 /\ u.n = 0
    BY <1>1, <1>2 DEF updateEnrichment, RowRecs, Same
  <2>2. Writes(m, u)
    BY <1>3, <2>1, Written
  <2>3. QED
    BY <1>3, <2>1, <2>2 DEF Writes
<1>4. CASE row' = [row EXCEPT ![m] =
                     updateEnrichment(row[m], row[m].vec, -1, "capped", prior[m] + 1)]
  <2> DEFINE u == updateEnrichment(row[m], row[m].vec, -1, "capped", prior[m] + 1)
  <2>1. /\ u \in RowRecs /\ Same(u, row[m])
        /\ u.vec = row[m].vec /\ u.nlp = -1 /\ u.n = prior[m] + 1
    BY <1>1, <1>2 DEF updateEnrichment, RowRecs, Same
  <2>2. Writes(m, u)
    BY <1>4, <2>1, Written
  <2>3. QED
    BY <1>4, <2>1, <2>2 DEF Writes
<1>5. CASE /\ prior[m] + 1 < EMBED_MAX_ATTEMPTS
           /\ row' = [row EXCEPT ![m] =
                        updateEnrichment(row[m], row[m].vec, 0, "retry", prior[m] + 1)]
  <2> DEFINE u == updateEnrichment(row[m], row[m].vec, 0, "retry", prior[m] + 1)
  <2>1. /\ u \in RowRecs /\ Same(u, row[m])
        /\ u.vec = row[m].vec /\ u.nlp = 0 /\ u.n = prior[m] + 1
    BY <1>1, <1>2 DEF updateEnrichment, RowRecs, Same
  <2>2. Writes(m, u)
    BY <1>5, <2>1, Written
  <2>3. QED
    BY <1>5, <2>1, <2>2 DEF Writes
<1>6. QED
  BY <1>3, <1>4, <1>5 DEF JudgeRow

\* The labeller's: the tag only.
LEMMA LabelRowWrites ==
  ASSUME TypeOK, NEW m \in Messages, LabelRow(m)
  PROVE  /\ Writes(m, row'[m]) /\ row'[m].text = row[m].text /\ row'[m].vec = row[m].vec
         /\ row'[m].forgotten = row[m].forgotten /\ row'[m].nlp = row[m].nlp
         /\ row'[m].n = row[m].n
<1>1. row \in [Messages -> RowRecs] /\ row[m] \in RowRecs
  BY RowType
<1>2. CASE row' = row
  BY <1>1, <1>2 DEF Writes
<1>3. CASE \E c \in {-1, 1} : row' = [row EXCEPT ![m] = updateCategories(row[m], c)]
  BY <1>1, <1>3, UpdateCategoriesIs, Written DEF Writes
<1>4. QED
  BY <1>2, <1>3 DEF LabelRow

\* The extractor's: the state of the row only.
LEMMA NlpRowWrites ==
  ASSUME TypeOK, NEW m \in Messages, NlpRow(m)
  PROVE  /\ Writes(m, row'[m]) /\ Same(row'[m], row[m]) /\ row'[m].vec = row[m].vec
         /\ row'[m].nlp \in {1, -1} /\ row'[m].n = 0
<1>1. row \in [Messages -> RowRecs] /\ row[m] \in RowRecs
  BY RowType
<1>2. PICK k \in {1, -1} :
        row' = [row EXCEPT ![m] = updateNlp(row[m], k, IF k = 1 THEN "none" ELSE "error")]
  BY DEF NlpRow
<1>3. QED
  BY <1>1, <1>2, UpdateNlpIs, Written DEF Writes, Same

\* What the owner or a re-queue writes is lost on a writer that holds the row.
LEMMA OwnerWrites ==
  ASSUME TypeOK, NEW m \in Messages, EditMessage(m) \/ Requeue(m) \/ Forget(m)
  PROVE  /\ Writes(m, row'[m])
         /\ overwritten' = IF InHand(m) THEN overwritten \cup {m} ELSE overwritten
         /\ row'[m].nlp \in {0, row[m].nlp} /\ row'[m].n \in {0, row[m].n}
         /\ row'[m].vec = NoVec \/ row'[m] = row[m]
         /\ Counted(row[m]) => Counted(row'[m])
         /\ Truthful(row[m]) => Truthful(row'[m])
         /\ Truthful(row[m]) /\ Placed(row[m], m) => Placed(row'[m], m)
<1>1. row \in [Messages -> RowRecs] /\ row[m] \in RowRecs
  BY RowType
<1>2. PICK u :
        /\ row' = [row EXCEPT ![m] = u]
        /\ overwritten' = IF InHand(m) THEN overwritten \cup {m} ELSE overwritten
        /\ \/ row[m].text < MaxText /\ u = updateContent(row[m], row[m].text + 1)
           \/ u = markForReembed(row[m])
           \/ u = redact(row[m])
  BY DEF EditMessage, Requeue, Forget, Write
<1>3. /\ u \in RowRecs /\ u.nlp \in {0, row[m].nlp} /\ u.n \in {0, row[m].n}
      /\ u.vec = NoVec \/ u = row[m]
      /\ Counted(row[m]) => Counted(u)
      /\ Truthful(row[m]) => Truthful(u)
      /\ Truthful(row[m]) /\ Placed(row[m], m) => Placed(u, m)
  BY <1>1, <1>2, OwnersAre
<1>4. Writes(m, u)
  BY <1>2, <1>3, Written
<1>5. QED
  BY <1>2, <1>3, <1>4 DEF Writes

\* Text that is stored on an attachment changes no column of the message, and
\* neither does a re-queue that fails.
LEMMA DerivedWrites ==
  ASSUME TypeOK, NEW m \in Messages, DerivedText(m) \/ RequeueLost(m)
  PROVE  /\ Writes(m, row'[m]) /\ overwritten' = overwritten
         /\ row'[m].nlp = row[m].nlp /\ row'[m].mark = row[m].mark /\ row'[m].n = row[m].n
         /\ row'[m].vec = row[m].vec /\ row'[m].cat = row[m].cat
         /\ row'[m].forgotten = row[m].forgotten
         /\ Counted(row[m]) => Counted(row'[m])
         /\ Truthful(row[m]) => Truthful(row'[m])
         /\ Placed(row[m], m) => Placed(row'[m], m)
<1>1. row \in [Messages -> RowRecs] /\ row[m] \in RowRecs
  BY RowType
<1>2. CASE RequeueLost(m)
  BY <1>1, <1>2 DEF RequeueLost, Writes
<1>3. CASE DerivedText(m)
  <2> DEFINE u == [row[m] EXCEPT !.text = row[m].text + 1]
  <2>1. row' = [row EXCEPT ![m] = u] /\ row[m].text + 1 \in Texts /\ overwritten' = overwritten
    BY <1>1, <1>3, Bounds DEF DerivedText, RowRecs
  <2>2. /\ u \in RowRecs /\ u.nlp = row[m].nlp /\ u.mark = row[m].mark /\ u.n = row[m].n
        /\ u.vec = row[m].vec /\ u.cat = row[m].cat /\ u.forgotten = row[m].forgotten
    BY <1>1, <2>1 DEF RowRecs
  <2>3. Writes(m, u)
    BY <2>1, <2>2, Written
  <2>4. QED
    BY <2>1, <2>2, <2>3 DEF Writes, Counted, Truthful, Placed
<1>4. QED
  BY <1>2, <1>3

\* An import's: the exported vector.
LEMMA ImportWrites ==
  ASSUME TypeOK, NEW i \in Imports, NEW m \in Messages, ImportVector(i, m)
  PROVE  /\ Writes(m, row'[m]) /\ Same(row'[m], row[m])
         /\ row'[m].vec = 0 /\ row'[m].nlp = 1 /\ row'[m].n = row[m].n
<1>1. row \in [Messages -> RowRecs] /\ row[m] \in RowRecs
  BY RowType
<1>2. row' = [row EXCEPT ![m] = [row[m] EXCEPT !.vec = 0, !.nlp = 1]]
  BY DEF ImportVector
<1>3. /\ [row[m] EXCEPT !.vec = 0, !.nlp = 1] \in RowRecs
      /\ Same([row[m] EXCEPT !.vec = 0, !.nlp = 1], row[m])
      /\ [row[m] EXCEPT !.vec = 0, !.nlp = 1].vec = 0
      /\ [row[m] EXCEPT !.vec = 0, !.nlp = 1].nlp = 1
      /\ [row[m] EXCEPT !.vec = 0, !.nlp = 1].n = row[m].n
  BY <1>1, Bounds DEF RowRecs, Same
<1>4. QED
  BY <1>2, <1>3, Written DEF Writes

\* A reset of the whole table.
Resets == row' \in [Messages -> RowRecs] /\ \A m \in Messages : Reset(row[m], row'[m])

\* The boot's reclaim, the self-heal and the owner's retry are resets.
LEMMA TableResets ==
  ASSUME TypeOK, StartCycle \/ AdmitEmbed \/ RetryFailed
  PROVE  Resets
<1>1. row \in [Messages -> RowRecs]
  BY RowType
<1>2. \/ row' = row
      \/ row' = [m \in Messages |-> selfHealStrandedEmbeds(row[m])]
      \/ row' = [m \in Messages |-> reclaimGaveUpRows(row[m])]
      \/ row' = [m \in Messages |-> resetEnrichmentGiveUps(row[m])]
  BY DEF StartCycle, AdmitEmbed, RetryFailed
<1>3. \A m \in Messages : Reset(row[m], row[m])
  BY <1>1 DEF Reset
<1>4. \A m \in Messages : /\ Reset(row[m], selfHealStrandedEmbeds(row[m]))
                          /\ Reset(row[m], reclaimGaveUpRows(row[m]))
                          /\ Reset(row[m], resetEnrichmentGiveUps(row[m]))
  BY <1>1, ResetIs
<1>5. \A m \in Messages : Reset(row[m], row'[m])
  BY <1>2, <1>3, <1>4
<1>6. \A m \in Messages : row'[m] \in RowRecs
  BY <1>5 DEF Reset
<1>7. row' = [m \in Messages |-> row'[m]]
  BY <1>1, <1>2
<1>8. QED
  BY <1>5, <1>6, <1>7 DEF Resets

-----------------------------------------------------------------------------
(* The types, kept part by part.                                            *)

RowTypes ==
  /\ row \in [Messages -> RowRecs] /\ nature \in Mixes
  /\ overwritten \subseteq Messages /\ missed \subseteq Messages
  /\ requeues \in [Messages -> Nat]

LoopTypes ==
  /\ pc \in Stages
  /\ todo \subseteq Messages /\ transient \subseteq Messages /\ cycleSet \subseteq Messages
  /\ alone \subseteq Messages
  /\ seen \in [Messages -> Texts] /\ prior \in [Messages -> Counts]
  /\ passes \in 0..MAX_PASSES /\ candidates \in 0..BATCH

FlagTypes ==
  /\ embedOk \in BOOLEAN /\ sentinel \in BOOLEAN /\ cycleEmbedded \in BOOLEAN
  /\ embedMoved \in BOOLEAN /\ progress \in BOOLEAN /\ moved \in BOOLEAN
  /\ idleHealthOk \in BOOLEAN /\ stallBounced \in BOOLEAN /\ cappedReclaimed \in BOOLEAN
  /\ embedPaused \in BOOLEAN /\ categorizePaused \in BOOLEAN

MemTypes ==
  /\ ended \in {"drained", "stalled", "threw", "open"}
  /\ noProgress \in 0..NoProgressCap
  /\ stallBackoff \in 0..STALL_BACKOFF_MAX_CYCLES
  /\ labelAttempts \in [Messages -> 0..LABEL_MAX_ATTEMPTS]
  /\ service \in {"up", "down", "shedding"}
  /\ importing \in [Imports -> {"none", "open", "done"}]
  /\ events \in 0..MaxEvents

\* The four parts are the type invariant.
LEMMA TypeParts == TypeOK <=> RowTypes /\ LoopTypes /\ FlagTypes /\ MemTypes
BY DEF TypeOK, RowTypes, LoopTypes, FlagTypes, MemTypes, RowRecs, Counts, Vecs, Texts

\* The initial state: every row pending, nothing in hand.
LEMMA InitIInv == Init => IInv
<1> SUFFICES ASSUME Init PROVE IInv
  OBVIOUS
<1>1. RowTypes /\ LoopTypes /\ MemTypes
  BY Bounds, DrainerAssumption DEF Init, RowTypes, LoopTypes, MemTypes, RowRecs, Stages,
     NoProgressCap, Texts
<1>2. FlagTypes
  BY Zenon DEF Init, FlagTypes
<1>3. TypeOK
  BY <1>1, <1>2, TypeParts
<1>4. RowInv
  BY Bounds DEF Init, RowInv, Counted, Truthful, Placed
<1>5. LoopInv /\ HandInv
  BY DEF Init, LoopInv, HandInv, InHand
<1>6. TextInv /\ ProbeInv
  BY DEF Init, TextInv, ProbeInv, Judged, InHand, NoVec
<1>7. QED
  BY <1>3, <1>4, <1>5, <1>6 DEF IInv

\* A row stays a row, whoever writes it.
LEMMA RowTypesKept ==
  ASSUME IInv, [Next]_vars
  PROVE  RowTypes'
<1> USE TypeParts, RowType DEF IInv, RowTypes
<1>1. CASE StartCycle \/ AdmitEmbed
  BY <1>1, TableResets DEF StartCycle, AdmitEmbed, Resets, rowVars, lateVars
<1>2. CASE RetryFailed
  BY <1>2, TableResets DEF RetryFailed, Resets, rowVars, lateVars
<1>3. ASSUME NEW m \in Messages, EmbedRow(m)
      PROVE  RowTypes'
  BY <1>3, EmbedRowWrites DEF EmbedRow, Writes, rowVars, lateVars
<1>4. ASSUME NEW m \in Messages, JudgeRow(m)
      PROVE  RowTypes'
  BY <1>4, JudgeRowWrites DEF JudgeRow, Writes, rowVars, lateVars
<1>5. ASSUME NEW m \in Messages, LabelRow(m)
      PROVE  RowTypes'
  BY <1>5, LabelRowWrites DEF LabelRow, Writes, rowVars, lateVars
<1>6. ASSUME NEW m \in Messages, NlpRow(m)
      PROVE  RowTypes'
  BY <1>6, NlpRowWrites DEF NlpRow, Writes, rowVars, lateVars
<1>7. ASSUME NEW m \in Messages, EditMessage(m) \/ Requeue(m) \/ Forget(m)
      PROVE  RowTypes'
  <2>1. /\ requeues' \in [Messages -> Nat] /\ missed' \subseteq Messages
        /\ overwritten' \subseteq Messages /\ nature' = nature
    BY <1>7, OwnerWrites, DrainerAssumption DEF EditMessage, Requeue, Forget, lateVars
  <2>2. QED
    BY <1>7, <2>1, OwnerWrites DEF Writes
<1>12. ASSUME NEW m \in Messages, DerivedText(m) \/ RequeueLost(m)
      PROVE  RowTypes'
  <2>1. missed' \subseteq Messages /\ nature' = nature
    BY <1>12 DEF DerivedText, RequeueLost
  <2>2. requeues' \in [Messages -> Nat]
    BY <1>12, DrainerAssumption DEF DerivedText, RequeueLost
  <2>3. QED
    BY <1>12, <2>1, <2>2, DerivedWrites DEF Writes
<1>13. CASE Restart
  BY <1>13, DrainerAssumption DEF Restart, lateVars
<1>8. ASSUME NEW i \in Imports, NEW m \in Messages, ImportVector(i, m)
      PROVE  RowTypes'
  BY <1>8, ImportWrites DEF ImportVector, Writes, rowVars, lateVars
<1>9. CASE SkipEmbed \/ RefuseEmbed \/ SelectPass \/ LeavePasses \/ JudgePass \/ EndPass \/
     EndCycle \/ AdmitCategorize \/ SelectCategories \/ LeaveLabels \/ NextLabels \/
     SelectNlp \/ EndNlp \/ PauseProcessing \/ ResumeProcessing \/ ServiceFails \/
     ServiceRecovers \/ UNCHANGED vars
  BY <1>9 DEF SkipEmbed, RefuseEmbed, SelectPass, LeavePasses, JudgePass, EndPass, EndCycle,
       AdmitCategorize, SelectCategories, LeaveLabels, NextLabels, SelectNlp, EndNlp,
       PauseProcessing, ResumeProcessing, ServiceFails, ServiceRecovers, vars,
       rowVars, lateVars
<1>10. ASSUME NEW i \in Imports, ImportStarts(i) \/ ImportEnds(i)
      PROVE  RowTypes'
  BY <1>10 DEF ImportStarts, ImportEnds, vars, rowVars, lateVars
<1>14. QED
  BY <1>1, <1>2, <1>3, <1>4, <1>5, <1>6, <1>7, <1>8, <1>9, <1>10, <1>12, <1>13 DEF Next, EmbedStep,
       ModelStep, Around

\* A row in hand is counted among the candidates of its pass.
LEMMA HandCounted ==
  ASSUME IInv, NEW m \in Messages, EmbedRow(m)
  PROVE  /\ Cardinality(todo \ {m}) = Cardinality(todo) - 1
         /\ Cardinality(todo) \in Nat \ {0} /\ Cardinality(todo) <= candidates
         /\ m \in todo /\ m \notin transient /\ pc = "rows"
<1>1. IsFiniteSet(Messages)
  BY DrainerAssumption, FS_Interval DEF Messages
<1>2. IsFiniteSet(todo) /\ m \in todo /\ pc = "rows"
  BY <1>1, FS_Subset DEF EmbedRow, First, IInv, TypeOK
<1>3. Cardinality(todo \ {m}) = Cardinality(todo) - 1
  BY <1>2, FS_RemoveElement
<1>4. Cardinality(todo) \in Nat /\ Cardinality(todo \ {m}) \in Nat
  BY <1>2, FS_CardinalityType, FS_Subset
<1>5. QED
  BY <1>2, <1>3, <1>4 DEF IInv, LoopInv

\* Only rows that failed in this pass, and not before in this cycle, are judged.
LEMMA SuspectsAre ==
  ASSUME IInv, NEW ok \in BOOLEAN
  PROVE  Suspects(ok) \subseteq transient \ cycleSet
<1> DEFINE S == {m \in transient \ cycleSet :
                   progress \/ (prior[m] > 0 /\ candidates <= 1) \/ ok}
           cap == IF progress \/ candidates <= 1 THEN MAX_JUDGED_PER_PASS
                  ELSE IF ok THEN 1 ELSE 0
<1>1. Suspects(ok) = Oldest(S, cap)
  BY DEF Suspects
<1>2. QED
  BY <1>1 DEF Oldest

\* The loops' variables keep their types: the candidates do not run out.
LEMMA LoopTypesKept ==
  ASSUME IInv, [Next]_vars
  PROVE  LoopTypes'
<1>0. TypeOK /\ LoopTypes
  BY TypeParts DEF IInv
<1> USE <1>0 DEF LoopTypes, Stages
<1>1. CASE SelectPass
  <2> DEFINE batch == Oldest(PendingEnrichment, BATCH)
  <2>1. batch \subseteq Messages /\ Cardinality(batch) \in 0..BATCH
    BY OldestIs, DrainerAssumption DEF PendingEnrichment
  <2>2. \A m \in Messages : row[m].text \in Texts /\ row[m].n \in Counts
    BY RowType DEF RowRecs
  <2>3. passes < MAX_PASSES => passes + 1 \in 0..MAX_PASSES
    BY DrainerAssumption
  <2>4. 0 \in 0..MAX_PASSES /\ 0 \in Texts /\ 0 \in Counts
    BY Bounds, DrainerAssumption DEF Texts
  <2> HIDE DEF batch
  <2>5. CASE /\ todo' = batch /\ candidates' = Cardinality(batch) /\ pc' = "rows"
             /\ seen' = [m \in Messages |-> IF m \in batch THEN row[m].text ELSE 0]
             /\ prior' = [m \in Messages |-> IF m \in batch THEN row[m].n ELSE 0]
             /\ passes < MAX_PASSES /\ passes' = passes + 1 /\ cycleSet' = cycleSet
             /\ alone' = alone
             /\ transient' = transient
    BY <1>0, <2>1, <2>2, <2>3, <2>4, <2>5
  <2>6. CASE pc' = "gate" /\ LeaveLoop /\ UNCHANGED passVars
    BY <1>0, <2>4, <2>6 DEF LeaveLoop, passVars
  <2>7. QED
    BY <1>1, <2>5, <2>6 DEF SelectPass, batch
<1>2. CASE JudgePass
  <2>1. idleHealthOk' \in BOOLEAN /\ todo' = Suspects(idleHealthOk')
    BY <1>2 DEF JudgePass
  <2>2. todo' \subseteq Messages
    BY <2>1, SuspectsAre
  <2>3. QED
    BY <1>2, <2>2 DEF JudgePass
<1>3. ASSUME NEW m \in Messages, EmbedRow(m)
      PROVE  LoopTypes'
  <2>1. /\ candidates' \in {candidates, candidates - 1}
        /\ transient' \in {transient, transient \cup {m}}
    BY <1>3 DEF EmbedRow
  <2>2. Cardinality(todo) \in Nat \ {0} /\ Cardinality(todo) <= candidates
    BY <1>3, HandCounted
  <2>3. candidates' \in 0..BATCH
    BY <2>1, <2>2, DrainerAssumption
  <2>4. QED
    BY <1>3, <2>1, <2>3 DEF EmbedRow, loopVars
<1>4. CASE EndPass \/ LeavePasses
  BY <1>4, DrainerAssumption, Bounds DEF EndPass, LeavePasses, EndPassVars, LeaveLoop,
       passVars, loopVars, Texts
<1>5. CASE SelectCategories \/ SelectNlp
  BY <1>5 DEF SelectCategories, SelectNlp, Newest, Oldest, PendingCategories, PendingNlp,
       cycleVars, loopVars
<1>6. CASE StartCycle \/ SkipEmbed \/ RefuseEmbed \/ AdmitEmbed \/ EndCycle \/
     AdmitCategorize \/ LeaveLabels \/ NextLabels \/ EndNlp \/ RetryFailed \/
     PauseProcessing \/ ResumeProcessing \/ ServiceFails \/ ServiceRecovers \/ Restart \/
     UNCHANGED vars
  BY <1>6, DrainerAssumption, Bounds DEF StartCycle, SkipEmbed, RefuseEmbed, AdmitEmbed,
       EndCycle, AdmitCategorize, LeaveLabels, NextLabels, EndNlp, RetryFailed,
       PauseProcessing, ResumeProcessing, ServiceFails, ServiceRecovers, Restart, vars,
       rowVars, lateVars, passVars, loopVars, cycleVars, stallVars, memVars, flagVars, cycleState,
       EndPassVars, LeaveLoop, ForgetCycle, Texts
<1>7. ASSUME NEW m \in Messages, JudgeRow(m) \/ LabelRow(m) \/ NlpRow(m) \/ EditMessage(m)
     \/ DerivedText(m) \/ Requeue(m) \/ RequeueLost(m) \/ Forget(m)
      PROVE  LoopTypes'
  BY <1>7, DrainerAssumption, Bounds DEF JudgeRow, LabelRow, NlpRow, EditMessage,
       DerivedText, Requeue, RequeueLost, Forget, vars, rowVars, lateVars, passVars, loopVars, cycleVars, stallVars,
       memVars, flagVars, cycleState, EndPassVars, LeaveLoop, ForgetCycle, Texts
<1>8. ASSUME NEW i \in Imports, ImportStarts(i) \/ ImportEnds(i)
      PROVE  LoopTypes'
  BY <1>8, DrainerAssumption, Bounds DEF ImportStarts, ImportEnds, vars, rowVars, lateVars, passVars,
       loopVars, cycleVars, stallVars, memVars, flagVars, cycleState, EndPassVars,
       LeaveLoop, ForgetCycle, Texts
<1>9. ASSUME NEW i \in Imports, NEW m \in Messages, ImportVector(i, m)
      PROVE  LoopTypes'
  BY <1>9, DrainerAssumption, Bounds DEF ImportVector, vars, rowVars, lateVars, passVars, loopVars,
       cycleVars, stallVars, memVars, flagVars, cycleState, EndPassVars, LeaveLoop,
       ForgetCycle, Texts
<1>10. QED
  BY <1>1, <1>2, <1>3, <1>4, <1>5, <1>6, <1>7, <1>8, <1>9 DEF Next, EmbedStep, ModelStep,
       Around

\* So do the flags.
LEMMA FlagTypesKept ==
  ASSUME IInv, [Next]_vars
  PROVE  FlagTypes'
<1>0. FlagTypes
  BY TypeParts DEF IInv
<1> USE <1>0 DEF FlagTypes
<1>1. CASE StartCycle
  BY <1>1, Zenon DEF StartCycle, vars, rowVars, lateVars, passVars, loopVars, cycleVars, stallVars,
       memVars, flagVars, cycleState, EndPassVars, LeaveLoop, ForgetCycle
<1>2. CASE SkipEmbed
  BY <1>2, Zenon DEF SkipEmbed, vars, rowVars, lateVars, passVars, loopVars, cycleVars, stallVars,
       memVars, flagVars, cycleState, EndPassVars, LeaveLoop, ForgetCycle
<1>3. CASE RefuseEmbed
  BY <1>3, Zenon DEF RefuseEmbed, vars, rowVars, lateVars, passVars, loopVars, cycleVars, stallVars,
       memVars, flagVars, cycleState, EndPassVars, LeaveLoop, ForgetCycle
<1>4. CASE AdmitEmbed
  BY <1>4, Zenon DEF AdmitEmbed, vars, rowVars, lateVars, passVars, loopVars, cycleVars, stallVars,
       memVars, flagVars, cycleState, EndPassVars, LeaveLoop, ForgetCycle
<1>5. CASE SelectPass
  BY <1>5, Zenon DEF SelectPass, vars, rowVars, lateVars, passVars, loopVars, cycleVars, stallVars,
       memVars, flagVars, cycleState, EndPassVars, LeaveLoop, ForgetCycle
<1>6. CASE LeavePasses
  BY <1>6, Zenon DEF LeavePasses, vars, rowVars, lateVars, passVars, loopVars, cycleVars, stallVars,
       memVars, flagVars, cycleState, EndPassVars, LeaveLoop, ForgetCycle
<1>7. CASE JudgePass
  BY <1>7, Zenon DEF JudgePass, vars, rowVars, lateVars, passVars, loopVars, cycleVars, stallVars,
       memVars, flagVars, cycleState, EndPassVars, LeaveLoop, ForgetCycle
<1>8. CASE EndPass
  BY <1>8, Zenon DEF EndPass, vars, rowVars, lateVars, passVars, loopVars, cycleVars, stallVars,
       memVars, flagVars, cycleState, EndPassVars, LeaveLoop, ForgetCycle
<1>9. CASE EndCycle
  BY <1>9, Zenon DEF EndCycle, vars, rowVars, lateVars, passVars, loopVars, cycleVars, stallVars,
       memVars, flagVars, cycleState, EndPassVars, LeaveLoop, ForgetCycle
<1>10. CASE AdmitCategorize
  BY <1>10, Zenon DEF AdmitCategorize, vars, rowVars, lateVars, passVars, loopVars, cycleVars,
       stallVars, memVars, flagVars, cycleState, EndPassVars, LeaveLoop, ForgetCycle
<1>11. CASE SelectCategories
  BY <1>11, Zenon DEF SelectCategories, vars, rowVars, lateVars, passVars, loopVars, cycleVars,
       stallVars, memVars, flagVars, cycleState, EndPassVars, LeaveLoop, ForgetCycle
<1>12. CASE LeaveLabels
  BY <1>12, Zenon DEF LeaveLabels, vars, rowVars, lateVars, passVars, loopVars, cycleVars, stallVars,
       memVars, flagVars, cycleState, EndPassVars, LeaveLoop, ForgetCycle
<1>13. CASE NextLabels
  BY <1>13, Zenon DEF NextLabels, vars, rowVars, lateVars, passVars, loopVars, cycleVars, stallVars,
       memVars, flagVars, cycleState, EndPassVars, LeaveLoop, ForgetCycle
<1>14. CASE SelectNlp
  BY <1>14, Zenon DEF SelectNlp, vars, rowVars, lateVars, passVars, loopVars, cycleVars, stallVars,
       memVars, flagVars, cycleState, EndPassVars, LeaveLoop, ForgetCycle
<1>15. CASE EndNlp
  BY <1>15, Zenon DEF EndNlp, vars, rowVars, lateVars, passVars, loopVars, cycleVars, stallVars,
       memVars, flagVars, cycleState, EndPassVars, LeaveLoop, ForgetCycle
<1>16. CASE RetryFailed
  BY <1>16, Zenon DEF RetryFailed, vars, rowVars, lateVars, passVars, loopVars, cycleVars, stallVars,
       memVars, flagVars, cycleState, EndPassVars, LeaveLoop, ForgetCycle
<1>17. CASE PauseProcessing
  BY <1>17, Zenon DEF PauseProcessing, vars, rowVars, lateVars, passVars, loopVars, cycleVars,
       stallVars, memVars, flagVars, cycleState, EndPassVars, LeaveLoop, ForgetCycle
<1>18. CASE ResumeProcessing
  BY <1>18, Zenon DEF ResumeProcessing, vars, rowVars, lateVars, passVars, loopVars, cycleVars,
       stallVars, memVars, flagVars, cycleState, EndPassVars, LeaveLoop, ForgetCycle
<1>19. CASE ServiceFails
  BY <1>19, Zenon DEF ServiceFails, vars, rowVars, lateVars, passVars, loopVars, cycleVars, stallVars,
       memVars, flagVars, cycleState, EndPassVars, LeaveLoop, ForgetCycle
<1>20. CASE ServiceRecovers
  BY <1>20, Zenon DEF ServiceRecovers, vars, rowVars, lateVars, passVars, loopVars, cycleVars,
       stallVars, memVars, flagVars, cycleState, EndPassVars, LeaveLoop, ForgetCycle
<1>21. CASE Restart
  BY <1>21, Zenon DEF Restart, vars, rowVars, lateVars, passVars, loopVars, cycleVars, stallVars,
       memVars, flagVars, cycleState, EndPassVars, LeaveLoop, ForgetCycle
<1>22. CASE UNCHANGED vars
  BY <1>22, Zenon DEF vars, rowVars, lateVars, passVars, loopVars, cycleVars, stallVars, memVars,
       flagVars, cycleState, EndPassVars, LeaveLoop, ForgetCycle
<1>23. ASSUME NEW m \in Messages, EmbedRow(m)
      PROVE  FlagTypes'
  BY <1>23, Zenon DEF EmbedRow, vars, rowVars, lateVars, passVars, loopVars, cycleVars, stallVars,
       memVars, flagVars, cycleState, EndPassVars, LeaveLoop, ForgetCycle
<1>24. ASSUME NEW m \in Messages, JudgeRow(m)
      PROVE  FlagTypes'
  BY <1>24, Zenon DEF JudgeRow, vars, rowVars, lateVars, passVars, loopVars, cycleVars, stallVars,
       memVars, flagVars, cycleState, EndPassVars, LeaveLoop, ForgetCycle
<1>25. ASSUME NEW m \in Messages, LabelRow(m)
      PROVE  FlagTypes'
  BY <1>25, Zenon DEF LabelRow, vars, rowVars, lateVars, passVars, loopVars, cycleVars, stallVars,
       memVars, flagVars, cycleState, EndPassVars, LeaveLoop, ForgetCycle
<1>26. ASSUME NEW m \in Messages, NlpRow(m)
      PROVE  FlagTypes'
  BY <1>26, Zenon DEF NlpRow, vars, rowVars, lateVars, passVars, loopVars, cycleVars, stallVars,
       memVars, flagVars, cycleState, EndPassVars, LeaveLoop, ForgetCycle
<1>27. ASSUME NEW m \in Messages, EditMessage(m)
      PROVE  FlagTypes'
  BY <1>27, Zenon DEF EditMessage, vars, rowVars, lateVars, passVars, loopVars, cycleVars, stallVars,
       memVars, flagVars, cycleState, EndPassVars, LeaveLoop, ForgetCycle
<1>28. ASSUME NEW m \in Messages, DerivedText(m)
      PROVE  FlagTypes'
  BY <1>28, Zenon DEF DerivedText, vars, rowVars, lateVars, passVars, loopVars, cycleVars, stallVars,
       memVars, flagVars, cycleState, EndPassVars, LeaveLoop, ForgetCycle
<1>29. ASSUME NEW m \in Messages, Forget(m)
      PROVE  FlagTypes'
  BY <1>29, Zenon DEF Forget, vars, rowVars, lateVars, passVars, loopVars, cycleVars, stallVars,
       memVars, flagVars, cycleState, EndPassVars, LeaveLoop, ForgetCycle
<1>33. ASSUME NEW m \in Messages, Requeue(m)
      PROVE  FlagTypes'
  BY <1>33, Zenon DEF Requeue, vars, rowVars, lateVars, passVars, loopVars, cycleVars, stallVars,
       memVars, flagVars, cycleState, EndPassVars, LeaveLoop, ForgetCycle
<1>34. ASSUME NEW m \in Messages, RequeueLost(m)
      PROVE  FlagTypes'
  BY <1>34, Zenon DEF RequeueLost, vars, rowVars, lateVars, passVars, loopVars, cycleVars, stallVars,
       memVars, flagVars, cycleState, EndPassVars, LeaveLoop, ForgetCycle
<1>30. ASSUME NEW i \in Imports, ImportStarts(i)
      PROVE  FlagTypes'
  BY <1>30, Zenon DEF ImportStarts, vars, rowVars, lateVars, passVars, loopVars, cycleVars, stallVars,
       memVars, flagVars, cycleState, EndPassVars, LeaveLoop, ForgetCycle
<1>31. ASSUME NEW i \in Imports, ImportEnds(i)
      PROVE  FlagTypes'
  BY <1>31, Zenon DEF ImportEnds, vars, rowVars, lateVars, passVars, loopVars, cycleVars, stallVars,
       memVars, flagVars, cycleState, EndPassVars, LeaveLoop, ForgetCycle
<1>32. ASSUME NEW i \in Imports, NEW m \in Messages, ImportVector(i, m)
      PROVE  FlagTypes'
  BY <1>32, Zenon DEF ImportVector, vars, rowVars, lateVars, passVars, loopVars, cycleVars, stallVars,
       memVars, flagVars, cycleState, EndPassVars, LeaveLoop, ForgetCycle
<1>35. QED
  BY <1>1, <1>2, <1>3, <1>4, <1>5, <1>6, <1>7, <1>8, <1>9, <1>10, <1>11, <1>12, <1>13,
       <1>14, <1>15, <1>16, <1>17, <1>18, <1>19, <1>20, <1>21, <1>22, <1>23, <1>24, <1>25,
       <1>26, <1>27, <1>28, <1>29, <1>30, <1>31, <1>32, <1>33, <1>34 DEF Next, EmbedStep, ModelStep,
       Around

\* And what outlives a cycle.
LEMMA MemTypesKept ==
  ASSUME IInv, [Next]_vars
  PROVE  MemTypes'
<1>0. TypeOK /\ MemTypes
  BY TypeParts, DrainerAssumption DEF IInv
<1> USE <1>0, DrainerAssumption DEF MemTypes
<1>1. CASE EndPass
  <2> DEFINE k == IF noProgress < NoProgressCap THEN noProgress + 1 ELSE noProgress
  <2>1. k \in 0..NoProgressCap /\ k \in Nat
    BY DEF NoProgressCap
  <2>2. k >= STALL_BACKOFF_AFTER => StallBackoff(k) \in 0..STALL_BACKOFF_MAX_CYCLES
    BY <2>1, StallBackoffType
  <2>3. /\ noProgress' \in {0, noProgress, k}
        /\ \/ stallBackoff' \in {0, stallBackoff}
           \/ k >= STALL_BACKOFF_AFTER /\ stallBackoff' = StallBackoff(k)
        /\ ended' \in {ended, "stalled"} /\ service' \in {service, "down"}
        /\ UNCHANGED <<labelAttempts, importing, events>>
    BY <1>1 DEF EndPass, stallVars
  <2> HIDE DEF k
  <2>4. QED
    BY <2>1, <2>2, <2>3 DEF NoProgressCap
<1>2. ASSUME NEW m \in Messages, LabelRow(m)
      PROVE  MemTypes'
  <2>1. labelAttempts' \in [Messages -> 0..LABEL_MAX_ATTEMPTS]
    BY <1>2 DEF LabelRow
  <2>2. QED
    BY <1>2, <2>1 DEF LabelRow, cycleVars, stallVars, loopVars
<1>3. CASE Restart
  <2>1. /\ ended' = "open" /\ noProgress' = 0 /\ stallBackoff' = 0 /\ service' = service
        /\ events' \in 0..MaxEvents
    BY <1>3 DEF Restart, ForgetCycle, Event
  <2>2. importing' \in [Imports -> {"none", "open", "done"}]
    BY <1>3 DEF Restart
  <2>3. labelAttempts' \in [Messages -> 0..LABEL_MAX_ATTEMPTS]
    BY <1>3 DEF Restart
  <2>4. QED
    BY <2>1, <2>2, <2>3 DEF NoProgressCap
<1>4. CASE StartCycle \/ SkipEmbed
  BY <1>4 DEF StartCycle, SkipEmbed, vars, rowVars, lateVars, passVars, loopVars, cycleVars,
       stallVars, memVars, flagVars, cycleState, EndPassVars, LeaveLoop, ForgetCycle, Event
<1>5. CASE RefuseEmbed \/ AdmitEmbed
  BY <1>5 DEF RefuseEmbed, AdmitEmbed, vars, rowVars, lateVars, passVars, loopVars, cycleVars,
       stallVars, memVars, flagVars, cycleState, EndPassVars, LeaveLoop, ForgetCycle, Event
<1>6. CASE SelectPass \/ LeavePasses
  BY <1>6 DEF SelectPass, LeavePasses, vars, rowVars, lateVars, passVars, loopVars, cycleVars,
       stallVars, memVars, flagVars, cycleState, EndPassVars, LeaveLoop, ForgetCycle, Event
<1>7. CASE JudgePass \/ EndCycle
  BY <1>7 DEF JudgePass, EndCycle, vars, rowVars, lateVars, passVars, loopVars, cycleVars, stallVars,
       memVars, flagVars, cycleState, EndPassVars, LeaveLoop, ForgetCycle, Event
<1>8. CASE AdmitCategorize \/ SelectCategories
  BY <1>8 DEF AdmitCategorize, SelectCategories, vars, rowVars, lateVars, passVars, loopVars,
       cycleVars, stallVars, memVars, flagVars, cycleState, EndPassVars, LeaveLoop,
       ForgetCycle, Event
<1>9. CASE LeaveLabels \/ NextLabels
  BY <1>9 DEF LeaveLabels, NextLabels, vars, rowVars, lateVars, passVars, loopVars, cycleVars,
       stallVars, memVars, flagVars, cycleState, EndPassVars, LeaveLoop, ForgetCycle, Event
<1>10. CASE SelectNlp \/ EndNlp
  BY <1>10 DEF SelectNlp, EndNlp, vars, rowVars, lateVars, passVars, loopVars, cycleVars, stallVars,
       memVars, flagVars, cycleState, EndPassVars, LeaveLoop, ForgetCycle, Event
<1>11. CASE RetryFailed \/ PauseProcessing
  BY <1>11 DEF RetryFailed, PauseProcessing, vars, rowVars, lateVars, passVars, loopVars, cycleVars,
       stallVars, memVars, flagVars, cycleState, EndPassVars, LeaveLoop, ForgetCycle, Event
<1>12. CASE ResumeProcessing \/ ServiceFails
  BY <1>12 DEF ResumeProcessing, ServiceFails, vars, rowVars, lateVars, passVars, loopVars, cycleVars,
       stallVars, memVars, flagVars, cycleState, EndPassVars, LeaveLoop, ForgetCycle, Event
<1>13. CASE ServiceRecovers \/ UNCHANGED vars
  BY <1>13 DEF ServiceRecovers, vars, rowVars, lateVars, passVars, loopVars, cycleVars, stallVars,
       memVars, flagVars, cycleState, EndPassVars, LeaveLoop, ForgetCycle, Event
<1>14. ASSUME NEW m \in Messages, EmbedRow(m) \/ JudgeRow(m)
      PROVE  MemTypes'
  BY <1>14 DEF EmbedRow, JudgeRow, vars, rowVars, lateVars, passVars, loopVars, cycleVars, stallVars,
       memVars, flagVars, cycleState, EndPassVars, LeaveLoop, ForgetCycle, Event
<1>15. ASSUME NEW m \in Messages, NlpRow(m) \/ EditMessage(m)
      PROVE  MemTypes'
  BY <1>15 DEF NlpRow, EditMessage, vars, rowVars, lateVars, passVars, loopVars, cycleVars, stallVars,
       memVars, flagVars, cycleState, EndPassVars, LeaveLoop, ForgetCycle, Event
<1>16. ASSUME NEW m \in Messages, DerivedText(m) \/ Forget(m)
      PROVE  MemTypes'
  BY <1>16 DEF DerivedText, Forget, vars, rowVars, lateVars, passVars, loopVars, cycleVars, stallVars,
       memVars, flagVars, cycleState, EndPassVars, LeaveLoop, ForgetCycle, Event
<1>20. ASSUME NEW m \in Messages, Requeue(m) \/ RequeueLost(m)
      PROVE  MemTypes'
  BY <1>20 DEF Requeue, RequeueLost, vars, rowVars, lateVars, passVars, loopVars, cycleVars,
       stallVars, memVars, flagVars, cycleState, EndPassVars, LeaveLoop, ForgetCycle, Event
<1>17. ASSUME NEW i \in Imports, ImportStarts(i) \/ ImportEnds(i)
      PROVE  MemTypes'
  BY <1>17 DEF ImportStarts, ImportEnds, vars, rowVars, lateVars, passVars, loopVars, cycleVars,
       stallVars, memVars, flagVars, cycleState, EndPassVars, LeaveLoop, ForgetCycle, Event
<1>18. ASSUME NEW i \in Imports, NEW m \in Messages, ImportVector(i, m)
      PROVE  MemTypes'
  BY <1>18 DEF ImportVector, vars, rowVars, lateVars, passVars, loopVars, cycleVars, stallVars,
       memVars, flagVars, cycleState, EndPassVars, LeaveLoop, ForgetCycle, Event
<1>21. QED
  BY <1>1, <1>2, <1>3, <1>4, <1>5, <1>6, <1>7, <1>8, <1>9, <1>10, <1>11, <1>12, <1>13,
       <1>14, <1>15, <1>16, <1>17, <1>18, <1>20 DEF Next, EmbedStep, ModelStep, Around

-----------------------------------------------------------------------------
(* The invariant.                                                           *)

\* Every writer leaves a row whose columns tell what was done to it.
LEMMA RowInvKept ==
  ASSUME IInv, [Next]_vars
  PROVE  RowInv'
<1> USE Bounds, RowType DEF IInv
<1>0. nature' = nature
  BY DEF Next, EmbedStep, ModelStep, Around, StartCycle, SkipEmbed, RefuseEmbed, AdmitEmbed,
       SelectPass, LeavePasses, JudgePass, EndPass, EmbedRow, JudgeRow, EndCycle,
       AdmitCategorize, SelectCategories, LeaveLabels, NextLabels, SelectNlp, EndNlp,
       LabelRow, NlpRow, RetryFailed, PauseProcessing, ResumeProcessing, ServiceFails,
       ServiceRecovers, Restart, EditMessage, DerivedText, Requeue, RequeueLost, Forget, ImportStarts, ImportEnds,
       ImportVector, vars
<1> USE <1>0
<1>1. CASE StartCycle \/ AdmitEmbed \/ RetryFailed
  <2>1. Resets /\ prior' = prior /\ overwritten \subseteq overwritten'
    BY <1>1, TableResets DEF StartCycle, AdmitEmbed, RetryFailed, passVars
  <2>2. \A m \in Messages : /\ Counted(row[m]) => Counted(row'[m])
                            /\ Truthful(row[m]) => Truthful(row'[m])
                            /\ Placed(row[m], m) => Placed(row'[m], m)
    BY <2>1, ResetKeeps DEF Resets
  <2>3. QED
    BY <2>1, <2>2 DEF RowInv, Counted, Truthful, Placed
<1>2. CASE SelectPass
  <2>1. \A x \in Messages : prior'[x] < EMBED_MAX_ATTEMPTS
    BY <1>2 DEF SelectPass, Oldest, PendingEnrichment, RowInv, Counted, passVars
  <2>2. QED
    BY <1>2, <2>1 DEF SelectPass, rowVars, RowInv, Counted, Truthful, Placed
<1>3. ASSUME NEW m \in Messages, EmbedRow(m)
      PROVE  RowInv'
  <2>1. /\ prior' = prior /\ overwritten' = overwritten /\ m \in todo /\ pc = "rows" /\ InHand(m)
        /\ seen[m] \in Texts /\ row[m] \in RowRecs
    BY <1>3 DEF EmbedRow, First, InHand, TypeOK, Texts
  <2>2. Counted(row'[m])
    BY <1>3, EmbedRowWrites DEF RowInv, Counted
  <2>3. m \notin overwritten => Truthful(row'[m])
    BY <1>3, <2>1, EmbedRowWrites DEF RowInv, HandInv, Truthful, Same, RowRecs
  <2>4. m \notin overwritten => Placed(row'[m], m)
    BY <1>3, <2>1, EmbedRowWrites DEF RowInv, HandInv, Placed, Same
  <2>5. QED
    BY <1>3, <2>1, <2>2, <2>3, <2>4, EmbedRowWrites DEF Writes, RowInv, Counted, Truthful,
         Placed
<1>4. ASSUME NEW m \in Messages, JudgeRow(m)
      PROVE  RowInv'
  <2>1. /\ prior' = prior /\ overwritten' = overwritten /\ m \in todo /\ pc = "judge" /\ InHand(m)
        /\ seen[m] \in Texts /\ row[m] \in RowRecs
    BY <1>4 DEF JudgeRow, First, InHand, TypeOK, Texts
  <2>2. Counted(row'[m])
    BY <1>4, JudgeRowWrites DEF RowInv, Counted
  <2>3. m \notin overwritten => Truthful(row'[m])
    BY <1>4, <2>1, JudgeRowWrites DEF RowInv, HandInv, Truthful, Same, RowRecs
  <2>4. m \notin overwritten => Placed(row'[m], m)
    BY <1>4, <2>1, JudgeRowWrites DEF RowInv, HandInv, Placed, Same
  <2>5. QED
    BY <1>4, <2>1, <2>2, <2>3, <2>4, JudgeRowWrites DEF Writes, RowInv, Counted, Truthful,
         Placed
<1>5. ASSUME NEW m \in Messages, LabelRow(m)
      PROVE  RowInv'
  <2>1. /\ prior' = prior /\ overwritten' = overwritten /\ m \in todo /\ pc = "labelRows"
    BY <1>5 DEF LabelRow, Last
  <2>2. m \notin overwritten => row[m].vec # NoVec
    BY <2>1 DEF HandInv
  <2>3. QED
    BY <1>5, <2>1, <2>2, LabelRowWrites DEF Writes, RowInv, Counted, Truthful, Placed
<1>6. ASSUME NEW m \in Messages, NlpRow(m)
      PROVE  RowInv'
  <2>1. /\ prior' = prior /\ overwritten' = overwritten /\ m \in todo /\ pc = "nlpRows"
    BY <1>6 DEF NlpRow, First
  <2>2. m \notin overwritten => row[m].nlp = 2 /\ ~row[m].forgotten
    BY <2>1 DEF HandInv
  <2>3. m \notin overwritten => row[m].vec # NoVec
    BY <2>2 DEF RowInv, Placed
  <2>4. QED
    BY <1>6, <2>1, <2>2, <2>3, NlpRowWrites DEF Writes, Same, RowInv, Counted, Truthful,
         Placed
<1>7. ASSUME NEW m \in Messages, EditMessage(m) \/ Requeue(m) \/ Forget(m)
      PROVE  RowInv'
  <2>1. prior' = prior /\ overwritten \subseteq overwritten'
    BY <1>7, OwnerWrites DEF EditMessage, Requeue, Forget, cycleState, passVars
  <2>2. QED
    BY <1>7, <2>1, OwnerWrites DEF Writes, RowInv, Counted, Truthful, Placed
<1>12. ASSUME NEW m \in Messages, DerivedText(m) \/ RequeueLost(m)
      PROVE  RowInv'
  <2>1. prior' = prior
    BY <1>12 DEF DerivedText, RequeueLost, cycleState, passVars
  <2>2. QED
    BY <1>12, <2>1, DerivedWrites DEF Writes, RowInv, Counted, Truthful, Placed
<1>8. ASSUME NEW i \in Imports, NEW m \in Messages, ImportVector(i, m)
      PROVE  RowInv'
  <2>1. /\ prior' = prior /\ overwritten \subseteq overwritten'
        /\ m \notin overwritten' => row[m].text = 0 /\ ~row[m].forgotten
    BY <1>8 DEF ImportVector, cycleState, passVars
  <2>2. QED
    BY <1>8, <2>1, ImportWrites DEF Writes, Same, RowInv, Counted, Truthful, Placed, NoVec
<1>9. CASE SkipEmbed \/ RefuseEmbed \/ LeavePasses \/ JudgePass \/ EndPass \/ EndCycle \/
     AdmitCategorize \/ SelectCategories \/ LeaveLabels \/ NextLabels \/ SelectNlp \/ EndNlp
     \/ PauseProcessing \/ ResumeProcessing \/ ServiceFails \/ ServiceRecovers \/ Restart \/
     UNCHANGED vars
  BY <1>9 DEF SkipEmbed, RefuseEmbed, LeavePasses, JudgePass, EndPass, EndCycle,
       AdmitCategorize, SelectCategories, LeaveLabels, NextLabels, SelectNlp, EndNlp,
       PauseProcessing, ResumeProcessing, ServiceFails, ServiceRecovers, Restart, RowInv,
       Counted, Truthful, Placed, vars, rowVars, lateVars, passVars, loopVars, cycleVars, stallVars,
       memVars, flagVars, cycleState, EndPassVars
<1>10. ASSUME NEW i \in Imports, ImportStarts(i) \/ ImportEnds(i)
      PROVE  RowInv'
  BY <1>10 DEF ImportStarts, ImportEnds, RowInv, Counted, Truthful, Placed, vars, rowVars, lateVars,
       passVars, loopVars, cycleVars, stallVars, memVars, flagVars, cycleState, EndPassVars
<1>13. QED
  BY <1>1, <1>2, <1>3, <1>4, <1>5, <1>6, <1>7, <1>8, <1>9, <1>10, <1>12 DEF Next, EmbedStep,
       ModelStep, Around

\* A pass tries each of its rows once, a cycle judges a row once.
LEMMA LoopInvKept ==
  ASSUME IInv, [Next]_vars
  PROVE  LoopInv'
<1> USE DEF IInv, LoopInv
<1>1. CASE SelectPass
  <2> DEFINE batch == Oldest(PendingEnrichment, BATCH)
  <2>1. Cardinality(batch) \in 0..BATCH
    BY OldestIs, DrainerAssumption DEF PendingEnrichment
  <2>2. QED
    BY <1>1, <2>1 DEF SelectPass, passVars
<1>2. CASE JudgePass
  <2>1. idleHealthOk' \in BOOLEAN /\ todo' = Suspects(idleHealthOk')
    BY <1>2 DEF JudgePass
  <2>2. todo' \subseteq transient \ cycleSet
    BY <2>1, SuspectsAre
  <2>3. QED
    BY <1>2, <2>2 DEF JudgePass
<1>3. ASSUME NEW m \in Messages, EmbedRow(m)
      PROVE  LoopInv'
  <2>1. /\ candidates' \in {candidates, candidates - 1}
        /\ transient' \in {transient, transient \cup {m}}
    BY <1>3 DEF EmbedRow
  <2>2. todo' = todo \ {m} /\ pc' = pc /\ cycleSet' = cycleSet
    BY <1>3 DEF EmbedRow, loopVars
  <2> HIDE DEF IInv, LoopInv
  <2>0. candidates \in Int
    BY DrainerAssumption DEF TypeOK, IInv
  <2>3. /\ Cardinality(todo \ {m}) = Cardinality(todo) - 1 /\ Cardinality(todo) \in Nat
        /\ Cardinality(todo) <= candidates /\ candidates \in Int
        /\ pc = "rows" /\ m \notin transient
    BY <1>3, <2>0, HandCounted
  <2>4. Cardinality(todo') <= candidates'
    BY <2>1, <2>2, <2>3
  <2> USE DEF IInv, LoopInv
  <2>5. QED
    BY <2>1, <2>2, <2>3, <2>4
<1>4. CASE StartCycle \/ SkipEmbed \/ RefuseEmbed \/ AdmitEmbed \/ LeavePasses \/ EndPass \/
     EndCycle \/ AdmitCategorize \/ SelectCategories \/ LeaveLabels \/ NextLabels \/
     SelectNlp \/ EndNlp \/ RetryFailed \/ PauseProcessing \/ ResumeProcessing \/
     ServiceFails \/ ServiceRecovers \/ Restart \/ UNCHANGED vars
  BY <1>4 DEF StartCycle, SkipEmbed, RefuseEmbed, AdmitEmbed, LeavePasses, EndPass,
       EndCycle, AdmitCategorize, SelectCategories, LeaveLabels, NextLabels, SelectNlp,
       EndNlp, RetryFailed, PauseProcessing, ResumeProcessing, ServiceFails,
       ServiceRecovers, Restart, vars, rowVars, lateVars, passVars, loopVars, cycleVars, stallVars,
       memVars, flagVars, cycleState, EndPassVars, LeaveLoop, ForgetCycle, First, Last
<1>5. ASSUME NEW m \in Messages, JudgeRow(m) \/ LabelRow(m) \/ NlpRow(m) \/ EditMessage(m)
     \/ DerivedText(m) \/ Requeue(m) \/ RequeueLost(m) \/ Forget(m)
      PROVE  LoopInv'
  BY <1>5 DEF JudgeRow, LabelRow, NlpRow, EditMessage, DerivedText, Requeue, RequeueLost, Forget, vars, rowVars, lateVars,
       passVars, loopVars, cycleVars, stallVars, memVars, flagVars, cycleState, EndPassVars,
       LeaveLoop, ForgetCycle, First, Last
<1>6. ASSUME NEW i \in Imports, ImportStarts(i) \/ ImportEnds(i)
      PROVE  LoopInv'
  BY <1>6 DEF ImportStarts, ImportEnds, vars, rowVars, lateVars, passVars, loopVars, cycleVars,
       stallVars, memVars, flagVars, cycleState, EndPassVars, LeaveLoop, ForgetCycle, First,
       Last
<1>7. ASSUME NEW i \in Imports, NEW m \in Messages, ImportVector(i, m)
      PROVE  LoopInv'
  BY <1>7 DEF ImportVector, vars, rowVars, lateVars, passVars, loopVars, cycleVars, stallVars,
       memVars, flagVars, cycleState, EndPassVars, LeaveLoop, ForgetCycle, First, Last
<1>8. QED
  BY <1>1, <1>2, <1>3, <1>4, <1>5, <1>6, <1>7 DEF Next, EmbedStep, ModelStep, Around

\* Nobody but the owner or an import changes a row under a writer's hands.
LEMMA HandInvKept ==
  ASSUME IInv, [Next]_vars
  PROVE  HandInv'
<1> USE RowType DEF IInv, HandInv, InHand
<1>1. CASE StartCycle \/ AdmitEmbed
  BY <1>1 DEF StartCycle, AdmitEmbed, LoopInv, passVars
<1>2. CASE RetryFailed
  <2>1. Resets /\ UNCHANGED <<pc, todo, transient, seen, prior>>
    BY <1>2, TableResets DEF RetryFailed, passVars
  <2>2. \A x \in Messages : x \notin overwritten' => /\ x \notin overwritten
                                                     /\ InHand(x) => row'[x] = row[x]
    BY <1>2 DEF RetryFailed
  <2>3. QED
    BY <2>1, <2>2 DEF Resets, Reset
<1>3. CASE SelectPass
  BY <1>3 DEF SelectPass, Oldest, PendingEnrichment, LoopInv, rowVars, passVars
<1>4. CASE JudgePass
  <2>1. idleHealthOk' \in BOOLEAN /\ todo' = Suspects(idleHealthOk')
    BY <1>4 DEF JudgePass
  <2>2. todo' \subseteq transient
    BY <2>1, SuspectsAre
  <2>3. QED
    BY <1>4, <2>2 DEF JudgePass, rowVars, lateVars
<1>5. ASSUME NEW m \in Messages, EmbedRow(m)
      PROVE  HandInv'
  <2>1. /\ todo' = todo \ {m} /\ pc' = pc /\ pc = "rows" /\ seen' = seen /\ prior' = prior
        /\ overwritten' = overwritten /\ m \in todo /\ m \notin transient
    BY <1>5, HandCounted DEF EmbedRow
  <2>2. /\ \A x \in Messages \ {m} : row'[x] = row[x]
        /\ transient' = transient \/ (row'[m] = row[m] /\ transient' = transient \cup {m})
    BY <1>5, EmbedRowWrites DEF Writes
  <2>3. \A x \in Messages : InHand(x)' => InHand(x) /\ row'[x] = row[x]
    BY <2>1, <2>2
  <2>4. QED
    BY <2>1, <2>3
<1>6. ASSUME NEW m \in Messages, JudgeRow(m)
      PROVE  HandInv'
  <2>1. /\ todo' = todo \ {m} /\ pc' = pc /\ pc = "judge" /\ seen' = seen /\ prior' = prior
        /\ overwritten' = overwritten
    BY <1>6 DEF JudgeRow
  <2>2. \A x \in Messages \ {m} : row'[x] = row[x]
    BY <1>6, JudgeRowWrites DEF Writes
  <2>3. QED
    BY <2>1, <2>2
<1>7. CASE SelectCategories
  BY <1>7 DEF SelectCategories, Newest, PendingCategories, rowVars, lateVars
<1>8. CASE SelectNlp
  BY <1>8 DEF SelectNlp, Oldest, PendingNlp, rowVars, lateVars
<1>9. ASSUME NEW m \in Messages, LabelRow(m)
      PROVE  HandInv'
  <2>1. todo' \subseteq todo /\ pc' = pc /\ pc = "labelRows" /\ overwritten' = overwritten
    BY <1>9 DEF LabelRow
  <2>2. QED
    BY <1>9, <2>1, LabelRowWrites DEF Writes
<1>10. ASSUME NEW m \in Messages, NlpRow(m)
      PROVE  HandInv'
  <2>1. todo' = todo \ {m} /\ pc' = pc /\ pc = "nlpRows" /\ overwritten' = overwritten
    BY <1>10 DEF NlpRow
  <2>2. QED
    BY <1>10, <2>1, NlpRowWrites DEF Writes
<1>11. ASSUME NEW m \in Messages, EditMessage(m) \/ Requeue(m) \/ Forget(m)
      PROVE  HandInv'
  <2>1. UNCHANGED <<pc, todo, transient, seen, prior>>
    BY <1>11 DEF EditMessage, Requeue, Forget, cycleState, passVars
  <2>2. QED
    BY <1>11, <2>1, OwnerWrites DEF Writes
<1>16. ASSUME NEW m \in Messages, DerivedText(m) \/ RequeueLost(m)
      PROVE  HandInv'
  <2>1. UNCHANGED <<pc, todo, transient, seen, prior>>
    BY <1>16 DEF DerivedText, RequeueLost, cycleState, passVars
  <2>2. QED
    BY <1>16, <2>1, DerivedWrites DEF Writes
<1>12. ASSUME NEW i \in Imports, NEW m \in Messages, ImportVector(i, m)
      PROVE  HandInv'
  <2>1. /\ UNCHANGED <<pc, todo, transient, seen, prior>>
        /\ overwritten \subseteq overwritten' /\ (InHand(m) => m \in overwritten')
    BY <1>12 DEF ImportVector, cycleState, passVars
  <2>2. QED
    BY <1>12, <2>1, ImportWrites DEF Writes, NoVec
<1>13. CASE SkipEmbed \/ RefuseEmbed \/ LeavePasses \/ EndPass \/ EndCycle \/
     AdmitCategorize \/ LeaveLabels \/ NextLabels \/ EndNlp \/ PauseProcessing \/
     ResumeProcessing \/ ServiceFails \/ ServiceRecovers \/ Restart \/ UNCHANGED vars
  BY <1>13 DEF SkipEmbed, RefuseEmbed, LeavePasses, EndPass, EndCycle, AdmitCategorize,
       LeaveLabels, NextLabels, EndNlp, PauseProcessing, ResumeProcessing, ServiceFails,
       ServiceRecovers, Restart, vars, rowVars, lateVars, passVars, loopVars, cycleVars, stallVars,
       memVars, flagVars, cycleState, EndPassVars, LeaveLoop, ForgetCycle, LoopInv
<1>14. ASSUME NEW i \in Imports, ImportStarts(i) \/ ImportEnds(i)
      PROVE  HandInv'
  BY <1>14 DEF ImportStarts, ImportEnds, vars, rowVars, lateVars, passVars, loopVars, cycleVars,
       stallVars, memVars, flagVars, cycleState, EndPassVars, LeaveLoop, ForgetCycle,
       LoopInv
<1>17. QED
  BY <1>1, <1>2, <1>3, <1>4, <1>5, <1>6, <1>7, <1>8, <1>9, <1>10, <1>11, <1>12, <1>13, <1>14, <1>16
       DEF Next, EmbedStep, ModelStep, Around

\* Text that comes late owes a re-queue until it is done, or lost: one that comes
\* after the writer's UPDATE takes the vector, one that comes before overwrites.
LEMMA TextInvKept ==
  ASSUME IInv, [Next]_vars
  PROVE  TextInv'
<1> USE RowType DEF IInv, TextInv, InHand, Current
<1>0. \A x \in Messages : row[x] \in RowRecs /\ requeues[x] \in Nat
  BY RowType, DrainerAssumption DEF TypeOK
<1> USE <1>0
<1>1. CASE StartCycle \/ AdmitEmbed
  BY <1>1, TableResets DEF StartCycle, AdmitEmbed, LoopInv, passVars, lateVars, Resets, Reset
<1>2. CASE RetryFailed
  <2>1. Resets /\ UNCHANGED <<pc, todo, transient, seen, lateVars>>
    BY <1>2, TableResets DEF RetryFailed, passVars
  <2>2. overwritten \subseteq overwritten'
    BY <1>2 DEF RetryFailed
  <2>3. QED
    BY <2>1, <2>2 DEF Resets, Reset, lateVars
<1>3. CASE SelectPass
  <2>1. UNCHANGED <<row, overwritten, requeues, missed>>
    BY <1>3 DEF SelectPass, rowVars, lateVars
  <2>2. pc' \in {"rows", "judge"} =>
          /\ pc' = "rows" /\ transient' = transient
          /\ \A x \in todo' : x \in Messages /\ seen'[x] = row[x].text
    BY <1>3 DEF SelectPass, Oldest, PendingEnrichment
  <2>3. transient = {}
    BY <1>3 DEF SelectPass, LoopInv
  <2>4. QED
    BY <2>1, <2>2, <2>3
<1>4. CASE JudgePass
  <2>1. idleHealthOk' \in BOOLEAN /\ todo' = Suspects(idleHealthOk')
    BY <1>4 DEF JudgePass
  <2>2. todo' \subseteq transient
    BY <2>1, SuspectsAre
  <2>3. QED
    BY <1>4, <2>2 DEF JudgePass, rowVars, lateVars
<1>5. ASSUME NEW m \in Messages, EmbedRow(m)
      PROVE  TextInv'
  <2>1. /\ todo' = todo \ {m} /\ pc' = pc /\ pc = "rows" /\ seen' = seen
        /\ UNCHANGED <<overwritten, requeues, missed>> /\ m \in todo /\ m \notin transient
    BY <1>5, HandCounted DEF EmbedRow, lateVars
  <2>2. /\ \A x \in Messages \ {m} : row'[x] = row[x]
        /\ row'[m].text = row[m].text /\ row'[m].vec \in {row[m].vec, seen[m]}
        /\ transient' = transient \/ transient' = transient \cup {m}
    BY <1>5, EmbedRowWrites DEF Writes, Same
  <2>3. \A x \in Messages : InHand(x)' => InHand(x)
    BY <2>1, <2>2
  <2>4. QED
    BY <2>1, <2>2, <2>3
<1>6. ASSUME NEW m \in Messages, JudgeRow(m)
      PROVE  TextInv'
  <2>1. /\ todo' = todo \ {m} /\ pc' = pc /\ pc = "judge" /\ seen' = seen /\ m \in todo
        /\ UNCHANGED <<overwritten, requeues, missed>>
    BY <1>6 DEF JudgeRow, First, lateVars
  <2>2. /\ \A x \in Messages \ {m} : row'[x] = row[x]
        /\ row'[m].text = row[m].text /\ row'[m].vec \in {row[m].vec, seen[m]}
    BY <1>6, JudgeRowWrites DEF Writes, Same
  <2>3. QED
    BY <2>1, <2>2
<1>7. CASE SelectCategories \/ SelectNlp
  BY <1>7 DEF SelectCategories, SelectNlp, rowVars, lateVars
<1>8. ASSUME NEW m \in Messages, LabelRow(m)
      PROVE  TextInv'
  <2>1. pc' = pc /\ pc = "labelRows" /\ UNCHANGED <<overwritten, requeues, missed>>
    BY <1>8 DEF LabelRow, lateVars
  <2>2. QED
    BY <1>8, <2>1, LabelRowWrites DEF Writes
<1>9. ASSUME NEW m \in Messages, NlpRow(m)
      PROVE  TextInv'
  <2>1. pc' = pc /\ pc = "nlpRows" /\ UNCHANGED <<overwritten, requeues, missed>>
    BY <1>9 DEF NlpRow, lateVars
  <2>2. QED
    BY <1>9, <2>1, NlpRowWrites DEF Writes, Same
<1>10. ASSUME NEW m \in Messages, EditMessage(m) \/ Forget(m)
      PROVE  TextInv'
  <2>1. /\ UNCHANGED <<pc, todo, transient, seen, requeues>>
        /\ \A x \in Messages \ {m} : x \in missed => x \in missed'
    BY <1>10 DEF EditMessage, Forget, cycleState, passVars, lateVars
  <2>2. row'[m].vec = NoVec
    <3>1. row \in [Messages -> RowRecs] /\ row[m] \in RowRecs
      BY RowType
    <3>2. \/ row' = [row EXCEPT ![m] = updateContent(row[m], row[m].text + 1)]
          \/ row' = [row EXCEPT ![m] = redact(row[m])]
      BY <1>10 DEF EditMessage, Forget, Write
    <3>3. /\ updateContent(row[m], row[m].text + 1).vec = NoVec
          /\ redact(row[m]).vec = NoVec
      BY <3>1 DEF updateContent, redact, RowRecs
    <3>4. QED
      BY <3>1, <3>2, <3>3
  <2>3. QED
    BY <1>10, <2>1, <2>2, OwnerWrites DEF Writes
<1>11. ASSUME NEW m \in Messages, Requeue(m)
      PROVE  TextInv'
  <2>1. /\ UNCHANGED <<pc, todo, transient, seen>>
        /\ \A x \in Messages \ {m} : (x \in missed => x \in missed') /\ requeues'[x] = requeues[x]
    BY <1>11, DrainerAssumption DEF Requeue, cycleState, passVars, TypeOK
  <2>2. row'[m].vec = NoVec \/ row[m].forgotten
    BY <1>11 DEF Requeue, Write, markForReembed, TypeOK, RowRecs
  <2>3. m \notin overwritten /\ row[m].forgotten => row[m].vec = NoVec
    BY DEF RowInv, Truthful
  <2>4. /\ Writes(m, row'[m]) /\ (row'[m].vec = NoVec \/ row'[m] = row[m])
        /\ overwritten' = IF InHand(m) THEN overwritten \cup {m} ELSE overwritten
    BY <1>11, OwnerWrites
  <2>5. QED
    BY <2>1, <2>2, <2>3, <2>4 DEF Writes
<1>12. ASSUME NEW m \in Messages, DerivedText(m)
      PROVE  TextInv'
  <2>1. /\ UNCHANGED <<pc, todo, transient, seen, missed>>
        /\ \A x \in Messages \ {m} : requeues'[x] = requeues[x]
        /\ requeues'[m] = requeues[m] + 1
    BY <1>12 DEF DerivedText, cycleState, passVars, TypeOK
  <2>2. QED
    BY <1>12, <2>1, DerivedWrites DEF Writes
<1>13. ASSUME NEW m \in Messages, RequeueLost(m)
      PROVE  TextInv'
  <2>1. /\ UNCHANGED <<pc, todo, transient, seen, row, overwritten>>
        /\ \A x \in Messages \ {m} : requeues'[x] = requeues[x]
        /\ missed \subseteq missed'
        /\ InHand(m) \/ Outdated(m) => m \in missed'
    BY <1>13 DEF RequeueLost, cycleState, passVars, TypeOK
  <2>2. QED
    BY <2>1 DEF Outdated
<1>14. ASSUME NEW i \in Imports, NEW m \in Messages, ImportVector(i, m)
      PROVE  TextInv'
  <2>1. /\ UNCHANGED <<pc, todo, transient, seen, requeues, missed>>
        /\ overwritten \subseteq overwritten' /\ (InHand(m) => m \in overwritten')
        /\ m \notin overwritten' => row[m].text = 0
    BY <1>14 DEF ImportVector, cycleState, passVars, lateVars
  <2>2. QED
    BY <1>14, <2>1, ImportWrites DEF Writes, Same
<1>15. CASE Restart
  <2>1. /\ pc' = "idle" /\ UNCHANGED <<row, overwritten>>
        /\ missed \subseteq missed'
        /\ \A x \in Messages : requeues[x] > 0 /\ Outdated(x) => x \in missed'
    BY <1>15 DEF Restart
  <2>2. QED
    BY <2>1 DEF Outdated
<1>16. CASE SkipEmbed \/ RefuseEmbed \/ LeavePasses \/ EndPass \/ EndCycle \/
     AdmitCategorize \/ LeaveLabels \/ NextLabels \/ EndNlp \/ PauseProcessing \/
     ResumeProcessing \/ ServiceFails \/ ServiceRecovers \/ UNCHANGED vars
  BY <1>16 DEF SkipEmbed, RefuseEmbed, LeavePasses, EndPass, EndCycle, AdmitCategorize,
       LeaveLabels, NextLabels, EndNlp, PauseProcessing, ResumeProcessing, ServiceFails,
       ServiceRecovers, vars, rowVars, lateVars, passVars, loopVars, cycleVars, stallVars,
       memVars, flagVars, cycleState, EndPassVars, LeaveLoop, ForgetCycle, LoopInv
<1>17. ASSUME NEW i \in Imports, ImportStarts(i) \/ ImportEnds(i)
      PROVE  TextInv'
  BY <1>17 DEF ImportStarts, ImportEnds, rowVars, lateVars, passVars, cycleState
<1>18. QED
  BY <1>1, <1>2, <1>3, <1>4, <1>5, <1>6, <1>7, <1>8, <1>9, <1>10, <1>11, <1>12, <1>13, <1>14,
       <1>15, <1>16, <1>17 DEF Next, EmbedStep, ModelStep, Around

\* Among several candidates none of which embedded, no row is judged without the
\* probe, and one with it.
LEMMA SuspectsFew ==
  ASSUME IInv, NEW ok \in BOOLEAN, ~progress, candidates > 1
  PROVE  /\ \A m, x \in Suspects(ok) : m = x
         /\ ~ok => Suspects(ok) = {}
<1> DEFINE S == {m \in transient \ cycleSet :
                   progress \/ (prior[m] > 0 /\ candidates <= 1) \/ ok}
<1>1. S \in SUBSET Messages
  BY DEF IInv, TypeOK
<1>2. ~(candidates <= 1)
  BY DrainerAssumption DEF IInv, TypeOK
<1>3. Suspects(ok) = Oldest(S, IF ok THEN 1 ELSE 0)
  BY <1>2 DEF Suspects
<1> HIDE DEF S
<1> DEFINE T == Suspects(ok)
<1>4. IsFiniteSet(T) /\ Cardinality(T) \in 0..(IF ok THEN 1 ELSE 0)
  BY <1>1, <1>3, OldestIs
<1>5. ~ok => T = {}
  <2>1. ~ok => Cardinality(T) = 0
    BY <1>4
  <2>2. QED
    BY <1>4, <2>1, FS_EmptySet
<1>6. ASSUME NEW m \in T, NEW x \in T
      PROVE  m = x
  <2>1. Cardinality(T) = 1
    <3>1. Cardinality(T) # 0
      BY <1>4, FS_EmptySet
    <3>2. QED
      BY <1>4, <3>1
  <2>2. \E e : T = {e}
    BY <1>4, <2>1, FS_Singleton
  <2>3. QED
    BY <2>2
<1>7. QED
  BY <1>5, <1>6

\* Once spent, the probe lets no other row be judged among several.
LEMMA ProbeInvKept ==
  ASSUME IInv, [Next]_vars
  PROVE  ProbeInv'
<1> USE DEF IInv, ProbeInv, Judged
<1>0. candidates \in Nat
  BY DrainerAssumption DEF TypeOK
<1>1. CASE StartCycle \/ SkipEmbed \/ RefuseEmbed \/ AdmitEmbed
  BY <1>1 DEF StartCycle, SkipEmbed, RefuseEmbed, AdmitEmbed, loopVars, passVars, cycleVars
<1>2. CASE SelectPass
  BY <1>2 DEF SelectPass, LeaveLoop, passVars
<1>3. CASE JudgePass
  <2>1. idleHealthOk' \in BOOLEAN /\ todo' = Suspects(idleHealthOk')
    BY <1>3 DEF JudgePass
  <2>2. /\ UNCHANGED <<candidates, progress, cycleEmbedded, cycleSet, alone>>
        /\ pc = "rows" /\ pc' = "judge" /\ sentinel' = (sentinel \/ idleHealthOk')
        /\ idleHealthOk' => ~sentinel
    BY <1>3 DEF JudgePass
  <2>3. ~progress /\ candidates > 1 =>
          /\ \A m, x \in todo' : m = x
          /\ ~idleHealthOk' => todo' = {}
    BY <2>1, SuspectsFew
  <2>4. CASE progress \/ cycleEmbedded \/ ~(candidates > 1)
    BY <2>2, <2>4
  <2>5. CASE ~progress /\ ~cycleEmbedded /\ candidates > 1 /\ idleHealthOk'
    BY <2>2, <2>3, <2>5
  <2>6. CASE ~progress /\ ~cycleEmbedded /\ candidates > 1 /\ ~idleHealthOk'
    BY <2>2, <2>3, <2>6
  <2>7. QED
    BY <2>4, <2>5, <2>6
<1>4. ASSUME NEW m \in Messages, EmbedRow(m)
      PROVE  ProbeInv'
  <2>1. pc = "rows" /\ pc' = pc /\ UNCHANGED <<cycleSet, alone, sentinel, cycleEmbedded>>
    BY <1>4 DEF EmbedRow, loopVars
  <2>2. progress => progress'
    BY <1>4, Zenon DEF EmbedRow
  <2>3. QED
    BY <2>1, <2>2
<1>5. ASSUME NEW m \in Messages, JudgeRow(m)
      PROVE  ProbeInv'
  <2>1. /\ pc = "judge" /\ pc' = pc /\ m \in todo /\ todo' = todo \ {m}
        /\ cycleSet' = cycleSet \cup {m}
        /\ alone' = IF candidates <= 1 THEN alone \cup {m} ELSE alone
        /\ UNCHANGED <<candidates, sentinel, cycleEmbedded>>
    BY <1>5 DEF JudgeRow, First
  <2>5. progress => progress'
    BY <1>5, Zenon DEF JudgeRow
  <2>2. CASE candidates <= 1
    BY <1>0, <2>1, <2>2, <2>5
  <2>3. CASE ~(candidates <= 1)
    BY <1>0, <2>1, <2>3, <2>5
  <2>4. QED
    BY <2>2, <2>3
<1>6. CASE EndPass
  <2>1. CASE moved
    BY <1>6, <2>1 DEF EndPass, EndPassVars
  <2>2. CASE ~moved
    BY <1>6, <2>2 DEF EndPass, EndPassVars, LeaveLoop
  <2>3. QED
    BY <2>1, <2>2
<1>7. CASE LeavePasses \/ EndCycle \/ AdmitCategorize \/ SelectCategories \/ LeaveLabels
     \/ NextLabels \/ SelectNlp \/ EndNlp
  BY <1>7 DEF LeavePasses, EndCycle, AdmitCategorize, SelectCategories, LeaveLabels,
       NextLabels, SelectNlp, EndNlp, loopVars, passVars, cycleVars, EndPassVars, LeaveLoop,
       ForgetCycle
<1>8. ASSUME NEW m \in Messages, LabelRow(m) \/ NlpRow(m)
      PROVE  ProbeInv'
  BY <1>8 DEF LabelRow, NlpRow, loopVars, cycleVars
<1>9. ASSUME NEW m \in Messages, \/ EditMessage(m) \/ DerivedText(m) \/ Forget(m)
                                 \/ Requeue(m) \/ RequeueLost(m)
      PROVE  ProbeInv'
  BY <1>9 DEF EditMessage, DerivedText, Forget, Requeue, RequeueLost, loopVars, cycleVars,
       cycleState, passVars
<1>10. CASE RetryFailed \/ PauseProcessing \/ ResumeProcessing \/ ServiceFails \/
     ServiceRecovers \/ Restart \/ UNCHANGED vars
  BY <1>10 DEF RetryFailed, PauseProcessing, ResumeProcessing, ServiceFails, ServiceRecovers,
       Restart, vars, loopVars, passVars, cycleVars, cycleState, EndPassVars, LeaveLoop
<1>11. ASSUME NEW i \in Imports, ImportStarts(i) \/ ImportEnds(i)
      PROVE  ProbeInv'
  BY <1>11 DEF ImportStarts, ImportEnds, loopVars, cycleVars, cycleState, passVars
<1>12. ASSUME NEW i \in Imports, NEW m \in Messages, ImportVector(i, m)
      PROVE  ProbeInv'
  BY <1>12 DEF ImportVector, loopVars, cycleVars, cycleState, passVars
<1>13. QED
  BY <1>1, <1>2, <1>3, <1>4, <1>5, <1>6, <1>7, <1>8, <1>9, <1>10, <1>11, <1>12 DEF Next,
       EmbedStep, ModelStep, Around

\* What AttemptsAreKept says of a step and one row.
CountsOnce(m) ==
  row'[m].n > row[m].n => m \notin cycleSet /\ (row'[m].n = row[m].n + 1 \/ m \in overwritten)
Withdrawn(m) == GaveUp(row[m]) /\ row'[m].nlp = 0

\* The judge alone counts an attempt, on a row the cycle has not judged yet.
LEMMA AttemptCounted ==
  ASSUME IInv, [Next]_vars
  PROVE  \A x \in Messages : CountsOnce(x)
<1>0. \A x \in Messages : row[x] \in RowRecs /\ row[x].n \in Nat
  BY RowType, Bounds DEF IInv, RowRecs
<1> USE <1>0 DEF CountsOnce
<1>1. CASE StartCycle \/ AdmitEmbed \/ RetryFailed
  BY <1>1, TableResets DEF IInv, Resets, Reset
<1>2. ASSUME NEW m \in Messages, EmbedRow(m)
      PROVE  \A x \in Messages : CountsOnce(x)
  BY <1>2, EmbedRowWrites DEF IInv, Writes
<1>3. ASSUME NEW m \in Messages, JudgeRow(m)
      PROVE  \A x \in Messages : CountsOnce(x)
  <2>1. m \in todo /\ pc = "judge" /\ InHand(m) /\ m \notin cycleSet
    BY <1>3 DEF JudgeRow, First, InHand, IInv, LoopInv
  <2>2. m \notin overwritten => prior[m] = row[m].n
    BY <2>1 DEF IInv, HandInv
  <2>3. QED
    BY <1>3, <2>1, <2>2, JudgeRowWrites DEF IInv, Writes
<1>4. ASSUME NEW m \in Messages, LabelRow(m)
      PROVE  \A x \in Messages : CountsOnce(x)
  BY <1>4, LabelRowWrites DEF IInv, Writes
<1>5. ASSUME NEW m \in Messages, NlpRow(m)
      PROVE  \A x \in Messages : CountsOnce(x)
  BY <1>5, NlpRowWrites DEF IInv, Writes
<1>6. ASSUME NEW m \in Messages, EditMessage(m) \/ Requeue(m) \/ Forget(m)
      PROVE  \A x \in Messages : CountsOnce(x)
  BY <1>6, OwnerWrites DEF IInv, Writes
<1>11. ASSUME NEW m \in Messages, DerivedText(m) \/ RequeueLost(m)
      PROVE  \A x \in Messages : CountsOnce(x)
  BY <1>11, DerivedWrites DEF IInv, Writes
<1>7. ASSUME NEW i \in Imports, NEW m \in Messages, ImportVector(i, m)
      PROVE  \A x \in Messages : CountsOnce(x)
  BY <1>7, ImportWrites DEF IInv, Writes
<1>8. CASE SkipEmbed \/ RefuseEmbed \/ SelectPass \/ LeavePasses \/ JudgePass \/ EndPass \/
     EndCycle \/ AdmitCategorize \/ SelectCategories \/ LeaveLabels \/ NextLabels \/
     SelectNlp \/ EndNlp \/ PauseProcessing \/ ResumeProcessing \/ ServiceFails \/
     ServiceRecovers \/ Restart \/ UNCHANGED vars
  BY <1>8 DEF SkipEmbed, RefuseEmbed, SelectPass, LeavePasses, JudgePass, EndPass, EndCycle,
       AdmitCategorize, SelectCategories, LeaveLabels, NextLabels, SelectNlp, EndNlp,
       PauseProcessing, ResumeProcessing, ServiceFails, ServiceRecovers, Restart, vars,
       rowVars, lateVars
<1>9. ASSUME NEW i \in Imports, ImportStarts(i) \/ ImportEnds(i)
      PROVE  \A x \in Messages : CountsOnce(x)
  BY <1>9 DEF ImportStarts, ImportEnds, vars, rowVars, lateVars
<1>12. QED
  BY <1>1, <1>2, <1>3, <1>4, <1>5, <1>6, <1>7, <1>8, <1>9, <1>11 DEF Next, EmbedStep, ModelStep,
       Around

\* Only the boot and the owner take a given-up row back.
LEMMA GivenUpKept ==
  ASSUME IInv, [Next]_vars
  PROVE  \A x \in Messages : Withdrawn(x) => ~cappedReclaimed \/ events' # events
<1>0. /\ \A x \in Messages : row[x] \in RowRecs
      /\ events \in Nat
  BY RowType, DrainerAssumption DEF IInv, TypeOK
<1> USE <1>0 DEF Withdrawn, GaveUp
<1>1. CASE StartCycle
  BY <1>1 DEF StartCycle
<1>2. CASE AdmitEmbed
  <2>1. \A x \in Messages : GaveUp(row[x]) => row'[x] = row[x]
    BY <1>2, ResetIs DEF AdmitEmbed
  <2>2. QED
    BY <2>1
<1>3. CASE RetryFailed \/ Restart
  BY <1>3 DEF RetryFailed, Restart, Event
<1>4. ASSUME NEW m \in Messages, EmbedRow(m)
      PROVE  \A x \in Messages : Withdrawn(x) => ~cappedReclaimed \/ events' # events
  BY <1>4, EmbedRowWrites DEF IInv, Writes
<1>5. ASSUME NEW m \in Messages, JudgeRow(m)
      PROVE  \A x \in Messages : Withdrawn(x) => ~cappedReclaimed \/ events' # events
  <2>1. m \in todo /\ pc = "judge" /\ InHand(m)
    BY <1>5 DEF JudgeRow, First, InHand
  <2>2. row[m].nlp # -1
    BY <2>1 DEF IInv, HandInv
  <2>3. QED
    BY <1>5, <2>2, JudgeRowWrites DEF IInv, Writes
<1>6. ASSUME NEW m \in Messages, LabelRow(m)
      PROVE  \A x \in Messages : Withdrawn(x) => ~cappedReclaimed \/ events' # events
  BY <1>6, LabelRowWrites DEF IInv, Writes
<1>7. ASSUME NEW m \in Messages, NlpRow(m)
      PROVE  \A x \in Messages : Withdrawn(x) => ~cappedReclaimed \/ events' # events
  BY <1>7, NlpRowWrites DEF IInv, Writes
<1>8. ASSUME NEW m \in Messages, EditMessage(m) \/ Forget(m)
      PROVE  \A x \in Messages : Withdrawn(x) => ~cappedReclaimed \/ events' # events
  BY <1>8 DEF EditMessage, Forget, Event
<1>13. ASSUME NEW m \in Messages, Requeue(m)
      PROVE  \A x \in Messages : Withdrawn(x) => ~cappedReclaimed \/ events' # events
  <2>1. GaveUp(row[m]) => row'[m] = row[m]
    BY <1>13 DEF Requeue, Write, markForReembed, IInv, TypeOK
  <2>2. QED
    BY <1>13, <2>1, OwnerWrites DEF IInv, Writes
<1>14. ASSUME NEW m \in Messages, DerivedText(m) \/ RequeueLost(m)
      PROVE  \A x \in Messages : Withdrawn(x) => ~cappedReclaimed \/ events' # events
  BY <1>14, DerivedWrites DEF IInv, Writes
<1>9. ASSUME NEW i \in Imports, NEW m \in Messages, ImportVector(i, m)
      PROVE  \A x \in Messages : Withdrawn(x) => ~cappedReclaimed \/ events' # events
  BY <1>9, ImportWrites DEF IInv, Writes
<1>10. CASE SkipEmbed \/ RefuseEmbed \/ SelectPass \/ LeavePasses \/ JudgePass \/ EndPass \/
     EndCycle \/ AdmitCategorize \/ SelectCategories \/ LeaveLabels \/ NextLabels \/
     SelectNlp \/ EndNlp \/ PauseProcessing \/ ResumeProcessing \/ ServiceFails \/
     ServiceRecovers \/ UNCHANGED vars
  BY <1>10 DEF SkipEmbed, RefuseEmbed, SelectPass, LeavePasses, JudgePass, EndPass,
       EndCycle, AdmitCategorize, SelectCategories, LeaveLabels, NextLabels, SelectNlp,
       EndNlp, PauseProcessing, ResumeProcessing, ServiceFails, ServiceRecovers, vars,
       rowVars, lateVars
<1>11. ASSUME NEW i \in Imports, ImportStarts(i) \/ ImportEnds(i)
      PROVE  \A x \in Messages : Withdrawn(x) => ~cappedReclaimed \/ events' # events
  BY <1>11 DEF ImportStarts, ImportEnds, vars, rowVars, lateVars
<1>15. QED
  BY <1>1, <1>2, <1>3, <1>4, <1>5, <1>6, <1>7, <1>8, <1>9, <1>10, <1>11, <1>13, <1>14 DEF Next, EmbedStep,
       ModelStep, Around

-----------------------------------------------------------------------------
(* The theorems.                                                            *)

\* The invariant is inductive.
LEMMA StepKept == IInv /\ [Next]_vars => IInv'
<1> SUFFICES ASSUME IInv, [Next]_vars PROVE IInv'
  OBVIOUS
<1>1. RowTypes' /\ LoopTypes' /\ FlagTypes' /\ MemTypes'
  BY RowTypesKept, LoopTypesKept, FlagTypesKept, MemTypesKept
<1>2. TypeOK'
  BY <1>1, TypeParts, PTL
<1>3. QED
  BY <1>2, RowInvKept, LoopInvKept, HandInvKept, TextInvKept, ProbeInvKept DEF IInv

\* Outside the messages that changed under a writer's hands, db/messages.js's
\* columns tell what was done: a vector is of the text the message has now, or of
\* an older one whose re-queue is under way or failed; only an embedded row is
\* tagged, a forgotten one has no vector, and a message without a vector is in a
\* queue, given up, set aside or blank.
THEOREM RowsAgree == Spec => []DrainerInv
<1>1. IInv /\ [Next]_vars => IInv'
  BY StepKept
<1>2. IInv => DrainerInv
  BY DEF IInv, RowInv, TextInv, Current, DrainerInv, RowsTellTheTruth, NothingStranded,
       Truthful, Placed
<1>3. QED
  BY InitIInv, <1>1, <1>2, PTL DEF Spec

\* A row's failures are counted one by one, at most one in a cycle; and a row
\* that was given up comes back by the boot's reclaim or by what the owner does,
\* never by the self-heal that every cycle runs.
THEOREM AttemptsKept == Spec => AttemptsAreKept
<1>1. IInv /\ [Next]_vars => IInv'
  BY StepKept
<1>2. IInv /\ [Next]_vars => [\A m \in Messages : row'[m].n > row[m].n =>
         m \notin cycleSet /\ (row'[m].n = row[m].n + 1 \/ m \in overwritten)]_vars
  BY AttemptCounted DEF CountsOnce
<1>3. IInv /\ [Next]_vars => [\A m \in Messages : GaveUp(row[m]) /\ row'[m].nlp = 0 =>
         ~cappedReclaimed \/ events' # events]_vars
  BY GivenUpKept DEF Withdrawn
<1>4. QED
  BY InitIInv, <1>1, <1>2, <1>3, PTL DEF Spec, AttemptsAreKept, AttemptsCountOnce,
       GivenUpStaysSo

\* service.js: through all the passes of a cycle that embeds nothing, one row at
\* most is judged among several candidates, however many rows fail together.
THEOREM OutageForgiven == Spec => []OutageCostsOneRow
<1>1. IInv /\ [Next]_vars => IInv'
  BY StepKept
<1>2. IInv => OutageCostsOneRow
  BY DEF IInv, ProbeInv, Judged, OutageCostsOneRow
<1>3. QED
  BY InitIInv, <1>1, <1>2, PTL DEF Spec

=============================================================================
