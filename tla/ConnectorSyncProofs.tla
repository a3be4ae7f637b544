------------------------- MODULE ConnectorSyncProofs -------------------------
(***************************************************************************)
(* What a connector guarantees for any accounts, items, pages, caps, limits *)
(* and faults: its cursor passes no item by itself, and a disconnected one  *)
(* leaves nothing behind, as long as no link or disconnect overlaps.        *)
(***************************************************************************)
EXTENDS ConnectorSync, FiniteSetTheorems, TLAPS

\* Every item up to the cursor was captured, or passed over for a newer one.
Earned(c) == \A i \in 1..c.pos : <<c.acc, i>> \in captured \cup skipped

\* The cursor belongs to the account whose tokens are stored, if any are.
Fits(c) == c = NoCursor \/ tokens = 0 \/ c.acc = tokens

Good(c) == Earned(c) /\ Fits(c)

\* While nothing has overlapped or been torn: every copy of the row, the stored one and
\* those that a caller or a pass has read or is to write, has an earned cursor
\* of the account that the tokens are for.
CursorInv ==
  ~overlapped /\ ~Unlinked =>
    Good(row.cursor) /\ Good(call.cursor) /\ Good(sync.state.cursor) /\ Good(sync.next.cursor)

\* A pass pulls with the tokens that are stored, and a disconnect that has
\* removed them finds them removed.
TokenInv ==
  ~overlapped => /\ sync.at = "pull" => sync.tok = tokens
                 /\ leaving = "row" => tokens = 0

\* A connector that is not linked has no tokens, and no copy of its row that a
\* pass could write back has synced anything.
Blank(r) == r.cursor = NoCursor /\ r.spent = 0

AwayInv ==
  ~overlapped /\ ~wanted /\ ~Unlinked =>
    /\ tokens = 0
    /\ Blank(row) /\ Blank(call) /\ Blank(sync.state) /\ Blank(sync.next)
    /\ row.status # "connected" /\ sync.next.status # "connected"

IInv == TypeOK /\ CursorInv /\ TokenInv /\ AwayInv

-----------------------------------------------------------------------------
(* Rows.                                                                    *)

Cursors == [acc : 0..MaxAccounts, pos : 0..NumItems]
SyncRecs == [at : {"none", "mark", "tokens", "pull", "write"}, tok : 0..MaxAccounts,
             state : Rows, next : Rows]

\* The empty row, cursor and pass.
LEMMA Nothing ==
  /\ NoRow \in Rows /\ NoRow.cursor = NoCursor /\ NoRow.spent = 0 /\ NoRow.status = "none"
  /\ NoCursor \in Cursors /\ NoCursor.pos = 0
  /\ NoSync \in SyncRecs /\ NoSync.at = "none" /\ NoSync.state = NoRow /\ NoSync.next = NoRow
  /\ Blank(NoRow)
<1>1. NoCursor \in Cursors /\ NoCursor.pos = 0
  BY ConnectorAssumption DEF NoCursor, Cursors
<1>2. NoRow \in Rows /\ NoRow.cursor = NoCursor /\ NoRow.spent = 0 /\ NoRow.status = "none"
  BY <1>1, ConnectorAssumption DEF NoRow, Rows, Cursors
<1>3. NoSync \in SyncRecs /\ NoSync.at = "none" /\ NoSync.state = NoRow /\ NoSync.next = NoRow
  BY <1>2, ConnectorAssumption DEF NoSync, SyncRecs
<1>4. QED
  BY <1>1, <1>2, <1>3 DEF Blank

\* A row with another status keeps its cursor and what it has spent; on a new
\* day it has spent nothing.
LEMMA RowWith ==
  ASSUME NEW r \in Rows, NEW s \in {"connecting", "connected", "syncing", "error"}
  PROVE  LET u == [r EXCEPT !.status = s]
         IN  u \in Rows /\ u.cursor = r.cursor /\ u.spent = r.spent /\ u.status = s
BY DEF Rows

LEMMA FreshIs ==
  ASSUME NEW r \in Rows
  PROVE  /\ Fresh(r) \in Rows /\ Fresh(r).cursor = r.cursor /\ Fresh(r).spent = 0
         /\ Fresh(r).status = r.status
BY ConnectorAssumption DEF Rows, Fresh

LEMMA CapIs ==
  ASSUME NEW n \in Nat, NEW max \in Nat
  PROVE  Cap(n, max) \in 0..max
BY DEF Cap

LEMMA IdlerIs ==
  ASSUME NEW n \in 0..MAX_BACKOFF_SHIFT
  PROVE  Idler(n) \in 0..MAX_BACKOFF_SHIFT
BY CapIs, ConnectorAssumption DEF Idler

\* The longest wait, a power of two, is a number.
LEMMA WaitIs == 2^MAX_BACKOFF_SHIFT \in Nat
<1> DEFINE n == MAX_BACKOFF_SHIFT
<1>1. n \in Nat /\ IsFiniteSet(1..n) /\ Cardinality(1..n) = n
  BY ConnectorAssumption, FS_Interval
<1>2. IsFiniteSet(SUBSET (1..n)) /\ Cardinality(SUBSET (1..n)) = 2^n
  BY <1>1, FS_SUBSET
<1>3. QED
  BY <1>2, FS_CardinalityType

\* A write of a pass holds the row that it is to write.
LEMMA WritesAre ==
  ASSUME NEW at \in {"mark", "write"}, NEW st \in Rows, NEW nx \in Rows
  PROVE  /\ Writes(at, st, nx) \in SyncRecs /\ Writes(at, st, nx).at = at
         /\ Writes(at, st, nx).state = st /\ Writes(at, st, nx).next = nx
BY ConnectorAssumption DEF Writes, SyncRecs

-----------------------------------------------------------------------------
(* The steps of a pass.                                                     *)

SyncType == row \in Rows /\ call \in Rows /\ sync \in SyncRecs

LEMMA SyncTyped == TypeOK => SyncType
BY DEF TypeOK, SyncType, SyncRecs

\* The caller reads the row.
LEMMA CallIs ==
  ASSUME SyncType, runSync
  PROVE  call' \in Rows /\ call'.cursor = row.cursor /\ call'.spent = row.spent
BY RowWith DEF SyncType, runSync

\* The row that a pass is to write is the row as it is but for the status, the
\* idle count and what the caller had read as spent; its state is the caller's.
LEMMA EnterIs ==
  ASSUME SyncType, Enter
  PROVE  /\ call' = NoRow /\ sync' \in SyncRecs
         /\ \/ sync' = sync
            \/ /\ sync'.at = "write" /\ sync'.state = NoRow /\ call.spent >= DailyLimit
               /\ sync'.next.cursor = row.cursor /\ sync'.next.spent = call.spent
            \/ /\ sync'.at = "mark" /\ sync'.state = call
               /\ sync'.next.cursor = row.cursor /\ sync'.next.spent = row.spent
               /\ sync'.next.status = "syncing"
<1>1. CASE sync' = sync
  BY <1>1 DEF Enter, SyncType
<1>2. CASE /\ call.spent >= DailyLimit
           /\ sync' = Writes("write", NoRow, [row EXCEPT !.status = "connected",
                                                         !.idle = Idler(call.idle),
                                                         !.spent = call.spent])
  <2> DEFINE u == [row EXCEPT !.status = "connected", !.idle = Idler(call.idle),
                              !.spent = call.spent]
  <2>1. Idler(call.idle) \in 0..MAX_BACKOFF_SHIFT
    BY IdlerIs DEF SyncType, Rows
  <2>2. u \in Rows /\ u.cursor = row.cursor /\ u.spent = call.spent
    BY <2>1 DEF SyncType, Rows
  <2> HIDE DEF u
  <2>3. sync' = Writes("write", NoRow, u) /\ NoRow \in Rows
    BY <1>2, Nothing DEF u
  <2>4. sync' \in SyncRecs /\ sync'.at = "write" /\ sync'.state = NoRow /\ sync'.next = u
    BY <2>2, <2>3, WritesAre
  <2>5. call' = NoRow
    BY DEF Enter
  <2>6. QED
    BY <1>2, <2>2, <2>4, <2>5
<1>3. CASE sync' = Writes("mark", call, [row EXCEPT !.status = "syncing"])
  <2> DEFINE u == [row EXCEPT !.status = "syncing"]
  <2>1. u \in Rows /\ u.cursor = row.cursor /\ u.spent = row.spent /\ u.status = "syncing"
    BY RowWith DEF SyncType
  <2> HIDE DEF u
  <2>2. /\ sync' \in SyncRecs /\ sync'.at = "mark" /\ sync'.state = call /\ sync'.next = u
    BY <1>3, <2>1, WritesAre DEF SyncType, u
  <2>3. QED
    BY <2>1, <2>2 DEF Enter
<1>4. QED
  BY <1>1, <1>2, <1>3 DEF Enter

\* A page is made of items; there are finitely many of them.
LEMMA ListedIs == Listed \subseteq Items
BY DEF Listed, NewestOf

LEMMA ItemsAre ==
  ASSUME NEW items \in SUBSET Items
  PROVE  Cardinality(items) \in Nat
<1>1. IsFiniteSet(Items)
  BY ConnectorAssumption, FS_Interval DEF Items
<1>2. QED
  BY <1>1, FS_Subset, FS_CardinalityType

\* A pass that reaches the source leaves a row whose cursor is the one it read,
\* or one of the account it pulled from, up to which it took or passed over all.
LEMMA PullIs ==
  ASSUME TypeOK, PullEnds
  PROVE  /\ sync' \in SyncRecs /\ sync'.at = "write" /\ sync'.state = NoRow
         /\ \/ sync'.next.cursor = sync.state.cursor
            \/ \E n \in 0..NumItems :
                 /\ sync'.next.cursor = [acc |-> sync.tok, pos |-> n]
                 /\ \A i \in Items : sync.state.cursor.pos < i /\ i <= n =>
                      <<sync.tok, i>> \in captured' \cup skipped'
         /\ captured' \subseteq Accounts \X Items /\ skipped' \subseteq Accounts \X Items
         /\ captured \subseteq captured' /\ skipped \subseteq skipped'
<1>1. sync.tok \in Accounts /\ sync \in SyncRecs
  BY ConnectorAssumption DEF TypeOK, PullEnds, Accounts, SyncRecs
<1> DEFINE News(items) == ({sync.tok} \X NewestOf(items, MAX_ITEMS_PER_SYNC)) \ captured
           Passed(items) == {i \in Items : sync.state.cursor.pos < i /\ \E j \in items : i <= j}
           U(items, cursor) ==
             [status |-> "connected", cursor |-> cursor,
              idle |-> IF News(items) = {} THEN Idler(sync.state.idle) ELSE 0,
              spent |-> Cap(sync.state.spent + Cardinality(items), DailyLimit)]
<1>2. PICK items \in SUBSET Items, cursor \in [acc : 0..MaxAccounts, pos : 0..NumItems] :
        /\ nextCursor(items, cursor)
        /\ captured' = captured \cup News(items)
        /\ skipped' = skipped \cup
                      (({sync.tok} \X Passed(items)) \ (captured \cup News(items)))
        /\ sync' = Writes("write", NoRow, U(items, cursor))
  BY DEF PullEnds
<1>3. NewestOf(items, MAX_ITEMS_PER_SYNC) \subseteq Items /\ Passed(items) \subseteq Items
  BY DEF NewestOf
<1>4. U(items, cursor) \in Rows
  <2>1. sync.state \in Rows
    BY <1>1 DEF SyncRecs
  <2>2. sync.state.spent \in Nat /\ sync.state.idle \in 0..MAX_BACKOFF_SHIFT
    BY <2>1, ConnectorAssumption DEF Rows
  <2>3. Idler(sync.state.idle) \in 0..MAX_BACKOFF_SHIFT /\ 0 \in 0..MAX_BACKOFF_SHIFT
    BY <2>2, IdlerIs, ConnectorAssumption
  <2>4. sync.state.spent + Cardinality(items) \in Nat
    BY <2>2, ItemsAre
  <2>5. Cap(sync.state.spent + Cardinality(items), DailyLimit) \in 0..DailyLimit
    BY <2>4, CapIs, ConnectorAssumption
  <2> HIDE DEF News
  <2>6. QED
    BY <2>3, <2>5 DEF Rows
<1>5. /\ sync' \in SyncRecs /\ sync'.at = "write" /\ sync'.state = NoRow
      /\ sync'.next = U(items, cursor)
  <2> HIDE DEF U
  <2>1. QED
    BY <1>2, <1>4, Nothing, WritesAre
<1>6. U(items, cursor).cursor = cursor
  OBVIOUS
<1>7. captured' \subseteq Accounts \X Items /\ skipped' \subseteq Accounts \X Items
  <2> HIDE DEF Passed
  <2>1. QED
    BY <1>1, <1>2, <1>3 DEF TypeOK
<1>8. \/ cursor = sync.state.cursor
      \/ \E n \in 0..NumItems :
           /\ cursor = [acc |-> sync.tok, pos |-> n]
           /\ \A i \in Items : sync.state.cursor.pos < i /\ i <= n =>
                <<sync.tok, i>> \in captured' \cup skipped'
  <2>1. CASE items = {}
    BY <1>2, <2>1 DEF nextCursor
  <2>2. CASE items # {}
    <3>1. PICK n \in items : cursor = [acc |-> sync.tok, pos |-> n]
      BY <1>2, <2>2 DEF nextCursor
    <3>2. n \in 0..NumItems
      BY ConnectorAssumption DEF Items
    <3>3. ASSUME NEW i \in Items, sync.state.cursor.pos < i, i <= n
          PROVE  <<sync.tok, i>> \in captured' \cup skipped'
      <4>1. i \in Passed(items)
        BY <3>3
      <4> HIDE DEF Passed, News
      <4>2. QED
        BY <1>2, <4>1
    <3>4. QED
      BY <3>1, <3>2, <3>3
  <2>3. QED
    BY <2>1, <2>2
<1>9. QED
  <2> HIDE DEF U, News, Passed
  <2>1. QED
    BY <1>2, <1>5, <1>6, <1>7, <1>8

\* A pass that fails leaves the row as it is but for its status.
LEMMA FailIs ==
  ASSUME TypeOK, PullFails \/ PullRefused
  PROVE  /\ sync' \in SyncRecs /\ sync'.at = "write" /\ sync'.state = NoRow
         /\ sync'.next.cursor = row.cursor /\ sync'.next.spent = row.spent
         /\ sync'.next.status = "error"
         /\ captured' \subseteq Accounts \X Items /\ captured \subseteq captured'
         /\ skipped' = skipped
<1> DEFINE u == [row EXCEPT !.status = "error"]
<1>1. SyncType
  BY SyncTyped
<1>2. u \in Rows /\ u.cursor = row.cursor /\ u.spent = row.spent /\ u.status = "error"
  BY <1>1, RowWith DEF SyncType
<1>3. sync' = Writes("write", NoRow, u) /\ skipped' = skipped
  BY DEF PullFails, PullRefused, Failed, srcVars
<1>4. captured' \subseteq Accounts \X Items /\ captured \subseteq captured'
  <2>1. CASE PullRefused
    BY <2>1 DEF PullRefused, srcVars, TypeOK
  <2>2. CASE PullFails
    <3>1. PICK n \in 0..MAX_ITEMS_PER_SYNC :
            captured' = captured \cup ({sync.tok} \X NewestOf(Listed, n))
      BY <2>2 DEF PullFails
    <3>2. NewestOf(Listed, n) \subseteq Items
      BY ListedIs DEF NewestOf
    <3>3. sync.tok \in Accounts
      BY <2>2, ConnectorAssumption DEF PullFails, TypeOK, Accounts
    <3>4. QED
      BY <3>1, <3>2, <3>3 DEF TypeOK
  <2>3. QED
    BY <2>1, <2>2
<1>5. QED
  <2> HIDE DEF u
  <2>1. QED
    BY <1>2, <1>3, <1>4, Nothing, WritesAre

\* A write goes to the row; the pass goes on to its tokens or is over.
LEMMA PatchIs ==
  ASSUME SyncType, patchState
  PROVE  /\ row' = sync.next /\ row' \in Rows /\ sync' \in SyncRecs /\ sync'.at # "pull"
         /\ sync'.state \in {sync.state, NoRow} /\ sync'.next = NoRow
BY Nothing DEF SyncType, patchState, SyncRecs

\* The tokens are read.
LEMMA TokensAre ==
  ASSUME TypeOK, getTokens
  PROVE  /\ sync' \in SyncRecs /\ sync'.at = "pull" /\ sync'.tok = tokens
         /\ sync'.state = sync.state /\ sync'.next = sync.next
BY DEF TypeOK, getTokens, SyncRecs

\* A new day takes from every copy of the row what it has spent.
LEMMA DayIs ==
  ASSUME SyncType, NewDay
  PROVE  /\ row' \in Rows /\ row'.cursor = row.cursor /\ row'.spent = 0 /\ row'.status = row.status
         /\ call' \in Rows /\ call'.cursor = call.cursor /\ call'.spent = 0
         /\ sync' \in SyncRecs /\ sync'.at = sync.at /\ sync'.tok = sync.tok
         /\ sync'.state.cursor = sync.state.cursor /\ sync'.state.spent = 0
         /\ sync'.next.cursor = sync.next.cursor /\ sync'.next.spent = 0
         /\ sync'.next.status = sync.next.status
<1>1. row' = Fresh(row) /\ call' = Fresh(call)
  BY DEF NewDay
<1>2. sync' = [sync EXCEPT !.state = Fresh(sync.state), !.next = Fresh(sync.next)]
  BY DEF NewDay
<1>3. sync.state \in Rows /\ sync.next \in Rows
  BY DEF SyncType, SyncRecs
<1>4. Fresh(sync.state) \in Rows /\ Fresh(sync.next) \in Rows
  BY <1>3, FreshIs
<1>5. /\ sync' \in SyncRecs /\ sync'.at = sync.at /\ sync'.tok = sync.tok
      /\ sync'.state = Fresh(sync.state) /\ sync'.next = Fresh(sync.next)
  BY <1>2, <1>4 DEF SyncType, SyncRecs
<1>6. QED
  BY <1>1, <1>3, <1>5, FreshIs DEF SyncType

-----------------------------------------------------------------------------
(* The types, kept part by part.                                            *)

LinkTypes ==
  /\ tokens \in 0..MaxAccounts /\ oauth \in 0..MaxAccounts /\ grants \in 0..MaxGrants
  /\ link \in [acc : 0..MaxAccounts, at : {"none", "exchange", "row"}]
  /\ leaving \in {"no", "revoke", "row"}

FlagTypes ==
  /\ oauthAdapter \in BOOLEAN /\ wanted \in BOOLEAN
  /\ overlapped \in BOOLEAN /\ torn \in BOOLEAN

SourceTypes ==
  /\ waited \in 0..2^MAX_BACKOFF_SHIFT
  /\ published \in [Accounts -> 0..NumItems]
  /\ captured \subseteq Accounts \X Items /\ skipped \subseteq Accounts \X Items
  /\ faults \in 0..MaxFaults

\* The four parts are the type invariant.
LEMMA TypeParts == TypeOK <=> SyncType /\ LinkTypes /\ FlagTypes /\ SourceTypes
BY DEF TypeOK, SyncType, SyncRecs, LinkTypes, FlagTypes, SourceTypes

\* In the beginning there is nothing.
LEMMA InitIInv == Init => IInv
<1> SUFFICES ASSUME Init PROVE IInv
  OBVIOUS
<1>1. SyncType /\ LinkTypes /\ SourceTypes
  BY Nothing, WaitIs, ConnectorAssumption DEF Init, SyncType, LinkTypes, SourceTypes, NoLink
<1>2. FlagTypes
  BY Zenon DEF Init, FlagTypes
<1>3. CursorInv
  BY Nothing DEF Init, CursorInv, Good, Earned, Fits
<1>4. TokenInv /\ AwayInv
  BY Nothing DEF Init, TokenInv, AwayInv
<1>5. QED
  BY <1>1, <1>2, <1>3, <1>4, TypeParts DEF IInv

\* Every copy of the row stays a row.
LEMMA SyncTypesKept ==
  ASSUME IInv, [Next]_vars
  PROVE  SyncType'
<1>0. TypeOK /\ SyncType
  BY SyncTyped DEF IInv
<1> USE <1>0
<1>1. CASE ManualSync \/ cycle
  BY <1>1, CallIs DEF ManualSync, cycle, SyncType, linkVars
<1>2. CASE Enter
  BY <1>2, EnterIs, Nothing DEF Enter, SyncType, linkVars
<1>3. CASE patchState
  BY <1>3, PatchIs DEF patchState, SyncType
<1>4. CASE getTokens
  BY <1>4, TokensAre DEF getTokens, SyncType
<1>5. CASE PullEnds
  BY <1>5, PullIs DEF PullEnds, SyncType
<1>6. CASE PullFails \/ PullRefused
  BY <1>6, FailIs DEF PullFails, PullRefused, SyncType
<1>7. CASE NewDay
  BY <1>7, DayIs DEF NewDay, SyncType
<1>8. CASE Crash \/ removeRow
  BY <1>8, Nothing DEF Crash, removeRow, SyncType, syncVars
<1>9. CASE LinkRow
  <2>1. [NoRow EXCEPT !.status = "connected"] \in Rows
    BY Nothing, RowWith
  <2>2. QED
    BY <1>9, <2>1 DEF LinkRow, SyncType, syncVars
<1>10. ASSUME NEW a \in Accounts, connect(a)
      PROVE  SyncType'
  <2>1. row' \in Rows
    <3>1. [NoRow EXCEPT !.status = "connecting"] \in Rows
      BY Nothing, RowWith
    <3>2. QED
      BY <1>10, <3>1 DEF connect, SyncType
  <2>2. QED
    BY <1>10, <2>1 DEF connect, SyncType, syncVars
<1>11. CASE handleCallback \/ exchangeCode \/ disconnect \/ removeTokens \/ ensureFreshToken
     \/ UNCHANGED vars
  BY <1>11 DEF handleCallback, exchangeCode, disconnect, removeTokens, ensureFreshToken,
       vars, linkVars, syncVars, srcVars, SyncType
<1>12. ASSUME NEW a \in Accounts, Publish(a)
      PROVE  SyncType'
  BY <1>12 DEF Publish, vars, linkVars, syncVars, srcVars, SyncType
<1>13. QED
  BY <1>1, <1>2, <1>3, <1>4, <1>5, <1>6, <1>7, <1>8, <1>9, <1>10, <1>11, <1>12 DEF Next,
       PassStep

\* So do the parts of a link.
LEMMA LinkTypesKept ==
  ASSUME IInv, [Next]_vars
  PROVE  LinkTypes'
<1>0. TypeOK /\ LinkTypes
  BY TypeParts DEF IInv
<1> USE <1>0, ConnectorAssumption DEF LinkTypes
<1>1. CASE getTokens \/ PullEnds \/ PullFails \/ PullRefused \/ patchState
  BY <1>1 DEF getTokens, PullEnds, PullFails, PullRefused, patchState, linkVars
<1>2. CASE ensureFreshToken
  BY <1>2 DEF ensureFreshToken, linkVars, TypeOK
<1>3. CASE exchangeCode
  <2>1. /\ link.acc \in 0..MaxAccounts
        /\ NoLink \in [acc : 0..MaxAccounts, at : {"none", "exchange", "row"}]
    BY DEF NoLink
  <2>2. [link EXCEPT !.at = "row"] \in [acc : 0..MaxAccounts, at : {"none", "exchange", "row"}]
    OBVIOUS
  <2>3. QED
    BY <1>3, <2>1, <2>2 DEF exchangeCode
<1>4. CASE Crash
  BY <1>4 DEF Crash, NoLink
<1>5. CASE LinkRow
  BY <1>5 DEF LinkRow, NoLink
<1>6. CASE handleCallback
  BY <1>6 DEF handleCallback
<1>7. CASE removeTokens
  BY <1>7 DEF removeTokens, DropTokens
<1>8. CASE removeRow
  BY <1>8 DEF removeRow
<1>9. CASE disconnect
  BY <1>9 DEF disconnect
<1>10. CASE ManualSync \/ Enter \/ cycle \/ NewDay
  BY <1>10 DEF ManualSync, Enter, cycle, NewDay, linkVars
<1>11. CASE UNCHANGED vars
  BY <1>11 DEF vars, linkVars, syncVars, srcVars, Accounts, NoLink
<1>12. ASSUME NEW a \in Accounts, connect(a) \/ Publish(a)
      PROVE  LinkTypes'
  BY <1>12 DEF connect, Publish, vars, linkVars, syncVars, srcVars, Accounts, NoLink
<1>13. QED
  BY <1>1, <1>2, <1>3, <1>4, <1>5, <1>6, <1>7, <1>8, <1>9, <1>10, <1>11, <1>12 DEF Next,
       PassStep

\* The flags.
LEMMA FlagTypesKept ==
  ASSUME IInv, [Next]_vars
  PROVE  FlagTypes'
<1>0. FlagTypes
  BY TypeParts DEF IInv
<1> USE <1>0 DEF FlagTypes
<1>1. ASSUME NEW a \in Accounts, connect(a)
      PROVE  FlagTypes'
  BY <1>1, Zenon DEF connect, vars, linkVars, syncVars, srcVars, Overlap
<1>2. CASE handleCallback
  BY <1>2, Zenon DEF handleCallback, vars, linkVars, syncVars, srcVars, Overlap
<1>3. CASE exchangeCode
  BY <1>3, Zenon DEF exchangeCode, vars, linkVars, syncVars, srcVars, Overlap
<1>4. CASE LinkRow
  BY <1>4, Zenon DEF LinkRow, vars, linkVars, syncVars, srcVars, Overlap
<1>5. CASE disconnect
  BY <1>5, Zenon DEF disconnect, vars, linkVars, syncVars, srcVars, Overlap
<1>6. CASE removeTokens
  BY <1>6, Zenon DEF removeTokens, vars, linkVars, syncVars, srcVars, Overlap
<1>7. CASE removeRow
  BY <1>7, Zenon DEF removeRow, vars, linkVars, syncVars, srcVars, Overlap
<1>8. CASE ManualSync
  BY <1>8, Zenon DEF ManualSync, vars, linkVars, syncVars, srcVars, Overlap
<1>9. CASE Enter
  BY <1>9, Zenon DEF Enter, vars, linkVars, syncVars, srcVars, Overlap
<1>10. CASE patchState
  BY <1>10, Zenon DEF patchState, vars, linkVars, syncVars, srcVars, Overlap
<1>11. CASE getTokens
  BY <1>11, Zenon DEF getTokens, vars, linkVars, syncVars, srcVars, Overlap
<1>12. CASE PullEnds
  BY <1>12, Zenon DEF PullEnds, vars, linkVars, syncVars, srcVars, Overlap
<1>13. CASE PullFails
  BY <1>13, Zenon DEF PullFails, vars, linkVars, syncVars, srcVars, Overlap
<1>14. CASE PullRefused
  BY <1>14, Zenon DEF PullRefused, vars, linkVars, syncVars, srcVars, Overlap
<1>15. CASE ensureFreshToken
  BY <1>15, Zenon DEF ensureFreshToken, vars, linkVars, syncVars, srcVars, Overlap
<1>16. CASE cycle
  BY <1>16, Zenon DEF cycle, vars, linkVars, syncVars, srcVars, Overlap
<1>17. ASSUME NEW a \in Accounts, Publish(a)
      PROVE  FlagTypes'
  BY <1>17, Zenon DEF Publish, vars, linkVars, syncVars, srcVars, Overlap
<1>18. CASE NewDay
  BY <1>18, Zenon DEF NewDay, vars, linkVars, syncVars, srcVars, Overlap
<1>19. CASE Crash
  BY <1>19, Zenon DEF Crash, vars, linkVars, syncVars, srcVars, Overlap
<1>20. CASE UNCHANGED vars
  BY <1>20, Zenon DEF vars, linkVars, syncVars, srcVars, Overlap
<1>21. QED
  BY <1>1, <1>2, <1>3, <1>4, <1>5, <1>6, <1>7, <1>8, <1>9, <1>10, <1>11, <1>12, <1>13,
       <1>14, <1>15, <1>16, <1>17, <1>18, <1>19, <1>20 DEF Next, PassStep

\* And the source and its counters.
LEMMA SourceTypesKept ==
  ASSUME IInv, [Next]_vars
  PROVE  SourceTypes'
<1>0. TypeOK /\ SourceTypes
  BY TypeParts DEF IInv
<1> USE <1>0, ConnectorAssumption DEF SourceTypes
<1>1. CASE PullEnds
  <2>1. waited' = 0 /\ published' = published /\ (faults' = faults \/ Fault)
    BY <1>1 DEF PullEnds, Pulls
  <2>2. faults' \in 0..MaxFaults
    BY <2>1 DEF Fault
  <2>3. QED
    BY <1>1, <2>1, <2>2, PullIs, WaitIs
<1>2. CASE PullFails \/ PullRefused
  BY <1>2, FailIs DEF PullFails, PullRefused, Fault, srcVars
<1>3. CASE cycle
  <2>1. waited \in Nat /\ waited + 1 \in Nat
    BY WaitIs
  <2>2. Cap(waited + 1, 2^MAX_BACKOFF_SHIFT) \in 0..2^MAX_BACKOFF_SHIFT
    BY <2>1, CapIs, WaitIs
  <2>3. QED
    BY <1>3, <2>2 DEF cycle, srcVars
<1>4. ASSUME NEW a \in Accounts, Publish(a)
      PROVE  SourceTypes'
  <2>1. published[a] + 1 \in 0..NumItems
    BY <1>4 DEF Publish
  <2>2. published' = [published EXCEPT ![a] = published[a] + 1]
    BY <1>4 DEF Publish
  <2>3. QED
    BY <1>4, <2>1, <2>2 DEF Publish, syncVars
<1>5. CASE handleCallback \/ exchangeCode \/ LinkRow \/ disconnect \/ removeTokens \/
     removeRow \/ ManualSync \/ Enter \/ patchState \/ getTokens \/ ensureFreshToken \/
     NewDay \/ Crash \/ UNCHANGED vars
  BY <1>5 DEF handleCallback, exchangeCode, LinkRow, disconnect, removeTokens, removeRow,
       ManualSync, Enter, patchState, getTokens, ensureFreshToken, NewDay, Crash, vars,
       linkVars, syncVars, srcVars, Fault
<1>6. ASSUME NEW a \in Accounts, connect(a)
      PROVE  SourceTypes'
  BY <1>6 DEF connect, vars, linkVars, syncVars, srcVars, Fault
<1>7. QED
  BY <1>1, <1>2, <1>3, <1>4, <1>5, <1>6 DEF Next, PassStep

-----------------------------------------------------------------------------
(* The invariant.                                                           *)

\* Nothing that was captured or passed over is forgotten.
LEMMA EarnedStays ==
  ASSUME captured \subseteq captured', skipped \subseteq skipped', NEW c, Earned(c)
  PROVE  \A i \in 1..c.pos : <<c.acc, i>> \in captured' \cup skipped'
BY DEF Earned

\* The cursor after a pull is earned, if the pass went on from an earned one.
LEMMA PullEarns ==
  ASSUME TypeOK, PullEnds, Good(sync.state.cursor), tokens = sync.tok
  PROVE  LET c == sync'.next.cursor
         IN  /\ \A i \in 1..c.pos : <<c.acc, i>> \in captured' \cup skipped'
             /\ c = NoCursor \/ c.acc = tokens
<1> DEFINE c == sync'.next.cursor
           s == sync.state.cursor
<1>1. sync.tok # 0 /\ sync.tok \in Accounts
  BY ConnectorAssumption DEF TypeOK, PullEnds, Accounts
<1>2. s \in Cursors /\ Earned(s) /\ (s = NoCursor \/ s.acc = sync.tok)
  BY <1>1 DEF TypeOK, Rows, Cursors, Good, Fits
<1>3. CASE c = s
  BY <1>2, <1>3, PullIs, EarnedStays
<1>4. ASSUME NEW n \in 0..NumItems, c = [acc |-> sync.tok, pos |-> n],
             \A i \in Items : s.pos < i /\ i <= n => <<sync.tok, i>> \in captured' \cup skipped'
      PROVE  /\ \A i \in 1..c.pos : <<c.acc, i>> \in captured' \cup skipped'
             /\ c = NoCursor \/ c.acc = tokens
  <2>1. ASSUME NEW i \in 1..n
        PROVE  <<sync.tok, i>> \in captured' \cup skipped'
    <3>1. CASE i \in 1..s.pos
      <4>1. s # NoCursor
        BY <3>1, Nothing
      <4>2. QED
        BY <1>2, <3>1, <4>1, PullIs, EarnedStays
    <3>2. CASE i \notin 1..s.pos
      BY <1>2, <1>4, <2>1, <3>2, ConnectorAssumption DEF Items, Cursors
    <3>3. QED
      BY <3>1, <3>2
  <2>2. c.pos = n /\ c.acc = sync.tok
    BY <1>4
  <2> HIDE DEF c
  <2>3. QED
    BY <2>1, <2>2
<1>5. QED
  <2> HIDE DEF c
  <2>1. QED
    BY <1>3, <1>4, PullIs DEF c

\* The empty cursor is good whatever has happened.
LEMMA EmptyGood == Good(NoCursor)'
BY Nothing DEF Good, Earned, Fits

\* Where the row is good and there is neither a pass nor a caller, so is all.
LEMMA QuietGood ==
  ASSUME Good(row.cursor)', call' = NoRow, sync' = NoSync
  PROVE  CursorInv'
BY EmptyGood, Nothing DEF CursorInv

\* A link or disconnect that nothing overlapped finds no pass and no caller.
LEMMA Alone ==
  ASSUME NEW busy, overlapped' = (overlapped \/ Syncing \/ busy), ~overlapped'
  PROVE  ~overlapped /\ sync = NoSync /\ call = NoRow /\ ~busy
BY DEF Syncing

\* The cursor of every copy stays earned.
LEMMA CursorInvKept ==
  ASSUME IInv, [Next]_vars
  PROVE  CursorInv'
<1> USE DEF Unlinked
<1>0. TypeOK /\ SyncType /\ CursorInv /\ TokenInv
  BY SyncTyped DEF IInv
<1> USE <1>0, Nothing
<1>1. CASE ManualSync \/ cycle
  BY <1>1, CallIs DEF ManualSync, cycle, CursorInv, Good, Earned, Fits, linkVars, srcVars
<1>2. CASE Enter
  BY <1>2, EnterIs DEF Enter, CursorInv, Good, Earned, Fits, linkVars, srcVars
<1>3. CASE patchState
  BY <1>3, PatchIs DEF patchState, CursorInv, Good, Earned, Fits, linkVars, srcVars
<1>4. CASE getTokens
  BY <1>4, TokensAre DEF getTokens, CursorInv, Good, Earned, Fits, linkVars, srcVars
<1>5. CASE PullEnds
  <2>1. UNCHANGED <<row, tokens, call, overlapped, torn, link>> /\ sync.at = "pull"
    BY <1>5 DEF PullEnds, linkVars
  <2>2. captured \subseteq captured' /\ skipped \subseteq skipped' /\ sync'.state = NoRow
    BY <1>5, PullIs
  <2>3. SUFFICES ASSUME ~overlapped, ~Unlinked
        PROVE  Good(row.cursor)' /\ Good(call.cursor)' /\ Good(sync.state.cursor)'
               /\ Good(sync.next.cursor)'
    BY <2>1 DEF CursorInv
  <2>4. Good(row.cursor) /\ Good(call.cursor) /\ Good(sync.state.cursor) /\ tokens = sync.tok
    BY <2>1, <2>3 DEF CursorInv, TokenInv
  <2>5. Good(sync.next.cursor)'
    BY <1>5, <2>1, <2>4, PullEarns DEF Good, Earned, Fits
  <2>6. Good(row.cursor)' /\ Good(call.cursor)' /\ Good(sync.state.cursor)'
    BY <2>1, <2>2, <2>4 DEF Good, Earned, Fits
  <2>7. QED
    BY <2>5, <2>6
<1>6. CASE PullFails \/ PullRefused
  BY <1>6, FailIs DEF PullFails, PullRefused, CursorInv, Good, Earned, Fits, linkVars, srcVars
<1>7. CASE NewDay
  BY <1>7, DayIs DEF NewDay, CursorInv, Good, Earned, Fits, linkVars, srcVars
<1>8. ASSUME NEW a \in Accounts, connect(a)
      PROVE  CursorInv'
  <2>1. SUFFICES ASSUME ~overlapped', ~Unlinked' PROVE CursorInv'
    BY DEF CursorInv
  <2>2. UNCHANGED syncVars /\ sync = NoSync /\ call = NoRow
    BY <1>8, <2>1, Alone DEF connect, Overlap
  <2>3. row' = [NoRow EXCEPT !.status = "connecting"]
    BY <1>8, <2>1 DEF connect
  <2>4. Good(row.cursor)'
    BY <2>3, RowWith, EmptyGood
  <2>5. QED
    BY <2>2, <2>4, QuietGood DEF syncVars
<1>9. CASE exchangeCode
  BY <1>9 DEF exchangeCode, CursorInv, Good, Earned, Fits, syncVars, srcVars, TypeOK, NoLink
<1>10. CASE handleCallback
  BY <1>10 DEF handleCallback, CursorInv, Good, Earned, Fits, syncVars, srcVars, NoLink
<1>11. CASE LinkRow \/ removeRow
  <2>1. SUFFICES ASSUME ~overlapped' PROVE CursorInv'
    BY DEF CursorInv
  <2>2. UNCHANGED syncVars /\ sync = NoSync /\ call = NoRow
    BY <1>11, <2>1, Alone DEF LinkRow, removeRow, Overlap
  <2>3. Good(row.cursor)'
    <3>1. row'.cursor = NoCursor
      <4>1. \/ row' = NoRow
            \/ row' = [NoRow EXCEPT !.status = "connected"]
        BY <1>11 DEF LinkRow, removeRow
      <4>2. [NoRow EXCEPT !.status = "connected"].cursor = NoRow.cursor
        BY RowWith
      <4>3. QED
        BY <4>1, <4>2
    <3>2. QED
      BY <3>1, EmptyGood
  <2>4. QED
    BY <2>2, <2>3, QuietGood DEF syncVars
<1>12. CASE removeTokens
  <2>1. SUFFICES ASSUME ~overlapped', ~Unlinked' PROVE CursorInv'
    BY DEF CursorInv
  <2>2. UNCHANGED <<syncVars, srcVars, row, link>> /\ sync = NoSync /\ call = NoRow /\ ~overlapped
    BY <1>12, <2>1, Alone DEF removeTokens, Overlap
  <2>3. Good(row.cursor)'
    BY <1>12, <2>1, <2>2 DEF removeTokens, DropTokens, CursorInv, Good, Earned, Fits, srcVars
  <2>4. QED
    BY <2>2, <2>3, QuietGood DEF syncVars
<1>13. CASE Crash
  <2>1. SUFFICES ASSUME ~overlapped' PROVE CursorInv'
    BY DEF CursorInv
  <2>2. ~overlapped /\ UNCHANGED <<row, tokens, srcVars>>
    BY <1>13, <2>1 DEF Crash
  <2>5. CASE Unlinked
    <3>1. Unlinked'
      BY <1>13, <2>5, Zenon DEF Crash, Unlinked
    <3>2. QED
      BY <3>1 DEF CursorInv
  <2>6. CASE ~Unlinked
    <3>1. Good(row.cursor)'
      BY <2>2, <2>6 DEF CursorInv, Good, Earned, Fits, srcVars
    <3>2. QED
      BY <1>13, <3>1, QuietGood DEF Crash
  <2>7. QED
    BY <2>5, <2>6
<1>14. CASE ensureFreshToken
  BY <1>14 DEF ensureFreshToken, CursorInv, TokenInv, linkVars
<1>15. CASE disconnect \/ UNCHANGED vars
  BY <1>15 DEF disconnect, vars, linkVars, syncVars, srcVars, CursorInv, Good, Earned, Fits
<1>16. ASSUME NEW a \in Accounts, Publish(a)
      PROVE  CursorInv'
  BY <1>16 DEF Publish, vars, linkVars, syncVars, srcVars, CursorInv, Good, Earned, Fits
<1>17. QED
  BY <1>1, <1>2, <1>3, <1>4, <1>5, <1>6, <1>7, <1>8, <1>9, <1>10, <1>11, <1>12, <1>13,
       <1>14, <1>15, <1>16 DEF Next, PassStep

\* The tokens of a pass and of a disconnect stay what they are.
LEMMA TokenInvKept ==
  ASSUME IInv, [Next]_vars
  PROVE  TokenInv'
<1> USE DEF Unlinked
<1>0. TypeOK /\ SyncType /\ CursorInv /\ TokenInv
  BY SyncTyped DEF IInv
<1> USE <1>0, Nothing
<1> USE DEF TokenInv
<1>1. CASE Enter
  BY <1>1, EnterIs DEF Enter, linkVars
<1>2. CASE patchState
  BY <1>2, PatchIs DEF patchState, linkVars
<1>3. CASE getTokens
  BY <1>3, TokensAre DEF getTokens, linkVars
<1>4. CASE PullEnds
  <2>1. UNCHANGED <<overlapped, tokens, leaving>>
    BY <1>4 DEF PullEnds, linkVars
  <2>2. QED
    BY <1>4, <2>1, PullIs
<1>5. CASE PullFails \/ PullRefused
  BY <1>5, FailIs DEF PullFails, PullRefused, linkVars
<1>6. CASE NewDay
  BY <1>6, DayIs DEF NewDay, linkVars
<1>7. ASSUME NEW a \in Accounts, connect(a)
      PROVE  TokenInv'
  BY <1>7, Alone DEF connect, syncVars, Overlap
<1>8. CASE exchangeCode
  BY <1>8, Alone DEF exchangeCode, syncVars, Overlap
<1>9. CASE LinkRow \/ removeTokens \/ removeRow
  BY <1>9, Alone DEF LinkRow, removeTokens, removeRow, syncVars, Overlap, DropTokens
<1>10. CASE handleCallback \/ disconnect \/ ManualSync \/ ensureFreshToken \/ cycle \/ Crash
     \/ UNCHANGED vars
  BY <1>10 DEF handleCallback, disconnect, ManualSync, ensureFreshToken, cycle, Crash, vars,
       linkVars, syncVars, srcVars
<1>11. ASSUME NEW a \in Accounts, Publish(a)
      PROVE  TokenInv'
  BY <1>11 DEF Publish, vars, linkVars, syncVars, srcVars
<1>12. QED
  BY <1>1, <1>2, <1>3, <1>4, <1>5, <1>6, <1>7, <1>8, <1>9, <1>10, <1>11 DEF Next, PassStep

\* A connector that is not linked gains nothing.
LEMMA AwayInvKept ==
  ASSUME IInv, [Next]_vars
  PROVE  AwayInv'
<1> USE DEF Unlinked
<1>0. TypeOK /\ SyncType /\ CursorInv /\ TokenInv
  BY SyncTyped DEF IInv
<1> USE <1>0, Nothing
<1>A. AwayInv
  BY DEF IInv
<1> USE <1>A DEF AwayInv, Blank
<1>1. CASE ManualSync \/ cycle
  BY <1>1, CallIs DEF ManualSync, cycle, linkVars
<1>2. CASE Enter
  BY <1>2, EnterIs, ConnectorAssumption DEF Enter, linkVars
<1>3. CASE patchState
  BY <1>3, PatchIs DEF patchState, linkVars
<1>4. CASE getTokens
  BY <1>4, TokensAre DEF getTokens, linkVars
<1>5. CASE PullEnds
  BY <1>5 DEF PullEnds, linkVars, TokenInv
<1>6. CASE PullFails \/ PullRefused
  BY <1>6, FailIs DEF PullFails, PullRefused, linkVars
<1>7. CASE NewDay
  BY <1>7, DayIs DEF NewDay, linkVars
<1>8. ASSUME NEW a \in Accounts, connect(a)
      PROVE  AwayInv'
  BY <1>8, Alone DEF connect, syncVars, Overlap, NoRow
<1>9. CASE exchangeCode
  BY <1>9 DEF exchangeCode, syncVars, TypeOK, NoLink
<1>10. CASE handleCallback
  BY <1>10 DEF handleCallback, syncVars, NoLink
<1>11. CASE LinkRow
  BY <1>11 DEF LinkRow
<1>12. CASE Crash
  BY <1>12 DEF Crash
<1>13. CASE removeTokens
  BY <1>13 DEF removeTokens, DropTokens, Overlap, syncVars
<1>14. CASE removeRow
  <2>1. SUFFICES ASSUME ~overlapped' PROVE AwayInv'
    OBVIOUS
  <2>2. ~overlapped /\ sync = NoSync /\ call = NoRow
    BY <1>14, <2>1, Alone DEF removeRow, Overlap
  <2>3. tokens = 0 /\ tokens' = tokens
    BY <1>14, <2>2 DEF removeRow, TokenInv
  <2>4. QED
    BY <1>14, <2>2, <2>3 DEF removeRow, syncVars
<1>15. CASE ensureFreshToken
  BY <1>15 DEF ensureFreshToken, TokenInv, linkVars
<1>16. CASE disconnect \/ UNCHANGED vars
  BY <1>16 DEF disconnect, vars, linkVars, syncVars, srcVars
<1>17. ASSUME NEW a \in Accounts, Publish(a)
      PROVE  AwayInv'
  BY <1>17 DEF Publish, vars, linkVars, syncVars, srcVars
<1>18. QED
  BY <1>1, <1>2, <1>3, <1>4, <1>5, <1>6, <1>7, <1>8, <1>9, <1>10, <1>11, <1>12, <1>13,
       <1>14, <1>15, <1>16, <1>17 DEF Next, PassStep

-----------------------------------------------------------------------------
(* The theorems.                                                            *)

\* The invariant is inductive.
LEMMA StepKept == IInv /\ [Next]_vars => IInv'
<1> SUFFICES ASSUME IInv, [Next]_vars PROVE IInv'
  OBVIOUS
<1>1. SyncType' /\ LinkTypes' /\ FlagTypes' /\ SourceTypes'
  BY SyncTypesKept, LinkTypesKept, FlagTypesKept, SourceTypesKept
<1>2. TypeOK'
  BY <1>1, TypeParts, PTL
<1>3. QED
  BY <1>2, CursorInvKept, TokenInvKept, AwayInvKept DEF IInv

\* connectors/scheduler.js: the cursor is ahead of the vault by no more than what the
\* source did not hand over.  Whatever passes, failed pulls, crashes and new days
\* interleave, every item up to it was captured, or was older than an item of the
\* same pass and off its page, not to be fetched, or over the cap; unless a link or
\* disconnect overlapped something, or a link has written its tokens only.
THEOREM CursorsEarned == Spec => []ConnectorInv
<1>1. IInv => ConnectorInv
  BY DEF IInv, CursorInv, Good, Earned, ConnectorInv, CursorIsEarned
<1>2. QED
  BY InitIInv, StepKept, <1>1, PTL DEF Spec

\* connectors/store.js: what the owner has disconnected leaves no tokens and no row
\* that is synced as linked, and no pass brings either back.
THEOREM Disconnected == Spec => []DisconnectSticks
<1>1. IInv => DisconnectSticks
  BY DEF IInv, AwayInv, Blank, DisconnectSticks
<1>2. QED
  BY InitIInv, StepKept, <1>1, PTL DEF Spec

=============================================================================
