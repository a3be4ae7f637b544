--------------------------- MODULE ConnectorSync ---------------------------
(***************************************************************************)
(* One data connector (connectors/scheduler.js, connectors/store.js): the   *)
(* owner links it to an account, by a token or an OAuth handshake, syncs it *)
(* and disconnects it; a timer syncs it as well.  Its row and its tokens    *)
(* are kept apart.  Steps end where the code waits: for the network, and at *)
(* every look into the secrets table, which is decrypted.  The store looks  *)
(* there between reading the row and writing it back, so that what a pass   *)
(* writes may be merged into a row of the past.  The source behind an       *)
(* account publishes items one by one; a pass asks it for one page of them, *)
(* the newest after the cursor (adapters/gmail.js, adapters/linear.js).     *)
(***************************************************************************)
EXTENDS Naturals, FiniteSets

CONSTANTS
  MaxAccounts,         \* bound: accounts the owner may link
  MaxGrants,           \* bound: grants the owner ever asks for
  NumItems,            \* bound: items an account ever publishes
  PAGE_SIZE,           \* maxResults, first: gmail.js:75, linear.js:10
  MAX_ITEMS_PER_SYNC,  \* scheduler.js:18
  MAX_BACKOFF_SHIFT,   \* scheduler.js:20
  DailyLimit,          \* dailyItemLimit()
  MaxFaults            \* bound: failed pulls, fetches and exchanges, crashes

ASSUME ConnectorAssumption ==
  /\ MaxAccounts \in Nat /\ MaxGrants \in Nat /\ NumItems \in Nat /\ MaxFaults \in Nat
  /\ PAGE_SIZE \in Nat /\ MAX_ITEMS_PER_SYNC \in Nat \ {0} /\ MAX_BACKOFF_SHIFT \in Nat
  /\ DailyLimit \in Nat \ {0}

VARIABLES
  oauthAdapter,  \* the connector links by an OAuth handshake
  row,           \* the connectors row: [status, cursor, idle, spent]
  tokens,        \* the account whose tokens the secrets table has, 0 for none
  oauth,         \* the handshake kept with the row: the account asked for, or 0
  grants,        \* grants asked for so far
  link,          \* a connect or callback under way: [acc, at]
  leaving,       \* how far a disconnect is: "no", "revoke", "row"
  call,          \* the state a caller of runSync has read, before it may start
  sync,          \* the pass under way: [at, tok, state, next]
  waited,        \* timer intervals since the last sync
  published,     \* items of each account's source
  captured,      \* items in the vault
  skipped,       \* history: items older than another of their pass, and not taken
  wanted,        \* history: the owner's last completed word
  overlapped,    \* history: a link or disconnect wrote while something else ran
  torn,          \* history: a crash came between the two writes of a link
  faults

syncVars == <<call, sync, waited>>
linkVars == <<oauth, grants, link, leaving, wanted, overlapped, torn>>
srcVars  == <<published, captured, skipped>>
vars == <<oauthAdapter, row, tokens, linkVars, syncVars, srcVars, faults>>

Accounts == 1..MaxAccounts
Items == 1..NumItems
NoCursor == [acc |-> 0, pos |-> 0]
NoRow == [status |-> "none", cursor |-> NoCursor, idle |-> 0, spent |-> 0]
NoLink == [acc |-> 0, at |-> "none"]
NoSync == [at |-> "none", tok |-> 0, state |-> NoRow, next |-> NoRow]

\* More spent than the limit is as much as the limit.
Rows == [status : {"none", "connecting", "connected", "syncing", "error"},
         cursor : [acc : 0..MaxAccounts, pos : 0..NumItems],
         idle : 0..MAX_BACKOFF_SHIFT, spent : 0..DailyLimit]
Cap(n, max) == IF n > max THEN max ELSE n

TypeOK ==
  /\ row \in Rows /\ oauthAdapter \in BOOLEAN /\ tokens \in 0..MaxAccounts
  /\ oauth \in 0..MaxAccounts /\ grants \in 0..MaxGrants
  /\ link \in [acc : 0..MaxAccounts, at : {"none", "exchange", "row"}]
  /\ leaving \in {"no", "revoke", "row"}
  /\ call \in Rows
  /\ sync \in [at : {"none", "mark", "tokens", "pull", "write"}, tok : 0..MaxAccounts,
               state : Rows, next : Rows]
  /\ waited \in 0..2^MAX_BACKOFF_SHIFT
  /\ published \in [Accounts -> 0..NumItems]
  /\ captured \subseteq Accounts \X Items /\ skipped \subseteq Accounts \X Items
  /\ wanted \in BOOLEAN /\ overlapped \in BOOLEAN /\ torn \in BOOLEAN
  /\ faults \in 0..MaxFaults

Init ==
  /\ oauthAdapter \in BOOLEAN
  /\ row = NoRow /\ tokens = 0 /\ oauth = 0 /\ grants = 0
  /\ link = NoLink /\ leaving = "no"
  /\ call = NoRow /\ sync = NoSync /\ waited = 0
  /\ published = [a \in Accounts |-> 0] /\ captured = {} /\ skipped = {}
  /\ wanted = FALSE /\ overlapped = FALSE /\ torn = FALSE /\ faults = 0

Fault == faults < MaxFaults /\ faults' = faults + 1

-----------------------------------------------------------------------------
(* Linking and leaving.                                                     *)

Syncing == sync # NoSync \/ call # NoRow
Overlap(busy) == overlapped' = (overlapped \/ Syncing \/ busy)

\* Bound: once a link or disconnect has overlapped, the owner begins nothing more.
OwnerActs == ~overlapped

\* With a handshake the row starts over as connecting; without one the token
\* is stored first.
connect(a) ==
  /\ OwnerActs /\ grants < MaxGrants /\ link = NoLink
  /\ grants' = grants + 1
  /\ IF oauthAdapter
       THEN /\ oauth' = a
            /\ row' = [NoRow EXCEPT !.status = "connecting"]
            /\ UNCHANGED <<tokens, link>>
       ELSE /\ tokens' = a
            /\ link' = [acc |-> a, at |-> "row"]
            /\ UNCHANGED <<oauth, row>>
  /\ Overlap(leaving # "no")
  /\ UNCHANGED <<oauthAdapter, leaving, wanted, torn, syncVars, srcVars, faults>>

\* The redirect comes back with the state that is stored.
handleCallback ==
  /\ OwnerActs /\ oauth # 0 /\ row # NoRow /\ link = NoLink
  /\ link' = [acc |-> oauth, at |-> "exchange"]
  /\ UNCHANGED <<oauthAdapter, row, tokens, oauth, grants, leaving, wanted, overlapped, torn,
                 syncVars, srcVars, faults>>

exchangeCode ==
  /\ link.at = "exchange"
  /\ \/ /\ tokens' = link.acc /\ link' = [link EXCEPT !.at = "row"]
        /\ Overlap(leaving # "no")
        /\ UNCHANGED faults
     \/ /\ Fault /\ link' = NoLink
        /\ UNCHANGED <<tokens, overlapped>>
  /\ UNCHANGED <<oauthAdapter, row, oauth, grants, leaving, wanted, torn, syncVars, srcVars>>

LinkRow ==
  /\ link.at = "row"
  /\ row' = [NoRow EXCEPT !.status = "connected"]
  /\ oauth' = 0 /\ link' = NoLink /\ wanted' = TRUE /\ torn' = FALSE
  /\ Overlap(leaving # "no")
  /\ UNCHANGED <<oauthAdapter, tokens, grants, leaving, syncVars, srcVars, faults>>

\* Revocation is tried first, whatever comes of it.
disconnect ==
  /\ OwnerActs /\ leaving = "no" /\ row # NoRow
  /\ leaving' = "revoke"
  /\ UNCHANGED <<oauthAdapter, row, tokens, oauth, grants, link, wanted, overlapped, torn,
                 syncVars, srcVars, faults>>

\* Mutant: the tokens are left in the secrets table.
DropTokens_Not == UNCHANGED tokens

DropTokens == tokens' = 0

removeTokens ==
  /\ leaving = "revoke" /\ leaving' = "row"
  /\ DropTokens
  /\ Overlap(link # NoLink)
  /\ UNCHANGED <<oauthAdapter, row, oauth, grants, link, wanted, torn, syncVars, srcVars, faults>>

removeRow ==
  /\ leaving = "row" /\ leaving' = "no"
  /\ row' = NoRow /\ oauth' = 0
  /\ wanted' = FALSE /\ torn' = FALSE
  /\ Overlap(link # NoLink)
  /\ UNCHANGED <<oauthAdapter, tokens, grants, link, syncVars, srcVars, faults>>

-----------------------------------------------------------------------------
(* A sync pass.                                                             *)

\* The state is read before anything is asked.  (One caller at a time waits for
\* its reading here, whether or not a pass is under way.)
runSync ==
  /\ row # NoRow /\ call = NoRow
  /\ call' = [row EXCEPT !.status = "connected"]

ManualSync ==
  /\ OwnerActs /\ runSync
  /\ UNCHANGED <<oauthAdapter, row, tokens, linkVars, sync, waited, srcVars, faults>>

\* A pass without news lengthens the wait, up to a limit.
Idler(n) == Cap(n + 1, MAX_BACKOFF_SHIFT)

\* The row that patchState will write: the one it reads now, patched.
Writes(at, st, next) == [at |-> at, tok |-> 0, state |-> st, next |-> next]

\* The caller is turned away while a pass runs.  A spent budget ends its pass
\* at once.
Enter ==
  /\ call # NoRow /\ call' = NoRow
  /\ \/ sync # NoSync /\ UNCHANGED sync
     \/ /\ sync = NoSync /\ call.spent >= DailyLimit
        /\ sync' = Writes("write", NoRow, [row EXCEPT !.status = "connected",
                                                      !.idle = Idler(call.idle),
                                                      !.spent = call.spent])
     \/ /\ sync = NoSync /\ call.spent < DailyLimit
        /\ sync' = Writes("mark", call, [row EXCEPT !.status = "syncing"])
  /\ UNCHANGED <<oauthAdapter, row, tokens, linkVars, waited, srcVars, faults>>

\* The row is written: the pass goes on to its tokens, or is over.
patchState ==
  /\ sync.at \in {"mark", "write"}
  /\ row' = sync.next
  /\ sync' = IF sync.at = "mark" THEN [sync EXCEPT !.at = "tokens", !.next = NoRow] ELSE NoSync
  /\ UNCHANGED <<oauthAdapter, tokens, linkVars, call, waited, srcVars, faults>>

getTokens ==
  /\ sync.at = "tokens"
  /\ sync' = [sync EXCEPT !.at = "pull", !.tok = tokens]
  /\ UNCHANGED <<oauthAdapter, row, tokens, linkVars, call, waited, srcVars, faults>>

\* An expiring token is refreshed on the way, and stored.
ensureFreshToken ==
  /\ sync.at = "pull" /\ sync.tok # 0 /\ tokens # sync.tok
  /\ tokens' = sync.tok
  /\ UNCHANGED <<oauthAdapter, row, linkVars, syncVars, srcVars, faults>>

\* The source lists one page of what follows the cursor, newest first.
NewestOf(S, n) == {i \in S : Cardinality({j \in S : j > i}) < n}
Listed ==
  NewestOf({i \in Items : sync.state.cursor.pos < i /\ i <= published[sync.tok]}, PAGE_SIZE)

\* One that cannot be fetched by itself is left out.
Pulls(items) ==
  \/ items = Listed /\ UNCHANGED faults
  \/ items \in SUBSET Listed \ {Listed} /\ Fault

\* The cursor after the newest of the items, or where it was if there are none.
nextCursor(items, cursor) ==
  IF items = {} THEN cursor = sync.state.cursor
  ELSE \E i \in items : /\ \A j \in items : j <= i
                        /\ cursor = [acc |-> sync.tok, pos |-> i]

\* Up to the cap the items are captured, a known one being left as it is; then
\* the row, or a new one if it is gone, is to take the next cursor.  It passes
\* what the page, a failed fetch or the cap left out below it.  A pass without
\* news counts as idle.
PullEnds ==
  \E items \in SUBSET Items, cursor \in [acc : 0..MaxAccounts, pos : 0..NumItems] :
    LET news == ({sync.tok} \X NewestOf(items, MAX_ITEMS_PER_SYNC)) \ captured
        passed == {i \in Items : sync.state.cursor.pos < i /\ \E j \in items : i <= j}
    IN  /\ sync.at = "pull" /\ sync.tok # 0
        /\ Pulls(items) /\ nextCursor(items, cursor)
        /\ captured' = captured \cup news
        /\ skipped' = skipped \cup (({sync.tok} \X passed) \ (captured \cup news))
        /\ sync' = Writes("write", NoRow,
                     [status |-> "connected", cursor |-> cursor,
                      idle |-> IF news = {} THEN Idler(sync.state.idle) ELSE 0,
                      spent |-> Cap(sync.state.spent + Cardinality(items), DailyLimit)])
        /\ waited' = 0
        /\ UNCHANGED <<oauthAdapter, row, tokens, linkVars, call, published>>

\* Mutant: the error path moves the cursor on, as the success path does.
Failed_Advances ==
  [row EXCEPT !.status = "error", !.cursor = [acc |-> sync.tok, pos |-> published[sync.tok]]]

\* What a failed pass leaves: the cursor stays where it was.
Failed == [row EXCEPT !.status = "error"]

\* The source does not answer, or the capture of an item throws after those
\* before it went in.
PullFails ==
  /\ sync.at = "pull" /\ sync.tok # 0 /\ Fault
  /\ \E n \in 0..MAX_ITEMS_PER_SYNC :
       captured' = captured \cup ({sync.tok} \X NewestOf(Listed, n))
  /\ sync' = Writes("write", NoRow, Failed)
  /\ UNCHANGED <<oauthAdapter, row, tokens, linkVars, call, waited, published, skipped>>

\* Without tokens the source refuses.
PullRefused ==
  /\ sync.at = "pull" /\ sync.tok = 0
  /\ sync' = Writes("write", NoRow, [row EXCEPT !.status = "error"])
  /\ UNCHANGED <<oauthAdapter, row, tokens, linkVars, call, waited, srcVars, faults>>

-----------------------------------------------------------------------------
(* The timer and the world.                                                 *)

\* Mutant: an idle connector is not asked again.
connectorDueAt_Never == row.idle = 0

\* Idle connectors wait longer and longer, up to a limit.
connectorDueAt == row.idle = 0 \/ waited >= 2^row.idle

Due ==
  /\ row.status \notin {"none", "connecting"}
  /\ row.status = "connected" => connectorDueAt

\* A tick of the timer: the connector is synced if it is due.  (While an import
\* owns the vault a tick does nothing.)
cycle ==
  /\ \/ /\ Due /\ runSync
        /\ UNCHANGED waited
     \/ /\ ~Due /\ waited' = Cap(waited + 1, 2^MAX_BACKOFF_SHIFT)
        /\ UNCHANGED call
  /\ UNCHANGED <<oauthAdapter, row, tokens, linkVars, sync, srcVars, faults>>

Publish(a) ==
  /\ published[a] < NumItems
  /\ published' = [published EXCEPT ![a] = @ + 1]
  /\ UNCHANGED <<oauthAdapter, row, tokens, linkVars, syncVars, captured, skipped, faults>>

\* A new day: what was spent the day before does not count, wherever it is
\* noted, since it is noted with its date.
Fresh(r) == [r EXCEPT !.spent = 0]
NewDay ==
  /\ row.spent > 0
  /\ row' = Fresh(row)
  /\ call' = Fresh(call)
  /\ sync' = [sync EXCEPT !.state = Fresh(@), !.next = Fresh(@)]
  /\ UNCHANGED <<oauthAdapter, tokens, linkVars, waited, srcVars, faults>>

Crash ==
  /\ Fault
  /\ call' = NoRow
  /\ sync' = NoSync /\ link' = NoLink /\ leaving' = "no"
  /\ torn' = (torn \/ link.at = "row")
  /\ UNCHANGED <<oauthAdapter, row, tokens, oauth, grants, wanted, overlapped, waited, srcVars>>

PassStep == patchState \/ getTokens \/ PullEnds \/ PullFails \/ PullRefused

Next ==
  \/ (\E a \in Accounts : connect(a)) \/ handleCallback \/ exchangeCode \/ LinkRow
  \/ disconnect \/ removeTokens \/ removeRow
  \/ ManualSync \/ Enter \/ PassStep \/ ensureFreshToken \/ cycle
  \/ \E a \in Accounts : Publish(a)
  \/ NewDay \/ Crash

Spec == Init /\ [][Next]_vars

\* The timer ticks, a pass comes to an end, days pass; nobody has to connect,
\* publish or press a button.
Fairness ==
  WF_vars(cycle) /\ WF_vars(Enter) /\ WF_vars(PassStep) /\ WF_vars(NewDay)

FairSpec == Spec /\ Fairness

-----------------------------------------------------------------------------
(* Properties.                                                              *)

\* A link is between its two writes, or a crash left it there: the tokens are
\* those of one account and the row another's, or none's, until the owner links or
\* disconnects again.
Unlinked == link.at = "row" \/ torn

\* The cursor is ahead of the vault by no more than what the source did not hand
\* over in time: every item up to it was captured, or was older than an item of the
\* same pass and off its page, not to be fetched, or over the cap.  So through
\* failed passes, crashes and repeated pulls, unless the account was changed under a
\* pass, or a link has stored its tokens without its row.
CursorIsEarned ==
  overlapped \/ Unlinked \/
    \A i \in 1..row.cursor.pos : <<row.cursor.acc, i>> \in captured \cup skipped

\* The connector's row is well formed and its cursor passes nothing by itself.
ConnectorInv == TypeOK /\ CursorIsEarned

\* A connector that the owner has disconnected leaves neither a row nor tokens,
\* and one that never finished linking is not synced as linked, unless the
\* disconnect fell into a pass or a link under way, or a crash into a link.
DisconnectSticks ==
  ~wanted /\ ~overlapped /\ ~Unlinked =>
    tokens = 0 /\ row.status # "connected" /\ row.cursor = NoCursor

\* A linked connector catches up with its source, however long it has been
\* idle, past errors, spent budgets and a crash that left its status at syncing:
\* every item published is in the vault or was passed over for a newer one of the
\* same pass, unless the owner does something else with the connector.
CaughtUp(a) == \A i \in 1..published[a] : <<a, i>> \in captured \cup skipped
ItemsArrive ==
  \A a \in Accounts :
    tokens = a /\ row.status = "connected" ~>
      CaughtUp(a) \/ tokens # a \/ row.status = "connecting" \/ overlapped \/ torn

-----------------------------------------------------------------------------
(* What does not hold.                                                      *)

\* The cursor is never ahead of the vault.
NothingSkipped ==
  overlapped \/ Unlinked \/
    \A i \in 1..row.cursor.pos : <<row.cursor.acc, i>> \in captured
=============================================================================
