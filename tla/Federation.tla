----------------------------- MODULE Federation -----------------------------
(***************************************************************************)
(* Two boxes that connect and exchange direct messages (db/connections.js   *)
(* and federation/): "init" asks, "resp" is asked.  A payload travels       *)
(* through the relay's queue, sealed in an envelope with a nonce of its     *)
(* own, or, when the relay path fails, straight to the peer's handler.      *)
(* Each box runs the pull loop: pull, handle every envelope, acknowledge,   *)
(* then sweep the two outboxes.  A step ends where the code waits for the   *)
(* network; what it writes between two such points is one step, which a     *)
(* crash or a failed write may still cut short.                             *)
(***************************************************************************)
EXTENDS Integers, FiniteSets, Sequences

CONSTANTS
  Dms,                   \* direct messages the owners may send
  From,                  \* the box that sends each of them
  PULL_WINDOW,           \* envelopes the relay hands out in one pull
  OUTBOX_MAX_ATTEMPTS,   \* connections.js:123
  MaxMail,               \* bound: envelopes ever enqueued
  MaxRows,               \* bound: connection rows a box ever creates
  MaxFaults,             \* bound: losses, failed writes and crashes
  MaxBreaks              \* bound: withdrawals, disconnects, blocks, rejections

Boxes == {"init", "resp"}
Peer(b) == IF b = "init" THEN "resp" ELSE "init"

ASSUME FederationAssumption ==
  /\ From \in [Dms -> Boxes]
  /\ {"request", "accept"} \cap Dms = {}
  /\ PULL_WINDOW \in Nat \ {0} /\ OUTBOX_MAX_ATTEMPTS \in Nat
  /\ MaxMail \in Nat /\ MaxRows \in Nat /\ MaxFaults \in Nat /\ MaxBreaks \in Nat

Payloads == {"request", "accept"} \cup Dms
Sender(p) == CASE p = "request" -> "init" [] p = "accept" -> "resp" [] OTHER -> From[p]

VARIABLES
  conn,      \* status of each box's connection row, "none" when there is none
  row,       \* which row it is: the rows a box creates are numbered
  owed,      \* accept_ack_pending of the accepted row
  ackTries,  \* accept_ack_attempts
  out,       \* status of the sender's peer_messages row
  outRow,    \* the connection row it hangs on
  tries,     \* send_attempts
  copies,    \* 'in' rows of a message in the receiver's present thread
  mail,      \* every envelope ever enqueued: [to, p, n], n the row its nonce was drawn for
  relay,     \* the ones the relay still has
  seen,      \* federation_seen of each box
  burnt,     \* seenNonces, the direct handler's memory of payload nonces
  flight,    \* deliveries under way: [p, n, by, at]
  loop,      \* where each box's tick is
  batch,     \* the envelopes its pull returned that are still to handle
  acks,      \* the ones it will acknowledge
  sweep,     \* the failed messages its outbox selected and has not tried yet
  shown,     \* history: messages ever stored
  lost,      \* history: payloads the transport, or a failed write, gave up
  answered,  \* history: the row of "init" that stood when "resp" accepted
  faults, breaks

rxVars   == <<conn, row, copies, shown>>                      \* what arriving payloads write
txVars   == <<owed, ackTries, answered, out, outRow, tries>>  \* what sending writes
netVars  == <<mail, relay, lost>>
loopVars == <<loop, batch, acks, sweep>>
vars == <<rxVars, txVars, netVars, seen, burnt, flight, loopVars, faults, breaks>>

Statuses == {"none", "pending", "accepted", "rejected", "blocked"}
Flights == [p : Payloads, n : 0..MaxRows, by : {"new", "live", "sweep"},
            at : {"start", "direct", "ok"}]

TypeOK ==
  /\ conn \in [Boxes -> Statuses] /\ row \in [Boxes -> 0..MaxRows]
  /\ owed \in BOOLEAN /\ ackTries \in 0..OUTBOX_MAX_ATTEMPTS
  /\ out \in [Dms -> {"none", "sending", "failed", "delivered"}]
  /\ outRow \in [Dms -> 0..MaxRows] /\ tries \in [Dms -> 0..OUTBOX_MAX_ATTEMPTS]
  /\ copies \in [Dms -> Nat]
  /\ mail \in Seq([to : Boxes, p : Payloads, n : 0..MaxRows]) /\ Len(mail) <= MaxMail
  /\ relay \subseteq 1..MaxMail
  /\ seen \in [Boxes -> SUBSET (1..MaxMail)]
  /\ burnt \in [Boxes -> SUBSET (Payloads \X (0..MaxRows))]
  /\ flight \subseteq Flights
  /\ loop \in [Boxes -> {"idle", "handle", "outbox"}]
  /\ batch \in [Boxes -> SUBSET (1..MaxMail)] /\ acks \in [Boxes -> SUBSET (1..MaxMail)]
  /\ sweep \in [Boxes -> SUBSET Dms] /\ answered \in 0..MaxRows
  /\ shown \subseteq Dms /\ lost \subseteq Payloads
  /\ faults \in 0..MaxFaults /\ breaks \in 0..MaxBreaks

Init ==
  /\ conn = [b \in Boxes |-> "none"] /\ row = [b \in Boxes |-> 0]
  /\ owed = FALSE /\ ackTries = 0
  /\ out = [m \in Dms |-> "none"] /\ outRow = [m \in Dms |-> 0]
  /\ tries = [m \in Dms |-> 0] /\ copies = [m \in Dms |-> 0]
  /\ mail = <<>> /\ relay = {}
  /\ seen = [b \in Boxes |-> {}] /\ burnt = [b \in Boxes |-> {}]
  /\ flight = {}
  /\ loop = [b \in Boxes |-> "idle"]
  /\ batch = [b \in Boxes |-> {}] /\ acks = [b \in Boxes |-> {}]
  /\ sweep = [b \in Boxes |-> {}] /\ answered = 0
  /\ shown = {} /\ lost = {} /\ faults = 0 /\ breaks = 0

Fault == faults < MaxFaults /\ faults' = faults + 1
Break == breaks < MaxBreaks /\ breaks' = breaks + 1

Fly(p, n, by) == flight' = flight \cup {[p |-> p, n |-> n, by |-> by, at |-> "start"]}
Flying(p) == \E f \in flight : f.p = p
Sweeping(b) == \E f \in flight : f.by = "sweep" /\ Sender(f.p) = b

-----------------------------------------------------------------------------
(* What the owners do.                                                      *)

\* A new request creates the row; a repeated one delivers it again.
requestRemote ==
  /\ conn["init"] \in {"none", "pending"} /\ ~Flying("request")
  /\ IF conn["init"] = "none"
       THEN /\ row["init"] < MaxRows
            /\ conn' = [conn EXCEPT !["init"] = "pending"]
            /\ row' = [row EXCEPT !["init"] = @ + 1]
            /\ Fly("request", row["init"] + 1, "new")
       ELSE /\ Fly("request", row["init"], "live")
            /\ UNCHANGED <<conn, row>>
  /\ UNCHANGED <<copies, shown, txVars, netVars, seen, burnt, loopVars, faults, breaks>>

\* The status first, then the acknowledgement owed, whose write may fail
\* unnoticed or a crash may prevent, then the delivery.
respondRemoteAccept ==
  /\ conn["resp"] = "pending"
  /\ conn' = [conn EXCEPT !["resp"] = "accepted"]
  /\ answered' = row["init"]
  /\ \/ /\ owed' = TRUE /\ Fly("accept", row["resp"], "live")
        /\ UNCHANGED <<lost, faults>>
     \/ /\ Fault /\ lost' = lost \cup {"accept"}
        /\ Fly("accept", row["resp"], "live") \/ UNCHANGED flight
        /\ UNCHANGED owed
  /\ UNCHANGED <<row, copies, shown, ackTries, out, outRow, tries, mail, relay, seen, burnt,
                 loopVars, breaks>>

SetStatus(b, st) ==
  /\ conn' = [conn EXCEPT ![b] = st]
  /\ UNCHANGED <<row, copies, shown, txVars, netVars, seen, burnt, flight, loopVars, faults>>

respondRemoteReject == conn["resp"] = "pending" /\ Break /\ SetStatus("resp", "rejected")

block(b) == conn[b] \notin {"none", "blocked"} /\ Break /\ SetStatus(b, "blocked")

\* A deleted row takes what it owed with it, and its thread is not listed any more.
DeleteRow(b) ==
  /\ conn' = [conn EXCEPT ![b] = "none"]
  /\ owed' = (owed /\ b # "resp") /\ ackTries' = IF b = "resp" THEN 0 ELSE ackTries
  /\ copies' = [m \in Dms |-> IF From[m] = b THEN copies[m] ELSE 0]
  /\ UNCHANGED <<row, answered, out, outRow, tries, shown, netVars, seen, burnt, flight, loopVars,
                 faults>>

withdraw == conn["init"] = "pending" /\ Break /\ DeleteRow("init")

disconnect(b) == conn[b] = "accepted" /\ Break /\ DeleteRow(b)

sendMessage(m) ==
  /\ out[m] = "none" /\ conn[From[m]] = "accepted"
  /\ out' = [out EXCEPT ![m] = "sending"]
  /\ outRow' = [outRow EXCEPT ![m] = row[From[m]]]
  /\ Fly(m, row[From[m]], "live")
  /\ UNCHANGED <<rxVars, owed, ackTries, answered, tries, netVars, seen, burnt, loopVars, faults,
                 breaks>>

-----------------------------------------------------------------------------
(* What a payload writes where it arrives.                                  *)

\* Mutant: a re-delivered message is inserted again.
receiveMessage_NoIndex(m) ==
  /\ conn[Peer(From[m])] = "accepted"
  /\ copies' = [copies EXCEPT ![m] = @ + 1]
  /\ shown' = shown \cup {m}
  /\ UNCHANGED <<conn, row>>

\* Only an accepted connection receives; the unique index on the connection
\* and the payload's nonce drops a second copy.
receiveMessage(m) ==
  /\ conn[Peer(From[m])] = "accepted"
  /\ copies' = [copies EXCEPT ![m] = 1]
  /\ shown' = shown \cup {m}
  /\ UNCHANGED <<conn, row>>

\* Any row there is stands for the answer; the request is dropped beside it.
receiveRemote ==
  /\ IF conn["resp"] = "none" /\ row["resp"] < MaxRows
       THEN /\ conn' = [conn EXCEPT !["resp"] = "pending"]
            /\ row' = [row EXCEPT !["resp"] = @ + 1]
       ELSE UNCHANGED <<conn, row>>
  /\ UNCHANGED <<copies, shown>>

\* Mutant: the row is matched whatever its status.
receiveResponse_AnyStatus ==
  /\ conn' = [conn EXCEPT !["init"] = IF @ = "none" THEN @ ELSE "accepted"]
  /\ UNCHANGED <<row, copies, shown>>

receiveResponse ==
  /\ conn' = [conn EXCEPT !["init"] = IF @ = "pending" THEN "accepted" ELSE @]
  /\ UNCHANGED <<row, copies, shown>>

Receive(p) ==
  CASE p = "request" -> receiveRemote
    [] p = "accept"  -> receiveResponse
    [] OTHER         -> receiveMessage(p)

\* A message without an accepted connection makes the dispatch throw.
Refused(p) == p \in Dms /\ conn[Peer(From[p])] # "accepted"

-----------------------------------------------------------------------------
(* A delivery (federationDeliver): the relay, else the peer's own handler.   *)

Move(f, to) == flight' = (flight \ {f}) \cup {[f EXCEPT !.at = to]}
\* The sender still has to write that it arrived; for a request it writes nothing.
Arrived(f) == IF f.p = "request" THEN flight' = flight \ {f} ELSE Move(f, "ok")

\* Mutant: an answer that could not be delivered is no longer owed.
Fails_GivesUp(f) ==
  /\ flight' = flight \ {f}
  /\ out' = [m \in Dms |-> IF f.p = m THEN "failed" ELSE out[m]]
  /\ owed' = (owed /\ f.p # "accept")

\* What the sender writes when a delivery failed.
Fails(f) ==
  /\ flight' = flight \ {f}
  /\ out' = [m \in Dms |-> IF f.p = m THEN "failed" ELSE out[m]]
  /\ UNCHANGED owed

\* The envelope is queued; if the answer is lost, the direct path is tried.
enqueueSealed(f) ==
  /\ f.at = "start" /\ Len(mail) < MaxMail
  /\ mail' = Append(mail, [to |-> Peer(Sender(f.p)), p |-> f.p, n |-> f.n])
  /\ relay' = relay \cup {Len(mail) + 1}
  /\ \/ Arrived(f) /\ UNCHANGED faults
     \/ Move(f, "direct") /\ Fault
  /\ UNCHANGED <<rxVars, txVars, lost, seen, burnt, loopVars, breaks>>

\* Without a relay inbox, or after the relay failed, the peer's handler is
\* called.  It remembers the nonce before it dispatches, and refuses one that
\* it remembers.  A request draws a new nonce every time, an answer and a
\* message keep theirs.
Nonce(f) == <<f.p, f.n>>
To(f) == Peer(Sender(f.p))
Fresh(f) == Nonce(f) \notin burnt[To(f)]
Burn(f) == burnt' = IF f.p = "request" THEN burnt
                    ELSE [burnt EXCEPT ![To(f)] = @ \cup {Nonce(f)}]

DirectPost(f) ==
  /\ f.at \in {"start", "direct"} /\ Fresh(f) /\ ~Refused(f.p)
  /\ Burn(f) /\ Receive(f.p)
  /\ Arrived(f)
  /\ UNCHANGED <<txVars, netVars, seen, loopVars, faults, breaks>>

\* It took the payload, and its answer was lost.
DirectAnswerLost(f) ==
  /\ f.at \in {"start", "direct"} /\ Fresh(f) /\ ~Refused(f.p) /\ Fault
  /\ Burn(f) /\ Receive(f.p)
  /\ Fails(f)
  /\ UNCHANGED <<ackTries, answered, outRow, tries, netVars, seen, loopVars, breaks>>

DirectRefused(f) ==
  /\ f.at \in {"start", "direct"} /\ (Refused(f.p) \/ ~Fresh(f))
  /\ Burn(f)
  /\ Fails(f)
  /\ UNCHANGED <<rxVars, ackTries, answered, outRow, tries, netVars, seen, loopVars, faults,
                 breaks>>

\* Neither path reaches the peer.  A new request is then taken back if the
\* handle does not exist.
Unreachable(f) ==
  /\ f.at \in {"start", "direct"}
  /\ Fails(f)
  /\ \/ UNCHANGED conn
     \/ /\ f.p = "request" /\ f.by = "new" /\ f.n = row["init"] /\ conn["init"] = "pending"
        /\ conn' = [conn EXCEPT !["init"] = "none"]
  /\ UNCHANGED <<row, copies, shown, ackTries, answered, outRow, tries, netVars, seen, burnt,
                 loopVars, faults, breaks>>

\* The sender writes down that the payload arrived.
Delivered(f) ==
  /\ f.at = "ok"
  /\ flight' = flight \ {f}
  /\ owed' = (owed /\ ~(f.p = "accept" /\ f.n = row["resp"]))
  /\ out' = [m \in Dms |-> IF f.p = m THEN "delivered" ELSE out[m]]
  /\ UNCHANGED <<rxVars, ackTries, answered, outRow, tries, netVars, seen, burnt, loopVars, faults,
                 breaks>>

-----------------------------------------------------------------------------
(* The pull loop.                                                           *)

Waiting(b) == {i \in relay : mail[i].to = b}
Window(b) == {i \in Waiting(b) : Cardinality({j \in Waiting(b) : j < i}) < PULL_WINDOW}

Pull(b) ==
  /\ loop[b] = "idle" /\ ~Sweeping(b) /\ Window(b) # {}
  /\ batch' = [batch EXCEPT ![b] = Window(b)]
  /\ loop' = [loop EXCEPT ![b] = "handle"]
  /\ UNCHANGED <<rxVars, txVars, netVars, seen, burnt, flight, acks, sweep, faults, breaks>>

FailedDms(b) ==
  {m \in Dms : From[m] = b /\ out[m] = "failed" /\ tries[m] < OUTBOX_MAX_ATTEMPTS}
AcceptDue(b) ==
  b = "resp" /\ conn[b] = "accepted" /\ owed /\ ackTries < OUTBOX_MAX_ATTEMPTS

\* The outbox selects its batch, the messages that failed before.
SelectOutbox(b) ==
  /\ loop' = [loop EXCEPT ![b] = "outbox"]
  /\ sweep' = [sweep EXCEPT ![b] = FailedDms(b)]

\* Nothing was pulled, or the pull failed: the outboxes are swept all the
\* same.  (A tick with nothing to sweep either is no step.)
PullNothing(b) ==
  /\ loop[b] = "idle" /\ ~Sweeping(b)
  /\ FailedDms(b) # {} \/ AcceptDue(b)
  /\ SelectOutbox(b)
  /\ UNCHANGED <<rxVars, txVars, netVars, seen, burnt, flight, batch, acks, faults, breaks>>

Handled(b, i) == batch' = [batch EXCEPT ![b] = @ \ {i}]
WillAck(b, i) == acks' = [acks EXCEPT ![b] = @ \cup {i}]

\* A known envelope is only acknowledged; a new one is dispatched, noted and
\* acknowledged; one whose dispatch throws is left in the queue.  A write that
\* fails between the dispatch and the note leaves it there too.
handleOne(b, i) ==
  /\ loop[b] = "handle" /\ i \in batch[b]
  /\ Handled(b, i)
  /\ \/ /\ i \in seen[b] /\ WillAck(b, i)
        /\ UNCHANGED <<rxVars, seen, faults>>
     \/ /\ i \notin seen[b] /\ ~Refused(mail[i].p) /\ Receive(mail[i].p)
        /\ \/ WillAck(b, i) /\ seen' = [seen EXCEPT ![b] = @ \cup {i}] /\ UNCHANGED faults
           \/ Fault /\ UNCHANGED <<acks, seen>>
     \/ /\ i \notin seen[b] /\ Refused(mail[i].p)
        /\ UNCHANGED <<rxVars, acks, seen, faults>>
  /\ UNCHANGED <<txVars, netVars, burnt, flight, loop, sweep, breaks>>

\* An envelope that does not open, for one thing because the sender's key
\* could not be fetched just now, is acknowledged and gone.
DropUnopened(b, i) ==
  /\ loop[b] = "handle" /\ i \in batch[b] /\ Fault
  /\ Handled(b, i) /\ WillAck(b, i)
  /\ lost' = lost \cup {mail[i].p}
  /\ UNCHANGED <<rxVars, txVars, mail, relay, seen, burnt, flight, loop, sweep,
                 breaks>>

\* One acknowledgement for the whole pull; it may fail.
Ack(b) ==
  /\ loop[b] = "handle" /\ batch[b] = {}
  /\ \/ relay' = relay \ acks[b] /\ UNCHANGED faults
     \/ acks[b] # {} /\ Fault /\ UNCHANGED relay
  /\ acks' = [acks EXCEPT ![b] = {}]
  /\ SelectOutbox(b)
  /\ UNCHANGED <<rxVars, txVars, mail, lost, seen, burnt, flight, batch, breaks>>

\* Counted before the network call.
Attempt(m) == tries' = [tries EXCEPT ![m] = @ + 1]

\* One message after the other, if its connection still stands.
federationOutbox(b, m) ==
  /\ loop[b] = "outbox" /\ ~Sweeping(b) /\ m \in sweep[b]
  /\ sweep' = [sweep EXCEPT ![b] = @ \ {m}]
  /\ IF conn[b] = "accepted" /\ outRow[m] = row[b]
       THEN Attempt(m) /\ Fly(m, outRow[m], "sweep")
       ELSE UNCHANGED <<tries, flight>>
  /\ UNCHANGED <<rxVars, owed, ackTries, answered, out, outRow, netVars, seen, burnt, loop, batch, acks,
                 faults, breaks>>

\* Then the acceptance that is still owed; the next tick waits for it.
federationAcceptOutbox(b) ==
  /\ loop[b] = "outbox" /\ ~Sweeping(b) /\ sweep[b] = {}
  /\ IF AcceptDue(b) THEN ackTries' = ackTries + 1 /\ Fly("accept", row[b], "sweep")
                     ELSE UNCHANGED <<ackTries, flight>>
  /\ loop' = [loop EXCEPT ![b] = "idle"]
  /\ UNCHANGED <<rxVars, owed, answered, out, outRow, tries, netVars, seen, burnt, batch, acks, sweep,
                 faults, breaks>>

-----------------------------------------------------------------------------
(* The world.                                                               *)

\* The relay drops what nobody fetched in time.
Expire(i) ==
  /\ i \in relay /\ Fault
  /\ relay' = relay \ {i} /\ lost' = lost \cup {mail[i].p}
  /\ UNCHANGED <<rxVars, txVars, mail, seen, burnt, flight, loopVars, breaks>>

\* The handler's memory of nonces is as long as its freshness window.
WindowPasses(b) ==
  /\ burnt[b] # {}
  /\ burnt' = [burnt EXCEPT ![b] = {}]
  /\ UNCHANGED <<rxVars, txVars, netVars, seen, flight, loopVars, faults, breaks>>

Crash(b) ==
  /\ Fault
  /\ flight' = {f \in flight : Sender(f.p) # b}
  /\ burnt' = [burnt EXCEPT ![b] = {}]
  /\ loop' = [loop EXCEPT ![b] = "idle"]
  /\ batch' = [batch EXCEPT ![b] = {}] /\ acks' = [acks EXCEPT ![b] = {}]
  /\ sweep' = [sweep EXCEPT ![b] = {}]
  /\ UNCHANGED <<rxVars, txVars, netVars, seen, breaks>>

Owners ==
  \/ requestRemote \/ respondRemoteAccept \/ respondRemoteReject \/ withdraw
  \/ \E b \in Boxes : block(b) \/ disconnect(b)
  \/ \E m \in Dms : sendMessage(m)

Transit(f) ==
  \/ enqueueSealed(f) \/ DirectPost(f) \/ DirectAnswerLost(f)
  \/ DirectRefused(f) \/ Unreachable(f) \/ Delivered(f)

LoopStep(b) ==
  \/ Pull(b) \/ PullNothing(b) \/ Ack(b) \/ federationAcceptOutbox(b)
  \/ \E m \in sweep[b] : federationOutbox(b, m)
  \/ \E i \in batch[b] : handleOne(b, i) \/ DropUnopened(b, i)

World ==
  \/ \E i \in relay : Expire(i)
  \/ \E b \in Boxes : WindowPasses(b) \/ Crash(b)

Next == Owners \/ (\E f \in flight : Transit(f)) \/ (\E b \in Boxes : LoopStep(b)) \/ World

Spec == Init /\ [][Next]_vars

\* Every delivery ends, by its timeouts if by nothing else, and each box's timer
\* keeps its loop going; neither the network nor an owner owes anything.
Fairness ==
  /\ \A p \in Payloads : WF_vars(\E f \in flight : f.p = p /\ Transit(f))
  /\ \A b \in Boxes : WF_vars(LoopStep(b))

FairSpec == Spec /\ Fairness

-----------------------------------------------------------------------------
(* Properties.                                                              *)

Word(m) == IF out[m] \in {"none", "delivered"} THEN out[m] ELSE "sent"

PM == INSTANCE PeerMail WITH
  Mails <- Dms,
  status <- [m \in Dms |-> Word(m)],
  held <- {m \in Dms : \E i \in relay : mail[i].p = m},
  lost <- lost \cap Dms

\* Relay, direct path, retries, acknowledgements and crashes together keep the
\* promise of PeerMail: a thread shows a message once, and one reported as
\* delivered is shown or still held, unless the transport gave it up.
MailIsKept == PM!Spec

\* The two boxes do not disagree for good: while the one that was asked has
\* accepted and the one that asked still waits, the acceptance is owed with
\* attempts left, under way, or in the relay; unless it was given up, or the
\* asking box has meanwhile deleted the row that was answered.
AcceptUnderWay ==
  \/ owed /\ ackTries < OUTBOX_MAX_ATTEMPTS
  \/ Flying("accept")
  \/ \E i \in relay : mail[i].p = "accept" /\ i \notin seen["init"]
AcceptIsOnItsWay ==
  conn["resp"] = "accepted" /\ conn["init"] = "pending" /\ answered = row["init"] =>
    AcceptUnderWay \/ "accept" \in lost \/ ackTries = OUTBOX_MAX_ATTEMPTS

\* The boxes' rows are well formed and their acceptance does not get lost.
FederationInv == TypeOK /\ AcceptIsOnItsWay

\* The same without the second exception: a request made again reaches a peer
\* that has accepted before.
NobodyStranded ==
  conn["resp"] = "accepted" /\ conn["init"] = "pending" =>
    \/ AcceptUnderWay \/ "accept" \in lost \/ ackTries = OUTBOX_MAX_ATTEMPTS
    \/ Flying("request") \/ \E i \in relay : mail[i].p = "request" /\ i \notin seen["resp"]

\* Nothing that arrives, however late or often, undoes a block.
BlockSticks == [][\A b \in Boxes : conn[b] = "blocked" => conn'[b] = "blocked"]_vars

\* A failed message is delivered or uses up its attempts, and so does an owed
\* acceptance, as long as the connection stands: no retry goes on for ever.
RetriesEnd ==
  /\ \A m \in Dms : out[m] = "failed" ~>
       out[m] = "delivered" \/ tries[m] = OUTBOX_MAX_ATTEMPTS
         \/ conn[From[m]] # "accepted" \/ outRow[m] # row[From[m]]
  /\ owed ~> ~owed \/ ackTries = OUTBOX_MAX_ATTEMPTS \/ conn["resp"] # "accepted"

\* connections.js: the row is persisted first, so that a failed delivery is
\* visible and can be tried again.
SendingSettles == \A m \in Dms : out[m] = "sending" ~> out[m] # "sending"
=============================================================================
