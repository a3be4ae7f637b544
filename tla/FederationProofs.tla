-------------------------- MODULE FederationProofs --------------------------
(***************************************************************************)
(* What two federated boxes guarantee for any set of messages, any window,  *)
(* and any number of envelopes, rows, attempts, losses and disconnections:  *)
(* Federation implements PeerMail, an acceptance does not get lost, and a   *)
(* block sticks.                                                            *)
(***************************************************************************)
EXTENDS Federation, SequenceTheorems, TLAPS

Held == {m \in Dms : \E i \in relay : mail[i].p = m}
Kept == Held \cup shown \cup lost
Envelopes == 1..Len(mail)

(* Every index points at an envelope that was enqueued for the box.         *)
MailInv ==
  /\ relay \subseteq Envelopes
  /\ \A b \in Boxes : seen[b] \cup batch[b] \cup acks[b] \subseteq {i \in Envelopes : mail[i].to = b}
  /\ \A i \in Envelopes :
       /\ mail[i].to = Peer(Sender(mail[i].p))
       /\ mail[i].p \in Dms => out[mail[i].p] # "none"

(* A message is tried by one delivery at a time: the live one while its row *)
(* says "sending", one of the sweep while it says "failed".                 *)
FlightInv ==
  /\ \A f \in flight :
       /\ f.p \in Dms => out[f.p] = (IF f.by = "live" THEN "sending" ELSE "failed")
       /\ f.by = "new" => f.p = "request"
       /\ \A g \in flight : f.p = g.p /\ f.p \in Dms => f = g

(* What a sweep has still to try failed and is not under way; no delivery   *)
(* of the sweep is, while the loop handles what it pulled.                  *)
SweepInv == \A b \in Boxes :
  /\ loop[b] = "handle" => ~Sweeping(b)
  /\ \A m \in sweep[b] : /\ From[m] = b /\ out[m] = "failed" /\ ~Flying(m)
                         /\ tries[m] < OUTBOX_MAX_ATTEMPTS

(* What was handled, acknowledged or reported has been shown or given up.   *)
KeptInv ==
  /\ \A m \in Dms : copies[m] \in {0, 1} /\ (copies[m] = 1 => m \in shown)
  /\ \A m \in Dms : out[m] = "delivered" => m \in Kept
  /\ \A f \in flight : f.at = "ok" /\ f.p \in Dms => f.p \in Kept
  /\ \A b \in Boxes : \A i \in seen[b] : mail[i].p \in Dms => mail[i].p \in shown
  /\ \A b \in Boxes : \A i \in acks[b] : i \in seen[b] \/ mail[i].p \in lost

AcceptSealed == \E i \in relay : mail[i].p = "accept" /\ i \notin seen["init"]
AskerWaits == conn["resp"] = "accepted" /\ conn["init"] = "pending" /\ answered = row["init"]

(* While the one that asked still waits, the acceptance is owed; a delivery *)
(* may cross it off only when it is in the relay; and a row that has not    *)
(* been answered has no acceptance under way.                               *)
AcceptInv ==
  /\ answered <= row["init"]
  /\ AskerWaits =>
       /\ owed \/ AcceptSealed \/ "accept" \in lost \/ ackTries = OUTBOX_MAX_ATTEMPTS
       /\ \A f \in flight :
            f.p = "accept" /\ f.at = "ok" /\ f.n = row["resp"] => AcceptSealed \/ "accept" \in lost
  /\ \A f \in flight : f.p = "accept" => /\ f.n <= row["resp"]
                                         /\ conn["resp"] = "pending" => f.n # row["resp"]

IInv == TypeOK /\ MailInv /\ FlightInv /\ SweepInv /\ KeptInv /\ AcceptInv

-----------------------------------------------------------------------------
(* The operators the steps are built from.                                  *)

LEMMA Senders ==
  /\ "request" \notin Dms /\ "accept" \notin Dms
  /\ Sender("request") = "init" /\ Sender("accept") = "resp"
  /\ \A m \in Dms : Sender(m) = From[m]
  /\ \A p \in Payloads : Sender(p) \in Boxes
  /\ Peer("resp") = "init" /\ Peer("init") = "resp"
  /\ \A b \in Boxes : Peer(b) \in Boxes /\ Peer(Peer(b)) = b
<1>1. "request" \notin Dms /\ "accept" \notin Dms
  BY FederationAssumption
<1>2. \A m \in Dms : Sender(m) = From[m] /\ From[m] \in Boxes
  BY <1>1, FederationAssumption DEF Sender
<1>3. Sender("request") = "init" /\ Sender("accept") = "resp"
  BY DEF Sender
<1>4. QED
  BY <1>1, <1>2, <1>3 DEF Payloads, Boxes, Peer

(* What a payload may change where it arrives.                              *)
LEMMA Received ==
  ASSUME TypeOK, NEW p \in Payloads, Receive(p)
  PROVE  /\ conn' \in [Boxes -> Statuses] /\ row' \in [Boxes -> 0..MaxRows]
         /\ row'["init"] = row["init"]
         /\ conn'["init"] = IF p = "accept" /\ conn["init"] = "pending" THEN "accepted"
                            ELSE conn["init"]
         /\ \/ conn'["resp"] = conn["resp"] /\ row'["resp"] = row["resp"]
            \/ /\ conn["resp"] = "none" /\ conn'["resp"] = "pending"
               /\ row'["resp"] = row["resp"] + 1
         /\ IF p \in Dms THEN copies' = [copies EXCEPT ![p] = 1] /\ shown' = shown \cup {p}
            ELSE copies' = copies /\ shown' = shown
         /\ copies' \in [Dms -> Nat] /\ shown' \subseteq Dms
<1>1. CASE p = "request"
  <2>1. receiveRemote /\ p \notin Dms
    BY <1>1, Senders DEF Receive
  <2>2. CASE conn["resp"] = "none" /\ row["resp"] < MaxRows
    <3>1. /\ conn' = [conn EXCEPT !["resp"] = "pending"]
          /\ row' = [row EXCEPT !["resp"] = @ + 1]
          /\ copies' = copies /\ shown' = shown
      BY <2>1, <2>2 DEF receiveRemote
    <3>2. row["resp"] + 1 \in 0..MaxRows
      BY <2>2, FederationAssumption DEF TypeOK, Boxes
    <3>3. QED
      BY <1>1, <2>1, <2>2, <3>1, <3>2 DEF TypeOK, Boxes, Statuses
  <2>3. CASE ~(conn["resp"] = "none" /\ row["resp"] < MaxRows)
    BY <1>1, <2>1, <2>3 DEF receiveRemote, TypeOK
  <2>4. QED
    BY <2>2, <2>3
<1>2. CASE p = "accept"
  <2>1. receiveResponse /\ p \notin Dms
    BY <1>2, Senders DEF Receive
  <2>2. QED
    BY <1>2, <2>1 DEF receiveResponse, TypeOK, Boxes, Statuses
<1>3. CASE p \in Dms
  <2>1. receiveMessage(p) /\ p # "accept"
    BY <1>3, Senders DEF Receive
  <2>2. /\ conn' = conn /\ row' = row
        /\ copies' = [copies EXCEPT ![p] = 1] /\ shown' = shown \cup {p}
    BY <2>1 DEF receiveMessage
  <2>3. copies' \in [Dms -> Nat] /\ shown' \subseteq Dms
    BY <1>3, <2>2 DEF TypeOK
  <2>4. QED
    BY <1>3, <2>1, <2>2, <2>3 DEF TypeOK
<1>4. QED
  BY <1>1, <1>2, <1>3 DEF Payloads

LEMMA FlightsOK ==
  ASSUME TypeOK, NEW f \in flight
  PROVE  /\ f.p \in Payloads /\ f.n \in 0..MaxRows
         /\ f.by \in {"new", "live", "sweep"} /\ f.at \in {"start", "direct", "ok"}
         /\ Sender(f.p) \in Boxes
BY Senders DEF TypeOK, Flights

LEMMA MovesOn ==
  ASSUME TypeOK, NEW f \in flight, NEW to \in {"start", "direct", "ok"}
  PROVE  /\ [f EXCEPT !.at = to] \in Flights
         /\ [f EXCEPT !.at = to].p = f.p /\ [f EXCEPT !.at = to].n = f.n
         /\ [f EXCEPT !.at = to].by = f.by /\ [f EXCEPT !.at = to].at = to
BY DEF TypeOK, Flights

LEMMA TakesOff ==
  ASSUME NEW p \in Payloads, NEW n \in 0..MaxRows, NEW by \in {"new", "live", "sweep"}
  PROVE  [p |-> p, n |-> n, by |-> by, at |-> "start"] \in Flights
BY DEF Flights

(* A delivery that is under way stays, moves on, or is gone.                *)
LEMMA ArrivedAt ==
  ASSUME NEW f \in flight, Arrived(f) \/ Move(f, "direct")
  PROVE  \/ flight' = flight \ {f}
         \/ \E to \in {"direct", "ok"} : flight' = (flight \ {f}) \cup {[f EXCEPT !.at = to]}
BY DEF Arrived, Move

LEMMA MovesOnTypes ==
  ASSUME TypeOK, NEW f \in flight, Arrived(f) \/ Move(f, "direct")
  PROVE  flight' \subseteq Flights
<1>1. CASE flight' = flight \ {f}
  BY <1>1 DEF TypeOK
<1>2. ASSUME NEW to \in {"direct", "ok"}, flight' = (flight \ {f}) \cup {[f EXCEPT !.at = to]}
      PROVE flight' \subseteq Flights
  <2>1. [f EXCEPT !.at = to] \in Flights
    BY MovesOn
  <2>2. QED
    BY <1>2, <2>1 DEF TypeOK
<1>3. QED
  BY <1>1, <1>2, ArrivedAt

LEMMA MovedDelivery ==
  ASSUME TypeOK, NEW f \in flight, Arrived(f) \/ Move(f, "direct")
  PROVE  \E h : /\ flight' \subseteq (flight \ {f}) \cup {h}
                /\ h.p = f.p /\ h.n = f.n /\ h.by = f.by
<1>1. CASE flight' = flight \ {f}
  BY <1>1
<1>2. ASSUME NEW to \in {"direct", "ok"}, flight' = (flight \ {f}) \cup {[f EXCEPT !.at = to]}
      PROVE  \E h : /\ flight' \subseteq (flight \ {f}) \cup {h}
                    /\ h.p = f.p /\ h.n = f.n /\ h.by = f.by
  <2> WITNESS [f EXCEPT !.at = to]
  <2>1. QED
    BY <1>2, MovesOn
<1>3. QED
  BY <1>1, <1>2, ArrivedAt

LEMMA Burns ==
  ASSUME TypeOK, NEW f \in flight, Burn(f)
  PROVE  burnt' \in [Boxes -> SUBSET (Payloads \X (0..MaxRows))]
<1>1. Nonce(f) \in Payloads \X (0..MaxRows) /\ To(f) \in Boxes
  BY FlightsOK, Senders DEF Nonce, To
<1>2. burnt' = burnt \/ burnt' = [burnt EXCEPT ![To(f)] = @ \cup {Nonce(f)}]
  BY DEF Burn
<1>3. burnt[To(f)] \cup {Nonce(f)} \in SUBSET (Payloads \X (0..MaxRows))
  BY <1>1 DEF TypeOK
<1>4. QED
  BY <1>1, <1>2, <1>3 DEF TypeOK

(* The type invariant in parts.                                             *)
RowTypes == conn \in [Boxes -> Statuses] /\ row \in [Boxes -> 0..MaxRows] /\ answered \in 0..MaxRows
SendTypes ==
  /\ owed \in BOOLEAN /\ ackTries \in 0..OUTBOX_MAX_ATTEMPTS
  /\ out \in [Dms -> {"none", "sending", "failed", "delivered"}]
  /\ outRow \in [Dms -> 0..MaxRows] /\ tries \in [Dms -> 0..OUTBOX_MAX_ATTEMPTS]
ThreadTypes == copies \in [Dms -> Nat] /\ shown \subseteq Dms /\ lost \subseteq Payloads
MailTypes ==
  /\ mail \in Seq([to : Boxes, p : Payloads, n : 0..MaxRows]) /\ Len(mail) <= MaxMail
  /\ relay \subseteq 1..MaxMail
  /\ seen \in [Boxes -> SUBSET (1..MaxMail)]
  /\ burnt \in [Boxes -> SUBSET (Payloads \X (0..MaxRows))]
LoopTypes ==
  /\ loop \in [Boxes -> {"idle", "handle", "outbox"}]
  /\ batch \in [Boxes -> SUBSET (1..MaxMail)] /\ acks \in [Boxes -> SUBSET (1..MaxMail)]
  /\ sweep \in [Boxes -> SUBSET Dms]
CountTypes == faults \in 0..MaxFaults /\ breaks \in 0..MaxBreaks

LEMMA TypeParts ==
  TypeOK <=> /\ RowTypes /\ SendTypes /\ ThreadTypes /\ MailTypes
             /\ flight \subseteq Flights /\ LoopTypes /\ CountTypes
BY DEF TypeOK, RowTypes, SendTypes, ThreadTypes, MailTypes, LoopTypes, CountTypes

(* Any envelope that may be handled is one of the relay's.                  *)
LEMMA Enveloped ==
  ASSUME TypeOK, MailInv
  PROVE  /\ Len(mail) \in Nat
         /\ \A i \in Envelopes : mail[i] \in [to : Boxes, p : Payloads, n : 0..MaxRows]
         /\ \A i \in relay : mail[i].p \in Payloads
         /\ \A b \in Boxes : \A i \in batch[b] : mail[i].p \in Payloads /\ i \in 1..MaxMail
<1>1. mail \in [Envelopes -> [to : Boxes, p : Payloads, n : 0..MaxRows]] /\ Len(mail) \in Nat
  BY LenProperties DEF TypeOK, Envelopes
<1>2. \A b \in Boxes : \A i \in batch[b] : i \in Envelopes /\ i \in 1..MaxMail
  BY DEF MailInv, TypeOK
<1>3. QED
  BY <1>1, <1>2 DEF MailInv

LEMMA Sealed ==
  ASSUME TypeOK, MailInv, NEW f \in flight, enqueueSealed(f)
  PROVE  /\ Envelopes' = Envelopes \cup {Len(mail) + 1} /\ Len(mail) + 1 \notin Envelopes
         /\ \A i \in Envelopes : mail'[i] = mail[i]
         /\ mail'[Len(mail) + 1] = [to |-> Peer(Sender(f.p)), p |-> f.p, n |-> f.n]
         /\ mail'[Len(mail) + 1].p = f.p
         /\ relay' = relay \cup {Len(mail) + 1}
<1> DEFINE e == [to |-> Peer(Sender(f.p)), p |-> f.p, n |-> f.n]
           R == [to : Boxes, p : Payloads, n : 0..MaxRows]
<1>1. e \in R
  BY FlightsOK, Senders
<1>2. mail \in Seq(R) /\ mail' = Append(mail, e) /\ relay' = relay \cup {Len(mail) + 1}
  BY DEF enqueueSealed, TypeOK
<1>3. /\ Len(mail) \in Nat /\ Len(mail') = Len(mail) + 1
      /\ \A i \in 1..Len(mail) : mail'[i] = mail[i]
      /\ mail'[Len(mail) + 1] = e
  <2> HIDE DEF e, R
  <2>1. QED
    BY <1>1, <1>2, AppendProperties, LenProperties
<1>4. Envelopes' = Envelopes \cup {Len(mail) + 1} /\ Len(mail) + 1 \notin Envelopes
  BY <1>3 DEF Envelopes
<1>5. QED
  BY <1>2, <1>3, <1>4 DEF Envelopes

-----------------------------------------------------------------------------
(* The steps keep the types.                                                *)

LEMMA RowTypesKept ==
  ASSUME TypeOK, MailInv, [Next]_vars
  PROVE  RowTypes'
<1> USE DEF rxVars, txVars, netVars, loopVars, vars
<1>1. CASE requestRemote
  BY <1>1, FederationAssumption DEF requestRemote, Fly, TypeOK, RowTypes, Boxes, Statuses
<1>2. CASE respondRemoteAccept
  BY <1>2, FederationAssumption DEF respondRemoteAccept, Fly, Fault, TypeOK, RowTypes,
       Boxes, Statuses
<1>3. CASE respondRemoteReject
  BY <1>3 DEF respondRemoteReject, SetStatus, Break, TypeOK, RowTypes, Boxes, Statuses
<1>4. CASE withdraw
  BY <1>4 DEF withdraw, DeleteRow, Break, TypeOK, RowTypes, Boxes, Statuses
<1>5. ASSUME NEW b \in Boxes, block(b) PROVE RowTypes'
  BY <1>5 DEF block, SetStatus, Break, TypeOK, RowTypes, Boxes, Statuses
<1>6. ASSUME NEW b \in Boxes, disconnect(b) PROVE RowTypes'
  BY <1>6 DEF disconnect, DeleteRow, Break, TypeOK, RowTypes, Boxes, Statuses
<1>7. ASSUME NEW f \in flight, DirectPost(f) PROVE RowTypes'
  BY <1>7, FlightsOK, Received DEF DirectPost, TypeOK, RowTypes
<1>8. ASSUME NEW f \in flight, DirectAnswerLost(f) PROVE RowTypes'
  BY <1>8, FlightsOK, Received DEF DirectAnswerLost, TypeOK, RowTypes
<1>9. ASSUME NEW f \in flight, Unreachable(f) PROVE RowTypes'
  BY <1>9 DEF Unreachable, Fails, TypeOK, RowTypes, Boxes, Statuses
<1>10. ASSUME NEW b \in Boxes, NEW i \in batch[b], handleOne(b, i) PROVE RowTypes'
  BY <1>10, Enveloped, Received DEF handleOne, TypeOK, RowTypes
<1>11. CASE UNCHANGED vars
  BY <1>11 DEF TypeOK, RowTypes
<1>12. ASSUME NEW m \in Dms, sendMessage(m)
      PROVE RowTypes'
  BY <1>12 DEF TypeOK, RowTypes, sendMessage, Fly
<1>13. ASSUME NEW b \in Boxes, Pull(b) \/ PullNothing(b) \/ Ack(b) \/ federationAcceptOutbox(b) \/ WindowPasses(b) \/ Crash(b)
      PROVE RowTypes'
  BY <1>13 DEF TypeOK, RowTypes, Pull, PullNothing, Ack, federationAcceptOutbox,
       WindowPasses, Crash, SelectOutbox, Fault, Fly
<1>14. ASSUME NEW f \in flight, enqueueSealed(f) \/ DirectRefused(f) \/ Delivered(f)
      PROVE RowTypes'
  BY <1>14 DEF TypeOK, RowTypes, enqueueSealed, DirectRefused, Delivered, Arrived, Move,
       Fault, Fails, Burn
<1>15. ASSUME NEW b \in Boxes, NEW m \in sweep[b], federationOutbox(b, m)
      PROVE RowTypes'
  BY <1>15 DEF TypeOK, RowTypes, federationOutbox, Attempt, Fly
<1>16. ASSUME NEW b \in Boxes, NEW i \in batch[b], DropUnopened(b, i)
      PROVE RowTypes'
  BY <1>16 DEF TypeOK, RowTypes, DropUnopened, Handled, WillAck, Fault
<1>17. ASSUME NEW i \in relay, Expire(i)
      PROVE RowTypes'
  BY <1>17 DEF TypeOK, RowTypes, Expire, Fault
<1>18. QED
  BY <1>1, <1>2, <1>3, <1>4, <1>5, <1>6, <1>7, <1>8, <1>9, <1>10, <1>11, <1>12, <1>13,
       <1>14, <1>15, <1>16, <1>17 DEF Next, Owners, Transit, LoopStep, World

LEMMA SendTypesKept ==
  ASSUME TypeOK, SweepInv, [Next]_vars
  PROVE  SendTypes'
<1> USE DEF rxVars, txVars, netVars, loopVars, vars
<1>1. CASE respondRemoteAccept
  BY <1>1, Zenon DEF respondRemoteAccept, Fly, Fault, TypeOK, SendTypes
<1>2. CASE withdraw
  BY <1>2, FederationAssumption DEF withdraw, DeleteRow, Break, TypeOK, SendTypes
<1>3. ASSUME NEW b \in Boxes, disconnect(b) PROVE SendTypes'
  BY <1>3, FederationAssumption DEF disconnect, DeleteRow, Break, TypeOK, SendTypes
<1>4. ASSUME NEW m \in Dms, sendMessage(m) PROVE SendTypes'
  <2>1. From[m] \in Boxes
    BY FederationAssumption
  <2>2. QED
    BY <1>4, <2>1 DEF sendMessage, Fly, TypeOK, SendTypes
<1>5. ASSUME NEW f \in flight, DirectAnswerLost(f) PROVE SendTypes'
  BY <1>5 DEF DirectAnswerLost, Fails, Fault, Burn, TypeOK, SendTypes
<1>6. ASSUME NEW f \in flight, DirectRefused(f) PROVE SendTypes'
  BY <1>6 DEF DirectRefused, Fails, Burn, TypeOK, SendTypes
<1>7. ASSUME NEW f \in flight, Unreachable(f) PROVE SendTypes'
  BY <1>7 DEF Unreachable, Fails, TypeOK, SendTypes
<1>8. ASSUME NEW f \in flight, Delivered(f) PROVE SendTypes'
  BY <1>8 DEF Delivered, TypeOK, SendTypes
<1>9. ASSUME NEW b \in Boxes, federationAcceptOutbox(b) PROVE SendTypes'
  BY <1>9, FederationAssumption DEF federationAcceptOutbox, Fly, AcceptDue, TypeOK, SendTypes
<1>10. ASSUME NEW b \in Boxes, NEW m \in sweep[b], federationOutbox(b, m) PROVE SendTypes'
  <2>1. m \in Dms /\ tries[m] \in 0..OUTBOX_MAX_ATTEMPTS /\ tries[m] < OUTBOX_MAX_ATTEMPTS
    BY DEF TypeOK, SweepInv
  <2>2. tries' = tries \/ tries' = [tries EXCEPT ![m] = tries[m] + 1]
    BY <1>10 DEF federationOutbox, Attempt, Fly
  <2>3. tries' \in [Dms -> 0..OUTBOX_MAX_ATTEMPTS]
    <3>1. tries[m] + 1 \in 0..OUTBOX_MAX_ATTEMPTS
      BY <2>1, FederationAssumption
    <3>2. QED
      BY <2>1, <2>2, <3>1 DEF TypeOK
  <2>4. QED
    BY <1>10, <2>3 DEF federationOutbox, Attempt, Fly, TypeOK, SendTypes
<1>11. CASE requestRemote \/ respondRemoteReject \/ UNCHANGED vars
  BY <1>11 DEF TypeOK, SendTypes, requestRemote, respondRemoteReject, Fly, SetStatus, Break
<1>12. ASSUME NEW b \in Boxes, block(b) \/ Pull(b) \/ PullNothing(b) \/ Ack(b) \/ WindowPasses(b) \/ Crash(b)
      PROVE SendTypes'
  BY <1>12 DEF TypeOK, SendTypes, block, Pull, PullNothing, Ack, WindowPasses, Crash,
       SetStatus, Break, SelectOutbox, Fault
<1>13. ASSUME NEW f \in flight, enqueueSealed(f) \/ DirectPost(f)
      PROVE SendTypes'
  BY <1>13 DEF TypeOK, SendTypes, enqueueSealed, DirectPost, Arrived, Move, Fault, Burn
<1>14. ASSUME NEW b \in Boxes, NEW i \in batch[b], handleOne(b, i) \/ DropUnopened(b, i)
      PROVE SendTypes'
  BY <1>14 DEF TypeOK, SendTypes, handleOne, DropUnopened, Handled, WillAck, Fault
<1>15. ASSUME NEW i \in relay, Expire(i)
      PROVE SendTypes'
  BY <1>15 DEF TypeOK, SendTypes, Expire, Fault
<1>16. QED
  BY <1>1, <1>2, <1>3, <1>4, <1>5, <1>6, <1>7, <1>8, <1>9, <1>10, <1>11, <1>12, <1>13,
       <1>14, <1>15 DEF Next, Owners, Transit, LoopStep, World

LEMMA ThreadTypesKept ==
  ASSUME TypeOK, MailInv, [Next]_vars
  PROVE  ThreadTypes'
<1> USE DEF rxVars, txVars, netVars, loopVars, vars
<1>1. CASE respondRemoteAccept
  BY <1>1 DEF respondRemoteAccept, Fly, Fault, TypeOK, ThreadTypes, Payloads
<1>2. CASE withdraw
  BY <1>2 DEF withdraw, DeleteRow, Break, TypeOK, ThreadTypes
<1>3. ASSUME NEW b \in Boxes, disconnect(b) PROVE ThreadTypes'
  BY <1>3 DEF disconnect, DeleteRow, Break, TypeOK, ThreadTypes
<1>4. ASSUME NEW f \in flight, DirectPost(f) PROVE ThreadTypes'
  <2>1. f.p \in Payloads /\ Receive(f.p) /\ lost' = lost
    BY <1>4, FlightsOK DEF DirectPost
  <2>2. QED
    BY <2>1, Received DEF TypeOK, ThreadTypes
<1>5. ASSUME NEW f \in flight, DirectAnswerLost(f) PROVE ThreadTypes'
  <2>1. f.p \in Payloads /\ Receive(f.p) /\ lost' = lost
    BY <1>5, FlightsOK DEF DirectAnswerLost
  <2>2. QED
    BY <2>1, Received DEF TypeOK, ThreadTypes
<1>6. ASSUME NEW b \in Boxes, NEW i \in batch[b], handleOne(b, i) PROVE ThreadTypes'
  <2>1. /\ mail[i].p \in Payloads /\ lost' = lost
        /\ Receive(mail[i].p) \/ (copies' = copies /\ shown' = shown)
    BY <1>6, Enveloped DEF handleOne
  <2>2. QED
    BY <2>1, Received DEF TypeOK, ThreadTypes
<1>7. ASSUME NEW b \in Boxes, NEW i \in batch[b], DropUnopened(b, i) PROVE ThreadTypes'
  BY <1>7, Enveloped DEF DropUnopened, Handled, WillAck, Fault, TypeOK, ThreadTypes
<1>8. ASSUME NEW i \in relay, Expire(i) PROVE ThreadTypes'
  BY <1>8, Enveloped DEF Expire, Fault, TypeOK, ThreadTypes
<1>9. CASE requestRemote \/ respondRemoteReject \/ UNCHANGED vars
  BY <1>9 DEF TypeOK, ThreadTypes, requestRemote, respondRemoteReject, Fly, SetStatus, Break
<1>10. ASSUME NEW m \in Dms, sendMessage(m)
      PROVE ThreadTypes'
  BY <1>10 DEF TypeOK, ThreadTypes, sendMessage, Fly
<1>11. ASSUME NEW b \in Boxes, block(b) \/ Pull(b) \/ PullNothing(b) \/ Ack(b) \/ federationAcceptOutbox(b) \/ WindowPasses(b) \/ Crash(b)
      PROVE ThreadTypes'
  BY <1>11 DEF TypeOK, ThreadTypes, block, Pull, PullNothing, Ack, federationAcceptOutbox,
       WindowPasses, Crash, SetStatus, Break, SelectOutbox, Fault, Fly
<1>12. ASSUME NEW f \in flight, enqueueSealed(f) \/ DirectRefused(f) \/ Unreachable(f) \/ Delivered(f)
      PROVE ThreadTypes'
  BY <1>12 DEF TypeOK, ThreadTypes, enqueueSealed, DirectRefused, Unreachable, Delivered,
       Arrived, Move, Fault, Fails, Burn
<1>13. ASSUME NEW b \in Boxes, NEW m \in sweep[b], federationOutbox(b, m)
      PROVE ThreadTypes'
  BY <1>13 DEF TypeOK, ThreadTypes, federationOutbox, Attempt, Fly
<1>14. QED
  BY <1>1, <1>2, <1>3, <1>4, <1>5, <1>6, <1>7, <1>8, <1>9, <1>10, <1>11, <1>12, <1>13 DEF
       Next, Owners, Transit, LoopStep, World

LEMMA MailTypesKept ==
  ASSUME TypeOK, MailInv, [Next]_vars
  PROVE  MailTypes'
<1> USE DEF rxVars, txVars, netVars, loopVars, vars
<1>1. ASSUME NEW f \in flight, enqueueSealed(f) PROVE MailTypes'
  <2>1. [to |-> Peer(Sender(f.p)), p |-> f.p, n |-> f.n] \in [to : Boxes, p : Payloads, n : 0..MaxRows]
    BY FlightsOK, Senders
  <2>2. /\ mail' \in Seq([to : Boxes, p : Payloads, n : 0..MaxRows])
        /\ Len(mail') = Len(mail) + 1
    BY <1>1, <2>1, AppendProperties DEF enqueueSealed, TypeOK
  <2>3. relay' \subseteq 1..MaxMail
    <3>1. relay' = relay \cup {Len(mail) + 1} /\ Len(mail) < MaxMail
      BY <1>1 DEF enqueueSealed
    <3>2. Len(mail) + 1 \in 1..MaxMail
      BY <3>1, Enveloped, FederationAssumption
    <3>3. QED
      BY <3>1, <3>2 DEF TypeOK
  <2>4. Len(mail') <= MaxMail
    BY <1>1, <2>2, Enveloped, FederationAssumption DEF enqueueSealed
  <2>5. QED
    BY <1>1, <2>2, <2>3, <2>4 DEF enqueueSealed, TypeOK, MailTypes
<1>2. ASSUME NEW f \in flight, DirectPost(f) PROVE MailTypes'
  <2>1. burnt' \in [Boxes -> SUBSET (Payloads \X (0..MaxRows))]
    BY <1>2, Burns DEF DirectPost
  <2>2. QED
    BY <1>2, <2>1 DEF DirectPost, TypeOK, MailTypes
<1>3. ASSUME NEW f \in flight, DirectAnswerLost(f) PROVE MailTypes'
  <2>1. burnt' \in [Boxes -> SUBSET (Payloads \X (0..MaxRows))]
    BY <1>3, Burns DEF DirectAnswerLost
  <2>2. QED
    BY <1>3, <2>1 DEF DirectAnswerLost, TypeOK, MailTypes
<1>4. ASSUME NEW f \in flight, DirectRefused(f) PROVE MailTypes'
  <2>1. burnt' \in [Boxes -> SUBSET (Payloads \X (0..MaxRows))]
    BY <1>4, Burns DEF DirectRefused
  <2>2. QED
    BY <1>4, <2>1 DEF DirectRefused, TypeOK, MailTypes
<1>5. ASSUME NEW b \in Boxes, Ack(b) PROVE MailTypes'
  BY <1>5 DEF Ack, SelectOutbox, Fault, TypeOK, MailTypes
<1>6. ASSUME NEW b \in Boxes, NEW i \in batch[b], handleOne(b, i) PROVE MailTypes'
  <2>1. /\ seen' = seen \/ seen' = [seen EXCEPT ![b] = seen[b] \cup {i}]
        /\ mail' = mail /\ relay' = relay /\ burnt' = burnt
    BY <1>6 DEF handleOne
  <2>2. seen[b] \cup {i} \in SUBSET (1..MaxMail)
    BY Enveloped DEF TypeOK
  <2>3. QED
    BY <2>1, <2>2 DEF TypeOK, MailTypes
<1>7. ASSUME NEW i \in relay, Expire(i) PROVE MailTypes'
  BY <1>7 DEF Expire, Fault, TypeOK, MailTypes
<1>8. ASSUME NEW b \in Boxes, WindowPasses(b) PROVE MailTypes'
  BY <1>8 DEF WindowPasses, TypeOK, MailTypes
<1>9. ASSUME NEW b \in Boxes, Crash(b) PROVE MailTypes'
  BY <1>9 DEF Crash, Fault, TypeOK, MailTypes
<1>10. CASE requestRemote \/ respondRemoteAccept \/ respondRemoteReject \/ withdraw \/ UNCHANGED vars
  BY <1>10 DEF TypeOK, MailTypes, requestRemote, respondRemoteAccept, respondRemoteReject,
       withdraw, Fly, Fault, SetStatus, Break, DeleteRow
<1>11. ASSUME NEW m \in Dms, sendMessage(m)
      PROVE MailTypes'
  BY <1>11 DEF TypeOK, MailTypes, sendMessage, Fly
<1>12. ASSUME NEW b \in Boxes, block(b) \/ disconnect(b) \/ Pull(b) \/ PullNothing(b) \/ federationAcceptOutbox(b)
      PROVE MailTypes'
  BY <1>12 DEF TypeOK, MailTypes, block, disconnect, Pull, PullNothing,
       federationAcceptOutbox, SetStatus, Break, DeleteRow, SelectOutbox, Fly
<1>13. ASSUME NEW f \in flight, Unreachable(f) \/ Delivered(f)
      PROVE MailTypes'
  BY <1>13 DEF TypeOK, MailTypes, Unreachable, Delivered, Fails
<1>14. ASSUME NEW b \in Boxes, NEW m \in sweep[b], federationOutbox(b, m)
      PROVE MailTypes'
  BY <1>14 DEF TypeOK, MailTypes, federationOutbox, Attempt, Fly
<1>15. ASSUME NEW b \in Boxes, NEW i \in batch[b], DropUnopened(b, i)
      PROVE MailTypes'
  BY <1>15 DEF TypeOK, MailTypes, DropUnopened, Handled, WillAck, Fault
<1>16. QED
  BY <1>1, <1>2, <1>3, <1>4, <1>5, <1>6, <1>7, <1>8, <1>9, <1>10, <1>11, <1>12, <1>13,
       <1>14, <1>15 DEF Next, Owners, Transit, LoopStep, World

LEMMA FlightTypesKept ==
  ASSUME TypeOK, [Next]_vars
  PROVE  flight' \subseteq Flights
<1> USE DEF rxVars, txVars, netVars, loopVars, vars
<1>1. CASE requestRemote
  BY <1>1, FederationAssumption DEF requestRemote, Fly, TypeOK, Flights, Payloads, Boxes
<1>2. CASE respondRemoteAccept
  BY <1>2 DEF respondRemoteAccept, Fly, Fault, TypeOK, Flights, Payloads, Boxes
<1>3. ASSUME NEW m \in Dms, sendMessage(m) PROVE flight' \subseteq Flights
  <2>1. From[m] \in Boxes /\ m \in Payloads /\ row[From[m]] \in 0..MaxRows
    BY FederationAssumption DEF TypeOK, Payloads
  <2>2. QED
    BY <1>3, <2>1, TakesOff DEF sendMessage, Fly, TypeOK
<1>4. ASSUME NEW f \in flight, enqueueSealed(f) PROVE flight' \subseteq Flights
  <2>1. Arrived(f) \/ Move(f, "direct")
    BY <1>4 DEF enqueueSealed
  <2>2. QED
    BY <2>1, MovesOnTypes
<1>5. ASSUME NEW f \in flight, DirectPost(f) PROVE flight' \subseteq Flights
  <2>1. Arrived(f)
    BY <1>5 DEF DirectPost
  <2>2. QED
    BY <2>1, MovesOnTypes
<1>6. ASSUME NEW b \in Boxes, federationAcceptOutbox(b) PROVE flight' \subseteq Flights
  BY <1>6 DEF federationAcceptOutbox, Fly, TypeOK, Flights, Payloads
<1>7. ASSUME NEW b \in Boxes, NEW m \in sweep[b], federationOutbox(b, m) PROVE flight' \subseteq Flights
  BY <1>7 DEF federationOutbox, Attempt, Fly, TypeOK, Flights, Payloads
<1>8. CASE respondRemoteReject \/ withdraw \/ UNCHANGED vars
  BY <1>8 DEF TypeOK, respondRemoteReject, withdraw, SetStatus, Break, DeleteRow
<1>9. ASSUME NEW b \in Boxes, block(b) \/ disconnect(b) \/ Pull(b) \/ PullNothing(b) \/ Ack(b) \/ WindowPasses(b) \/ Crash(b)
      PROVE flight' \subseteq Flights
  BY <1>9 DEF TypeOK, block, disconnect, Pull, PullNothing, Ack, WindowPasses, Crash,
       SetStatus, Break, DeleteRow, SelectOutbox, Fault
<1>10. ASSUME NEW f \in flight, DirectAnswerLost(f) \/ DirectRefused(f) \/ Unreachable(f) \/ Delivered(f)
      PROVE flight' \subseteq Flights
  BY <1>10 DEF TypeOK, DirectAnswerLost, DirectRefused, Unreachable, Delivered, Fails,
       Fault, Burn
<1>11. ASSUME NEW b \in Boxes, NEW i \in batch[b], handleOne(b, i) \/ DropUnopened(b, i)
      PROVE flight' \subseteq Flights
  BY <1>11 DEF TypeOK, handleOne, DropUnopened, Handled, WillAck, Fault
<1>12. ASSUME NEW i \in relay, Expire(i)
      PROVE flight' \subseteq Flights
  BY <1>12 DEF TypeOK, Expire, Fault
<1>13. QED
  BY <1>1, <1>2, <1>3, <1>4, <1>5, <1>6, <1>7, <1>8, <1>9, <1>10, <1>11, <1>12 DEF Next,
       Owners, Transit, LoopStep, World

LEMMA LoopTypesKept ==
  ASSUME TypeOK, MailInv, [Next]_vars
  PROVE  LoopTypes'
<1> USE DEF rxVars, txVars, netVars, loopVars, vars
<1>1. ASSUME NEW b \in Boxes, Pull(b) PROVE LoopTypes'
  BY <1>1 DEF Pull, Window, Waiting, TypeOK, LoopTypes
<1>2. ASSUME NEW b \in Boxes, PullNothing(b) PROVE LoopTypes'
  BY <1>2 DEF PullNothing, SelectOutbox, FailedDms, TypeOK, LoopTypes
<1>3. ASSUME NEW b \in Boxes, Ack(b) PROVE LoopTypes'
  BY <1>3 DEF Ack, SelectOutbox, Fault, FailedDms, TypeOK, LoopTypes
<1>4. ASSUME NEW b \in Boxes, federationAcceptOutbox(b) PROVE LoopTypes'
  BY <1>4 DEF federationAcceptOutbox, Fly, TypeOK, LoopTypes
<1>5. ASSUME NEW b \in Boxes, NEW m \in sweep[b], federationOutbox(b, m) PROVE LoopTypes'
  BY <1>5 DEF federationOutbox, Attempt, Fly, TypeOK, LoopTypes
<1>6. ASSUME NEW b \in Boxes, NEW i \in batch[b], handleOne(b, i) PROVE LoopTypes'
  <2>1. /\ batch' = [batch EXCEPT ![b] = batch[b] \ {i}]
        /\ acks' = acks \/ acks' = [acks EXCEPT ![b] = acks[b] \cup {i}]
        /\ loop' = loop /\ sweep' = sweep
    BY <1>6 DEF handleOne, Handled, WillAck, Fault
  <2>2. /\ acks[b] \cup {i} \in SUBSET (1..MaxMail)
        /\ batch[b] \ {i} \in SUBSET (1..MaxMail)
    BY Enveloped DEF TypeOK
  <2>3. QED
    BY <2>1, <2>2 DEF TypeOK, LoopTypes
<1>7. ASSUME NEW b \in Boxes, NEW i \in batch[b], DropUnopened(b, i) PROVE LoopTypes'
  BY <1>7, Enveloped DEF DropUnopened, Handled, WillAck, Fault, TypeOK, LoopTypes
<1>8. ASSUME NEW b \in Boxes, Crash(b) PROVE LoopTypes'
  BY <1>8 DEF Crash, Fault, TypeOK, LoopTypes
<1>9. CASE requestRemote \/ respondRemoteAccept \/ respondRemoteReject \/ withdraw \/ UNCHANGED vars
  BY <1>9 DEF TypeOK, LoopTypes, requestRemote, respondRemoteAccept, respondRemoteReject,
       withdraw, Fly, Fault, SetStatus, Break, DeleteRow
<1>10. ASSUME NEW m \in Dms, sendMessage(m)
      PROVE LoopTypes'
  BY <1>10 DEF TypeOK, LoopTypes, sendMessage, Fly
<1>11. ASSUME NEW b \in Boxes, block(b) \/ disconnect(b) \/ WindowPasses(b)
      PROVE LoopTypes'
  BY <1>11 DEF TypeOK, LoopTypes, block, disconnect, WindowPasses, SetStatus, Break, DeleteRow
<1>12. ASSUME NEW f \in flight, enqueueSealed(f) \/ DirectPost(f) \/ DirectAnswerLost(f) \/ DirectRefused(f) \/ Unreachable(f) \/ Delivered(f)
      PROVE LoopTypes'
  BY <1>12 DEF TypeOK, LoopTypes, enqueueSealed, DirectPost, DirectAnswerLost,
       DirectRefused, Unreachable, Delivered, Arrived, Move, Fault, Burn, Fails
<1>13. ASSUME NEW i \in relay, Expire(i)
      PROVE LoopTypes'
  BY <1>13 DEF TypeOK, LoopTypes, Expire, Fault
<1>14. QED
  BY <1>1, <1>2, <1>3, <1>4, <1>5, <1>6, <1>7, <1>8, <1>9, <1>10, <1>11, <1>12, <1>13 DEF
       Next, Owners, Transit, LoopStep, World

LEMMA CountTypesKept ==
  ASSUME TypeOK, [Next]_vars
  PROVE  CountTypes'
<1> USE DEF rxVars, txVars, netVars, loopVars, vars
<1>1. CASE requestRemote \/ respondRemoteAccept \/ respondRemoteReject \/ withdraw \/ UNCHANGED vars
  BY <1>1, FederationAssumption DEF TypeOK, CountTypes, requestRemote, respondRemoteAccept,
       respondRemoteReject, withdraw, Fly, Fault, SetStatus, Break, DeleteRow
<1>2. ASSUME NEW m \in Dms, sendMessage(m)
      PROVE CountTypes'
  BY <1>2, FederationAssumption DEF TypeOK, CountTypes, sendMessage, Fly
<1>3. ASSUME NEW b \in Boxes, block(b) \/ disconnect(b) \/ Pull(b) \/ PullNothing(b) \/ Ack(b) \/ federationAcceptOutbox(b) \/ WindowPasses(b) \/ Crash(b)
      PROVE CountTypes'
  BY <1>3, FederationAssumption DEF TypeOK, CountTypes, block, disconnect, Pull,
       PullNothing, Ack, federationAcceptOutbox, WindowPasses, Crash, SetStatus, Break,
       DeleteRow, SelectOutbox, Fault, Fly
<1>4. ASSUME NEW f \in flight, enqueueSealed(f) \/ DirectPost(f) \/ DirectAnswerLost(f) \/ DirectRefused(f) \/ Unreachable(f) \/ Delivered(f)
      PROVE CountTypes'
  BY <1>4, FederationAssumption DEF TypeOK, CountTypes, enqueueSealed, DirectPost,
       DirectAnswerLost, DirectRefused, Unreachable, Delivered, Arrived, Move, Fault, Burn,
       Fails
<1>5. ASSUME NEW b \in Boxes, NEW m \in sweep[b], federationOutbox(b, m)
      PROVE CountTypes'
  BY <1>5, FederationAssumption DEF TypeOK, CountTypes, federationOutbox, Attempt, Fly
<1>6. ASSUME NEW b \in Boxes, NEW i \in batch[b], handleOne(b, i) \/ DropUnopened(b, i)
      PROVE CountTypes'
  BY <1>6, FederationAssumption DEF TypeOK, CountTypes, handleOne, DropUnopened, Handled,
       WillAck, Fault
<1>7. ASSUME NEW i \in relay, Expire(i)
      PROVE CountTypes'
  BY <1>7, FederationAssumption DEF TypeOK, CountTypes, Expire, Fault
<1>8. QED
  BY <1>1, <1>2, <1>3, <1>4, <1>5, <1>6, <1>7 DEF Next, Owners, Transit, LoopStep, World

LEMMA TypeStep == ASSUME TypeOK, MailInv, SweepInv, [Next]_vars PROVE TypeOK'
BY RowTypesKept, SendTypesKept, ThreadTypesKept, MailTypesKept, FlightTypesKept,
     LoopTypesKept,
   CountTypesKept
DEF TypeOK, RowTypes, SendTypes, ThreadTypes, MailTypes, LoopTypes, CountTypes

-----------------------------------------------------------------------------
(* The steps keep the rest of the invariant.                                *)

LEMMA MailKept ==
  ASSUME IInv, [Next]_vars
  PROVE  MailInv'
<1> USE DEF rxVars, txVars, netVars, loopVars, vars
<1> TypeOK /\ MailInv /\ FlightInv
  BY DEF IInv
<1>1. ASSUME NEW m \in Dms, sendMessage(m) PROVE MailInv'
  BY <1>1 DEF sendMessage, Fly, TypeOK, MailInv, Envelopes
<1>2. ASSUME NEW f \in flight, enqueueSealed(f) PROVE MailInv'
  <2>1. f.p \in Dms => out[f.p] # "none"
    BY DEF FlightInv
  <2>2. UNCHANGED <<seen, batch, acks, out>>
    BY <1>2 DEF enqueueSealed
  <2>3. /\ Envelopes' = Envelopes \cup {Len(mail) + 1} /\ Len(mail) + 1 \notin Envelopes
        /\ \A i \in Envelopes : mail'[i] = mail[i]
        /\ mail'[Len(mail) + 1] = [to |-> Peer(Sender(f.p)), p |-> f.p, n |-> f.n]
        /\ relay' = relay \cup {Len(mail) + 1}
    BY <1>2, Sealed
  <2>4. \A i \in Envelopes' : /\ mail'[i].to = Peer(Sender(mail'[i].p))
                             /\ mail'[i].p \in Dms => out'[mail'[i].p] # "none"
    BY <2>1, <2>2, <2>3 DEF MailInv
  <2>5. QED
    BY <2>2, <2>3, <2>4 DEF MailInv
<1>3. ASSUME NEW f \in flight, DirectAnswerLost(f) PROVE MailInv'
  BY <1>3 DEF DirectAnswerLost, Fails, Fault, Burn, Payloads, TypeOK, MailInv, Envelopes
<1>4. ASSUME NEW f \in flight, DirectRefused(f) PROVE MailInv'
  BY <1>4 DEF DirectRefused, Fails, Burn, Payloads, TypeOK, MailInv, Envelopes
<1>5. ASSUME NEW f \in flight, Unreachable(f) PROVE MailInv'
  BY <1>5 DEF Unreachable, Fails, Payloads, TypeOK, MailInv, Envelopes
<1>6. ASSUME NEW f \in flight, Delivered(f) PROVE MailInv'
  BY <1>6 DEF Delivered, Payloads, TypeOK, MailInv, Envelopes
<1>7. ASSUME NEW b \in Boxes, Pull(b) PROVE MailInv'
  BY <1>7 DEF Pull, Window, Waiting, TypeOK, MailInv, Envelopes
<1>8. ASSUME NEW b \in Boxes, Ack(b) PROVE MailInv'
  <2>1. /\ relay' \subseteq relay /\ acks' = [acks EXCEPT ![b] = {}]
        /\ UNCHANGED <<mail, seen, batch, out>>
    BY <1>8 DEF Ack
  <2>2. QED
    BY <2>1 DEF TypeOK, MailInv, Envelopes
<1>9. ASSUME NEW b \in Boxes, NEW i \in batch[b], handleOne(b, i) PROVE MailInv'
  <2>1. /\ mail' = mail /\ relay' = relay /\ out' = out
        /\ batch' = [batch EXCEPT ![b] = batch[b] \ {i}]
        /\ acks' = acks \/ acks' = [acks EXCEPT ![b] = acks[b] \cup {i}]
        /\ seen' = seen \/ seen' = [seen EXCEPT ![b] = seen[b] \cup {i}]
    BY <1>9 DEF handleOne, Handled, WillAck, Fault
  <2>2. QED
    BY <2>1 DEF TypeOK, MailInv, Envelopes
<1>10. ASSUME NEW b \in Boxes, NEW i \in batch[b], DropUnopened(b, i) PROVE MailInv'
  BY <1>10 DEF DropUnopened, Handled, WillAck, Fault, TypeOK, MailInv, Envelopes
<1>11. ASSUME NEW i \in relay, Expire(i) PROVE MailInv'
  BY <1>11 DEF Expire, Fault, TypeOK, MailInv, Envelopes
<1>12. ASSUME NEW b \in Boxes, Crash(b) PROVE MailInv'
  BY <1>12 DEF Crash, Fault, TypeOK, MailInv, Envelopes
<1>13. CASE requestRemote \/ respondRemoteAccept \/ respondRemoteReject \/ withdraw \/ UNCHANGED vars
  BY <1>13 DEF TypeOK, MailInv, Envelopes, requestRemote, respondRemoteAccept,
       respondRemoteReject, withdraw, Fly, Fault, SetStatus, Break, DeleteRow
<1>14. ASSUME NEW b \in Boxes, block(b) \/ disconnect(b) \/ PullNothing(b) \/ federationAcceptOutbox(b) \/ WindowPasses(b)
      PROVE MailInv'
  BY <1>14 DEF TypeOK, MailInv, Envelopes, block, disconnect, PullNothing,
       federationAcceptOutbox, WindowPasses, SetStatus, Break, DeleteRow, SelectOutbox, Fly
<1>15. ASSUME NEW f \in flight, DirectPost(f)
      PROVE MailInv'
  BY <1>15 DEF TypeOK, MailInv, Envelopes, DirectPost, Arrived, Move, Burn
<1>16. ASSUME NEW b \in Boxes, NEW m \in sweep[b], federationOutbox(b, m)
      PROVE MailInv'
  BY <1>16 DEF TypeOK, MailInv, Envelopes, federationOutbox, Attempt, Fly
<1>17. QED
  BY <1>1, <1>2, <1>3, <1>4, <1>5, <1>6, <1>7, <1>8, <1>9, <1>10, <1>11, <1>12, <1>13,
       <1>14, <1>15, <1>16 DEF Next, Owners, Transit, LoopStep, World

LEMMA FlightKept ==
  ASSUME IInv, [Next]_vars
  PROVE  FlightInv'
<1> USE DEF rxVars, txVars, netVars, loopVars, vars
<1> TypeOK /\ FlightInv /\ SweepInv
  BY DEF IInv
<1>1. CASE requestRemote
  BY <1>1, Senders DEF requestRemote, Fly, FlightInv
<1>2. CASE respondRemoteAccept
  BY <1>2, Senders DEF respondRemoteAccept, Fly, Fault, FlightInv
<1>3. ASSUME NEW m \in Dms, sendMessage(m) PROVE FlightInv'
  BY <1>3 DEF sendMessage, Fly, FlightInv, TypeOK
<1>4. ASSUME NEW f \in flight, enqueueSealed(f) PROVE FlightInv'
  <2>1. out' = out /\ (Arrived(f) \/ Move(f, "direct"))
    BY <1>4 DEF enqueueSealed
  <2>2. PICK h : /\ flight' \subseteq (flight \ {f}) \cup {h}
                 /\ h.p = f.p /\ h.n = f.n /\ h.by = f.by
    BY <2>1, MovedDelivery
  <2>3. QED
    BY <2>1, <2>2 DEF FlightInv
<1>5. ASSUME NEW f \in flight, DirectPost(f) PROVE FlightInv'
  <2>1. out' = out /\ (Arrived(f) \/ Move(f, "direct"))
    BY <1>5 DEF DirectPost
  <2>2. PICK h : /\ flight' \subseteq (flight \ {f}) \cup {h}
                 /\ h.p = f.p /\ h.n = f.n /\ h.by = f.by
    BY <2>1, MovedDelivery
  <2>3. QED
    BY <2>1, <2>2 DEF FlightInv
<1>6. ASSUME NEW f \in flight, DirectAnswerLost(f) PROVE FlightInv'
  BY <1>6 DEF DirectAnswerLost, Fails, Fault, Burn, FlightInv, TypeOK
<1>7. ASSUME NEW f \in flight, DirectRefused(f) PROVE FlightInv'
  BY <1>7 DEF DirectRefused, Fails, Burn, FlightInv, TypeOK
<1>8. ASSUME NEW f \in flight, Unreachable(f) PROVE FlightInv'
  BY <1>8 DEF Unreachable, Fails, FlightInv, TypeOK
<1>9. ASSUME NEW f \in flight, Delivered(f) PROVE FlightInv'
  BY <1>9 DEF Delivered, FlightInv, TypeOK
<1>10. ASSUME NEW b \in Boxes, federationAcceptOutbox(b) PROVE FlightInv'
  BY <1>10, Senders DEF federationAcceptOutbox, Fly, FlightInv, SweepInv, TypeOK
<1>11. ASSUME NEW b \in Boxes, NEW m \in sweep[b], federationOutbox(b, m) PROVE FlightInv'
  BY <1>11 DEF federationOutbox, Attempt, Fly, FlightInv, SweepInv, Flying, TypeOK
<1>12. ASSUME NEW b \in Boxes, Crash(b) PROVE FlightInv'
  BY <1>12 DEF Crash, Fault, FlightInv
<1>13. CASE respondRemoteReject \/ withdraw \/ UNCHANGED vars
  BY <1>13 DEF FlightInv, respondRemoteReject, withdraw, SetStatus, Break, DeleteRow
<1>14. ASSUME NEW b \in Boxes, block(b) \/ disconnect(b) \/ Pull(b) \/ PullNothing(b) \/ Ack(b) \/ WindowPasses(b)
      PROVE FlightInv'
  BY <1>14 DEF FlightInv, block, disconnect, Pull, PullNothing, Ack, WindowPasses,
       SetStatus, Break, DeleteRow, SelectOutbox, Fault
<1>15. ASSUME NEW b \in Boxes, NEW i \in batch[b], handleOne(b, i) \/ DropUnopened(b, i)
      PROVE FlightInv'
  BY <1>15 DEF FlightInv, handleOne, DropUnopened, Handled, WillAck, Fault
<1>16. ASSUME NEW i \in relay, Expire(i)
      PROVE FlightInv'
  BY <1>16 DEF FlightInv, Expire, Fault
<1>17. QED
  BY <1>1, <1>2, <1>3, <1>4, <1>5, <1>6, <1>7, <1>8, <1>9, <1>10, <1>11, <1>12, <1>13,
       <1>14, <1>15, <1>16 DEF Next, Owners, Transit, LoopStep, World

LEMMA SweepKept ==
  ASSUME IInv, [Next]_vars
  PROVE  SweepInv'
<1> USE DEF rxVars, txVars, netVars, loopVars, vars
<1> TypeOK /\ FlightInv /\ SweepInv
  BY DEF IInv
<1>1. CASE requestRemote
  BY <1>1, Senders DEF requestRemote, Fly, SweepInv, Flying, Sweeping, TypeOK
<1>2. CASE respondRemoteAccept
  BY <1>2, Senders DEF respondRemoteAccept, Fly, Fault, SweepInv, Flying, Sweeping, TypeOK
<1>3. ASSUME NEW m \in Dms, sendMessage(m) PROVE SweepInv'
  BY <1>3, Senders DEF sendMessage, Fly, SweepInv, Flying, Sweeping, TypeOK
<1>4. ASSUME NEW f \in flight, enqueueSealed(f) PROVE SweepInv'
  <2>1. UNCHANGED <<out, sweep, tries, loop>> /\ (Arrived(f) \/ Move(f, "direct"))
    BY <1>4 DEF enqueueSealed
  <2>2. PICK h : /\ flight' \subseteq (flight \ {f}) \cup {h}
                 /\ h.p = f.p /\ h.n = f.n /\ h.by = f.by
    BY <2>1, MovedDelivery
  <2>3. QED
    BY <2>1, <2>2 DEF SweepInv, Flying, Sweeping
<1>5. ASSUME NEW f \in flight, DirectPost(f) PROVE SweepInv'
  <2>1. UNCHANGED <<out, sweep, tries, loop>> /\ (Arrived(f) \/ Move(f, "direct"))
    BY <1>5 DEF DirectPost
  <2>2. PICK h : /\ flight' \subseteq (flight \ {f}) \cup {h}
                 /\ h.p = f.p /\ h.n = f.n /\ h.by = f.by
    BY <2>1, MovedDelivery
  <2>3. QED
    BY <2>1, <2>2 DEF SweepInv, Flying, Sweeping
<1>6. ASSUME NEW f \in flight, DirectAnswerLost(f) PROVE SweepInv'
  BY <1>6 DEF DirectAnswerLost, Fails, Fault, Burn, SweepInv, Flying, Sweeping, TypeOK
<1>7. ASSUME NEW f \in flight, DirectRefused(f) PROVE SweepInv'
  BY <1>7 DEF DirectRefused, Fails, Burn, SweepInv, Flying, Sweeping, TypeOK
<1>8. ASSUME NEW f \in flight, Unreachable(f) PROVE SweepInv'
  BY <1>8 DEF Unreachable, Fails, SweepInv, Flying, Sweeping, TypeOK
<1>9. ASSUME NEW f \in flight, Delivered(f) PROVE SweepInv'
  BY <1>9 DEF Delivered, SweepInv, Flying, Sweeping, TypeOK
<1>10. ASSUME NEW b \in Boxes, Pull(b) PROVE SweepInv'
  BY <1>10 DEF Pull, SweepInv, Flying, Sweeping, TypeOK
<1>11. ASSUME NEW b \in Boxes, PullNothing(b) PROVE SweepInv'
  <2>1. ~Sweeping(b)
    BY <1>11 DEF SweepInv, PullNothing
  <2>2. \A m \in FailedDms(b) : ~Flying(m)
    BY <2>1, Senders, FlightsOK DEF FailedDms, FlightInv, Flying, Sweeping
  <2>3. UNCHANGED <<out, tries, flight>> /\ SelectOutbox(b)
    BY <1>11 DEF PullNothing
  <2>4. QED
    BY <2>2, <2>3 DEF SelectOutbox, FailedDms, SweepInv, Flying, Sweeping, TypeOK
<1>12. ASSUME NEW b \in Boxes, Ack(b) PROVE SweepInv'
  <2>1. ~Sweeping(b)
    BY <1>12 DEF SweepInv, Ack
  <2>2. \A m \in FailedDms(b) : ~Flying(m)
    BY <2>1, Senders, FlightsOK DEF FailedDms, FlightInv, Flying, Sweeping
  <2>3. UNCHANGED <<out, tries, flight>> /\ SelectOutbox(b)
    BY <1>12 DEF Ack
  <2>4. QED
    BY <2>2, <2>3 DEF SelectOutbox, FailedDms, SweepInv, Flying, Sweeping, TypeOK
<1>13. ASSUME NEW b \in Boxes, federationAcceptOutbox(b) PROVE SweepInv'
  BY <1>13, Senders DEF federationAcceptOutbox, Fly, AcceptDue, SweepInv, Flying, Sweeping,
       TypeOK
<1>14. ASSUME NEW b \in Boxes, NEW m \in sweep[b], federationOutbox(b, m) PROVE SweepInv'
  BY <1>14, Senders DEF federationOutbox, Attempt, Fly, SweepInv, Flying, Sweeping, TypeOK
<1>15. ASSUME NEW b \in Boxes, Crash(b) PROVE SweepInv'
  BY <1>15 DEF Crash, Fault, SweepInv, Flying, Sweeping, TypeOK
<1>16. CASE respondRemoteReject \/ withdraw \/ UNCHANGED vars
  BY <1>16 DEF SweepInv, Flying, Sweeping, respondRemoteReject, withdraw, SetStatus, Break,
       DeleteRow
<1>17. ASSUME NEW b \in Boxes, block(b) \/ disconnect(b) \/ WindowPasses(b)
      PROVE SweepInv'
  BY <1>17 DEF SweepInv, Flying, Sweeping, block, disconnect, WindowPasses, SetStatus,
       Break, DeleteRow
<1>18. ASSUME NEW b \in Boxes, NEW i \in batch[b], handleOne(b, i) \/ DropUnopened(b, i)
      PROVE SweepInv'
  BY <1>18 DEF SweepInv, Flying, Sweeping, handleOne, DropUnopened, Handled, WillAck, Fault
<1>19. ASSUME NEW i \in relay, Expire(i)
      PROVE SweepInv'
  BY <1>19 DEF SweepInv, Flying, Sweeping, Expire, Fault
<1>20. QED
  BY <1>1, <1>2, <1>3, <1>4, <1>5, <1>6, <1>7, <1>8, <1>9, <1>10, <1>11, <1>12, <1>13,
       <1>14, <1>15, <1>16, <1>17, <1>18, <1>19 DEF Next, Owners, Transit, LoopStep, World

LEMMA KeptKept ==
  ASSUME IInv, [Next]_vars
  PROVE  KeptInv'
<1> USE DEF rxVars, txVars, netVars, loopVars, vars
<1> TypeOK /\ MailInv /\ KeptInv
  BY DEF IInv
<1>1. CASE requestRemote
  BY <1>1, Senders DEF requestRemote, Fly, KeptInv, Kept, Held
<1>2. CASE respondRemoteAccept
  BY <1>2, Senders DEF respondRemoteAccept, Fly, Fault, KeptInv, Kept, Held
<1>3. CASE withdraw
  BY <1>3 DEF withdraw, DeleteRow, Break, KeptInv, Kept, Held
<1>4. ASSUME NEW b \in Boxes, disconnect(b) PROVE KeptInv'
  BY <1>4 DEF disconnect, DeleteRow, Break, KeptInv, Kept, Held
<1>5. ASSUME NEW m \in Dms, sendMessage(m) PROVE KeptInv'
  BY <1>5 DEF sendMessage, Fly, KeptInv, Kept, Held, TypeOK
<1>6. ASSUME NEW f \in flight, enqueueSealed(f) PROVE KeptInv'
  <2>1. /\ \A i \in Envelopes : mail'[i] = mail[i]
        /\ mail'[Len(mail) + 1].p = f.p /\ relay' = relay \cup {Len(mail) + 1}
    BY <1>6, Sealed
  <2>2. UNCHANGED <<copies, shown, lost, out, seen, acks>>
    BY <1>6 DEF enqueueSealed
  <2>3. relay \subseteq Envelopes /\ \A b \in Boxes : seen[b] \cup acks[b] \subseteq Envelopes
    BY DEF MailInv
  <2>4. Kept \subseteq Kept' /\ (f.p \in Dms => f.p \in Kept')
    BY <2>1, <2>2, <2>3 DEF Kept, Held
  <2>5. \A g \in flight' : g \in flight \/ g.p = f.p
    BY <1>6, MovedDelivery DEF enqueueSealed
  <2>6. QED
    BY <2>1, <2>2, <2>3, <2>4, <2>5 DEF KeptInv
<1>7. ASSUME NEW f \in flight, DirectPost(f) PROVE KeptInv'
  <2>1. /\ f.p \in Payloads /\ Receive(f.p)
        /\ UNCHANGED <<mail, relay, lost, seen, acks>>
    BY <1>7, FlightsOK DEF DirectPost
  <2>2. IF f.p \in Dms THEN copies' = [copies EXCEPT ![f.p] = 1] /\ shown' = shown \cup {f.p}
        ELSE copies' = copies /\ shown' = shown
    BY <2>1, Received
  <2>3. \A g \in flight' : g \in flight \/ g.p = f.p
    BY <1>7, MovedDelivery DEF DirectPost
  <2>4. out' = out
    BY <1>7 DEF DirectPost
  <2>5. Kept \subseteq Kept' /\ shown \subseteq shown' /\ (f.p \in Dms => f.p \in Kept')
    BY <2>1, <2>2 DEF Kept, Held
  <2>6. \A m \in Dms : copies'[m] \in {0, 1} /\ (copies'[m] = 1 => m \in shown')
    BY <2>2 DEF KeptInv, TypeOK
  <2>7. QED
    BY <2>1, <2>3, <2>4, <2>5, <2>6 DEF KeptInv
<1>8. ASSUME NEW f \in flight, DirectAnswerLost(f) PROVE KeptInv'
  <2>1. /\ f.p \in Payloads /\ Receive(f.p)
        /\ UNCHANGED <<mail, relay, lost, seen, acks>>
    BY <1>8, FlightsOK DEF DirectAnswerLost
  <2>2. IF f.p \in Dms THEN copies' = [copies EXCEPT ![f.p] = 1] /\ shown' = shown \cup {f.p}
        ELSE copies' = copies /\ shown' = shown
    BY <2>1, Received
  <2>3. flight' \subseteq flight /\ \A m \in Dms : out'[m] = "delivered" => out[m] = "delivered"
    BY <1>8 DEF DirectAnswerLost, Fails
  <2>4. Kept \subseteq Kept' /\ shown \subseteq shown'
    BY <2>1, <2>2 DEF Kept, Held
  <2>5. \A m \in Dms : copies'[m] \in {0, 1} /\ (copies'[m] = 1 => m \in shown')
    BY <2>2 DEF KeptInv, TypeOK
  <2>6. QED
    BY <2>1, <2>3, <2>4, <2>5 DEF KeptInv
<1>9. ASSUME NEW f \in flight, DirectRefused(f) PROVE KeptInv'
  BY <1>9 DEF DirectRefused, Fails, Burn, KeptInv, Kept, Held
<1>10. ASSUME NEW f \in flight, Unreachable(f) PROVE KeptInv'
  BY <1>10 DEF Unreachable, Fails, KeptInv, Kept, Held
<1>11. ASSUME NEW f \in flight, Delivered(f) PROVE KeptInv'
  BY <1>11 DEF Delivered, KeptInv, Kept, Held
<1>12. ASSUME NEW b \in Boxes, Ack(b) PROVE KeptInv'
  <2>1. relay' = relay \ acks[b] \/ relay' = relay
    BY <1>12 DEF Ack
  <2>2. UNCHANGED <<copies, shown, lost, out, seen, mail, flight>> /\ acks' = [acks EXCEPT ![b] = {}]
    BY <1>12 DEF Ack, SelectOutbox
  <2>3. \A i \in relay \ relay' : mail[i].p \in Dms => mail[i].p \in shown \cup lost
    BY <2>1 DEF KeptInv
  <2>4. Dms \cap Kept \subseteq Kept'
    BY <2>2, <2>3 DEF Kept, Held
  <2>5. QED
    BY <2>2, <2>4 DEF KeptInv, TypeOK
<1>13. ASSUME NEW b \in Boxes, federationAcceptOutbox(b) PROVE KeptInv'
  BY <1>13 DEF federationAcceptOutbox, Fly, KeptInv, Kept, Held
<1>14. ASSUME NEW b \in Boxes, NEW m \in sweep[b], federationOutbox(b, m) PROVE KeptInv'
  BY <1>14 DEF federationOutbox, Attempt, Fly, KeptInv, Kept, Held
<1>15. ASSUME NEW b \in Boxes, NEW i \in batch[b], handleOne(b, i) PROVE KeptInv'
  <2>1. /\ mail[i].p \in Payloads /\ UNCHANGED <<mail, relay, lost, out, flight>>
        /\ i \in Envelopes
    BY <1>15, Enveloped DEF handleOne, MailInv
  <2>2. \/ /\ copies' = copies /\ shown' = shown /\ seen' = seen
           /\ acks' = acks \/ (i \in seen[b] /\ acks' = [acks EXCEPT ![b] = acks[b] \cup {i}])
        \/ /\ Receive(mail[i].p)
           /\ \/ seen' = seen /\ acks' = acks
              \/ /\ seen' = [seen EXCEPT ![b] = seen[b] \cup {i}]
                 /\ acks' = [acks EXCEPT ![b] = acks[b] \cup {i}]
    BY <1>15 DEF handleOne, WillAck
  <2>3. CASE copies' = copies /\ shown' = shown /\ seen' = seen
    <3>1. \A c \in Boxes : \A j \in acks'[c] : j \in acks[c] \/ (c = b /\ j = i /\ i \in seen[b])
      BY <2>2, <2>3 DEF TypeOK
    <3>2. QED
      BY <2>1, <2>3, <3>1 DEF KeptInv, Kept, Held
  <2>4. CASE Receive(mail[i].p)
    <3>1. IF mail[i].p \in Dms
            THEN copies' = [copies EXCEPT ![mail[i].p] = 1] /\ shown' = shown \cup {mail[i].p}
            ELSE copies' = copies /\ shown' = shown
      BY <2>1, <2>4, Received
    <3>2. \A m \in Dms : copies'[m] \in {0, 1} /\ (copies'[m] = 1 => m \in shown')
      BY <3>1 DEF KeptInv, TypeOK
    <3>3. Kept \subseteq Kept' /\ shown \subseteq shown'
      BY <2>1, <3>1 DEF Kept, Held
    <3>4. \A c \in Boxes : \A j \in seen'[c] : j \in seen[c] \/ j = i
      <4>1. seen' = seen \/ seen' = [seen EXCEPT ![b] = seen[b] \cup {i}]
        BY <2>2
      <4>2. seen'[b] \subseteq seen[b] \cup {i} /\ \A c \in Boxes \ {b} : seen'[c] = seen[c]
        BY <4>1 DEF TypeOK
      <4>3. QED
        BY <4>2
    <3>5. \A c \in Boxes : \A j \in acks'[c] : j \in acks[c] \/ j \in seen'[c]
      <4>1. CASE acks' = acks
        BY <4>1
      <4>2. CASE acks' # acks
        <5>1. (i \in seen[b] /\ seen' = seen) \/ seen' = [seen EXCEPT ![b] = seen[b] \cup {i}]
          BY <2>2, <4>2
        <5>2. i \in seen'[b]
          BY <5>1 DEF TypeOK
        <5>3. acks'[b] \subseteq acks[b] \cup {i} /\ \A c \in Boxes \ {b} : acks'[c] = acks[c]
          BY <2>2, <4>2 DEF TypeOK
        <5>4. QED
          BY <5>2, <5>3
      <4>3. QED
        BY <2>2, <4>1, <4>2
    <3>6. \A c \in Boxes : seen[c] \subseteq seen'[c]
      BY <2>2, <2>4 DEF TypeOK
    <3>7. /\ \A c \in Boxes : \A j \in seen'[c] : mail[j].p \in Dms => mail[j].p \in shown'
          /\ \A c \in Boxes : \A j \in acks'[c] : j \in seen'[c] \/ mail[j].p \in lost
      BY <3>1, <3>3, <3>4, <3>5, <3>6 DEF KeptInv
    <3>8. QED
      BY <2>1, <3>2, <3>3, <3>7 DEF KeptInv
  <2>5. QED
    BY <2>2, <2>3, <2>4
<1>16. ASSUME NEW b \in Boxes, NEW i \in batch[b], DropUnopened(b, i) PROVE KeptInv'
  <2>1. /\ UNCHANGED <<mail, relay, copies, shown, out, flight, seen>>
        /\ acks' = [acks EXCEPT ![b] = acks[b] \cup {i}] /\ lost' = lost \cup {mail[i].p}
    BY <1>16 DEF DropUnopened, WillAck
  <2>2. QED
    BY <2>1 DEF KeptInv, Kept, Held, TypeOK
<1>17. ASSUME NEW i \in relay, Expire(i) PROVE KeptInv'
  BY <1>17 DEF Expire, Fault, KeptInv, Kept, Held
<1>18. ASSUME NEW b \in Boxes, Crash(b) PROVE KeptInv'
  BY <1>18 DEF Crash, Fault, KeptInv, Kept, Held, TypeOK
<1>19. CASE respondRemoteReject \/ UNCHANGED vars
  BY <1>19 DEF KeptInv, Kept, Held, respondRemoteReject, SetStatus, Break
<1>20. ASSUME NEW b \in Boxes, block(b) \/ Pull(b) \/ PullNothing(b) \/ WindowPasses(b)
      PROVE KeptInv'
  BY <1>20 DEF KeptInv, Kept, Held, block, Pull, PullNothing, WindowPasses, SetStatus,
       Break, SelectOutbox
<1>21. QED
  BY <1>1, <1>2, <1>3, <1>4, <1>5, <1>6, <1>7, <1>8, <1>9, <1>10, <1>11, <1>12, <1>13,
       <1>14, <1>15, <1>16, <1>17, <1>18, <1>19, <1>20 DEF Next, Owners, Transit, LoopStep,
       World

LEMMA AcceptKept ==
  ASSUME IInv, [Next]_vars
  PROVE  AcceptInv'
<1> USE DEF rxVars, txVars, netVars, loopVars, vars
<1> TypeOK /\ MailInv /\ KeptInv /\ AcceptInv
  BY DEF IInv
<1>1. CASE requestRemote
  BY <1>1, Senders, FederationAssumption DEF requestRemote, Fly, AskerWaits, AcceptSealed,
       AcceptInv, TypeOK, Boxes
<1>2. CASE respondRemoteAccept
  BY <1>2, Senders DEF respondRemoteAccept, Fly, Fault, AskerWaits, AcceptSealed, AcceptInv,
       TypeOK, Boxes
<1>3. CASE respondRemoteReject
  BY <1>3 DEF respondRemoteReject, SetStatus, Break, AskerWaits, AcceptSealed, AcceptInv,
       TypeOK, Boxes
<1>4. CASE withdraw
  BY <1>4 DEF withdraw, DeleteRow, Break, AskerWaits, AcceptSealed, AcceptInv, TypeOK, Boxes
<1>5. ASSUME NEW b \in Boxes, block(b) PROVE AcceptInv'
  BY <1>5 DEF block, SetStatus, Break, AskerWaits, AcceptSealed, AcceptInv, TypeOK, Boxes
<1>6. ASSUME NEW b \in Boxes, disconnect(b) PROVE AcceptInv'
  BY <1>6 DEF disconnect, DeleteRow, Break, AskerWaits, AcceptSealed, AcceptInv, TypeOK, Boxes
<1>7. ASSUME NEW m \in Dms, sendMessage(m) PROVE AcceptInv'
  BY <1>7, Senders DEF sendMessage, Fly, AskerWaits, AcceptSealed, AcceptInv
<1>8. ASSUME NEW f \in flight, enqueueSealed(f) PROVE AcceptInv'
  <2>1. /\ \A i \in Envelopes : mail'[i] = mail[i] /\ Len(mail) + 1 \notin Envelopes
        /\ mail'[Len(mail) + 1].p = f.p /\ relay' = relay \cup {Len(mail) + 1}
    BY <1>8, Sealed
  <2>2. UNCHANGED <<conn, row, owed, ackTries, answered, lost, seen>>
    BY <1>8 DEF enqueueSealed
  <2>3. relay \subseteq Envelopes /\ seen["init"] \subseteq Envelopes
    BY DEF MailInv, Boxes
  <2>4. (AcceptSealed => AcceptSealed') /\ (f.p = "accept" => AcceptSealed')
    BY <2>1, <2>2, <2>3 DEF AcceptSealed
  <2>5. \A g \in flight' : g \in flight \/ (g.p = f.p /\ g.n = f.n)
    BY <1>8, MovedDelivery DEF enqueueSealed
  <2>6. QED
    BY <2>2, <2>4, <2>5 DEF AcceptInv, AskerWaits
<1>9. ASSUME NEW f \in flight, DirectPost(f) PROVE AcceptInv'
  <2>1. f.p \in Payloads /\ Receive(f.p)
    BY <1>9, FlightsOK DEF DirectPost
  <2>2. /\ row'["init"] = row["init"]
        /\ conn'["init"] = IF f.p = "accept" /\ conn["init"] = "pending" THEN "accepted"
                           ELSE conn["init"]
        /\ \/ conn'["resp"] = conn["resp"] /\ row'["resp"] = row["resp"]
           \/ /\ conn["resp"] = "none" /\ conn'["resp"] = "pending"
              /\ row'["resp"] = row["resp"] + 1
    BY <2>1, Received
  <2>3. row["resp"] \in Nat /\ \A g \in flight : g.n \in Nat
    BY FlightsOK DEF TypeOK, Boxes
  <2>4. UNCHANGED <<owed, ackTries, answered, lost, seen, mail, relay>>
    BY <1>9 DEF DirectPost
  <2>5. \A g \in flight' : g \in flight \/ (g.p = f.p /\ g.n = f.n)
    BY <1>9, MovedDelivery DEF DirectPost
  <2>6. QED
    BY <2>2, <2>3, <2>4, <2>5 DEF AcceptInv, AskerWaits, AcceptSealed
<1>10. ASSUME NEW f \in flight, DirectAnswerLost(f) PROVE AcceptInv'
  <2>1. f.p \in Payloads /\ Receive(f.p)
    BY <1>10, FlightsOK DEF DirectAnswerLost
  <2>2. /\ row'["init"] = row["init"]
        /\ conn'["init"] = IF f.p = "accept" /\ conn["init"] = "pending" THEN "accepted"
                           ELSE conn["init"]
        /\ \/ conn'["resp"] = conn["resp"] /\ row'["resp"] = row["resp"]
           \/ /\ conn["resp"] = "none" /\ conn'["resp"] = "pending"
              /\ row'["resp"] = row["resp"] + 1
    BY <2>1, Received
  <2>3. row["resp"] \in Nat /\ \A g \in flight : g.n \in Nat
    BY FlightsOK DEF TypeOK, Boxes
  <2>4. UNCHANGED <<owed, ackTries, answered, lost, seen, mail, relay>> /\ flight' \subseteq flight
    BY <1>10 DEF DirectAnswerLost, Fails
  <2>5. QED
    BY <2>2, <2>3, <2>4 DEF AcceptInv, AskerWaits, AcceptSealed
<1>11. ASSUME NEW f \in flight, DirectRefused(f) PROVE AcceptInv'
  BY <1>11 DEF DirectRefused, Fails, Burn, AskerWaits, AcceptSealed, AcceptInv
<1>12. ASSUME NEW f \in flight, Unreachable(f) PROVE AcceptInv'
  BY <1>12 DEF Unreachable, Fails, AskerWaits, AcceptSealed, AcceptInv, TypeOK, Boxes
<1>13. ASSUME NEW f \in flight, Delivered(f) PROVE AcceptInv'
  BY <1>13 DEF Delivered, AskerWaits, AcceptSealed, AcceptInv
<1>14. ASSUME NEW b \in Boxes, Ack(b) PROVE AcceptInv'
  <2>1. relay' = relay \ acks[b] \/ relay' = relay
    BY <1>14 DEF Ack
  <2>2. UNCHANGED <<conn, row, owed, ackTries, answered, lost, seen, mail, flight>>
    BY <1>14 DEF Ack, SelectOutbox
  <2>3. \A i \in acks[b] : mail[i].p = "accept" => b = "init"
    BY Senders DEF MailInv
  <2>4. AcceptSealed => AcceptSealed' \/ "accept" \in lost
    BY <2>1, <2>2, <2>3 DEF AcceptSealed, KeptInv
  <2>5. QED
    BY <2>2, <2>4 DEF AcceptInv, AskerWaits
<1>15. ASSUME NEW b \in Boxes, federationAcceptOutbox(b) PROVE AcceptInv'
  <2>1. UNCHANGED <<conn, row, owed, answered, lost, seen, mail, relay>>
    BY <1>15 DEF federationAcceptOutbox
  <2>2. ackTries = OUTBOX_MAX_ATTEMPTS => ackTries' = ackTries
    BY <1>15, FederationAssumption DEF federationAcceptOutbox, AcceptDue, TypeOK
  <2>3. \/ flight' = flight
        \/ /\ conn["resp"] = "accepted"
           /\ flight' = flight \cup
                {[p |-> "accept", n |-> row["resp"], by |-> "sweep", at |-> "start"]}
    BY <1>15 DEF federationAcceptOutbox, AcceptDue, Fly
  <2>4. row["resp"] \in Nat
    BY DEF TypeOK, Boxes
  <2>5. QED
    BY <2>1, <2>2, <2>3, <2>4 DEF AcceptInv, AskerWaits, AcceptSealed
<1>16. ASSUME NEW b \in Boxes, NEW m \in sweep[b], federationOutbox(b, m) PROVE AcceptInv'
  <2>1. m # "accept"
    BY Senders DEF TypeOK
  <2>2. QED
    BY <1>16, <2>1 DEF federationOutbox, Attempt, Fly, AskerWaits, AcceptSealed, AcceptInv
<1>17. ASSUME NEW b \in Boxes, NEW i \in batch[b], handleOne(b, i) PROVE AcceptInv'
  <2>1. /\ mail[i].p \in Payloads /\ i \in Envelopes
        /\ UNCHANGED <<owed, ackTries, answered, mail, relay, lost, flight>>
    BY <1>17, Enveloped DEF handleOne, MailInv
  <2>2. \/ conn' = conn /\ row' = row /\ seen' = seen
        \/ /\ Receive(mail[i].p)
           /\ seen' = seen \/ seen' = [seen EXCEPT ![b] = seen[b] \cup {i}]
    BY <1>17 DEF handleOne
  <2>3. CASE conn' = conn /\ row' = row /\ seen' = seen
    BY <2>1, <2>3 DEF AskerWaits, AcceptSealed, AcceptInv
  <2>4. CASE Receive(mail[i].p) /\ ~(conn' = conn /\ row' = row /\ seen' = seen)
    <3>1. /\ row'["init"] = row["init"]
          /\ conn'["init"] = IF mail[i].p = "accept" /\ conn["init"] = "pending" THEN "accepted"
                             ELSE conn["init"]
          /\ \/ conn'["resp"] = conn["resp"] /\ row'["resp"] = row["resp"]
             \/ /\ conn["resp"] = "none" /\ conn'["resp"] = "pending"
                /\ row'["resp"] = row["resp"] + 1
      BY <2>1, <2>4, Received
    <3>2. row["resp"] \in Nat /\ \A g \in flight : g.n \in Nat
      BY FlightsOK DEF TypeOK, Boxes
    <3>3. AcceptSealed => AcceptSealed' \/ mail[i].p = "accept"
      BY <2>1, <2>2, <2>4 DEF AcceptSealed, TypeOK, Boxes
    <3>4. QED
      BY <2>1, <3>1, <3>2, <3>3 DEF AcceptInv, AskerWaits
  <2>5. QED
    BY <2>2, <2>3, <2>4
<1>18. ASSUME NEW b \in Boxes, NEW i \in batch[b], DropUnopened(b, i) PROVE AcceptInv'
  BY <1>18 DEF DropUnopened, Handled, WillAck, Fault, AskerWaits, AcceptSealed, AcceptInv
<1>19. ASSUME NEW i \in relay, Expire(i) PROVE AcceptInv'
  BY <1>19 DEF Expire, Fault, AskerWaits, AcceptSealed, AcceptInv
<1>20. ASSUME NEW b \in Boxes, Crash(b) PROVE AcceptInv'
  BY <1>20 DEF Crash, Fault, AskerWaits, AcceptSealed, AcceptInv
<1>21. CASE UNCHANGED vars
  BY <1>21 DEF AskerWaits, AcceptSealed, AcceptInv
<1>22. ASSUME NEW b \in Boxes, Pull(b) \/ PullNothing(b) \/ WindowPasses(b)
      PROVE AcceptInv'
  BY <1>22 DEF AskerWaits, AcceptSealed, AcceptInv, Pull, PullNothing, WindowPasses,
       SelectOutbox
<1>23. QED
  BY <1>1, <1>2, <1>3, <1>4, <1>5, <1>6, <1>7, <1>8, <1>9, <1>10, <1>11, <1>12, <1>13,
       <1>14, <1>15, <1>16, <1>17, <1>18, <1>19, <1>20, <1>21, <1>22 DEF Next, Owners,
       Transit, LoopStep, World

-----------------------------------------------------------------------------
(* The theorems about the invariant.                                        *)

LEMMA InvInit == Init => IInv
<1> SUFFICES ASSUME Init PROVE IInv
  OBVIOUS
<1> USE DEF Init
<1>1. Len(mail) = 0 /\ Envelopes = {} /\ mail \in Seq([to : Boxes, p : Payloads, n : 0..MaxRows])
  BY EmptySeq DEF Envelopes
<1>2. TypeOK
  <2>1. owed \in BOOLEAN
    BY Zenon
  <2>2. RowTypes /\ SendTypes
    BY <2>1, FederationAssumption DEF RowTypes, SendTypes, Statuses
  <2>3. ThreadTypes /\ MailTypes /\ flight \subseteq Flights /\ LoopTypes /\ CountTypes
    BY <1>1, FederationAssumption DEF ThreadTypes, MailTypes, LoopTypes, CountTypes
  <2>4. QED
    BY <2>2, <2>3, TypeParts
<1>3. MailInv /\ FlightInv /\ SweepInv
  BY <1>1 DEF MailInv, FlightInv, SweepInv
<1>4. KeptInv /\ AcceptInv
  BY DEF KeptInv, AcceptInv, AskerWaits, Boxes
<1>5. QED
  BY <1>2, <1>3, <1>4 DEF IInv

LEMMA InvStep == IInv /\ [Next]_vars => IInv'
BY TypeStep, MailKept, FlightKept, SweepKept, KeptKept, AcceptKept DEF IInv

(* The invariant the proofs rest on holds in every behaviour.               *)
THEOREM Invariance == Spec => []IInv
BY InvInit, InvStep, PTL DEF Spec

(* While the asked box has accepted and the asking one waits, the           *)
(* acceptance is owed, under way or sealed in the relay, unless it was      *)
(* given up (respondRemote, federationAcceptOutbox).                        *)
THEOREM AcceptanceArrives == Spec => []FederationInv
<1>1. IInv => FederationInv
  <2>1. IInv => (ackTries # OUTBOX_MAX_ATTEMPTS => ackTries < OUTBOX_MAX_ATTEMPTS)
    BY FederationAssumption DEF IInv, TypeOK
  <2>2. QED
    BY <2>1 DEF IInv, AcceptInv, AskerWaits, AcceptSealed, FederationInv, AcceptIsOnItsWay,
                AcceptUnderWay
<1>2. QED
  BY <1>1, Invariance, PTL

LEMMA BlockKept ==
  ASSUME TypeOK, MailInv, NEW c \in Boxes, conn[c] = "blocked", [Next]_vars
  PROVE  conn'[c] = "blocked"
<1> USE DEF rxVars, txVars, netVars, loopVars, vars
<1>1. ASSUME NEW f \in flight, DirectPost(f) PROVE conn'[c] = "blocked"
  <2>1. f.p \in Payloads /\ Receive(f.p)
    BY <1>1, FlightsOK DEF DirectPost
  <2>2. QED
    BY <2>1, Received DEF Boxes
<1>2. ASSUME NEW f \in flight, DirectAnswerLost(f) PROVE conn'[c] = "blocked"
  <2>1. f.p \in Payloads /\ Receive(f.p)
    BY <1>2, FlightsOK DEF DirectAnswerLost
  <2>2. QED
    BY <2>1, Received DEF Boxes
<1>3. ASSUME NEW b \in Boxes, NEW i \in batch[b], handleOne(b, i) PROVE conn'[c] = "blocked"
  <2>1. mail[i].p \in Payloads /\ (conn' = conn \/ Receive(mail[i].p))
    BY <1>3, Enveloped DEF handleOne
  <2>2. QED
    BY <2>1, Received DEF Boxes
<1>4. CASE requestRemote \/ respondRemoteAccept \/ respondRemoteReject \/ withdraw \/ UNCHANGED vars
  BY <1>4 DEF TypeOK, requestRemote, respondRemoteAccept, respondRemoteReject, withdraw,
       Fly, Fault, SetStatus, Break, DeleteRow
<1>5. ASSUME NEW m \in Dms, sendMessage(m)
      PROVE conn'[c] = "blocked"
  BY <1>5 DEF TypeOK, sendMessage, Fly
<1>6. ASSUME NEW b \in Boxes, block(b) \/ disconnect(b) \/ Pull(b) \/ PullNothing(b) \/ Ack(b) \/ federationAcceptOutbox(b) \/ WindowPasses(b) \/ Crash(b)
      PROVE conn'[c] = "blocked"
  BY <1>6 DEF TypeOK, block, disconnect, Pull, PullNothing, Ack, federationAcceptOutbox,
       WindowPasses, Crash, SetStatus, Break, DeleteRow, SelectOutbox, Fault, Fly
<1>7. ASSUME NEW f \in flight, enqueueSealed(f) \/ DirectRefused(f) \/ Unreachable(f) \/ Delivered(f)
      PROVE conn'[c] = "blocked"
  BY <1>7 DEF TypeOK, enqueueSealed, DirectRefused, Unreachable, Delivered, Arrived, Move,
       Fault, Fails, Burn
<1>8. ASSUME NEW b \in Boxes, NEW m \in sweep[b], federationOutbox(b, m)
      PROVE conn'[c] = "blocked"
  BY <1>8 DEF TypeOK, federationOutbox, Attempt, Fly
<1>9. ASSUME NEW b \in Boxes, NEW i \in batch[b], DropUnopened(b, i)
      PROVE conn'[c] = "blocked"
  BY <1>9 DEF TypeOK, DropUnopened, Handled, WillAck, Fault
<1>10. ASSUME NEW i \in relay, Expire(i)
      PROVE conn'[c] = "blocked"
  BY <1>10 DEF TypeOK, Expire, Fault
<1>11. QED
  BY <1>1, <1>2, <1>3, <1>4, <1>5, <1>6, <1>7, <1>8, <1>9, <1>10 DEF Next, Owners, Transit,
       LoopStep, World

(* Nothing that arrives, however late or often, undoes a block.             *)
THEOREM BlocksStick == Spec => BlockSticks
<1>1. IInv /\ [Next]_vars => [\A b \in Boxes : conn[b] = "blocked" => conn'[b] = "blocked"]_vars
  BY BlockKept DEF IInv
<1>2. QED
  BY <1>1, Invariance, PTL DEF Spec, BlockSticks

-----------------------------------------------------------------------------
(* Federation implements PeerMail.                                          *)

status == [m \in Dms |-> Word(m)]
lostMail == lost \cap Dms
MailStep == [PM!Next]_(PM!vars)

LEMMA Stutters ==
  ASSUME UNCHANGED <<status, Held, copies, shown, lostMail>>
  PROVE  MailStep
BY DEF MailStep, PM!vars, status, Held, lostMail

(* Words change only where the row says something else to the owner.        *)
LEMMA SameWords ==
  ASSUME \A m \in Dms : out'[m] = out[m] \/ (out[m] \in {"sending", "failed"} /\ out'[m] = "failed")
  PROVE  UNCHANGED status
BY DEF status, Word

(* Receiving shows a message or changes nothing an owner sees.              *)
LEMMA Shows ==
  ASSUME TypeOK, KeptInv, NEW p \in Payloads, Receive(p), p \in Dms => out[p] # "none",
         UNCHANGED <<status, Held, lostMail>>
  PROVE  MailStep
<1>1. CASE p \in Dms /\ copies[p] = 0
  <2>1. copies' = [copies EXCEPT ![p] = 1] /\ shown' = shown \cup {p}
    BY <1>1, Received
  <2>2. status[p] # "none"
    BY <1>1 DEF status, Word
  <2>3. PM!Show(p)
    BY <1>1, <2>1, <2>2 DEF PM!Show, status, Held, lostMail
  <2>4. QED
    BY <1>1, <2>3 DEF MailStep, PM!Next
<1>2. CASE ~(p \in Dms /\ copies[p] = 0)
  <2>1. CASE p \in Dms
    <3>1. copies[p] = 1 /\ p \in shown
      BY <1>2, <2>1 DEF KeptInv
    <3>2. copies' = [copies EXCEPT ![p] = 1] /\ shown' = shown \cup {p}
      BY <2>1, Received
    <3>3. copies' = copies /\ shown' = shown
      BY <3>1, <3>2 DEF TypeOK
    <3>4. QED
      BY <3>3, Stutters
  <2>2. CASE p \notin Dms
    BY <2>2, Received, Stutters
  <2>3. QED
    BY <2>1, <2>2
<1>3. QED
  BY <1>1, <1>2

LEMMA StepImplements ==
  ASSUME IInv, [Next]_vars
  PROVE  MailStep
<1> USE DEF rxVars, txVars, netVars, loopVars, vars
<1> TypeOK /\ MailInv /\ FlightInv /\ KeptInv
  BY DEF IInv
<1>1. CASE respondRemoteAccept
  <2>1. UNCHANGED <<out, relay, mail, copies, shown>> /\ lostMail' = lostMail
    BY <1>1, Senders DEF respondRemoteAccept, Fly, Fault, lostMail
  <2>2. QED
    BY <2>1, Stutters DEF status, Word, Held
<1>2. CASE withdraw
  <2>1. UNCHANGED <<out, relay, mail, shown, lost>> /\ DeleteRow("init")
    BY <1>2 DEF withdraw, DeleteRow, Break
  <2>2. PM!CloseThread({m \in Dms : From[m] # "init"})
    BY <2>1 DEF DeleteRow, PM!CloseThread, status, Word, Held, lostMail
  <2>3. QED
    BY <2>2 DEF MailStep, PM!Next
<1>3. ASSUME NEW b \in Boxes, disconnect(b) PROVE MailStep
  <2>1. UNCHANGED <<out, relay, mail, shown, lost>> /\ DeleteRow(b)
    BY <1>3 DEF disconnect, DeleteRow, Break
  <2>2. PM!CloseThread({m \in Dms : From[m] # b})
    BY <2>1 DEF DeleteRow, PM!CloseThread, status, Word, Held, lostMail
  <2>3. QED
    BY <2>2 DEF MailStep, PM!Next
<1>4. ASSUME NEW m \in Dms, sendMessage(m) PROVE MailStep
  <2>1. UNCHANGED <<relay, mail, copies, shown, lost>> /\ out[m] = "none"
        /\ out' = [out EXCEPT ![m] = "sending"]
    BY <1>4 DEF sendMessage, Fly
  <2>2. PM!Send(m)
    BY <2>1 DEF PM!Send, status, Word, Held, lostMail, TypeOK
  <2>3. QED
    BY <2>2 DEF MailStep, PM!Next
<1>5. ASSUME NEW f \in flight, enqueueSealed(f) PROVE MailStep
  <2>1. /\ \A i \in Envelopes : mail'[i] = mail[i]
        /\ mail'[Len(mail) + 1].p = f.p /\ relay' = relay \cup {Len(mail) + 1}
    BY <1>5, Sealed
  <2>2. UNCHANGED <<out, copies, shown, lost>> /\ relay \subseteq Envelopes
    BY <1>5 DEF enqueueSealed, MailInv
  <2>3. Held' = Held \cup ({f.p} \cap Dms)
    BY <2>1, <2>2 DEF Held
  <2>4. CASE f.p \in Dms
    <3>1. out[f.p] # "none"
      BY <2>4 DEF FlightInv
    <3>2. PM!Hold(f.p)
      BY <2>2, <2>3, <2>4, <3>1 DEF PM!Hold, status, Word, Held, lostMail
    <3>3. QED
      BY <2>4, <3>2 DEF MailStep, PM!Next
  <2>5. CASE f.p \notin Dms
    BY <2>2, <2>3, <2>5, Stutters DEF status, Word, lostMail
  <2>6. QED
    BY <2>4, <2>5
<1>6. ASSUME NEW f \in flight, DirectPost(f) PROVE MailStep
  <2>1. /\ f.p \in Payloads /\ Receive(f.p) /\ (f.p \in Dms => out[f.p] # "none")
        /\ UNCHANGED <<out, mail, relay, lost>>
    BY <1>6, FlightsOK DEF DirectPost, FlightInv
  <2>2. UNCHANGED <<status, Held, lostMail>>
    BY <2>1 DEF status, Word, Held, lostMail
  <2>3. QED
    BY <2>1, <2>2, Shows
<1>7. ASSUME NEW f \in flight, DirectAnswerLost(f) PROVE MailStep
  <2>1. /\ f.p \in Payloads /\ Receive(f.p) /\ (f.p \in Dms => out[f.p] # "none")
        /\ UNCHANGED <<mail, relay, lost>> /\ Fails(f)
    BY <1>7, FlightsOK DEF DirectAnswerLost, FlightInv
  <2>2. \A m \in Dms : out'[m] = out[m] \/ (out[m] \in {"sending", "failed"} /\ out'[m] = "failed")
    BY <2>1 DEF Fails, FlightInv
  <2>3. UNCHANGED <<status, Held, lostMail>>
    BY <2>1, <2>2, SameWords DEF Held, lostMail
  <2>4. QED
    BY <2>1, <2>3, Shows
<1>8. ASSUME NEW f \in flight, DirectRefused(f) PROVE MailStep
  <2>1. UNCHANGED <<mail, relay, copies, shown, lost>> /\ Fails(f)
    BY <1>8 DEF DirectRefused
  <2>2. \A m \in Dms : out'[m] = out[m] \/ (out[m] \in {"sending", "failed"} /\ out'[m] = "failed")
    BY <2>1 DEF Fails, FlightInv
  <2>3. QED
    BY <2>1, <2>2, SameWords, Stutters DEF Held, lostMail
<1>9. ASSUME NEW f \in flight, Unreachable(f) PROVE MailStep
  <2>1. UNCHANGED <<mail, relay, copies, shown, lost>> /\ Fails(f)
    BY <1>9 DEF Unreachable
  <2>2. \A m \in Dms : out'[m] = out[m] \/ (out[m] \in {"sending", "failed"} /\ out'[m] = "failed")
    BY <2>1 DEF Fails, FlightInv
  <2>3. QED
    BY <2>1, <2>2, SameWords, Stutters DEF Held, lostMail
<1>10. ASSUME NEW f \in flight, Delivered(f) PROVE MailStep
  <2>1. /\ UNCHANGED <<mail, relay, copies, shown, lost>> /\ f.at = "ok"
        /\ out' = [m \in Dms |-> IF f.p = m THEN "delivered" ELSE out[m]]
    BY <1>10 DEF Delivered
  <2>2. CASE f.p \in Dms
    <3>1. status[f.p] = "sent" /\ f.p \in Held \cup shown \cup lostMail
      BY <2>1, <2>2 DEF status, Word, FlightInv, KeptInv, Kept, lostMail
    <3>2. status' = [status EXCEPT ![f.p] = "delivered"]
      BY <2>1, <2>2 DEF status, Word
    <3>3. PM!Report(f.p)
      BY <2>1, <3>1, <3>2 DEF PM!Report, status, Held, lostMail
    <3>4. QED
      BY <2>2, <3>3 DEF MailStep, PM!Next
  <2>3. CASE f.p \notin Dms
    BY <2>1, <2>3, Stutters DEF status, Word, Held, lostMail
  <2>4. QED
    BY <2>2, <2>3
<1>11. ASSUME NEW b \in Boxes, Ack(b) PROVE MailStep
  <2>1. UNCHANGED <<out, mail, copies, shown, lost>>
    BY <1>11 DEF Ack, SelectOutbox
  <2>2. relay' = relay \ acks[b] \/ relay' = relay
    BY <1>11 DEF Ack
  <2>3. \A i \in relay \ relay' : mail[i].p \in Dms => mail[i].p \in shown \cup lost
    BY <2>2 DEF KeptInv
  <2>4. Held' \subseteq Held /\ Held \ Held' \subseteq Held \cap (shown \cup lostMail)
    BY <2>1, <2>2, <2>3 DEF Held, lostMail
  <2>5. PICK S \in SUBSET Dms : S = Held \ Held'
    BY DEF Held
  <2>6. PM!Release(S)
    BY <2>1, <2>4, <2>5 DEF PM!Release, status, Word, Held, lostMail
  <2>7. QED
    BY <2>6 DEF MailStep, PM!Next
<1>12. ASSUME NEW b \in Boxes, NEW i \in batch[b], handleOne(b, i) PROVE MailStep
  <2>1. /\ mail[i].p \in Payloads /\ i \in Envelopes
        /\ UNCHANGED <<out, mail, relay, lost>>
        /\ Receive(mail[i].p) \/ (copies' = copies /\ shown' = shown)
    BY <1>12, Enveloped DEF handleOne, MailInv
  <2>2. UNCHANGED <<status, Held, lostMail>> /\ (mail[i].p \in Dms => out[mail[i].p] # "none")
    BY <2>1 DEF status, Word, Held, lostMail, MailInv
  <2>3. QED
    BY <2>1, <2>2, Shows, Stutters
<1>13. ASSUME NEW b \in Boxes, NEW i \in batch[b], DropUnopened(b, i) PROVE MailStep
  <2>1. /\ UNCHANGED <<out, mail, relay, copies, shown>>
        /\ lost' = lost \cup {mail[i].p}
    BY <1>13 DEF DropUnopened
  <2>2. CASE mail[i].p \in Dms
    <3>1. PICK m \in Dms : m = mail[i].p
      BY <2>2
    <3>2. PM!Lose(m)
      BY <2>1, <3>1, <2>2 DEF PM!Lose, status, Word, Held, lostMail
    <3>3. QED
      BY <3>2 DEF MailStep, PM!Next
  <2>3. CASE mail[i].p \notin Dms
    BY <2>1, <2>3, Stutters DEF status, Word, Held, lostMail
  <2>4. QED
    BY <2>2, <2>3
<1>14. ASSUME NEW i \in relay, Expire(i) PROVE MailStep
  <2>1. /\ UNCHANGED <<out, mail, copies, shown>> /\ relay' = relay \ {i}
        /\ lost' = lost \cup {mail[i].p}
    BY <1>14 DEF Expire
  <2>2. Held' = Held \/ Held' = Held \ {mail[i].p}
    BY <2>1 DEF Held
  <2>3. CASE mail[i].p \in Dms
    <3>1. PICK m \in Dms : m = mail[i].p
      BY <2>3
    <3>2. PM!Lose(m)
      BY <2>1, <3>1, <2>2, <2>3 DEF PM!Lose, status, Word, Held, lostMail
    <3>3. QED
      BY <3>2 DEF MailStep, PM!Next
  <2>4. CASE mail[i].p \notin Dms
    <3>1. Held' = Held
      BY <2>1, <2>4 DEF Held
    <3>2. QED
      BY <2>1, <2>4, <3>1, Stutters DEF status, Word, lostMail
  <2>5. QED
    BY <2>3, <2>4
<1>15. CASE requestRemote \/ respondRemoteReject \/ UNCHANGED vars
  BY <1>15, Stutters DEF Held, status, Word, lostMail, requestRemote, respondRemoteReject,
       Fly, SetStatus, Break
<1>16. ASSUME NEW b \in Boxes, block(b) \/ Pull(b) \/ PullNothing(b) \/ federationAcceptOutbox(b) \/ WindowPasses(b) \/ Crash(b)
      PROVE MailStep
  BY <1>16, Stutters DEF Held, status, Word, lostMail, block, Pull, PullNothing,
       federationAcceptOutbox, WindowPasses, Crash, SetStatus, Break, SelectOutbox, Fly,
       Fault
<1>17. ASSUME NEW b \in Boxes, NEW m \in sweep[b], federationOutbox(b, m)
      PROVE MailStep
  BY <1>17, Stutters DEF Held, status, Word, lostMail, federationOutbox, Attempt, Fly
<1>18. QED
  BY <1>1, <1>2, <1>3, <1>4, <1>5, <1>6, <1>7, <1>8, <1>9, <1>10, <1>11, <1>12, <1>13,
       <1>14, <1>15, <1>16, <1>17 DEF Next, Owners, Transit, LoopStep, World

(* Relay, direct path, retries, acknowledgements and crashes together keep  *)
(* the promise of PeerMail: each step of Federation is one of its steps, or *)
(* changes nothing the owners see.                                          *)
THEOREM MailIsKeptAlways == Spec => MailIsKept
<1>1. Init => PM!Init
  BY DEF Init, PM!Init, Word
<1>2. IInv /\ [Next]_vars => [PM!Next]_(PM!vars)
  BY StepImplements DEF MailStep
<1>3. QED
  BY <1>1, <1>2, Invariance, PTL DEF Spec, MailIsKept, PM!Spec

(* So a thread shows a message at most once, and one reported as delivered  *)
(* is held for the peer or was shown, unless its loss was admitted.         *)
THEOREM ReportsAreTrue == Spec => []PM!ReportIsKept
<1>1. IInv => PM!ReportIsKept
  <2> SUFFICES ASSUME IInv PROVE PM!ReportIsKept
    OBVIOUS
  <2>1. \A m \in Dms : copies[m] <= 1 /\ (copies[m] = 1 => m \in shown)
    BY DEF IInv, KeptInv
  <2>2. \A m \in Dms : status[m] = "delivered" => m \in Held \cup shown \cup lostMail
    BY DEF IInv, KeptInv, Kept, status, Word, lostMail
  <2>3. QED
    BY <2>1, <2>2 DEF PM!ReportIsKept, status, Held, lostMail
<1>2. QED
  BY <1>1, Invariance, PTL
=============================================================================
