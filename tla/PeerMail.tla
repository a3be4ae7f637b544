------------------------------ MODULE PeerMail ------------------------------
(***************************************************************************)
(* What federation promises the owners of two boxes about their direct      *)
(* messages, whatever the transport does: a thread shows a message that was *)
(* sent, once; a message reported as delivered has been shown, or is held   *)
(* for the peer, unless a loss has been admitted; and nothing held is let   *)
(* go before it has been shown or admitted lost.                            *)
(***************************************************************************)
EXTENDS FiniteSets, Naturals

CONSTANT Mails

VARIABLES
  status,   \* the sender's word on each message: "none", "sent", "delivered"
  held,     \* the messages some store holds for the receiver
  copies,   \* how many times the open thread shows a message
  shown,    \* the messages that some thread has shown
  lost      \* the messages whose loss is admitted

vars == <<status, held, copies, shown, lost>>

MailTypeOK ==
  /\ status \in [Mails -> {"none", "sent", "delivered"}]
  /\ copies \in [Mails -> Nat]
  /\ held \subseteq Mails /\ shown \subseteq Mails /\ lost \subseteq Mails

Init ==
  /\ status = [m \in Mails |-> "none"]
  /\ copies = [m \in Mails |-> 0]
  /\ held = {} /\ shown = {} /\ lost = {}

Send(m) ==
  /\ status[m] = "none"
  /\ status' = [status EXCEPT ![m] = "sent"]
  /\ UNCHANGED <<held, copies, shown, lost>>

Hold(m) ==
  /\ status[m] # "none"
  /\ held' = held \cup {m}
  /\ UNCHANGED <<status, copies, shown, lost>>

\* A thread shows a message it does not show yet.
Show(m) ==
  /\ status[m] # "none" /\ copies[m] = 0
  /\ copies' = [copies EXCEPT ![m] = 1]
  /\ shown' = shown \cup {m}
  /\ UNCHANGED <<status, held, lost>>

Report(m) ==
  /\ status[m] = "sent" /\ m \in held \cup shown \cup lost
  /\ status' = [status EXCEPT ![m] = "delivered"]
  /\ UNCHANGED <<held, copies, shown, lost>>

Release(S) ==
  /\ S \subseteq held \cap (shown \cup lost)
  /\ held' = held \ S
  /\ UNCHANGED <<status, copies, shown, lost>>

Lose(m) ==
  /\ lost' = lost \cup {m}
  /\ held' \in {held, held \ {m}}
  /\ UNCHANGED <<status, copies, shown>>

\* The receiver gives up the connection, and its thread with it.
CloseThread(S) ==
  /\ copies' = [m \in Mails |-> IF m \in S THEN 0 ELSE copies[m]]
  /\ UNCHANGED <<status, held, shown, lost>>

Next ==
  \/ \E m \in Mails : Send(m) \/ Hold(m) \/ Show(m) \/ Report(m) \/ Lose(m)
  \/ \E S \in SUBSET Mails : Release(S) \/ CloseThread(S)

Spec == Init /\ [][Next]_vars

-----------------------------------------------------------------------------
\* What the owners rely on.
ReportIsKept ==
  /\ \A m \in Mails : copies[m] <= 1 /\ (copies[m] = 1 => m \in shown)
  /\ \A m \in Mails : status[m] = "delivered" => m \in held \cup shown \cup lost
=============================================================================
