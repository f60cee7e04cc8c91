----------------------------- MODULE RuleActions -----------------------------
(***************************************************************************)
(* The actions that fired for one endpoint and the alerts some of them     *)
(* send.  An alert runs in a goroutine of its own: it looks its channel up *)
(* again, posts to the receiver and inserts a delivery row, all within one *)
(* deadline; nobody waits for it or tries again.  Time is in steps of ten  *)
(* seconds.                                                                *)
(***************************************************************************)
EXTENDS Naturals

CONSTANTS
    Channels, ChannelType,   \* credential_sources that rules name, and their types
    Nothing,                 \* an action that alerts nobody
    MaxActions               \* bound: actions that fire

Posting == {"webhook", "slack"}
Stubbed == {"email", "pagerduty"}

ASSUME RuleActionsAssumption ==
    /\ ChannelType \in [Channels -> Posting \cup Stubbed \cup {"static"}]
    /\ Nothing \notin Channels /\ MaxActions \in Nat

VARIABLES
    fired,    \* what EvaluateAsset returned: the channel each action alerts
    reached,  \* actions runRuleActions has gone through
    config,   \* each channel's config: it decodes, does not, or the row is gone
    alert,    \* each alert's goroutine
    delivery, \* notification_deliveries.status; "none": no row
    taken     \* alerts the receiver has accepted
actionVars == <<fired, reached, config, alert, delivery, taken>>

Actions == 1 .. MaxActions
Deadline == 2        \* 20 s for the whole of a dispatch
ClientTimeout == 1   \* 10 s for the post
Unsent == [at |-> "none", left |-> 0, result |-> "none", slow |-> FALSE, lost |-> "no"]

RuleActionsTypeOK ==
    /\ fired \in [Actions -> Channels \cup {Nothing}] /\ reached \in 0 .. MaxActions
    /\ config \in [Channels -> {"good", "broken", "gone"}]
    /\ alert \in [Actions -> [at : {"none", "lookup", "post", "insert", "done"}, left : 0 .. Deadline,
                              result : {"none", "sent", "failed", "pending"}, slow : BOOLEAN,
                              lost : {"no", "channel", "database", "deadline", "process"}]]
    /\ delivery \in [Actions -> {"none", "sent", "failed", "pending"}] /\ taken \subseteq Actions

RuleActionsInit ==
    /\ fired \in [Actions -> Channels \cup {Nothing}] /\ reached = 0
    /\ config = [c \in Channels |-> "good"]
    /\ alert = [i \in Actions |-> Unsent]
    /\ delivery = [i \in Actions |-> "none"] /\ taken = {}

Min2(a, b) == IF a < b THEN a ELSE b

(* The next action: an alert starts a goroutine, anything else is over     *)
(* here, whether it worked or not.                                         *)
RunRuleAction ==
    /\ reached < MaxActions /\ reached' = reached + 1
    /\ alert' = IF fired[reached'] \in Channels
                THEN [alert EXCEPT ![reached'] = [Unsent EXCEPT !.at = "lookup", !.left = Deadline]]
                ELSE alert
    /\ UNCHANGED <<fired, config, delivery, taken>>

EditChannel(c, to) ==
    /\ config[c] \notin {"gone", to} /\ config' = [config EXCEPT ![c] = to]
    /\ UNCHANGED <<fired, reached, alert, delivery, taken>>

Running(i) == alert[i].at \notin {"none", "done"}
Loses(i, why) == alert' = [alert EXCEPT ![i].at = "done", ![i].lost = why]

(* Only a channel that is there can have a row. *)
Lookup(i, spent) ==
    /\ alert[i].at = "lookup" /\ spent <= alert[i].left
    /\ LET c == fired[i]
           After(at, result) ==
             alert' = [alert EXCEPT ![i].at = at, ![i].left = @ - spent,
                                    ![i].slow = spent > 0, ![i].result = result]
       IN \/ Loses(i, "database")   \* an error, or the deadline
          \/ /\ spent < alert[i].left
             /\ CASE config[c] = "gone" -> Loses(i, "channel")
                  [] ChannelType[c] \in Stubbed -> After("insert", "pending")
                  [] ChannelType[c] \in Posting /\ config[c] = "good" -> After("post", "none")
                  [] OTHER -> After("insert", "failed")
    /\ UNCHANGED <<fired, reached, config, delivery, taken>>

(* The receiver answers, refuses or is not heard in time, whether it took  *)
(* the alert or not.                                                       *)
SendWithin(timeout, i, spent) ==
    /\ alert[i].at = "post" /\ spent <= Min2(timeout, alert[i].left)
    /\ \E accepts \in BOOLEAN, heard \in BOOLEAN :
         /\ heard => spent < Min2(timeout, alert[i].left)
         /\ taken' = IF accepts THEN taken \cup {i} ELSE taken
         /\ alert' = [alert EXCEPT ![i].at = "insert", ![i].left = @ - spent,
                         ![i].result = IF accepts /\ heard THEN "sent" ELSE "failed"]
    /\ UNCHANGED <<fired, reached, config, delivery>>

(* A plausible bug: no timeout but the deadline. *)
SendToTheEnd(i, spent) == SendWithin(Deadline, i, spent)

Send(i, spent) == SendWithin(ClientTimeout, i, spent)

InsertNotificationDelivery(i) == delivery' = [delivery EXCEPT ![i] = alert[i].result]

(* The insert has what is left of the deadline. *)
Record(i) ==
    /\ alert[i].at = "insert"
    /\ \/ /\ alert[i].left > 0 /\ InsertNotificationDelivery(i)
          /\ alert' = [alert EXCEPT ![i].at = "done"]
       \/ alert[i].left > 0 /\ Loses(i, "database") /\ UNCHANGED delivery
       \/ alert[i].left = 0 /\ Loses(i, "deadline") /\ UNCHANGED delivery
    /\ UNCHANGED <<fired, reached, config, taken>>

(* Shutdown waits for HTTP handlers, not for these goroutines. *)
ProcessEnds ==
    /\ reached < MaxActions \/ \E i \in Actions : Running(i)
    /\ reached' = MaxActions
    /\ alert' = [i \in Actions |-> IF Running(i)
                   THEN [alert[i] EXCEPT !.at = "done", !.lost = "process"] ELSE alert[i]]
    /\ UNCHANGED <<fired, config, delivery, taken>>

RuleActionsNext ==
    \/ RunRuleAction \/ ProcessEnds
    \/ \E c \in Channels, to \in {"good", "broken", "gone"} : EditChannel(c, to)
    \/ \E i \in Actions :
         \/ \E spent \in 0 .. Deadline : Lookup(i, spent) \/ Send(i, spent)
         \/ Record(i)

RuleActionsSpec == RuleActionsInit /\ [][RuleActionsNext]_actionVars

-----------------------------------------------------------------------------

(* Every send leaves a row, says the dispatcher.  An alert ends without    *)
(* one only if its channel is gone, the database was slow or refused, or   *)
(* the process ended: never by what the receiver does; and "sent" means    *)
(* that the receiver took it.                                              *)
AlertsRecorded ==
    \A i \in Actions :
        /\ (alert[i].at = "done" /\ delivery[i] = "none") =>
             \/ alert[i].lost \in {"channel", "database", "process"}
             \/ alert[i].lost = "deadline" /\ alert[i].slow
        /\ delivery[i] = "sent" => i \in taken
=============================================================================
