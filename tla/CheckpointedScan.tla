--------------------------- MODULE CheckpointedScan ---------------------------
(***************************************************************************)
(* What chunked discovery promises about one parent scan, with no          *)
(* database rows, dispatchers, directives or connections: a target is      *)
(* covered part by part, and an outcome is announced.  "Completed" needs   *)
(* the whole target; "failed" needs a part that failed or an agent that    *)
(* is away.  An outcome may be revised: the code starts a parent again     *)
(* when a late report says that a part of it has started.                  *)
(***************************************************************************)
CONSTANT Target

VARIABLES
    outcome,    \* what scans.status says of the parent
    covered,    \* parts of the target the agent has scanned to the end
    faulty,     \* parts that were reported as failed at least once
    reachable   \* an agent is connected

vars == <<outcome, covered, faulty, reachable>>

Init ==
    /\ outcome = "open" /\ covered = {} /\ faulty = {}
    /\ reachable = FALSE

Cover(c) ==
    /\ covered' = covered \cup {c}
    /\ UNCHANGED <<outcome, faulty, reachable>>

ReportFailure(c) ==
    /\ faulty' = faulty \cup {c}
    /\ UNCHANGED <<outcome, covered, reachable>>

Complete ==
    /\ covered = Target
    /\ outcome' = "completed"
    /\ UNCHANGED <<covered, faulty, reachable>>

GiveUp ==
    /\ faulty # {}
    /\ outcome' = "failed"
    /\ UNCHANGED <<covered, faulty, reachable>>

Abandon ==
    /\ outcome = "open" /\ ~reachable
    /\ outcome' = "failed"
    /\ UNCHANGED <<covered, faulty, reachable>>

Reopen ==
    /\ outcome # "open" /\ outcome' = "open"
    /\ UNCHANGED <<covered, faulty, reachable>>

ComeAndGo ==
    /\ reachable' = ~reachable
    /\ UNCHANGED <<outcome, covered, faulty>>

Next ==
    \/ \E c \in Target : Cover(c) \/ ReportFailure(c)
    \/ Complete \/ GiveUp \/ Abandon \/ Reopen \/ ComeAndGo

Spec == Init /\ [][Next]_vars
=============================================================================
