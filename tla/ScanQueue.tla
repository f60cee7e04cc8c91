------------------------------ MODULE ScanQueue ------------------------------
(***************************************************************************)
(* The scans of one agent that are not chunked: an agent runs one scan at  *)
(* a time, so a scan that is created while another one is pending or       *)
(* running waits as "queued" until a drain promotes it.  The queue is only *)
(* the status column of table scans: creators, the handlers of the agent's *)
(* connections and the scheduler's sweep read and write it in separate     *)
(* statements, and most of the writes are unconditional.                   *)
(***************************************************************************)
EXTENDS Naturals, Sequences, FiniteSets

CONSTANTS
    ScanCount,    \* scans created for the agent, numbered by created_at
    Conns,        \* goroutines that can serve a connection of the agent
    None,         \* "no scan", "no connection"
    SendBuffer,   \* capacity of the agent's sendCh
    MaxFaults     \* bound: faults of the environment in one behaviour

ASSUME QueueAssumption ==
    /\ ScanCount \in Nat \ {0} /\ SendBuffer \in Nat \ {0} /\ MaxFaults \in Nat
    /\ None \notin 0 .. (ScanCount - 1) /\ None \notin Conns
    /\ IsFiniteSet(Conns)

Scans == 0 .. (ScanCount - 1)

VARIABLES
    row,      \* scans.status, "absent" before the row is inserted
    maker,    \* next statement of the goroutine that creates each scan
    pc,       \* next statement of each connection handler
    next,     \* scan a handler's drain has loaded
    link,     \* connection the agent's tunnel is attached to
    down,     \* directives published and not yet handled by the agent
    agent,    \* the agent's semaphore and scan goroutine
    out,      \* Tunnel.sendCh
    wire,     \* reports sent on a connection and not yet read by its handler
    ran,      \* history: scans the agent ran to the end
    lost,     \* history: a directive or the end of a scan was lost, and
              \* no connection broke with it
    faults

vars == <<row, maker, pc, next, link, down, agent, out, wire, ran, lost, faults>>

Report == [type : {"started", "partial", "results", "error"}, scan : Scans]
Reports(t, s) == [type |-> t, scan |-> s]

Active == {"pending", "running"}
Settled == {"completed", "failed"}

TypeOK ==
    /\ row \in [Scans -> {"absent", "queued"} \cup Active \cup Settled]
    /\ maker \in [Scans -> {"create", "check", "queue", "publish", "done"}]
    /\ pc \in [Conns -> {"off", "read", "load", "promote", "publish", "cleanup"}]
    /\ next \in [Conns -> Scans \cup {None}]
    /\ link \in Conns \cup {None}
    /\ down \in Seq(Scans)
    /\ agent \in [st : {"idle", "scanning", "ending"}, scan : Scans \cup {None}]
    /\ out \in Seq(Report)
    /\ wire \in [Conns -> Seq(Report)]
    /\ ran \subseteq Scans
    /\ lost \in BOOLEAN
    /\ faults \in 0 .. MaxFaults

Init ==
    /\ row = [s \in Scans |-> "absent"]
    /\ maker = [s \in Scans |-> "create"]
    /\ pc = [w \in Conns |-> "off"]
    /\ next = [w \in Conns |-> None]
    /\ link = None /\ down = <<>>
    /\ agent = [st |-> "idle", scan |-> None]
    /\ out = <<>> /\ wire = [w \in Conns |-> <<>>]
    /\ ran = {} /\ lost = FALSE /\ faults = 0

Fault == faults < MaxFaults /\ faults' = faults + 1

(***************************************************************************)
(* Creating a scan: ScanHandler.Create and Dispatcher.dispatchOne          *)
(***************************************************************************)

(* Rows are numbered in the order in which they are inserted. *)
CreateScan(s) ==
    /\ maker[s] = "create"
    /\ \A r \in Scans : r < s => row[r] # "absent"
    /\ row' = [row EXCEPT ![s] = "pending"]
    /\ maker' = [maker EXCEPT ![s] = "check"]
    /\ UNCHANGED <<pc, next, link, down, agent, out, wire, ran, lost, faults>>

AgentHasRunningScanExcluding(s) == \E r \in Scans \ {s} : row[r] \in Active

CheckBusy(s) ==
    /\ maker[s] = "check"
    /\ maker' = [maker EXCEPT ![s] =
                   IF AgentHasRunningScanExcluding(s) THEN "queue" ELSE "publish"]
    /\ UNCHANGED <<row, pc, next, link, down, agent, out, wire, ran, lost, faults>>

QueueScan(s) ==
    /\ maker[s] = "queue"
    /\ row' = [row EXCEPT ![s] = "queued"]
    /\ maker' = [maker EXCEPT ![s] = "done"]
    /\ UNCHANGED <<pc, next, link, down, agent, out, wire, ran, lost, faults>>

(* PublishDirective: without a subscriber the directive goes nowhere and   *)
(* the creator is not told.  While the handler of a broken connection has  *)
(* not returned there are two subscribers, and the directive may reach the *)
(* agent twice.                                                            *)
Subscribers == {w \in Conns : pc[w] # "off"}

Publish(s) ==
    IF Subscribers = {}
    THEN lost' = TRUE /\ UNCHANGED down
    ELSE /\ \/ down' = Append(down, s)
            \/ Cardinality(Subscribers) > 1 /\ down' = down \o <<s, s>>
         /\ UNCHANGED lost

PublishScan(s) ==
    /\ maker[s] = "publish"
    /\ Publish(s)
    /\ maker' = [maker EXCEPT ![s] = "done"]
    /\ UNCHANGED <<row, pc, next, link, agent, out, wire, ran, faults>>

(* A statement fails: its caller gives up and leaves the row as it is,     *)
(* pending for a directive that nobody will publish.  ScanHandler.Create,  *)
(* unlike dispatchOne, takes a busy check that fails for a free agent.     *)
CreatorFails(s) ==
    /\ maker[s] \in {"check", "queue", "publish"} /\ Fault
    /\ \/ maker' = [maker EXCEPT ![s] = "done"] /\ lost' = TRUE
       \/ maker[s] = "check" /\ maker' = [maker EXCEPT ![s] = "publish"] /\ UNCHANGED lost
    /\ UNCHANGED <<row, pc, next, link, down, agent, out, wire, ran>>

Creator(s) == CreateScan(s) \/ CheckBusy(s) \/ QueueScan(s) \/ PublishScan(s)

(***************************************************************************)
(* Connection handlers                                                     *)
(***************************************************************************)
Connect(w) ==
    /\ link = None /\ pc[w] = "off"
    /\ link' = w
    /\ pc' = [pc EXCEPT ![w] = "read"]
    /\ UNCHANGED <<row, maker, next, down, agent, out, wire, ran, lost, faults>>

Receive(w, types) ==
    /\ pc[w] = "read" /\ wire[w] # <<>> /\ Head(wire[w]).type \in types
    /\ wire' = [wire EXCEPT ![w] = Tail(@)]

Reported(w) == Head(wire[w]).scan

ScanStarted(w) ==
    /\ Receive(w, {"started"})
    /\ row' = [row EXCEPT ![Reported(w)] = "running"]
    /\ UNCHANGED <<maker, pc, next, link, down, agent, out, ran, lost, faults>>

(* handleScanResults without its test of "partial". *)
LastStatusOfAny(type, old) == IF type = "error" THEN "failed" ELSE "completed"

(* handleScanResults and FailScan write the scan's last status; a partial  *)
(* result leaves the row alone.  A failed write is logged.  In every case  *)
(* DrainAgentQueue comes next.                                             *)
LastStatus(type, old) ==
    CASE type = "results" -> "completed"
      [] type = "error"   -> "failed"
      [] OTHER            -> old

ScanReport(w) ==
    /\ Receive(w, {"partial", "results", "error"})
    /\ \/ /\ row' = [row EXCEPT ![Reported(w)] = LastStatus(Head(wire[w]).type, @)]
          /\ UNCHANGED <<lost, faults>>
       \/ /\ Fault /\ UNCHANGED row
          /\ lost' = (lost \/ Head(wire[w]).type # "partial")
    /\ pc' = [pc EXCEPT ![w] = "load"]
    /\ UNCHANGED <<maker, next, link, down, agent, out, ran>>

Queued == {s \in Scans : row[s] = "queued"}

OldestQueuedScanForAgent(w) ==
    /\ pc[w] = "load"
    /\ \/ /\ Queued = {}
          /\ pc' = [pc EXCEPT ![w] = "read"] /\ UNCHANGED next
       \/ \E s \in Queued :
            /\ \A r \in Queued : s <= r
            /\ next' = [next EXCEPT ![w] = s]
            /\ pc' = [pc EXCEPT ![w] = "promote"]
    /\ UNCHANGED <<row, maker, link, down, agent, out, wire, ran, lost, faults>>

(* UpdateScanStatus(pending), whatever the row has become since. *)
PromoteQueued(w) ==
    /\ pc[w] = "promote"
    /\ row' = [row EXCEPT ![next[w]] = "pending"]
    /\ pc' = [pc EXCEPT ![w] = "publish"]
    /\ UNCHANGED <<maker, next, link, down, agent, out, wire, ran, lost, faults>>

PublishQueued(w) ==
    /\ pc[w] = "publish"
    /\ Publish(next[w])
    /\ next' = [next EXCEPT ![w] = None]
    /\ pc' = [pc EXCEPT ![w] = "read"]
    /\ UNCHANGED <<row, maker, link, agent, out, wire, ran, faults>>

(* A drain that fails before it has promoted the scan leaves it queued.    *)
DrainFails(w) ==
    /\ pc[w] \in {"load", "promote", "publish"} /\ Fault
    /\ lost' = (lost \/ pc[w] = "publish")
    /\ next' = [next EXCEPT ![w] = None]
    /\ pc' = [pc EXCEPT ![w] = "read"]
    /\ UNCHANGED <<row, maker, link, down, agent, out, wire, ran>>

DrainAgentQueue(w) == OldestQueuedScanForAgent(w) \/ PromoteQueued(w) \/ PublishQueued(w)

(* The read loop of a broken connection ends. *)
HangUp(w) ==
    /\ pc[w] = "read" /\ link # w
    /\ pc' = [pc EXCEPT ![w] = "cleanup"]
    /\ wire' = [wire EXCEPT ![w] = <<>>]
    /\ UNCHANGED <<row, maker, next, link, down, agent, out, ran, lost, faults>>

(* The agent's status vocabulary written into scans.status. *)
FailRunningAsDisconnected(w) ==
    /\ pc[w] = "cleanup"
    /\ row' = [s \in Scans |-> IF row[s] \in Active \cup {"queued"} THEN "disconnected"
                               ELSE row[s]]
    /\ pc' = [pc EXCEPT ![w] = "off"]
    /\ UNCHANGED <<maker, next, link, down, agent, out, wire, ran, lost, faults>>

(* FailRunningScansForAgent does not ask whether the agent is back. *)
FailRunningScansForAgent(w) ==
    /\ pc[w] = "cleanup"
    /\ row' = [s \in Scans |-> IF row[s] \in Active \cup {"queued"} THEN "failed"
                               ELSE row[s]]
    /\ pc' = [pc EXCEPT ![w] = "off"]
    /\ UNCHANGED <<maker, next, link, down, agent, out, wire, ran, lost, faults>>

(***************************************************************************)
(* The scheduler's sweep of queued scans older than 30 minutes             *)
(***************************************************************************)

(* The NOT EXISTS of the sweep, also counting queued siblings: a queued    *)
(* scan then protects itself.                                              *)
NobodyLeftAtAll == \A r \in Scans : row[r] \notin Active \cup {"queued"}

NobodyWillDrain == \A r \in Scans : row[r] \notin Active

FailStaleQueuedScans ==
    /\ NobodyWillDrain
    /\ \E stale \in (SUBSET Queued) \ {{}} :
         row' = [s \in Scans |-> IF s \in stale THEN "failed" ELSE row[s]]
    /\ UNCHANGED <<maker, pc, next, link, down, agent, out, wire, ran, lost, faults>>

(***************************************************************************)
(* The agent                                                               *)
(***************************************************************************)
Send(m) ==
    IF Len(out) < SendBuffer
    THEN out' = Append(out, m) /\ UNCHANGED lost
    ELSE UNCHANGED out /\ lost' = (lost \/ m.type \in {"results", "error"})

(* forwardDirective, hub.Send, Tunnel.OnDirective. *)
OnDirective ==
    /\ down # <<>> /\ link # None /\ down' = Tail(down)
    /\ IF agent.st = "idle"
       THEN /\ agent' = [st |-> "scanning", scan |-> Head(down)]
            /\ Send(Reports("started", Head(down)))
       ELSE Send(Reports("error", Head(down))) /\ UNCHANGED agent
    /\ UNCHANGED <<row, maker, pc, next, link, wire, ran, faults>>

(* forwardDirective gives up, or hub.Send has no connection. *)
DirectiveLost ==
    /\ down # <<>> /\ down' = Tail(down)
    /\ \/ link = None /\ UNCHANGED faults
       \/ Fault
    /\ lost' = TRUE
    /\ UNCHANGED <<row, maker, pc, next, link, agent, out, wire, ran>>

ControlDone ==
    /\ agent.st = "scanning" /\ Len(out) < SendBuffer
    /\ Send(Reports("partial", agent.scan))
    /\ UNCHANGED <<row, maker, pc, next, link, down, agent, wire, ran, faults>>

ScanEnds ==
    /\ agent.st = "scanning"
    /\ agent' = [agent EXCEPT !.st = "ending"]
    /\ \/ Send(Reports("results", agent.scan)) /\ ran' = ran \cup {agent.scan}
       \/ Send(Reports("error", agent.scan)) /\ UNCHANGED ran
    /\ UNCHANGED <<row, maker, pc, next, link, down, wire, faults>>

ReleaseSemaphore ==
    /\ agent.st = "ending" /\ agent' = [st |-> "idle", scan |-> None]
    /\ UNCHANGED <<row, maker, pc, next, link, down, out, wire, ran, lost, faults>>

WriteLoop(w) ==
    /\ link = w /\ out # <<>> /\ wire[w] = <<>>
    /\ wire' = [wire EXCEPT ![w] = Append(@, Head(out))]
    /\ out' = Tail(out)
    /\ UNCHANGED <<row, maker, pc, next, link, down, agent, ran, lost, faults>>

(* The connection breaks; what was sent on it and not read may be lost. *)
Disconnect ==
    /\ link # None /\ Fault
    /\ link' = None
    /\ wire' \in {wire, [wire EXCEPT ![link] = <<>>]}
    /\ UNCHANGED <<row, maker, pc, next, down, agent, out, ran, lost>>

HandlerStep(w) ==
    \/ Connect(w) \/ ScanStarted(w) \/ ScanReport(w) \/ DrainAgentQueue(w)
    \/ HangUp(w) \/ FailRunningScansForAgent(w)

AgentStep == ScanEnds \/ ReleaseSemaphore

Next ==
    \/ \E s \in Scans : Creator(s) \/ CreatorFails(s)
    \/ \E w \in Conns : HandlerStep(w) \/ DrainFails(w) \/ WriteLoop(w)
    \/ FailStaleQueuedScans
    \/ OnDirective \/ DirectiveLost \/ ControlDone \/ AgentStep
    \/ Disconnect

Spec == Init /\ [][Next]_vars

(* Goroutines run, the agent dials again for ever, a live connection and a *)
(* subscription deliver, the sweep ticks and every scan ends.              *)
Fairness ==
    /\ \A s \in Scans : WF_vars(Creator(s))
    /\ \A w \in Conns : WF_vars(HandlerStep(w)) /\ WF_vars(WriteLoop(w))
    /\ WF_vars(FailStaleQueuedScans) /\ WF_vars(OnDirective) /\ WF_vars(AgentStep)

FairSpec == Spec /\ Fairness
(***************************************************************************)
(* Properties                                                              *)
(***************************************************************************)

(* A scan is reported as completed only when the agent ran it to the end:  *)
(* no partial result, drain, sweep or clean-up of a broken connection      *)
(* makes one up.                                                           *)
CompletedScanWasRun == \A s \in Scans : row[s] = "completed" => s \in ran

(* Every scan that is created settles, whichever goroutines saw each other *)
(* as busy, provided that no directive and no last report was lost.        *)
ScanSettles ==
    []~lost => \A s \in Scans : [](row[s] # "absent" => <>(row[s] \in Settled))

(* The comment on DrainAgentQueue: it is called from terminal states, so a *)
(* drain starts only when the scan just reported on has settled.           *)
DrainFollowsTerminal ==
    [][\A w \in Conns : pc[w] = "read" /\ pc'[w] = "load"
          => row'[Reported(w)] \in Settled]_vars

(* The warning of ScanHandler.Create: a scan created while the agent is    *)
(* not connected waits for the agent, and is run once it connects.         *)
ScanWaitsForAgent ==
    \A s \in Scans : [](row[s] = "pending" => <>(row[s] # "pending"))
=============================================================================
