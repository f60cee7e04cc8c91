--------------------------- MODULE ScanQueueProofs ---------------------------
(***************************************************************************)
(* Proofs about ScanQueue, for any number of scans, connection handlers    *)
(* and faults.                                                             *)
(***************************************************************************)
EXTENDS ScanQueue, SequenceTheorems, TLAPS

(* A drain that has loaded a scan, and an agent that scans, know which one.*)
InHand ==
    /\ \A w \in Conns : pc[w] \in {"promote", "publish"} => next[w] # None
    /\ agent.st = "scanning" => agent.scan # None

(* A report of results is sent only of a scan that ran; ran only grows. *)
Truthful == {m \in Report : m.type = "results" => m.scan \in ran}

QueueInv ==
    /\ TypeOK /\ InHand
    /\ out \in Seq(Truthful)
    /\ wire \in [Conns -> Seq(Truthful)]
    /\ CompletedScanWasRun

LEMMA InitQueueInv == Init => QueueInv
<1> SUFFICES ASSUME Init PROVE QueueInv
  OBVIOUS
<1>1. /\ row \in [Scans -> {"absent", "queued"} \cup Active \cup Settled]
      /\ maker \in [Scans -> {"create", "check", "queue", "publish", "done"}]
      /\ pc \in [Conns -> {"off", "read", "load", "promote", "publish", "cleanup"}]
      /\ next \in [Conns -> Scans \cup {None}]
  BY DEF Init
<1>2. /\ link \in Conns \cup {None} /\ down \in Seq(Scans)
      /\ agent \in [st : {"idle", "scanning", "ending"}, scan : Scans \cup {None}]
  BY EmptySeq DEF Init
<1>3. /\ out \in Seq(Report) /\ wire \in [Conns -> Seq(Report)]
      /\ out \in Seq(Truthful) /\ wire \in [Conns -> Seq(Truthful)]
  BY EmptySeq DEF Init
<1>4. ran \subseteq Scans /\ faults \in 0 .. MaxFaults
  BY QueueAssumption DEF Init
<1>5. lost \in BOOLEAN
  BY DEF Init
<1>6. InHand /\ CompletedScanWasRun
  BY DEF Init, InHand, CompletedScanWasRun
<1> QED
  BY <1>1, <1>2, <1>3, <1>4, <1>5, <1>6 DEF QueueInv, TypeOK

LEMMA ReportsTyped ==
    ASSUME NEW t \in {"started", "partial", "results", "error"}, NEW s \in Scans
    PROVE  Reports(t, s) \in Report
BY DEF Reports, Report

(* What the head of a channel is when a handler takes it. *)
LEMMA ReceiveTyped ==
    ASSUME QueueInv, NEW w \in Conns, NEW types, Receive(w, types)
    PROVE  /\ Head(wire[w]) \in Truthful
           /\ Reported(w) \in Scans
           /\ wire' \in [Conns -> Seq(Truthful)]
           /\ wire' \in [Conns -> Seq(Report)]
<1>1. /\ wire[w] \in Seq(Truthful) /\ wire[w] # <<>>
      /\ wire[w] \in Seq(Report)
  BY DEF QueueInv, TypeOK, Receive
<1>2. /\ Head(wire[w]) \in Truthful /\ Tail(wire[w]) \in Seq(Truthful)
      /\ Tail(wire[w]) \in Seq(Report)
  BY <1>1, HeadTailProperties
<1> QED
  BY <1>2 DEF QueueInv, TypeOK, Receive, Reported, Truthful, Report

(* Publishing appends known scans to the channel of directives. *)
LEMMA PublishTyped ==
    ASSUME TypeOK, NEW s \in Scans, Publish(s)
    PROVE  down' \in Seq(Scans) /\ lost' \in BOOLEAN
<1>1. Append(down, s) \in Seq(Scans) /\ down \o <<s, s>> \in Seq(Scans)
  BY AppendProperties, ConcatProperties DEF TypeOK
<1>2. down' \in Seq(Scans)
  BY <1>1 DEF Publish, TypeOK
<1>3. lost' \in BOOLEAN
  BY DEF Publish, TypeOK
<1> QED
  BY <1>2, <1>3

LEMMA CreatorQueueInv ==
    ASSUME QueueInv, NEW s \in Scans, Creator(s)
    PROVE  QueueInv'
<1>1. CASE CreateScan(s) \/ CheckBusy(s) \/ QueueScan(s)
  <2>1. UNCHANGED <<pc, next, link, down, agent, out, wire, ran, lost, faults>>
    BY <1>1 DEF CreateScan, CheckBusy, QueueScan
  <2>2. /\ row' \in [Scans -> {"absent", "queued"} \cup Active \cup Settled]
        /\ maker' \in [Scans -> {"create", "check", "queue", "publish", "done"}]
    BY <1>1 DEF QueueInv, TypeOK, CreateScan, CheckBusy, QueueScan, Active
  <2>3. \A r \in Scans : row'[r] = "completed" => row[r] = "completed"
    BY <1>1 DEF QueueInv, TypeOK, CreateScan, CheckBusy, QueueScan
  <2>4. TypeOK'
    BY <2>1, <2>2 DEF QueueInv, TypeOK
  <2> QED
    BY <2>1, <2>3, <2>4 DEF QueueInv, InHand, Truthful, CompletedScanWasRun
<1>2. CASE PublishScan(s)
  <2>1. UNCHANGED <<row, pc, next, link, agent, out, wire, ran, faults>>
    BY <1>2 DEF PublishScan
  <2>2. down' \in Seq(Scans) /\ lost' \in BOOLEAN
    BY <1>2, PublishTyped DEF PublishScan, QueueInv
  <2>3. maker' \in [Scans -> {"create", "check", "queue", "publish", "done"}]
    BY <1>2 DEF QueueInv, TypeOK, PublishScan
  <2>4. TypeOK'
    BY <2>1, <2>2, <2>3 DEF QueueInv, TypeOK
  <2> QED
    BY <2>1, <2>4 DEF QueueInv, InHand, Truthful, CompletedScanWasRun
<1> QED
  BY <1>1, <1>2 DEF Creator

(* A statement that fails leaves the rows alone. *)
LEMMA FailureQueueInv ==
    ASSUME QueueInv,
           \/ \E s \in Scans : CreatorFails(s)
           \/ \E w \in Conns : DrainFails(w)
    PROVE  QueueInv'
<1> USE DEF QueueInv, TypeOK, InHand
<1>1. ASSUME NEW s \in Scans, CreatorFails(s) PROVE QueueInv'
  <2>1. faults' \in 0 .. MaxFaults
    BY <1>1, QueueAssumption DEF CreatorFails, Fault
  <2> QED
    BY <1>1, <2>1 DEF CreatorFails, Truthful, CompletedScanWasRun
<1>2. ASSUME NEW w \in Conns, DrainFails(w) PROVE QueueInv'
  <2>1. faults' \in 0 .. MaxFaults
    BY <1>2, QueueAssumption DEF DrainFails, Fault
  <2>2. lost' \in BOOLEAN
    BY <1>2 DEF DrainFails
  <2> QED
    BY <1>2, <2>1, <2>2 DEF DrainFails, Truthful, CompletedScanWasRun
<1> QED
  BY <1>1, <1>2

(* A handler settles the scan its report names, as the report says. *)
LEMMA HandlerQueueInv ==
    ASSUME QueueInv, NEW w \in Conns, HandlerStep(w)
    PROVE  QueueInv'
<1> USE DEF QueueInv, TypeOK, InHand
<1>1. CASE Connect(w)
  BY <1>1 DEF Connect, Truthful, CompletedScanWasRun
<1>2. CASE ScanStarted(w)
  <2>1. /\ Reported(w) \in Scans /\ wire' \in [Conns -> Seq(Truthful)]
        /\ wire' \in [Conns -> Seq(Report)]
    BY <1>2, ReceiveTyped DEF ScanStarted
  <2> QED
    BY <1>2, <2>1 DEF ScanStarted, Truthful, CompletedScanWasRun, Active
<1>3. CASE ScanReport(w)
  <2>1. /\ Head(wire[w]) \in Truthful
        /\ Reported(w) \in Scans /\ wire' \in [Conns -> Seq(Truthful)]
        /\ wire' \in [Conns -> Seq(Report)]
    BY <1>3, ReceiveTyped DEF ScanReport
  <2>2. Head(wire[w]).type = "results" => Reported(w) \in ran
    BY <2>1 DEF Truthful, Reported
  <2>3. /\ row' \in [Scans -> {"absent", "queued"} \cup Active \cup Settled]
        /\ CompletedScanWasRun'
    <3>1. CASE UNCHANGED row
      BY <1>3, <3>1 DEF ScanReport, CompletedScanWasRun
    <3>2. CASE row' = [row EXCEPT ![Reported(w)] = LastStatus(Head(wire[w]).type, @)]
      <4> DEFINE old == row[Reported(w)]
                 new == LastStatus(Head(wire[w]).type, old)
      <4>1. old \in {"absent", "queued"} \cup Active \cup Settled
        BY <2>1
      <4>2. Head(wire[w]).type \in {"partial", "results", "error"} /\ ran' = ran
        BY <1>3 DEF ScanReport, Receive
      <4>3. /\ new \in {"absent", "queued"} \cup Active \cup Settled
            /\ new = "completed" => old = "completed" \/ Reported(w) \in ran
        BY <4>1, <4>2, <2>2 DEF LastStatus, Settled
      <4>4. row' = [row EXCEPT ![Reported(w)] = new]
        BY <3>2
      <4> HIDE DEF old, new
      <4>5. \A s \in Scans : row'[s] = IF s = Reported(w) THEN new ELSE row[s]
        BY <4>4
      <4>6. row' \in [Scans -> {"absent", "queued"} \cup Active \cup Settled]
        BY <4>3, <4>4
      <4>7. CompletedScanWasRun'
        BY <4>2, <4>3, <4>5 DEF CompletedScanWasRun, old
      <4> QED
        BY <4>6, <4>7
    <3> QED
      BY <1>3, <3>1, <3>2 DEF ScanReport
  <2>4. lost' \in BOOLEAN
    BY <1>3 DEF ScanReport
  <2>5. faults' \in 0 .. MaxFaults
    BY <1>3, QueueAssumption DEF ScanReport, Fault
  <2>6. /\ pc' = [pc EXCEPT ![w] = "load"]
        /\ UNCHANGED <<maker, next, link, down, agent, out, ran>>
    BY <1>3 DEF ScanReport
  <2>7. TypeOK'
    BY <2>1, <2>3, <2>4, <2>5, <2>6
  <2> QED
    BY <2>1, <2>3, <2>6, <2>7 DEF Truthful
<1>4. CASE OldestQueuedScanForAgent(w)
  <2>1. CASE pc' = [pc EXCEPT ![w] = "read"] /\ UNCHANGED next
    BY <1>4, <2>1 DEF OldestQueuedScanForAgent, Truthful, CompletedScanWasRun
  <2>2. ASSUME NEW s \in Queued, next' = [next EXCEPT ![w] = s],
               pc' = [pc EXCEPT ![w] = "promote"]
        PROVE  QueueInv'
    <3>1. s \in Scans /\ s # None
      BY QueueAssumption DEF Queued, Scans
    <3>2. UNCHANGED <<row, maker, link, down, agent, out, wire, ran, lost, faults>>
      BY <1>4 DEF OldestQueuedScanForAgent
    <3>3. TypeOK' /\ InHand'
      BY <2>2, <3>1, <3>2
    <3> QED
      BY <3>2, <3>3 DEF Truthful, CompletedScanWasRun
  <2>3. \/ pc' = [pc EXCEPT ![w] = "read"] /\ UNCHANGED next
        \/ \E s \in Queued : /\ next' = [next EXCEPT ![w] = s]
                            /\ pc' = [pc EXCEPT ![w] = "promote"]
    BY <1>4, Zenon DEF OldestQueuedScanForAgent
  <2> HIDE DEF QueueInv
  <2> QED
    BY <2>1, <2>2, <2>3
<1>5. CASE PromoteQueued(w)
  BY <1>5 DEF PromoteQueued, Truthful, CompletedScanWasRun, Active
<1>6. CASE PublishQueued(w)
  <2>1. down' \in Seq(Scans) /\ lost' \in BOOLEAN
    BY <1>6, PublishTyped DEF PublishQueued
  <2>2. /\ next' = [next EXCEPT ![w] = None] /\ pc' = [pc EXCEPT ![w] = "read"]
        /\ UNCHANGED <<row, maker, link, agent, out, wire, ran, faults>>
    BY <1>6 DEF PublishQueued
  <2>3. TypeOK'
    BY <2>1, <2>2
  <2>4. InHand'
    BY <2>2
  <2> QED
    BY <2>2, <2>3, <2>4 DEF Truthful, CompletedScanWasRun
<1>7. CASE HangUp(w)
  BY <1>7, EmptySeq DEF HangUp, Truthful, CompletedScanWasRun
<1>8. CASE FailRunningScansForAgent(w)
  BY <1>8 DEF FailRunningScansForAgent, Truthful, CompletedScanWasRun, Settled
<1> QED
  BY <1>1, <1>2, <1>3, <1>4, <1>5, <1>6, <1>7, <1>8 DEF HandlerStep, DrainAgentQueue

LEMMA SweepQueueInv == QueueInv /\ FailStaleQueuedScans => QueueInv'
BY DEF QueueInv, TypeOK, InHand, FailStaleQueuedScans, Truthful, CompletedScanWasRun, Settled

(* A message the agent sends is truthful about what it has run by then. *)
LEMMA SendTyped ==
    ASSUME QueueInv, ran \subseteq ran', NEW m \in Truthful', Send(m)
    PROVE  /\ out' \in Seq(Report) /\ out' \in Seq(Truthful')
           /\ wire \in [Conns -> Seq(Truthful')]
           /\ lost' \in BOOLEAN
<1>1. Truthful \subseteq Truthful' /\ Truthful' \subseteq Report
  BY DEF Truthful
<1>2. ASSUME NEW q \in Seq(Truthful) PROVE q \in Seq(Truthful')
  <2>1. \A i \in 1 .. Len(q) : q[i] \in Truthful'
    BY <1>1, LenProperties, ElementOfSeq
  <2> QED
    BY <2>1, LenProperties
<1>3. out \in Seq(Truthful') /\ wire \in [Conns -> Seq(Truthful')]
  BY <1>2 DEF QueueInv
<1>4. Append(out, m) \in Seq(Truthful') /\ Append(out, m) \in Seq(Report)
  BY <1>1, <1>3, AppendProperties DEF QueueInv, TypeOK
<1>5. out' \in Seq(Report) /\ out' \in Seq(Truthful')
  BY <1>3, <1>4 DEF Send, QueueInv, TypeOK
<1>6. lost' \in BOOLEAN
  BY DEF Send, QueueInv, TypeOK
<1> QED
  BY <1>3, <1>5, <1>6

(* The agent: what it sends, and what is taken off its channels. *)
LEMMA AgentQueueInv ==
    ASSUME QueueInv,
           \/ OnDirective \/ DirectiveLost \/ ControlDone \/ AgentStep \/ Disconnect
           \/ \E w \in Conns : WriteLoop(w)
    PROVE  QueueInv'
<1> USE DEF QueueInv, TypeOK, InHand
<1>1. CASE OnDirective
  <2>1. Head(down) \in Scans /\ Tail(down) \in Seq(Scans)
    BY <1>1, HeadTailProperties DEF OnDirective
  <2>2. /\ Reports("started", Head(down)) \in Truthful'
        /\ Reports("error", Head(down)) \in Truthful'
    BY <2>1, ReportsTyped DEF Truthful, Reports
  <2>3. UNCHANGED <<row, maker, pc, next, link, wire, ran, faults>> /\ down' = Tail(down)
    BY <1>1 DEF OnDirective
  <2>4. /\ out' \in Seq(Report) /\ out' \in Seq(Truthful')
        /\ wire' \in [Conns -> Seq(Truthful')] /\ lost' \in BOOLEAN
    BY <1>1, <2>2, <2>3, SendTyped DEF OnDirective
  <2>5. /\ agent' \in [st : {"idle", "scanning", "ending"}, scan : Scans \cup {None}]
        /\ agent'.st = "scanning" => agent'.scan # None
    BY <1>1, <2>1, QueueAssumption DEF OnDirective, Scans
  <2> QED
    BY <2>1, <2>3, <2>4, <2>5 DEF CompletedScanWasRun
<1>2. CASE DirectiveLost
  <2>1. Tail(down) \in Seq(Scans)
    BY <1>2, HeadTailProperties DEF DirectiveLost
  <2>2. faults' \in 0 .. MaxFaults
    BY <1>2, QueueAssumption DEF DirectiveLost, Fault
  <2> QED
    BY <1>2, <2>1, <2>2 DEF DirectiveLost, Truthful, CompletedScanWasRun
<1>3. CASE ControlDone
  <2>1. Reports("partial", agent.scan) \in Truthful'
    BY <1>3, ReportsTyped DEF ControlDone, Truthful, Reports
  <2> QED
    BY <1>3, <2>1, SendTyped DEF ControlDone, CompletedScanWasRun
<1>4. CASE ScanEnds
  <2>1. agent.scan \in Scans
    BY <1>4 DEF ScanEnds
  <2>2. ran \subseteq ran' /\ ran' \subseteq Scans
    BY <1>4, <2>1 DEF ScanEnds
  <2>3. Reports("error", agent.scan) \in Truthful'
    BY <2>1, ReportsTyped DEF Truthful, Reports
  <2>4. ran' = ran \cup {agent.scan} => Reports("results", agent.scan) \in Truthful'
    BY <2>1, ReportsTyped DEF Truthful, Reports
  <2>5. /\ out' \in Seq(Report) /\ out' \in Seq(Truthful')
        /\ wire \in [Conns -> Seq(Truthful')] /\ lost' \in BOOLEAN
    BY <1>4, <2>2, <2>3, <2>4, SendTyped DEF ScanEnds
  <2>6. /\ UNCHANGED <<row, maker, pc, next, link, down, wire, faults>>
        /\ agent' = [agent EXCEPT !.st = "ending"]
    BY <1>4 DEF ScanEnds
  <2> QED
    BY <2>2, <2>5, <2>6 DEF CompletedScanWasRun
<1>5. CASE ReleaseSemaphore
  BY <1>5 DEF ReleaseSemaphore, Truthful, CompletedScanWasRun
<1>6. CASE Disconnect
  <2>1. /\ wire' \in [Conns -> Seq(Truthful)] /\ wire' \in [Conns -> Seq(Report)]
    <3>1. link \in Conns /\ wire' \in {wire, [wire EXCEPT ![link] = <<>>]}
      BY <1>6 DEF Disconnect
    <3>2. CASE wire' = wire
      BY <3>2
    <3>3. CASE wire' = [wire EXCEPT ![link] = <<>>]
      <4>1. <<>> \in Seq(Truthful) /\ <<>> \in Seq(Report)
        BY EmptySeq
      <4> QED
        BY <3>1, <3>3, <4>1
    <3> QED
      BY <3>1, <3>2, <3>3
  <2>2. faults' \in 0 .. MaxFaults
    BY <1>6, QueueAssumption DEF Disconnect, Fault
  <2>3. /\ link' = None
        /\ UNCHANGED <<row, maker, pc, next, down, agent, out, ran, lost>>
    BY <1>6 DEF Disconnect
  <2> QED
    BY <2>1, <2>2, <2>3 DEF Truthful, CompletedScanWasRun
<1>7. ASSUME NEW w \in Conns, WriteLoop(w) PROVE QueueInv'
  <2>1. /\ Head(out) \in Truthful /\ Tail(out) \in Seq(Truthful)
        /\ Head(out) \in Report /\ Tail(out) \in Seq(Report)
    BY <1>7, HeadTailProperties DEF WriteLoop
  <2>2. /\ Append(wire[w], Head(out)) \in Seq(Truthful)
        /\ Append(wire[w], Head(out)) \in Seq(Report)
    BY <2>1, AppendProperties
  <2> QED
    BY <1>7, <2>1, <2>2 DEF WriteLoop, Truthful, CompletedScanWasRun
<1> QED
  BY <1>1, <1>2, <1>3, <1>4, <1>5, <1>6, <1>7 DEF AgentStep

LEMMA StepQueueInv == QueueInv /\ [Next]_vars => QueueInv'
<1> SUFFICES ASSUME QueueInv, [Next]_vars PROVE QueueInv'
  OBVIOUS
<1>1. CASE UNCHANGED vars
  BY <1>1 DEF vars, QueueInv, TypeOK, InHand, Truthful, CompletedScanWasRun
<1> QED
  BY <1>1, CreatorQueueInv, FailureQueueInv, HandlerQueueInv, SweepQueueInv, AgentQueueInv DEF Next

(* For any number of scans, handlers and faults, a scan whose row says     *)
(* "completed" was run to its end by the agent.                            *)
THEOREM CompletedWasRun == Spec => []CompletedScanWasRun
<1>1. QueueInv => CompletedScanWasRun
  BY DEF QueueInv
<1> QED
  BY <1>1, InitQueueInv, StepQueueInv, PTL DEF Spec

(* For any number of scans, handlers and faults, what the statements write *)
(* into a scan's row is one of its statuses, whatever order they run in,   *)
(* and every other part of the state has its type.                         *)
THEOREM ScanQueueTypeCorrect == Spec => []TypeOK
<1>1. QueueInv => TypeOK
  BY DEF QueueInv
<1> QED
  BY <1>1, InitQueueInv, StepQueueInv, PTL DEF Spec
=============================================================================
