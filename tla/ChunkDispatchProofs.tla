------------------------ MODULE ChunkDispatchProofs -------------------------
(***************************************************************************)
(* Proofs about ChunkDispatch and of its refinement of CheckpointedScan,   *)
(* for any number of chunks, goroutines, attempts, faults and buffer       *)
(* sizes.                                                                  *)
(***************************************************************************)
EXTENDS ChunkRefinement, SequenceTheorems, TLAPS

(* What a dispatcher or the agent needs to have in hand at each step. *)
InHand ==
    /\ \A p \in Procs : pc[p] \in {"publish", "reset", "ack"} => held[p] # None
    /\ agent.st = "scanning" => agent.chunk # None

TypeInv == TypeOK /\ InHand

LEMMA SetFacts ==
    /\ Conns \subseteq Procs /\ Ticks \subseteq Procs /\ Creators \subseteq Procs
    /\ None \notin Chunks /\ None \notin Conns
    /\ MaxAttempts \in Nat /\ MaxFaults \in Nat
BY ChunkAssumption DEF Procs, Chunks

LEMMA ReportsTyped ==
    ASSUME NEW t \in {"started", "completed", "error"}, NEW c \in Chunks
    PROVE  Reports(t, c) \in Report
BY DEF Reports, Report

LEMMA SendTyped ==
    ASSUME TypeOK, NEW m \in Report, Send(m)
    PROVE  /\ out' \in Seq(Report) /\ faults' \in 0 .. MaxFaults
           /\ orphaned' \in BOOLEAN
<1>1. out' \in Seq(Report)
  <2>1. Append(out, m) \in Seq(Report)
    BY AppendProperties DEF TypeOK
  <2> QED
    BY <2>1 DEF TypeOK, Send, Fault
<1>2. faults' \in 0 .. MaxFaults
  BY SetFacts DEF TypeOK, Send, Fault
<1>3. orphaned' \in BOOLEAN
  BY DEF TypeOK, Send
<1> QED
  BY <1>1, <1>2, <1>3

LEMMA TailTyped ==
    ASSUME NEW S, NEW q \in Seq(S), q # <<>>
    PROVE  Head(q) \in S /\ Tail(q) \in Seq(S)
BY HeadTailProperties

(* The messages of a connection a handler reads from are reports. *)
LEMMA ReceiveTyped ==
    ASSUME TypeOK, NEW w \in Conns, NEW t, Receive(w, t)
    PROVE  /\ Reported(w) \in Chunks /\ wire' \in [Conns -> Seq(Report)]
           /\ w \in Procs
<1>1. wire[w] \in Seq(Report) /\ wire[w] # <<>>
  BY DEF TypeOK, Receive
<1>2. Head(wire[w]) \in Report /\ Tail(wire[w]) \in Seq(Report)
  BY <1>1, TailTyped
<1> QED
  BY <1>2, SetFacts DEF TypeOK, Receive, Reported, Report

LEMMA ResetRowsTyped ==
    ASSUME TypeOK, NEW R, ResetRows(R)
    PROVE  /\ status' \in [Chunks -> {"pending", "running", "completed", "failed"}]
           /\ sent' \in [Chunks -> {"null", "recent", "old"}]
BY DEF TypeOK, ResetRows

LEMMA InitTypeInv == Init => TypeInv
<1> SUFFICES ASSUME Init PROVE TypeInv
  OBVIOUS
<1>1. out \in Seq(Report) /\ wire \in [Conns -> Seq(Report)]
  BY EmptySeq DEF Init
<1>2. /\ scan \in Active \cup Terminal
      /\ status \in [Chunks -> {"pending", "running", "completed", "failed"}]
      /\ attempts \in [Chunks -> 0 .. MaxAttempts]
      /\ sent \in [Chunks -> {"null", "recent", "old"}]
  BY ChunkAssumption DEF Init, Active, Terminal
<1>3. /\ pc \in [Procs -> {"off", "idle", "resume", "ack", "summary", "claim",
                           "check", "finish", "publish", "reset", "abandon"}]
      /\ verdict \in [Procs -> {"open", "alldone", "deadend"}]
      /\ held \in [Procs -> Chunks \cup {None}]
  BY DEF Init
<1>4. /\ link \in Conns \cup {None} /\ row \in {"connected", "disconnected"}
      /\ down \subseteq (Conns \X Chunks)
      /\ agent \in [st : {"idle", "scanning", "ending"}, chunk : Chunks \cup {None}]
  BY DEF Init
<1>5. scanned \subseteq Chunks /\ terminals \in 0 .. 2 /\ faults \in 0 .. MaxFaults
  BY SetFacts DEF Init
<1>6. orphaned \in BOOLEAN
  BY DEF Init
<1>7. InHand
  BY DEF Init, InHand
<1> QED
  BY <1>1, <1>2, <1>3, <1>4, <1>5, <1>6, <1>7 DEF TypeInv, TypeOK

(* A goroutine that returns to its caller has nothing left in hand. *)
LEMMA ReturnTyped ==
    ASSUME TypeInv, NEW p \in Procs, Return(p)
    PROVE  /\ pc' \in [Procs -> {"off", "idle", "resume", "ack", "summary", "claim",
                                 "check", "finish", "publish", "reset", "abandon"}]
           /\ verdict' \in [Procs -> {"open", "alldone", "deadend"}]
           /\ held' \in [Procs -> Chunks \cup {None}]
           /\ \A q \in Procs : pc'[q] \in {"publish", "reset", "ack"} => held'[q] # None
BY DEF TypeInv, TypeOK, InHand, Return, AfterDispatch

(* DispatchNextChunk, statement by statement. *)
LEMMA DispatchTypeInv ==
    ASSUME TypeInv, NEW p \in Procs, DispatchNextChunk(p) \/ DispatchError(p)
    PROVE  TypeInv'
<1> USE SetFacts DEF TypeInv, TypeOK, InHand, Active, Terminal
<1>1. CASE ScanChunkSummary(p)
  BY <1>1 DEF ScanChunkSummary, Verdict, dbVars, linkVars, agentVars, history
<1>2. CASE ClaimNextScanChunk(p)
  BY <1>2 DEF ClaimNextScanChunk, Claimable, linkVars, agentVars, history
<1>3. CASE NothingToClaim(p)
  BY <1>3 DEF NothingToClaim, dbVars, linkVars, agentVars, history
<1>4. CASE CheckParent(p)
  <2>1. CASE Return(p)
    BY <1>4, <2>1, ReturnTyped DEF CheckParent, dbVars, linkVars, agentVars, history
  <2>2. CASE pc' = [pc EXCEPT ![p] = "finish"] /\ UNCHANGED <<verdict, held>>
    BY <1>4, <2>2 DEF CheckParent, dbVars, linkVars, agentVars, history
  <2> QED
    BY <1>4, <2>1, <2>2 DEF CheckParent
<1>5. CASE FinishParent(p)
  BY <1>5, ReturnTyped DEF FinishParent, FinalStatus, linkVars, agentVars
<1>6. CASE PublishDirective(p)
  BY <1>6, ReturnTyped DEF PublishDirective, Listening, Subscribing,
              dbVars, linkVars, agentVars, history
<1>7. CASE ResetScanChunkToPending(p)
  <2>1. /\ status' \in [Chunks -> {"pending", "running", "completed", "failed"}]
        /\ sent' \in [Chunks -> {"null", "recent", "old"}]
    <3>1. held[p] \in Chunks /\ "pending" \in {"pending", "running", "completed", "failed"}
      BY <1>7 DEF ResetScanChunkToPending
    <3>2. CASE UNCHANGED <<status, sent>>
      BY <3>2
    <3>3. CASE /\ status' = [status EXCEPT ![held[p]] = "pending"]
               /\ sent' = [sent EXCEPT ![held[p]] = "null"]
      BY <3>1, <3>3
    <3> QED
      BY <1>7, <3>2, <3>3 DEF ResetScanChunkToPending
  <2> QED
    BY <1>7, <2>1, ReturnTyped DEF ResetScanChunkToPending, linkVars, agentVars, history
<1>8. CASE PublishError(p)
  BY <1>8 DEF PublishError, Fault, dbVars, linkVars, agentVars, history
<1>9. CASE StatementError(p)
  BY <1>9, ReturnTyped DEF StatementError, Fault, dbVars, linkVars, agentVars, history
<1> QED
  BY <1>1, <1>2, <1>3, <1>4, <1>5, <1>6, <1>7, <1>8, <1>9
     DEF DispatchNextChunk, DispatchError

(* The handlers of one connection. *)
LEMMA ConnTypeInv ==
    ASSUME TypeInv, NEW w \in Conns,
           \/ ConnStep(w) \/ ResumeTimeout(w) \/ ReportHandlingFails(w)
           \/ Heartbeat(w) \/ WriteLoop(w)
    PROVE  TypeInv'
<1> USE SetFacts DEF TypeInv, TypeOK, InHand, Active, Terminal
<1>1. CASE Connect(w)
  BY <1>1 DEF Connect, dbVars, agentVars, history
<1>2. CASE ResumeChunkedScans(w)
  BY <1>2, ResetRowsTyped DEF ResumeChunkedScans, linkVars, agentVars, history
<1>3. CASE ScanStarted(w)
  <2>1. faults' \in 0 .. MaxFaults /\ scan' \in {scan, "running"}
    BY <1>3, ChunkAssumption DEF ScanStarted, Fault
  <2> QED
    BY <1>3, <2>1, ReceiveTyped DEF ScanStarted, agentVars, history
<1>4. CASE AckScanChunkStarted(w)
  BY <1>4, ReturnTyped DEF AckScanChunkStarted, linkVars, agentVars, history
<1>5. CASE DiscoveryCompleted(w)
  <2>1. Reported(w) \in Chunks /\ wire' \in [Conns -> Seq(Report)] /\ w \in Procs
    BY <1>5, ReceiveTyped DEF DiscoveryCompleted
  <2>2. /\ status' \in [Chunks -> {"pending", "running", "completed", "failed"}]
        /\ sent' \in [Chunks -> {"null", "recent", "old"}]
    <3>1. CASE UNCHANGED <<status, sent>>
      BY <3>1
    <3>2. CASE /\ status' = [status EXCEPT ![Reported(w)] = "completed"]
               /\ sent' = [sent EXCEPT ![Reported(w)] = "null"]
      BY <2>1, <3>2
    <3> QED
      BY <1>5, <3>1, <3>2 DEF DiscoveryCompleted
  <2>3. /\ pc' \in [Procs -> {"off", "idle", "resume", "ack", "summary", "claim",
                              "check", "finish", "publish", "reset", "abandon"}]
        /\ \A p \in Procs : pc'[p] \in {"publish", "reset", "ack"} => held'[p] # None
    BY <1>5 DEF DiscoveryCompleted
  <2> QED
    BY <1>5, <2>1, <2>2, <2>3 DEF DiscoveryCompleted, agentVars, history
<1>6. CASE ScanError(w)
  <2>1. Reported(w) \in Chunks /\ wire' \in [Conns -> Seq(Report)]
    BY <1>6, ReceiveTyped DEF ScanError
  <2>2. /\ status' \in [Chunks -> {"pending", "running", "completed", "failed"}]
        /\ sent' \in [Chunks -> {"null", "recent", "old"}]
    BY <1>6, <2>1 DEF ScanError
  <2>4. attempts' \in [Chunks -> 0 .. MaxAttempts]
    <3>1. CASE attempts' = attempts
      BY <3>1
    <3>2. CASE attempts' = [attempts EXCEPT ![Reported(w)] =
                              IF @ < MaxAttempts THEN @ + 1 ELSE @]
      BY <2>1, <3>2
    <3> QED
      BY <1>6, <3>1, <3>2 DEF ScanError
  <2>3. /\ pc' \in [Procs -> {"off", "idle", "resume", "ack", "summary", "claim",
                              "check", "finish", "publish", "reset", "abandon"}]
        /\ \A p \in Procs : pc'[p] \in {"publish", "reset", "ack"} => held'[p] # None
    BY <1>6 DEF ScanError
  <2> QED
    BY <1>6, <2>1, <2>2, <2>3, <2>4 DEF ScanError, agentVars, history
<1>7. CASE HangUp(w)
  <2>1. wire' \in [Conns -> Seq(Report)] /\ link' \in Conns \cup {None}
    <3>1. CASE UNCHANGED link /\ wire' = [wire EXCEPT ![w] = <<>>]
      BY <3>1, EmptySeq
    <3>2. CASE /\ link # None /\ link' = None
               /\ wire' = [wire EXCEPT ![w] = <<>>, ![link] = <<>>]
      BY <3>2, EmptySeq
    <3> QED
      BY <1>7, <3>1, <3>2 DEF HangUp
  <2> QED
    BY <1>7, <2>1 DEF HangUp, dbVars, agentVars, history
<1>8. CASE ResumeTimeout(w)
  BY <1>8 DEF ResumeTimeout, Fault, dbVars, linkVars, agentVars
<1>9. CASE ReportHandlingFails(w)
  <2>1. wire' \in [Conns -> Seq(Report)]
    BY <1>9, ReceiveTyped DEF ReportHandlingFails
  <2>2. faults' \in 0 .. MaxFaults /\ orphaned' \in BOOLEAN
    BY <1>9 DEF ReportHandlingFails, Fault
  <2> QED
    BY <1>9, <2>1, <2>2 DEF ReportHandlingFails, dbVars, procVars, agentVars
<1>10. CASE Heartbeat(w)
  BY <1>10 DEF Heartbeat, dbVars, procVars, agentVars, history
<1>11. CASE WriteLoop(w)
  BY <1>11, TailTyped, AppendProperties DEF WriteLoop, dbVars, procVars, history
<1> QED
  BY <1>1, <1>2, <1>3, <1>4, <1>5, <1>6, <1>7, <1>8, <1>9, <1>10, <1>11 DEF ConnStep

(* The scheduler tick, and the clock it reads. *)
LEMMA TickTypeInv ==
    ASSUME TypeInv,
           \/ \E t \in Ticks : TickStep(t)
           \/ \E c \in Chunks : Age(c)
    PROVE  TypeInv'
<1> USE SetFacts DEF TypeInv, TypeOK, InHand, Active, Terminal
<1>1. ASSUME NEW t \in Ticks, TickSweep(t) PROVE TypeInv'
  <2>1. /\ status' \in [Chunks -> {"pending", "running", "completed", "failed"}]
        /\ sent' \in [Chunks -> {"null", "recent", "old"}]
    BY <1>1, ResetRowsTyped DEF TickSweep
  <2>2. scan' \in Active \cup Terminal
    BY <1>1 DEF TickSweep, FailAbandonedChunkedScans
  <2>3. /\ pc' \in [Procs -> {"off", "idle", "resume", "ack", "summary", "claim",
                              "check", "finish", "publish", "reset", "abandon"}]
        /\ \A p \in Procs : pc'[p] \in {"publish", "reset", "ack"} => held'[p] # None
    BY <1>1 DEF TickSweep
  <2> QED
    BY <1>1, <2>1, <2>2, <2>3 DEF TickSweep, linkVars, agentVars, history
<1>2. ASSUME NEW t \in Ticks, TickEnd(t) PROVE TypeInv'
  BY <1>2 DEF TickEnd, FailAbandonedChunkedScans, linkVars, agentVars, history
<1>3. ASSUME NEW c \in Chunks, Age(c) PROVE TypeInv'
  BY <1>3 DEF Age, Fault, procVars, linkVars, agentVars, history
<1> QED
  BY <1>1, <1>2, <1>3 DEF TickStep

(* The agent and the directives on their way to it. *)
LEMMA AgentTypeInv ==
    ASSUME TypeInv,
           \/ \E w \in Conns, c \in Chunks : OnDirective(w, c) \/ DirectiveLost(w, c)
           \/ AgentStep
    PROVE  TypeInv'
<1> USE SetFacts DEF TypeInv, TypeOK, InHand, Active, Terminal
<1>1. ASSUME NEW w \in Conns, NEW c \in Chunks, OnDirective(w, c) PROVE TypeInv'
  <2>1. \E t \in {"started", "error"} : Send(Reports(t, c))
    BY <1>1 DEF OnDirective
  <2>2. out' \in Seq(Report) /\ faults' \in 0 .. MaxFaults /\ orphaned' \in BOOLEAN
    BY <2>1, SendTyped, ReportsTyped
  <2> QED
    BY <1>1, <2>2 DEF OnDirective, dbVars, procVars, linkVars
<1>2. ASSUME NEW w \in Conns, NEW c \in Chunks, DirectiveLost(w, c) PROVE TypeInv'
  BY <1>2 DEF DirectiveLost, Fault, dbVars, procVars, linkVars, agentVars, history
<1>3. CASE PipelineDone
  BY <1>3, SendTyped, ReportsTyped DEF PipelineDone, dbVars, procVars, linkVars
<1>4. CASE ReleaseSemaphore
  BY <1>4 DEF ReleaseSemaphore, dbVars, procVars, linkVars, history
<1> QED
  BY <1>1, <1>2, <1>3, <1>4 DEF AgentStep

LEMMA FaultTypeInv ==
    ASSUME TypeInv, Disconnect \/ AgentRestart \/ ApiRestart
    PROVE  TypeInv'
<1> USE SetFacts DEF TypeInv, TypeOK, InHand, Active, Terminal
<1>1. CASE Disconnect
  <2>1. PICK kept \in 0 .. Len(wire[link]) :
             wire' = [wire EXCEPT ![link] = SubSeq(@, 1, kept)]
    BY <1>1 DEF Disconnect
  <2>2. link \in Conns /\ wire[link] \in Seq(Report)
    BY <1>1 DEF Disconnect
  <2>3. SubSeq(wire[link], 1, kept) \in Seq(Report)
    BY <2>2, SubSeqProperties
  <2> QED
    BY <1>1, <2>1, <2>2, <2>3 DEF Disconnect, Fault, dbVars, procVars, agentVars, history
<1>2. CASE AgentRestart
  BY <1>2, EmptySeq DEF AgentRestart, Fault, dbVars, procVars, history
<1>3. CASE ApiRestart
  BY <1>3, EmptySeq DEF ApiRestart, Fault, dbVars, agentVars, history
<1> QED
  BY <1>1, <1>2, <1>3

LEMMA StepTypeInv == TypeInv /\ [Next]_vars => TypeInv'
<1> SUFFICES ASSUME TypeInv, [Next]_vars PROVE TypeInv'
  OBVIOUS
<1>1. CASE \E p \in Procs : DispatchNextChunk(p) \/ DispatchError(p)
  BY <1>1, DispatchTypeInv
<1>2. CASE \E w \in Conns : \/ ConnStep(w) \/ ResumeTimeout(w) \/ ReportHandlingFails(w)
                            \/ Heartbeat(w) \/ WriteLoop(w)
  BY <1>2, ConnTypeInv
<1>3. CASE \E w \in Conns, c \in Chunks : OnDirective(w, c) \/ DirectiveLost(w, c)
  BY <1>3, AgentTypeInv
<1>4. CASE (\E t \in Ticks : TickStep(t)) \/ (\E c \in Chunks : Age(c))
  BY <1>4, TickTypeInv
<1>5. CASE AgentStep
  BY <1>5, AgentTypeInv
<1>6. CASE Disconnect \/ AgentRestart \/ ApiRestart
  BY <1>6, FaultTypeInv
<1>7. CASE UNCHANGED vars
  BY <1>7 DEF vars, TypeInv, TypeOK, InHand
<1> QED
  BY <1>1, <1>2, <1>3, <1>4, <1>5, <1>6, <1>7 DEF Next

(* Every variable keeps its type, for any number of chunks, goroutines,    *)
(* faults and buffer slots: in particular the chunk vocabulary stays apart *)
(* from the parent's, and no goroutine acts on a chunk it does not hold.   *)
THEOREM TypeCorrect == Spec => []TypeOK
<1>1. TypeInv => TypeOK
  BY DEF TypeInv
<1> QED
  BY <1>1, InitTypeInv, StepTypeInv, PTL DEF Spec

(***************************************************************************)
(* Coverage.  CompletedScanCoversTarget is not inductive: a parent is      *)
(* completed on a verdict read earlier, that verdict on chunk rows, and    *)
(* those rows on reports that were in a buffer, on the wire or lost.  The  *)
(* strengthening says of each of them that it never claims more than what  *)
(* the agent has scanned, which only grows.                                *)
(***************************************************************************)
Truthful == {m \in Report : m.type = "completed" => m.chunk \in scanned}

CoverInv ==
    /\ TypeInv
    /\ out \in Seq(Truthful)
    /\ wire \in [Conns -> Seq(Truthful)]
    /\ CompletedChunkWasScanned
    /\ \A p \in Procs : verdict[p] = "alldone" => scanned = Chunks
    /\ CompletedScanCoversTarget

LEMMA InitCoverInv == Init => CoverInv
<1> SUFFICES ASSUME Init PROVE CoverInv
  OBVIOUS
<1>1. out \in Seq(Truthful) /\ wire \in [Conns -> Seq(Truthful)]
  BY EmptySeq DEF Init
<1>2. CompletedChunkWasScanned /\ CompletedScanCoversTarget
  BY DEF Init, CompletedChunkWasScanned, CompletedScanCoversTarget
<1>3. \A p \in Procs : verdict[p] = "alldone" => scanned = Chunks
  BY DEF Init
<1> QED
  BY <1>1, <1>2, <1>3, InitTypeInv DEF CoverInv

(* Reports stay truthful while the agent scans more chunks. *)
LEMMA TruthfulGrows ==
    ASSUME CoverInv, scanned \subseteq scanned'
    PROVE  /\ out \in Seq(Truthful') /\ wire \in [Conns -> Seq(Truthful')]
           /\ Truthful \subseteq Truthful'
<1>1. Truthful \subseteq Truthful'
  BY DEF Truthful
<1>2. \A q \in Seq(Truthful) : q \in Seq(Truthful')
  <2> TAKE q \in Seq(Truthful)
  <2>1. \A i \in 1 .. Len(q) : q[i] \in Truthful'
    BY <1>1, LenProperties, ElementOfSeq
  <2> QED
    BY <2>1, LenProperties
<1> QED
  BY <1>1, <1>2 DEF CoverInv

(* A verdict is as good as the rows it was read from. *)
LEMMA DispatchCoverInv ==
    ASSUME CoverInv, NEW p \in Procs, DispatchNextChunk(p) \/ DispatchError(p)
    PROVE  CoverInv'
<1>1. TypeInv'
  BY DispatchTypeInv DEF CoverInv
<1>2. UNCHANGED <<out, wire, scanned>>
  BY DEF DispatchNextChunk, ScanChunkSummary, ClaimNextScanChunk, NothingToClaim,
         CheckParent, FinishParent, PublishDirective, DispatchError, PublishError, StatementError,
         ResetScanChunkToPending, dbVars, linkVars, agentVars, history
<1>3. out' \in Seq(Truthful)' /\ wire' \in [Conns -> Seq(Truthful)]'
  BY <1>2 DEF CoverInv, Truthful
<1>4. CompletedChunkWasScanned'
  BY <1>2 DEF CoverInv, TypeInv, TypeOK, CompletedChunkWasScanned, DispatchNextChunk,
         ScanChunkSummary, ClaimNextScanChunk, NothingToClaim, CheckParent,
         FinishParent, PublishDirective, DispatchError, PublishError, StatementError, ResetScanChunkToPending, dbVars
<1>5. \A q \in Procs : verdict'[q] = "alldone" => scanned' = Chunks
  <2>1. CASE ScanChunkSummary(p)
    <3>1. Verdict = "alldone" => scanned = Chunks
      BY DEF Verdict, CoverInv, CompletedChunkWasScanned, TypeInv, TypeOK
    <3> QED
      BY <1>2, <2>1, <3>1 DEF ScanChunkSummary, CoverInv, TypeInv, TypeOK
  <2>2. CASE Return(p)
    BY <1>2, <2>2 DEF Return, CoverInv, TypeInv, TypeOK
  <2>3. CASE UNCHANGED verdict
    BY <1>2, <2>3 DEF CoverInv
  <2> QED
    BY <2>1, <2>2, <2>3
       DEF DispatchNextChunk, ClaimNextScanChunk, NothingToClaim, CheckParent,
           FinishParent, PublishDirective, DispatchError, PublishError, StatementError, ResetScanChunkToPending
<1>6. CompletedScanCoversTarget'
  <2>1. CASE FinishParent(p)
    BY <1>2, <2>1 DEF FinishParent, FinalStatus, CoverInv, CompletedScanCoversTarget
  <2>2. CASE UNCHANGED scan
    BY <1>2, <2>2 DEF CoverInv, CompletedScanCoversTarget
  <2> QED
    BY <2>1, <2>2
       DEF DispatchNextChunk, ScanChunkSummary, ClaimNextScanChunk, NothingToClaim,
           CheckParent, PublishDirective, DispatchError, PublishError, StatementError, ResetScanChunkToPending, dbVars
<1> QED
  BY <1>1, <1>3, <1>4, <1>5, <1>6 DEF CoverInv

(* A handler completes the chunk its report names, and no other. *)
LEMMA ConnCoverInv ==
    ASSUME CoverInv, NEW w \in Conns,
           \/ ConnStep(w) \/ ResumeTimeout(w) \/ ReportHandlingFails(w)
           \/ Heartbeat(w) \/ WriteLoop(w)
    PROVE  CoverInv'
<1> USE DEF ConnStep
<1>1. TypeInv'
  BY ConnTypeInv DEF CoverInv
<1>2. UNCHANGED scanned /\ Truthful' = Truthful
  BY DEF Connect, ResumeChunkedScans, ScanStarted, AckScanChunkStarted,
         DiscoveryCompleted, ScanError, HangUp, ResumeTimeout, ReportHandlingFails,
         Heartbeat, WriteLoop, dbVars, linkVars, agentVars, history, Truthful
<1>3. ASSUME NEW t, Receive(w, t)
      PROVE  /\ wire' \in [Conns -> Seq(Truthful)]
             /\ t = "completed" => Reported(w) \in scanned
  <2>1. wire[w] \in Seq(Truthful) /\ wire[w] # <<>>
    BY <1>3 DEF CoverInv, Receive
  <2>2. Head(wire[w]) \in Truthful /\ Tail(wire[w]) \in Seq(Truthful)
    BY <2>1, TailTyped
  <2> QED
    BY <1>3, <2>2 DEF CoverInv, Receive, Reported, Truthful
<1>4. out' \in Seq(Truthful)' /\ wire' \in [Conns -> Seq(Truthful)]'
  <2>1. CASE WriteLoop(w)
    <3>1. Head(out) \in Truthful /\ Tail(out) \in Seq(Truthful)
      BY <2>1, TailTyped DEF CoverInv, WriteLoop
    <3>2. Append(wire[w], Head(out)) \in Seq(Truthful)
      BY <3>1, AppendProperties DEF CoverInv
    <3> QED
      BY <1>2, <2>1, <3>1, <3>2 DEF CoverInv, WriteLoop
  <2>2. CASE HangUp(w)
    BY <1>2, <2>2, EmptySeq DEF CoverInv, HangUp, agentVars
  <2>3. CASE ScanStarted(w) \/ DiscoveryCompleted(w) \/ ScanError(w) \/ ReportHandlingFails(w)
    <3>1. wire' \in [Conns -> Seq(Truthful)]
      BY <1>3, <2>3 DEF ScanStarted, DiscoveryCompleted, ScanError, ReportHandlingFails
    <3>2. out' = out
      BY <2>3 DEF ScanStarted, DiscoveryCompleted, ScanError, ReportHandlingFails, agentVars
    <3> QED
      BY <1>2, <3>1, <3>2 DEF CoverInv
  <2>4. CASE UNCHANGED <<out, wire>>
    BY <1>2, <2>4 DEF CoverInv
  <2> QED
    BY <2>1, <2>2, <2>3, <2>4
       DEF Connect, ResumeChunkedScans, AckScanChunkStarted, ResumeTimeout, Heartbeat,
           linkVars, agentVars
<1>5. CompletedChunkWasScanned'
  <2>1. CASE DiscoveryCompleted(w)
    <3>1. Reported(w) \in scanned
      BY <1>3, <2>1 DEF DiscoveryCompleted
    <3> QED
      BY <1>2, <2>1, <3>1
         DEF DiscoveryCompleted, CoverInv, TypeInv, TypeOK, CompletedChunkWasScanned
  <2>2. CASE ScanError(w)
    BY <1>2, <2>2 DEF ScanError, CoverInv, TypeInv, TypeOK, CompletedChunkWasScanned
  <2>3. CASE ResumeChunkedScans(w)
    BY <1>2, <2>3 DEF ResumeChunkedScans, ResetRows, CoverInv, CompletedChunkWasScanned
  <2>4. CASE UNCHANGED status
    BY <1>2, <2>4 DEF CoverInv, CompletedChunkWasScanned
  <2> QED
    BY <2>1, <2>2, <2>3, <2>4
       DEF Connect, ScanStarted, AckScanChunkStarted, HangUp, ResumeTimeout,
           ReportHandlingFails, Heartbeat, WriteLoop, dbVars
<1>6. \A p \in Procs : verdict'[p] = "alldone" => scanned' = Chunks
  <2>1. CASE Return(w)
    BY <1>2, <2>1 DEF Return, CoverInv, TypeInv, TypeOK
  <2>2. CASE UNCHANGED verdict
    BY <1>2, <2>2 DEF CoverInv
  <2> QED
    BY <2>1, <2>2
       DEF Connect, ResumeChunkedScans, ScanStarted, AckScanChunkStarted,
           DiscoveryCompleted, ScanError, HangUp, ResumeTimeout, ReportHandlingFails,
           Heartbeat, WriteLoop, procVars
<1>7. CompletedScanCoversTarget'
  <2>1. scan' = scan \/ scan' = "running"
    BY DEF Connect, ResumeChunkedScans, ScanStarted, AckScanChunkStarted,
           DiscoveryCompleted, ScanError, HangUp, ResumeTimeout, ReportHandlingFails,
           Heartbeat, WriteLoop, dbVars
  <2> QED
    BY <1>2, <2>1 DEF CoverInv, CompletedScanCoversTarget
<1> QED
  BY <1>1, <1>4, <1>5, <1>6, <1>7 DEF CoverInv

(* The tick puts rows back to pending and at most fails the parent. *)
LEMMA TickCoverInv ==
    ASSUME CoverInv,
           \/ \E t \in Ticks : TickStep(t)
           \/ \E c \in Chunks : Age(c)
    PROVE  CoverInv'
<1>1. TypeInv'
  BY TickTypeInv DEF CoverInv
<1>2. UNCHANGED <<out, wire, scanned, verdict>>
  BY DEF TickStep, TickSweep, TickEnd, Age, linkVars, agentVars, history, procVars
<1>3. out' \in Seq(Truthful)' /\ wire' \in [Conns -> Seq(Truthful)]'
  BY <1>2 DEF CoverInv, Truthful
<1>4. CompletedChunkWasScanned'
  BY <1>2 DEF CoverInv, CompletedChunkWasScanned, TickStep, TickSweep, TickEnd, Age, ResetRows
<1>5. scan' = scan \/ scan' = "failed"
  BY DEF TickStep, TickSweep, TickEnd, Age, FailAbandonedChunkedScans
<1>6. CompletedScanCoversTarget'
  BY <1>2, <1>5 DEF CoverInv, CompletedScanCoversTarget
<1> QED
  BY <1>1, <1>2, <1>3, <1>4, <1>6 DEF CoverInv

(* The agent says "completed" of a chunk only when its pipeline has ended. *)
LEMMA AgentCoverInv ==
    ASSUME CoverInv,
           \/ \E w \in Conns, c \in Chunks : OnDirective(w, c) \/ DirectiveLost(w, c)
           \/ AgentStep
    PROVE  CoverInv'
<1>1. TypeInv'
  BY AgentTypeInv DEF CoverInv
<1>2. UNCHANGED <<dbVars, procVars, wire>> /\ scanned \subseteq scanned'
  BY DEF OnDirective, DirectiveLost, AgentStep, PipelineDone, ReleaseSemaphore,
         linkVars, history
<1>3. wire' \in [Conns -> Seq(Truthful)]' /\ out \in Seq(Truthful')
  BY <1>2, TruthfulGrows
<1>4. ASSUME NEW m \in Truthful', Send(m) PROVE out' \in Seq(Truthful)'
  <2>1. Append(out, m) \in Seq(Truthful')
    BY <1>3, <1>4, AppendProperties
  <2> QED
    BY <1>3, <1>4, <2>1 DEF Send
<1>5. out' \in Seq(Truthful)'
  <2>1. ASSUME NEW w \in Conns, NEW c \in Chunks, OnDirective(w, c)
        PROVE  out' \in Seq(Truthful)'
    <3>1. /\ Reports("started", c) \in Truthful'
          /\ Reports("error", c) \in Truthful'
      BY ReportsTyped DEF Truthful, Reports
    <3> QED
      BY <1>4, <2>1, <3>1 DEF OnDirective
  <2>2. CASE PipelineDone
    <3>1. agent.chunk \in Chunks
      BY <2>2 DEF PipelineDone, CoverInv, TypeInv, TypeOK, InHand
    <3>2. Reports("error", agent.chunk) \in Truthful'
      BY <3>1, ReportsTyped DEF Truthful, Reports
    <3>3. CASE /\ Send(Reports("completed", agent.chunk))
               /\ scanned' = scanned \cup {agent.chunk}
      <4>1. Reports("completed", agent.chunk) \in Truthful'
        BY <3>1, <3>3, ReportsTyped DEF Truthful, Reports
      <4> QED
        BY <1>4, <3>3, <4>1
    <3> QED
      BY <1>4, <2>2, <3>2, <3>3 DEF PipelineDone
  <2>3. CASE UNCHANGED out
    BY <1>3, <2>3
  <2> QED
    BY <2>1, <2>2, <2>3 DEF DirectiveLost, AgentStep, ReleaseSemaphore, agentVars
<1>6. scanned = Chunks => scanned' = Chunks
  BY <1>1, <1>2 DEF TypeInv, TypeOK
<1>7. /\ CompletedChunkWasScanned' /\ CompletedScanCoversTarget'
      /\ \A p \in Procs : verdict'[p] = "alldone" => scanned' = Chunks
  BY <1>2, <1>6 DEF CoverInv, CompletedChunkWasScanned, CompletedScanCoversTarget,
                    dbVars, procVars
<1> QED
  BY <1>1, <1>3, <1>5, <1>7 DEF CoverInv

(* A fault loses reports; it never invents one. *)
LEMMA FaultCoverInv ==
    ASSUME CoverInv, Disconnect \/ AgentRestart \/ ApiRestart
    PROVE  CoverInv'
<1>1. TypeInv'
  BY FaultTypeInv DEF CoverInv
<1>2. UNCHANGED <<dbVars, scanned>> /\ Truthful' = Truthful
  BY DEF Disconnect, AgentRestart, ApiRestart, history, Truthful
<1>3. out' \in Seq(Truthful)'
  BY <1>2, EmptySeq DEF CoverInv, Disconnect, AgentRestart, ApiRestart, agentVars
<1>4. wire' \in [Conns -> Seq(Truthful)]'
  <2>1. CASE Disconnect
    <3>1. PICK kept \in 0 .. Len(wire[link]) :
               wire' = [wire EXCEPT ![link] = SubSeq(@, 1, kept)]
      BY <2>1 DEF Disconnect
    <3>2. link \in Conns /\ wire[link] \in Seq(Truthful)
      BY <2>1 DEF Disconnect, CoverInv, TypeInv, TypeOK
    <3>3. SubSeq(wire[link], 1, kept) \in Seq(Truthful)
      BY <3>2, SubSeqProperties
    <3> QED
      BY <1>2, <3>1, <3>2, <3>3 DEF CoverInv
  <2>2. CASE AgentRestart \/ ApiRestart
    BY <1>2, <2>2, EmptySeq DEF AgentRestart, ApiRestart, CoverInv
  <2> QED
    BY <2>1, <2>2
<1>5. \A p \in Procs : verdict'[p] = "alldone" => scanned' = Chunks
  BY <1>2 DEF CoverInv, Disconnect, AgentRestart, ApiRestart, procVars
<1>6. CompletedChunkWasScanned' /\ CompletedScanCoversTarget'
  BY <1>2 DEF CoverInv, CompletedChunkWasScanned, CompletedScanCoversTarget, dbVars
<1> QED
  BY <1>1, <1>3, <1>4, <1>5, <1>6 DEF CoverInv

LEMMA StepCoverInv == CoverInv /\ [Next]_vars => CoverInv'
<1> SUFFICES ASSUME CoverInv, [Next]_vars PROVE CoverInv'
  OBVIOUS
<1>1. CASE \E p \in Procs : DispatchNextChunk(p) \/ DispatchError(p)
  BY <1>1, DispatchCoverInv
<1>2. CASE \E w \in Conns : \/ ConnStep(w) \/ ResumeTimeout(w) \/ ReportHandlingFails(w)
                            \/ Heartbeat(w) \/ WriteLoop(w)
  BY <1>2, ConnCoverInv
<1>3. CASE \E w \in Conns, c \in Chunks : OnDirective(w, c) \/ DirectiveLost(w, c)
  BY <1>3, AgentCoverInv
<1>4. CASE (\E t \in Ticks : TickStep(t)) \/ (\E c \in Chunks : Age(c))
  BY <1>4, TickCoverInv
<1>5. CASE AgentStep
  BY <1>5, AgentCoverInv
<1>6. CASE Disconnect \/ AgentRestart \/ ApiRestart
  BY <1>6, FaultCoverInv
<1>7. CASE UNCHANGED vars
  <2>1. TypeInv'
    BY <1>7, StepTypeInv DEF CoverInv
  <2> QED
    BY <1>7, <2>1 DEF vars, CoverInv, Truthful, CompletedChunkWasScanned,
                      CompletedScanCoversTarget
<1> QED
  BY <1>1, <1>2, <1>3, <1>4, <1>5, <1>6, <1>7 DEF Next

(* A parent that is reported as completed had every chunk of its target    *)
(* scanned by the agent, for any number of chunks, of goroutines that      *)
(* dispatch at the same time, of API instances and of faults.              *)
THEOREM CompletedCovers == Spec => []CompletedScanCoversTarget
<1>1. CoverInv => CompletedScanCoversTarget
  BY DEF CoverInv
<1> QED
  BY <1>1, InitCoverInv, StepCoverInv, PTL DEF Spec

(***************************************************************************)
(* Bounded retries.  Only a claim, a reset, a failed publish and a report  *)
(* write a chunk row; none takes an exhausted chunk out of failed but the  *)
(* report that it completed.                                               *)
(***************************************************************************)
StaysDown ==
    \A c \in Chunks : status[c] = "failed" /\ attempts[c] = MaxAttempts
                       => status'[c] \in {"failed", "completed"}

LEMMA UntouchedStaysDown ==
    ASSUME UNCHANGED status
    PROVE  StaysDown
BY DEF StaysDown

(* A reset of running rows leaves the failed ones alone. *)
LEMMA ResetStaysDown ==
    ASSUME NEW R \in SUBSET RunningRows, ResetRows(R)
    PROVE  StaysDown
<1>1. \A c \in R : status[c] = "running"
  BY DEF RunningRows
<1> QED
  BY <1>1 DEF ResetRows, StaysDown

LEMMA DispatchStaysDown ==
    ASSUME TypeInv, NEW p \in Procs, DispatchNextChunk(p) \/ DispatchError(p)
    PROVE  StaysDown
<1>1. CASE ClaimNextScanChunk(p)
  <2>1. PICK d \in Claimable : status' = [status EXCEPT ![d] = "running"]
    BY <1>1 DEF ClaimNextScanChunk
  <2>2. d \in Chunks /\ ~(status[d] = "failed" /\ attempts[d] = MaxAttempts)
    BY <2>1, SetFacts DEF Claimable, TypeInv, TypeOK
  <2> QED
    BY <2>1, <2>2 DEF StaysDown, TypeInv, TypeOK
<1>2. CASE ResetScanChunkToPending(p)
  BY <1>2 DEF ResetScanChunkToPending, StaysDown, TypeInv, TypeOK
<1>3. CASE ~ClaimNextScanChunk(p) /\ ~ResetScanChunkToPending(p)
  <2>1. UNCHANGED status
    BY <1>3 DEF DispatchNextChunk, ScanChunkSummary, NothingToClaim, CheckParent,
                FinishParent, PublishDirective, DispatchError, PublishError,
                StatementError, dbVars
  <2> QED
    BY <2>1, UntouchedStaysDown
<1> QED
  BY <1>1, <1>2, <1>3

LEMMA ConnStaysDown ==
    ASSUME TypeInv, NEW w \in Conns, ConnStep(w)
    PROVE  StaysDown
<1>1. CASE ResumeChunkedScans(w)
  BY <1>1, ResetStaysDown DEF ResumeChunkedScans
<1>2. CASE DiscoveryCompleted(w)
  BY <1>2 DEF DiscoveryCompleted, StaysDown, TypeInv, TypeOK
<1>3. CASE ScanError(w)
  BY <1>3 DEF ScanError, StaysDown, TypeInv, TypeOK
<1>4. CASE Connect(w) \/ ScanStarted(w) \/ AckScanChunkStarted(w) \/ HangUp(w)
  <2>1. UNCHANGED status
    BY <1>4 DEF Connect, ScanStarted, AckScanChunkStarted, HangUp, dbVars
  <2> QED
    BY <2>1, UntouchedStaysDown
<1> QED
  BY <1>1, <1>2, <1>3, <1>4 DEF ConnStep

LEMMA TickStaysDown ==
    ASSUME NEW t \in Ticks, TickStep(t)
    PROVE  StaysDown
<1>1. CASE TickSweep(t)
  BY <1>1, ResetStaysDown DEF TickSweep, RunningRows
<1>2. CASE TickEnd(t)
  BY <1>2, UntouchedStaysDown DEF TickEnd
<1> QED
  BY <1>1, <1>2 DEF TickStep

LEMMA StepStaysDown == TypeInv /\ [Next]_vars => StaysDown
<1> SUFFICES ASSUME TypeInv, [Next]_vars PROVE StaysDown
  OBVIOUS
<1>1. CASE \E p \in Procs : DispatchNextChunk(p) \/ DispatchError(p)
  BY <1>1, DispatchStaysDown
<1>2. CASE \E w \in Conns : ConnStep(w)
  BY <1>2, ConnStaysDown
<1>3. CASE \E t \in Ticks : TickStep(t)
  BY <1>3, TickStaysDown
<1>4. CASE \E w \in Conns : \/ ResumeTimeout(w) \/ ReportHandlingFails(w)
                            \/ Heartbeat(w) \/ WriteLoop(w)
  <2>1. UNCHANGED status
    BY <1>4 DEF ResumeTimeout, ReportHandlingFails, Heartbeat, WriteLoop, dbVars
  <2> QED
    BY <2>1, UntouchedStaysDown
<1>5. CASE \E w \in Conns, c \in Chunks : OnDirective(w, c) \/ DirectiveLost(w, c)
  <2>1. UNCHANGED status
    BY <1>5 DEF OnDirective, DirectiveLost, dbVars
  <2> QED
    BY <2>1, UntouchedStaysDown
<1>6. CASE \E c \in Chunks : Age(c)
  <2>1. UNCHANGED status
    BY <1>6 DEF Age
  <2> QED
    BY <2>1, UntouchedStaysDown
<1>7. CASE AgentStep
  <2>1. UNCHANGED status
    BY <1>7 DEF AgentStep, PipelineDone, ReleaseSemaphore, dbVars
  <2> QED
    BY <2>1, UntouchedStaysDown
<1>8. CASE Disconnect \/ AgentRestart \/ ApiRestart
  <2>1. UNCHANGED status
    BY <1>8 DEF Disconnect, AgentRestart, ApiRestart, dbVars
  <2> QED
    BY <2>1, UntouchedStaysDown
<1>9. CASE UNCHANGED vars
  BY <1>9, UntouchedStaysDown DEF vars
<1> QED
  BY <1>1, <1>2, <1>3, <1>4, <1>5, <1>6, <1>7, <1>8, <1>9 DEF Next

(* A chunk that failed MaxAttempts times is never sent to the agent again, *)
(* whatever resets, claims and late reports race with each other, for any  *)
(* retry bound and any number of chunks, goroutines and faults.            *)
THEOREM ExhaustedStaysDown == Spec => ExhaustedChunkStaysDown
<1>1. TypeInv /\ [Next]_vars => StaysDown
  BY StepStaysDown
<1> QED
  BY <1>1, InitTypeInv, StepTypeInv, PTL DEF Spec, ExhaustedChunkStaysDown, StaysDown

-----------------------------------------------------------------------------
(* ChunkDispatch implements CheckpointedScan.                              *)

(* A failure is announced on a verdict read earlier; the verdict was read  *)
(* from failed rows, and a failed row has counted an attempt.              *)
BlameInv ==
    /\ CoverInv
    /\ \A c \in Chunks : status[c] = "failed" => c \in Faulty
    /\ \A p \in Procs : verdict[p] = "deadend" => Faulty # {}
    /\ \A p \in Procs : pc[p] = "finish" => verdict[p] # "open"

LEMMA InitBlameInv == Init => BlameInv
<1> SUFFICES ASSUME Init PROVE BlameInv
  OBVIOUS
<1> QED
  BY InitCoverInv DEF Init, BlameInv

(* Attempts are never forgotten. *)
LEMMA FaultyGrows == BlameInv /\ [Next]_vars => Faulty \subseteq Faulty'
<1> SUFFICES ASSUME BlameInv, [Next]_vars PROVE Faulty \subseteq Faulty'
  OBVIOUS
<1>1. ASSUME NEW w \in Conns, ScanError(w) PROVE Faulty \subseteq Faulty'
  <2>1. attempts \in [Chunks -> 0 .. MaxAttempts]
    BY DEF BlameInv, CoverInv, TypeInv, TypeOK
  <2>2. CASE UNCHANGED attempts
    BY <2>2 DEF Faulty
  <2>3. CASE attempts' = [attempts EXCEPT ![Reported(w)] =
                            IF @ < MaxAttempts THEN @ + 1 ELSE @]
    BY <2>1, <2>3, SetFacts DEF Faulty
  <2> QED
    BY <1>1, <2>2, <2>3 DEF ScanError
<1>2. CASE UNCHANGED attempts
  BY <1>2 DEF Faulty
<1> QED
  BY <1>1, <1>2
     DEF Next, DispatchNextChunk, ScanChunkSummary, ClaimNextScanChunk, NothingToClaim,
         CheckParent, FinishParent, PublishDirective, DispatchError, PublishError, StatementError,
         ResetScanChunkToPending, ConnStep, Connect, ResumeChunkedScans, ScanStarted,
         AckScanChunkStarted, DiscoveryCompleted, HangUp, ResumeTimeout,
         ReportHandlingFails, Heartbeat, WriteLoop, TickStep, TickSweep, TickEnd, Age,
         OnDirective, DirectiveLost, AgentStep, PipelineDone, ReleaseSemaphore,
         Disconnect, AgentRestart, ApiRestart, vars, dbVars

(* A row becomes "failed" only by a report, which counts the attempt. *)
LEMMA FailedRowsAreFaulty ==
    ASSUME BlameInv, [Next]_vars, NEW c \in Chunks, status'[c] = "failed"
    PROVE  c \in Faulty'
<1> USE DEF BlameInv, CoverInv, TypeInv, TypeOK
<1>1. CASE status[c] = "failed"
  BY <1>1, FaultyGrows
<1>2. CASE status[c] # "failed"
  <2>1. ASSUME NEW w \in Conns, ScanError(w) PROVE c \in Faulty'
    <3>1. status' = [status EXCEPT ![Reported(w)] = "failed"]
      BY <1>2, <2>1 DEF ScanError
    <3>2. c = Reported(w)
      BY <1>2, <3>1
    <3>3. attempts' = [attempts EXCEPT ![c] = IF @ < MaxAttempts THEN @ + 1 ELSE @]
      BY <1>2, <2>1, <3>2 DEF ScanError
    <3>4. attempts'[c] > 0
      BY <3>3, ChunkAssumption
    <3> QED
      BY <3>4 DEF Faulty
  <2>2. ASSUME NEW p \in Procs, DispatchNextChunk(p) \/ DispatchError(p)
        PROVE  status'[c] # "failed"
    BY <1>2, <2>2
       DEF DispatchNextChunk, ScanChunkSummary, ClaimNextScanChunk, NothingToClaim,
           CheckParent, FinishParent, PublishDirective, DispatchError, PublishError, StatementError,
           ResetScanChunkToPending, dbVars
  <2>3. ASSUME NEW w \in Conns, ConnStep(w), ~ScanError(w) PROVE status'[c] # "failed"
    BY <1>2, <2>3
       DEF ConnStep, Connect, ResumeChunkedScans, ResetRows, ScanStarted,
           AckScanChunkStarted, DiscoveryCompleted, HangUp, dbVars
  <2>4. ASSUME NEW t \in Ticks, TickStep(t) PROVE status'[c] # "failed"
    BY <1>2, <2>4 DEF TickStep, TickSweep, TickEnd, ResetRows
  <2>5. CASE UNCHANGED status
    BY <1>2, <2>5
  <2>6. \/ UNCHANGED status
        \/ \E p \in Procs : DispatchNextChunk(p) \/ DispatchError(p)
        \/ \E w \in Conns : ConnStep(w)
        \/ \E t \in Ticks : TickStep(t)
    BY DEF Next, ResumeTimeout, ReportHandlingFails, Heartbeat, WriteLoop, Age,
           OnDirective, DirectiveLost, AgentStep, PipelineDone, ReleaseSemaphore,
           Disconnect, AgentRestart, ApiRestart, vars, dbVars
  <2> QED
    BY <2>1, <2>2, <2>3, <2>4, <2>5, <2>6
<1> QED
  BY <1>1, <1>2

LEMMA StepBlameInv == BlameInv /\ [Next]_vars => BlameInv'
<1> SUFFICES ASSUME BlameInv, [Next]_vars PROVE BlameInv'
  OBVIOUS
<1> USE DEF CoverInv, TypeInv, TypeOK
<1>1. CoverInv'
  BY StepCoverInv DEF BlameInv
<1>2. \A c \in Chunks : status'[c] = "failed" => c \in Faulty'
  BY FailedRowsAreFaulty
<1>3. Faulty # {} => Faulty' # {}
  BY FaultyGrows
<1>4. ASSUME NEW p \in Procs, ScanChunkSummary(p)
      PROVE  /\ \A q \in Procs : verdict'[q] = "deadend" => Faulty' # {}
             /\ \A q \in Procs : pc'[q] = "finish" => verdict'[q] # "open"
  <2>1. Verdict = "deadend" => Faulty # {}
    BY DEF Verdict, BlameInv
  <2> QED
    BY <1>3, <1>4, <2>1 DEF ScanChunkSummary, BlameInv
<1>5. ASSUME NEW p \in Procs, Return(p)
      PROVE  /\ \A q \in Procs : verdict'[q] = "deadend" => Faulty' # {}
             /\ \A q \in Procs : pc'[q] = "finish" => verdict'[q] # "open"
  BY <1>3, <1>5 DEF Return, AfterDispatch, BlameInv
<1>6. CASE UNCHANGED verdict
  <2>1. \A q \in Procs : verdict'[q] = "deadend" => Faulty' # {}
    BY <1>3, <1>6 DEF BlameInv
  <2>2. \A q \in Procs : pc'[q] = "finish" => verdict'[q] # "open"
    <3>1. ASSUME NEW p \in Procs, DispatchNextChunk(p) \/ DispatchError(p),
                 NEW q \in Procs, pc'[q] = "finish"
          PROVE  verdict'[q] # "open"
      BY <1>6, <3>1
         DEF BlameInv, DispatchNextChunk, ScanChunkSummary, ClaimNextScanChunk,
             NothingToClaim, CheckParent, FinishParent, PublishDirective, DispatchError, PublishError, StatementError,
             ResetScanChunkToPending, Return, AfterDispatch
    <3>2. ASSUME NEW w \in Conns, ConnStep(w) \/ ResumeTimeout(w),
                 NEW q \in Procs, pc'[q] = "finish"
          PROVE  verdict'[q] # "open"
      BY <1>6, <3>2
         DEF BlameInv, ConnStep, Connect, ResumeChunkedScans, ScanStarted,
             AckScanChunkStarted, DiscoveryCompleted, ScanError, HangUp, ResumeTimeout,
             Return, AfterDispatch
    <3>3. ASSUME NEW t \in Ticks, TickStep(t), NEW q \in Procs, pc'[q] = "finish"
          PROVE  verdict'[q] # "open"
      BY <1>6, <3>3 DEF BlameInv, TickStep, TickSweep, TickEnd
    <3>4. CASE UNCHANGED pc
      BY <1>6, <3>4 DEF BlameInv
    <3>5. CASE ApiRestart
      BY <3>5 DEF ApiRestart
    <3>6. \/ UNCHANGED pc \/ ApiRestart
          \/ \E p \in Procs : DispatchNextChunk(p) \/ DispatchError(p)
          \/ \E w \in Conns : ConnStep(w) \/ ResumeTimeout(w)
          \/ \E t \in Ticks : TickStep(t)
      BY DEF Next, ReportHandlingFails, Heartbeat, WriteLoop, Age, OnDirective,
             DirectiveLost, AgentStep, PipelineDone, ReleaseSemaphore, Disconnect,
             AgentRestart, vars, procVars
    <3> QED
      BY <3>1, <3>2, <3>3, <3>4, <3>5, <3>6
  <2> QED
    BY <1>1, <1>2, <2>1, <2>2 DEF BlameInv
<1>7. CASE ApiRestart
  BY <1>1, <1>2, <1>7 DEF ApiRestart, BlameInv
<1>8. CASE \E p \in Procs : ScanChunkSummary(p) \/ Return(p)
  BY <1>1, <1>2, <1>4, <1>5, <1>8 DEF BlameInv
<1> QED
  BY <1>6, <1>7, <1>8, SetFacts
     DEF Next, DispatchNextChunk, ScanChunkSummary, ClaimNextScanChunk, NothingToClaim,
         CheckParent, FinishParent, PublishDirective, DispatchError, PublishError, StatementError,
         ResetScanChunkToPending, ConnStep, Connect, ResumeChunkedScans, ScanStarted,
         AckScanChunkStarted, DiscoveryCompleted, ScanError, HangUp, ResumeTimeout,
         ReportHandlingFails, Heartbeat, WriteLoop, TickStep, TickSweep, TickEnd, Age,
         OnDirective, DirectiveLost, AgentStep, PipelineDone, ReleaseSemaphore,
         Disconnect, AgentRestart, vars, procVars

LEMMA InitCheckpointed == Init => Checkpointed!Init
BY DEF Init, Checkpointed!Init, Outcome, Faulty, Active

(***************************************************************************)
(* Every step is a step of the abstract scan or leaves it alone.           *)
(***************************************************************************)
LEMMA DispatchCheckpointed ==
    ASSUME BlameInv, NEW p \in Procs, DispatchNextChunk(p) \/ DispatchError(p)
    PROVE  [Checkpointed!Next]_Checkpointed!vars
<1> USE DEF Outcome, Faulty, Checkpointed!vars, dbVars, linkVars, history
<1>1. CASE FinishParent(p)
  <2>1. UNCHANGED <<scanned, Faulty, link # None>> /\ Outcome' = FinalStatus(p)
    BY <1>1 DEF FinishParent, FinalStatus, Active
  <2>2. CASE verdict[p] = "alldone"
    BY <2>1, <2>2 DEF BlameInv, CoverInv, FinalStatus, Checkpointed!Next, Checkpointed!Complete
  <2>3. CASE verdict[p] = "deadend"
    BY <2>1, <2>3 DEF BlameInv, FinalStatus, Checkpointed!Next, Checkpointed!GiveUp
  <2> QED
    BY <1>1, <2>2, <2>3 DEF FinishParent, BlameInv, CoverInv, TypeInv, TypeOK
<1>2. CASE ~FinishParent(p)
  BY <1>2 DEF DispatchNextChunk, ScanChunkSummary, ClaimNextScanChunk, NothingToClaim,
              CheckParent, PublishDirective, DispatchError, PublishError, StatementError, ResetScanChunkToPending
<1> QED
  BY <1>1, <1>2

LEMMA ConnCheckpointed ==
    ASSUME BlameInv, NEW w \in Conns,
           \/ ConnStep(w) \/ ResumeTimeout(w) \/ ReportHandlingFails(w)
           \/ Heartbeat(w) \/ WriteLoop(w)
    PROVE  [Checkpointed!Next]_Checkpointed!vars
<1> USE DEF Outcome, Checkpointed!vars, dbVars, linkVars, history
<1>1. CASE Connect(w)
  BY <1>1, SetFacts DEF Connect, Faulty, Checkpointed!Next, Checkpointed!ComeAndGo
<1>2. CASE ScanStarted(w)
  BY <1>2 DEF ScanStarted, Receive, Faulty, Active, BlameInv, CoverInv, TypeInv, TypeOK,
              Checkpointed!Next, Checkpointed!Reopen
<1>3. CASE ScanError(w)
  <2>1. UNCHANGED <<Outcome, scanned, link # None>>
    BY <1>3 DEF ScanError
  <2>2. Reported(w) \in Chunks
    BY <1>3, ReceiveTyped DEF ScanError, BlameInv, CoverInv, TypeInv
  <2>3. CASE UNCHANGED attempts
    BY <2>1, <2>3 DEF Faulty
  <2>4. CASE attempts' = [attempts EXCEPT ![Reported(w)] =
                            IF @ < MaxAttempts THEN @ + 1 ELSE @]
    <3>1. attempts \in [Chunks -> 0 .. MaxAttempts]
      BY DEF BlameInv, CoverInv, TypeInv, TypeOK
    <3>2. attempts'[Reported(w)] > 0
      BY <2>2, <2>4, <3>1, ChunkAssumption
    <3>3. \A c \in Chunks \ {Reported(w)} : attempts'[c] = attempts[c]
      BY <2>2, <2>4, <3>1
    <3>4. Faulty' = Faulty \cup {Reported(w)}
      BY <2>2, <3>2, <3>3 DEF Faulty
    <3> QED
      BY <2>1, <2>2, <3>4 DEF Checkpointed!Next, Checkpointed!ReportFailure
  <2> QED
    BY <1>3, <2>3, <2>4 DEF ScanError
<1>4. CASE HangUp(w)
  BY <1>4, SetFacts DEF HangUp, Faulty, Checkpointed!Next, Checkpointed!ComeAndGo
<1>5. CASE /\ ~Connect(w) /\ ~ScanStarted(w) /\ ~ScanError(w) /\ ~HangUp(w)
  BY <1>5 DEF ConnStep, ResumeChunkedScans, AckScanChunkStarted, DiscoveryCompleted,
              ResumeTimeout, ReportHandlingFails, Heartbeat, WriteLoop, Faulty
<1> QED
  BY <1>1, <1>2, <1>3, <1>4, <1>5

LEMMA TickCheckpointed ==
    ASSUME BlameInv,
           \/ \E t \in Ticks : TickStep(t)
           \/ \E c \in Chunks : Age(c)
    PROVE  [Checkpointed!Next]_Checkpointed!vars
<1>1. UNCHANGED <<scanned, Faulty, link # None>>
  BY DEF TickStep, TickSweep, TickEnd, Age, linkVars, history, Faulty
<1>2. UNCHANGED scan \/ FailAbandonedChunkedScans
  BY DEF TickStep, TickSweep, TickEnd, Age
<1> QED
  BY <1>1, <1>2 DEF FailAbandonedChunkedScans, Active, Outcome, Checkpointed!vars,
                    Checkpointed!Next, Checkpointed!Abandon

LEMMA AgentCheckpointed ==
    ASSUME BlameInv,
           \/ \E w \in Conns, c \in Chunks : OnDirective(w, c) \/ DirectiveLost(w, c)
           \/ AgentStep
    PROVE  [Checkpointed!Next]_Checkpointed!vars
<1>1. UNCHANGED <<Outcome, Faulty, link # None>>
  BY DEF OnDirective, DirectiveLost, AgentStep, PipelineDone, ReleaseSemaphore,
         dbVars, linkVars, Outcome, Faulty
<1>2. CASE PipelineDone
  <2>1. agent.chunk \in Chunks
    BY <1>2 DEF PipelineDone, BlameInv, CoverInv, TypeInv, TypeOK, InHand
  <2> QED
    BY <1>1, <1>2, <2>1 DEF PipelineDone, Checkpointed!vars, Checkpointed!Next,
                            Checkpointed!Cover
<1>3. CASE ~PipelineDone
  BY <1>1, <1>3 DEF OnDirective, DirectiveLost, AgentStep, ReleaseSemaphore, history,
                    Checkpointed!vars
<1> QED
  BY <1>2, <1>3

LEMMA FaultCheckpointed ==
    ASSUME BlameInv, Disconnect \/ AgentRestart \/ ApiRestart
    PROVE  [Checkpointed!Next]_Checkpointed!vars
<1>1. UNCHANGED <<Outcome, scanned, Faulty>> /\ link' = None
  BY DEF Disconnect, AgentRestart, ApiRestart, dbVars, history, Outcome, Faulty
<1> QED
  BY <1>1 DEF Checkpointed!vars, Checkpointed!Next, Checkpointed!ComeAndGo

LEMMA StepCheckpointed ==
    BlameInv /\ [Next]_vars => [Checkpointed!Next]_Checkpointed!vars
<1> SUFFICES ASSUME BlameInv, [Next]_vars PROVE [Checkpointed!Next]_Checkpointed!vars
  OBVIOUS
<1>1. CASE UNCHANGED vars
  BY <1>1 DEF vars, Outcome, Faulty, Checkpointed!vars
<1> QED
  BY <1>1, DispatchCheckpointed, ConnCheckpointed, TickCheckpointed, AgentCheckpointed,
     FaultCheckpointed DEF Next

(* For any number of chunks, goroutines and faults, a behaviour of the     *)
(* dispatchers, the agent and the channels between them is a behaviour of  *)
(* the abstract scan.                                                      *)
THEOREM ChunkDispatchRefines == Spec => ImplementsCheckpointedScan
<1> QED
  BY InitBlameInv, StepBlameInv, InitCheckpointed, StepCheckpointed, PTL
     DEF Spec, ImplementsCheckpointedScan, Checkpointed!Spec

(* No step of a dispatcher fails a parent none of whose chunks has ever    *)
(* failed, however stale the summary it decided on.                        *)
THEOREM FailureWasReported == Spec => DispatcherFailureWasReported
<1>1. BlameInv /\ [Next]_vars =>
        [\A p \in Procs : FinishParent(p) /\ scan' = "failed"
              => \E c \in Chunks : attempts[c] > 0]_vars
  BY DEF FinishParent, FinalStatus, BlameInv, Faulty, CoverInv, TypeInv, TypeOK
<1> QED
  BY <1>1, InitBlameInv, StepBlameInv, PTL DEF Spec, DispatcherFailureWasReported
=============================================================================
