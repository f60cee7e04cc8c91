---------------------------- MODULE ChunkDispatch ----------------------------
(***************************************************************************)
(* Chunked discovery: how one parent scan, split into durable chunks, is   *)
(* driven to completion by API goroutines that share nothing but database  *)
(* rows, and by one agent that is reached through a lossy directive        *)
(* channel and answers over a WebSocket that may break at any time.        *)
(*                                                                         *)
(* The goroutines are the handlers of the agent's WebSocket connections    *)
(* (Conns), the scheduler ticks of the API instances (Ticks) and the       *)
(* caller that created the scan (Creators).  Every one of them runs        *)
(* Dispatcher.DispatchNextChunk, whose database statements are separate    *)
(* atomic steps here: read a summary, claim a chunk, look at the parent,   *)
(* finish the parent or publish the claimed chunk.                         *)
(***************************************************************************)
EXTENDS Naturals, Sequences

CONSTANTS
    ChunkCount,    \* rows in scan_chunks for this parent
    MaxAttempts,   \* the literal 3 of ClaimNextScanChunk
    Conns,         \* goroutines that can serve a connection of this agent
    Ticks,         \* scheduler goroutines, one per API instance
    Creators,      \* goroutines that ran dispatchChunkedDiscovery
    None,          \* "no chunk", "no connection"
    SendBuffer,    \* capacity of the agent's sendCh
    WireCap,       \* bound: messages the transport holds unread
    MaxFaults      \* bound: faults of the environment in one behaviour

ASSUME ChunkAssumption ==
    /\ ChunkCount \in Nat \ {0} /\ MaxAttempts \in Nat \ {0}
    /\ SendBuffer \in Nat \ {0} /\ WireCap \in Nat \ {0} /\ MaxFaults \in Nat
    /\ None \notin 0 .. (ChunkCount - 1) /\ None \notin Conns
    /\ Conns \cap Ticks = {} /\ Conns \cap Creators = {}
    /\ Ticks \cap Creators = {}

Chunks == 0 .. (ChunkCount - 1)
Procs  == Conns \cup Ticks \cup Creators

VARIABLES
    scan,       \* scans.status of the parent
    status,     \* scan_chunks.status
    attempts,   \* scan_chunks.attempts, saturated at MaxAttempts
    sent,       \* scan_chunks.dispatched_at: NULL, recent, or over 2 minutes old
    pc,         \* next statement of each goroutine
    verdict,    \* what the summary a dispatcher read says of the parent
    held,       \* chunk a goroutine is working on
    link,       \* connection the agent's tunnel is attached to
    row,        \* agents.status
    down,       \* directives published and not yet forwarded, per subscription
    agent,      \* the agent's semaphore, current chunk and scan goroutine
    out,        \* Tunnel.sendCh
    wire,       \* reports sent on a connection and not yet read by its handler
    scanned,    \* history: chunks whose recon pipeline ran to its end
    terminals,  \* history: parent-terminal events emitted (0, 1, 2 = more)
    orphaned,   \* history: an acknowledged chunk may never be reported on
    faults      \* faults used up

dbVars    == <<scan, status, attempts, sent>>
procVars  == <<pc, verdict, held>>
agentVars == <<agent, out>>
linkVars  == <<link, row, wire>>
history   == <<scanned, terminals, orphaned>>
vars == <<scan, status, attempts, sent, pc, verdict, held, link, row, down,
          agent, out, wire, scanned, terminals, orphaned, faults>>

Report == [type : {"started", "completed", "error"}, chunk : Chunks]
Reports(t, c) == [type |-> t, chunk |-> c]

Active   == {"pending", "running"}
Terminal == {"completed", "failed"}

TypeOK ==
    /\ scan \in Active \cup Terminal
    /\ status \in [Chunks -> {"pending", "running", "completed", "failed"}]
    /\ attempts \in [Chunks -> 0 .. MaxAttempts]
    /\ sent \in [Chunks -> {"null", "recent", "old"}]
    /\ pc \in [Procs -> {"off", "idle", "resume", "ack", "summary", "claim",
                         "check", "finish", "publish", "reset", "abandon"}]
    /\ verdict \in [Procs -> {"open", "alldone", "deadend"}]
    /\ held \in [Procs -> Chunks \cup {None}]
    /\ link \in Conns \cup {None}
    /\ row \in {"connected", "disconnected"}
    /\ down \subseteq (Conns \X Chunks)
    /\ agent \in [st : {"idle", "scanning", "ending"},
                  chunk : Chunks \cup {None}]
    /\ out \in Seq(Report)
    /\ wire \in [Conns -> Seq(Report)]
    /\ scanned \subseteq Chunks
    /\ terminals \in 0 .. 2
    /\ orphaned \in BOOLEAN
    /\ faults \in 0 .. MaxFaults

Init ==
    /\ scan = "pending"
    /\ status = [c \in Chunks |-> "pending"]
    /\ attempts = [c \in Chunks |-> 0]
    /\ sent = [c \in Chunks |-> "null"]
    /\ pc = [p \in Procs |-> IF p \in Creators THEN "summary"
                             ELSE IF p \in Ticks THEN "idle" ELSE "off"]
    /\ verdict = [p \in Procs |-> "open"]
    /\ held = [p \in Procs |-> None]
    /\ link = None /\ row = "disconnected"
    /\ down = {}
    /\ agent = [st |-> "idle", chunk |-> None]
    /\ out = <<>> /\ wire = [w \in Conns |-> <<>>]
    /\ scanned = {} /\ terminals = 0
    /\ orphaned = FALSE /\ faults = 0

Fault == faults < MaxFaults /\ faults' = faults + 1

(***************************************************************************)
(* Dispatcher.DispatchNextChunk                                            *)
(***************************************************************************)

(* Where a goroutine goes when DispatchNextChunk returns to its caller. *)
AfterDispatch(p) == IF p \in Ticks THEN "abandon"
                    ELSE IF p \in Conns THEN "idle" ELSE "off"

Return(p) ==
    /\ pc' = [pc EXCEPT ![p] = AfterDispatch(p)]
    /\ verdict' = [verdict EXCEPT ![p] = "open"]
    /\ held' = [held EXCEPT ![p] = None]

(* Slips of ScanChunkSummary's tests that the properties must notice:      *)
(* running chunks count as completed; the failure test forgets them.       *)
VerdictRunningDone ==
    IF \A c \in Chunks : status[c] # "pending" THEN "alldone" ELSE "open"

VerdictRunningForgotten ==
    IF \A c \in Chunks : status[c] = "completed" THEN "alldone"
    ELSE IF \A c \in Chunks : status[c] # "pending" THEN "deadend" ELSE "open"

(* The counts of ScanChunkSummary, reduced to the two tests made on them. *)
Verdict ==
    IF \A c \in Chunks : status[c] = "completed" THEN "alldone"
    ELSE IF \A c \in Chunks : status[c] \in {"completed", "failed"}
         THEN "deadend" ELSE "open"

ScanChunkSummary(p) ==
    /\ pc[p] = "summary"
    /\ verdict' = [verdict EXCEPT ![p] = Verdict]
    /\ pc' = [pc EXCEPT ![p] = "claim"]
    /\ UNCHANGED <<dbVars, held, linkVars, down, agentVars, history, faults>>

(* The retry bound off by one. *)
ClaimableOnceMore == {c \in Chunks : \/ status[c] = "pending"
                                     \/ status[c] = "failed" /\ attempts[c] <= MaxAttempts}

Claimable == {c \in Chunks : \/ status[c] = "pending"
                             \/ status[c] = "failed" /\ attempts[c] < MaxAttempts}

ClaimNextScanChunk(p) ==
    /\ pc[p] = "claim"
    /\ \E c \in Claimable :
         /\ \A d \in Claimable : c <= d
         /\ status' = [status EXCEPT ![c] = "running"]
         /\ sent' = [sent EXCEPT ![c] = "recent"]
         /\ held' = [held EXCEPT ![p] = c]
    /\ pc' = [pc EXCEPT ![p] = "publish"]
    /\ UNCHANGED <<scan, attempts, verdict, linkVars, down, agentVars, history, faults>>

NothingToClaim(p) ==
    /\ pc[p] = "claim" /\ Claimable = {}
    /\ pc' = [pc EXCEPT ![p] = "check"]
    /\ UNCHANGED <<dbVars, verdict, held, linkVars, down, agentVars, history, faults>>

(* GetScanByID, then the decision on the summary read before the claim. *)
CheckParent(p) ==
    /\ pc[p] = "check"
    /\ IF scan \in Active /\ verdict[p] # "open"
       THEN pc' = [pc EXCEPT ![p] = "finish"] /\ UNCHANGED <<verdict, held>>
       ELSE Return(p)
    /\ UNCHANGED <<dbVars, linkVars, down, agentVars, history, faults>>

FinalStatus(p) == IF verdict[p] = "alldone" THEN "completed" ELSE "failed"

(* UpdateScanStatus or FailScan, and the parent-terminal scan_progress. *)
FinishParent(p) ==
    /\ pc[p] = "finish"
    /\ scan' = FinalStatus(p)
    /\ terminals' = IF terminals < 2 THEN terminals + 1 ELSE 2
    /\ Return(p)
    /\ UNCHANGED <<status, attempts, sent, linkVars, down, agentVars, scanned, orphaned, faults>>

(* A subscription lives as long as the handler that started it; it may not *)
(* be established yet while the handler is still to resume.                *)
Listening  == {w \in Conns : pc[w] \notin {"off", "resume"}}
Subscribing == {w \in Conns : pc[w] = "resume"}

PublishDirective(p) ==
    /\ pc[p] = "publish"
    /\ \E ready \in SUBSET Subscribing :
         down' = down \cup ((Listening \cup ready) \X {held[p]})
    /\ Return(p)
    /\ UNCHANGED <<dbVars, linkVars, agentVars, history, faults>>

PublishError(p) ==
    /\ pc[p] = "publish" /\ Fault
    /\ pc' = [pc EXCEPT ![p] = "reset"]
    /\ UNCHANGED <<dbVars, verdict, held, linkVars, down, agentVars, history>>

ResetScanChunkToPending(p) ==
    /\ pc[p] = "reset"
    /\ IF status[held[p]] = "running"
       THEN /\ status' = [status EXCEPT ![held[p]] = "pending"]
            /\ sent' = [sent EXCEPT ![held[p]] = "null"]
       ELSE UNCHANGED <<status, sent>>
    /\ Return(p)
    /\ UNCHANGED <<scan, attempts, linkVars, down, agentVars, history, faults>>

(* Any other statement fails: the error is logged, and nothing is done.    *)
StatementError(p) ==
    /\ pc[p] \in {"summary", "claim", "check", "finish", "reset", "ack"} /\ Fault
    /\ Return(p)
    /\ UNCHANGED <<dbVars, linkVars, down, agentVars, history>>

DispatchError(p) == PublishError(p) \/ StatementError(p)

DispatchNextChunk(p) ==
    \/ ScanChunkSummary(p) \/ ClaimNextScanChunk(p) \/ NothingToClaim(p)
    \/ CheckParent(p) \/ FinishParent(p)
    \/ PublishDirective(p) \/ ResetScanChunkToPending(p)

(***************************************************************************)
(* WebSocket connection handlers: Connect, the resume hook, and the three  *)
(* chunk reports of buildOnMessage.                                        *)
(***************************************************************************)

(* The parent's status vocabulary written into a chunk row. *)
ResetRowsToQueued(R) ==
    /\ status' = [c \in Chunks |-> IF c \in R THEN "queued" ELSE status[c]]
    /\ sent' = [c \in Chunks |-> IF c \in R THEN "null" ELSE sent[c]]

(* Rows in R go back to pending and forget when they were dispatched. *)
ResetRows(R) ==
    /\ status' = [c \in Chunks |-> IF c \in R THEN "pending" ELSE status[c]]
    /\ sent' = [c \in Chunks |-> IF c \in R THEN "null" ELSE sent[c]]

RunningRows == {c \in Chunks : status[c] = "running"}

Connect(w) ==
    /\ link = None /\ pc[w] = "off"
    /\ link' = w /\ row' = "connected"
    /\ pc' = [pc EXCEPT ![w] = "resume"]
    /\ UNCHANGED <<dbVars, verdict, held, down, agentVars, wire, history, faults>>

ResumeChunkedScans(w) ==
    /\ pc[w] = "resume"
    /\ ResetRows(RunningRows)
    /\ pc' = [pc EXCEPT ![w] = IF RunningRows = {} THEN "idle" ELSE "summary"]
    /\ UNCHANGED <<scan, attempts, verdict, held, linkVars, down, agentVars, history, faults>>

(* The directive subscription was not ready within 5 seconds, or the reset *)
(* of the rows failed.                                                     *)
ResumeTimeout(w) ==
    /\ pc[w] = "resume" /\ Fault
    /\ pc' = [pc EXCEPT ![w] = "idle"]
    /\ orphaned' = (orphaned \/ RunningRows # {})
    /\ UNCHANGED <<dbVars, verdict, held, linkVars, down, agentVars, scanned, terminals>>

Receive(w, type) ==
    /\ pc[w] = "idle" /\ wire[w] # <<>> /\ Head(wire[w]).type = type
    /\ wire' = [wire EXCEPT ![w] = Tail(@)]

Reported(w) == Head(wire[w]).chunk

(* A failed write of the parent's status is only logged. *)
ScanStarted(w) ==
    /\ Receive(w, "started")
    /\ \/ scan' = "running" /\ UNCHANGED faults
       \/ Fault /\ UNCHANGED scan
    /\ held' = [held EXCEPT ![w] = Reported(w)]
    /\ pc' = [pc EXCEPT ![w] = "ack"]
    /\ UNCHANGED <<status, attempts, sent, verdict, link, row, down, agentVars, history>>

AckScanChunkStarted(w) ==
    /\ pc[w] = "ack"
    /\ sent' = IF status[held[w]] = "running"
               THEN [sent EXCEPT ![held[w]] = "null"] ELSE sent
    /\ Return(w)
    /\ UNCHANGED <<scan, status, attempts, linkVars, down, agentVars, history, faults>>

DiscoveryCompleted(w) ==
    /\ Receive(w, "completed")
    /\ IF scan \in Active
       THEN /\ status' = [status EXCEPT ![Reported(w)] = "completed"]
            /\ sent' = [sent EXCEPT ![Reported(w)] = "null"]
            /\ pc' = [pc EXCEPT ![w] = "summary"]
       ELSE UNCHANGED <<status, sent, pc>>
    /\ UNCHANGED <<scan, attempts, verdict, held, link, row, down, agentVars, history, faults>>

ScanError(w) ==
    /\ Receive(w, "error")
    /\ IF scan \in Active
       THEN /\ status' = [status EXCEPT ![Reported(w)] = "failed"]
            /\ attempts' = [attempts EXCEPT ![Reported(w)] =
                              IF @ < MaxAttempts THEN @ + 1 ELSE @]
            /\ sent' = [sent EXCEPT ![Reported(w)] = "null"]
            /\ pc' = [pc EXCEPT ![w] = "summary"]
       ELSE UNCHANGED <<status, attempts, sent, pc>>
    /\ UNCHANGED <<scan, verdict, held, link, row, down, agentVars, history, faults>>

(* CompleteScanChunk or FailScanChunk returns an error: logged, dropped. *)
ReportHandlingFails(w) ==
    /\ \E t \in {"completed", "error"} : Receive(w, t)
    /\ orphaned' = TRUE /\ Fault
    /\ UNCHANGED <<dbVars, procVars, link, row, down, agentVars, scanned, terminals>>

Heartbeat(w) ==
    /\ link = w /\ pc[w] = "idle" /\ row # "connected"
    /\ row' = "connected"
    /\ UNCHANGED <<dbVars, procVars, link, wire, down, agentVars, history, faults>>

(* The read loop of a connection the agent no longer uses ends: the row is *)
(* marked disconnected, the subscription is cancelled, and Hub.unregister  *)
(* closes whatever connection this instance has registered for the agent,  *)
(* which is the newer one when that was made to the same instance.         *)
HangUp(w) ==
    /\ pc[w] = "idle" /\ link # w
    /\ pc' = [pc EXCEPT ![w] = "off"]
    /\ row' = "disconnected"
    /\ \/ UNCHANGED link /\ wire' = [wire EXCEPT ![w] = <<>>]
       \/ /\ link # None /\ link' = None
          /\ wire' = [wire EXCEPT ![w] = <<>>, ![link] = <<>>]
    /\ down' = {d \in down : d[1] # w}
    /\ UNCHANGED <<dbVars, verdict, held, agentVars, history, faults>>

(***************************************************************************)
(* Scheduler.Tick                                                          *)
(***************************************************************************)

(* The last sweep without its join on the agent's heartbeat. *)
FailAbandonedOfAnyAgent ==
    UNCHANGED scan \/ (scan \in Active /\ scan' = "failed")

(* FailAbandonedChunkedScans: no heartbeat for 24 hours, so every handler  *)
(* of the agent is long gone.                                              *)
FailAbandonedChunkedScans ==
    \/ UNCHANGED scan
    \/ /\ link = None /\ \A w \in Conns : pc[w] = "off"
       /\ scan \in Active /\ scan' = "failed"

(* A tick without ResetUnackedScanChunks. *)
TickSweepStaleOnly(t) ==
    /\ pc[t] = "idle"
    /\ \E stale \in SUBSET RunningRows :
         /\ stale # {} => row = "disconnected" \/ link = None
         /\ ResetRows(stale)
    /\ IF scan \in Active /\ RunningRows' = {}
       THEN pc' = [pc EXCEPT ![t] = "summary"] /\ UNCHANGED scan
       ELSE FailAbandonedChunkedScans /\ UNCHANGED pc
    /\ UNCHANGED <<attempts, verdict, held, linkVars, down, agentVars, history, faults>>

(* ResetStaleRunningScanChunks (rows untouched for 30 minutes, of an agent *)
(* that is gone), ResetUnackedScanChunks, and the query of                 *)
(* reconcileChunkedParents; without a parent to reconcile the tick goes    *)
(* straight to its last sweep.  They are one step: what another process    *)
(* does in between, or a query that fails, comes to a tick that resets     *)
(* less or returns at its summary.                                         *)
TickSweep(t) ==
    /\ pc[t] = "idle"
    /\ \E stale \in SUBSET RunningRows :
         /\ stale # {} => row = "disconnected" \/ link = None
         /\ ResetRows(stale \cup {c \in RunningRows : sent[c] = "old"})
    /\ IF scan \in Active /\ RunningRows' = {}
       THEN pc' = [pc EXCEPT ![t] = "summary"] /\ UNCHANGED scan
       ELSE FailAbandonedChunkedScans /\ UNCHANGED pc
    /\ UNCHANGED <<attempts, verdict, held, linkVars, down, agentVars, history, faults>>

TickEnd(t) ==
    /\ pc[t] = "abandon"
    /\ FailAbandonedChunkedScans
    /\ pc' = [pc EXCEPT ![t] = "idle"]
    /\ UNCHANGED <<status, attempts, sent, verdict, held, linkVars, down, agentVars, history, faults>>

(* The directive for c, or the agent's answer to it, is still on its way. *)
InTransit(c) ==
    \/ \E p \in Procs : pc[p] \in {"publish", "ack"} /\ held[p] = c
    \/ \E w \in Conns : <<w, c>> \in down \/ \E i \in DOMAIN wire[w] : wire[w][i].chunk = c
    \/ \E i \in DOMAIN out : out[i].chunk = c

(* Two minutes pass since a chunk was dispatched: a fault of the environment*)
(* when something about that chunk is still on its way.                     *)
Age(c) ==
    /\ sent[c] = "recent" /\ sent' = [sent EXCEPT ![c] = "old"]
    /\ IF InTransit(c) THEN Fault ELSE UNCHANGED faults
    /\ UNCHANGED <<scan, status, attempts, procVars, linkVars, down, agentVars, history>>

(***************************************************************************)
(* The agent                                                               *)
(***************************************************************************)

(* Tunnel.Send: a full buffer drops the message.  Log records and asset    *)
(* batches share the buffer and are not modelled, so it can also be full   *)
(* of them.  A chunk is orphaned when its end is dropped on a live         *)
(* connection, and when it is acknowledged again after its end was sent.   *)
Send(m) ==
    /\ \/ Len(out) < SendBuffer /\ out' = Append(out, m) /\ UNCHANGED faults
       \/ Len(out) >= SendBuffer /\ UNCHANGED <<out, faults>>
       \/ Fault /\ UNCHANGED out
    /\ orphaned' = \/ orphaned
                   \/ m.type = "started" /\ agent.st = "ending"
                   \/ m.type # "started" /\ out' = out /\ link # None

(* forwardDirective of subscription w, hub.Send, Tunnel.OnDirective. *)
OnDirective(w, c) ==
    /\ <<w, c>> \in down /\ link # None
    /\ down' = down \ {<<w, c>>}
    /\ \/ /\ agent.st = "idle"
          /\ agent' = [st |-> "scanning", chunk |-> c]
          /\ Send(Reports("started", c))
       \/ /\ agent.st # "idle" /\ agent.chunk = c
          /\ Send(Reports("started", c)) /\ UNCHANGED agent
       \/ /\ agent.st = "ending" \/ (agent.st = "scanning" /\ agent.chunk # c)
          /\ Send(Reports("error", c)) /\ UNCHANGED agent
    /\ UNCHANGED <<dbVars, procVars, linkVars, scanned, terminals>>

(* The instance of subscription w has no connection of the agent, or the   *)
(* directive is dropped on the way.                                        *)
DirectiveLost(w, c) ==
    /\ <<w, c>> \in down /\ down' = down \ {<<w, c>>}
    /\ \/ link # w /\ UNCHANGED faults
       \/ Fault
    /\ UNCHANGED <<dbVars, procVars, linkVars, agentVars, history>>

(* handleDiscoveryDirective ends: the pipeline finished, or it failed. *)
PipelineDone ==
    /\ agent.st = "scanning"
    /\ agent' = [agent EXCEPT !.st = "ending"]
    /\ \/ /\ Send(Reports("completed", agent.chunk))
          /\ scanned' = scanned \cup {agent.chunk}
       \/ Send(Reports("error", agent.chunk)) /\ UNCHANGED scanned
    /\ UNCHANGED <<dbVars, procVars, linkVars, down, terminals>>

(* The deferred cleanup clears the current chunk first and releases the    *)
(* semaphore after: a directive that comes in between is told "busy" even  *)
(* when it is for the chunk that just ended.                               *)
ReleaseSemaphore ==
    /\ agent.st = "ending" /\ agent' = [st |-> "idle", chunk |-> None]
    /\ UNCHANGED <<dbVars, procVars, linkVars, down, out, history, faults>>

WriteLoop(w) ==
    /\ link = w /\ out # <<>> /\ Len(wire[w]) < WireCap
    /\ wire' = [wire EXCEPT ![w] = Append(@, Head(out))]
    /\ out' = Tail(out)
    /\ UNCHANGED <<dbVars, procVars, link, row, down, agent, history, faults>>

(***************************************************************************)
(* Faults                                                                  *)
(***************************************************************************)

(* The connection breaks; reports already written may be lost. *)
Disconnect ==
    /\ link # None /\ Fault
    /\ \E kept \in 0 .. Len(wire[link]) :
         wire' = [wire EXCEPT ![link] = SubSeq(@, 1, kept)]
    /\ link' = None
    /\ UNCHANGED <<dbVars, procVars, row, down, agentVars, history>>

AgentRestart ==
    /\ Fault
    /\ agent' = [st |-> "idle", chunk |-> None] /\ out' = <<>>
    /\ link' = None
    /\ UNCHANGED <<dbVars, procVars, row, wire, down, history>>

(* Every API goroutine dies between two statements; only rows survive. *)
ApiRestart ==
    /\ Fault
    /\ pc' = [p \in Procs |-> IF p \in Ticks THEN "idle" ELSE "off"]
    /\ verdict' = [p \in Procs |-> "open"] /\ held' = [p \in Procs |-> None]
    /\ link' = None /\ down' = {} /\ wire' = [w \in Conns |-> <<>>]
    /\ UNCHANGED <<dbVars, row, agentVars, history>>

ConnStep(w) ==
    \/ Connect(w) \/ ResumeChunkedScans(w) \/ ScanStarted(w)
    \/ AckScanChunkStarted(w) \/ DiscoveryCompleted(w) \/ ScanError(w)
    \/ HangUp(w)

TickStep(t) ==
    TickSweep(t) \/ TickEnd(t)

AgentStep == PipelineDone \/ ReleaseSemaphore

Next ==
    \/ \E p \in Procs : DispatchNextChunk(p) \/ DispatchError(p)
    \/ \E w \in Conns :
         \/ ConnStep(w) \/ ResumeTimeout(w) \/ ReportHandlingFails(w)
         \/ Heartbeat(w) \/ WriteLoop(w)
         \/ \E c \in Chunks : OnDirective(w, c) \/ DirectiveLost(w, c)
    \/ \E t \in Ticks : TickStep(t)
    \/ \E c \in Chunks : Age(c)
    \/ AgentStep
    \/ Disconnect \/ AgentRestart \/ ApiRestart

Spec == Init /\ [][Next]_vars

(* The goroutines are scheduled, an agent that is not connected dials again*)
(* (Tunnel.Run loops for ever), what a live connection carries arrives,    *)
(* time passes and the recon pipeline ends.  No fault is ever due.         *)
Fairness ==
    /\ \A p \in Procs : WF_vars(DispatchNextChunk(p))
    /\ \A w \in Conns : WF_vars(ConnStep(w)) /\ WF_vars(WriteLoop(w))
    /\ \A w \in Conns, c \in Chunks : WF_vars(OnDirective(w, c))
    /\ \A t \in Ticks : WF_vars(TickStep(t))
    /\ \A c \in Chunks : WF_vars(Age(c))
    /\ WF_vars(AgentStep)

FairSpec == Spec /\ Fairness
(***************************************************************************)
(* Properties                                                              *)
(***************************************************************************)

(* A parent reported as completed covers its whole target: the agent ran   *)
(* the recon pipeline to its end on every chunk, whatever was lost, retried*)
(* or handled twice on the way (DispatchNextChunk decides this on a summary*)
(* that may be stale).                                                     *)
CompletedScanCoversTarget == scan = "completed" => scanned = Chunks

(* A completed chunk row stands for work that was done; it is never the    *)
(* product of a reset, a claim or a report about another chunk.            *)
CompletedChunkWasScanned == \A c \in Chunks : status[c] = "completed" => c \in scanned

(* The dispatcher does not fail a parent out of nothing: some chunk of it  *)
(* was reported as failed, however stale the summary it decided on.        *)
DispatcherFailureWasReported ==
    [][\A p \in Procs : FinishParent(p) /\ scan' = "failed"
          => \E c \in Chunks : attempts[c] > 0]_vars

(* Retries are bounded: a chunk that failed MaxAttempts times is never sent*)
(* to the agent again (a late success may still turn it into completed).   *)
ExhaustedChunkStaysDown ==
    [][\A c \in Chunks :
          status[c] = "failed" /\ attempts[c] = MaxAttempts
             => status'[c] \in {"failed", "completed"}]_vars

(* Once faults stop, the parent reaches a terminal status and stays there, *)
(* unless the end of a chunk was reported and lost without the connection  *)
(* breaking: nothing sweeps a chunk of a connected agent that acknowledged *)
(* its directive.                                                          *)
ScanSettles == []~orphaned => <>[](scan \in Terminal)

(* The comment on publishScanProgress: exactly one parent-terminal event.  *)
OneTerminalEvent == terminals < 2
=============================================================================
