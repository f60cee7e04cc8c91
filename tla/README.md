# SilkStrand: TLA+ models, checks and proofs

SilkStrand is a control plane for security scans. Agents run next to the
systems they scan and keep one WebSocket to an API that may run in several
instances; the instances share a PostgreSQL database and a Redis server used
for publish/subscribe. This directory holds TLA+ models of its core, the TLC
configurations that check them and TLAPS proofs about them. Paths below are
relative to the root of the repository; line numbers refer to the commit the
models were written from and are kept in `PROJECT.json` ("map").

## 1. Inventory

| Component (sources) | State | Operations | What must be right |
|---|---|---|---|
| Chunked discovery (`api/internal/scheduler/scheduler.go`, `api/internal/store/postgres.go`, `api/cmd/silkstrand-api/main.go`) | `scans.status`, `scan_chunks.{status,attempts,dispatched_at}` | dispatch next chunk, chunk reports, resume on reconnect, sweeps of a tick | a completed scan covered its target; bounded retries; every scan ends; one terminal event |
| Scan queue of an agent (`handler/scan.go`, `scheduler.go`, `postgres.go`) | `scans.status` of scans without chunks | create, busy check, queue, drain, sweep, fail on disconnect | a completed scan was run; no scan is queued for ever |
| Connections and hub (`websocket/hub.go`, `handler/agent.go`) | `Hub.conns` per instance, `agents.status` | accept, register, replace, unregister, heartbeat | an open connection is the one that is sent to; an agent comes back |
| Agent tunnel and semaphore (`agent/internal/tunnel/tunnel.go`, `agent/cmd/silkstrand-agent/main.go`) | `sendCh`, current scan and chunk | send (drop when full), write loop, redial with backoff, one scan at a time | nothing arrives twice, the buffer drains, the semaphore comes back, one last report per scan |
| Agent's files (`runner/recon/install.go`, `runner/collector.go`, `cache/cache.go`, `updater/updater.go`) | tools, collectors, bundles, its own binary | fetch, verify, rename or extract, run | what runs is whole, whenever a process is killed |
| Recon pipeline (`runner/recon/pipeline.go`, `stream.go`, `nuclei_network*.go`) | batchers, the ports left to each stage | stages, batches by size and by timer | no finding twice or never; no open port skipped |
| Log stream (`logstream/tunnel_handler.go`) | token bucket, drop counters | log, summarise | every drop is in one summary |
| Directive channel (`api/internal/pubsub/redis.go`) | subscriptions | publish, subscribe | at most once per subscriber |
| Probes and credential tests (`handler/probe.go`, `handler/credentials.go`) | result subscription | subscribe, publish, wait, time out | an answer that arrives is heard |
| Event bus and SSE (`api/internal/events`, `handler/events.go`) | subscriber channels | publish to a snapshot, cancel | a stream sees every event it is due, or a drop is counted |
| Allowlist (`agent/internal/runner/recon/allowlist.go`, `api/internal/allowlist`, `scheduler/chunks.go`) | the file, the report of it | report, dispatch, split, vet | nothing outside the file is scanned; the chunks tile it |
| Scan definitions and cron (`handler/scan_definitions.go`, `scheduler/cron.go`) | `next_run_at` | claim due, advance, edit, create the parent | a definition runs once a match and is never forgotten |
| Agent keys, install tokens, auto-discovery (`handler/agents.go`, `bootstrap.go`) | two key hashes, token, one-shot flag | bootstrap, rotate, consume, claim | a token and a flag act once; an agent is not locked out |
| Credentials (`handler/credentials.go`, `credential_mappings.go`) | sources, mappings | update, map, resolve | a scan gets the secret its source was given last, never the mask of a read |
| Findings and assets (`postgres.go`, `main.go`) | endpoint rows, finding status | upsert, suppress, announce | few rows per finding; suppression honoured |
| Rules and notification (`rules/`, `handler/correlation_rules.go`, `notify/`) | versions, delivery rows | evaluate, update, alert | one enabled version; no alert lost unseen |
| Audit writer (`audit/`) | channel, batch | emit, flush, close | every event stored once or counted |
| Backoffice (`backoffice/`) | tenants in two databases, memberships, invitations | provision, retry, delete; invite, join, remove | no stranded tenant or tenant without admin but by a fault or a race |
| Policy evaluation, web front end, configuration, crypto, other HTTP CRUD | - | - | not modelled, see section 8 |

How they interact: an HTTP handler or a scheduler tick inserts rows and
publishes a *directive* on the Redis channel of the agent. Each connection
handler of that agent, on whichever instance, subscribes to the channel and
forwards directives through its instance's hub to the WebSocket. The agent runs
one scan at a time and puts its reports in a bounded buffer, whose write loop
sends them; the read loop of the connection handler processes them one by one,
writing rows and dispatching what comes next. Nothing locks across these
steps: the only common state is rows, updated statement by statement. What a
scan reports becomes endpoints, findings and events; rules fire on them and
send alerts; SSE streams follow. The backoffice is a program of its own with a
database of its own: it creates tenants in the API's database through internal
HTTP calls and issues the tokens the API accepts.

What is hard: two or more goroutines running the same read-decide-write
sequence on one parent; directives without a subscriber, or with two;
reconnection while the old handler has not noticed; the restart of either side;
a report that is dropped because a buffer is full; sweeps with a time limit
racing slow messages. `PROJECT.json` ("hazards") lists these at their lines
with the properties that watch them.

## 2. Modules

| Module | Models | Extended or instantiated by |
|---|---|---|
| `CheckpointedScan` | abstract: what chunked discovery promises of one parent scan | `ChunkRefinement` (INSTANCE) |
| `ChunkDispatch` | chunked discovery of one parent | `ChunkRefinement` |
| `ChunkRefinement` | the mapping from the second to the first | `MCChunkDispatch`, `ChunkDispatchProofs` |
| `ScanQueue` | the scans of one agent that have no chunks | `MCScanQueue`, `ScanQueueProofs` |
| `HubConn` | the connections of one agent over several instances | `MCHubConn`, `HubConnProofs` |
| `LossyChannel` | abstract: a bounded buffer whose messages arrive at most once | `AgentTunnel` (INSTANCE) |
| `AgentTunnel` | the agent's send buffer and the loops of its successive connections | `MCAgent` |
| `DirectiveRun` | a directive on the agent: semaphore, runners, files, upgrade | `MCAgent` |
| `DiscoveryPipeline` | the stages of a discovery and their batches | `MCAgent` |
| `LogThrottle` | the throttled log stream | `MCAgent` |
| `AllowlistScope` | file, report, chunks and vetting | `MCServer` |
| `EventBus` | one instance's bus and its SSE streams | `MCServer`, `MessagingProofs` |
| `AuditWriter` | the buffered audit writer | `MCServer`, `MessagingProofs` |
| `RoundTrip` | probes and credential tests | `MCServer`, `MessagingProofs` |
| `Credentials` | credential sources, mappings, resolution | `MCServer`, `AccountProofs` |
| `AgentKeys` | tokens, keys and the first discovery of agents | `MCServer`, `MCAgentKeys`, `AccountProofs` |
| `Ingest` | reports into an endpoint, its events and findings | `MCServer` |
| `ScanDefinitions` | one discovery definition and its parents | `MCServer` |
| `Predicate` | evaluation of predicates in any key order | `MCServer` |
| `RuleVersions` | concurrent updates of one rule | `MCServer` |
| `RuleActions` | alerts and their delivery rows | `MCServer` |
| `Memberships` | the people of one tenant | `MCServer`, `AccountProofs` |
| `TenantProvisioning` | one tenant in two databases | `MCServer`, `AccountProofs` |
| `SequenceLemmas` | induction over numbers and lemmas on sequences, for proofs | `AgentProofs`, `MessagingProofs`, `ServerProofs` |
| `MCAgent`, `MCServer` | the agent's and the API's parts side by side | `AgentProofs`, `ServerProofs` |

A module of proofs serves several modules of the model: `ChunkDispatchProofs`
(chunked discovery and its refinement), `ScanQueueProofs`, `HubConnProofs`,
`AgentProofs` (the four parts of the agent and `MCAgent`), `MessagingProofs`
(`RoundTrip`, `EventBus`, `AuditWriter`), `AccountProofs` (`AgentKeys`,
`Memberships`, `TenantProvisioning`, `Credentials`) and `ServerProofs` (the
other parts of the API, and `MCServer` composed of all of them).

`MCAgent` and `MCServer` each hold several modules that share no state with one
another. A behaviour picks one of them (`area`) and leaves the others as they
are, so that a run explores the union of their state spaces and not a product
that would show nothing more. Their properties are those of the modules.

### ChunkDispatch

One parent scan and one agent. The processes are the handlers of the agent's
connections (`Conns`), the scheduler goroutines of the API instances (`Ticks`)
and the caller that created the scan (`Creators`). `pc[p]` is the next database
statement of each; `verdict[p]` is what the summary it has read said; `held[p]`
the chunk it works on.

| State | Code |
|---|---|
| `scan`, `status`, `attempts`, `sent` | the rows of `scans` and `scan_chunks`; `sent` is `dispatched_at`: NULL, recent, older than two minutes |
| `row` | `agents.status` |
| `link` | the connection the agent's tunnel is attached to |
| `down` | directives published on Redis and not yet forwarded, one per subscription |
| `agent`, `out` | semaphore with the current chunk; `Tunnel.sendCh` |
| `wire` | reports sent and not yet read by the handler |
| `scanned`, `terminals`, `orphaned` | history: what really was scanned; terminal events; a report lost on a live connection |

Each action is one statement or one non-blocking stretch of code: the four
statements of `DispatchNextChunk` (`ScanChunkSummary`, `ClaimNextScanChunk`,
`CheckParent`, `FinishParent`) interleave with those of every other
dispatcher. `StatementError` and `PublishError` are the error returns.
`ScanStarted` and `AckScanChunkStarted` are separate, as in `buildOnMessage`.

Abstractions: `attempts` saturates at `MaxAttempts` (the code compares it only
with 3). `FOR UPDATE SKIP LOCKED` of the claim is one atomic step: a locked row
is skipped only while the claimer of that row commits. The stage of a chunk,
asset counts and events other than the parent's terminal are left out. The
clean-up of a connection handler (`HangUp`) is one step here; `HubConn` takes
it apart. The resets of a tick and its query for parents are one step
(`TickSweep`), and an error of one of them is no action of its own: a tick that
fails there resets less, or returns at its summary, as the model's may.
`handleAssetDiscovered` also turns a "pending" parent into "running"
(`main.go:636`); that is left out, because `ScanStarted`, whose message comes
first, writes the same over any status. That `FailAbandonedChunkedScans` needs
24 hours without heartbeat is modelled as: the agent is away and none of its handlers is left. `Age` lets
two minutes pass only when nothing about the chunk is in transit, or counts
it as a fault. The drain of other scans that follows a terminal state is
modelled in `ScanQueue`.

### ScanQueue

Creators (`ScanHandler.Create`, `dispatchOne`) insert, check whether the agent
is busy, then queue or publish; handlers settle scans and drain; the sweep
fails queued scans that nobody will drain; the clean-up of a handler fails
everything active. `Publish` delivers to nobody, to one subscriber, or twice
while the handler of a broken connection still subscribes. Directives form one
FIFO for the agent, as deliveries on one Redis channel through one handler do.
Abstractions: results are not modelled, a partial one is a message of its own
type; a scan's row is never deleted; scan rows are inserted in the order of
their numbers, which is the order of `created_at`.

### HubConn

Handlers of one agent's connections on several instances: `Accept`
(`AgentHandler.Connect` up to the upgrade), `Register` and `Unregister` (the
hub's critical sections), `ReadFails`, `MarkDisconnected`, `Heartbeat`. `open`
is the set of connections whose server side is open, `link` the one the agent
holds, so that a half-open connection is one in `open` that is not `link`.

### The agent: AgentTunnel, DirectiveRun, DiscoveryPipeline, LogThrottle

`AgentTunnel` numbers the connections the agent dials (`Dials`). Each has its
own write loop, and `connect` does not wait for it: after a read error the loop
of the old connection may take one message from the shared `sendCh` and fail to
write it. `sock` is what was written and not yet read by the server, `got` what
it read. `TunnelIsLossyChannel` maps this to `LossyChannel`: what waits is what
is in the buffer or on a socket, what is gone was dropped or lost.

`DirectiveRun` follows `handleDirective` and `handleDiscoveryDirective` from
the semaphore to the last report. Files are "absent", "torn" or "whole"; a
download goes to a temporary name and is renamed, `cache.Store` extracts in
place, and again over a directory that has no manifest yet. A collector that an
operator put on the PATH or beside the bundles is used unverified and taken to
be whole. `Crash` can come at any step, an upgrade ends the process by design.
`tally`, `ranTorn` and `interrupted` are history.

`DiscoveryPipeline` keeps findings as sets of (stage, endpoint): in a batch,
held by a timer that has taken it, or emitted. `LogThrottle` has one step for
each atomic operation of `maybeEmitThrottled`.

### The API: one module per part

* `AllowlistScope`: addresses are `0 .. n`, an entry is an interval with its
  kind, since single addresses, networks and ranges are tested differently.
  A network that is too large is cut into blocks of a size of `BlockSizes`, the
  powers of two.
* `EventBus`: `Publish` takes its targets at once and then, per target, checks
  `closed` and sends; a cancel flags, removes and closes in three steps.
* `AuditWriter`: events are numbered; `Unacceptable` ones make the database
  refuse the batch they are in.
* `RoundTrip`: a handler forwards what it hears to whatever connection the hub
  holds, so that a request reaches the agent several times or never.
* `Credentials`: a secret is a model value, the sentinel "(set)" or blank. A
  request may put any of them in a secret's place: of a new row only the blank
  password of a static source is refused, a put refuses nothing but empty data.
  `given` remembers what a row was given last, `reverted` the rows in which an
  update that read before that wrote the older secret back.
* `AgentKeys`: keys are numbers in the order of their generation, 0 is NULL.
* `Ingest`: one endpoint; every handler is at a statement; `inputs` bounds
  reports, user actions and failing statements together.
* `ScanDefinitions`: a cron expression is the set of minutes it matches.
* `Predicate`: a predicate is a sequence of nodes, children before their
  parents; the result of a node is the set of outcomes over all orders in which
  Go may visit a map. Predicates are built up to `MaxNodes` nodes and arrays of
  `MaxKids` children.
* `RuleVersions`: an UPDATE sees the rows committed when it started and waits
  for row locks, as READ COMMITTED does; `(rule, version)` is unique.
* `RuleActions`: an alert is a goroutine with its deadline; a receiver may be
  slow, refuse, or take the alert.

### The backoffice: Memberships, TenantProvisioning

A request is a sequence of statements without a transaction. A reduction
(remove, suspend, demote) is the read of the membership, the count of active
admins and the write; `stale` says that another write came after the count.
`lapsed` records that an operator, a failed statement, an admin who accepts a
member's invitation or such a stale write took an admin; nothing is followed
past it, for after it the property allows everything. A user's account status,
the cap on memberships and the mails are left out.

`TenantProvisioning` has the row of the backoffice, the tenants of the data
center and the requests in flight. A call may fail before it arrives, after it
was carried out, or be carried out late.

## 3. What TLC checks

All runs use two workers and end within two minutes on a small machine
(`MCServer`, with 1.6 million states, and `MCChunkDispatchReconnect`, with
5 million, take longest).

| Run | Instance | Shows |
|---|---|---|
| `MCChunkDispatchRetry` | 2 chunks, 2 attempts, 1 handler, 1 tick, no faults (the refinement under faults and reconnection is theorem `ChunkDispatchRefines`) | `TypeOK`; `ChunkDispatch` implements `CheckpointedScan`; an exhausted chunk is not sent again; the dispatcher fails only a parent with a failed chunk |
| `MCChunkDispatchReconnect` | 1 chunk, 2 handlers, creator, 2 faults | a completed parent covered its target, with duplicate directives, two live handlers, restarts |
| `MCChunkDispatchLiveness` | 1 chunk, 2 attempts, handler, tick, 1 fault | `ScanSettles` |
| `MCScanQueue` | 2 scans, 2 handlers, 1 fault | `TypeOK`; a completed scan was run; every scan settles |
| `MCHubConn` | 4 handlers on 2 instances, 3 breaks, 2 hasty dials | `TypeOK`; an open connection that is read from is registered; the agent is served again |
| `MCAgent` | 3 dials and 4 messages for a buffer of 2; 2 directives sent twice, 1 end of the process; 2 endpoints; 2 loggers | the table below |
| `MCServer` | 2 actors of every kind | the table below |

| Property | Module | Says |
|---|---|---|
| `TunnelIsLossyChannel`, `BufferDrains` | `AgentTunnel` | the tunnel implements `LossyChannel`; everything in the buffer leaves it |
| `OneEndPerAcceptance`, `SemaphoreComesBack` | `DirectiveRun` | an accepted directive ends with one last report or with the process, and the next is accepted |
| `FilesRunWhole` | `DirectiveRun` | only a bundle whose extraction was cut short, or an upgrade without checksum, runs torn |
| `BatchesPartitionFindings`, `EveryPortExamined` | `DiscoveryPipeline` | a finding is in one place; a port skipped by httpx was identified by the pass before |
| `DropsAccounted` | `LogThrottle` | each refused record is in one summary or will be |
| `ScansStayInFile`, `ChunksTileEntries` | `AllowlistScope` | whatever the report says, what is scanned is in the file; the chunks hold each address as often as the reported entries do, and none is over the limit |
| `EventReachesStream` | `EventBus` | an event owed to an open stream is in it, on its way or dropped; a publisher dies only of a cancel |
| `AuditAccounted` | `AuditWriter` | each event is stored once, in order, or counted as dropped, or in a batch that failed |
| `AnswerIsHeard` | `RoundTrip` | no answer passes a request that waits |
| `ScanSecretIsIntended` | `Credentials` | a row that a scan takes exists and stores what it was given last; an update that leaves the secret masked stores no mask, and undoes a gift only if it read before it |
| `AlertsRecorded` | `RuleActions` | an alert without a row was lost to a deleted channel, the database or the end of the process |
| `InstallActsOnce` | `AgentKeys` | one agent a token, one discovery a flag |
| `RowsComeFromRaces`, `SuppressionHonored`, `NewEndpointAnnounced` | `Ingest` | no more rows than handlers; only a report that had looked before reopens; a new endpoint is announced |
| `ClaimedOncePerMatch`, `LoseATickNotADefinition`, `OrphansAccounted` | `ScanDefinitions` | one claim a matching minute; a definition stays due; a parent without chunks takes the end of its worker (a crash, a cancelled request) or two errors |
| `OrderHidesErrorsOnly` | `Predicate` | without an error there is one answer in every visiting order; an error may be hidden by one, but a match is never a mismatch in another |
| `LastVersionLive` | `RuleVersions` | at most the last version is enabled |
| `AdminsLostByRaceOrOperator` | `Memberships` | sequential requests keep an active admin |
| `StrandedTenantsAccounted` | `TenantProvisioning` | a tenant nobody knows of has cost a fault or overlapping requests |

Several of these state a weakness exactly: what the code does not prevent (a
duplicate row, an orphan, a stranded tenant, a lost alert) and which fault or
overlap it takes. The exceptions in a property are all reached in its run.

Why the bounds are enough. Two chunks are the least with a "next" one and a
partially completed parent; two attempts separate the first failure, the retry
and exhaustion. One handler and one tick race at every statement; two handlers
are all that can be alive for an agent whose connection was replaced once, and
four handlers let a replacement be replaced while an instance is shared. Two
scans race in the busy check and can both end up queued. Two faults allow a
loss during the recovery from another loss. In `MCAgent` three dials let the
loops of two dead connections take from the buffer of a third, and a buffer of
two is full and drained several times with four messages. In `MCServer` two
actors of each kind (publishers and streams, editors, schedulers, reporters,
requests on memberships) are what a race takes, and the counters allow each
fault to happen in the middle of the other's work; in `AllowlistScope` six
addresses hold networks, ranges and single addresses that contain, touch and
cross each other, and chunks of three cut them at odd places; in `Predicate`
four nodes nest two operators over leaves of any outcomes. What the small instances leave out
(more chunks, scans, handlers and faults) is covered by the theorems of
section 5: every safety property of a passing run has one. Every bound is a constant: `MaxFaults`,
`WireCap`, `MaxBreaks`, `MaxHasty`. `MaxAttempts` is 3 in the code and 1 or 2
here; the send buffer holds 64 messages in the code and 1 or 2 here, so that it
is full often. The bounds of the other modules are marked "bound" where they
are declared; that of `Memberships` is also the guard `~lapsed`. Deadlock is not
checked where a behaviour may end: all faults used up and all scans settled.

### Runs that find a disagreement

Each checks one statement of a comment or log line, and TLC shows a
behaviour of the code that breaks it ("findings" in `PROJECT.json`).

| Run | Statement | What happens |
|---|---|---|
| `MCChunkDispatchOneTerminal` | "exactly one terminal fires" | two dispatchers pass the status check together |
| `MCScanQueueDrain` | the drain is called from terminal states | partial results drain, too |
| `MCScanQueueWaits` | "scan will wait for agent" | the directive is lost and never published again |
| `MCHubConnHook` | the hook runs when `Send` can deliver | the previous handler unregisters the new connection |
| `MCAgentKeys` | the key before a rotation "stays valid until the agent reconnects" | nothing promotes the next key, and a second rotation overwrites the one in use |

The models show more behaviours that a reader of the comments may not
expect; no run is spent on them. A dispatcher with a stale summary can fail a
parent while the failed chunk is being retried (`main.go:401-403` of the API).
A parent that one dispatcher failed can be completed by another that had
checked it before (`scheduler_test.go:564` tests the sequential case). The
"busy" answer to a duplicate directive turns a completed chunk back to failed
(`model.go:411-413`). The handler of a replaced connection marks a connected
agent disconnected and fails its scans (`handler/agent.go:124`).
`notify/dispatcher.go:58` and `:74` say that every send and every error leaves
a delivery row: not once the channel is deleted, nor past the deadline (the row
is written under it), nor when the process ends (`AlertsRecorded`). A network
is vetted by the agent against denied networks only
(`recon/allowlist.go:171`), though the comment at `:161` speaks of every deny
entry: denied addresses and ranges inside an allowed network are scanned.
`ScansStayInFile` states what remains. In `HubConn` a handler that registers
late closes and replaces the connection of a newer one, whose hook may still be
running. A client that changes a source's name and leaves
the secret masked undoes a rotation between the two statements of its update,
though `handler/credentials.go:141` says that the existing value is kept; and
"(set)" as the secret of a new source is stored as it is.
`rules/predicate.go:57` says that malformed predicates return `(false, error)`:
the keys of an object are visited in any order up to the one that decides, so
that `{"$not": {"port": {"$eq": 80, "$bogus": 1}}}` matches port 443 without an
error when `$eq` comes first and gives an error when it does not. The rule then
fires at one evaluation and is skipped at the next (`engine.go:157`). Predicates
all of whose terms can be evaluated are free of this (`OrderHidesErrorsOnly`).

## 4. Fairness

Weak fairness of the goroutines' steps (the Go scheduler), of the scheduler's
ticks (a ticker loop that never returns), of redialling (`Tunnel.Run` loops
until its context ends), of delivery on a live connection, of the passage of
time (`Age`) and of the end of a scan. That a scan ends is an assumption on the
programs the agent starts: Python controls run under a timeout of five minutes
(`runner/python.go`), collectors and recon tools under none. No fault is fair,
no error is, and no weak fairness is asked of a queued drain or a subscription
that is not there.

* `ScanSettles` of `ChunkDispatch` assumes `[]~orphaned`: no report that ends a
  chunk is dropped on a connection that goes on living, and no resume is
  skipped. The code does nothing about these until the agent reconnects. With
  two faults a late acknowledgement of an earlier dispatch can silence the
  sweep of a later one, so the run has one. A failure whose write fails on top
  of another fault is therefore beyond this run; safety under any number of
  faults is proved.
* `ScanSettles` of `ScanQueue` assumes `[]~lost`: no directive and no last
  report was lost without the connection breaking with it. What is left is the
  part a drain or the sweep has to achieve.
* `AgentIsServedAgain` bounds the dials made while a handler of a closed
  connection has not returned (`MaxHasty`). `Tunnel.Run` doubles its backoff on
  every attempt up to a maximum and never resets it (the comment at
  `tunnel.go:130` says otherwise), while an abandoned handler returns within
  `pongWait`; without a bound two handlers can close each other's connection
  for ever.
* `BufferDrains` asks for the goroutines of every connection (a write loop, a
  read loop that notices a severed connection within `pongWait`) and for the
  redial, not for a connection that stays up; that `MaxErrors` is finite is
  what lets the last one drain.
* `SemaphoreComesBack` asks for the scan goroutine's steps and the end of an
  upgrade's download, again assuming that tools and downloads return.
* The properties of `MCServer` are safety only and its specification has no
  fairness.

## 5. What is proved

The proofs hold for every value of the constants that satisfies the assumption
of the module (`ChunkAssumption`, `QueueAssumption`, `HubAssumption` and so on).
These say no more than that sizes are numbers, positive where a buffer must
hold something, and that a value meant to be none of a set is not in it. A set
is assumed finite where a proof counts it: the handlers of an agent's
connections, the reporters of a finding, the people of a tenant, the entries of
an allowlist.
`Addr` is closed downwards, as addresses are.

Every safety property that a passing run checks, state invariant or action
property, is proved, and so are the types and both refinements.

| Theorem | States | Argument |
|---|---|---|
| **`ChunkDispatchProofs`** | | |
| `TypeCorrect` | `TypeOK` | `TypeInv` adds to `TypeOK` that a goroutine at `publish`, `reset` or `ack` holds a chunk and that a scanning agent has one |
| `CompletedCovers` | `CompletedScanCoversTarget` | `CoverInv`: every "completed" report in `out` or `wire` is of a chunk in `scanned`, a completed row is of a scanned chunk, and a verdict "alldone", however stale, implies that all chunks are scanned; `scanned` only grows, so staleness does no harm |
| `ExhaustedStaysDown` | `ExhaustedChunkStaysDown` | from `TypeInv`: a claim takes a failed row only below `MaxAttempts`, every reset is restricted to running rows, and a late report can only complete the row or fail it again |
| `FailureWasReported` | `DispatcherFailureWasReported` | `BlameInv`: a failed row, and a verdict "deadend", come with a positive attempt count, which never goes down |
| `ChunkDispatchRefines` | `ImplementsCheckpointedScan` | step by step from `CoverInv` and `BlameInv` |
| **`ScanQueueProofs`** | | |
| `CompletedWasRun` | `CompletedScanWasRun` | `QueueInv`: every "results" report on its way is of a scan in `ran` |
| `ScanQueueTypeCorrect` | `TypeOK` | a conjunct of `QueueInv`: no statement writes a row a status it cannot have |
| **`HubConnProofs`** | | |
| `HubTypeCorrect` | `TypeOK` | inductive as it stands |
| `OpenIsRegistered` | `OpenConnectionIsRegistered` | inductive with the types: replacing and removing an entry both close it |
| **`AgentProofs`** | | |
| `TunnelRefines` | `TunnelIsLossyChannel` | `TunnelInv`: the buffer and each socket hold messages in the order they were handed over, a socket's before the buffer's, no two sockets the same one (`InOrder`), so that a message is in one place; each step then maps to a step of the channel or stutters |
| `AcceptedOnce` | `OneEndPerAcceptance` | `JobInv`: a job is held exactly when its goroutine is between acceptance and release, and its tally lags by one in between; duplicates find the semaphore taken |
| `FilesAreWhole` | `FilesRunWhole` | `FilesInv`: tools and collectors are renamed into place and never torn, the agent's file only if an upgrade was not verified, a bundle only while it is extracted or after a process ended there (`interrupted`) |
| `BatchesAccounted`, `PortsExamined` | `BatchesPartitionFindings`, `EveryPortExamined` | `PipelineInv`: the detection pass begins with an empty buffer; what httpx is not given was reported by that pass |
| `DropsReported` | `DropsAccounted` | `FlagInv`: at most one goroutine a handler is past the compare-and-swap; `CountInv`: refused records are those of the summaries, those not yet counted and the count that this goroutine carries, if it is there |
| `AgentTypeCorrect`, `AgentCorrect` | `TypeOK` and the properties above, of `MCAgent` | `MCAgent`'s specification implies that of each part (`AgentPartsRun`) |
| **`MessagingProofs`** | | |
| `AnswersReachWaiters` | `AnswerIsHeard` | `TripInv`: everything on its way between API and agent is of a request that was published, and a request publishes only once its subscription is registered |
| `EventsReachStreams` | `EventReachesStream` | `BusInv`: an event that is owed to an open stream is in its channel, written, counted as dropped or pending with a publisher whose loop is in a consistent state (`InLoop`), as long as no publisher has died; one that died did so of a stream that is closed |
| `EventsAccounted` | `AuditAccounted` | `AuditInv`: queue, batch, stored, skipped and failed events are ascending, disjoint and hold every number up to the last emitted (`Placed`); after Close the first two are empty |
| **`AccountProofs`** | | |
| `TokensActOnce` | `InstallActsOnce` | `KeysInv`: before a token is used no host has consumed it and no agent was born of it, and at most one host stands between the two; flag, claim and definition exclude each other |
| `AdminsStay` | `AdminsLostByRaceOrOperator` | `MembersInv`: unless `lapsed`, a request that is about to take an active admin and whose count no write has overtaken leaves another one |
| `StrandedTenantsCost` | `StrandedTenantsAccounted` | `ProvisioningInv`, an account of debts: exposed tenants, late calls and calls in flight (`Debt`) are at most the faults and overlaps so far plus one, and plus none in the states of `Owing`, where nobody is left who would pay. The property itself says nothing of calls in flight, which become tenants |
| `SecretsAreIntended` | `ScanSecretIsIntended` | `CredInv`: a row holds what it was given or is marked as reverted (`RowsKept`); what an update has read is that, unless the row was given something since, which the update knows (`ReadsKept`); what a mapping or a target refers to exists (`RowsReferred`) |
| **`ServerProofs`** | | |
| `ScansAreAllowed` | `ScansStayInFile` | in `AllowlistInv`, with the verdict of the vetting of the file of that moment |
| `ChunksTile` | `ChunksTileEntries` | `AllowlistInv`: every chunk is within the limit (`Cut`) and the chunks hold an address as often as the report's entries (`Tiles`). That splitting one entry does so is proved by induction over its windows, that concatenation does by induction over the entries |
| `ClaimsMatch` | `ClaimedOncePerMatch` | `ClaimsInv`: claims are at most the matching minutes since the schedule was set, and, while a next run is set, those before it; a worker's `now` is not after the present (`WorkersInv`) |
| `DefinitionsAreKept` | `LoseATickNotADefinition` | inductive with `WorkersInv`: what a worker writes back is a time of the definition's cron, unless an edit overtook it (`stale`) |
| `OrphansCostFaults` | `OrphansAccounted` | `FaultsInv`: twice the orphans plus the workers that are about to fail a parent (`Failing`, one fault each) are at most the faults: failed statements, and workers that ended counted twice |
| `RowsAreRaces` | `RowsComeFromRaces` | `RowsInv`: once a finding has a row, its rows and the handlers that are still to insert one (having read before) are at most the handlers |
| `NewEndpointsAreAnnounced` | `NewEndpointAnnounced` | `EndpointInv`: before the row exists no handler remembers one; after that the handler that made it has yet to append the event |
| `UsersSuppress` | `SuppressionHonored` (action property) | from the types: only `UserSets`, or an update by a handler whose read is older, writes over "suppressed" |
| `OrderCostsErrors` | `OrderHidesErrorsOnly` | by induction over the nodes: no node's result holds both "match" and "mismatch", and none an error if no term below it has one; an array decides at one child only, the first that cannot be passed (`VisitReturns`) |
| `RuleFiresOnce` | `LastVersionLive` | `VersionsInv`: a request that is disabling rows read MAX(version) before its UPDATE took its snapshot, so that whatever it does not see has a number its insert cannot take |
| `AlertsLeaveRows` | `AlertsRecorded` | `ActionsInv`: what holds of an alert at each of its statements; deadlines and deleted channels do not come back |
| `ServerTypeCorrect`, `ServerCorrect` | `TypeOK` and the properties above, of `MCServer` | the specification of `MCServer` implies that of each part (`PartsRun`) |

A part's theorem is about its own specification, `TunnelSpec`, `IngestSpec` and
so on. The composed modules let one part move and the others rest, so that a
behaviour of the composition is one of each part; `AgentCorrect` and
`ServerCorrect` draw the conclusion for `MCAgent!Spec` and `MCServer!Spec`, the
specifications the runs check.

Few of the properties are inductive. `CompletedScanCoversTarget` alone does not
say why a dispatcher that is about to write "completed" may do so, nor where a
row's "completed" came from; the strengthening follows a completion back from
the parent to the verdict, to the rows, to the reports and to the agent. It is
the same in the others: an invariant says what a goroutine that has read
something may still believe when it writes. Where a strengthening was not
obvious TLC checked it first: `BudgetInv`, whose plus one stands for the debt of
a creation that is still at work, on an instance with three requests on one
tenant (604 thousand states).

Induction over numbers is done without the library's theorems, which take an
operator: `SequenceLemmas` proves that a nonempty set of numbers has a least
element and, from that, that a set which holds 0 and successors holds all; each
induction defines its set. Recursive functions are shown to exist in the same
way. Two parts of the model were put differently for this: `Predicate` has its
trees as sequences of nodes and `AllowlistScope` counts addresses.

Only model-checked: liveness under fairness (`ScanSettles` of both modules,
`AgentIsServedAgain`, `BufferDrains`, `SemaphoreComesBack`), which is out of the
prover's reach, and the runs that find a disagreement.

## 6. How a property is known to have teeth

For every property of a passing run `PROJECT.json` names a mutant: a definition
of the model with the slip a programmer could make (a retry bound off by one, a
sweep left out, a verdict that forgets running chunks, an unregister that does
not close), under which TLC finds the property violated. The mutated forms stand
before the definition they replace.

## 7. Plan

What could be added, in order of importance:

1. Chunked parents and scans without chunks in one queue: `ChunkDispatch` and
   `ScanQueue` composed over the agent's semaphore.
2. The hub's writers (directives, probes and pings write to one connection
   without a lock) and the upgrade and allowlist requests on the directive
   channel.
3. Deletion of definitions, collections and scans under the workers that hold
   them; `run_scan_definition`, through which a rule can start the discovery
   that fires it again.
4. The backoffice's rate limiter and password resets; collected facts and the
   policies evaluated on them.
5. Proofs: an abstract specification for the scan queue (a scan moves forward
   through its statuses, or is failed) and one for the audit writer (a queue
   with counted losses), with the refinement theorems; more action properties
   of the kind of `ExhaustedStaysDown` for findings and rules.

## 8. What is not modelled

Request parsing, HTTP status codes, SQL that touches one row without
concurrency, rendering, the front end, Terraform, vendored bundle code and
external tools (naabu, httpx, nuclei, Python controls, Rego). Policy evaluation
maps the results of an external engine to findings and has no state of its
own. Wall-clock time appears only as "recent" and "old", or as a few minutes.
The components' notes in `PROJECT.json` say what each module leaves out.
Security of keys and tokens is out of scope: only their life cycle is modelled.

Some hazards of the code have no property here. Several goroutines write to one
WebSocket; a failed write of a chunk's completion, and a resume that times out,
leave the chunk running until the agent reconnects. The monthly partitions of
`findings`, `asset_events`, `notification_deliveries`, `audit_events`,
`collected_facts` (to July 2026) and `agent_log_events` (to June) end and
nothing creates later ones: from then on their inserts are refused, which the
models contain as a failing statement (`AuditAccounted`, `AlertsRecorded`,
`Ingest`) and not as a date.
