--------------------------- MODULE ScanDefinitions ---------------------------
(***************************************************************************)
(* One discovery definition: its schedule, the schedulers of the API       *)
(* instances that claim it when it is due, the requests that edit, toggle  *)
(* and execute it, and the parent scans they create.  A schedule is the    *)
(* set of minutes its cron expression matches.                             *)
(***************************************************************************)
EXTENDS Naturals, FiniteSets, FiniteSetsExt

CONSTANTS
    Workers,      \* scheduler goroutines and HTTP requests
    CronTimes,    \* schedules: sets of minutes
    Horizon,      \* how far ahead Cron.Next looks (four years)
    MaxMinutes,   \* bound: the clock
    MaxEdits      \* bound: edits, manual executions, statements that fail
                  \* and workers that end, together

ASSUME ScanDefinitionsAssumption ==
    /\ CronTimes \subseteq SUBSET (1 .. MaxMinutes) /\ Horizon \in Nat \ {0}
    /\ MaxMinutes \in Nat /\ MaxEdits \in Nat

Null == 0               \* next_run_at IS NULL
NoCron == {}            \* schedule IS NULL
Minutes == 0 .. MaxMinutes

VARIABLES
    minute,     \* the wall clock
    def,        \* the scan_definitions row
    worker,     \* what each worker is doing
    claimed,     \* claims since a request last wrote next_run_at, until gaveUp
    since,      \* the minute that write was computed at
    gaveUp,     \* since then Cron.Next found no match within its horizon
    overlapped, \* a request wrote what it had read before another's write
    orphans,    \* pending parent scans without chunks that nobody works on
    edits,
    mishaps,    \* statements that failed and workers that ended
    deaths      \* workers that ended
defVars == <<minute, def, worker, claimed, since, gaveUp, overlapped, orphans,
             edits, mishaps, deaths>>

OffDuty == [at |-> "idle", now |-> 0, cron |-> NoCron, stale |-> FALSE]

ScanDefinitionsTypeOK ==
    /\ minute \in Minutes
    /\ def \in [enabled : BOOLEAN, cron : CronTimes \cup {NoCron}, next : Minutes]
    /\ worker \in [Workers -> [at : {"idle", "claim", "create", "chunks", "fail", "update", "enable"},
                               now : Minutes, cron : CronTimes \cup {NoCron}, stale : BOOLEAN]]
    /\ claimed \in Nat /\ since \in Minutes /\ gaveUp \in BOOLEAN /\ overlapped \in BOOLEAN
    /\ orphans \in Nat /\ edits \in 0 .. MaxEdits
    /\ mishaps \in 0 .. edits /\ deaths \in 0 .. mishaps

ScanDefinitionsInit ==
    /\ minute = 0 /\ def = [enabled |-> TRUE, cron |-> NoCron, next |-> Null]
    /\ worker = [w \in Workers |-> OffDuty]
    /\ claimed = 0 /\ since = 0 /\ gaveUp = FALSE /\ overlapped = FALSE
    /\ orphans = 0 /\ edits = 0 /\ mishaps = 0 /\ deaths = 0

Goes(w, at) == worker' = [worker EXCEPT ![w] = [OffDuty EXCEPT !.at = at]]
OnDuty(w, at) == worker[w].at = at
MinutePasses ==
    /\ minute < MaxMinutes /\ minute' = minute + 1
    /\ UNCHANGED <<def, worker, claimed, since, gaveUp, overlapped, orphans, edits, mishaps, deaths>>

(* A plausible bug: a match at the minute itself counts. *)
MatchesFrom(cron, from) == {t \in cron : from <= t /\ t <= from + Horizon}

Matching(cron, from) == {t \in cron : from < t /\ t <= from + Horizon}

(* Cron.Next and computeNextRunAt; Null stands for their error. *)
NextRun(cron, from) == IF Matching(cron, from) = {} THEN Null ELSE Min(Matching(cron, from))

(* Tick takes the time before it claims. *)
StartTick(w) ==
    /\ OnDuty(w, "idle")
    /\ worker' = [worker EXCEPT ![w] = [OffDuty EXCEPT !.at = "claim", !.now = minute]]
    /\ UNCHANGED <<minute, def, claimed, since, gaveUp, overlapped, orphans, edits, mishaps, deaths>>

Due(now) == def.enabled /\ def.cron # NoCron /\ def.next # Null /\ def.next <= now

(* A plausible bug: what cannot be computed is written as NULL. *)
AdvanceToNull(w) == NextRun(def.cron, worker[w].now)

(* A definition whose next run cannot be computed stays due, and is        *)
(* returned all the same.                                                  *)
Advance(w) ==
    LET next == NextRun(def.cron, worker[w].now)
    IN IF next = Null THEN def.next ELSE next

(* One transaction: SELECT ... FOR UPDATE SKIP LOCKED, UPDATE, COMMIT. *)
ClaimDueScanDefinitions(w) ==
    /\ OnDuty(w, "claim") /\ Due(worker[w].now)
    /\ def' = [def EXCEPT !.next = Advance(w)]
    /\ gaveUp' = (gaveUp \/ NextRun(def.cron, worker[w].now) = Null)
    /\ claimed' = IF gaveUp' THEN claimed ELSE claimed + 1
    /\ Goes(w, "create")
    /\ UNCHANGED <<minute, since, overlapped, orphans, edits, mishaps, deaths>>

NothingDue(w) ==
    /\ OnDuty(w, "claim") /\ ~Due(worker[w].now)
    /\ worker' = [worker EXCEPT ![w] = OffDuty]
    /\ UNCHANGED <<minute, def, claimed, since, gaveUp, overlapped, orphans, edits, mishaps, deaths>>

Edit == edits < MaxEdits /\ edits' = edits + 1

(* POST .../execute: the definition may be disabled. *)
ExecuteNow(w) ==
    /\ OnDuty(w, "idle") /\ Edit /\ Goes(w, "create")
    /\ UNCHANGED <<minute, def, claimed, since, gaveUp, overlapped, orphans, mishaps, deaths>>

(* dispatchChunkedDiscovery creates the parent scan ... *)
CreateScanForDefinition(w) ==
    /\ OnDuty(w, "create") /\ Goes(w, "chunks")
    /\ UNCHANGED <<minute, def, claimed, since, gaveUp, overlapped, orphans, edits, mishaps, deaths>>

(* ... splits the targets and inserts the chunks.  The busy check and the  *)
(* dispatch that follow, or fail, concern a parent with chunks.            *)
CreateChunks(w) ==
    /\ OnDuty(w, "chunks") /\ worker' = [worker EXCEPT ![w] = OffDuty]
    /\ UNCHANGED <<minute, def, claimed, since, gaveUp, overlapped, orphans, edits, mishaps, deaths>>

Mishap == edits < MaxEdits /\ edits' = edits + 1 /\ mishaps' = mishaps + 1

(* A plausible bug: the error is returned and the parent left as it is. *)
ReturnError(w) ==
    /\ OnDuty(w, "chunks") /\ Mishap /\ UNCHANGED deaths
    /\ worker' = [worker EXCEPT ![w] = OffDuty] /\ orphans' = orphans + 1
    /\ UNCHANGED <<minute, def, claimed, since, gaveUp, overlapped>>

ChunksFail(w) ==
    /\ OnDuty(w, "chunks") /\ Mishap /\ Goes(w, "fail")
    /\ UNCHANGED <<minute, def, claimed, since, gaveUp, overlapped, orphans, deaths>>

(* FailScan; its error is ignored. *)
FailScan(w) ==
    /\ OnDuty(w, "fail") /\ worker' = [worker EXCEPT ![w] = OffDuty]
    /\ \/ UNCHANGED <<orphans, edits, mishaps>>
       \/ Mishap /\ orphans' = orphans + 1
    /\ UNCHANGED <<minute, def, claimed, since, gaveUp, overlapped, deaths>>

(* The context of all a worker's statements ends: the API dies or, under   *)
(* ExecuteNow, the client hangs up, so that CreateScanChunks and FailScan  *)
(* fail together.  What was claimed is not dispatched.                     *)
WorkerEnds(w) ==
    /\ ~OnDuty(w, "idle") /\ Mishap /\ deaths' = deaths + 1
    /\ worker' = [worker EXCEPT ![w] = OffDuty]
    /\ orphans' = orphans + (IF worker[w].at \in {"chunks", "fail"} THEN 1 ELSE 0)
    /\ UNCHANGED <<minute, def, claimed, since, gaveUp, overlapped>>

(* Update computes next_run_at from its request, Enable from the row. *)
StartEdit(w, op, cron) ==
    /\ OnDuty(w, "idle") /\ Edit
    /\ worker' = [worker EXCEPT ![w] = [at |-> op, now |-> minute, cron |-> cron, stale |-> FALSE]]
    /\ UNCHANGED <<minute, def, claimed, since, gaveUp, overlapped, orphans, mishaps, deaths>>

(* An edit computed earlier is stale once another is written. *)
Written(w, op) ==
    /\ OnDuty(w, op)
    /\ worker' = [v \in Workers |->
         IF v = w THEN OffDuty ELSE [worker[v] EXCEPT !.stale = worker[v].at \in {"update", "enable"}]]
    /\ overlapped' = (overlapped \/ worker[w].stale)
    /\ claimed' = 0 /\ since' = worker[w].now /\ gaveUp' = FALSE
    /\ UNCHANGED <<minute, orphans, edits, mishaps, deaths>>

(* A schedule without a match within the horizon is refused. *)
UpdateScanDefinition(w, enabled) ==
    LET cron == worker[w].cron
        next == IF enabled THEN NextRun(cron, worker[w].now) ELSE Null
    IN /\ Written(w, "update")
       /\ enabled /\ cron # NoCron => next # Null
       /\ def' = [enabled |-> enabled, cron |-> cron, next |-> next]

SetEnabled(w) ==
    /\ Written(w, "enable")
    /\ worker[w].cron # NoCron => NextRun(worker[w].cron, worker[w].now) # Null
    /\ def' = [def EXCEPT !.enabled = TRUE, !.next = NextRun(worker[w].cron, worker[w].now)]

SetDisabled(w) ==
    /\ Written(w, "enable") /\ def' = [def EXCEPT !.enabled = FALSE, !.next = Null]

EditRefused(w) ==
    /\ worker[w].at \in {"update", "enable"} /\ worker[w].cron # NoCron
    /\ NextRun(worker[w].cron, worker[w].now) = Null
    /\ worker' = [worker EXCEPT ![w] = OffDuty]
    /\ UNCHANGED <<minute, def, claimed, since, gaveUp, overlapped, orphans, edits, mishaps, deaths>>

ScanDefinitionsNext ==
    \/ MinutePasses
    \/ \E w \in Workers :
         \/ StartTick(w) \/ ClaimDueScanDefinitions(w) \/ NothingDue(w) \/ ExecuteNow(w)
         \/ CreateScanForDefinition(w) \/ CreateChunks(w) \/ ChunksFail(w) \/ FailScan(w)
         \/ WorkerEnds(w)
         \/ \E cron \in CronTimes \cup {NoCron} : StartEdit(w, "update", cron)
         \/ StartEdit(w, "enable", def.cron)
         \/ \E enabled \in BOOLEAN : UpdateScanDefinition(w, enabled)
         \/ SetEnabled(w) \/ SetDisabled(w) \/ EditRefused(w)

ScanDefinitionsSpec == ScanDefinitionsInit /\ [][ScanDefinitionsNext]_defVars

-----------------------------------------------------------------------------

(* However many schedulers tick, on however late a clock, a definition is  *)
(* claimed at most once for each minute that matched since its next run    *)
(* was last set.  Not so once Cron.Next gives up (it stays due, and is     *)
(* claimed at every tick) or edits overlap (a next run of the schedule of  *)
(* before).                                                                *)
ClaimedOncePerMatch ==
    gaveUp \/ overlapped \/ claimed <= Cardinality({t \in def.cron : since < t /\ t <= minute})

(* "Operators lose a tick, not a definition": crashes, failing statements  *)
(* and schedules that run out leave an enabled, scheduled definition due   *)
(* at some time.  Only overlapping edits do not (Enable writes the NULL it *)
(* computed from the schedule it had read).                                *)
LoseATickNotADefinition ==
    def.enabled /\ def.cron # NoCron /\ def.next = Null => overlapped

(* A parent scan without chunks keeps the agent busy for ever: no sweep    *)
(* looks at it.  Each one takes the end of its worker (the process dies,   *)
(* or the request is cancelled), or two statements that fail in a row.     *)
OrphansAccounted == 2 * orphans <= mishaps + deaths
=============================================================================
