----------------------------- MODULE LogThrottle -----------------------------
(***************************************************************************)
(* The agent's log handler: a token bucket shared by all loggers, and for  *)
(* each handler (a logger made by With has one of its own) a counter of    *)
(* dropped records and the decision to report it, at most once a window,   *)
(* taken by whichever goroutine logs next.                                 *)
(***************************************************************************)
EXTENDS Naturals, Sequences

CONSTANTS
    Loggers,       \* goroutines that log
    Handlers,      \* the root handler and those derived from it
    Burst,         \* capacity of the token bucket
    Window,        \* throttleSummaryWindow
    MaxRecords,    \* bound: records logged
    MaxClock       \* bound: time

ASSUME ThrottleAssumption ==
    /\ Burst \in Nat \ {0} /\ Window \in Nat \ {0}
    /\ MaxRecords \in Nat /\ MaxClock \in Nat \ {0}

VARIABLES
    clock, tokens, records,
    uncounted,   \* dropped: records thrown away since the last summary
    lastSummary, \* lastSummaryEmit of each handler, 0 before the first
    inFlight,    \* throttleInFlight
    call,        \* each goroutine's call of maybeEmitThrottled
    refused,     \* history: records the bucket refused
    summaries    \* history: what each handler's summaries said, and when

throttleVars == <<clock, tokens, records, uncounted, lastSummary, inFlight, call,
                  refused, summaries>>

Call == [at : {"out", "load", "lock", "swap", "send", "stamp"},
         h : Handlers, now : 0 .. MaxClock, count : 0 .. MaxRecords]

ThrottleTypeOK ==
    /\ clock \in 1 .. MaxClock /\ tokens \in 0 .. Burst /\ records \in 0 .. MaxRecords
    /\ uncounted \in [Handlers -> 0 .. MaxRecords]
    /\ lastSummary \in [Handlers -> 0 .. MaxClock]
    /\ inFlight \in [Handlers -> BOOLEAN]
    /\ call \in [Loggers -> Call]
    /\ refused \in [Handlers -> 0 .. MaxRecords]
    /\ \A h \in Handlers :
         summaries[h] \in Seq([now : 1 .. MaxClock, count : 0 .. MaxRecords])

ThrottleInit ==
    /\ clock = 1 /\ tokens = Burst /\ records = 0
    /\ uncounted = [h \in Handlers |-> 0] /\ lastSummary = [h \in Handlers |-> 0]
    /\ inFlight = [h \in Handlers |-> FALSE]
    /\ call \in [Loggers -> {c \in Call : c.at = "out" /\ c.now = 0 /\ c.count = 0}]
    /\ refused = [h \in Handlers |-> 0] /\ summaries = [h \in Handlers |-> <<>>]

Tick ==
    /\ clock < MaxClock /\ clock' = clock + 1
    /\ UNCHANGED <<tokens, records, uncounted, lastSummary, inFlight, call, refused,
                   summaries>>

(* tokenBucket.allow adds what has accrued; here a token now and then. *)
Refill ==
    /\ tokens < Burst /\ tokens' = tokens + 1
    /\ UNCHANGED <<clock, records, uncounted, lastSummary, inFlight, call, refused,
                   summaries>>

At(g, at) == call[g].at = at
GoOn(g, at) == call' = [call EXCEPT ![g].at = at]

(* Handle: the record is sent or counted, then a summary may be due. *)
Handle(g, h) ==
    /\ At(g, "out") /\ records < MaxRecords /\ records' = records + 1
    /\ IF tokens > 0
       THEN tokens' = tokens - 1 /\ UNCHANGED <<uncounted, refused>>
       ELSE /\ uncounted' = [uncounted EXCEPT ![h] = @ + 1]
            /\ refused' = [refused EXCEPT ![h] = @ + 1]
            /\ UNCHANGED tokens
    /\ call' = [call EXCEPT ![g] = [@ EXCEPT !.at = "load", !.h = h]]
    /\ UNCHANGED <<clock, lastSummary, inFlight, summaries>>

AnyDropped(g) ==
    /\ At(g, "load")
    /\ GoOn(g, IF uncounted[call[g].h] = 0 THEN "out" ELSE "lock")
    /\ UNCHANGED <<clock, tokens, records, uncounted, lastSummary, inFlight, refused,
                   summaries>>

Due(h) == lastSummary[h] = 0 \/ clock - lastSummary[h] >= Window

(* Under throttleMu. *)
Decide(g) ==
    /\ At(g, "lock")
    /\ LET h == call[g].h
       IN IF ~inFlight[h] /\ Due(h)
          THEN /\ inFlight' = [inFlight EXCEPT ![h] = TRUE]
               /\ call' = [call EXCEPT ![g] = [@ EXCEPT !.at = "swap", !.now = clock]]
          ELSE GoOn(g, "out") /\ UNCHANGED inFlight
    /\ UNCHANGED <<clock, tokens, records, uncounted, lastSummary, refused, summaries>>

TakeCount(g) ==
    /\ At(g, "swap")
    /\ call' = [call EXCEPT ![g] = [@ EXCEPT !.at = "send",
                                             !.count = uncounted[call[g].h]]]
    /\ uncounted' = [uncounted EXCEPT ![call[g].h] = 0]
    /\ UNCHANGED <<clock, tokens, records, lastSummary, inFlight, refused, summaries>>

SendSummary(g) ==
    /\ At(g, "send")
    /\ summaries' = [summaries EXCEPT ![call[g].h] =
                         Append(@, [now |-> call[g].now, count |-> call[g].count])]
    /\ call' = [call EXCEPT ![g] = [@ EXCEPT !.at = "stamp", !.count = 0]]
    /\ UNCHANGED <<clock, tokens, records, uncounted, lastSummary, inFlight, refused>>

(* A handler that resets the counter when the summary has been sent. *)
StampAndReset(g) ==
    /\ At(g, "stamp")
    /\ lastSummary' = [lastSummary EXCEPT ![call[g].h] = call[g].now]
    /\ inFlight' = [inFlight EXCEPT ![call[g].h] = FALSE]
    /\ uncounted' = [uncounted EXCEPT ![call[g].h] = 0]
    /\ GoOn(g, "out")
    /\ UNCHANGED <<clock, tokens, records, refused, summaries>>

(* The window is counted from the decision, not from the sending. *)
Stamp(g) ==
    /\ At(g, "stamp")
    /\ lastSummary' = [lastSummary EXCEPT ![call[g].h] = call[g].now]
    /\ inFlight' = [inFlight EXCEPT ![call[g].h] = FALSE]
    /\ GoOn(g, "out")
    /\ UNCHANGED <<clock, tokens, records, uncounted, refused, summaries>>

ThrottleNext ==
    \/ Tick \/ Refill
    \/ \E g \in Loggers :
         \/ \E h \in Handlers : Handle(g, h)
         \/ AnyDropped(g) \/ Decide(g) \/ TakeCount(g) \/ SendSummary(g) \/ Stamp(g)

ThrottleSpec == ThrottleInit /\ [][ThrottleNext]_throttleVars

(***************************************************************************)
(* Properties                                                              *)
(***************************************************************************)
Total(s) == LET sum[i \in 0 .. Len(s)] == IF i = 0 THEN 0 ELSE sum[i - 1] + s[i].count
            IN sum[Len(s)]

(* Every record the bucket refuses is in one summary: the one that was     *)
(* sent, the one a goroutine is about to send, or the next.  Counting and  *)
(* reporting overlap, and nothing is lost or counted twice.                *)
DropsAccounted ==
    \A h \in Handlers :
        LET reporting == {g \in Loggers : At(g, "send") /\ call[g].h = h}
        IN /\ \A f, g \in reporting : f = g
           /\ refused[h] = uncounted[h] + Total(summaries[h])
                + IF reporting = {} THEN 0 ELSE call[CHOOSE g \in reporting : TRUE].count
=============================================================================
