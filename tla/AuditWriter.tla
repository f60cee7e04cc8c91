----------------------------- MODULE AuditWriter -----------------------------
(***************************************************************************)
(* The audit log's writer: request handlers put events into a bounded      *)
(* channel and one goroutine inserts them in batches, a transaction each.  *)
(* An event is its number; some cannot be inserted.                        *)
(***************************************************************************)
EXTENDS Naturals, Sequences

CONSTANTS
    ChanCap, BatchMax,
    MaxEmits,        \* bound: events emitted
    MaxOutages,      \* bound: failed flushes that an outage can follow
    Unacceptable     \* events whose insert the database refuses

ASSUME AuditAssumption ==
    /\ ChanCap \in Nat \ {0} /\ BatchMax \in Nat \ {0}
    /\ MaxEmits \in Nat /\ MaxOutages \in Nat /\ Unacceptable \subseteq 1 .. MaxEmits

VARIABLES
    emitted, \* events handed to Emit
    queue,   \* w.ch
    batch,   \* the flusher's buf
    stored,  \* audit_events, in order of insertion
    skipped, \* events dropped, those of a panic included
    failed,  \* batches whose transaction did not commit
    writer,  \* "open", "closing" once the channel is closed, "closed"
    emitPanics  \* an Emit met a closed channel

auditVars == <<emitted, queue, batch, stored, skipped, failed, writer, emitPanics>>

Number == 1 .. MaxEmits
Members(s) == {s[i] : i \in 1 .. Len(s)}

AuditTypeOK ==
    /\ emitted \in 0 .. MaxEmits
    /\ queue \in Seq(Number) /\ Len(queue) <= ChanCap
    /\ batch \in Seq(Number) /\ Len(batch) <= BatchMax
    /\ stored \in Seq(Number) /\ skipped \subseteq Number
    /\ failed \in Seq(SUBSET Number)
    /\ writer \in {"open", "closing", "closed"} /\ emitPanics \in BOOLEAN

AuditInit ==
    /\ emitted = 0 /\ queue = <<>> /\ batch = <<>> /\ stored = <<>>
    /\ skipped = {} /\ failed = <<>> /\ writer = "open" /\ emitPanics = FALSE

(* An Emit without a bound on what waits. *)
EmitUnbounded ==
    /\ emitted < MaxEmits /\ ~emitPanics /\ emitted' = emitted + 1
    /\ queue' = Append(queue, emitted + 1)
    /\ UNCHANGED <<batch, stored, skipped, failed, writer, emitPanics>>

(* Emit never blocks.  Handlers of hijacked connections outlive Shutdown   *)
(* and may still emit when Close has closed the channel.                   *)
Emit ==
    /\ emitted < MaxEmits /\ ~emitPanics /\ emitted' = emitted + 1
    /\ IF writer # "open"
       THEN emitPanics' = TRUE /\ skipped' = skipped \cup {emitted + 1} /\ UNCHANGED queue
       ELSE /\ IF Len(queue) < ChanCap
               THEN queue' = Append(queue, emitted + 1) /\ UNCHANGED skipped
               ELSE skipped' = skipped \cup {emitted + 1} /\ UNCHANGED queue
            /\ UNCHANGED emitPanics
    /\ UNCHANGED <<batch, stored, failed, writer>>

(* flush: the inserts share a transaction, and one that fails, though only *)
(* logged, aborts it; so does an outage.                                   *)
FlushOf(events) ==
    \/ /\ Members(events) \cap Unacceptable = {}
       /\ stored' = stored \o events /\ UNCHANGED failed
    \/ /\ \/ Members(events) \cap Unacceptable # {}
          \/ Len(failed) < MaxOutages
       /\ failed' = Append(failed, Members(events)) /\ UNCHANGED stored

(* A flusher that returns as soon as the channel is closed and empty. *)
ReturnAtOnce ==
    /\ writer = "closing" /\ queue = <<>>
    /\ writer' = "closed"
    /\ UNCHANGED <<emitted, queue, batch, stored, skipped, failed, emitPanics>>

(* The flusher takes an event and flushes a full batch. *)
TakeEvent ==
    /\ queue # <<>> /\ queue' = Tail(queue)
    /\ LET events == Append(batch, Head(queue))
       IN IF Len(events) >= BatchMax
          THEN FlushOf(events) /\ batch' = <<>>
          ELSE batch' = events /\ UNCHANGED <<stored, failed>>
    /\ UNCHANGED <<emitted, skipped, writer, emitPanics>>

(* flushInterval *)
FlushTick ==
    /\ writer # "closed" /\ batch # <<>>
    /\ FlushOf(batch) /\ batch' = <<>>
    /\ UNCHANGED <<emitted, queue, skipped, writer, emitPanics>>

CloseWriter ==
    /\ writer = "open" /\ writer' = "closing"
    /\ UNCHANGED <<emitted, queue, batch, stored, skipped, failed, emitPanics>>

(* What a closed channel still holds is read before its end is seen. *)
FlusherReturns ==
    /\ writer = "closing" /\ queue = <<>>
    /\ IF batch = <<>> THEN UNCHANGED <<stored, failed>> ELSE FlushOf(batch)
    /\ batch' = <<>> /\ writer' = "closed"
    /\ UNCHANGED <<emitted, queue, skipped, emitPanics>>

AuditNext == Emit \/ TakeEvent \/ FlushTick \/ CloseWriter \/ FlusherReturns

AuditSpec == AuditInit /\ [][AuditNext]_auditVars

(***************************************************************************)
(* Properties                                                              *)
(***************************************************************************)

(* Every event is stored once and in order, or counted as dropped, or lost *)
(* with its whole batch, to a companion the database refused or an outage; *)
(* closing the writer leaves nothing behind.                               *)
AuditAccounted ==
    LET places == <<Members(queue), Members(batch), Members(stored), skipped>> \o failed
    IN /\ UNION Members(places) = 1 .. emitted
       /\ \A i, j \in DOMAIN places : i # j => places[i] \cap places[j] = {}
       /\ \A i, j \in DOMAIN stored : i < j => stored[i] < stored[j]
       /\ writer = "closed" => queue = <<>> /\ batch = <<>>
=============================================================================
