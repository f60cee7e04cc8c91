------------------------------ MODULE EventBus ------------------------------
(***************************************************************************)
(* The event bus of one API instance and the SSE streams that read it.     *)
(* Publish takes a snapshot of the matching subscriptions and sends to     *)
(* each without the lock; a stream that ends closes its channel meanwhile. *)
(***************************************************************************)
EXTENDS Naturals, FiniteSets, Sequences

CONSTANTS
    Streams,      \* SSE requests
    Publishers,   \* goroutines that publish
    EventKinds,   \* kinds of events
    Token,        \* the kinds baked into each stream's token; none means all
    StreamBuf,    \* subscriberBufferSize
    MaxEvents     \* bound: events published

ASSUME EventBusAssumption ==
    /\ EventKinds # {} /\ Token \in [Streams -> SUBSET EventKinds] /\ StreamBuf \in Nat \ {0} /\ MaxEvents \in Nat

VARIABLES
    stream,      \* each stream's subscription
    kinds,       \* Filter.Kinds
    channel,     \* sub.ch
    written,     \* events written to the client
    publish,     \* each publisher's loop: its event and the targets left
    published,
    dropped,     \* <<event, stream>> that met a full buffer
    owed,        \* history: <<event, stream>> that matched when it was published
    died         \* publishers that sent on a closed channel

busVars == <<stream, kinds, channel, written, publish, published, dropped,
             owed, died>>

Event == [kind : EventKinds, n : 1 .. MaxEvents]
NoEvent == [at |-> "out", event |-> {}, targets |-> {}, current |-> {}]

EventBusTypeOK ==
    /\ stream \in [Streams -> {"new", "rejected", "open", "flagged", "removed", "closed"}]
    /\ kinds \in [Streams -> SUBSET EventKinds]
    /\ \A s \in Streams :
         channel[s] \in Seq(Event) /\ Len(channel[s]) <= StreamBuf /\ written[s] \in Seq(Event)
    /\ \A p \in Publishers :
         /\ publish[p].at \in {"out", "check", "send"}
         /\ publish[p].targets \subseteq Streams /\ publish[p].current \subseteq Streams
    /\ published \in 0 .. MaxEvents
    /\ dropped \subseteq Event \X Streams /\ owed \subseteq Event \X Streams
    /\ died \subseteq Publishers

EventBusInit ==
    /\ stream = [s \in Streams |-> "new"]
    /\ kinds = [s \in Streams |-> {}]
    /\ channel = [s \in Streams |-> <<>>] /\ written = [s \in Streams |-> <<>>]
    /\ publish = [p \in Publishers |-> NoEvent] /\ published = 0
    /\ dropped = {} /\ owed = {} /\ died = {}

Matches(s, e) == kinds[s] = {} \/ e.kind \in kinds[s]

(* intersectKinds: no kinds means every kind; a disjoint query is refused. *)
IntersectKinds(baked, query) ==
    IF query = {} THEN baked ELSE IF baked = {} THEN query ELSE baked \cap query

(* Stream: the token's filter and the query's, then Subscribe. *)
OpenStream(s, query) ==
    /\ stream[s] = "new"
    /\ LET merged == IntersectKinds(Token[s], query)
       IN IF merged = {} /\ query # {}
          THEN stream' = [stream EXCEPT ![s] = "rejected"] /\ UNCHANGED kinds
          ELSE /\ stream' = [stream EXCEPT ![s] = "open"]
               /\ kinds' = [kinds EXCEPT ![s] = merged]
    /\ UNCHANGED <<channel, written, publish, published, dropped, owed, died>>

(* The handler's select: an event to write, or the client has gone. *)
WriteEvent(s) ==
    /\ stream[s] \in {"open", "flagged", "removed"} /\ channel[s] # <<>>
    /\ written' = [written EXCEPT ![s] = Append(@, Head(channel[s]))]
    /\ channel' = [channel EXCEPT ![s] = Tail(@)]
    /\ UNCHANGED <<stream, kinds, publish, published, dropped, owed, died>>

(* cancel: the flag, the entry in the map under the lock, the channel. *)
CancelStream(s) ==
    /\ stream[s] \in {"open", "flagged", "removed"}
    /\ stream' = [stream EXCEPT ![s] = CASE @ = "open"    -> "flagged"
                                         [] @ = "flagged" -> "removed"
                                         [] @ = "removed" -> "closed"]
    /\ UNCHANGED <<kinds, channel, written, publish, published, dropped, owed, died>>

(* Publish: the snapshot, under the read lock. *)
Publish(p, k) ==
    /\ publish[p].at = "out" /\ p \notin died
    /\ published < MaxEvents /\ published' = published + 1
    /\ LET e == [kind |-> k, n |-> published + 1]
           targets == {s \in Streams : stream[s] \in {"open", "flagged"} /\ Matches(s, e)}
       IN /\ publish' = [publish EXCEPT ![p] = [at |-> "check", event |-> {e},
                                                targets |-> targets, current |-> {}]]
          /\ owed' = owed \cup ({e} \X targets)
    /\ UNCHANGED <<stream, kinds, channel, written, dropped, died>>

(* The loop over the snapshot: the flag of the next one. *)
CheckClosed(p) ==
    /\ publish[p].at = "check"
    /\ publish' = [publish EXCEPT ![p] =
            IF @.targets = {} THEN NoEvent
            ELSE LET s == CHOOSE t \in @.targets : TRUE
                 IN [at |-> IF stream[s] = "open" THEN "send" ELSE "check",
                     event |-> @.event, targets |-> @.targets \ {s},
                     current |-> IF stream[s] = "open" THEN {s} ELSE {}]]
    /\ UNCHANGED <<stream, kinds, channel, written, published, dropped, owed, died>>

Sending(p) == CHOOSE e \in publish[p].event : TRUE

(* A loop that ends at the first stream without room. *)
SendOrStop(p, s) ==
    /\ publish[p].at = "send" /\ publish[p].current = {s}
    /\ IF Len(channel[s]) < StreamBuf
       THEN /\ channel' = [channel EXCEPT ![s] = Append(@, Sending(p))]
            /\ publish' = [publish EXCEPT ![p] = [@ EXCEPT !.at = "check", !.current = {}]]
            /\ UNCHANGED dropped
       ELSE /\ dropped' = dropped \cup (publish[p].event \X {s})
            /\ publish' = [publish EXCEPT ![p] = NoEvent]
            /\ UNCHANGED channel
    /\ UNCHANGED <<stream, kinds, written, published, owed, died>>

(* The send, after the flag was read: the channel may be full, or closed,  *)
(* which ends the publisher in a panic.                                    *)
SendEvent(p, s) ==
    /\ publish[p].at = "send" /\ publish[p].current = {s}
    /\ IF stream[s] = "closed"
       THEN /\ died' = died \cup {p} /\ publish' = [publish EXCEPT ![p] = NoEvent]
            /\ UNCHANGED <<channel, dropped>>
       ELSE /\ publish' = [publish EXCEPT ![p] = [@ EXCEPT !.at = "check", !.current = {}]]
            /\ IF Len(channel[s]) < StreamBuf
               THEN /\ channel' = [channel EXCEPT ![s] = Append(@, Sending(p))]
                    /\ UNCHANGED dropped
               ELSE /\ dropped' = dropped \cup (publish[p].event \X {s})
                    /\ UNCHANGED channel
            /\ UNCHANGED died
    /\ UNCHANGED <<stream, kinds, written, published, owed>>

PublisherStep(p) == CheckClosed(p) \/ \E s \in Streams : SendEvent(p, s)

EventBusNext ==
    \/ \E s \in Streams :
         \/ \E query \in SUBSET EventKinds : OpenStream(s, query)
         \/ WriteEvent(s) \/ CancelStream(s)
    \/ \E p \in Publishers :
         \/ \E k \in EventKinds : Publish(p, k)
         \/ PublisherStep(p)

EventBusSpec == EventBusInit /\ [][EventBusNext]_busVars

(***************************************************************************)
(* Properties                                                              *)
(***************************************************************************)
Seen(s) == {written[s][i] : i \in 1 .. Len(written[s])}
           \cup {channel[s][i] : i \in 1 .. Len(channel[s])}
Pending(e, s) == \E p \in Publishers : e \in publish[p].event
                    /\ s \in publish[p].targets \cup publish[p].current

(* An event that an open stream was to see is in its channel, is on its way*)
(* or was counted as dropped, once each, unless the publisher died; and a  *)
(* publisher dies only of a stream that was being cancelled.               *)
EventReachesStream ==
    /\ \A s \in Streams : \A e \in Event :
         stream[s] = "open" /\ <<e, s>> \in owed /\ died = {} =>
            e \in Seen(s) \/ Pending(e, s) \/ <<e, s>> \in dropped
    /\ died # {} => \E s \in Streams : stream[s] = "closed"
=============================================================================
