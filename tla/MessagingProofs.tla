-------------------------- MODULE MessagingProofs ---------------------------
(***************************************************************************)
(* Proofs about the API's messages: round trips to the agent, the event    *)
(* bus of an instance and the audit writer.                                *)
(***************************************************************************)
EXTENDS RoundTrip, EventBus, AuditWriter, SequenceLemmas

-----------------------------------------------------------------------------
(* Probes and credential tests, for any number of requests, connections of *)
(* the agent and copies of a request (RoundTrip).                          *)

(* What has been published; nothing else can be on its way. *)
Published == {r \in Requests : request[r] \notin {"new", "subscribed"}}

TripTypes ==
    /\ request \in [Requests -> Phases] /\ registered \subseteq Requests
    /\ inbox \in [Requests -> Nat] /\ relayed \in [Requests -> Nat]
    /\ testing \in [Requests -> Nat]

OnItsWay ==
    /\ toAgent \in Seq(Published) /\ answers \in Seq(Published)
    /\ probing \in Published \cup {NoProbe}
    /\ \A r \in Requests : testing[r] > 0 => r \in Published

(* A request publishes once its subscription is confirmed, and nobody has  *)
(* answered it before.                                                     *)
Confirmed ==
    \A r \in Requests :
        /\ request[r] \in {"subscribed", "waiting"} => r \in registered
        /\ r \notin Published => inbox[r] = 0 /\ relayed[r] = 0

TripInv == TripTypes /\ OnItsWay /\ Confirmed /\ AnswerIsHeard

LEMMA InitTripInv == RoundTripInit => TripInv
<1> SUFFICES ASSUME RoundTripInit PROVE TripInv
  OBVIOUS
<1>1. TripTypes
  BY DEF RoundTripInit, TripTypes, Phases
<1>2. OnItsWay
  BY EmptySeq DEF RoundTripInit, OnItsWay
<1>3. Confirmed /\ AnswerIsHeard
  BY DEF RoundTripInit, Confirmed, Published, AnswerIsHeard
<1> QED
  BY <1>1, <1>2, <1>3 DEF TripInv

(* What is published stays published, and what is on its way with it. *)
LEMMA PublishedGrows ==
    ASSUME TripInv, Published \subseteq Published',
           UNCHANGED <<toAgent, answers, probing, testing>>
    PROVE  OnItsWay'
<1>1. toAgent \in Seq(Published') /\ answers \in Seq(Published')
  BY DEF TripInv, OnItsWay
<1> QED
  BY <1>1 DEF TripInv, OnItsWay

(* Steps of the requests other than the publication. *)
LEMMA RequestTripInv ==
    ASSUME TripInv, NEW r \in Requests, Register(r) \/ AwaitResult(r) \/ Return(r)
    PROVE  TripInv'
<1> USE DEF TripInv, TripTypes, Linking, Agent, Lines
<1>1. CASE Register(r)
  <2>1. /\ registered' = registered \cup {r}
        /\ UNCHANGED <<request, inbox, relayed, toAgent, answers, probing, testing>>
    BY <1>1 DEF Register
  <2>2. OnItsWay'
    BY <2>1, PublishedGrows DEF Published
  <2> QED
    BY <2>1, <2>2 DEF Confirmed, Published, AnswerIsHeard
<1>2. CASE AwaitResult(r)
  <2>1. PICK phase \in {"subscribed", "failed"} :
          /\ request[r] = "new" /\ request' = [request EXCEPT ![r] = phase]
          /\ phase = "subscribed" => r \in registered
          /\ UNCHANGED <<registered, inbox, relayed, toAgent, answers, probing, testing>>
    BY <1>2 DEF AwaitResult
  <2>2. OnItsWay'
    BY <2>1, PublishedGrows DEF Published
  <2>3. TripTypes'
    BY <2>1 DEF Phases
  <2> QED
    BY <2>1, <2>2, <2>3 DEF Confirmed, Published, AnswerIsHeard
<1>3. CASE Return(r)
  <2>1. PICK phase \in {"answered", "timed out", "cancelled"} :
          /\ request[r] = "waiting" /\ request' = [request EXCEPT ![r] = phase]
          /\ UNCHANGED <<registered, inbox, relayed, toAgent, answers, probing, testing>>
    BY <1>3 DEF Return
  <2>2. OnItsWay'
    BY <2>1, PublishedGrows DEF Published
  <2>3. TripTypes'
    BY <2>1 DEF Phases
  <2> QED
    BY <2>1, <2>2, <2>3 DEF Confirmed, Published, AnswerIsHeard
<1> QED
  BY <1>1, <1>2, <1>3

(* The publication: the agent may get any number of copies. *)
LEMMA PublishTripInv ==
    ASSUME TripInv, NEW r \in Requests, PublishRequest(r)
    PROVE  TripInv'
<1> USE DEF TripInv, TripTypes, Linking, Agent, Lines
<1>1. /\ request[r] = "subscribed" /\ r \in registered
      /\ UNCHANGED <<registered, inbox, relayed, answers, probing, testing>>
  BY DEF PublishRequest, Confirmed
<1>2. PICK phase \in {"failed", "waiting"} : request' = [request EXCEPT ![r] = phase]
  BY DEF PublishRequest
<1>3. TripTypes'
  BY <1>1, <1>2 DEF Phases
<1>4. Published' = Published \cup {r}
  BY <1>1, <1>2 DEF Published
<1>5. toAgent' \in Seq(Published')
  <2>1. toAgent \in Seq(Published')
    BY <1>4 DEF OnItsWay
  <2>2. CASE UNCHANGED toAgent
    BY <2>1, <2>2
  <2>3. ASSUME NEW n \in Forwarded, toAgent' = toAgent \o [i \in 1 .. n |-> r]
        PROVE  toAgent' \in Seq(Published')
    <3>1. n \in Nat
      BY DEF Forwarded
    <3>2. [i \in 1 .. n |-> r] \in Seq(Published')
      BY <1>4, <3>1
    <3> QED
      BY <2>1, <2>3, <3>2, ConcatProperties
  <2> QED
    BY <2>2, <2>3 DEF PublishRequest
<1>6. OnItsWay'
  <2>1. answers \in Seq(Published')
    BY <1>4 DEF OnItsWay
  <2> QED
    BY <1>1, <1>4, <1>5, <2>1 DEF OnItsWay
<1>7. Confirmed' /\ AnswerIsHeard'
  BY <1>1, <1>2 DEF Confirmed, Published, AnswerIsHeard
<1> QED
  BY <1>3, <1>6, <1>7

(* Connections come and go. *)
LEMMA ConnectionTripInv ==
    ASSUME TripInv,
           \/ \E h \in Handlers : ConnectHandler(h) \/ SubscribeProbes(h) \/ HandlerReturns(h)
           \/ BreakConnection
    PROVE  TripInv'
<1> USE DEF TripInv, TripTypes, Asking, Agent, Lines
<1>1. UNCHANGED <<request, registered, inbox, relayed, probing, testing>>
  BY DEF ConnectHandler, SubscribeProbes, HandlerReturns, BreakConnection
<1>2. toAgent' \in {<<>>, toAgent} /\ answers' \in {<<>>, answers}
  BY DEF ConnectHandler, SubscribeProbes, HandlerReturns, BreakConnection
<1>3. toAgent' \in Seq(Published') /\ answers' \in Seq(Published')
  BY <1>1, <1>2, EmptySeq DEF OnItsWay, Published
<1> QED
  BY <1>1, <1>3 DEF OnItsWay, Confirmed, Published, AnswerIsHeard

(* The agent's steps. *)
LEMMA AgentTripInv ==
    ASSUME TripInv, AgentReads \/ OnProbe \/ \E r \in Requests : OnCredentialTest(r)
    PROVE  TripInv'
<1> USE DEF TripInv, TripTypes, Asking, Linking
<1>1. UNCHANGED <<request, registered, inbox, relayed>>
  BY DEF AgentReads, OnProbe, OnCredentialTest
<1>2. Published' = Published /\ Confirmed' /\ AnswerIsHeard'
  BY <1>1 DEF Confirmed, Published, AnswerIsHeard
<1>3. ASSUME NEW r \in Published, SendAnswer(r) PROVE answers' \in Seq(Published)
  <2>1. answers \in Seq(Published)
    BY DEF OnItsWay
  <2>2. Append(answers, r) \in Seq(Published)
    BY <2>1, AppendProperties
  <2>3. answers' = answers \/ answers' = Append(answers, r)
    BY <1>3 DEF SendAnswer
  <2> QED
    BY <2>1, <2>2, <2>3
<1>4. CASE AgentReads
  <2>1. Head(toAgent) \in Published /\ Tail(toAgent) \in Seq(Published)
    BY <1>4, HeadTailProperties DEF AgentReads, OnItsWay
  <2>2. Head(toAgent) \in Requests
    BY <2>1 DEF Published
  <2>3. /\ toAgent' = Tail(toAgent) /\ UNCHANGED answers
        /\ \/ probing' = Head(toAgent) /\ UNCHANGED testing
           \/ testing' = [testing EXCEPT ![Head(toAgent)] = @ + 1] /\ UNCHANGED probing
    BY <1>4 DEF AgentReads
  <2>4. testing' \in [Requests -> Nat]
    BY <2>2, <2>3
  <2>5. OnItsWay'
    BY <1>2, <2>1, <2>2, <2>3 DEF OnItsWay
  <2> QED
    BY <1>1, <1>2, <2>4, <2>5
<1>5. CASE OnProbe
  <2>1. probing \in Published
    BY <1>5 DEF OnProbe, OnItsWay
  <2>2. /\ probing' = NoProbe /\ answers' \in Seq(Published)
        /\ UNCHANGED <<testing, toAgent>>
    BY <1>3, <1>5, <2>1 DEF OnProbe
  <2> QED
    BY <1>1, <1>2, <2>2 DEF OnItsWay
<1>6. ASSUME NEW r \in Requests, OnCredentialTest(r) PROVE TripInv'
  <2>1. r \in Published
    BY <1>6 DEF OnCredentialTest, OnItsWay
  <2>2. /\ testing[r] > 0 /\ testing' = [testing EXCEPT ![r] = @ - 1]
        /\ answers' \in Seq(Published) /\ UNCHANGED <<probing, toAgent>>
    BY <1>3, <1>6, <2>1 DEF OnCredentialTest
  <2>3. testing' \in [Requests -> Nat]
    BY <2>2
  <2>4. OnItsWay'
    BY <1>2, <2>1, <2>2 DEF OnItsWay
  <2> QED
    BY <1>1, <1>2, <2>3, <2>4
<1> QED
  BY <1>4, <1>5, <1>6

(* An answer that is read is one to a request that was published, hence to *)
(* one that listens for as long as it waits.                               *)
LEMMA ResultTripInv ==
    ASSUME TripInv, PublishResult
    PROVE  TripInv'
<1> USE DEF TripInv, TripTypes, Linking, Agent
<1> DEFINE r == Head(answers)
<1>1. r \in Published /\ r \in Requests /\ answers' \in Seq(Published)
  BY HeadTailProperties DEF PublishResult, OnItsWay, Published
<1>2. UNCHANGED <<request, registered, probing, testing, toAgent>>
  BY DEF PublishResult
<1>3. /\ relayed' = IF Open(r) THEN [relayed EXCEPT ![r] = @ + 1] ELSE relayed
      /\ inbox' = IF Open(r) /\ r \in registered
                  THEN [inbox EXCEPT ![r] = @ + 1] ELSE inbox
  BY DEF PublishResult
<1>4. TripTypes' /\ OnItsWay'
  <2>1. inbox' \in [Requests -> Nat] /\ relayed' \in [Requests -> Nat]
    BY <1>1, <1>3
  <2>2. Published' = Published
    BY <1>2 DEF Published
  <2>3. OnItsWay'
    BY <1>1, <1>2, <2>2 DEF OnItsWay
  <2> QED
    BY <1>2, <2>1, <2>3
<1>5. Confirmed'
  BY <1>1, <1>2, <1>3 DEF Confirmed, Published
<1>6. ASSUME NEW q \in Requests, request[q] = "waiting" PROVE inbox'[q] = relayed'[q]
  <2>1. inbox[q] = relayed[q] /\ q \in registered
    BY <1>6 DEF AnswerIsHeard, Confirmed
  <2>2. CASE q # r
    BY <1>1, <1>3, <2>1, <2>2
  <2>3. CASE q = r
    <3>1. Open(r)
      BY <1>6, <2>3 DEF Open
    <3> QED
      BY <1>1, <1>3, <2>1, <2>3, <3>1
  <2> QED
    BY <2>2, <2>3
<1>7. AnswerIsHeard'
  <2>1. request' = request
    BY <1>2
  <2> QED
    BY <1>6, <2>1 DEF AnswerIsHeard
<1> QED
  BY <1>4, <1>5, <1>7

LEMMA StepTripInv == TripInv /\ [RoundTripNext]_tripVars => TripInv'
<1> SUFFICES ASSUME TripInv, [RoundTripNext]_tripVars PROVE TripInv'
  OBVIOUS
<1>1. CASE UNCHANGED tripVars
  BY <1>1 DEF tripVars, TripInv, TripTypes, OnItsWay, Confirmed, Published, AnswerIsHeard
<1>2. CASE RoundTripNext
  BY <1>2, RequestTripInv, PublishTripInv, ConnectionTripInv, AgentTripInv, ResultTripInv
     DEF RoundTripNext
<1> QED
  BY <1>1, <1>2

(* No answer an instance has read is published past a request that waits   *)
(* for it, for any number of connections, instances and copies.            *)
THEOREM AnswersReachWaiters == RoundTripSpec => []AnswerIsHeard
<1>1. TripInv => AnswerIsHeard
  BY DEF TripInv
<1> QED
  BY <1>1, InitTripInv, StepTripInv, PTL DEF RoundTripSpec

-----------------------------------------------------------------------------
(* The event bus and its streams (EventBus).                               *)

Loop == [at : {"out", "check", "send"}, event : SUBSET Event,
         targets : SUBSET Streams, current : SUBSET Streams]

(* A publisher that is in its loop has one event, and one stream at hand   *)
(* when it is about to send.                                               *)
InLoop(l) ==
    /\ l.at = "out" => l.event = {} /\ l.targets = {} /\ l.current = {}
    /\ l.at # "out" => \E e \in Event : l.event = {e}
    /\ l.at = "check" => l.current = {}

Reaches(s, e) == e \in Seen(s) \/ Pending(e, s) \/ <<e, s>> \in dropped

BusInv ==
    /\ EventBusTypeOK
    /\ channel \in [Streams -> Seq(Event)] /\ written \in [Streams -> Seq(Event)]
    /\ publish \in [Publishers -> Loop]
    /\ \A p \in Publishers : InLoop(publish[p])
    /\ \A s \in Streams, e \in Event : <<e, s>> \in owed => stream[s] # "new"
    /\ \A s \in Streams, e \in Event :
          stream[s] = "open" /\ <<e, s>> \in owed /\ died = {} => Reaches(s, e)
    /\ died # {} => \E s \in Streams : stream[s] = "closed"

LEMMA NoEventLoops == NoEvent \in Loop /\ InLoop(NoEvent)
BY DEF NoEvent, Loop, InLoop

LEMMA SeenHolds == \A s : Seen(s) = Holds(written[s]) \cup Holds(channel[s])
BY DEF Seen, Holds

LEMMA InitBusInv == EventBusInit => BusInv
<1> SUFFICES ASSUME EventBusInit PROVE BusInv
  OBVIOUS
<1>1. <<>> \in Seq(Event) /\ Len(<<>>) = 0
  BY EmptySeq
<1>2. /\ channel \in [Streams -> Seq(Event)] /\ written \in [Streams -> Seq(Event)]
      /\ publish \in [Publishers -> Loop] /\ \A p \in Publishers : InLoop(publish[p])
      /\ \A s \in Streams : channel[s] = <<>> /\ written[s] = <<>>
      /\ \A p \in Publishers : publish[p] = NoEvent
  BY <1>1, NoEventLoops DEF EventBusInit
<1>3. EventBusTypeOK
  <2>1. \A s \in Streams : channel[s] \in Seq(Event) /\ Len(channel[s]) <= StreamBuf
                           /\ written[s] \in Seq(Event)
    BY <1>1, <1>2, EventBusAssumption
  <2>2. \A p \in Publishers :
          /\ publish[p].at \in {"out", "check", "send"}
          /\ publish[p].targets \subseteq Streams /\ publish[p].current \subseteq Streams
    BY <1>2, NoEventLoops DEF Loop
  <2>3. 0 \in 0 .. MaxEvents
    BY EventBusAssumption
  <2> QED
    BY <2>1, <2>2, <2>3 DEF EventBusInit, EventBusTypeOK
<1> QED
  BY <1>2, <1>3 DEF EventBusInit, BusInv

(* What a step may do to what is owed: an event on its way to an open      *)
(* stream stays on its way, arrives or is dropped.                         *)
LEMMA BusKept ==
    ASSUME BusInv, EventBusTypeOK',
           channel' \in [Streams -> Seq(Event)], written' \in [Streams -> Seq(Event)],
           publish' \in [Publishers -> Loop], \A p \in Publishers : InLoop(publish'[p]),
           \A s \in Streams : stream'[s] = "new" => stream[s] = "new",
           \A s \in Streams : stream'[s] = "open" => stream[s] \in {"new", "open"},
           \A s \in Streams : stream[s] = "closed" => stream'[s] = "closed",
           owed' = owed, died \subseteq died',
           died' # died => \E s \in Streams : stream[s] = "closed",
           died' = {} =>
             \A s \in Streams, e \in Event : stream[s] = "open" /\ Reaches(s, e) => Reaches(s, e)'
    PROVE  BusInv'
<1>1. \A s \in Streams, e \in Event :
        stream'[s] = "open" /\ <<e, s>> \in owed' /\ died' = {} => Reaches(s, e)'
  BY DEF BusInv
<1>2. died' # {} => \E s \in Streams : stream'[s] = "closed"
  BY DEF BusInv
<1>3. \A s \in Streams, e \in Event : <<e, s>> \in owed' => stream'[s] # "new"
  BY DEF BusInv
<1> QED
  BY <1>1, <1>2, <1>3 DEF BusInv

LEMMA StreamKeeps ==
    ASSUME BusInv, NEW s \in Streams,
           (\E query \in SUBSET EventKinds : OpenStream(s, query)) \/ WriteEvent(s) \/ CancelStream(s)
    PROVE  BusInv'
<1>a. /\ stream \in [Streams -> {"new", "rejected", "open", "flagged", "removed", "closed"}]
      /\ channel \in [Streams -> Seq(Event)] /\ written \in [Streams -> Seq(Event)]
      /\ publish \in [Publishers -> Loop] /\ \A p \in Publishers : InLoop(publish[p])
      /\ kinds \in [Streams -> SUBSET EventKinds]
  BY DEF BusInv, EventBusTypeOK
<1>1. CASE UNCHANGED <<channel, written, publish, published, dropped, owed, died>>
  <2>1. /\ stream' \in [Streams -> {"new", "rejected", "open", "flagged", "removed", "closed"}]
        /\ kinds' \in [Streams -> SUBSET EventKinds]
        /\ \A t \in Streams : stream'[t] = "new" => stream[t] = "new"
        /\ \A t \in Streams : stream'[t] = "open" => stream[t] \in {"new", "open"}
        /\ \A t \in Streams : stream[t] = "closed" => stream'[t] = "closed"
    <3>1. CASE \E query \in SUBSET EventKinds : OpenStream(s, query)
      <4>1. PICK query \in SUBSET EventKinds : OpenStream(s, query)
        BY <3>1
      <4>2. IntersectKinds(Token[s], query) \in SUBSET EventKinds
        BY EventBusAssumption DEF IntersectKinds
      <4>3. kinds' = kinds \/ kinds' = [kinds EXCEPT ![s] = IntersectKinds(Token[s], query)]
        BY <4>1 DEF OpenStream
      <4>4. kinds' \in [Streams -> SUBSET EventKinds]
        BY <1>a, <4>2, <4>3
      <4>5. stream[s] = "new" /\ \E to \in {"rejected", "open"} : stream' = [stream EXCEPT ![s] = to]
        BY <4>1 DEF OpenStream
      <4> QED
        BY <1>a, <4>4, <4>5
    <3>2. CASE CancelStream(s)
      <4>1. /\ stream[s] \in {"open", "flagged", "removed"} /\ kinds' = kinds
            /\ \E to \in {"flagged", "removed", "closed"} : stream' = [stream EXCEPT ![s] = to]
        BY <3>2, <1>a DEF CancelStream
      <4> QED
        BY <1>a, <4>1
    <3>3. CASE WriteEvent(s)
      BY <3>3, <1>a DEF WriteEvent
    <3> QED
      BY <1>a, <3>1, <3>2, <3>3
  <2>2. EventBusTypeOK'
    BY <1>1, <2>1 DEF BusInv, EventBusTypeOK, Event
  <2>3. \A t \in Streams, e \in Event : Reaches(t, e) => Reaches(t, e)'
    BY <1>1 DEF Reaches, Seen, Pending
  <2> QED
    BY <1>a, <1>1, <2>1, <2>2, <2>3, BusKept
<1>2. CASE WriteEvent(s)
  <2>1. /\ channel[s] # <<>> /\ written' = [written EXCEPT ![s] = Append(@, Head(channel[s]))]
        /\ channel' = [channel EXCEPT ![s] = Tail(@)]
        /\ UNCHANGED <<stream, kinds, publish, published, dropped, owed, died>>
    BY <1>2 DEF WriteEvent
  <2>2. /\ Head(channel[s]) \in Event /\ Tail(channel[s]) \in Seq(Event)
        /\ Append(written[s], Head(channel[s])) \in Seq(Event)
        /\ Len(Tail(channel[s])) <= StreamBuf
    BY <1>a, <2>1, HeadTailProperties, AppendProperties, LenProperties, EventBusAssumption
       DEF BusInv, EventBusTypeOK
  <2>3. /\ channel' \in [Streams -> Seq(Event)] /\ written' \in [Streams -> Seq(Event)]
        /\ channel'[s] = Tail(channel[s]) /\ written'[s] = Append(written[s], Head(channel[s]))
        /\ \A t \in Streams : t # s => channel'[t] = channel[t] /\ written'[t] = written[t]
    BY <1>a, <2>1, <2>2
  <2>4. EventBusTypeOK'
    <3>1. \A t \in Streams : channel'[t] \in Seq(Event) /\ Len(channel'[t]) <= StreamBuf
                             /\ written'[t] \in Seq(Event)
      BY <2>2, <2>3 DEF BusInv, EventBusTypeOK
    <3> QED
      BY <2>1, <3>1 DEF BusInv, EventBusTypeOK, Event
  <2>5. \A t \in Streams : Seen(t)' = Seen(t)
    <3>1. Holds(channel[s]) = Holds(Tail(channel[s])) \cup {Head(channel[s])}
      BY <1>a, <2>1, HoldsTail
    <3>2. Holds(Append(written[s], Head(channel[s]))) = Holds(written[s]) \cup {Head(channel[s])}
      BY <1>a, <2>2, HoldsAppend
    <3> QED
      <4>1. \A t \in Streams : Seen(t)' = Holds(written'[t]) \cup Holds(channel'[t])
        BY DEF Seen, Holds
      <4>2. \A t \in Streams : Holds(written'[t]) \cup Holds(channel'[t]) = Holds(written[t]) \cup Holds(channel[t])
        BY <2>3, <3>1, <3>2
      <4> QED
        BY <4>1, <4>2, SeenHolds
  <2>6. \A t \in Streams, e \in Event : Reaches(t, e) => Reaches(t, e)'
    BY <2>1, <2>5 DEF Reaches, Pending
  <2> QED
    BY <1>a, <2>1, <2>3, <2>4, <2>6, BusKept
<1> QED
  BY <1>1, <1>2 DEF OpenStream, CancelStream

LEMMA PublishKeeps ==
    ASSUME BusInv, NEW p \in Publishers, NEW k \in EventKinds, Publish(p, k)
    PROVE  BusInv'
<1> DEFINE e == [kind |-> k, n |-> published + 1]
           T == {s \in Streams : stream[s] \in {"open", "flagged"} /\ Matches(s, e)}
           l == [at |-> "check", event |-> {e}, targets |-> T, current |-> {}]
<1>1. /\ publish[p].at = "out" /\ published < MaxEvents /\ published' = published + 1
      /\ publish' = [publish EXCEPT ![p] = l] /\ owed' = owed \cup ({e} \X T)
      /\ UNCHANGED <<stream, kinds, channel, written, dropped, died>>
  BY DEF Publish
<1>2. /\ publish \in [Publishers -> Loop] /\ \A q \in Publishers : InLoop(publish[q])
      /\ published \in 0 .. MaxEvents /\ MaxEvents \in Nat
  BY EventBusAssumption DEF BusInv, EventBusTypeOK
<1>3. e \in Event /\ published' \in 0 .. MaxEvents
  BY <1>1, <1>2 DEF Event
<1>4. T \subseteq Streams /\ \A s \in T : stream[s] \in {"open", "flagged"}
  OBVIOUS
<1> HIDE DEF e, T
<1>5. l \in Loop /\ InLoop(l) /\ l.targets = T /\ l.event = {e}
  BY <1>3, <1>4 DEF Loop, InLoop
<1> HIDE DEF l
<1>6. /\ publish' \in [Publishers -> Loop] /\ \A q \in Publishers : InLoop(publish'[q])
      /\ publish'[p] = l /\ \A q \in Publishers : q # p => publish'[q] = publish[q]
  BY <1>1, <1>2, <1>5
<1>7. EventBusTypeOK'
  <2>1. owed' \subseteq Event \X Streams
    BY <1>1, <1>3, <1>4 DEF BusInv, EventBusTypeOK
  <2>2. \A q \in Publishers :
          /\ publish'[q].at \in {"out", "check", "send"}
          /\ publish'[q].targets \subseteq Streams /\ publish'[q].current \subseteq Streams
    BY <1>6 DEF Loop
  <2> QED
    BY <1>1, <1>3, <2>1, <2>2 DEF BusInv, EventBusTypeOK, Event
<1>8. ASSUME NEW s \in Streams, NEW f \in Event, stream[s] = "open", <<f, s>> \in owed', died = {}
      PROVE  Reaches(s, f)'
  <2>1. CASE <<f, s>> \in owed
    <3>1. Reaches(s, f)
      BY <1>8, <2>1 DEF BusInv
    <3>2. Pending(f, s) => Pending(f, s)'
      BY <1>1, <1>2, <1>6 DEF Pending, InLoop
    <3> QED
      BY <1>1, <3>1, <3>2 DEF Reaches, Seen
  <2>2. CASE f = e /\ s \in T
    BY <1>5, <1>6, <2>2 DEF Reaches, Pending
  <2> QED
    BY <1>1, <1>8, <2>1, <2>2
<1>9. \A s \in Streams, f \in Event : <<f, s>> \in owed' => stream'[s] # "new"
  BY <1>1, <1>4 DEF BusInv
<1> QED
  BY <1>1, <1>6, <1>7, <1>8, <1>9 DEF BusInv

(* A publisher goes on in its loop. *)
LEMMA LoopStep ==
    ASSUME BusInv, NEW p \in Publishers, NEW l \in Loop, InLoop(l), publish' = [publish EXCEPT ![p] = l],
           UNCHANGED <<stream, kinds, written, published, owed>>,
           channel' \in [Streams -> Seq(Event)],
           \A s \in Streams : Len(channel'[s]) <= StreamBuf /\ Holds(channel[s]) \subseteq Holds(channel'[s]),
           dropped \subseteq dropped', dropped' \subseteq Event \X Streams,
           died \subseteq died', died' \subseteq Publishers,
           died' # died => \E s \in Streams : stream[s] = "closed",
           died' = {} =>
             \A s \in Streams, e \in Event :
               stream[s] = "open" /\ e \in publish[p].event
                 /\ s \in publish[p].targets \cup publish[p].current =>
                   \/ e \in l.event /\ s \in l.targets \cup l.current
                   \/ e \in Holds(channel'[s]) \/ <<e, s>> \in dropped'
    PROVE  BusInv'
<1>1. /\ publish \in [Publishers -> Loop] /\ \A q \in Publishers : InLoop(publish[q])
      /\ written \in [Streams -> Seq(Event)]
  BY DEF BusInv
<1>2. /\ publish' \in [Publishers -> Loop] /\ \A q \in Publishers : InLoop(publish'[q])
      /\ publish'[p] = l /\ \A q \in Publishers : q # p => publish'[q] = publish[q]
  BY <1>1
<1>3. EventBusTypeOK'
  <2>1. \A q \in Publishers :
          /\ publish'[q].at \in {"out", "check", "send"}
          /\ publish'[q].targets \subseteq Streams /\ publish'[q].current \subseteq Streams
    BY <1>2 DEF Loop
  <2>2. \A s \in Streams : channel'[s] \in Seq(Event) /\ Len(channel'[s]) <= StreamBuf
                           /\ written'[s] \in Seq(Event)
    BY <1>1
  <2> QED
    BY <2>1, <2>2 DEF BusInv, EventBusTypeOK, Event
<1>4. ASSUME died' = {}, NEW s \in Streams, NEW e \in Event, stream[s] = "open", Reaches(s, e)
      PROVE  Reaches(s, e)'
  <2>1. CASE e \in Seen(s)
    BY <2>1 DEF Reaches, Seen, Holds
  <2>2. CASE <<e, s>> \in dropped
    BY <2>2 DEF Reaches
  <2>3. CASE Pending(e, s)
    <3>1. PICK q \in Publishers : e \in publish[q].event /\ s \in publish[q].targets \cup publish[q].current
      BY <2>3 DEF Pending
    <3>2. CASE q # p
      BY <1>2, <3>1, <3>2 DEF Reaches, Pending
    <3>3. CASE q = p
      <4>1. \/ e \in l.event /\ s \in l.targets \cup l.current
            \/ e \in Holds(channel'[s]) \/ <<e, s>> \in dropped'
        BY <1>4, <3>1, <3>3
      <4> QED
        BY <1>2, <4>1 DEF Reaches, Pending, Seen, Holds
    <3> QED
      BY <3>2, <3>3
  <2> QED
    BY <1>4, <2>1, <2>2, <2>3 DEF Reaches
<1> QED
  BY <1>1, <1>2, <1>3, <1>4, BusKept

LEMMA CheckKeeps ==
    ASSUME BusInv, NEW p \in Publishers, CheckClosed(p)
    PROVE  BusInv'
<1>1. /\ publish[p].at = "check" /\ publish[p] \in Loop /\ InLoop(publish[p])
      /\ UNCHANGED <<stream, kinds, channel, written, published, dropped, owed, died>>
      /\ channel \in [Streams -> Seq(Event)] /\ died \subseteq Publishers
      /\ dropped \subseteq Event \X Streams /\ \A s \in Streams : Len(channel[s]) <= StreamBuf
  BY DEF BusInv, EventBusTypeOK, CheckClosed
<1>2. CASE publish[p].targets = {}
  <2>1. publish' = [publish EXCEPT ![p] = NoEvent]
    BY <1>2 DEF CheckClosed, BusInv
  <2>2. publish[p].current = {}
    BY <1>1 DEF InLoop
  <2> QED
    BY <1>1, <1>2, <2>1, <2>2, NoEventLoops, LoopStep
<1>3. CASE publish[p].targets # {}
  <2> DEFINE t == CHOOSE t \in publish[p].targets : TRUE
  <2>1. PICK s \in publish[p].targets : s = t
    BY <1>3
  <2> DEFINE at == IF stream[s] = "open" THEN "send" ELSE "check"
             current == IF stream[s] = "open" THEN {s} ELSE {}
             rest == publish[p].targets \ {s}
             l == [at |-> at, event |-> publish[p].event, targets |-> rest, current |-> current]
  <2>2. publish' = [publish EXCEPT ![p] = l]
    BY <1>3, <2>1 DEF CheckClosed
  <2>3. /\ s \in Streams /\ current \subseteq Streams /\ rest \subseteq Streams
        /\ at \in {"check", "send"} /\ (at = "check" => current = {})
        /\ (stream[s] = "open" => current = {s})
    BY <1>1 DEF Loop
  <2> HIDE DEF at, current, rest, t
  <2>4. l \in Loop /\ l.event = publish[p].event /\ l.targets = rest /\ l.current = current /\ l.at = at
    BY <1>1, <2>3 DEF Loop
  <2>5. InLoop(l)
    BY <1>1, <2>3, <2>4 DEF InLoop
  <2>6. \A r \in Streams : stream[r] = "open" /\ r \in publish[p].targets \cup publish[p].current
           => r \in l.targets \cup l.current
    BY <1>1, <2>3, <2>4 DEF InLoop, rest
  <2> HIDE DEF l
  <2> QED
    BY <1>1, <2>2, <2>4, <2>5, <2>6, LoopStep
<1> QED
  BY <1>2, <1>3

LEMMA SendKeeps ==
    ASSUME BusInv, NEW p \in Publishers, NEW s \in Streams, SendEvent(p, s)
    PROVE  BusInv'
<1>1. /\ publish[p].at = "send" /\ publish[p].current = {s} /\ publish[p] \in Loop /\ InLoop(publish[p])
      /\ UNCHANGED <<stream, kinds, written, published, owed>>
      /\ channel \in [Streams -> Seq(Event)] /\ died \subseteq Publishers
      /\ dropped \subseteq Event \X Streams /\ \A t \in Streams : Len(channel[t]) <= StreamBuf
      /\ publish \in [Publishers -> Loop]
  BY DEF BusInv, EventBusTypeOK, SendEvent
<1>2. PICK e \in Event : publish[p].event = {e}
  BY <1>1 DEF InLoop
<1>3. Sending(p) = e
  BY <1>2 DEF Sending
<1>4. CASE stream[s] = "closed"
  <2>1. /\ died' = died \cup {p} /\ publish' = [publish EXCEPT ![p] = NoEvent]
        /\ UNCHANGED <<channel, dropped>>
    BY <1>4 DEF SendEvent
  <2> QED
    BY <1>1, <1>4, <2>1, NoEventLoops, LoopStep
<1>5. CASE stream[s] # "closed"
  <2> DEFINE l == [publish[p] EXCEPT !.at = "check", !.current = {}]
  <2>1. publish' = [publish EXCEPT ![p] = l] /\ died' = died
    BY <1>1, <1>5 DEF SendEvent
  <2>2. l \in Loop /\ l.event = publish[p].event /\ l.targets = publish[p].targets
        /\ l.current = {} /\ l.at = "check"
    BY <1>1 DEF Loop
  <2>3. InLoop(l)
    BY <1>2, <2>2 DEF InLoop
  <2> HIDE DEF l
  <2>4. CASE channel' = [channel EXCEPT ![s] = Append(@, e)] /\ dropped' = dropped /\ Len(channel[s]) < StreamBuf
    <3>1. /\ Append(channel[s], e) \in Seq(Event) /\ Len(Append(channel[s], e)) <= StreamBuf
          /\ Holds(Append(channel[s], e)) = Holds(channel[s]) \cup {e}
      BY <1>1, <2>4, HoldsAppend, AppendProperties, LenProperties, EventBusAssumption
    <3>2. /\ channel' \in [Streams -> Seq(Event)] /\ channel'[s] = Append(channel[s], e)
          /\ \A t \in Streams : t # s => channel'[t] = channel[t]
      BY <1>1, <2>4, <3>1
    <3>3. \A t \in Streams : Len(channel'[t]) <= StreamBuf /\ Holds(channel[t]) \subseteq Holds(channel'[t])
      BY <1>1, <3>1, <3>2
    <3>4. e \in Holds(channel'[s])
      BY <3>1, <3>2
    <3>5. \A t \in Streams, x \in Event :
             x \in publish[p].event /\ t \in publish[p].targets \cup publish[p].current =>
               (x \in l.event /\ t \in l.targets \cup l.current) \/ x \in Holds(channel'[t])
      BY <1>1, <1>2, <2>2, <3>4
    <3>6. UNCHANGED <<stream, kinds, written, published, owed, dropped, died>>
      BY <1>1, <2>1, <2>4
    <3>7. dropped \subseteq Event \X Streams /\ died \subseteq Publishers
      BY <1>1 DEF BusInv, EventBusTypeOK
    <3> QED
      BY <2>1, <2>2, <2>3, <3>2, <3>3, <3>5, <3>6, <3>7, LoopStep
  <2>5. CASE dropped' = dropped \cup ({e} \X {s}) /\ channel' = channel
    BY <1>1, <1>2, <2>1, <2>2, <2>3, <2>5, LoopStep
  <2> QED
    BY <1>2, <1>3, <1>5, <2>4, <2>5 DEF SendEvent
<1> QED
  BY <1>4, <1>5

LEMMA StepBusInv == BusInv /\ [EventBusNext]_busVars => BusInv'
<1> SUFFICES ASSUME BusInv, [EventBusNext]_busVars PROVE BusInv'
  OBVIOUS
<1>1. CASE UNCHANGED busVars
  <2>1. EventBusTypeOK'
    BY <1>1 DEF busVars, BusInv, EventBusTypeOK, Event
  <2>2. \A t \in Streams, e \in Event : Reaches(t, e) => Reaches(t, e)'
    BY <1>1 DEF busVars, Reaches, Seen, Pending
  <2> QED
    BY <1>1, <2>1, <2>2, BusKept DEF busVars, BusInv
<1> QED
  BY <1>1, StreamKeeps, PublishKeeps, CheckKeeps, SendKeeps DEF EventBusNext, PublisherStep

(* An event that an open stream is due is in its channel or written, on    *)
(* its way, or counted as dropped, unless a publisher died, and a          *)
(* publisher dies only of a stream that is being cancelled, for any number *)
(* of streams, publishers and events.                                      *)
THEOREM EventsReachStreams == EventBusSpec => []EventReachesStream
<1>1. BusInv => EventReachesStream
  BY DEF BusInv, EventReachesStream, Reaches
<1> QED
  BY <1>1, InitBusInv, StepBusInv, PTL DEF EventBusSpec

-----------------------------------------------------------------------------
(* The buffered audit writer (AuditWriter).                                *)

(* Where n events are: waiting, in the batch, stored, dropped or in one of *)
(* the failed batches, each in one place and in order.                     *)
Placed(waiting, events, rows, drops, losses, n) ==
    /\ waiting \in Seq(Nat) /\ events \in Seq(Nat) /\ rows \in Seq(Nat)
    /\ losses \in Seq(SUBSET Nat) /\ n \in Nat
    /\ Ascending(waiting) /\ Ascending(events) /\ Ascending(rows)
    /\ Precedes(Holds(rows), Holds(events)) /\ Precedes(Holds(rows), Holds(waiting))
    /\ Precedes(Holds(events), Holds(waiting))
    /\ Holds(waiting) \cup Holds(events) \cup Holds(rows) \cup drops \cup UNION Holds(losses)
         = 1 .. n
    /\ drops \cap (Holds(waiting) \cup Holds(events) \cup Holds(rows)) = {}
    /\ \A lost \in Holds(losses) :
         lost \cap (drops \cup Holds(waiting) \cup Holds(events) \cup Holds(rows)) = {}
    /\ \A i, j \in 1 .. Len(losses) : i # j => losses[i] \cap losses[j] = {}

AuditInv ==
    /\ AuditTypeOK
    /\ Placed(queue, batch, stored, skipped, failed, emitted)
    /\ writer = "closed" => queue = <<>> /\ batch = <<>>

LEMMA PlacedAtFirst == Placed(<<>>, <<>>, <<>>, {}, <<>>, 0)
BY EmptySeq, EmptyHolds DEF Placed, Precedes

LEMMA PlacedBelow ==
    ASSUME NEW q, NEW b, NEW s, NEW d, NEW f, NEW n, Placed(q, b, s, d, f, n)
    PROVE  /\ Holds(q) \subseteq 1 .. n /\ Holds(b) \subseteq 1 .. n /\ Holds(s) \subseteq 1 .. n
           /\ d \subseteq 1 .. n /\ \A lost \in Holds(f) : lost \subseteq 1 .. n
BY DEF Placed

LEMMA PlacedEmit ==
    ASSUME NEW q, NEW b, NEW s, NEW d, NEW f, NEW n, Placed(q, b, s, d, f, n)
    PROVE  /\ Placed(Append(q, n + 1), b, s, d, f, n + 1)
           /\ Placed(q, b, s, d \cup {n + 1}, f, n + 1)
<1>1. /\ Holds(q) \subseteq 1 .. n /\ Holds(b) \subseteq 1 .. n /\ Holds(s) \subseteq 1 .. n
      /\ d \subseteq 1 .. n /\ \A lost \in Holds(f) : lost \subseteq 1 .. n
  BY PlacedBelow
<1>2. n \in Nat /\ q \in Seq(Nat) /\ n + 1 \in Nat /\ 1 .. n + 1 = (1 .. n) \cup {n + 1}
      /\ n + 1 \notin 1 .. n
  BY DEF Placed
<1>3. Holds(Append(q, n + 1)) = Holds(q) \cup {n + 1}
  BY <1>2, HoldsAppend
<1>4. Precedes(1 .. n, {n + 1})
  BY <1>2 DEF Precedes
<1>5. Append(q, n + 1) \in Seq(Nat) /\ Ascending(Append(q, n + 1))
  <2>1. Precedes(Holds(q), {n + 1})
    BY <1>1, <1>4 DEF Precedes
  <2> QED
    BY <1>2, <2>1, AscendingAppend, AppendProperties DEF Placed
<1>6. Precedes(Holds(b), Holds(q) \cup {n + 1}) /\ Precedes(Holds(s), Holds(q) \cup {n + 1})
  BY <1>1, <1>4 DEF Precedes, Placed
<1>7. Holds(q) \cup {n + 1} \cup Holds(b) \cup Holds(s) \cup d \cup UNION Holds(f) = 1 .. n + 1
  BY <1>2 DEF Placed
<1>8. d \cap (Holds(q) \cup {n + 1} \cup Holds(b) \cup Holds(s)) = {}
      /\ (d \cup {n + 1}) \cap (Holds(q) \cup Holds(b) \cup Holds(s)) = {}
  BY <1>1, <1>2 DEF Placed
<1>9. \A lost \in Holds(f) :
        lost \cap (d \cup Holds(q) \cup {n + 1} \cup Holds(b) \cup Holds(s)) = {}
  BY <1>1, <1>2 DEF Placed
<1>10. Placed(Append(q, n + 1), b, s, d, f, n + 1)
  <2>1. PICK u : u = Append(q, n + 1)
    OBVIOUS
  <2>2. u \in Seq(Nat) /\ Ascending(u) /\ Holds(u) = Holds(q) \cup {n + 1}
    BY <1>3, <1>5, <2>1
  <2>3. /\ Precedes(Holds(b), Holds(u)) /\ Precedes(Holds(s), Holds(u))
        /\ Holds(u) \cup Holds(b) \cup Holds(s) \cup d \cup UNION Holds(f) = 1 .. n + 1
        /\ d \cap (Holds(u) \cup Holds(b) \cup Holds(s)) = {}
        /\ \A lost \in Holds(f) : lost \cap (d \cup Holds(u) \cup Holds(b) \cup Holds(s)) = {}
    BY <1>6, <1>7, <1>8, <1>9, <2>2
  <2> QED
    BY <1>2, <2>1, <2>2, <2>3 DEF Placed
<1>11. Placed(q, b, s, d \cup {n + 1}, f, n + 1)
  <2>1. PICK u : u = d \cup {n + 1}
    OBVIOUS
  <2>2. /\ Holds(q) \cup Holds(b) \cup Holds(s) \cup u \cup UNION Holds(f) = 1 .. n + 1
        /\ u \cap (Holds(q) \cup Holds(b) \cup Holds(s)) = {}
        /\ \A lost \in Holds(f) : lost \cap (u \cup Holds(q) \cup Holds(b) \cup Holds(s)) = {}
    BY <1>7, <1>8, <1>9, <2>1
  <2> QED
    BY <1>2, <2>1, <2>2 DEF Placed
<1> QED
  BY <1>10, <1>11

LEMMA PlacedTake ==
    ASSUME NEW q, NEW b, NEW s, NEW d, NEW f, NEW n, Placed(q, b, s, d, f, n), q # <<>>
    PROVE  Placed(Tail(q), Append(b, Head(q)), s, d, f, n)
<1>1. q \in Seq(Nat) /\ b \in Seq(Nat) /\ Ascending(q) /\ Ascending(b)
  BY DEF Placed
<1>2. Holds(q) = Holds(Tail(q)) \cup {Head(q)} /\ Head(q) \in Nat /\ Tail(q) \in Seq(Nat)
  BY <1>1, HoldsTail
<1>3. Holds(Append(b, Head(q))) = Holds(b) \cup {Head(q)} /\ Append(b, Head(q)) \in Seq(Nat)
  BY <1>1, <1>2, HoldsAppend, AppendProperties
<1>4. Ascending(Tail(q)) /\ Precedes({Head(q)}, Holds(Tail(q)))
  BY <1>1, AscendingTail
<1>5. Precedes(Holds(b), {Head(q)})
  BY <1>2 DEF Placed, Precedes
<1>6. Ascending(Append(b, Head(q)))
  BY <1>1, <1>2, <1>5, AscendingAppend
<1>7. /\ Precedes(Holds(s), Holds(b) \cup {Head(q)}) /\ Precedes(Holds(s), Holds(Tail(q)))
      /\ Precedes(Holds(b) \cup {Head(q)}, Holds(Tail(q)))
  BY <1>2, <1>4 DEF Placed, Precedes
<1>8. Holds(Tail(q)) \cup (Holds(b) \cup {Head(q)}) = Holds(q) \cup Holds(b)
  BY <1>2
<1> QED
  BY <1>2, <1>3, <1>4, <1>6, <1>7, <1>8 DEF Placed

LEMMA PlacedStore ==
    ASSUME NEW q, NEW b, NEW s, NEW d, NEW f, NEW n, Placed(q, b, s, d, f, n)
    PROVE  Placed(q, <<>>, s \o b, d, f, n)
<1>1. /\ s \in Seq(Nat) /\ b \in Seq(Nat) /\ Ascending(s) /\ Ascending(b)
      /\ Precedes(Holds(s), Holds(b))
  BY DEF Placed
<1>2. Holds(s \o b) = Holds(s) \cup Holds(b) /\ s \o b \in Seq(Nat)
  BY <1>1, HoldsConcat
<1>3. Ascending(s \o b)
  BY <1>1, AscendingConcat
<1>4. Precedes(Holds(s) \cup Holds(b), Holds(q))
  BY DEF Placed, Precedes
<1> QED
  BY <1>2, <1>3, <1>4, EmptySeq, EmptyHolds DEF Placed, Precedes

LEMMA PlacedLose ==
    ASSUME NEW q, NEW b, NEW s, NEW d, NEW f, NEW n, Placed(q, b, s, d, f, n)
    PROVE  Placed(q, <<>>, s, d, Append(f, Holds(b)), n)
<1>1. b \in Seq(Nat) /\ f \in Seq(SUBSET Nat)
  BY DEF Placed
<1>2. Holds(b) \in SUBSET Nat
  BY <1>1, HoldsIn
<1>3. /\ Append(f, Holds(b)) \in Seq(SUBSET Nat)
      /\ Holds(Append(f, Holds(b))) = Holds(f) \cup {Holds(b)}
      /\ Len(Append(f, Holds(b))) = Len(f) + 1 /\ Len(f) \in Nat
      /\ \A i \in 1 .. Len(f) : Append(f, Holds(b))[i] = f[i]
      /\ Append(f, Holds(b))[Len(f) + 1] = Holds(b)
  BY <1>1, <1>2, HoldsAppend, AppendProperties, LenProperties
<1>4. UNION (Holds(f) \cup {Holds(b)}) = (UNION Holds(f)) \cup Holds(b)
  OBVIOUS
<1>5. Holds(b) \cap (d \cup Holds(q) \cup Holds(s)) = {}
  BY <1>2, HoldsIn DEF Placed, Precedes
<1>6. \A i \in 1 .. Len(f) : f[i] \in Holds(f)
  BY DEF Holds
<1>7. ASSUME NEW i \in 1 .. Len(f) + 1, NEW j \in 1 .. Len(f) + 1, i # j
      PROVE  Append(f, Holds(b))[i] \cap Append(f, Holds(b))[j] = {}
  <2>1. CASE i \in 1 .. Len(f) /\ j \in 1 .. Len(f)
    BY <1>3, <1>7, <2>1 DEF Placed
  <2>2. CASE i \in 1 .. Len(f) /\ j = Len(f) + 1
    BY <1>3, <1>6, <2>2 DEF Placed
  <2>3. CASE i = Len(f) + 1 /\ j \in 1 .. Len(f)
    BY <1>3, <1>6, <2>3 DEF Placed
  <2> QED
    BY <1>3, <1>7, <2>1, <2>2, <2>3
<1>8. \A i, j \in 1 .. Len(Append(f, Holds(b))) :
        i # j => Append(f, Holds(b))[i] \cap Append(f, Holds(b))[j] = {}
  BY <1>3, <1>7
<1>9. \A lost \in Holds(f) \cup {Holds(b)} :
        lost \cap (d \cup Holds(q) \cup {} \cup Holds(s)) = {}
  BY <1>5 DEF Placed
<1>10. Holds(q) \cup {} \cup Holds(s) \cup d \cup UNION (Holds(f) \cup {Holds(b)}) = 1 .. n
  BY <1>4 DEF Placed
<1> QED
  BY <1>1, <1>3, <1>8, <1>9, <1>10, EmptySeq, EmptyHolds DEF Placed, Precedes

(* What flush makes of a batch. *)
LEMMA FlushPlaces ==
    ASSUME AuditTypeOK, NEW events \in Seq(Number),
           NEW q, NEW n, Placed(q, events, stored, skipped, failed, n), FlushOf(events)
    PROVE  /\ Placed(q, <<>>, stored', skipped, failed', n)
           /\ stored' \in Seq(Number) /\ failed' \in Seq(SUBSET Number)
<1>1. Holds(events) = Members(events) /\ Holds(events) \in SUBSET Number
  BY HoldsIn DEF Members, Holds
<1>2. CASE stored' = stored \o events /\ UNCHANGED failed
  BY <1>2, PlacedStore, ConcatProperties DEF AuditTypeOK
<1>3. CASE failed' = Append(failed, Members(events)) /\ UNCHANGED stored
  BY <1>1, <1>3, PlacedLose, AppendProperties DEF AuditTypeOK
<1> QED
  BY <1>2, <1>3 DEF FlushOf

LEMMA InitAuditInv == AuditInit => AuditInv
<1> SUFFICES ASSUME AuditInit PROVE AuditInv
  OBVIOUS
<1>1. <<>> \in Seq(Number) /\ <<>> \in Seq(SUBSET Number)
  BY EmptySeq
<1>2. Len(<<>>) <= ChanCap /\ Len(<<>>) <= BatchMax /\ 0 \in 0 .. MaxEmits
  BY AuditAssumption, EmptySeq
<1>3. AuditTypeOK
  BY <1>1, <1>2, Zenon DEF AuditInit, AuditTypeOK
<1> QED
  BY <1>3, PlacedAtFirst DEF AuditInit, AuditInv

LEMMA StepAuditInv == AuditInv /\ [AuditNext]_auditVars => AuditInv'
<1> SUFFICES ASSUME AuditInv, [AuditNext]_auditVars PROVE AuditInv'
  OBVIOUS
<1>a. /\ AuditTypeOK /\ Placed(queue, batch, stored, skipped, failed, emitted)
      /\ ChanCap \in Nat \ {0} /\ BatchMax \in Nat \ {0} /\ MaxEmits \in Nat
  BY AuditAssumption DEF AuditInv
<1>1. CASE Emit
  <2>1. emitted' = emitted + 1 /\ emitted + 1 \in Number /\ emitted' \in 0 .. MaxEmits
    BY <1>a, <1>1 DEF Emit, AuditTypeOK, Number
  <2>2. UNCHANGED <<batch, stored, failed, writer>>
    BY <1>1 DEF Emit
  <2>3. CASE writer = "open" /\ Len(queue) < ChanCap
    <3>1. queue' = Append(queue, emitted + 1) /\ UNCHANGED <<skipped, emitPanics>>
      BY <1>1, <2>3 DEF Emit
    <3>2. queue' \in Seq(Number) /\ Len(queue') <= ChanCap
      <4>1. queue' \in Seq(Number) /\ Len(queue') = Len(queue) + 1 /\ Len(queue) \in Nat
        BY <1>a, <2>1, <3>1, AppendProperties, LenProperties DEF AuditTypeOK
      <4> QED
        BY <1>a, <2>3, <4>1
    <3> QED
      BY <1>a, <2>1, <2>2, <2>3, <3>1, <3>2, PlacedEmit DEF AuditInv, AuditTypeOK
  <2>4. CASE ~(writer = "open" /\ Len(queue) < ChanCap)
    <3>1. /\ skipped' = skipped \cup {emitted + 1} /\ UNCHANGED queue /\ emitPanics' \in BOOLEAN
      BY <1>a, <1>1, <2>4 DEF Emit, AuditTypeOK
    <3> QED
      BY <1>a, <2>1, <2>2, <3>1, PlacedEmit DEF AuditInv, AuditTypeOK
  <2> QED
    BY <2>3, <2>4
<1>2. CASE TakeEvent
  <2> DEFINE events == Append(batch, Head(queue))
  <2>1. /\ queue # <<>> /\ queue' = Tail(queue)
        /\ UNCHANGED <<emitted, skipped, writer, emitPanics>>
    BY <1>2 DEF TakeEvent
  <2>2. /\ Tail(queue) \in Seq(Number) /\ Len(Tail(queue)) <= ChanCap
        /\ events \in Seq(Number) /\ Len(events) \in Nat
    <3>1. /\ Tail(queue) \in Seq(Number) /\ Head(queue) \in Number
          /\ Len(Tail(queue)) = Len(queue) - 1 /\ Len(queue) \in Nat
      BY <1>a, <2>1, HoldsTail, LenProperties DEF AuditTypeOK
    <3>2. events \in Seq(Number)
      BY <1>a, <3>1, AppendProperties DEF AuditTypeOK
    <3> QED
      BY <1>a, <3>1, <3>2, LenProperties DEF AuditTypeOK
  <2>3. Placed(Tail(queue), events, stored, skipped, failed, emitted)
    BY <1>a, <2>1, PlacedTake
  <2>4. writer # "closed"
    BY <2>1 DEF AuditInv
  <2>5. CASE Len(events) >= BatchMax
    <3>1. FlushOf(events) /\ batch' = <<>>
      BY <1>2, <2>5 DEF TakeEvent
    <3>2. /\ Placed(Tail(queue), <<>>, stored', skipped, failed', emitted)
          /\ stored' \in Seq(Number) /\ failed' \in Seq(SUBSET Number)
      BY <1>a, <2>2, <2>3, <3>1, FlushPlaces
    <3> QED
      BY <1>a, <2>1, <2>2, <2>4, <3>1, <3>2, EmptySeq DEF AuditInv, AuditTypeOK
  <2>6. CASE ~(Len(events) >= BatchMax)
    <3>1. batch' = events /\ UNCHANGED <<stored, failed>>
      BY <1>2, <2>6 DEF TakeEvent
    <3>2. Len(events) <= BatchMax
      BY <1>a, <2>2, <2>6
    <3> QED
      BY <1>a, <2>1, <2>2, <2>3, <2>4, <3>1, <3>2 DEF AuditInv, AuditTypeOK
  <2> QED
    BY <2>5, <2>6
<1>3. CASE FlushTick
  <2>1. /\ writer # "closed" /\ FlushOf(batch) /\ batch' = <<>>
        /\ UNCHANGED <<emitted, queue, skipped, writer, emitPanics>>
    BY <1>3 DEF FlushTick
  <2>2. /\ Placed(queue, <<>>, stored', skipped, failed', emitted)
        /\ stored' \in Seq(Number) /\ failed' \in Seq(SUBSET Number)
    BY <1>a, <2>1, FlushPlaces DEF AuditTypeOK
  <2> QED
    BY <1>a, <2>1, <2>2, EmptySeq DEF AuditInv, AuditTypeOK
<1>4. CASE CloseWriter
  BY <1>a, <1>4 DEF CloseWriter, AuditInv, AuditTypeOK
<1>5. CASE FlusherReturns
  <2>1. /\ queue = <<>> /\ batch' = <<>> /\ writer' = "closed"
        /\ UNCHANGED <<emitted, queue, skipped, emitPanics>>
    BY <1>5 DEF FlusherReturns
  <2>2. /\ Placed(queue, <<>>, stored', skipped, failed', emitted)
        /\ stored' \in Seq(Number) /\ failed' \in Seq(SUBSET Number)
    <3>1. CASE batch = <<>> /\ UNCHANGED <<stored, failed>>
      BY <1>a, <3>1 DEF AuditTypeOK
    <3>2. CASE FlushOf(batch)
      BY <1>a, <3>2, FlushPlaces DEF AuditTypeOK
    <3> QED
      BY <1>5, <3>1, <3>2 DEF FlusherReturns
  <2> QED
    BY <1>a, <2>1, <2>2, EmptySeq DEF AuditInv, AuditTypeOK
<1>6. CASE UNCHANGED auditVars
  BY <1>a, <1>6 DEF auditVars, AuditInv, AuditTypeOK
<1> QED
  BY <1>1, <1>2, <1>3, <1>4, <1>5, <1>6 DEF AuditNext

LEMMA PlacesAccounted == AuditInv => AuditAccounted
<1> SUFFICES ASSUME AuditInv PROVE AuditAccounted
  OBVIOUS
<1> DEFINE four == <<Members(queue), Members(batch), Members(stored), skipped>>
           places == four \o failed
<1>1. /\ Placed(queue, batch, stored, skipped, failed, emitted)
      /\ queue \in Seq(Nat) /\ batch \in Seq(Nat) /\ stored \in Seq(Nat)
      /\ failed \in Seq(SUBSET Nat) /\ skipped \subseteq Nat
  BY PlacedBelow DEF AuditInv, Placed
<1>2. /\ Members(queue) = Holds(queue) /\ Members(batch) = Holds(batch)
      /\ Members(stored) = Holds(stored) /\ Members(failed) = Holds(failed)
      /\ Members(places) = Holds(places)
  BY DEF Members, Holds
<1>3. four \in Seq(SUBSET Nat) /\ Len(four) = 4
  BY <1>1, <1>2, HoldsIn
<1>4. Holds(four) = {Holds(queue), Holds(batch), Holds(stored), skipped}
  <2>1. 1 .. Len(four) = {1, 2, 3, 4}
    BY <1>3
  <2>2. /\ four[1] = Holds(queue) /\ four[2] = Holds(batch) /\ four[3] = Holds(stored)
        /\ four[4] = skipped
    BY <1>2
  <2> HIDE DEF four
  <2>3. Holds(four) = {four[1], four[2], four[3], four[4]}
    BY <2>1 DEF Holds
  <2> QED
    BY <2>2, <2>3
<1>5. Holds(places) = Holds(four) \cup Holds(failed)
  <2> HIDE DEF four
  <2> QED
    BY <1>1, <1>3, HoldsConcat
<1>6. UNION Members(places) = 1 .. emitted
  <2>1. UNION Holds(places) = (UNION Holds(four)) \cup UNION Holds(failed)
    BY <1>5
  <2>2. UNION Holds(four) = Holds(queue) \cup Holds(batch) \cup Holds(stored) \cup skipped
    BY <1>4
  <2> QED
    BY <1>1, <1>2, <2>1, <2>2 DEF Placed
<1>7. /\ DOMAIN places = 1 .. 4 + Len(failed) /\ Len(failed) \in Nat
      /\ \A i \in 1 .. 4 : places[i] = four[i]
      /\ \A i \in 5 .. 4 + Len(failed) : places[i] = failed[i - 4]
  <2>1. /\ places \in Seq(SUBSET Nat) /\ Len(places) = 4 + Len(failed) /\ Len(failed) \in Nat
        /\ \A i \in 1 .. 4 + Len(failed) :
             places[i] = IF i <= 4 THEN four[i] ELSE failed[i - 4]
    BY <1>1, <1>3, ConcatProperties, LenProperties
  <2>2. DOMAIN places = 1 .. Len(places)
    BY <2>1, LenProperties
  <2> QED
    BY <2>1, <2>2
<1>8. \A i, j \in 1 .. 4 : i # j => four[i] \cap four[j] = {}
  <2>1. /\ Holds(queue) \cap Holds(batch) = {} /\ Holds(queue) \cap Holds(stored) = {}
        /\ Holds(batch) \cap Holds(stored) = {}
    BY <1>1, HoldsIn DEF Placed, Precedes
  <2>2. skipped \cap (Holds(queue) \cup Holds(batch) \cup Holds(stored)) = {}
    BY <1>1 DEF Placed
  <2>3. /\ four[1] = Holds(queue) /\ four[2] = Holds(batch) /\ four[3] = Holds(stored)
        /\ four[4] = skipped
    BY <1>2
  <2> HIDE DEF four
  <2>4. 1 .. 4 = {1, 2, 3, 4}
    OBVIOUS
  <2> QED
    BY <2>1, <2>2, <2>3, <2>4
<1>9. \A i \in 1 .. 4, k \in 1 .. Len(failed) : four[i] \cap failed[k] = {}
  <2>1. ASSUME NEW i \in 1 .. 4, NEW k \in 1 .. Len(failed) PROVE four[i] \cap failed[k] = {}
    <3>1. four[i] \in Holds(four) /\ failed[k] \in Holds(failed)
      BY <1>3 DEF Holds
    <3> HIDE DEF four
    <3> QED
      BY <1>1, <1>4, <3>1 DEF Placed
  <2> QED
    BY <2>1
<1>10. \A k, l \in 1 .. Len(failed) : k # l => failed[k] \cap failed[l] = {}
  BY <1>1 DEF Placed
<1>11. \A i, j \in DOMAIN places : i # j => places[i] \cap places[j] = {}
  <2> HIDE DEF places, four
  <2> SUFFICES ASSUME NEW i \in DOMAIN places, NEW j \in DOMAIN places, i # j
               PROVE  places[i] \cap places[j] = {}
    OBVIOUS
  <2>1. i \in 1 .. 4 \/ (i \in 5 .. 4 + Len(failed) /\ i - 4 \in 1 .. Len(failed))
    BY <1>7
  <2>2. j \in 1 .. 4 \/ (j \in 5 .. 4 + Len(failed) /\ j - 4 \in 1 .. Len(failed))
    BY <1>7
  <2>3. CASE i \in 1 .. 4 /\ j \in 1 .. 4
    BY <1>7, <1>8, <2>3
  <2>4. CASE i \in 1 .. 4 /\ j \notin 1 .. 4
    BY <1>7, <1>9, <2>2, <2>4
  <2>5. CASE i \notin 1 .. 4 /\ j \in 1 .. 4
    BY <1>7, <1>9, <2>1, <2>5
  <2>6. CASE i \notin 1 .. 4 /\ j \notin 1 .. 4
    <3>1. i - 4 # j - 4
      BY <2>1, <2>2, <2>6
    <3> QED
      BY <1>7, <1>10, <2>1, <2>2, <2>6, <3>1
  <2> QED
    BY <2>3, <2>4, <2>5, <2>6
<1>12. \A i, j \in DOMAIN stored : i < j => stored[i] < stored[j]
  BY <1>1, LenProperties DEF Placed, Ascending
<1> QED
  BY <1>6, <1>11, <1>12 DEF AuditAccounted, AuditInv

(* Each audit event is in the queue, in the batch, stored, dropped or in a *)
(* batch the database refused, in one of them only and in order, for any   *)
(* number of events and any size of queue and batch.                       *)
THEOREM EventsAccounted == AuditSpec => []AuditAccounted
BY InitAuditInv, StepAuditInv, PlacesAccounted, PTL DEF AuditSpec
=============================================================================
