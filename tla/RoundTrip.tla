------------------------------ MODULE RoundTrip ------------------------------
(***************************************************************************)
(* Questions the API asks an agent and waits for: connectivity probes and  *)
(* credential tests.  The request subscribes to the result channel of its  *)
(* id, publishes on the agent's channel and waits; every connection        *)
(* handler of the agent forwards what it hears, the agent answers over its *)
(* connection, and whichever instance reads the answer publishes it.       *)
(* Nothing is queued for a subscriber that is not there.                   *)
(***************************************************************************)
EXTENDS Naturals, Sequences, FiniteSets

CONSTANTS
    Requests,
    Probes,      \* the requests that are probes; the others test credentials
    Handlers,    \* connection handlers of the agent, on any instance
    NoHandler, NoProbe

ASSUME RoundTripAssumption ==
    /\ Probes \subseteq Requests /\ IsFiniteSet(Handlers)
    /\ NoHandler \notin Handlers /\ NoProbe \notin Requests

VARIABLES
    request,   \* where each HTTP request is
    registered, \* result subscriptions Redis knows
    inbox,     \* answers its subscription has received
    relayed,   \* answers published on its result channel before it returned
    handler,   \* each handler: "none", "connecting", "listening", "gone"
    agentConn, \* the handler whose connection the agent reads
    toAgent,   \* requests on that connection
    probing,   \* the probe the agent's read loop is in
    testing,   \* credential tests in goroutines of the agent, by copies
    answers    \* answers on the connection

tripVars == <<request, registered, inbox, relayed, handler, agentConn, toAgent, probing, testing,
              answers>>

Phases == {"new", "subscribed", "waiting", "answered", "timed out", "cancelled", "failed"}
Open(r) == request[r] \in {"new", "subscribed", "waiting"}

RoundTripTypeOK ==
    /\ request \in [Requests -> Phases] /\ registered \subseteq Requests
    /\ inbox \in [Requests -> Nat] /\ relayed \in [Requests -> Nat]
    /\ handler \in [Handlers -> {"none", "connecting", "listening", "gone"}]
    /\ agentConn \in Handlers \cup {NoHandler}
    /\ toAgent \in Seq(Requests) /\ answers \in Seq(Requests)
    /\ probing \in Probes \cup {NoProbe} /\ testing \in [Requests -> Nat]

RoundTripInit ==
    /\ request = [r \in Requests |-> "new"] /\ registered = {}
    /\ inbox = [r \in Requests |-> 0] /\ relayed = [r \in Requests |-> 0]
    /\ handler = [h \in Handlers |-> "none"] /\ agentConn = NoHandler
    /\ toAgent = <<>> /\ probing = NoProbe
    /\ testing = [r \in Requests |-> 0] /\ answers = <<>>

Asking == <<request, registered, inbox, relayed>>
Linking == <<handler, agentConn>>
Agent == <<probing, testing>>
Lines == <<toAgent, answers>>

(* Subscribe returns before Redis has registered the subscription. *)
Register(r) ==
    /\ Open(r) /\ r \notin registered /\ registered' = registered \cup {r}
    /\ UNCHANGED <<request, inbox, relayed, Linking, Agent, Lines>>

(* A plausible bug: the confirmation is not waited for. *)
AwaitUnconfirmed(r) ==
    /\ request[r] = "new" /\ request' = [request EXCEPT ![r] = "subscribed"]
    /\ UNCHANGED <<registered, inbox, relayed, Linking, Agent, Lines>>

(* AwaitProbeResult, AwaitCredentialTestResult: Receive confirms the       *)
(* subscription before anything is published.                              *)
AwaitResult(r) ==
    /\ request[r] = "new"
    /\ \/ r \in registered /\ request' = [request EXCEPT ![r] = "subscribed"]
       \/ request' = [request EXCEPT ![r] = "failed"]
    /\ UNCHANGED <<registered, inbox, relayed, Linking, Agent, Lines>>

(* Every listening handler forwards to the connection its hub holds, if it *)
(* holds one: two handlers on one instance both reach the agent.           *)
Forwarded == 0 .. Cardinality({h \in Handlers : handler[h] = "listening"})

PublishRequest(r) ==
    /\ request[r] = "subscribed"
    /\ \/ request' = [request EXCEPT ![r] = "failed"] /\ UNCHANGED toAgent
       \/ \E n \in Forwarded :
            /\ agentConn = NoHandler => n = 0
            /\ request' = [request EXCEPT ![r] = "waiting"]
            /\ toAgent' = toAgent \o [i \in 1 .. n |-> r]
    /\ UNCHANGED <<registered, inbox, relayed, Linking, Agent, answers>>

(* Connect: the subscriptions of a new connection come up on their own. *)
ConnectHandler(h) ==
    /\ handler[h] = "none" /\ agentConn = NoHandler
    /\ handler' = [handler EXCEPT ![h] = "connecting"] /\ agentConn' = h
    /\ UNCHANGED <<Asking, Agent, Lines>>

SubscribeProbes(h) ==
    /\ handler[h] = "connecting"
    /\ handler' = [handler EXCEPT ![h] = "listening"]
    /\ UNCHANGED <<Asking, agentConn, Agent, Lines>>

(* The connection breaks with what is on it, but for the answers still in  *)
(* the send buffer; its handler may notice late.                           *)
BreakConnection ==
    /\ agentConn # NoHandler /\ agentConn' = NoHandler
    /\ toAgent' = <<>> /\ answers' \in {<<>>, answers}
    /\ UNCHANGED <<Asking, handler, Agent>>

HandlerReturns(h) ==
    /\ handler[h] \in {"connecting", "listening"} /\ agentConn # h
    /\ handler' = [handler EXCEPT ![h] = "gone"]
    /\ UNCHANGED <<Asking, agentConn, Agent, Lines>>

(* The agent answers a probe in its read loop, a test in a goroutine. *)
AgentReads ==
    /\ toAgent # <<>> /\ probing = NoProbe /\ toAgent' = Tail(toAgent)
    /\ LET r == Head(toAgent)
       IN IF r \in Probes THEN probing' = r /\ UNCHANGED testing
          ELSE testing' = [testing EXCEPT ![r] = @ + 1] /\ UNCHANGED probing
    /\ UNCHANGED <<Asking, Linking, answers>>

(* tun.Send drops the answer when the buffer is full. *)
SendAnswer(r) == answers' \in {answers, Append(answers, r)}

OnProbe ==
    /\ probing # NoProbe /\ probing' = NoProbe /\ SendAnswer(probing)
    /\ UNCHANGED <<Asking, Linking, testing, toAgent>>

OnCredentialTest(r) ==
    /\ testing[r] > 0 /\ testing' = [testing EXCEPT ![r] = @ - 1] /\ SendAnswer(r)
    /\ UNCHANGED <<Asking, Linking, probing, toAgent>>

(* probe_result, credential_test_result *)
PublishResult ==
    /\ agentConn # NoHandler /\ answers # <<>> /\ answers' = Tail(answers)
    /\ LET r == Head(answers)
       IN /\ relayed' = IF Open(r) THEN [relayed EXCEPT ![r] = @ + 1] ELSE relayed
          /\ inbox' = IF Open(r) /\ r \in registered
                      THEN [inbox EXCEPT ![r] = @ + 1] ELSE inbox
    /\ UNCHANGED <<request, registered, Linking, Agent, toAgent>>

(* The wait ends with the first answer, the timer or the client. *)
Return(r) ==
    /\ request[r] = "waiting"
    /\ \/ inbox[r] > 0 /\ request' = [request EXCEPT ![r] = "answered"]
       \/ \E how \in {"timed out", "cancelled"} : request' = [request EXCEPT ![r] = how]
    /\ UNCHANGED <<registered, inbox, relayed, Linking, Agent, Lines>>

RoundTripNext ==
    \/ \E r \in Requests : \/ Register(r) \/ AwaitResult(r) \/ PublishRequest(r) \/ Return(r)
                         \/ OnCredentialTest(r)
    \/ \E h \in Handlers : ConnectHandler(h) \/ SubscribeProbes(h) \/ HandlerReturns(h)
    \/ BreakConnection \/ AgentReads \/ OnProbe \/ PublishResult

RoundTripSpec == RoundTripInit /\ [][RoundTripNext]_tripVars

(***************************************************************************)
(* Properties                                                              *)
(***************************************************************************)

(* While a request waits, every answer to it that an instance has read off *)
(* the agent's connection is in its inbox, whatever connections came and   *)
(* went in between: none is published to a subscription not yet there.     *)
AnswerIsHeard == \A r \in Requests : request[r] = "waiting" => inbox[r] = relayed[r]
=============================================================================
