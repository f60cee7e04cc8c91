------------------------------- MODULE HubConn -------------------------------
(***************************************************************************)
(* Who serves an agent: the connection handlers of AgentHandler.Connect on *)
(* several API instances, the registry of each instance's Hub (one entry   *)
(* per agent), and the agent's own idea of its connection.  A connection   *)
(* may be half open: the agent has left it and its handler does not know   *)
(* until a read fails.                                                     *)
(***************************************************************************)
EXTENDS Naturals

CONSTANTS
    Instances,    \* API processes
    Handlers,     \* connection handlers
    Home,         \* the instance a handler runs on
    None,         \* "no connection"
    MaxBreaks,    \* bound: connections that break
    MaxHasty      \* bound: dials before the last closed connection is cleaned up

ASSUME HubAssumption ==
    /\ Home \in [Handlers -> Instances] /\ None \notin Handlers
    /\ MaxBreaks \in Nat /\ MaxHasty \in Nat

VARIABLES
    conns,    \* Hub.conns[agentID] of each instance
    pc,       \* next statement of each handler
    open,     \* connections whose server side is open
    link,     \* connection the agent's tunnel is attached to
    row,      \* agents.status
    breaks,
    hasty

vars == <<conns, pc, open, link, row, breaks, hasty>>

TypeOK ==
    /\ conns \in [Instances -> Handlers \cup {None}]
    /\ pc \in [Handlers -> {"off", "register", "hook", "read", "unregister",
                            "disconnected"}]
    /\ open \subseteq Handlers
    /\ link \in Handlers \cup {None}
    /\ row \in {"connected", "disconnected"}
    /\ breaks \in 0 .. MaxBreaks /\ hasty \in 0 .. MaxHasty

Init ==
    /\ conns = [i \in Instances |-> None]
    /\ pc = [h \in Handlers |-> "off"]
    /\ open = {} /\ link = None /\ row = "disconnected"
    /\ breaks = 0 /\ hasty = 0

(* A handler whose connection is closed, or whose read failed, and that    *)
(* has not returned yet.                                                   *)
Leaving == {h \in Handlers : \/ pc[h] \in {"hook", "read"} /\ h \notin open
                             \/ pc[h] \in {"unregister", "disconnected"}}

(* Tunnel.connect reaches Connect: the row is written before the upgrade   *)
(* that opens the connection.  The agent waits between two dials, longer   *)
(* each time (Tunnel.Run never resets its backoff), so that in the end it  *)
(* comes back only after the handlers of closed connections have returned. *)
Accept(h) ==
    /\ pc[h] = "off" /\ link = None
    /\ IF Leaving = {} THEN UNCHANGED hasty
       ELSE hasty < MaxHasty /\ hasty' = hasty + 1
    /\ row' = "connected"
    /\ open' = open \cup {h} /\ link' = h
    /\ pc' = [pc EXCEPT ![h] = "register"]
    /\ UNCHANGED <<conns, breaks>>

(* Hub.register closes the connection it replaces. *)
Register(h) ==
    /\ pc[h] = "register"
    /\ open' = open \ ({conns[Home[h]]} \ {h})
    /\ conns' = [conns EXCEPT ![Home[h]] = h]
    /\ pc' = [pc EXCEPT ![h] = "hook"]
    /\ UNCHANGED <<link, row, breaks, hasty>>

(* onConnect returns, and the read loop begins. *)
HookReturns(h) ==
    /\ pc[h] = "hook"
    /\ pc' = [pc EXCEPT ![h] = "read"]
    /\ UNCHANGED <<conns, open, link, row, breaks, hasty>>

(* ReadMessage fails: the socket was closed here, or the agent has left it.*)
ReadFails(h) ==
    /\ pc[h] = "read" /\ (h \notin open \/ link # h)
    /\ pc' = [pc EXCEPT ![h] = "unregister"]
    /\ UNCHANGED <<conns, open, link, row, breaks, hasty>>

(* An unregister that forgets to close the connection it removes. *)
UnregisterOnly(h) ==
    /\ pc[h] = "unregister"
    /\ conns' = [conns EXCEPT ![Home[h]] = None]
    /\ pc' = [pc EXCEPT ![h] = "disconnected"]
    /\ UNCHANGED <<open, link, row, breaks, hasty>>

(* Hub.unregister looks the connection up by agent: it closes and removes  *)
(* the one that is registered, whoever registered it.                      *)
Unregister(h) ==
    /\ pc[h] = "unregister"
    /\ open' = open \ {conns[Home[h]]}
    /\ conns' = [conns EXCEPT ![Home[h]] = None]
    /\ pc' = [pc EXCEPT ![h] = "disconnected"]
    /\ UNCHANGED <<link, row, breaks, hasty>>

(* The status of a scan written into agents.status. *)
MarkFailed(h) ==
    /\ pc[h] = "disconnected"
    /\ row' = "failed"
    /\ pc' = [pc EXCEPT ![h] = "off"]
    /\ UNCHANGED <<conns, open, link, breaks, hasty>>

(* The rest of Connect: agents.status, and FailRunningScansForAgent. *)
MarkDisconnected(h) ==
    /\ pc[h] = "disconnected"
    /\ row' = "disconnected"
    /\ pc' = [pc EXCEPT ![h] = "off"]
    /\ UNCHANGED <<conns, open, link, breaks, hasty>>

(* A heartbeat that only refreshes last_heartbeat. *)
HeartbeatTimeOnly(h) ==
    /\ pc[h] = "read" /\ link = h /\ h \in open
    /\ row # "connected" /\ UNCHANGED vars

(* UpdateAgentHeartbeat marks the agent connected, too. *)
Heartbeat(h) ==
    /\ pc[h] = "read" /\ link = h /\ h \in open
    /\ row # "connected" /\ row' = "connected"
    /\ UNCHANGED <<conns, pc, open, link, breaks, hasty>>

(* The agent's read loop notices that the server closed the connection. *)
AgentNotices ==
    /\ link # None /\ link \notin open
    /\ link' = None
    /\ UNCHANGED <<conns, pc, open, row, breaks, hasty>>

(* The agent loses its connection and the server side stays half open. *)
Break ==
    /\ link # None /\ breaks < MaxBreaks /\ breaks' = breaks + 1
    /\ link' = None
    /\ UNCHANGED <<conns, pc, open, row, hasty>>

HandlerStep(h) ==
    \/ Register(h) \/ HookReturns(h) \/ ReadFails(h) \/ Unregister(h)
    \/ MarkDisconnected(h) \/ Heartbeat(h)

Next ==
    \/ \E h \in Handlers : Accept(h) \/ HandlerStep(h)
    \/ AgentNotices \/ Break

Spec == Init /\ [][Next]_vars

(* Handlers run, reads of dead connections fail within pongWait, heartbeats*)
(* are sent every 30 seconds, and the agent dials again for ever.          *)
Fairness ==
    /\ \A h \in Handlers : WF_vars(HandlerStep(h))
    /\ WF_vars(\E h \in Handlers : Accept(h))
    /\ WF_vars(AgentNotices)

FairSpec == Spec /\ Fairness
(***************************************************************************)
(* Properties                                                              *)
(***************************************************************************)

(* A handler that waits for messages on an open connection is the one its  *)
(* hub sends to: no agent stays attached to a connection on which nothing  *)
(* can be delivered, whichever handlers of it end meanwhile.               *)
OpenConnectionIsRegistered ==
    \A h \in Handlers :
        pc[h] \in {"hook", "read"} /\ h \in open => conns[Home[h]] = h

(* Connections that break and handlers that end late do not keep an agent  *)
(* away for ever: in the end it is attached to a connection that its hub   *)
(* sends to, and its row says so.                                          *)
AgentIsServedAgain ==
    <>[](link # None /\ conns[Home[link]] = link /\ row = "connected")

(* The comment on HandleConnectionWithHook says that onConnect runs "after *)
(* the connection is registered and Send(agentID) can deliver": while the  *)
(* hook of the agent's connection runs, Send finds one to write to.  Only  *)
(* an unregister empties an entry.                                         *)
HookCanSend == \A h \in Handlers : pc[h] = "hook" /\ link = h => conns[Home[h]] # None
=============================================================================
