---------------------------- MODULE HubConnProofs ----------------------------
(***************************************************************************)
(* Proofs about HubConn, for any number of API instances, connection       *)
(* handlers and broken connections.                                        *)
(***************************************************************************)
EXTENDS HubConn, TLAPS

LEMMA InitTypeOK == Init => TypeOK
BY HubAssumption DEF Init, TypeOK

LEMMA StepTypeOK == TypeOK /\ [Next]_vars => TypeOK'
<1> SUFFICES ASSUME TypeOK, [Next]_vars PROVE TypeOK'
  OBVIOUS
<1> USE HubAssumption DEF TypeOK
<1>1. ASSUME NEW h \in Handlers, Accept(h) PROVE TypeOK'
  BY <1>1 DEF Accept
<1>2. ASSUME NEW h \in Handlers, Register(h) PROVE TypeOK'
  BY <1>2 DEF Register
<1>3. ASSUME NEW h \in Handlers, HookReturns(h) \/ ReadFails(h) PROVE TypeOK'
  BY <1>3 DEF HookReturns, ReadFails
<1>4. ASSUME NEW h \in Handlers, Unregister(h) PROVE TypeOK'
  BY <1>4 DEF Unregister
<1>5. ASSUME NEW h \in Handlers, MarkDisconnected(h) \/ Heartbeat(h) PROVE TypeOK'
  BY <1>5 DEF MarkDisconnected, Heartbeat
<1>6. CASE AgentNotices \/ Break
  BY <1>6 DEF AgentNotices, Break
<1>7. CASE UNCHANGED vars
  BY <1>7 DEF vars
<1> QED
  BY <1>1, <1>2, <1>3, <1>4, <1>5, <1>6, <1>7 DEF Next, HandlerStep

(* Registries hold handlers of the agent, and handlers end in order. *)
THEOREM HubTypeCorrect == Spec => []TypeOK
<1> QED
  BY InitTypeOK, StepTypeOK, PTL DEF Spec

LEMMA StepRegistered ==
    TypeOK /\ OpenConnectionIsRegistered /\ [Next]_vars => OpenConnectionIsRegistered'
<1> SUFFICES ASSUME TypeOK, OpenConnectionIsRegistered, [Next]_vars,
                    NEW g \in Handlers, pc'[g] \in {"hook", "read"}, g \in open'
             PROVE  conns'[Home[g]] = g
  BY DEF OpenConnectionIsRegistered
<1> USE HubAssumption DEF TypeOK, OpenConnectionIsRegistered
<1>1. ASSUME NEW h \in Handlers, Accept(h) PROVE conns'[Home[g]] = g
  BY <1>1 DEF Accept
<1>2. ASSUME NEW h \in Handlers, Register(h) PROVE conns'[Home[g]] = g
  <2>1. CASE g = h
    BY <1>2, <2>1 DEF Register
  <2>2. CASE g # h
    <3>1. pc[g] \in {"hook", "read"} /\ g \in open /\ g # conns[Home[h]]
      BY <1>2, <2>2 DEF Register
    <3>2. conns[Home[g]] = g /\ Home[g] # Home[h]
      BY <3>1
    <3> QED
      BY <1>2, <3>2 DEF Register
  <2> QED
    BY <2>1, <2>2
<1>3. ASSUME NEW h \in Handlers, HookReturns(h) \/ ReadFails(h) PROVE conns'[Home[g]] = g
  BY <1>3 DEF HookReturns, ReadFails
<1>4. ASSUME NEW h \in Handlers, Unregister(h) PROVE conns'[Home[g]] = g
  <2>1. pc[g] \in {"hook", "read"} /\ g \in open /\ g # conns[Home[h]]
    BY <1>4 DEF Unregister
  <2>2. conns[Home[g]] = g /\ Home[g] # Home[h]
    BY <2>1
  <2> QED
    BY <1>4, <2>2 DEF Unregister
<1>5. ASSUME NEW h \in Handlers, MarkDisconnected(h) \/ Heartbeat(h)
      PROVE  conns'[Home[g]] = g
  BY <1>5 DEF MarkDisconnected, Heartbeat
<1>6. CASE AgentNotices \/ Break
  BY <1>6 DEF AgentNotices, Break
<1>7. CASE UNCHANGED vars
  BY <1>7 DEF vars
<1> QED
  BY <1>1, <1>2, <1>3, <1>4, <1>5, <1>6, <1>7 DEF Next, HandlerStep

(* For any number of instances and handlers, a handler that reads from an  *)
(* open connection is the one its hub sends to.                            *)
THEOREM OpenIsRegistered == Spec => []OpenConnectionIsRegistered
<1>1. Init => OpenConnectionIsRegistered
  BY DEF Init, OpenConnectionIsRegistered
<1> QED
  BY <1>1, InitTypeOK, StepTypeOK, StepRegistered, PTL DEF Spec
=============================================================================
