------------------------------- MODULE MCAgent -------------------------------
(***************************************************************************)
(* The agent's parts for TLC.  They share no state, so a behaviour         *)
(* exercises one of them, its area, and leaves the others in their initial *)
(* states: what would be explored is the union of their state spaces, not  *)
(* the product.                                                            *)
(***************************************************************************)
EXTENDS AgentTunnel, DirectiveRun, DiscoveryPipeline, LogThrottle, TLC

CONSTANTS g1, g2, h1, d1, d2

MCLoggers == {g1, g2}
MCHandlers == {h1}
MCDirectives == {d1, d2}
MCKind == (d1 :> "collector") @@ (d2 :> "discovery")
MCEndpoints == {<<1, 22>>, <<2, 22>>}

VARIABLE area

vars == <<area, tunnelVars, runVars, pipelineVars, throttleVars>>

Init ==
    /\ area \in {"tunnel", "run", "pipeline", "throttle"}
    /\ TunnelInit /\ RunInit /\ PipelineInit /\ ThrottleInit
    /\ area = "pipeline" \/ \A stages \in DOMAIN want : ~want[stages]

Next ==
    /\ UNCHANGED area
    /\ \/ /\ area = "tunnel" /\ TunnelNext
          /\ UNCHANGED <<runVars, pipelineVars, throttleVars>>
       \/ /\ area = "run" /\ RunNext
          /\ UNCHANGED <<tunnelVars, pipelineVars, throttleVars>>
       \/ /\ area = "pipeline" /\ PipelineNext
          /\ UNCHANGED <<tunnelVars, runVars, throttleVars>>
       \/ /\ area = "throttle" /\ ThrottleNext
          /\ UNCHANGED <<tunnelVars, runVars, pipelineVars>>

(* Goroutines run, a severed connection is noticed within pongWait, and    *)
(* Run dials for ever.  Every tool, download and script returns in the end *)
(* (an assumption about the programs the agent starts: collectors and      *)
(* recon tools run without a timeout), and timers fire.                    *)
Fairness ==
    /\ \A c \in Dials : WF_tunnelVars(area = "tunnel" /\ Goroutine(c))
    /\ WF_runVars(area = "run" /\ ScanGoroutine)
    /\ WF_runVars(area = "run" /\ ReadLoop)
    /\ WF_pipelineVars(area = "pipeline" /\ StageEnds)
    /\ WF_pipelineVars(area = "pipeline" /\ \E batch \in held : TimerSends(batch))

Spec == Init /\ [][Next]_vars /\ Fairness

(* Every part's state is well-typed in every reachable state. *)
TypeOK == TunnelTypeOK /\ RunTypeOK /\ PipelineTypeOK /\ ThrottleTypeOK
=============================================================================
