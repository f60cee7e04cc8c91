-------------------------- MODULE DiscoveryPipeline --------------------------
(***************************************************************************)
(* One discovery on the agent: recon.Run takes a target through naabu,     *)
(* nuclei-network detection, the network-vuln pass, httpx and nuclei; what *)
(* each stage finds goes through a Batcher to the tunnel.  A batch leaves  *)
(* when it is full, when the stage flushes, or when a timer's goroutine    *)
(* takes it, and that goroutine sends it whenever it is scheduled.         *)
(***************************************************************************)
EXTENDS Naturals, FiniteSets

CONSTANTS
    Endpoints,    \* <<address, port>> pairs of the target
    BatchSize,
    VulnCap       \* vulnMaxFindings

ASSUME PipelineAssumption == BatchSize \in Nat \ {0} /\ VulnCap \in Nat

VARIABLES
    want,       \* the directive: optional stages, and whether it names a host
    stage,
    open,       \* endpoints naabu has reported, in the order of its output
    hits,       \* detection: endpoints on which a non-HTTP service answered
    excluded,   \* endpoints httpx is not asked about
    inputs,     \* endpoints httpx was asked about
    found,      \* every upsert that was added to a batcher
    buf,        \* Batcher.buf
    armed,      \* Batcher.timer
    held,       \* batches that timer goroutines have taken and not sent
    emitted     \* upserts handed to the tunnel, in order of sending

pipelineVars == <<want, stage, open, hits, excluded, inputs, found, buf, armed,
                  held, emitted>>

Upserts == {"naabu", "detect", "vuln", "httpx", "nuclei"} \X Endpoints
Port(e) == e[2]

PipelineTypeOK ==
    /\ want \in [detect : BOOLEAN, vuln : BOOLEAN, httpx : BOOLEAN, nuclei : BOOLEAN,
                 byName : BOOLEAN]
    /\ stage \in {"naabu", "detect", "backfill", "vuln", "httpx", "nuclei",
                  "completed", "error"}
    /\ open \subseteq Endpoints /\ hits \subseteq Endpoints
    /\ excluded \subseteq Endpoints /\ inputs \subseteq Endpoints
    /\ found \subseteq Upserts /\ buf \subseteq Upserts /\ armed \in BOOLEAN
    /\ held \subseteq SUBSET Upserts /\ emitted \subseteq Upserts

PipelineInit ==
    /\ want \in [detect : BOOLEAN, vuln : BOOLEAN, httpx : BOOLEAN, nuclei : BOOLEAN,
                 byName : BOOLEAN]
    /\ stage = "naabu" /\ open = {} /\ hits = {} /\ excluded = {} /\ inputs = {}
    /\ found = {} /\ buf = {} /\ armed = FALSE /\ held = {} /\ emitted = {}

(***************************************************************************)
(* Batcher                                                                 *)
(***************************************************************************)
Send(batch) == emitted' = emitted \cup batch

(* Add: the first finding after a batch arms the timer, the last one of a  *)
(* full batch sends it.                                                    *)
Add(u) ==
    /\ u \notin found /\ found' = found \cup {u}
    /\ LET size == IF u[1] = "nuclei" THEN 1 ELSE BatchSize
       IN IF Cardinality(buf) + 1 >= size
          THEN Send(buf \cup {u}) /\ buf' = {} /\ armed' = FALSE
          ELSE buf' = buf \cup {u} /\ armed' = TRUE /\ UNCHANGED emitted
    /\ UNCHANGED held

Flush ==
    /\ Send(buf) /\ buf' = {} /\ armed' = FALSE
    /\ UNCHANGED <<held, found>>

(* A flushFromTimer that leaves the batch where it took it from. *)
TimerCopies ==
    /\ armed /\ buf # {}
    /\ held' = held \cup {buf} /\ armed' = FALSE
    /\ UNCHANGED <<want, stage, open, hits, excluded, inputs, found, buf, emitted>>

(* flushFromTimer: under the lock, and then without it. *)
TimerTakes ==
    /\ armed /\ buf # {}
    /\ held' = held \cup {buf} /\ buf' = {} /\ armed' = FALSE
    /\ UNCHANGED <<want, stage, open, hits, excluded, inputs, found, emitted>>

TimerSends(batch) ==
    /\ batch \in held /\ held' = held \ {batch}
    /\ Send(batch)
    /\ UNCHANGED <<want, stage, open, hits, excluded, inputs, found, buf, armed>>

(***************************************************************************)
(* Stages                                                                  *)
(***************************************************************************)
AfterDetect == IF want.vuln /\ open # {} THEN "vuln"
               ELSE IF want.httpx THEN "httpx" ELSE "completed"
AfterNaabu == IF want.detect /\ open # {} THEN "detect" ELSE AfterDetect

NaabuFinds(e) ==
    /\ stage = "naabu" /\ open' = open \cup {e} /\ Add(<<"naabu", e>>)
    /\ UNCHANGED <<want, stage, hits, excluded, inputs>>

(* naabu exits, or fails and fails the discovery.                          *)
NaabuEnds ==
    /\ stage = "naabu" /\ Flush
    /\ stage' \in {AfterNaabu, "error"}
    /\ UNCHANGED <<want, open, hits, excluded, inputs>>

(* Detection hits are kept until the pass has ended, so that no port is    *)
(* classified by half of its hits; which ports carry only services other   *)
(* than HTTP is the tool's answer.  A pass that fails changes nothing.     *)
DetectEnds ==
    /\ stage = "detect"
    /\ \/ hits' \in SUBSET open /\ stage' = "backfill"
       \/ stage' = AfterDetect /\ UNCHANGED hits
    /\ UNCHANGED <<want, open, excluded, inputs, found, buf, armed, held, emitted>>

(* buildHostPortInputs: a target that is a name is probed by name, so that *)
(* its hits carry no address; they go to the endpoint it mapped last.      *)
Answers(h) == {e \in open : Port(e) = Port(h) /\ (want.byName \/ e = h)}

(* A backfill that excludes a port before it knows its service. *)
ExcludeAnyHit ==
    /\ stage = "backfill" /\ hits # {}
    /\ \E h \in hits :
         /\ hits' = hits \ {h} /\ excluded' = excluded \cup {h}
         /\ UNCHANGED <<found, buf, armed, held, emitted>>
    /\ UNCHANGED <<want, stage, open, inputs>>

(* One port after the other: its service is reported, and httpx will not   *)
(* be asked about it.                                                      *)
Backfill ==
    /\ stage = "backfill" /\ hits # {}
    /\ \E h \in hits : \E e \in Answers(h) :
         /\ hits' = hits \ Answers(h)
         /\ excluded' = excluded \cup {e}
         /\ Add(<<"detect", e>>)
    /\ UNCHANGED <<want, stage, open, inputs>>

BackfillEnds ==
    /\ stage = "backfill" /\ hits = {} /\ Flush
    /\ stage' = AfterDetect
    /\ UNCHANGED <<want, open, hits, excluded, inputs>>

(* At VulnCap findings the pass cancels its own subprocess.                *)
VulnFinds(e) ==
    /\ stage = "vuln" /\ e \in open
    /\ Cardinality({u \in found : u[1] = "vuln"}) < VulnCap
    /\ Add(<<"vuln", e>>)
    /\ UNCHANGED <<want, stage, open, hits, excluded, inputs>>

VulnEnds ==
    /\ stage = "vuln" /\ Flush
    /\ stage' = IF want.httpx THEN "httpx" ELSE "completed"
    /\ UNCHANGED <<want, open, hits, excluded, inputs>>

StartHTTPX ==
    /\ stage = "httpx" /\ inputs # open \ excluded
    /\ inputs' = open \ excluded
    /\ UNCHANGED <<want, stage, open, hits, excluded, found, buf, armed, held, emitted>>

HTTPXFinds(e) ==
    /\ stage = "httpx" /\ e \in inputs /\ Add(<<"httpx", e>>)
    /\ UNCHANGED <<want, stage, open, hits, excluded, inputs>>

HTTPXEnds ==
    /\ stage = "httpx" /\ inputs = open \ excluded /\ Flush
    /\ stage' \in {IF want.nuclei THEN "nuclei" ELSE "completed", "error"}
    /\ UNCHANGED <<want, open, hits, excluded, inputs>>

NucleiFinds(e) ==
    /\ stage = "nuclei" /\ <<"httpx", e>> \in found /\ Add(<<"nuclei", e>>)
    /\ UNCHANGED <<want, stage, open, hits, excluded, inputs>>

NucleiEnds ==
    /\ stage = "nuclei" /\ Flush
    /\ stage' \in {"completed", "error"}
    /\ UNCHANGED <<want, open, hits, excluded, inputs>>

StageEnds ==
    \/ NaabuEnds \/ DetectEnds \/ Backfill \/ BackfillEnds \/ VulnEnds
    \/ StartHTTPX \/ HTTPXEnds \/ NucleiEnds

PipelineNext ==
    \/ \E e \in Endpoints :
         NaabuFinds(e) \/ VulnFinds(e) \/ HTTPXFinds(e) \/ NucleiFinds(e)
    \/ StageEnds \/ TimerTakes
    \/ \E batch \in held : TimerSends(batch)

PipelineSpec == PipelineInit /\ [][PipelineNext]_pipelineVars

(***************************************************************************)
(* Properties                                                              *)
(***************************************************************************)

(* However the stages' flushes and the timers interleave, a finding is in  *)
(* exactly one place, and once the discovery has returned nothing is left  *)
(* in a batcher that nobody will flush.                                    *)
BatchesPartitionFindings ==
    /\ found = emitted \cup buf \cup UNION held
    /\ emitted \cap (buf \cup UNION held) = {} /\ buf \cap UNION held = {}
    /\ \A b, c \in held : b = c \/ b \cap c = {}
    /\ stage \in {"completed", "error"} => buf = {}

(* When httpx ran, every open port was given to it or had its service      *)
(* reported by the detection pass: none falls between the two.             *)
EveryPortExamined ==
    stage \in {"nuclei", "completed"} /\ want.httpx =>
        \A e \in open : e \in inputs \/ <<"detect", e>> \in found
=============================================================================
