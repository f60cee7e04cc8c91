------------------------------- MODULE Ingest -------------------------------
(***************************************************************************)
(* How reports of scans become an endpoint row, its events and its         *)
(* findings.  Each connection handles its messages one at a time; several  *)
(* handlers (two agents, or the old and the new connection of one) work on *)
(* the same endpoint at once, one SQL statement at a time.  One endpoint   *)
(* of one asset, and on it one finding of every source.                    *)
(***************************************************************************)
EXTENDS Naturals, FiniteSets, Sequences

CONSTANTS
    Reporters,      \* connection handlers
    Services,       \* what a stage may call the service it finds
    MaxInputs       \* bound: reports received, status changes by users and
                    \* statements that fail, together

Unknown == ""       \* a service column that is NULL
Absent == "absent"  \* no endpoint row

ASSUME IngestAssumption ==
    MaxInputs \in Nat /\ IsFiniteSet(Reporters) /\ Absent \notin Services

WebStage == "httpx"
VulnStage == "nuclei-network-vuln"
DetectStage == "nuclei-network"
Bundle == "bundle"                    \* scan_results of a compliance bundle
Stages == {WebStage, VulnStage, DetectStage, Bundle}
FindingStatuses == {"open", "resolved", "suppressed"}

isNetworkSubPass(s) == s \in {DetectStage, VulnStage}
stageEmitsFindings(s) == s # DetectStage

VARIABLES
    endpoint,     \* the row's service
    findings,     \* per stage, its rows in the order of first_seen
    assetEvents,
    eventsLost,   \* an append failed
    reporter,     \* what each handler is doing
    inputs
ingestVars == <<endpoint, findings, assetEvents, eventsLost, reporter, inputs>>

NoReport == [at |-> "idle", stage |-> Bundle, service |-> Unknown, status |-> "open",
             old |-> Absent, new |-> Absent, row |-> 0, was |-> "open"]

IngestTypeOK ==
    /\ endpoint \in Services \cup {Unknown, Absent}
    /\ findings \in [Stages -> Seq(FindingStatuses)]
    /\ assetEvents \subseteq {"new_asset", "version_changed"} /\ eventsLost \in BOOLEAN
    /\ reporter \in [Reporters ->
         [at : {"idle", "list", "upsert", "append", "lookup", "write"},
          stage : Stages, service : Services \cup {Unknown}, status : {"open", "resolved"},
          old : Services \cup {Unknown, Absent}, new : Services \cup {Unknown, Absent},
          row : Nat, was : FindingStatuses]]
    /\ \A r \in Reporters : reporter[r].row <= Len(findings[reporter[r].stage])
    /\ inputs \in 0 .. MaxInputs

IngestInit ==
    /\ endpoint = Absent /\ findings = [s \in Stages |-> <<>>]
    /\ assetEvents = {} /\ eventsLost = FALSE /\ reporter = [r \in Reporters |-> NoReport]
    /\ inputs = 0

Doing(r, at) == reporter[r].at = at
Proceed(r, at) == reporter' = [reporter EXCEPT ![r].at = at]
Finished(r) == reporter' = [reporter EXCEPT ![r] = NoReport]

Input == inputs < MaxInputs /\ inputs' = inputs + 1
SQLError == Input

(* handleAssetDiscovered, its asset upserted, and handleScanResults, whose *)
(* rows pass or fail.  A scan that names no endpoint has no findings.      *)
ReceiveReport(r, stage, service, status) ==
    /\ Doing(r, "idle") /\ Input
    /\ stage = Bundle => service = Unknown /\ endpoint # Absent
    /\ stage # Bundle => status = "open"
    /\ reporter' = [reporter EXCEPT ![r] =
         [NoReport EXCEPT !.at = IF stage = Bundle THEN "lookup" ELSE "list",
                          !.stage = stage, !.service = service, !.status = status]]
    /\ UNCHANGED <<endpoint, findings, assetEvents, eventsLost>>

(* Its error is ignored, and the endpoint taken for a new one. *)
ListEndpointsForAsset(r) ==
    /\ Doing(r, "list")
    /\ \/ /\ reporter' = [reporter EXCEPT ![r].at = "upsert", ![r].old = endpoint]
          /\ UNCHANGED inputs
       \/ SQLError /\ Proceed(r, "upsert")
    /\ UNCHANGED <<endpoint, findings, assetEvents, eventsLost>>

Coalesce(a, b) == IF a \in Services THEN a ELSE b
Stored == IF endpoint = Absent THEN Unknown ELSE endpoint

ServiceSet(fillOnly, incoming) ==
    IF fillOnly THEN Coalesce(Stored, incoming) ELSE Coalesce(incoming, Stored)

(* A plausible bug: the row to compare with is read after the upsert. *)
OldAfterUpsert(r, service) == service
OldRow(r, service) == reporter[r].old

UpsertAssetEndpoint(r) ==
    LET me == reporter[r]
        service == ServiceSet(isNetworkSubPass(me.stage), me.service)
    IN /\ Doing(r, "upsert") /\ endpoint' = service
       /\ reporter' = [reporter EXCEPT ![r].at = "append", ![r].service = Unknown,
                                       ![r].old = OldRow(r, service), ![r].new = service]
       /\ UNCHANGED <<findings, assetEvents, eventsLost, inputs>>

(* The asset is skipped. *)
UpsertFails(r) ==
    /\ Doing(r, "upsert") /\ SQLError /\ Finished(r)
    /\ UNCHANGED <<endpoint, findings, assetEvents, eventsLost>>

deriveAssetEvents(old, new) ==
    IF old = Absent THEN {"new_asset"} ELSE IF old # new THEN {"version_changed"} ELSE {}

AppendAssetEvents(r) ==
    /\ Doing(r, "append")
    /\ \/ /\ assetEvents' = assetEvents \cup deriveAssetEvents(reporter[r].old, reporter[r].new)
          /\ UNCHANGED <<eventsLost, inputs>>
       \/ SQLError /\ eventsLost' = TRUE /\ UNCHANGED assetEvents
    /\ \/ /\ stageEmitsFindings(reporter[r].stage)
          /\ reporter' = [reporter EXCEPT ![r] =
               [NoReport EXCEPT !.at = "lookup", !.stage = reporter[r].stage]]
       \/ Finished(r)    \* the report has no hit
    /\ UNCHANGED <<endpoint, findings>>

Rows(r) == findings[reporter[r].stage]

(* A plausible bug: only open rows are looked up. *)
LookupOpen(r) ==
    /\ Doing(r, "lookup")
    /\ LET n == Len(Rows(r))
       IN IF n > 0 /\ Rows(r)[n] = "open"
          THEN reporter' = [reporter EXCEPT ![r].at = "write", ![r].row = n, ![r].was = "open"]
          ELSE Proceed(r, "write")
    /\ UNCHANGED <<endpoint, findings, assetEvents, eventsLost, inputs>>

(* UpsertFinding selects the newest row of the key ... *)
LookupFinding(r) ==
    /\ Doing(r, "lookup")
    /\ LET n == Len(Rows(r))
       IN IF n > 0
          THEN reporter' = [reporter EXCEPT ![r].at = "write", ![r].row = n, ![r].was = Rows(r)[n]]
          ELSE Proceed(r, "write")
    /\ UNCHANGED <<endpoint, findings, assetEvents, eventsLost, inputs>>

(* A plausible bug: whatever is seen again is open, or resolved. *)
NextStatusReopens(was, incoming) == incoming

NextStatus(was, incoming) == IF was = "suppressed" THEN was ELSE incoming

(* ... and updates that row from what it read, or inserts one. *)
WriteFinding(r) ==
    /\ Doing(r, "write") /\ Finished(r)
    /\ LET me == reporter[r]
       IN findings' = [findings EXCEPT ![me.stage] =
            IF me.row > 0 THEN [@ EXCEPT ![me.row] = NextStatus(me.was, me.status)]
                          ELSE Append(@, me.status)]
    /\ UNCHANGED <<endpoint, assetEvents, eventsLost, inputs>>

UpsertFindingFails(r) ==
    /\ reporter[r].at \in {"lookup", "write"} /\ SQLError /\ Finished(r)
    /\ UNCHANGED <<endpoint, findings, assetEvents, eventsLost>>

SetFindingStatus(s, i, status) ==
    /\ findings[s][i] # status /\ Input
    /\ findings' = [findings EXCEPT ![s][i] = status]
    /\ UNCHANGED <<endpoint, assetEvents, eventsLost, reporter>>

IngestNext ==
    \/ \E r \in Reporters :
         \/ \E stage \in Stages, service \in Services \cup {Unknown}, status \in {"open", "resolved"} :
              ReceiveReport(r, stage, service, status)
         \/ ListEndpointsForAsset(r) \/ UpsertAssetEndpoint(r) \/ UpsertFails(r)
         \/ AppendAssetEvents(r)
         \/ LookupFinding(r) \/ WriteFinding(r) \/ UpsertFindingFails(r)
    \/ \E s \in Stages : \E i \in DOMAIN findings[s], status \in FindingStatuses :
         SetFindingStatus(s, i, status)

IngestSpec == IngestInit /\ [][IngestNext]_ingestVars

-----------------------------------------------------------------------------

(* Duplicates come from races only: however many reports, errors and       *)
(* status changes there are, a finding has at most as many rows as there   *)
(* are handlers, for whoever looks it up after the first insert updates.   *)
RowsComeFromRaces == \A s \in Stages : Len(findings[s]) <= Cardinality(Reporters)

(* A report whose lookup came after a user suppressed the finding leaves   *)
(* it suppressed.  The select and the update are two statements: one that  *)
(* looked it up before reopens it.                                         *)
SuppressionHonored ==
    [][\A s \in Stages : \A i \in DOMAIN findings[s] :
         findings[s][i] = "suppressed" /\ findings'[s][i] # "suppressed" =>
           \/ UNCHANGED reporter   \* the user again
           \/ \E r \in Reporters : Doing(r, "write") /\ ~Doing(r, "write")'
                /\ reporter[r].row = i /\ reporter[r].stage = s
                /\ reporter[r].was # "suppressed"]_ingestVars

(* Once an endpoint has a row and no handler is between its upsert and its *)
(* events, somebody has announced it, unless the announcement failed.      *)
(* Whoever inserts the row has read, before, that there was none.          *)
NewEndpointAnnounced ==
    endpoint # Absent /\ ~eventsLost /\ (\A r \in Reporters : ~Doing(r, "append"))
      => "new_asset" \in assetEvents
=============================================================================
