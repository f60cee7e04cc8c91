----------------------------- MODULE DirectiveRun -----------------------------
(***************************************************************************)
(* What the agent does with a directive: the semaphore of OnDirective, the *)
(* scan goroutine (handleDirective with its collector, manifest and legacy *)
(* paths, handleDiscoveryDirective), the files both need on disk, and the  *)
(* upgrade that ends the process whatever is running.                      *)
(***************************************************************************)
EXTENDS Naturals, FiniteSets

CONSTANTS
    Directives,      \* scan directives
    Kind,            \* what each asks for: "discovery", "collector", "bundle"
    None,
    Controls,        \* controls of a manifest bundle
    MaxDeliveries,   \* bound: how often the server sends one directive
    MaxExits         \* bound: how often the process ends

ASSUME DirectiveAssumption ==
    /\ Kind \in [Directives -> {"discovery", "collector", "bundle"}]
    /\ None \notin Directives /\ Controls \in Nat \ {0}
    /\ MaxDeliveries \in Nat /\ MaxExits \in Nat

(* Files that are downloaded to a temporary name, verified and renamed. *)
Artifacts == {"tool", "collector", "agent"}

VARIABLES
    job,         \* current scan and chunk ids
    step,        \* where the scan goroutine is
    progress,    \* controls whose result was streamed
    upgrading,   \* updater.Apply is running, with the server's checksum or without
    disk,        \* each artifact under its final name
    tmp,         \* the temporary file of this process
    bundle,      \* the extracted bundle
    deliveries,
    exits,
    tally,       \* history: what became of each directive
    ranTorn,     \* history: files that were run though incomplete
    interrupted, \* history: an extraction did not finish
    unverified   \* history: a binary was installed without a checksum

runVars == <<job, step, progress, upgrading, disk, tmp, bundle, deliveries,
             exits, tally, ranTorn, interrupted, unverified>>

File == {"absent", "torn", "whole"}
Steps == {"idle", "resolve", "collector", "collect", "bundle", "extract", "manifest",
          "controls", "legacy", "naabu", "recon", "ended", "cleared"}
Tally == [accepted : Nat, refused : Nat, ended : Nat, aborted : Nat]

RunTypeOK ==
    /\ job \in Directives \cup {None} /\ step \in Steps
    /\ progress \in 0 .. Controls /\ upgrading \in {"no", "checked", "unchecked"}
    /\ disk \in [Artifacts -> File] /\ tmp \in [Artifacts -> File]
    /\ bundle \in File
    /\ deliveries \in [Directives -> 0 .. MaxDeliveries] /\ exits \in 0 .. MaxExits
    /\ tally \in [Directives -> Tally]
    /\ ranTorn \subseteq Artifacts \cup {"bundle"} /\ interrupted \in BOOLEAN
    /\ unverified \in BOOLEAN

RunInit ==
    /\ job = None /\ step = "idle" /\ progress = 0 /\ upgrading = "no"
    /\ disk = [a \in Artifacts |-> IF a = "agent" THEN "whole" ELSE "absent"]
    /\ tmp = [a \in Artifacts |-> "absent"] /\ bundle = "absent"
    /\ deliveries = [d \in Directives |-> 0] /\ exits = 0
    /\ tally = [d \in Directives |-> [accepted |-> 0, refused |-> 0, ended |-> 0,
                                      aborted |-> 0]]
    /\ ranTorn = {} /\ interrupted = FALSE /\ unverified = FALSE

Files == <<disk, tmp, bundle, ranTorn, interrupted>>
Outside == <<upgrading, deliveries, exits, unverified>>

Go(s) == step' = s /\ UNCHANGED <<job, tally>>

(* sendError, sendResults, sendScanComplete, discovery_completed: the last *)
(* report of a run.                                                        *)
End ==
    /\ step' = "ended"
    /\ tally' = [tally EXCEPT ![job].ended = @ + 1]
    /\ UNCHANGED job

(* OnDirective.  The same chunk again while it runs is only acknowledged;  *)
(* with chunks not modelled here, that is any discovery directive.         *)
OnRunDirective(d) ==
    /\ deliveries[d] < MaxDeliveries
    /\ deliveries' = [deliveries EXCEPT ![d] = @ + 1]
    /\ \/ /\ step = "idle"
          /\ job' = d /\ progress' = 0
          /\ step' = IF Kind[d] = "discovery" THEN "naabu" ELSE "resolve"
          /\ tally' = [tally EXCEPT ![d].accepted = @ + 1]
       \/ /\ step # "idle" /\ job = d /\ Kind[d] = "discovery"
          /\ UNCHANGED <<job, step, progress, tally>>
       \/ /\ step # "idle" /\ ~(job = d /\ Kind[d] = "discovery")
          /\ tally' = [tally EXCEPT ![d].refused = @ + 1]
          /\ UNCHANGED <<job, step, progress>>
    /\ UNCHANGED <<upgrading, exits, unverified, Files>>

(* A defer that frees the semaphore only for the scan it knows as current. *)
FreeSemaphoreOfCurrent ==
    /\ step = "cleared" /\ job # None /\ step' = "idle"
    /\ UNCHANGED <<job, progress, tally, Outside, Files>>

(* The goroutine's defer: the ids first, then the semaphore. *)
ClearCurrent ==
    /\ step = "ended" /\ step' = "cleared" /\ job' = None
    /\ UNCHANGED <<progress, tally, Outside, Files>>

FreeSemaphore ==
    /\ step = "cleared" /\ step' = "idle"
    /\ UNCHANGED <<job, progress, tally, Outside, Files>>

(* resolveCredentialLocally, when the directive brings a resolver. *)
ResolveCredential ==
    /\ step = "resolve"
    /\ Go(IF Kind[job] = "collector" THEN "collector" ELSE "bundle") \/ End
    /\ UNCHANGED <<progress, Outside, Files>>

(***************************************************************************)
(* Files                                                                   *)
(***************************************************************************)
Wanted(a) ==
    CASE a = "tool"      -> step = "naabu" /\ disk[a] # "whole"
      [] a = "collector" -> step = "collector" /\ disk[a] = "absent"
      [] a = "agent"     -> upgrading # "no"

(* A downloader that writes to the final name. *)
DownloadInPlace(a) ==
    /\ Wanted(a) /\ tmp[a] = "absent"
    /\ \E f \in {"torn", "whole"} :
         tmp' = [tmp EXCEPT ![a] = f] /\ disk' = [disk EXCEPT ![a] = f]
    /\ UNCHANGED <<job, step, progress, Outside, tally, bundle, ranTorn, interrupted>>

(* What arrives may be cut short or not be what the checksum says. *)
Download(a) ==
    /\ Wanted(a) /\ tmp[a] = "absent"
    /\ \E f \in {"torn", "whole"} : tmp' = [tmp EXCEPT ![a] = f]
    /\ UNCHANGED <<job, step, progress, Outside, tally, disk, bundle, ranTorn, interrupted>>

(* Checksum, chmod, rename. *)
Install(a) ==
    /\ Wanted(a) /\ tmp[a] = "whole"
    /\ disk' = [disk EXCEPT ![a] = "whole"]
    /\ tmp' = [tmp EXCEPT ![a] = "absent"]
    /\ UNCHANGED <<bundle, ranTorn, interrupted>>

(* EnsureTool fails the scan, EnsureCollector falls back to a binary that  *)
(* the operator put elsewhere, whole if unverified, or else the scan does  *)
(* to the bundle; Apply gives up.                                          *)
RejectDownload(a) ==
    /\ Wanted(a)
    /\ tmp' = [tmp EXCEPT ![a] = "absent"]
    /\ \/ a = "tool" /\ End /\ UNCHANGED Outside
       \/ a = "collector" /\ (Go("collect") \/ Go("bundle")) /\ UNCHANGED Outside
       \/ /\ a = "agent" /\ upgrading' = "no"
          /\ UNCHANGED <<job, step, tally, deliveries, exits, unverified>>
    /\ UNCHANGED <<progress, disk, bundle, ranTorn, interrupted>>

InstallFile(a) ==
    /\ a # "agent" /\ Install(a)
    /\ UNCHANGED <<job, step, progress, Outside, tally>>

Run(f, state) == ranTorn' = IF state = "torn" THEN ranTorn \cup {f} ELSE ranTorn

(***************************************************************************)
(* The scan goroutine                                                      *)
(***************************************************************************)

(* EnsureTool hashes the file before it is used, EnsureCollector only looks*)
(* whether it is there.                                                    *)
RunNaabu ==
    /\ step = "naabu" /\ disk["tool"] = "whole"
    /\ Run("tool", disk["tool"]) /\ Go("recon")
    /\ UNCHANGED <<progress, Outside, disk, tmp, bundle, interrupted>>

ReconRun ==
    /\ step = "recon" /\ End
    /\ UNCHANGED <<progress, Outside, Files>>

FoundCollector ==
    /\ step = "collector" /\ disk["collector"] # "absent" /\ Go("collect")
    /\ UNCHANGED <<progress, Outside, Files>>

(* tryCollectorPath returning false after it has sent the facts. *)
CollectorFallsThrough ==
    /\ step = "collect"
    /\ Run("collector", disk["collector"])
    /\ step' = "bundle" /\ tally' = [tally EXCEPT ![job].ended = @ + 1]
    /\ UNCHANGED <<job, progress, Outside, disk, tmp, bundle, interrupted>>

(* Facts and the empty results that end the scan, or the bundle. *)
RunCollector ==
    /\ step = "collect"
    /\ Run("collector", disk["collector"])
    /\ End \/ Go("bundle")
    /\ UNCHANGED <<progress, Outside, disk, tmp, bundle, interrupted>>

(* Cache.GetOrFetch: a directory with a manifest in it is the bundle; one  *)
(* without, left by an extraction that was cut short, is written again.    *)
(* verify or the download may fail.                                        *)
GetOrFetch ==
    /\ step = "bundle"
    /\ \/ End
       \/ bundle # "absent" /\ Go("manifest")
       \/ bundle # "whole" /\ Go("extract")
    /\ UNCHANGED <<progress, Outside, Files>>

(* Cache.Store writes one file after the other under the final name; it    *)
(* may fail halfway, and verify may refuse what it has written.            *)
StoreFirst ==
    /\ step = "extract" /\ bundle = "absent"
    /\ bundle' = "torn" /\ Go("extract")
    /\ UNCHANGED <<progress, Outside, disk, tmp, ranTorn, interrupted>>

StoreRest ==
    /\ step = "extract" /\ bundle = "torn"
    /\ \/ bundle' = "whole" /\ (Go("manifest") \/ End) /\ UNCHANGED interrupted
       \/ interrupted' = TRUE /\ End /\ UNCHANGED bundle
    /\ UNCHANGED <<progress, Outside, disk, tmp, ranTorn>>

ReadBundleManifest ==
    /\ step = "manifest"
    /\ Go("controls") \/ Go("legacy") \/ End
    /\ UNCHANGED <<progress, Outside, Files>>

(* One control, streamed as a partial result even when it failed. *)
RunControl ==
    /\ step = "controls" /\ progress < Controls
    /\ progress' = progress + 1
    /\ Run("bundle", bundle) /\ Go("controls")
    /\ UNCHANGED <<Outside, disk, tmp, bundle, interrupted>>

ManifestScanEnds ==
    /\ step = "controls" /\ progress = Controls /\ End
    /\ UNCHANGED <<progress, Outside, Files>>

RunLegacy ==
    /\ step = "legacy" /\ End
    /\ Run("bundle", bundle)
    /\ UNCHANGED <<progress, Outside, disk, tmp, bundle, interrupted>>

(***************************************************************************)
(* The end of the process                                                  *)
(***************************************************************************)

(* In the read loop of one connection, which reads nothing else meanwhile; *)
(* directives still come over the connection after it.                     *)
OnUpgrade ==
    /\ upgrading = "no" /\ exits < MaxExits
    /\ upgrading' \in {"checked", "unchecked"}
    /\ UNCHANGED <<job, step, progress, deliveries, exits, unverified, tally, Files>>

Restart ==
    /\ exits' = exits + 1
    /\ job' = None /\ step' = "idle" /\ progress' = 0 /\ upgrading' = "no"
    /\ tally' = IF job = None \/ step = "ended" THEN tally
                ELSE [tally EXCEPT ![job].aborted = @ + 1]
    /\ interrupted' = (interrupted \/ (step = "extract" /\ bundle = "torn"))
    /\ UNCHANGED deliveries

(* Apply has replaced the binary, which it compared with the checksum if   *)
(* the directive had one: os.Exit, and the new binary starts.              *)
UpgradeDone ==
    /\ tmp["agent"] = "whole" \/ (tmp["agent"] = "torn" /\ upgrading = "unchecked")
    /\ disk' = [disk EXCEPT !["agent"] = tmp["agent"]]
    /\ unverified' = (unverified \/ upgrading = "unchecked")
    /\ tmp' = [a \in Artifacts |-> "absent"]
    /\ Run("agent", disk'["agent"]) /\ Restart
    /\ UNCHANGED bundle

(* The process is killed and started again. *)
Crash ==
    /\ exits < MaxExits /\ tmp' = [a \in Artifacts |-> "absent"]
    /\ Run("agent", disk["agent"]) /\ Restart
    /\ UNCHANGED <<disk, bundle, unverified>>

ScanGoroutine ==
    \/ ResolveCredential \/ ClearCurrent \/ FreeSemaphore
    \/ RunNaabu \/ ReconRun \/ FoundCollector \/ RunCollector
    \/ GetOrFetch \/ StoreFirst \/ StoreRest \/ ReadBundleManifest
    \/ RunControl \/ ManifestScanEnds \/ RunLegacy
    \/ \E a \in Artifacts \ {"agent"} : Download(a) \/ InstallFile(a) \/ RejectDownload(a)

ReadLoop == UpgradeDone \/ Download("agent") \/ RejectDownload("agent")

RunNext ==
    \/ \E d \in Directives : OnRunDirective(d)
    \/ ScanGoroutine \/ ReadLoop \/ OnUpgrade \/ Crash

RunSpec == RunInit /\ [][RunNext]_runVars

(***************************************************************************)
(* Properties                                                              *)
(***************************************************************************)

(* Every directive that was accepted is running, or it ended with exactly  *)
(* one last report, or the process ended under it; fallbacks from the      *)
(* collector to the bundle and failing controls add none and omit none.    *)
OneEndPerAcceptance ==
    \A d \in Directives :
        tally[d].accepted = tally[d].ended + tally[d].aborted
            + IF job = d /\ step # "ended" THEN 1 ELSE 0

(* A tool, a collector or a new agent binary runs only when it is complete,*)
(* at whatever point earlier processes were killed, unless the server asked*)
(* for an upgrade without a checksum; an incomplete bundle runs only after *)
(* an extraction that was cut short.                                       *)
FilesRunWhole ==
    /\ ranTorn \subseteq {"bundle"} \cup (IF unverified THEN {"agent"} ELSE {})
    /\ "bundle" \in ranTorn => interrupted

(* A scan that was accepted gives its semaphore back: it ends, or the      *)
(* process does.                                                           *)
SemaphoreComesBack == []<>(step = "idle")
=============================================================================
