----------------------------- MODULE RuleVersions -----------------------------
(***************************************************************************)
(* The versions of one correlation rule.  An update disables the versions  *)
(* there are and inserts another, in one READ COMMITTED transaction: every *)
(* statement sees what was committed when it started, and an UPDATE waits  *)
(* for the transaction that holds its rows.                                *)
(***************************************************************************)
EXTENDS Naturals, FiniteSets, Sequences

CONSTANTS
    Editors,       \* requests in flight
    MaxVersions    \* bound: rows

ASSUME RuleVersionsAssumption == MaxVersions \in Nat \ {0}

VARIABLES
    live,      \* the enabled column of every version, in order
    editor,    \* each request: where it is, MAX(version) and what it inserts
    visible    \* rows visible to its UPDATE
ruleVars == <<live, editor, visible>>

NotEditing == [at |-> "idle", max |-> 0, enabled |-> FALSE]

RuleVersionsTypeOK ==
    /\ live \in Seq(BOOLEAN) /\ Len(live) <= MaxVersions
    /\ editor \in [Editors -> [at : {"idle", "validated", "counted", "disabling", "deleting", "locked"},
                               max : 0 .. MaxVersions, enabled : BOOLEAN]]
    /\ visible \in [Editors -> 0 .. MaxVersions]

RuleVersionsInit ==
    /\ live = <<TRUE>> /\ editor = [e \in Editors |-> NotEditing]
    /\ visible = [e \in Editors |-> 0]

Editing(e, at) == editor[e].at = at
To(e, at) == editor' = [editor EXCEPT ![e].at = at]
Unlocked == \A e \in Editors : ~Editing(e, "locked")

(* Update reads the version its client names, an old one maybe, and keeps  *)
(* its "enabled" when the request has none.                                *)
GetCorrelationRule(e, v) ==
    /\ Editing(e, "idle")
    /\ \E enabled \in {live[v], TRUE, FALSE} :
         editor' = [editor EXCEPT ![e].at = "validated", ![e].enabled = enabled]
    /\ UNCHANGED <<live, visible>>

SelectMaxVersion(e) ==
    /\ Editing(e, "validated")
    /\ editor' = [editor EXCEPT ![e].at = "counted", ![e].max = Len(live)]
    /\ UNCHANGED <<live, visible>>

(* The UPDATE of an update, and that of a soft delete, start ... *)
StartDisabling(e) ==
    /\ Editing(e, "counted") /\ To(e, "disabling")
    /\ visible' = [visible EXCEPT ![e] = Len(live)] /\ UNCHANGED live

StartDelete(e) ==
    /\ Editing(e, "idle") /\ To(e, "deleting")
    /\ visible' = [visible EXCEPT ![e] = Len(live)]
    /\ UNCHANGED live

(* ... and get the rows they saw once nobody else holds them. *)
LockVersions(e) ==
    /\ Editing(e, "disabling") /\ Unlocked /\ To(e, "locked")
    /\ UNCHANGED <<live, visible>>

Disabled(e) == [v \in DOMAIN live |-> IF v <= visible[e] THEN FALSE ELSE live[v]]
Ends(e) ==
    /\ editor' = [editor EXCEPT ![e] = NotEditing]
    /\ visible' = [visible EXCEPT ![e] = 0]

DeleteCorrelationRule(e) ==
    /\ Editing(e, "deleting") /\ Unlocked /\ live' = Disabled(e) /\ Ends(e)

(* A plausible bug: nothing stops a second row of the same version. *)
CommitAlways(e) ==
    /\ Editing(e, "locked") /\ Len(live) < MaxVersions
    /\ live' = Append(Disabled(e), editor[e].enabled) /\ Ends(e)

(* UNIQUE (tenant_id, name, version). *)
CommitVersion(e) ==
    /\ Editing(e, "locked") /\ editor[e].max = Len(live) /\ Len(live) < MaxVersions
    /\ live' = Append(Disabled(e), editor[e].enabled) /\ Ends(e)

VersionTaken(e) ==
    /\ Editing(e, "locked") /\ editor[e].max < Len(live) /\ UNCHANGED live /\ Ends(e)

RuleVersionsNext ==
    \E e \in Editors :
        \/ \E v \in DOMAIN live : GetCorrelationRule(e, v)
        \/ SelectMaxVersion(e) \/ StartDisabling(e) \/ LockVersions(e)
        \/ CommitVersion(e) \/ VersionTaken(e)
        \/ StartDelete(e) \/ DeleteCorrelationRule(e)

RuleVersionsSpec == RuleVersionsInit /\ [][RuleVersionsNext]_ruleVars

-----------------------------------------------------------------------------

(* A rule fires once for a discovered endpoint: whatever updates and       *)
(* deletes overlap, at most one version is enabled, and it is the last.    *)
LastVersionLive == \A v \in DOMAIN live : live[v] => v = Len(live)
=============================================================================
