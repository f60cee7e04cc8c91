------------------------------- MODULE MCServer -------------------------------
(***************************************************************************)
(* The API's parts for TLC.  They share no state, so a behaviour exercises *)
(* one of them, its area, and leaves the others in their initial states.   *)
(***************************************************************************)
EXTENDS AllowlistScope, EventBus, AuditWriter, RoundTrip, Credentials, AgentKeys,
        Ingest, ScanDefinitions, Predicate, RuleVersions,
        RuleActions, Memberships, TenantProvisioning, TLC

CONSTANTS s1, s2, k1, k2, p1

MCAddr == 0 .. 5
Net(kind, lo, hi) == [kind |-> kind, lo |-> lo, hi |-> hi]
MCAllowEntries ==
    {Net("cidr", 0, 3), Net("cidr", 1, 1), Net("cidr", 4, 5), Net("ip", 1, 1),
     Net("range", 1, 4), Net("range", 3, 2), Net("host", 0, 0)}

MCBlockSizes == {2 ^ k : k \in 0 .. 5}

MCStreams == {s1, s2}
MCEventKinds == {k1, k2}
MCToken == (s1 :> {k1}) @@ (s2 :> {})

MCSourceType == ("s1" :> "static") @@ ("v1" :> "hashicorp_vault")
MCCronTimes == {{1, 2}, {1, 3}}

MCChannelType == ("web" :> "webhook") @@ ("mail" :> "email")

VARIABLE area

vars == <<area, allowlistVars, busVars, auditVars, tripVars, credVars,
          keyVars, ingestVars, defVars, predicateVars, ruleVars, actionVars,
          memberVars, provisioningVars>>

Areas == {"allowlist", "events", "audit", "asking", "credentials",
          "keys", "ingest", "definitions", "predicate", "rules", "actions",
          "members", "tenants"}

Init ==
    /\ area \in Areas
    /\ AllowlistInit /\ EventBusInit /\ AuditInit /\ RoundTripInit
    /\ CredentialsInit /\ AgentKeysInit /\ IngestInit
    /\ ScanDefinitionsInit /\ PredicateInit /\ RuleVersionsInit /\ RuleActionsInit
    /\ MembershipsInit /\ ProvisioningInit
    /\ area = "allowlist" \/ allowFile = NoFile
    /\ area = "predicate" \/ tree = <<Terms({})>>
    /\ area = "actions" \/ fired = [i \in Actions |-> Nothing]
    /\ area = "members" \/ role = [p \in People |-> IF p = p1 THEN "admin" ELSE "none"]

(* A step of one area leaves the variables of the others as they are. *)
OnlyAllowlist ==
    /\ area = "allowlist"
    /\ UNCHANGED <<area, busVars, auditVars, tripVars, credVars, keyVars, ingestVars,
                   defVars, predicateVars, ruleVars, actionVars, memberVars, provisioningVars>>
OnlyEventBus ==
    /\ area = "events"
    /\ UNCHANGED <<area, allowlistVars, auditVars, tripVars, credVars, keyVars, ingestVars,
                   defVars, predicateVars, ruleVars, actionVars, memberVars, provisioningVars>>
OnlyAudit ==
    /\ area = "audit"
    /\ UNCHANGED <<area, allowlistVars, busVars, tripVars, credVars, keyVars, ingestVars,
                   defVars, predicateVars, ruleVars, actionVars, memberVars, provisioningVars>>
OnlyRoundTrip ==
    /\ area = "asking"
    /\ UNCHANGED <<area, allowlistVars, busVars, auditVars, credVars, keyVars, ingestVars,
                   defVars, predicateVars, ruleVars, actionVars, memberVars, provisioningVars>>
OnlyCredentials ==
    /\ area = "credentials"
    /\ UNCHANGED <<area, allowlistVars, busVars, auditVars, tripVars, keyVars, ingestVars,
                   defVars, predicateVars, ruleVars, actionVars, memberVars, provisioningVars>>
OnlyAgentKeys ==
    /\ area = "keys"
    /\ UNCHANGED <<area, allowlistVars, busVars, auditVars, tripVars, credVars, ingestVars,
                   defVars, predicateVars, ruleVars, actionVars, memberVars, provisioningVars>>
OnlyIngest ==
    /\ area = "ingest"
    /\ UNCHANGED <<area, allowlistVars, busVars, auditVars, tripVars, credVars, keyVars,
                   defVars, predicateVars, ruleVars, actionVars, memberVars, provisioningVars>>
OnlyScanDefinitions ==
    /\ area = "definitions"
    /\ UNCHANGED <<area, allowlistVars, busVars, auditVars, tripVars, credVars, keyVars,
                   ingestVars, predicateVars, ruleVars, actionVars, memberVars, provisioningVars>>
OnlyPredicate ==
    /\ area = "predicate"
    /\ UNCHANGED <<area, allowlistVars, busVars, auditVars, tripVars, credVars, keyVars,
                   ingestVars, defVars, ruleVars, actionVars, memberVars, provisioningVars>>
OnlyRuleVersions ==
    /\ area = "rules"
    /\ UNCHANGED <<area, allowlistVars, busVars, auditVars, tripVars, credVars, keyVars,
                   ingestVars, defVars, predicateVars, actionVars, memberVars, provisioningVars>>
OnlyRuleActions ==
    /\ area = "actions"
    /\ UNCHANGED <<area, allowlistVars, busVars, auditVars, tripVars, credVars, keyVars,
                   ingestVars, defVars, predicateVars, ruleVars, memberVars, provisioningVars>>
OnlyMemberships ==
    /\ area = "members"
    /\ UNCHANGED <<area, allowlistVars, busVars, auditVars, tripVars, credVars, keyVars,
                   ingestVars, defVars, predicateVars, ruleVars, actionVars, provisioningVars>>
OnlyProvisioning ==
    /\ area = "tenants"
    /\ UNCHANGED <<area, allowlistVars, busVars, auditVars, tripVars, credVars, keyVars,
                   ingestVars, defVars, predicateVars, ruleVars, actionVars, memberVars>>

Next ==
    \/ OnlyAllowlist /\ AllowlistNext
    \/ OnlyEventBus /\ EventBusNext
    \/ OnlyAudit /\ AuditNext
    \/ OnlyRoundTrip /\ RoundTripNext
    \/ OnlyCredentials /\ CredentialsNext
    \/ OnlyAgentKeys /\ AgentKeysNext
    \/ OnlyIngest /\ IngestNext
    \/ OnlyScanDefinitions /\ ScanDefinitionsNext
    \/ OnlyPredicate /\ PredicateNext
    \/ OnlyRuleVersions /\ RuleVersionsNext
    \/ OnlyRuleActions /\ RuleActionsNext
    \/ OnlyMemberships /\ MembershipsNext
    \/ OnlyProvisioning /\ ProvisioningNext

Spec == Init /\ [][Next]_vars

(* Every part's state is well-typed in every reachable state. *)
TypeOK ==
    /\ AllowlistTypeOK /\ EventBusTypeOK /\ AuditTypeOK
    /\ RoundTripTypeOK /\ CredentialsTypeOK /\ AgentKeysTypeOK
    /\ IngestTypeOK /\ ScanDefinitionsTypeOK /\ PredicateTypeOK
    /\ RuleVersionsTypeOK /\ RuleActionsTypeOK /\ MembershipsTypeOK /\ ProvisioningTypeOK
===============================================================================
