-------------------------- MODULE TenantProvisioning --------------------------
(***************************************************************************)
(* One tenant's row in the backoffice and the tenants it has had created   *)
(* in its data center, by a remote call without an idempotency key.        *)
(***************************************************************************)
EXTENDS Naturals, FiniteSets

CONSTANTS
    Operations,     \* bound: requests in flight
    MaxDcTenants,   \* bound: tenants created in the data center
    MaxMishaps,     \* bound: failed statements, failed or unanswered calls
    MaxOverlaps     \* bound: requests that begin while another is in flight

ASSUME ProvisioningAssumption ==
    MaxDcTenants \in Nat /\ MaxMishaps \in Nat /\ MaxOverlaps \in Nat

VARIABLES
    tenantRow,   \* provisioning_status, dc_tenant_id (0: NULL) and status
    dcTenants,   \* tenants.status in the data center, by id
    operation,   \* requests in flight, and what each read or was told
    late,        \* creations sent whose caller has given up
    mishapped,   \* failures so far
    overlaps     \* requests that began while another was in flight
provisioningVars == <<tenantRow, dcTenants, operation, late, mishapped, overlaps>>

Ids == 1 .. MaxDcTenants
Statuses == {"active", "suspended"}
NotOperating == [at |-> "none", by |-> "create", id |-> 0, status |-> "active"]

ProvisioningTypeOK ==
    /\ tenantRow \in [state : {"none", "pending", "failed", "provisioned", "deleted"},
                      id : {0} \cup Ids, status : Statuses]
    /\ dcTenants \in [Ids -> Statuses \cup {"none", "inactive"}]
    /\ operation \in [Operations -> [at : {"none", "call", "update", "fail", "sync", "set", "drop", "delete"},
                                     by : {"create", "retry"}, id : {0} \cup Ids, status : Statuses]]
    /\ late \in 0 .. MaxMishaps /\ mishapped \in 0 .. MaxMishaps /\ overlaps \in 0 .. MaxOverlaps

ProvisioningInit ==
    /\ tenantRow = [state |-> "none", id |-> 0, status |-> "active"]
    /\ dcTenants = [d \in Ids |-> "none"]
    /\ operation = [o \in Operations |-> NotOperating]
    /\ late = 0 /\ mishapped = 0 /\ overlaps = 0

RowExists == tenantRow.state \notin {"none", "deleted"}
GoesWrong == mishapped < MaxMishaps /\ mishapped' = mishapped + 1
Begin(o, request) ==
    /\ operation[o].at = "none" /\ operation' = [operation EXCEPT ![o] = request]
    /\ IF \A q \in Operations : operation[q].at = "none" THEN UNCHANGED overlaps
       ELSE overlaps < MaxOverlaps /\ overlaps' = overlaps + 1
GoTo(o, at) == operation' = [operation EXCEPT ![o].at = at]
Over(o) == operation' = [operation EXCEPT ![o] = NotOperating]
Fresh(d) == dcTenants[d] = "none" /\ \A e \in 1 .. d - 1 : dcTenants[e] # "none"

(* Create inserts the row and calls the data center; Retry does for a row  *)
(* that says "failed".                                                     *)
Create(o) ==
    /\ tenantRow.state = "none" /\ tenantRow' = [tenantRow EXCEPT !.state = "pending"]
    /\ Begin(o, [NotOperating EXCEPT !.at = "call"]) /\ UNCHANGED <<dcTenants, late, mishapped>>

(* A plausible bug: a retry of whatever is not being created. *)
RetryAnything(o) ==
    /\ RowExists /\ tenantRow.state # "pending"
    /\ Begin(o, [NotOperating EXCEPT !.at = "call", !.by = "retry"])
    /\ UNCHANGED <<tenantRow, dcTenants, late, mishapped>>

Retry(o) ==
    /\ tenantRow.state = "failed"
    /\ Begin(o, [NotOperating EXCEPT !.at = "call", !.by = "retry"])
    /\ UNCHANGED <<tenantRow, dcTenants, late, mishapped>>

(* The call: executed and answered, refused, or given up after fifteen     *)
(* seconds, executed then or later or never.                               *)
DcCreateTenant(o, d) ==
    /\ operation[o].at = "call" /\ Fresh(d) /\ dcTenants' = [dcTenants EXCEPT ![d] = "active"]
    /\ \/ /\ operation' = [operation EXCEPT ![o].at = "update", ![o].id = d] /\ UNCHANGED mishapped
       \/ GoTo(o, "fail") /\ GoesWrong
    /\ UNCHANGED <<tenantRow, late, overlaps>>

CallFails(o) ==
    /\ operation[o].at = "call" /\ GoTo(o, "fail") /\ GoesWrong
    /\ late' \in {late, late + 1} /\ UNCHANGED <<tenantRow, dcTenants, overlaps>>

ExecutedLate(d) ==
    /\ late > 0 /\ late' = late - 1 /\ Fresh(d) /\ dcTenants' = [dcTenants EXCEPT ![d] = "active"]
    /\ UNCHANGED <<tenantRow, operation, mishapped, overlaps>>

(* UpdateTenantProvisioning, by id: nothing when the row is gone.  Its     *)
(* failure is logged; a retry whose call failed writes nothing.            *)
Provisioned(o) ==
    /\ operation[o].at = "update"
    /\ \/ /\ tenantRow' = IF RowExists THEN [tenantRow EXCEPT !.state = "provisioned", !.id = operation[o].id]
                          ELSE tenantRow
          /\ UNCHANGED mishapped
       \/ UNCHANGED tenantRow /\ GoesWrong
    /\ Over(o) /\ UNCHANGED <<dcTenants, late, overlaps>>

ProvisioningFailed(o) ==
    /\ operation[o].at = "fail"
    /\ \/ /\ tenantRow' = IF RowExists /\ operation[o].by = "create"
                          THEN [tenantRow EXCEPT !.state = "failed", !.id = 0] ELSE tenantRow
          /\ UNCHANGED mishapped
       \/ UNCHANGED tenantRow /\ operation[o].by = "create" /\ GoesWrong
    /\ Over(o) /\ UNCHANGED <<dcTenants, late, overlaps>>

(* UpdateStatus: the data center first, if the row names a tenant there; a *)
(* failure ends it, before the call has had its effect or after.           *)
UpdateStatus(o, s) ==
    /\ RowExists
    /\ Begin(o, [NotOperating EXCEPT !.at = IF tenantRow.id = 0 THEN "set" ELSE "sync",
                                     !.id = tenantRow.id, !.status = s])
    /\ UNCHANGED <<tenantRow, dcTenants, late, mishapped>>

DcUpdateTenant(o) ==
    /\ operation[o].at = "sync"
    /\ \/ /\ dcTenants' = [dcTenants EXCEPT ![operation[o].id] = operation[o].status]
          /\ \/ GoTo(o, "set") /\ UNCHANGED mishapped
             \/ Over(o) /\ GoesWrong
       \/ Over(o) /\ GoesWrong /\ UNCHANGED dcTenants
    /\ UNCHANGED <<tenantRow, late, overlaps>>

UpdateTenantStatus(o) ==
    /\ operation[o].at = "set" /\ Over(o)
    /\ \/ /\ tenantRow' = IF RowExists THEN [tenantRow EXCEPT !.status = operation[o].status] ELSE tenantRow
          /\ UNCHANGED mishapped
       \/ UNCHANGED tenantRow /\ GoesWrong
    /\ UNCHANGED <<dcTenants, late, overlaps>>

(* Delete deactivates the tenant in the data center, if that works, and    *)
(* deletes the row in any case.                                            *)
Delete(o) ==
    /\ RowExists
    /\ Begin(o, [NotOperating EXCEPT !.at = IF tenantRow.id = 0 THEN "delete" ELSE "drop", !.id = tenantRow.id])
    /\ UNCHANGED <<tenantRow, dcTenants, late, mishapped>>

DcDeleteTenant(o) ==
    /\ operation[o].at = "drop" /\ GoTo(o, "delete")
    /\ \/ dcTenants' = [dcTenants EXCEPT ![operation[o].id] = "inactive"] /\ UNCHANGED mishapped
       \/ UNCHANGED dcTenants /\ GoesWrong
    /\ UNCHANGED <<tenantRow, late, overlaps>>

DeleteTenant(o) ==
    /\ operation[o].at = "delete" /\ Over(o)
    /\ \/ /\ tenantRow' = IF RowExists THEN [tenantRow EXCEPT !.state = "deleted", !.id = 0] ELSE tenantRow
          /\ UNCHANGED mishapped
       \/ UNCHANGED tenantRow /\ GoesWrong
    /\ UNCHANGED <<dcTenants, late, overlaps>>

ProvisioningNext ==
    \/ \E o \in Operations :
         \/ Create(o) \/ Retry(o) \/ \E d \in Ids : DcCreateTenant(o, d)
         \/ CallFails(o) \/ Provisioned(o) \/ ProvisioningFailed(o)
         \/ \E s \in Statuses : UpdateStatus(o, s)
         \/ DcUpdateTenant(o) \/ UpdateTenantStatus(o)
         \/ Delete(o) \/ DcDeleteTenant(o) \/ DeleteTenant(o)
    \/ \E d \in Ids : ExecutedLate(d)

ProvisioningSpec == ProvisioningInit /\ [][ProvisioningNext]_provisioningVars

-----------------------------------------------------------------------------

(* In the data center a tenant lives on that the backoffice does not know. *)
Unclaimed(d) ==
    /\ dcTenants[d] \in Statuses /\ d # tenantRow.id
    /\ \A o \in Operations : ~(operation[o].at \in {"update", "drop"} /\ operation[o].id = d)

(* The two-phase provisioning leaves tenants behind in the data center, and *)
(* nothing looks for them; but each has cost a failed step or two requests *)
(* at a time.                                                              *)
StrandedTenantsAccounted == Cardinality({d \in Ids : Unclaimed(d)}) <= mishapped + overlaps
=============================================================================
