----------------------------- MODULE Memberships -----------------------------
(***************************************************************************)
(* The people of one tenant, in the backoffice: invitations, memberships   *)
(* and who may change them.  A request runs its statements one after       *)
(* another, without a transaction; the role of its caller is the one in    *)
(* the caller's token, which lives for an hour whatever happens to the     *)
(* membership.                                                             *)
(***************************************************************************)
EXTENDS Naturals, FiniteSets

CONSTANTS
    People,        \* users, by e-mail address
    Invitations,   \* bound: invitation rows
    HttpRequests   \* bound: requests in flight

ASSUME MembershipsAssumption == People # {} /\ IsFiniteSet(People) /\ Invitations # {}

VARIABLES
    role,       \* memberships.role; "none": no row
    suspended,  \* memberships.status
    admins,     \* people who hold a token that says "admin"
    invitation, \* invitation rows
    asked,      \* every request in flight
    lapsed      \* a last admin may have gone (see AdminsLostByRaceOrOperator)
memberVars == <<role, suspended, admins, invitation, asked, lapsed>>

Roles == {"admin", "member"}
Reductions == {"remove", "suspend", "demote"}
NoInvitation == [state |-> "none", user |-> CHOOSE p \in People : TRUE, role |-> "member"]
NotAsked == [at |-> "none", op |-> "none", user |-> CHOOSE p \in People : TRUE,
             role |-> "member", row |-> CHOOSE i \in Invitations : TRUE, stale |-> FALSE]

MembershipsTypeOK ==
    /\ role \in [People -> Roles \cup {"none"}] /\ suspended \subseteq People /\ admins \subseteq People
    /\ invitation \in [Invitations -> [state : {"none", "open", "expired", "accepted", "deleted"},
                                       user : People, role : Roles]]
    /\ asked \in [HttpRequests ->
           [at : {"none", "count", "write", "join", "mark", "rotate"},
            op : Reductions \cup {"none"}, user : People, role : Roles,
            row : Invitations, stale : BOOLEAN]]
    /\ lapsed \in BOOLEAN

ActiveAdmins == {p \in People : role[p] = "admin" /\ p \notin suspended}

(* A tenant that has got its first admin. *)
MembershipsInit ==
    /\ \E p \in People : role = [q \in People |-> IF q = p THEN "admin" ELSE "none"]
    /\ suspended = {} /\ admins = {} /\ lapsed = FALSE
    /\ invitation = [i \in Invitations |-> NoInvitation]
    /\ asked = [r \in HttpRequests |-> NotAsked]

Tokens == <<admins, invitation>>
MembershipRows == <<role, suspended>>

(* What a reduction that is about to write has counted is now old. *)
Overtaken == [q \in HttpRequests |->
    IF asked[q].at = "write" THEN [asked[q] EXCEPT !.stale = TRUE] ELSE asked[q]]
Answer(r) == asked' = [asked EXCEPT ![r] = NotAsked]

(***************************************************************************)
(* The store's statements on memberships; an update without a row does     *)
(* nothing, and inserting one that exists makes it active again.           *)
(***************************************************************************)
UpsertMembership(p, as) == role' = [role EXCEPT ![p] = as] /\ suspended' = suspended \ {p}

DeleteMembership(p) == role' = [role EXCEPT ![p] = "none"] /\ suspended' = suspended \ {p}

UpdateMembershipStatus(p, active) ==
    /\ suspended' = IF active \/ role[p] = "none" THEN suspended \ {p} ELSE suspended \cup {p}
    /\ UNCHANGED role

UpdateMembershipRole(p, as) ==
    /\ role' = IF role[p] = "none" THEN role ELSE [role EXCEPT ![p] = as]
    /\ UNCHANGED suspended

(***************************************************************************)
(* Tokens and invitations                                                  *)
(***************************************************************************)

(* A token carries the role it was signed with for its hour. *)
IssueJWT(p, as) == admins' = IF as = "admin" THEN admins \cup {p} ELSE admins

(* Login signs the role an active membership has now; so does a switch of  *)
(* the organisation.                                                       *)
Login(p) ==
    /\ role[p] # "none" /\ p \notin suspended
    /\ IssueJWT(p, role[p]) /\ UNCHANGED <<MembershipRows, invitation, asked, lapsed>>

TokenExpires(p) ==
    /\ p \in admins /\ admins' = admins \ {p} /\ UNCHANGED <<MembershipRows, invitation, asked, lapsed>>

CreateInvitation(i, p, as) ==
    /\ invitation[i].state = "none"
    /\ invitation' = [invitation EXCEPT ![i] = [state |-> "open", user |-> p, role |-> as]]
    /\ UNCHANGED <<MembershipRows, admins, asked, lapsed>>

(* By somebody whose token says "admin", or by an operator. *)
CreateInvite(caller, i, p, as) == caller \in admins /\ CreateInvitation(i, p, as)
OperatorInvites(i, p, as) == CreateInvitation(i, p, as)

InviteExpires(i) ==
    /\ invitation[i].state = "open" /\ invitation' = [invitation EXCEPT ![i].state = "expired"]
    /\ UNCHANGED <<MembershipRows, admins, asked, lapsed>>

(* A resend, by either, lists the open invitations and gives one a new     *)
(* token and expiry, unless it is accepted or deleted by then.             *)
ListPendingInvitations(r, i) ==
    /\ asked[r].at = "none" /\ invitation[i].state = "open"
    /\ asked' = [asked EXCEPT ![r] = [NotAsked EXCEPT !.at = "rotate", !.row = i]]
    /\ UNCHANGED <<MembershipRows, Tokens, lapsed>>

ResendInvitation(caller, r, i) == caller \in admins /\ ListPendingInvitations(r, i)
OperatorResends(r, i) == ListPendingInvitations(r, i)

UpdateInvitationToken(r) ==
    /\ asked[r].at = "rotate" /\ Answer(r)
    /\ invitation' = [invitation EXCEPT ![asked[r].row].state = IF @ = "expired" THEN "open" ELSE @]
    /\ UNCHANGED <<MembershipRows, admins, lapsed>>

(* Only the tenant is looked at: an accepted one goes as well. *)
DeleteInvitation(i) ==
    /\ invitation[i].state \notin {"none", "deleted"}
    /\ invitation' = [invitation EXCEPT ![i].state = "deleted"]
    /\ UNCHANGED <<MembershipRows, admins, asked, lapsed>>

CancelInvitation(caller, i) == caller \in admins /\ DeleteInvitation(i)
OperatorRevokes(i) == DeleteInvitation(i)

(* AcceptInvite: the invitation is looked up by its token, ... *)
GetInvitation(r, i) ==
    /\ asked[r].at = "none" /\ invitation[i].state = "open"
    /\ asked' = [asked EXCEPT ![r] = [NotAsked EXCEPT !.at = "join", !.row = i,
                                        !.user = invitation[i].user, !.role = invitation[i].role]]
    /\ UNCHANGED <<MembershipRows, Tokens, lapsed>>

(* ... the user found or created and the memberships counted: a wrong      *)
(* password, a user row made or deleted by somebody else meanwhile, or the *)
(* cap end it there, ...                                                   *)
Refuse(r) ==
    /\ asked[r].at = "join" /\ Answer(r) /\ UNCHANGED <<MembershipRows, Tokens, lapsed>>

(* ... the membership inserted, or set to the invitation's role and active *)
(* again, ...                                                              *)
CreateMembership(r) ==
    /\ asked[r].at = "join"
    /\ LET p == asked[r].user
       IN /\ UpsertMembership(p, asked[r].role)
          /\ lapsed' = (lapsed \/ (p \in ActiveAdmins /\ asked[r].role = "member"))
    /\ asked' = [Overtaken EXCEPT ![r].at = "mark"] /\ UNCHANGED Tokens

(* ... and the invitation marked, if that works, and a token issued with   *)
(* the invitation's role.                                                  *)
MarkInvitationAccepted(r) ==
    /\ asked[r].at = "mark" /\ Answer(r)
    /\ invitation' \in {invitation, [invitation EXCEPT ![asked[r].row].state =
                                        IF @ = "deleted" THEN @ ELSE "accepted"]}
    /\ IssueJWT(asked[r].user, asked[r].role)
    /\ UNCHANGED <<MembershipRows, lapsed>>

(* RemoveMember, UpdateMemberStatus to suspended, UpdateMemberRole to      *)
(* member.  An admin may demote himself and not more.  When the membership *)
(* cannot be read, the first two go on without the check.                  *)
GetMembership(r, caller, op, p) ==
    /\ asked[r].at = "none" /\ caller \in admins /\ op \in Reductions
    /\ op = "demote" \/ caller # p
    /\ LET At(step) == asked' = [asked EXCEPT ![r] = [NotAsked EXCEPT !.at = step, !.op = op, !.user = p]]
       IN \/ p \in ActiveAdmins /\ At("count") /\ UNCHANGED lapsed
          \/ p \notin ActiveAdmins /\ role[p] # "none" /\ At("write") /\ UNCHANGED lapsed
          \/ op # "demote" /\ At("write") /\ lapsed' = (lapsed \/ p \in ActiveAdmins)
    /\ UNCHANGED <<MembershipRows, Tokens>>

(* A plausible bug: suspended admins count. *)
CountEveryAdmin(r) ==
    /\ asked[r].at = "count"
    /\ IF Cardinality({p \in People : role[p] = "admin"}) <= 1
       THEN Answer(r) ELSE asked' = [asked EXCEPT ![r].at = "write"]
    /\ UNCHANGED <<MembershipRows, Tokens, lapsed>>

(* The last active admin stays.  A count that fails is 0, except that a    *)
(* demotion then goes on.                                                  *)
CountActiveAdmins(r) ==
    /\ asked[r].at = "count"
    /\ \/ /\ Cardinality(ActiveAdmins) <= 1 /\ Answer(r) /\ UNCHANGED lapsed
       \/ /\ Cardinality(ActiveAdmins) > 1 /\ UNCHANGED lapsed
          /\ asked' = [asked EXCEPT ![r].at = "write", ![r].stale = FALSE]
       \/ asked[r].op # "demote" /\ Answer(r) /\ UNCHANGED lapsed
       \/ /\ asked[r].op = "demote" /\ lapsed' = TRUE
          /\ asked' = [asked EXCEPT ![r].at = "write"]
    /\ UNCHANGED <<MembershipRows, Tokens>>

Reduce(r) ==
    /\ asked[r].at = "write"
    /\ LET p == asked[r].user
       IN \/ asked[r].op = "remove" /\ DeleteMembership(p)
          \/ asked[r].op = "suspend" /\ UpdateMembershipStatus(p, FALSE)
          \/ asked[r].op = "demote" /\ UpdateMembershipRole(p, "member")
    /\ lapsed' = (lapsed \/ (asked[r].stale /\ asked[r].user \in ActiveAdmins))
    /\ asked' = [Overtaken EXCEPT ![r] = NotAsked]
    /\ UNCHANGED Tokens

(* The opposite needs no check. *)
Raise(caller, p) ==
    /\ caller \in admins /\ role[p] # "none"
    /\ UpdateMembershipRole(p, "admin") \/ (caller # p /\ UpdateMembershipStatus(p, TRUE))
    /\ asked' = Overtaken /\ UNCHANGED <<Tokens, lapsed>>

(* Operators have no last admin to protect: a membership suspended or      *)
(* restored, or deleted, alone or with its user.                           *)
Overrule(p) ==
    /\ lapsed' = (lapsed \/ (p \in ActiveAdmins /\ p \notin ActiveAdmins'))
    /\ asked' = Overtaken /\ UNCHANGED Tokens

OperatorSetsStatus(p) ==
    /\ role[p] # "none" /\ \E active \in BOOLEAN : UpdateMembershipStatus(p, active)
    /\ Overrule(p)

OperatorDeletes(p) == role[p] # "none" /\ DeleteMembership(p) /\ Overrule(p)

MembershipsNext ==
    /\ ~lapsed   \* bound: nothing is followed any further
    /\ \/ \E p \in People : Login(p) \/ TokenExpires(p) \/ OperatorSetsStatus(p) \/ OperatorDeletes(p)
       \/ \E i \in Invitations :
            \/ InviteExpires(i) \/ OperatorRevokes(i)
            \/ \E caller \in People : CancelInvitation(caller, i)
            \/ \E p \in People, as \in Roles :
                 OperatorInvites(i, p, as) \/ \E caller \in People : CreateInvite(caller, i, p, as)
       \/ \E r \in HttpRequests :
            \/ \E i \in Invitations :
                 \/ GetInvitation(r, i) \/ OperatorResends(r, i)
                 \/ \E caller \in People : ResendInvitation(caller, r, i)
            \/ UpdateInvitationToken(r)
            \/ Refuse(r) \/ CreateMembership(r) \/ MarkInvitationAccepted(r)
            \/ \E caller \in People, op \in Reductions, p \in People : GetMembership(r, caller, op, p)
            \/ CountActiveAdmins(r) \/ Reduce(r)
       \/ \E caller \in People, p \in People : Raise(caller, p)

MembershipsSpec == MembershipsInit /\ [][MembershipsNext]_memberVars

-----------------------------------------------------------------------------

(* CountActiveAdmins is there "to prevent removing/suspending/demoting the *)
(* last admin and locking the tenant out".  A tenant is left without one   *)
(* only by an operator, a statement that failed, an admin who accepts an   *)
(* invitation as a member, or a request that another's write overtook after *)
(* it had counted: never by requests one after another, however old the    *)
(* tokens they come with.                                                  *)
AdminsLostByRaceOrOperator == ActiveAdmins # {} \/ lapsed
=============================================================================
