--------------------------- MODULE AccountProofs ----------------------------
(***************************************************************************)
(* Proofs about what outlives a connection: the keys and tokens of agents, *)
(* the people of a tenant, the tenant itself in two databases and its      *)
(* credentials.                                                            *)
(***************************************************************************)
EXTENDS AgentKeys, Memberships, TenantProvisioning, Credentials, FiniteSetTheorems, TLAPS

-----------------------------------------------------------------------------
(* Tokens, keys and first discoveries, for any number of tokens, agents,   *)
(* hosts and reports (AgentKeys).                                          *)

(* The hosts that are about to create an agent with a token. *)
Consumers(t) == {h \in Hosts : boot[h] = "consumed" /\ bootToken[h] = t}

KeyTypes ==
    /\ tokenState \in [InstallTokens -> {"valid", "used", "expired"}]
    /\ born \in [InstallTokens -> SUBSET AgentRows]
    /\ row \in [AgentRows -> {"none", "live", "deleted"}]
    /\ boot \in [Hosts -> {"out", "asking", "consumed"}] /\ bootToken \in [Hosts -> InstallTokens]
    /\ claims \in [AgentRows -> Nat] /\ definitions \in [AgentRows -> Nat]

(* A token creates nothing before it is used, and the one host that used   *)
(* it creates one agent.                                                   *)
TokensOnce ==
    \A t \in InstallTokens :
        /\ tokenState[t] # "used" => Consumers(t) = {} /\ born[t] = {}
        /\ Consumers(t) # {} => born[t] = {}
        /\ \A g, h \in Consumers(t) : g = h
        /\ \A a, b \in born[t] : a = b

(* The flag, the claim and the definition are one and the same thing, and  *)
(* only an agent that exists has it.                                       *)
FlagOnce ==
    \A a \in AgentRows :
        /\ definitions[a] + claims[a] <= 1
        /\ a \in pending \/ row[a] = "none" => definitions[a] = 0 /\ claims[a] = 0
        /\ a \in pending => row[a] # "none"

KeysInv == KeyTypes /\ TokensOnce /\ FlagOnce

LEMMA InitKeysInv == AgentKeysInit => KeysInv
<1> SUFFICES ASSUME AgentKeysInit PROVE KeysInv
  OBVIOUS
<1>1. KeyTypes
  BY DEF AgentKeysInit, KeyTypes
<1>2. TokensOnce
  BY DEF AgentKeysInit, TokensOnce, Consumers
<1>3. FlagOnce
  BY DEF AgentKeysInit, FlagOnce
<1> QED
  BY <1>1, <1>2, <1>3 DEF KeysInv

(* Steps of the bootstrap that create nothing. *)
LEMMA BootKeysInv ==
    ASSUME KeysInv, NEW h \in Hosts,
           EnsureCreds(h) \/ ConsumeInstallToken(h) \/ BootstrapFails(h)
    PROVE  KeysInv'
<1> DEFINE t == bootToken[h]
<1>1. KeyTypes /\ TokensOnce /\ FlagOnce /\ t \in InstallTokens
  BY DEF KeysInv, KeyTypes
<1>2. UNCHANGED <<born, row, bootToken, pending, claims, definitions>>
  BY DEF EnsureCreds, ConsumeInstallToken, BootstrapFails, Discovery
<1>3. FlagOnce'
  BY <1>1, <1>2 DEF FlagOnce
<1>4. CASE /\ tokenState' = tokenState
           /\ \/ boot' = boot
              \/ \E at \in {"out", "asking"} : boot' = [boot EXCEPT ![h] = at]
  <2>1. KeyTypes'
    BY <1>1, <1>2, <1>4 DEF KeyTypes
  <2>2. \A u \in InstallTokens : Consumers(u)' \subseteq Consumers(u)
    BY <1>1, <1>2, <1>4 DEF Consumers, KeyTypes
  <2>3. TokensOnce'
    BY <1>1, <1>2, <1>4, <2>2 DEF TokensOnce
  <2> QED
    BY <1>3, <2>1, <2>3 DEF KeysInv
<1>5. CASE /\ tokenState[t] = "valid" /\ tokenState' = [tokenState EXCEPT ![t] = "used"]
           /\ boot' = [boot EXCEPT ![h] = "consumed"]
  <2>1. KeyTypes'
    BY <1>1, <1>2, <1>5 DEF KeyTypes
  <2>2. Consumers(t) = {} /\ born[t] = {}
    BY <1>1, <1>5 DEF TokensOnce
  <2>3. Consumers(t)' = {h}
    BY <1>1, <1>2, <1>5, <2>2 DEF Consumers, KeyTypes
  <2>4. ASSUME NEW u \in InstallTokens, u # t
        PROVE  Consumers(u)' = Consumers(u) /\ tokenState'[u] = tokenState[u]
    BY <1>1, <1>2, <1>5, <2>4 DEF Consumers, KeyTypes
  <2>5. tokenState'[t] = "used"
    BY <1>1, <1>5 DEF KeyTypes
  <2>6. ASSUME NEW u \in InstallTokens
        PROVE  /\ tokenState'[u] # "used" => Consumers(u)' = {} /\ born'[u] = {}
               /\ Consumers(u)' # {} => born'[u] = {}
               /\ \A g, k \in Consumers(u)' : g = k
               /\ \A a, b \in born'[u] : a = b
    <3>1. CASE u = t
      BY <1>2, <2>2, <2>3, <2>5, <3>1
    <3>2. CASE u # t
      BY <1>1, <1>2, <2>4, <3>2 DEF TokensOnce
    <3> QED
      BY <3>1, <3>2
  <2>7. TokensOnce'
    BY <2>6 DEF TokensOnce
  <2> QED
    BY <1>3, <2>1, <2>7 DEF KeysInv
<1> QED
  BY <1>4, <1>5 DEF EnsureCreds, ConsumeInstallToken, BootstrapFails

LEMMA CreateKeysInv ==
    ASSUME KeysInv, NEW h \in Hosts, NEW a \in AgentRows, CreateAgent(h, a)
    PROVE  KeysInv'
<1> DEFINE t == bootToken[h]
<1>1. KeyTypes /\ TokensOnce /\ FlagOnce /\ t \in InstallTokens
  BY DEF KeysInv, KeyTypes
<1>2. /\ boot[h] = "consumed" /\ boot' = [boot EXCEPT ![h] = "out"]
      /\ row[a] = "none" /\ row' = [row EXCEPT ![a] = "live"]
      /\ born' = [born EXCEPT ![t] = @ \cup {a}]
      /\ pending' \in {pending, pending \cup {a}}
      /\ UNCHANGED <<tokenState, bootToken, claims, definitions>>
  BY DEF CreateAgent
<1>3. KeyTypes'
  BY <1>1, <1>2 DEF KeyTypes
<1>4. h \in Consumers(t)
  BY <1>2 DEF Consumers
<1>5. Consumers(t) = {h} /\ born[t] = {} /\ tokenState[t] = "used"
  BY <1>1, <1>4 DEF TokensOnce
<1>6. Consumers(t)' = {} /\ born'[t] = {a}
  BY <1>1, <1>2, <1>5 DEF Consumers, KeyTypes
<1>7. ASSUME NEW u \in InstallTokens, u # t
      PROVE  Consumers(u)' = Consumers(u) /\ born'[u] = born[u]
  BY <1>1, <1>2, <1>7 DEF Consumers, KeyTypes
<1>8. ASSUME NEW u \in InstallTokens
      PROVE  /\ tokenState'[u] # "used" => Consumers(u)' = {} /\ born'[u] = {}
             /\ Consumers(u)' # {} => born'[u] = {}
             /\ \A g, k \in Consumers(u)' : g = k
             /\ \A b, c \in born'[u] : b = c
  <2>1. CASE u = t
    BY <1>2, <1>5, <1>6, <2>1
  <2>2. CASE u # t
    BY <1>1, <1>2, <1>7, <2>2 DEF TokensOnce
  <2> QED
    BY <2>1, <2>2
<1>9. TokensOnce'
  BY <1>8 DEF TokensOnce
<1>10. FlagOnce'
  BY <1>1, <1>2 DEF FlagOnce, KeyTypes
<1> QED
  BY <1>3, <1>9, <1>10 DEF KeysInv

(* Steps after the bootstrap leave the tokens, but for their expiry. *)
LEMMA TokensStay ==
    ASSUME KeyTypes, TokensOnce,
           UNCHANGED <<born, boot, bootToken>>,
           UNCHANGED tokenState \/ \E t \in InstallTokens : ExpireToken(t)
    PROVE  TokensOnce' /\ tokenState' \in [InstallTokens -> {"valid", "used", "expired"}]
<1>1. \A t \in InstallTokens : Consumers(t)' = Consumers(t)
  BY DEF Consumers
<1>2. CASE UNCHANGED tokenState
  BY <1>1, <1>2 DEF KeyTypes, TokensOnce
<1>3. ASSUME NEW t \in InstallTokens, ExpireToken(t)
      PROVE  /\ tokenState' \in [InstallTokens -> {"valid", "used", "expired"}]
             /\ \A u \in InstallTokens : tokenState'[u] # "used" => tokenState[u] # "used"
  BY <1>3 DEF ExpireToken, KeyTypes
<1> QED
  BY <1>1, <1>2, <1>3 DEF TokensOnce

LEMMA RunningKeysInv ==
    ASSUME KeysInv,
           \/ \E t \in InstallTokens : ExpireToken(t)
           \/ \E h \in Hosts : RestartHost(h) \/ GiveKey(h) \/ ConnectAndReport(h)
           \/ \E a \in AgentRows : RotateAgentKey(a)
    PROVE  KeysInv'
<1>1. KeyTypes /\ TokensOnce /\ FlagOnce
  BY DEF KeysInv
<1>2. UNCHANGED <<born, row, boot, bootToken, pending, claims, definitions>>
  BY DEF ExpireToken, RestartHost, GiveKey, ConnectAndReport, RotateAgentKey, OnHosts, Discovery
<1>3. UNCHANGED tokenState \/ \E t \in InstallTokens : ExpireToken(t)
  BY DEF RestartHost, GiveKey, ConnectAndReport, RotateAgentKey
<1>4. TokensOnce' /\ KeyTypes'
  BY <1>1, <1>2, <1>3, TokensStay DEF KeyTypes
<1>5. FlagOnce'
  BY <1>1, <1>2 DEF FlagOnce
<1> QED
  BY <1>4, <1>5 DEF KeysInv

(* The flag goes to one claim, the claim to one definition. *)
LEMMA DiscoverKeysInv ==
    ASSUME KeysInv, NEW a \in AgentRows,
           ClaimAutoDiscover(a) \/ CreateAutoDefinition(a) \/ DeleteAgent(a)
    PROVE  KeysInv'
<1>1. KeyTypes /\ TokensOnce /\ FlagOnce
  BY DEF KeysInv
<1>2. UNCHANGED <<born, boot, bootToken, tokenState>>
  BY DEF ClaimAutoDiscover, CreateAutoDefinition, DeleteAgent, OnHosts
<1>3. TokensOnce'
  BY <1>1, <1>2, TokensStay
<1>4. CASE ClaimAutoDiscover(a)
  <2>1. /\ pending' = pending \ {a} /\ UNCHANGED <<row, definitions>>
        /\ claims' = IF a \in pending THEN [claims EXCEPT ![a] = @ + 1] ELSE claims
    BY <1>4 DEF ClaimAutoDiscover
  <2>2. ASSUME a \in pending PROVE row[a] # "none"
    BY <1>1, <2>2 DEF FlagOnce
  <2>3. KeyTypes'
    BY <1>1, <1>2, <2>1 DEF KeyTypes
  <2>4. FlagOnce'
    BY <1>1, <2>1, <2>2 DEF FlagOnce, KeyTypes
  <2> QED
    BY <1>3, <2>3, <2>4 DEF KeysInv
<1>5. CASE CreateAutoDefinition(a)
  <2>1. /\ claims[a] > 0 /\ claims' = [claims EXCEPT ![a] = @ - 1] /\ UNCHANGED <<row, pending>>
        /\ definitions' = definitions \/ definitions' = [definitions EXCEPT ![a] = @ + 1]
    BY <1>5 DEF CreateAutoDefinition
  <2>2. claims' \in [AgentRows -> Nat] /\ definitions' \in [AgentRows -> Nat]
    BY <1>1, <2>1 DEF KeyTypes
  <2>3. KeyTypes'
    BY <1>1, <1>2, <2>1, <2>2 DEF KeyTypes
  <2>4. FlagOnce'
    BY <1>1, <2>1 DEF FlagOnce, KeyTypes
  <2> QED
    BY <1>3, <2>3, <2>4 DEF KeysInv
<1>6. CASE DeleteAgent(a)
  <2>1. /\ row' = [row EXCEPT ![a] = "deleted"] /\ definitions' = [definitions EXCEPT ![a] = 0]
        /\ pending' = pending \ {a} /\ UNCHANGED claims
    BY <1>6 DEF DeleteAgent
  <2>2. KeyTypes'
    BY <1>1, <1>2, <2>1 DEF KeyTypes
  <2>3. FlagOnce'
    BY <1>1, <2>1 DEF FlagOnce, KeyTypes
  <2> QED
    BY <1>3, <2>2, <2>3 DEF KeysInv
<1> QED
  BY <1>4, <1>5, <1>6

LEMMA StepKeysInv == KeysInv /\ [AgentKeysNext]_keyVars => KeysInv'
<1> SUFFICES ASSUME KeysInv, [AgentKeysNext]_keyVars PROVE KeysInv'
  OBVIOUS
<1>1. CASE UNCHANGED keyVars
  BY <1>1 DEF keyVars, KeysInv, KeyTypes, TokensOnce, FlagOnce, Consumers
<1>2. CASE AgentKeysNext
  BY <1>2, BootKeysInv, CreateKeysInv, RunningKeysInv, DiscoverKeysInv DEF AgentKeysNext
<1> QED
  BY <1>1, <1>2

LEMMA AtMostOne ==
    ASSUME NEW S, \A a, b \in S : a = b
    PROVE  Cardinality(S) <= 1
<1>1. CASE S = {}
  BY <1>1, FS_EmptySet
<1>2. ASSUME NEW a \in S PROVE Cardinality(S) = 1
  <2>1. S = {a}
    BY <1>2
  <2> QED
    BY <2>1, FS_Singleton
<1> QED
  BY <1>1, <1>2

(* An install token creates one agent and an agent's flag one discovery,   *)
(* for any number of hosts that bootstrap and connections that report.     *)
THEOREM TokensActOnce == AgentKeysSpec => []InstallActsOnce
<1>1. KeysInv => InstallActsOnce
  BY AtMostOne DEF KeysInv, TokensOnce, FlagOnce, InstallActsOnce
<1> QED
  BY <1>1, InitKeysInv, StepKeysInv, PTL DEF AgentKeysSpec

-----------------------------------------------------------------------------
(* The people of one tenant, for any number of people, invitations and     *)
(* requests in flight (Memberships).                                       *)

(* A request that has counted, with no write since, leaves an admin.       *)
CountHolds ==
    \A r \in HttpRequests :
        asked[r].at = "write" /\ ~asked[r].stale /\ asked[r].user \in ActiveAdmins
            => \E q \in ActiveAdmins : q # asked[r].user

MembersInv == MembershipsTypeOK /\ (lapsed \/ (CountHolds /\ ActiveAdmins # {}))

Ask == [at : {"none", "count", "write", "join", "mark", "rotate"},
        op : Reductions \cup {"none"}, user : People, role : Roles,
        row : Invitations, stale : BOOLEAN]

LEMMA NotAskedTyped == NotAsked \in Ask /\ NotAsked.at = "none"
<1>1. (CHOOSE p \in People : TRUE) \in People /\ (CHOOSE i \in Invitations : TRUE) \in Invitations
  BY MembershipsAssumption
<1> QED
  BY <1>1 DEF NotAsked, Ask, Roles

LEMMA InitMembersInv == MembershipsInit => MembersInv
<1> SUFFICES ASSUME MembershipsInit PROVE MembersInv
  OBVIOUS
<1>1. PICK p \in People : role = [q \in People |-> IF q = p THEN "admin" ELSE "none"]
  BY DEF MembershipsInit
<1>2. (CHOOSE q \in People : TRUE) \in People
  BY MembershipsAssumption
<1>3. invitation \in [Invitations -> [state : {"none", "open", "expired", "accepted", "deleted"},
                                      user : People, role : Roles]]
  BY <1>2 DEF MembershipsInit, NoInvitation, Roles
<1>4. asked \in [HttpRequests -> Ask]
  BY NotAskedTyped DEF MembershipsInit
<1>5. MembershipsTypeOK
  BY <1>1, <1>3, <1>4 DEF MembershipsInit, MembershipsTypeOK, Ask, Roles
<1>6. p \in ActiveAdmins
  BY <1>1 DEF ActiveAdmins, MembershipsInit
<1>7. CountHolds
  BY NotAskedTyped DEF MembershipsInit, CountHolds
<1> QED
  BY <1>5, <1>6, <1>7 DEF MembersInv

(* What a write leaves of the others: no count of theirs is good any more. *)
LEMMA OvertakenTyped ==
    ASSUME MembershipsTypeOK
    PROVE  /\ Overtaken \in [HttpRequests -> Ask]
           /\ \A r \in HttpRequests : Overtaken[r].at = "write" => Overtaken[r].stale
<1>1. asked \in [HttpRequests -> Ask]
  BY DEF MembershipsTypeOK, Ask
<1>2. ASSUME NEW r \in HttpRequests
      PROVE  Overtaken[r] \in Ask /\ (Overtaken[r].at = "write" => Overtaken[r].stale)
  <2>1. asked[r] \in Ask
    BY <1>1
  <2>2. Overtaken[r] = IF asked[r].at = "write" THEN [asked[r] EXCEPT !.stale = TRUE] ELSE asked[r]
    BY DEF Overtaken
  <2>3. [asked[r] EXCEPT !.stale = TRUE] \in Ask /\ [asked[r] EXCEPT !.stale = TRUE].stale
    BY <2>1 DEF Ask
  <2> QED
    BY <2>1, <2>2, <2>3
<1>3. Overtaken = [r \in HttpRequests |-> Overtaken[r]]
  BY DEF Overtaken
<1> QED
  BY <1>2, <1>3

(* Steps that leave the memberships and the requests alone. *)
LEMMA TokenMembersInv ==
    ASSUME MembersInv, ~lapsed,
           UNCHANGED <<role, suspended, asked, lapsed>>,
           admins' \subseteq People,
           invitation' \in [Invitations -> [state : {"none", "open", "expired", "accepted", "deleted"},
                                            user : People, role : Roles]]
    PROVE  MembersInv'
<1>1. ActiveAdmins' = ActiveAdmins
  BY DEF ActiveAdmins
<1>2. MembershipsTypeOK'
  BY DEF MembersInv, MembershipsTypeOK
<1>3. CountHolds'
  BY <1>1 DEF MembersInv, CountHolds
<1> QED
  BY <1>1, <1>2, <1>3 DEF MembersInv

LEMMA SessionMembersInv ==
    ASSUME MembersInv, ~lapsed, NEW p \in People, Login(p) \/ TokenExpires(p)
    PROVE  MembersInv'
<1>1. admins \subseteq People
  BY DEF MembersInv, MembershipsTypeOK
<1>2. admins' \subseteq People
  BY <1>1 DEF Login, IssueJWT, TokenExpires
<1>3. UNCHANGED <<role, suspended, asked, lapsed, invitation>>
  BY DEF Login, TokenExpires, MembershipRows
<1> QED
  BY <1>2, <1>3, TokenMembersInv DEF MembersInv, MembershipsTypeOK

LEMMA InvitationMembersInv ==
    ASSUME MembersInv, ~lapsed, NEW i \in Invitations,
           \/ InviteExpires(i) \/ DeleteInvitation(i)
           \/ \E p \in People, as \in Roles : CreateInvitation(i, p, as)
    PROVE  MembersInv'
<1> DEFINE Invite == [state : {"none", "open", "expired", "accepted", "deleted"},
                      user : People, role : Roles]
<1>1. invitation \in [Invitations -> Invite] /\ admins \subseteq People
  BY DEF MembersInv, MembershipsTypeOK
<1>2. UNCHANGED <<role, suspended, asked, lapsed, admins>>
  BY DEF InviteExpires, DeleteInvitation, CreateInvitation, MembershipRows
<1>3. ASSUME NEW p \in People, NEW as \in Roles, CreateInvitation(i, p, as)
      PROVE  invitation' \in [Invitations -> Invite]
  BY <1>1, <1>3 DEF CreateInvitation
<1>4. ASSUME InviteExpires(i) \/ DeleteInvitation(i)
      PROVE  invitation' \in [Invitations -> Invite]
  <2>1. PICK state \in {"expired", "deleted"} :
          invitation' = [invitation EXCEPT ![i].state = state]
    BY <1>4 DEF InviteExpires, DeleteInvitation
  <2> QED
    BY <1>1, <2>1
<1> QED
  BY <1>1, <1>2, <1>3, <1>4, TokenMembersInv

(* One request goes on; the memberships stay. *)
LEMMA AskMembersInv ==
    ASSUME MembersInv, ~lapsed, NEW r \in HttpRequests, NEW ask \in Ask,
           asked' = [asked EXCEPT ![r] = ask],
           lapsed' \in BOOLEAN,
           \/ lapsed' \/ ask.at # "write" \/ ask.user \notin ActiveAdmins
           \/ \E q \in ActiveAdmins : q # ask.user,
           UNCHANGED <<role, suspended>>,
           admins' \subseteq People,
           invitation' \in [Invitations -> [state : {"none", "open", "expired", "accepted", "deleted"},
                                            user : People, role : Roles]]
    PROVE  MembersInv'
<1>1. ActiveAdmins' = ActiveAdmins
  BY DEF ActiveAdmins
<1>2. asked \in [HttpRequests -> Ask]
  BY DEF MembersInv, MembershipsTypeOK, Ask
<1>3. asked' \in [HttpRequests -> Ask]
  BY <1>2
<1>4. MembershipsTypeOK'
  BY <1>3 DEF MembersInv, MembershipsTypeOK, Ask
<1>5. ASSUME ~lapsed' PROVE CountHolds'
  <2>1. ASSUME NEW q \in HttpRequests, asked'[q].at = "write", ~asked'[q].stale,
               asked'[q].user \in ActiveAdmins
        PROVE  \E p \in ActiveAdmins : p # asked'[q].user
    <3>1. CASE q = r
      <4>1. asked'[q] = ask
        BY <1>2, <3>1
      <4> QED
        BY <1>5, <2>1, <4>1
    <3>2. CASE q # r
      <4>1. asked'[q] = asked[q]
        BY <1>2, <3>2
      <4> QED
        BY <2>1, <4>1 DEF MembersInv, CountHolds
    <3> QED
      BY <3>1, <3>2
  <2> QED
    BY <1>1, <2>1 DEF CountHolds
<1> QED
  BY <1>1, <1>4, <1>5 DEF MembersInv

LEMMA EndedTyped ==
    ASSUME NEW r \in HttpRequests, Answer(r)
    PROVE  /\ asked' = [asked EXCEPT ![r] = NotAsked]
           /\ NotAsked \in Ask /\ NotAsked.at # "write"
BY NotAskedTyped DEF Answer

(* Steps of requests about invitations, but for the membership itself. *)
LEMMA InvitedMembersInv ==
    ASSUME MembersInv, ~lapsed, NEW r \in HttpRequests,
           \/ UpdateInvitationToken(r) \/ Refuse(r) \/ MarkInvitationAccepted(r)
           \/ \E i \in Invitations : ListPendingInvitations(r, i) \/ GetInvitation(r, i)
    PROVE  MembersInv'
<1> DEFINE Invite == [state : {"none", "open", "expired", "accepted", "deleted"},
                      user : People, role : Roles]
<1>1. /\ invitation \in [Invitations -> Invite] /\ admins \subseteq People
      /\ asked \in [HttpRequests -> Ask] /\ lapsed \in BOOLEAN
  BY DEF MembersInv, MembershipsTypeOK, Ask
<1>2. asked[r].row \in Invitations /\ asked[r].user \in People
  BY <1>1 DEF Ask
<1>3. UNCHANGED <<role, suspended, lapsed>>
  BY DEF UpdateInvitationToken, Refuse, MarkInvitationAccepted, ListPendingInvitations,
         GetInvitation, MembershipRows
<1>4. CASE UpdateInvitationToken(r)
  <2>1. PICK state \in {"none", "open", "expired", "accepted", "deleted"} :
          invitation' = [invitation EXCEPT ![asked[r].row].state = state]
    BY <1>1, <1>2, <1>4 DEF UpdateInvitationToken
  <2>2. [invitation[asked[r].row] EXCEPT !.state = state] \in Invite
    BY <1>1, <1>2
  <2>3. invitation' \in [Invitations -> Invite]
    BY <1>1, <1>2, <2>1, <2>2
  <2>4. admins' = admins
    BY <1>4 DEF UpdateInvitationToken
  <2> QED
    BY <1>1, <1>3, <1>4, <2>3, <2>4, EndedTyped, AskMembersInv DEF UpdateInvitationToken
<1>5. CASE Refuse(r)
  BY <1>1, <1>3, <1>5, EndedTyped, AskMembersInv DEF Refuse, Tokens
<1>6. CASE MarkInvitationAccepted(r)
  <2>1. invitation' = invitation
        \/ \E state \in {"deleted", "accepted"} :
             invitation' = [invitation EXCEPT ![asked[r].row].state = state]
    BY <1>1, <1>2, <1>6 DEF MarkInvitationAccepted
  <2>2. invitation' \in [Invitations -> Invite]
    BY <1>1, <2>1
  <2>3. admins' \subseteq People
    BY <1>1, <1>2, <1>6 DEF MarkInvitationAccepted, IssueJWT
  <2> QED
    BY <1>1, <1>3, <1>6, <2>2, <2>3, EndedTyped, AskMembersInv DEF MarkInvitationAccepted
<1>7. ASSUME NEW i \in Invitations, ListPendingInvitations(r, i) \/ GetInvitation(r, i)
      PROVE  MembersInv'
  <2>1. invitation[i].user \in People /\ invitation[i].role \in Roles
    BY <1>1
  <2>2. PICK ask \in Ask : asked' = [asked EXCEPT ![r] = ask] /\ ask.at # "write"
    <3>1. CASE ListPendingInvitations(r, i)
      <4>1. [NotAsked EXCEPT !.at = "rotate", !.row = i] \in Ask
            /\ [NotAsked EXCEPT !.at = "rotate", !.row = i].at # "write"
        BY NotAskedTyped DEF Ask
      <4> QED
        BY <3>1, <4>1 DEF ListPendingInvitations
    <3>2. CASE GetInvitation(r, i)
      <4> DEFINE join == [NotAsked EXCEPT !.at = "join", !.row = i,
                            !.user = invitation[i].user, !.role = invitation[i].role]
      <4>1. join \in Ask /\ join.at # "write"
        BY <2>1, NotAskedTyped DEF Ask
      <4> QED
        BY <3>2, <4>1 DEF GetInvitation
    <3> QED
      BY <1>7, <3>1, <3>2
  <2>3. UNCHANGED <<admins, invitation>>
    BY <1>7 DEF ListPendingInvitations, GetInvitation, Tokens
  <2> QED
    BY <1>1, <1>3, <2>2, <2>3, AskMembersInv
<1> QED
  BY <1>4, <1>5, <1>6, <1>7

(* The read of the membership and the count: past them, a request that     *)
(* takes an admin leaves another, or a statement has failed.               *)
LEMMA CheckMembersInv ==
    ASSUME MembersInv, ~lapsed, NEW r \in HttpRequests,
           \/ CountActiveAdmins(r)
           \/ \E caller, p \in People, op \in Reductions : GetMembership(r, caller, op, p)
    PROVE  MembersInv'
<1>1. /\ asked \in [HttpRequests -> Ask] /\ lapsed \in BOOLEAN /\ admins \subseteq People
      /\ invitation \in [Invitations -> [state : {"none", "open", "expired", "accepted", "deleted"},
                                         user : People, role : Roles]]
  BY DEF MembersInv, MembershipsTypeOK, Ask
<1>2. UNCHANGED <<role, suspended, admins, invitation>>
  BY DEF CountActiveAdmins, GetMembership, MembershipRows, Tokens
<1>3. CASE CountActiveAdmins(r)
  <2>1. CASE Answer(r) /\ UNCHANGED lapsed
    BY <1>1, <1>2, <2>1, EndedTyped, AskMembersInv
  <2>2. CASE lapsed' = TRUE /\ asked' = [asked EXCEPT ![r].at = "write"]
    <3>1. [asked[r] EXCEPT !.at = "write"] \in Ask
      BY <1>1 DEF Ask
    <3>2. asked' = [asked EXCEPT ![r] = [asked[r] EXCEPT !.at = "write"]]
      BY <1>1, <2>2
    <3> QED
      BY <1>1, <1>2, <2>2, <3>1, <3>2, AskMembersInv
  <2>3. CASE /\ Cardinality(ActiveAdmins) > 1 /\ UNCHANGED lapsed
             /\ asked' = [asked EXCEPT ![r].at = "write", ![r].stale = FALSE]
    <3> DEFINE ask == [asked[r] EXCEPT !.at = "write", !.stale = FALSE]
    <3>1. ask \in Ask
      <4>1. PICK old \in Ask : old = asked[r]
        BY <1>1
      <4> QED
        BY <4>1 DEF Ask
    <3>2. asked' = [asked EXCEPT ![r] = ask]
      BY <1>1, <2>3
    <3>3. IsFiniteSet(ActiveAdmins)
      BY MembershipsAssumption, FS_Subset DEF ActiveAdmins
    <3>4. ASSUME ask.user \in ActiveAdmins, ActiveAdmins \subseteq {ask.user} PROVE FALSE
      <4>1. ActiveAdmins = {ask.user}
        BY <3>4
      <4>2. Cardinality(ActiveAdmins) = 1
        BY <4>1, FS_Singleton
      <4> QED
        BY <2>3, <4>2
    <3> HIDE DEF ask
    <3> QED
      BY <1>1, <1>2, <2>3, <3>1, <3>2, <3>4, AskMembersInv
  <2> QED
    BY <1>3, <2>1, <2>2, <2>3 DEF CountActiveAdmins
<1>4. ASSUME NEW caller \in People, NEW p \in People, NEW op \in Reductions,
             GetMembership(r, caller, op, p)
      PROVE  MembersInv'
  <2> DEFINE Moved(step) == [NotAsked EXCEPT !.at = step, !.op = op, !.user = p]
  <2>1. \A step \in {"count", "write"} :
          Moved(step) \in Ask /\ Moved(step).at = step /\ Moved(step).user = p
    BY <1>4, NotAskedTyped DEF Ask
  <2>2. \/ asked' = [asked EXCEPT ![r] = Moved("count")] /\ UNCHANGED lapsed
        \/ asked' = [asked EXCEPT ![r] = Moved("write")] /\ p \notin ActiveAdmins /\ UNCHANGED lapsed
        \/ asked' = [asked EXCEPT ![r] = Moved("write")] /\ lapsed' = (lapsed \/ p \in ActiveAdmins)
    BY <1>4 DEF GetMembership
  <2> HIDE DEF Moved
  <2> QED
    BY <1>1, <1>2, <2>1, <2>2, AskMembersInv
<1> QED
  BY <1>3, <1>4

(* A write leaves no count good. *)
LEMMA WriteMembersInv ==
    ASSUME MembersInv, ~lapsed,
           asked' \in [HttpRequests -> Ask],
           \A r \in HttpRequests : asked'[r].at = "write" => asked'[r].stale,
           role' \in [People -> Roles \cup {"none"}], suspended' \subseteq People,
           UNCHANGED <<admins, invitation>>, lapsed' \in BOOLEAN,
           lapsed' \/ ActiveAdmins' # {}
    PROVE  MembersInv'
<1>1. MembershipsTypeOK'
  BY DEF MembersInv, MembershipsTypeOK, Ask
<1>2. CountHolds'
  BY DEF CountHolds
<1> QED
  BY <1>1, <1>2 DEF MembersInv

(* Each statement changes one person at most. *)
LEMMA StatementOnOne ==
    ASSUME MembershipsTypeOK, NEW p \in People, NEW as \in Roles, NEW active \in BOOLEAN,
           \/ UpsertMembership(p, as) \/ DeleteMembership(p)
           \/ UpdateMembershipStatus(p, active) \/ UpdateMembershipRole(p, as)
    PROVE  /\ role' \in [People -> Roles \cup {"none"}] /\ suspended' \subseteq People
           /\ \A q \in ActiveAdmins : q # p => q \in ActiveAdmins'
           /\ p \notin ActiveAdmins => ActiveAdmins \subseteq ActiveAdmins'
<1>1. role \in [People -> Roles \cup {"none"}] /\ suspended \subseteq People
  BY DEF MembershipsTypeOK
<1>2. role' = role \/ \E new \in Roles \cup {"none"} : role' = [role EXCEPT ![p] = new]
  BY DEF UpsertMembership, DeleteMembership, UpdateMembershipStatus, UpdateMembershipRole
<1>3. suspended' \in {suspended, suspended \cup {p}, suspended \ {p}}
  BY DEF UpsertMembership, DeleteMembership, UpdateMembershipStatus, UpdateMembershipRole
<1>4. role' \in [People -> Roles \cup {"none"}] /\ suspended' \subseteq People
  BY <1>1, <1>2, <1>3
<1>5. ASSUME NEW q \in ActiveAdmins, q # p PROVE q \in ActiveAdmins'
  BY <1>1, <1>2, <1>3, <1>5 DEF ActiveAdmins
<1> QED
  BY <1>4, <1>5

(* The steps that write a membership. *)
LEMMA RowMembersInv ==
    ASSUME MembersInv, ~lapsed,
           \/ \E r \in HttpRequests : CreateMembership(r) \/ Reduce(r)
           \/ \E p \in People : OperatorSetsStatus(p) \/ OperatorDeletes(p)
           \/ \E caller, p \in People : Raise(caller, p)
    PROVE  MembersInv'
<1>1. /\ MembershipsTypeOK /\ asked \in [HttpRequests -> Ask] /\ ActiveAdmins # {}
      /\ CountHolds /\ lapsed \in BOOLEAN
  BY DEF MembersInv, MembershipsTypeOK, Ask
<1>2. Overtaken \in [HttpRequests -> Ask]
      /\ \A r \in HttpRequests : Overtaken[r].at = "write" => Overtaken[r].stale
  BY <1>1, OvertakenTyped
<1>3. ASSUME NEW r \in HttpRequests, CreateMembership(r) PROVE MembersInv'
  <2> DEFINE p == asked[r].user
             ask == [Overtaken[r] EXCEPT !.at = "mark"]
  <2>1. p \in People /\ asked[r].role \in Roles
    BY <1>1 DEF Ask
  <2>2. UpsertMembership(p, asked[r].role) /\ UNCHANGED <<admins, invitation>>
        /\ lapsed' = (p \in ActiveAdmins /\ asked[r].role = "member")
    BY <1>3 DEF CreateMembership, Tokens
  <2>3. ask \in Ask /\ ask.at = "mark" /\ asked' = [Overtaken EXCEPT ![r] = ask]
    BY <1>2, <1>3 DEF CreateMembership, Ask
  <2>4. asked' \in [HttpRequests -> Ask]
        /\ \A q \in HttpRequests : asked'[q].at = "write" => asked'[q].stale
    BY <1>2, <2>3
  <2>5. /\ role' \in [People -> Roles \cup {"none"}] /\ suspended' \subseteq People
        /\ \A q \in ActiveAdmins : q # p => q \in ActiveAdmins'
        /\ p \notin ActiveAdmins => ActiveAdmins \subseteq ActiveAdmins'
    BY <1>1, <2>1, <2>2, StatementOnOne
  <2>6. lapsed' \/ ActiveAdmins' # {}
    <3>1. CASE asked[r].role = "admin"
      <4>1. p \in ActiveAdmins'
        BY <1>1, <2>1, <2>2, <3>1 DEF UpsertMembership, ActiveAdmins, MembershipsTypeOK
      <4> QED
        BY <4>1
    <3>2. CASE asked[r].role = "member"
      BY <1>1, <2>2, <2>5, <3>2
    <3> QED
      BY <2>1, <3>1, <3>2 DEF Roles
  <2> QED
    BY <2>2, <2>4, <2>5, <2>6, WriteMembersInv
<1>4. ASSUME NEW r \in HttpRequests, Reduce(r) PROVE MembersInv'
  <2> DEFINE p == asked[r].user
  <2>1. p \in People /\ asked[r].at = "write"
    BY <1>1, <1>4 DEF Ask, Reduce
  <2>2. /\ \/ DeleteMembership(p) \/ UpdateMembershipStatus(p, FALSE)
           \/ UpdateMembershipRole(p, "member")
        /\ UNCHANGED <<admins, invitation>> /\ asked' = [Overtaken EXCEPT ![r] = NotAsked]
        /\ lapsed' = (lapsed \/ (asked[r].stale /\ p \in ActiveAdmins))
    BY <1>4 DEF Reduce, Tokens
  <2>3. asked' \in [HttpRequests -> Ask]
        /\ \A q \in HttpRequests : asked'[q].at = "write" => asked'[q].stale
    BY <1>2, <2>2, NotAskedTyped
  <2>4. /\ role' \in [People -> Roles \cup {"none"}] /\ suspended' \subseteq People
        /\ \A q \in ActiveAdmins : q # p => q \in ActiveAdmins'
        /\ p \notin ActiveAdmins => ActiveAdmins \subseteq ActiveAdmins'
    BY <1>1, <2>1, <2>2, StatementOnOne DEF Roles
  <2>5. lapsed' \/ ActiveAdmins' # {}
    <3>1. CASE p \in ActiveAdmins /\ ~asked[r].stale
      BY <1>1, <2>1, <2>4, <3>1 DEF CountHolds
    <3>2. CASE p \in ActiveAdmins /\ asked[r].stale
      BY <2>2, <3>2
    <3>3. CASE p \notin ActiveAdmins
      BY <1>1, <2>4, <3>3
    <3> QED
      BY <3>1, <3>2, <3>3
  <2> QED
    BY <1>1, <2>2, <2>3, <2>4, <2>5, WriteMembersInv
<1>5. ASSUME NEW p \in People, OperatorSetsStatus(p) \/ OperatorDeletes(p) PROVE MembersInv'
  <2>1. PICK active \in BOOLEAN :
          /\ DeleteMembership(p) \/ UpdateMembershipStatus(p, active)
          /\ UNCHANGED <<admins, invitation>> /\ asked' = Overtaken
          /\ lapsed' = (lapsed \/ (p \in ActiveAdmins /\ p \notin ActiveAdmins'))
    BY <1>5 DEF OperatorSetsStatus, OperatorDeletes, Overrule, Tokens
  <2>2. /\ role' \in [People -> Roles \cup {"none"}] /\ suspended' \subseteq People
        /\ \A q \in ActiveAdmins : q # p => q \in ActiveAdmins'
    BY <1>1, <2>1, StatementOnOne DEF Roles
  <2>3. lapsed' \/ ActiveAdmins' # {}
    BY <1>1, <2>1, <2>2
  <2> QED
    BY <1>1, <1>2, <2>1, <2>2, <2>3, WriteMembersInv
<1>6. ASSUME NEW caller \in People, NEW p \in People, Raise(caller, p) PROVE MembersInv'
  <2>1. /\ UpdateMembershipRole(p, "admin") \/ UpdateMembershipStatus(p, TRUE)
        /\ UNCHANGED <<admins, invitation, lapsed>> /\ asked' = Overtaken
    BY <1>6 DEF Raise, Tokens
  <2>2. /\ role' \in [People -> Roles \cup {"none"}] /\ suspended' \subseteq People
        /\ \A q \in ActiveAdmins : q # p => q \in ActiveAdmins'
    BY <1>1, <2>1, StatementOnOne DEF Roles
  <2>3. p \in ActiveAdmins => p \in ActiveAdmins'
    BY <1>1, <2>1
       DEF ActiveAdmins, UpdateMembershipRole, UpdateMembershipStatus, MembershipsTypeOK
  <2> QED
    BY <1>1, <1>2, <2>1, <2>2, <2>3, WriteMembersInv
<1> QED
  BY <1>3, <1>4, <1>5, <1>6

LEMMA StepMembersInv == MembersInv /\ [MembershipsNext]_memberVars => MembersInv'
<1> SUFFICES ASSUME MembersInv, [MembershipsNext]_memberVars PROVE MembersInv'
  OBVIOUS
<1>1. CASE UNCHANGED memberVars
  BY <1>1 DEF memberVars, MembersInv, MembershipsTypeOK, CountHolds, ActiveAdmins
<1>2. CASE MembershipsNext
  <2>1. ~lapsed
    BY <1>2 DEF MembershipsNext
  <2> QED
    BY <1>2, <2>1, SessionMembersInv, InvitationMembersInv, InvitedMembersInv, CheckMembersInv,
       RowMembersInv
       DEF MembershipsNext, CreateInvite, OperatorInvites, CancelInvitation, OperatorRevokes,
           ResendInvitation, OperatorResends
<1> QED
  BY <1>1, <1>2

(* A tenant is without an active admin only after an operator, a failed    *)
(* statement, an admin's acceptance of a member's invitation or a write    *)
(* that overtook a count, for any number of people and requests.           *)
THEOREM AdminsStay == MembershipsSpec => []AdminsLostByRaceOrOperator
<1>1. MembersInv => AdminsLostByRaceOrOperator
  BY DEF MembersInv, AdminsLostByRaceOrOperator
<1> QED
  BY <1>1, InitMembersInv, StepMembersInv, PTL DEF MembershipsSpec

-----------------------------------------------------------------------------
(* One tenant in two databases (TenantProvisioning).                       *)

Request == [at : {"none", "call", "update", "fail", "sync", "set", "drop", "delete"},
            by : {"create", "retry"}, id : {0} \cup Ids, status : Statuses]

Live(d) == dcTenants[d] \in Statuses
Calling == {o \in Operations : operation[o].at = "call"}
Creating == {o \in Operations : operation[o].at \in {"call", "update"}}
Deleting == {o \in Operations : operation[o].at \in {"drop", "delete"}}
Syncing == {o \in Operations : operation[o].at = "sync"}

(* The tenants that live in the data center or that somebody refers to. *)
Exposed ==
    {d \in Ids : \/ Live(d) \/ d = tenantRow.id
                 \/ \E o \in Operations : operation[o].at \in {"sync", "update"} /\ operation[o].id = d}

(* What there may come to be: tenants, calls that may still be executed,   *)
(* calls to come.                                                          *)
Debt == Cardinality(Exposed) + late + Cardinality(Calling)

(* The states in which nothing accounts for a tenant more than was paid:   *)
(* the row names none and none is being created, or what is being created, *)
(* named or set will outlive a row that is being deleted.                  *)
Owing ==
    \/ tenantRow.id = 0 /\ Creating = {}
    \/ Creating # {} /\ (tenantRow.state = "deleted" \/ Deleting # {})
    \/ Deleting # {} /\ Syncing # {}
    \/ \E o \in Deleting : tenantRow.id # 0 /\ operation[o].id # tenantRow.id
    \/ \E o \in Deleting : tenantRow.id # 0 /\ operation[o].at = "delete" /\ Live(tenantRow.id)

BudgetInv ==
    /\ Debt <= mishapped + overlaps + 1
    /\ Owing => Debt <= mishapped + overlaps

RowInv ==
    /\ tenantRow.state # "provisioned" => tenantRow.id = 0
    /\ tenantRow.id # 0 => dcTenants[tenantRow.id] # "none"
    /\ \A o \in Operations :
         /\ operation[o].at # "none" => tenantRow.state # "none"
         /\ operation[o].at \in {"sync", "update"} => operation[o].id # 0
         /\ operation[o].at = "update" => dcTenants[operation[o].id] # "none"
         /\ operation[o].at \in {"call", "update", "fail"} /\ operation[o].by = "create" =>
              /\ tenantRow.state \in {"pending", "deleted"}
              /\ \A q \in Operations : operation[q].at \in {"call", "update", "fail"} => q = o

Typed ==
    /\ tenantRow \in [state : {"none", "pending", "failed", "provisioned", "deleted"},
                      id : {0} \cup Ids, status : Statuses]
    /\ dcTenants \in [Ids -> Statuses \cup {"none", "inactive"}]
    /\ operation \in [Operations -> Request]
    /\ late \in Nat /\ mishapped \in Nat /\ overlaps \in Nat
    /\ IsFiniteSet(Calling)

ProvisioningInv == Typed /\ RowInv /\ BudgetInv

LEMMA IdsFinite == IsFiniteSet(Ids) /\ 0 \notin Ids
BY FS_Interval, ProvisioningAssumption DEF Ids

LEMMA NotOperatingTyped ==
    NotOperating \in Request /\ NotOperating.at = "none" /\ NotOperating.id = 0
BY DEF NotOperating, Request, Statuses

LEMMA ExposedCounts == IsFiniteSet(Exposed) /\ Cardinality(Exposed) \in Nat
<1>1. Exposed \subseteq Ids
  BY DEF Exposed
<1> QED
  BY <1>1, IdsFinite, FS_Subset, FS_CardinalityType

LEMMA InitProvisioningInv == ProvisioningInit => ProvisioningInv
<1> SUFFICES ASSUME ProvisioningInit PROVE ProvisioningInv
  OBVIOUS
<1>1. operation \in [Operations -> Request] /\ \A o \in Operations : operation[o] = NotOperating
  BY NotOperatingTyped DEF ProvisioningInit
<1>2. Calling = {} /\ Exposed = {}
  BY <1>1, NotOperatingTyped, IdsFinite DEF ProvisioningInit, Calling, Exposed, Live, Statuses
<1>3. Typed
  BY <1>1, <1>2, FS_EmptySet DEF Typed, ProvisioningInit, Statuses
<1>4. Debt = 0
  BY <1>2, FS_EmptySet DEF Debt, ProvisioningInit
<1> QED
  BY <1>1, <1>3, <1>4, NotOperatingTyped DEF ProvisioningInv, RowInv, BudgetInv, ProvisioningInit

(* One request goes on. *)
LEMMA OperationStep ==
    ASSUME Typed, NEW o \in Operations, NEW x \in Request, operation' = [operation EXCEPT ![o] = x]
    PROVE  /\ operation' \in [Operations -> Request] /\ operation'[o] = x
           /\ \A q \in Operations : q # o => operation'[q] = operation[q]
           /\ IsFiniteSet(Calling') /\ Cardinality(Calling) \in Nat /\ Cardinality(Calling') \in Nat
           /\ operation[o].at = "call" /\ x.at # "call" => Cardinality(Calling') = Cardinality(Calling) - 1
           /\ operation[o].at # "call" /\ x.at = "call" => Cardinality(Calling') = Cardinality(Calling) + 1
           /\ operation[o].at # "call" /\ x.at # "call" => Cardinality(Calling') = Cardinality(Calling)
<1>1. /\ operation' \in [Operations -> Request] /\ operation'[o] = x
      /\ \A q \in Operations : q # o => operation'[q] = operation[q]
  BY DEF Typed
<1>2. x.at = "call" => Calling' = Calling \cup {o}
  BY <1>1 DEF Calling
<1>3. x.at # "call" => Calling' = Calling \ {o}
  BY <1>1 DEF Calling
<1>4. o \in Calling <=> operation[o].at = "call"
  BY DEF Calling
<1>5. IsFiniteSet(Calling) /\ Cardinality(Calling) \in Nat
  BY FS_CardinalityType DEF Typed
<1>6. /\ IsFiniteSet(Calling \cup {o})
      /\ o \notin Calling => Cardinality(Calling \cup {o}) = Cardinality(Calling) + 1
  BY <1>5, FS_AddElement
<1>7. /\ IsFiniteSet(Calling \ {o})
      /\ o \in Calling => Cardinality(Calling \ {o}) = Cardinality(Calling) - 1
      /\ o \notin Calling => Cardinality(Calling \ {o}) = Cardinality(Calling)
  BY <1>5, FS_RemoveElement
<1>8. IsFiniteSet(Calling') /\ Cardinality(Calling') \in Nat
  BY <1>2, <1>3, <1>6, <1>7, FS_CardinalityType
<1> QED
  BY <1>1, <1>2, <1>3, <1>4, <1>5, <1>6, <1>7, <1>8

LEMMA ExposedShrinks ==
    ASSUME Exposed' \subseteq Exposed
    PROVE  Cardinality(Exposed') <= Cardinality(Exposed)
BY ExposedCounts, FS_Subset

LEMMA ExposedGrows ==
    ASSUME NEW d, Exposed' \subseteq Exposed \cup {d}
    PROVE  Cardinality(Exposed') <= Cardinality(Exposed) + 1
<1>1. IsFiniteSet(Exposed) /\ Cardinality(Exposed) \in Nat
  BY ExposedCounts
<1>2. /\ IsFiniteSet(Exposed \cup {d})
      /\ \/ Cardinality(Exposed \cup {d}) = Cardinality(Exposed)
         \/ Cardinality(Exposed \cup {d}) = Cardinality(Exposed) + 1
  BY <1>1, FS_AddElement
<1>3. Cardinality(Exposed') <= Cardinality(Exposed \cup {d})
  BY <1>2, FS_Subset
<1>4. IsFiniteSet(Exposed') /\ Cardinality(Exposed') \in Nat
  BY <1>2, FS_Subset, FS_CardinalityType
<1> QED
  BY <1>1, <1>2, <1>3, <1>4

(* The debt of a step: what is paid for as it is made, and what leaves the *)
(* obligations as they were.                                               *)
LEMMA DebtTyped ==
    ASSUME Typed
    PROVE  /\ Debt \in Nat /\ mishapped \in Nat /\ overlaps \in Nat /\ late \in Nat
           /\ Cardinality(Exposed) \in Nat /\ Cardinality(Calling) \in Nat
BY ExposedCounts, FS_CardinalityType DEF Typed, Debt

LEMMA DebtTypedNext ==
    ASSUME Typed'
    PROVE  /\ Debt' \in Nat /\ mishapped' \in Nat /\ overlaps' \in Nat /\ late' \in Nat
           /\ Cardinality(Exposed') \in Nat /\ Cardinality(Calling') \in Nat
<1>1. Exposed' \subseteq Ids
  BY DEF Exposed
<1>2. IsFiniteSet(Exposed') /\ Cardinality(Exposed') \in Nat
  BY <1>1, IdsFinite, FS_Subset, FS_CardinalityType
<1> QED
  BY <1>2, FS_CardinalityType DEF Typed, Debt

LEMMA Paid ==
    ASSUME ProvisioningInv, Typed', Debt' + mishapped + overlaps + 1 <= Debt + mishapped' + overlaps'
    PROVE  BudgetInv'
<1>1. /\ Debt \in Nat /\ mishapped \in Nat /\ overlaps \in Nat /\ Debt <= mishapped + overlaps + 1
  BY DebtTyped DEF ProvisioningInv, BudgetInv
<1>2. PICK d \in Nat, m \in Nat, v \in Nat : d = Debt' /\ m = mishapped' /\ v = overlaps'
  BY DebtTypedNext
<1>3. d + mishapped + overlaps + 1 <= Debt + m + v
  BY <1>2
<1>4. d <= m + v /\ d <= m + v + 1
  BY <1>1, <1>3
<1> QED
  BY <1>2, <1>4, Zenon DEF BudgetInv

LEMMA Even ==
    ASSUME ProvisioningInv, Typed', Debt' + mishapped + overlaps <= Debt + mishapped' + overlaps',
           Owing' => Owing
    PROVE  BudgetInv'
<1>1. /\ Debt \in Nat /\ mishapped \in Nat /\ overlaps \in Nat /\ Debt <= mishapped + overlaps + 1
      /\ Owing => Debt <= mishapped + overlaps
  BY DebtTyped DEF ProvisioningInv, BudgetInv
<1>2. PICK d \in Nat, m \in Nat, v \in Nat : d = Debt' /\ m = mishapped' /\ v = overlaps'
  BY DebtTypedNext
<1>3. d + mishapped + overlaps <= Debt + m + v
  BY <1>2
<1>4. d <= m + v + 1
  BY <1>1, <1>3
<1>5. Owing' => d <= m + v
  BY <1>1, <1>3
<1> QED
  BY <1>2, <1>4, <1>5, Zenon DEF BudgetInv

(* A request that begins and creates nothing. *)
LEMMA BeginKeeps ==
    ASSUME ProvisioningInv, NEW o \in Operations,
           (\E s \in Statuses : UpdateStatus(o, s)) \/ Delete(o)
    PROVE  ProvisioningInv'
<1>1. PICK x \in Request : /\ Begin(o, x) /\ x.id = tenantRow.id
                           /\ x.at \in {"set", "sync", "drop", "delete"}
                           /\ (x.at \in {"set", "delete"} <=> tenantRow.id = 0)
  <2> DEFINE y(to, s) == [NotOperating EXCEPT !.at = to, !.id = tenantRow.id, !.status = s]
             z(to) == [NotOperating EXCEPT !.at = to, !.id = tenantRow.id]
  <2>1. tenantRow.id \in {0} \cup Ids
    BY DEF ProvisioningInv, Typed
  <2>2. ASSUME NEW to \in {"set", "sync", "drop", "delete"}, NEW s \in Statuses
        PROVE  /\ y(to, s) \in Request /\ y(to, s).id = tenantRow.id /\ y(to, s).at = to
               /\ z(to) \in Request /\ z(to).id = tenantRow.id /\ z(to).at = to
    BY <2>1, NotOperatingTyped DEF Request
  <2>3. \/ \E s \in Statuses : Begin(o, y(IF tenantRow.id = 0 THEN "set" ELSE "sync", s))
        \/ Begin(o, z(IF tenantRow.id = 0 THEN "delete" ELSE "drop"))
    BY DEF UpdateStatus, Delete
  <2> HIDE DEF y, z
  <2>4. "active" \in Statuses
    BY DEF Statuses
  <2> QED
    BY <2>2, <2>3, <2>4
<1>2. /\ operation' = [operation EXCEPT ![o] = x] /\ operation[o].at = "none"
      /\ UNCHANGED <<tenantRow, dcTenants, late, mishapped>> /\ RowExists
      /\ \/ (\A q \in Operations : operation[q].at = "none") /\ overlaps' = overlaps
         \/ overlaps' = overlaps + 1
  BY <1>1 DEF Begin, UpdateStatus, Delete
<1>3. /\ operation' \in [Operations -> Request] /\ operation'[o] = x
      /\ \A q \in Operations : q # o => operation'[q] = operation[q]
      /\ IsFiniteSet(Calling') /\ Cardinality(Calling') = Cardinality(Calling)
  BY <1>1, <1>2, OperationStep DEF ProvisioningInv
<1>4. Typed'
  BY <1>2, <1>3 DEF ProvisioningInv, Typed
<1>5. RowInv'
  BY <1>1, <1>2, <1>3 DEF ProvisioningInv, RowInv, RowExists
<1>6. Exposed' \subseteq Exposed
  BY <1>1, <1>2, <1>3 DEF Exposed, Live
<1>7. Debt' <= Debt
  BY <1>2, <1>3, <1>4, <1>6, ExposedShrinks, DebtTyped, DebtTypedNext DEF ProvisioningInv, Debt
<1>8. BudgetInv'
  <2>1. CASE overlaps' = overlaps + 1
    BY <1>2, <1>4, <1>7, <2>1, Paid, DebtTyped, DebtTypedNext DEF ProvisioningInv
  <2>2. CASE (\A q \in Operations : operation[q].at = "none") /\ overlaps' = overlaps
    <3>1. Creating' = {} /\ Creating = {}
      BY <1>1, <1>3, <2>2 DEF Creating
    <3>2. \A q \in Deleting' : q = o /\ operation'[q] = x
      BY <1>3, <2>2 DEF Deleting
    <3>3. Deleting' = {} \/ Syncing' = {}
      BY <1>3, <2>2 DEF Deleting, Syncing
    <3>4. Owing' => Owing
      BY <1>1, <1>2, <3>1, <3>2, <3>3 DEF Owing
    <3> QED
      BY <1>2, <1>4, <1>7, <2>2, <3>4, Even, DebtTyped, DebtTypedNext DEF ProvisioningInv
  <2> QED
    BY <1>2, <2>1, <2>2
<1> QED
  BY <1>4, <1>5, <1>8 DEF ProvisioningInv

(* A request that creates: alone, or paid for. *)
LEMMA CreationKeeps ==
    ASSUME ProvisioningInv, NEW o \in Operations, Create(o) \/ Retry(o)
    PROVE  ProvisioningInv'
<1>1. PICK x \in Request : /\ Begin(o, x) /\ x.id = 0 /\ x.at = "call"
                           /\ (Create(o) => x.by = "create") /\ (x.by = "create" => Create(o))
  <2>1. CASE Create(o)
    <3>1. /\ [NotOperating EXCEPT !.at = "call"] \in Request
          /\ [NotOperating EXCEPT !.at = "call"].id = 0 /\ [NotOperating EXCEPT !.at = "call"].at = "call"
          /\ [NotOperating EXCEPT !.at = "call"].by = "create"
      BY DEF NotOperating, Request, Statuses
    <3> QED
      BY <2>1, <3>1 DEF Create
  <2>2. CASE Retry(o)
    <3>1. /\ [NotOperating EXCEPT !.at = "call", !.by = "retry"] \in Request
          /\ [NotOperating EXCEPT !.at = "call", !.by = "retry"].id = 0
          /\ [NotOperating EXCEPT !.at = "call", !.by = "retry"].at = "call"
          /\ [NotOperating EXCEPT !.at = "call", !.by = "retry"].by = "retry"
      BY DEF NotOperating, Request, Statuses
    <3>2. ~Create(o)
      BY <2>2 DEF Create, Retry
    <3> QED
      BY <2>2, <3>1, <3>2 DEF Retry
  <2> QED
    BY <2>1, <2>2
<1>2. /\ operation' = [operation EXCEPT ![o] = x] /\ operation[o].at = "none"
      /\ UNCHANGED <<dcTenants, late, mishapped>> /\ tenantRow'.id = tenantRow.id
      /\ tenantRow.state \in {"none", "failed"} /\ tenantRow'.state \in {"pending", "failed"}
      /\ \/ (\A q \in Operations : operation[q].at = "none") /\ overlaps' = overlaps
         \/ overlaps' = overlaps + 1
      /\ tenantRow' \in [state : {"none", "pending", "failed", "provisioned", "deleted"},
                         id : {0} \cup Ids, status : Statuses]
      /\ (Create(o) => tenantRow.state = "none" /\ tenantRow'.state = "pending")
  BY <1>1 DEF Begin, Create, Retry, ProvisioningInv, Typed
<1>3. /\ operation' \in [Operations -> Request] /\ operation'[o] = x
      /\ \A q \in Operations : q # o => operation'[q] = operation[q]
      /\ IsFiniteSet(Calling') /\ Cardinality(Calling') = Cardinality(Calling) + 1
  BY <1>1, <1>2, OperationStep DEF ProvisioningInv
<1>4. Typed'
  BY <1>2, <1>3 DEF ProvisioningInv, Typed
<1>5. tenantRow.id = 0
  BY <1>2 DEF ProvisioningInv, RowInv
<1>6. RowInv'
  <2>1. tenantRow'.id = 0
    BY <1>2, <1>5
  <2>2. ASSUME NEW p \in Operations, operation'[p].at \in {"call", "update", "fail"}, operation'[p].by = "create"
        PROVE  /\ tenantRow'.state \in {"pending", "deleted"}
               /\ \A q \in Operations : operation'[q].at \in {"call", "update", "fail"} => q = p
    <3>1. CASE p = o
      <4>1. Create(o)
        BY <1>1, <1>3, <2>2, <3>1
      <4>2. \A q \in Operations : operation[q].at = "none"
        BY <1>2, <4>1 DEF ProvisioningInv, RowInv
      <4> QED
        BY <1>2, <1>3, <3>1, <4>1, <4>2
    <3>2. CASE p # o
      BY <1>2, <1>3, <2>2, <3>2 DEF ProvisioningInv, RowInv
    <3> QED
      BY <3>1, <3>2
  <2>3. \A p \in Operations : /\ operation'[p].at # "none" => tenantRow'.state # "none"
                              /\ operation'[p].at \in {"sync", "update"} => operation'[p].id # 0
                              /\ operation'[p].at = "update" => dcTenants'[operation'[p].id] # "none"
    BY <1>1, <1>2, <1>3 DEF ProvisioningInv, RowInv
  <2> QED
    BY <2>1, <2>2, <2>3 DEF RowInv
<1>7. Exposed' \subseteq Exposed
  BY <1>1, <1>2, <1>3 DEF Exposed, Live
<1>8. Debt' <= Debt + 1
  BY <1>2, <1>3, <1>4, <1>7, ExposedShrinks, DebtTyped, DebtTypedNext DEF ProvisioningInv, Debt
<1>9. /\ o \in Creating' /\ Deleting' = Deleting /\ Syncing' = Syncing
  BY <1>1, <1>2, <1>3 DEF Creating, Deleting, Syncing
<1>10. BudgetInv'
  <2>1. CASE overlaps' = overlaps + 1
    <3>1. Owing' => Owing
      BY <1>2, <1>5, <1>9 DEF Owing
    <3> QED
      BY <1>2, <1>4, <1>8, <2>1, <3>1, Even, DebtTyped, DebtTypedNext DEF ProvisioningInv
  <2>2. CASE (\A q \in Operations : operation[q].at = "none") /\ overlaps' = overlaps
    <3>1. Creating = {} /\ Deleting = {}
      BY <2>2 DEF Creating, Deleting
    <3>2. Owing /\ ~Owing'
      BY <1>2, <1>5, <1>9, <3>1 DEF Owing
    <3>3. Debt <= mishapped + overlaps
      BY <3>2 DEF ProvisioningInv, BudgetInv
    <3>4. Debt' <= mishapped + overlaps + 1
      <4>1. Debt' \in Nat /\ Debt \in Nat /\ mishapped \in Nat /\ overlaps \in Nat
        BY <1>4, DebtTypedNext, DebtTyped DEF ProvisioningInv
      <4> QED
        BY <1>8, <3>3, <4>1
    <3> QED
      BY <1>2, <2>2, <3>2, <3>4 DEF BudgetInv
  <2> QED
    BY <1>2, <2>1, <2>2
<1> QED
  BY <1>4, <1>6, <1>10 DEF ProvisioningInv

(* A call is executed, or fails: a tenant or a late one for the call.      *)
LEMMA CallKeeps ==
    ASSUME ProvisioningInv, NEW o \in Operations, (\E d \in Ids : DcCreateTenant(o, d)) \/ CallFails(o)
    PROVE  ProvisioningInv'
<1>1. operation[o] \in Request /\ operation[o].at = "call"
  BY DEF ProvisioningInv, Typed, DcCreateTenant, CallFails
<1>2. PICK x \in Request :
        /\ operation' = [operation EXCEPT ![o] = x] /\ x.by = operation[o].by
        /\ \/ \E d \in Ids : /\ DcCreateTenant(o, d) /\ x.at = "update" /\ x.id = d /\ mishapped' = mishapped
           \/ x.at = "fail" /\ mishapped' = mishapped + 1
  <2>1. \A d \in Ids : LET u == [operation[o] EXCEPT !.at = "update", !.id = d]
                           f == [operation[o] EXCEPT !.at = "fail"]
                       IN /\ u \in Request /\ u.at = "update" /\ u.id = d /\ u.by = operation[o].by
                          /\ f \in Request /\ f.at = "fail" /\ f.by = operation[o].by
    BY <1>1 DEF Request
  <2>2. LET f == [operation[o] EXCEPT !.at = "fail"]
        IN f \in Request /\ f.at = "fail" /\ f.by = operation[o].by
    BY <1>1 DEF Request
  <2>3. ASSUME NEW d \in Ids, operation' = [operation EXCEPT ![o].at = "update", ![o].id = d]
        PROVE  operation' = [operation EXCEPT ![o] = [operation[o] EXCEPT !.at = "update", !.id = d]]
    BY <2>3 DEF ProvisioningInv, Typed
  <2>4. GoTo(o, "fail") => operation' = [operation EXCEPT ![o] = [operation[o] EXCEPT !.at = "fail"]]
    BY DEF GoTo
  <2>5. CASE CallFails(o)
    BY <2>2, <2>4, <2>5 DEF CallFails, GoesWrong
  <2>6. ASSUME NEW d \in Ids, DcCreateTenant(o, d)
        PROVE  \/ operation' = [operation EXCEPT ![o] = [operation[o] EXCEPT !.at = "update", !.id = d]]
                    /\ mishapped' = mishapped
               \/ operation' = [operation EXCEPT ![o] = [operation[o] EXCEPT !.at = "fail"]]
                    /\ mishapped' = mishapped + 1
    BY <2>3, <2>4, <2>6 DEF DcCreateTenant, GoesWrong
  <2> QED
    BY <2>1, <2>5, <2>6
<1>3. /\ operation' \in [Operations -> Request] /\ operation'[o] = x
      /\ \A q \in Operations : q # o => operation'[q] = operation[q]
      /\ IsFiniteSet(Calling') /\ Cardinality(Calling') = Cardinality(Calling) - 1
  BY <1>1, <1>2, OperationStep DEF ProvisioningInv
<1>4. /\ UNCHANGED <<tenantRow, overlaps>>
      /\ \/ \E d \in Ids : /\ dcTenants[d] = "none" /\ dcTenants' = [dcTenants EXCEPT ![d] = "active"]
                            /\ late' = late /\ (x.at = "update" => x.id = d)
         \/ x.at = "fail" /\ dcTenants' = dcTenants /\ late' \in {late, late + 1}
  BY <1>1, <1>2 DEF DcCreateTenant, CallFails, Fresh, GoTo
<1>5. PICK d : /\ \/ /\ d \in Ids /\ dcTenants[d] = "none" /\ dcTenants' = [dcTenants EXCEPT ![d] = "active"]
                     /\ late' = late /\ (x.at = "update" => x.id = d)
                  \/ x.at = "fail" /\ d = 0 /\ dcTenants' = dcTenants /\ late' \in {late, late + 1}
  BY <1>4
<1>6. /\ dcTenants' \in [Ids -> Statuses \cup {"none", "inactive"}]
      /\ \A e \in Ids : dcTenants'[e] = dcTenants[e] \/ (dcTenants'[e] = "active" /\ e = d /\ dcTenants[e] = "none")
      /\ x.at = "update" => x.id = d /\ d \in Ids /\ d # 0 /\ dcTenants'[d] # "none"
  BY <1>5, IdsFinite DEF ProvisioningInv, Typed, Statuses
<1>7. Typed'
  BY <1>2, <1>3, <1>4, <1>6 DEF ProvisioningInv, Typed
<1>8. RowInv'
  <2>1. tenantRow'.id # 0 => dcTenants'[tenantRow'.id] # "none"
    BY <1>4, <1>6 DEF ProvisioningInv, RowInv, Typed
  <2>2. \A q \in Operations : operation'[q].at = "update" => dcTenants'[operation'[q].id] # "none"
    <3>1. \A q \in Operations : operation[q].id \in {0} \cup Ids
      BY DEF ProvisioningInv, Typed, Request
    <3> QED
      BY <1>2, <1>3, <1>6, <3>1 DEF ProvisioningInv, RowInv
  <2> QED
    BY <1>1, <1>2, <1>3, <1>4, <1>6, <2>1, <2>2 DEF ProvisioningInv, RowInv
<1>9. /\ Exposed' \subseteq Exposed \cup {d}
      /\ dcTenants' = dcTenants => Exposed' \subseteq Exposed \/ x.at = "update"
  BY <1>1, <1>2, <1>3, <1>4, <1>6 DEF Exposed, Live
<1>10. Debt' <= Debt
  <2>1. CASE late' = late
    <3>1. Cardinality(Exposed') <= Cardinality(Exposed) + 1
      BY <1>9, ExposedGrows
    <3> QED
      BY <1>3, <1>7, <2>1, <3>1, DebtTyped, DebtTypedNext DEF ProvisioningInv, Debt
  <2>2. CASE late' = late + 1
    <3>1. x.at = "fail" /\ dcTenants' = dcTenants
      BY <1>5, <2>2, DebtTyped DEF ProvisioningInv
    <3>2. Cardinality(Exposed') <= Cardinality(Exposed)
      BY <1>9, <3>1, ExposedShrinks
    <3> QED
      BY <1>3, <1>7, <2>2, <3>2, DebtTyped, DebtTypedNext DEF ProvisioningInv, Debt
  <2> QED
    BY <1>5, <2>1, <2>2
<1>11. BudgetInv'
  <2>1. CASE mishapped' = mishapped + 1
    BY <1>4, <1>7, <1>10, <2>1, Paid, DebtTyped, DebtTypedNext DEF ProvisioningInv
  <2>2. CASE x.at = "update" /\ mishapped' = mishapped
    <3>1. Creating' = Creating /\ Deleting' = Deleting /\ Syncing' = Syncing
      BY <1>1, <1>3, <2>2 DEF Creating, Deleting, Syncing
    <3>2. \A p \in Deleting : operation'[p] = operation[p]
      BY <1>1, <1>3 DEF Deleting
    <3>3. tenantRow.id # 0 /\ Live(tenantRow.id)' => Live(tenantRow.id)
      BY <1>4, <1>6 DEF ProvisioningInv, RowInv, Typed, Live
    <3>4. Owing' => Owing
      BY <1>4, <3>1, <3>2, <3>3 DEF Owing
    <3> QED
      BY <1>4, <1>7, <1>10, <2>2, <3>4, Even, DebtTyped, DebtTypedNext DEF ProvisioningInv
  <2> QED
    BY <1>2, <2>1, <2>2
<1> QED
  BY <1>7, <1>8, <1>11 DEF ProvisioningInv

LEMMA LateKeeps ==
    ASSUME ProvisioningInv, NEW d \in Ids, ExecutedLate(d)
    PROVE  ProvisioningInv'
<1>1. /\ late > 0 /\ late' = late - 1 /\ dcTenants[d] = "none"
      /\ dcTenants' = [dcTenants EXCEPT ![d] = "active"]
      /\ UNCHANGED <<tenantRow, operation, mishapped, overlaps>>
  BY DEF ExecutedLate, Fresh
<1>2. /\ dcTenants' \in [Ids -> Statuses \cup {"none", "inactive"}] /\ dcTenants'[d] = "active"
      /\ \A e \in Ids : e # d => dcTenants'[e] = dcTenants[e]
  BY <1>1 DEF ProvisioningInv, Typed, Statuses
<1>3. Calling' = Calling /\ Creating' = Creating /\ Deleting' = Deleting /\ Syncing' = Syncing
  BY <1>1 DEF Calling, Creating, Deleting, Syncing
<1>4. late' \in Nat
  BY <1>1, DebtTyped DEF ProvisioningInv
<1>5. Typed'
  BY <1>1, <1>2, <1>3, <1>4 DEF ProvisioningInv, Typed
<1>6. tenantRow.id # 0 => tenantRow.id \in Ids /\ tenantRow.id # d
  BY <1>1 DEF ProvisioningInv, RowInv, Typed
<1>7. RowInv'
  BY <1>1, <1>2, <1>6 DEF ProvisioningInv, RowInv
<1>8. Exposed' \subseteq Exposed \cup {d}
  BY <1>1, <1>2 DEF Exposed, Live
<1>9. Cardinality(Exposed') <= Cardinality(Exposed) + 1
  BY <1>8, ExposedGrows
<1>10. Debt' <= Debt
  BY <1>1, <1>3, <1>5, <1>9, DebtTyped, DebtTypedNext DEF ProvisioningInv, Debt
<1>11. Owing' => Owing
  BY <1>1, <1>2, <1>3, <1>6 DEF Owing, Live
<1>12. BudgetInv'
  BY <1>1, <1>5, <1>10, <1>11, Even, DebtTyped, DebtTypedNext DEF ProvisioningInv
<1> QED
  BY <1>5, <1>7, <1>12 DEF ProvisioningInv

(* A request that is over and changes the row or nothing. *)
LEMMA OverStep ==
    ASSUME ProvisioningInv, NEW o \in Operations, operation[o].at # "call", Over(o), UNCHANGED <<dcTenants, late, overlaps>>,
           tenantRow' \in [state : {"none", "pending", "failed", "provisioned", "deleted"},
                          id : {0} \cup Ids, status : Statuses],
           mishapped' \in {mishapped, mishapped + 1},
           operation[o].at = "update" \/ tenantRow'.id \in {0, tenantRow.id},
           tenantRow'.id \in {0, tenantRow.id, operation[o].id}
    PROVE  /\ Typed' /\ Exposed' \subseteq Exposed
           /\ operation'[o] = NotOperating /\ \A q \in Operations : q # o => operation'[q] = operation[q]
           /\ Cardinality(Calling') = Cardinality(Calling) /\ Debt' <= Debt
<1>1. operation' = [operation EXCEPT ![o] = NotOperating]
  BY DEF Over
<1>2. /\ operation' \in [Operations -> Request] /\ operation'[o] = NotOperating
      /\ \A q \in Operations : q # o => operation'[q] = operation[q]
      /\ IsFiniteSet(Calling') /\ Cardinality(Calling') = Cardinality(Calling)
  BY <1>1, OperationStep, NotOperatingTyped DEF ProvisioningInv
<1>3. mishapped' \in Nat
  BY DebtTyped DEF ProvisioningInv
<1>4. Typed'
  BY <1>2, <1>3 DEF ProvisioningInv, Typed
<1>5. Exposed' \subseteq Exposed
  BY <1>2, NotOperatingTyped, IdsFinite DEF Exposed, Live
<1>6. Debt' <= Debt
  BY <1>2, <1>4, <1>5, ExposedShrinks, DebtTyped, DebtTypedNext DEF ProvisioningInv, Debt
<1> QED
  BY <1>2, <1>4, <1>5, <1>6

LEMMA ProvisionedKeeps ==
    ASSUME ProvisioningInv, NEW o \in Operations, Provisioned(o)
    PROVE  ProvisioningInv'
<1>1. /\ operation[o].at = "update" /\ operation[o] \in Request /\ operation[o].id \in Ids
      /\ Over(o) /\ UNCHANGED <<dcTenants, late, overlaps>> /\ tenantRow.state # "none"
  BY DEF Provisioned, ProvisioningInv, Typed, RowInv, Request
<1>2. \/ tenantRow' = [tenantRow EXCEPT !.state = "provisioned", !.id = operation[o].id]
         /\ mishapped' = mishapped /\ RowExists
      \/ /\ tenantRow' = tenantRow
         /\ \/ mishapped' = mishapped /\ tenantRow.state = "deleted"
            \/ mishapped' = mishapped + 1
  BY <1>1 DEF Provisioned, RowExists, GoesWrong
<1>3. /\ tenantRow' \in [state : {"none", "pending", "failed", "provisioned", "deleted"},
                         id : {0} \cup Ids, status : Statuses]
      /\ tenantRow'.id \in {0, tenantRow.id, operation[o].id} /\ mishapped' \in {mishapped, mishapped + 1}
  BY <1>1, <1>2 DEF ProvisioningInv, Typed
<1>4. /\ Typed' /\ Exposed' \subseteq Exposed /\ Debt' <= Debt
      /\ operation'[o] = NotOperating /\ \A q \in Operations : q # o => operation'[q] = operation[q]
  BY <1>1, <1>3, OverStep
<1>5. dcTenants[operation[o].id] # "none" => RowInv'
  <2> SUFFICES ASSUME dcTenants[operation[o].id] # "none" PROVE RowInv'
    OBVIOUS
  <2>1. CASE tenantRow' = tenantRow
    BY <1>1, <1>4, <2>1, NotOperatingTyped DEF ProvisioningInv, RowInv
  <2>2. CASE tenantRow' = [tenantRow EXCEPT !.state = "provisioned", !.id = operation[o].id]
    <3>1. tenantRow'.state = "provisioned" /\ tenantRow'.id = operation[o].id
      BY <2>2 DEF ProvisioningInv, Typed
    <3>2. \A q \in Operations : operation'[q].at \in {"call", "update", "fail"} => operation'[q].by # "create"
      BY <1>1, <1>4, NotOperatingTyped DEF ProvisioningInv, RowInv, Request
    <3> QED
      BY <1>1, <1>4, <3>1, <3>2, NotOperatingTyped DEF ProvisioningInv, RowInv
  <2> QED
    BY <1>2, <2>1, <2>2
<1>6. BudgetInv'
  <2>1. CASE mishapped' = mishapped + 1
    BY <1>1, <1>4, <2>1, Paid, DebtTyped, DebtTypedNext DEF ProvisioningInv
  <2>2. CASE mishapped' = mishapped
    <3>1. o \in Creating /\ Creating' \subseteq Creating /\ Deleting' = Deleting /\ Syncing' = Syncing
      BY <1>1, <1>4, NotOperatingTyped DEF Creating, Deleting, Syncing
    <3>2. Deleting # {} => Owing
      BY <3>1 DEF Owing
    <3>3. CASE tenantRow' = tenantRow /\ tenantRow.state = "deleted"
      BY <1>1, <1>4, <2>2, <3>1, <3>3, Even, DebtTyped, DebtTypedNext DEF ProvisioningInv, Owing
    <3>4. CASE tenantRow' = [tenantRow EXCEPT !.state = "provisioned", !.id = operation[o].id]
      <4>1. tenantRow'.state = "provisioned" /\ tenantRow'.id # 0
        BY <1>1, <3>4, IdsFinite DEF ProvisioningInv, Typed
      <4>2. Owing' => Owing
        BY <3>1, <3>2, <4>1 DEF Owing
      <4> QED
        BY <1>1, <1>4, <2>2, <4>2, Even, DebtTyped, DebtTypedNext DEF ProvisioningInv
    <3> QED
      BY <1>2, <2>2, <3>3, <3>4, DebtTyped DEF ProvisioningInv
  <2> QED
    BY <1>3, <2>1, <2>2
<1> QED
  BY <1>1, <1>4, <1>5, <1>6 DEF ProvisioningInv, RowInv

LEMMA FailedKeeps ==
    ASSUME ProvisioningInv, NEW o \in Operations, ProvisioningFailed(o) \/ UpdateTenantStatus(o)
    PROVE  ProvisioningInv'
<1>1. /\ operation[o].at \in {"fail", "set"} /\ operation[o] \in Request
      /\ Over(o) /\ UNCHANGED <<dcTenants, late, overlaps>>
  BY DEF ProvisioningFailed, UpdateTenantStatus, ProvisioningInv, Typed
<1>2. /\ tenantRow' \in [state : {"none", "pending", "failed", "provisioned", "deleted"},
                         id : {0} \cup Ids, status : Statuses]
      /\ tenantRow'.id = tenantRow.id /\ mishapped' \in {mishapped, mishapped + 1}
      /\ \/ tenantRow'.state = tenantRow.state
         \/ tenantRow.state = "pending" /\ tenantRow'.state = "failed" /\ operation[o].by = "create" /\ operation[o].at = "fail"
  <2>1. CASE UpdateTenantStatus(o)
    BY <2>1, <1>1 DEF UpdateTenantStatus, GoesWrong, ProvisioningInv, Typed, Request
  <2>2. CASE ProvisioningFailed(o)
    <3>1. CASE tenantRow' = tenantRow
      BY <2>2, <3>1 DEF ProvisioningFailed, GoesWrong, ProvisioningInv, Typed
    <3>2. CASE tenantRow' # tenantRow
      <4>1. /\ RowExists /\ operation[o].by = "create" /\ operation[o].at = "fail"
            /\ tenantRow' = [tenantRow EXCEPT !.state = "failed", !.id = 0] /\ mishapped' = mishapped
        BY <2>2, <3>2 DEF ProvisioningFailed
      <4>2. tenantRow.state = "pending" /\ tenantRow.id = 0
        BY <4>1 DEF ProvisioningInv, RowInv, RowExists
      <4> QED
        BY <4>1, <4>2 DEF ProvisioningInv, Typed
    <3> QED
      BY <3>1, <3>2
  <2> QED
    BY <2>1, <2>2
<1>3. /\ Typed' /\ Exposed' \subseteq Exposed /\ Debt' <= Debt
      /\ operation'[o] = NotOperating /\ \A q \in Operations : q # o => operation'[q] = operation[q]
  BY <1>1, <1>2, OverStep
<1>4. RowInv'
  BY <1>1, <1>2, <1>3, NotOperatingTyped DEF ProvisioningInv, RowInv
<1>5. Creating' = Creating /\ Deleting' = Deleting /\ Syncing' = Syncing
  BY <1>1, <1>3, NotOperatingTyped DEF Creating, Deleting, Syncing
<1>6. Owing' => Owing
  BY <1>1, <1>2, <1>3, <1>5 DEF Owing, Live, Deleting
<1>7. BudgetInv'
  BY <1>1, <1>2, <1>3, <1>6, Even, DebtTyped, DebtTypedNext DEF ProvisioningInv
<1> QED
  BY <1>3, <1>4, <1>7 DEF ProvisioningInv

LEMMA SyncKeeps ==
    ASSUME ProvisioningInv, NEW o \in Operations, DcUpdateTenant(o)
    PROVE  ProvisioningInv'
<1> DEFINE d == operation[o].id
<1>1. /\ operation[o].at = "sync" /\ operation[o] \in Request /\ d \in Ids /\ operation[o].status \in Statuses
      /\ UNCHANGED <<tenantRow, late, overlaps>>
  BY DEF DcUpdateTenant, ProvisioningInv, Typed, RowInv, Request
<1>2. PICK x \in Request : /\ operation' = [operation EXCEPT ![o] = x]
                           /\ \/ x.at = "set" /\ x.by = operation[o].by /\ mishapped' = mishapped
                                 /\ dcTenants' = [dcTenants EXCEPT ![d] = operation[o].status]
                              \/ x.at = "none" /\ mishapped' = mishapped + 1
                                 /\ dcTenants' \in {dcTenants, [dcTenants EXCEPT ![d] = operation[o].status]}
  <2>1. LET s == [operation[o] EXCEPT !.at = "set"]
        IN s \in Request /\ s.at = "set" /\ s.by = operation[o].by
    BY <1>1 DEF Request
  <2> QED
    BY <2>1, NotOperatingTyped DEF DcUpdateTenant, GoTo, Over, GoesWrong
<1>3. /\ operation' \in [Operations -> Request] /\ operation'[o] = x
      /\ \A q \in Operations : q # o => operation'[q] = operation[q]
      /\ IsFiniteSet(Calling') /\ Cardinality(Calling') = Cardinality(Calling)
  BY <1>1, <1>2, OperationStep DEF ProvisioningInv
<1>4. /\ dcTenants' \in [Ids -> Statuses \cup {"none", "inactive"}]
      /\ \A e \in Ids : dcTenants'[e] = dcTenants[e] \/ (e = d /\ dcTenants'[e] # "none")
  BY <1>1, <1>2 DEF ProvisioningInv, Typed, Statuses
<1>5. mishapped' \in Nat
  BY <1>2, DebtTyped DEF ProvisioningInv
<1>6. Typed'
  BY <1>1, <1>3, <1>4, <1>5 DEF ProvisioningInv, Typed
<1>7. RowInv'
  <2>1. \A e \in Ids : dcTenants[e] # "none" => dcTenants'[e] # "none"
    BY <1>4
  <2>2. \A q \in Operations : operation'[q].at = "update" => dcTenants'[operation'[q].id] # "none"
    <3>1. \A q \in Operations : operation[q].id \in {0} \cup Ids
      BY DEF ProvisioningInv, Typed, Request
    <3> QED
      BY <1>1, <1>2, <1>3, <2>1, <3>1 DEF ProvisioningInv, RowInv
  <2> QED
    BY <1>1, <1>2, <1>3, <2>1, <2>2 DEF ProvisioningInv, RowInv, Typed
<1>8. Exposed' \subseteq Exposed
  BY <1>1, <1>2, <1>3, <1>4 DEF Exposed, Live
<1>9. Debt' <= Debt
  BY <1>1, <1>3, <1>6, <1>8, ExposedShrinks, DebtTyped, DebtTypedNext DEF ProvisioningInv, Debt
<1>10. BudgetInv'
  <2>1. CASE mishapped' = mishapped + 1
    BY <1>1, <1>6, <1>9, <2>1, Paid, DebtTyped, DebtTypedNext DEF ProvisioningInv
  <2>2. CASE mishapped' = mishapped
    <3>1. /\ o \in Syncing /\ Syncing' \subseteq Syncing /\ Deleting' = Deleting /\ Creating' = Creating
      BY <1>1, <1>2, <1>3 DEF Creating, Deleting, Syncing
    <3>2. Deleting # {} => Owing
      BY <3>1 DEF Owing
    <3>3. Owing' => Owing
      BY <1>1, <3>1, <3>2 DEF Owing
    <3> QED
      BY <1>1, <1>6, <1>9, <2>2, <3>3, Even, DebtTyped, DebtTypedNext DEF ProvisioningInv
  <2> QED
    BY <1>2, <2>1, <2>2
<1> QED
  BY <1>6, <1>7, <1>10 DEF ProvisioningInv

LEMMA DropKeeps ==
    ASSUME ProvisioningInv, NEW o \in Operations, DcDeleteTenant(o)
    PROVE  ProvisioningInv'
<1> DEFINE d == operation[o].id
           x == [operation[o] EXCEPT !.at = "delete"]
<1>1. /\ operation[o].at = "drop" /\ operation[o] \in Request /\ operation' = [operation EXCEPT ![o] = x]
      /\ UNCHANGED <<tenantRow, late, overlaps>>
      /\ \/ dcTenants' = [dcTenants EXCEPT ![d] = "inactive"] /\ mishapped' = mishapped
         \/ dcTenants' = dcTenants /\ mishapped' = mishapped + 1
  BY DEF DcDeleteTenant, GoTo, GoesWrong, ProvisioningInv, Typed
<1>2. x \in Request /\ x.at = "delete" /\ x.id = d /\ x.by = operation[o].by
  BY <1>1 DEF Request
<1> HIDE DEF x
<1>3. /\ operation' \in [Operations -> Request] /\ operation'[o] = x
      /\ \A q \in Operations : q # o => operation'[q] = operation[q]
      /\ IsFiniteSet(Calling') /\ Cardinality(Calling') = Cardinality(Calling)
  BY <1>1, <1>2, OperationStep DEF ProvisioningInv
<1>4. /\ dcTenants' \in [Ids -> Statuses \cup {"none", "inactive"}]
      /\ \A e \in Ids : dcTenants'[e] = dcTenants[e] \/ (e = d /\ dcTenants'[e] = "inactive")
      /\ mishapped' = mishapped => \A e \in Ids : e = d => dcTenants'[e] = "inactive"
  BY <1>1, DebtTyped DEF ProvisioningInv, Typed, Statuses
<1>5. mishapped' \in Nat
  BY <1>1, DebtTyped DEF ProvisioningInv
<1>6. Typed'
  BY <1>1, <1>3, <1>4, <1>5 DEF ProvisioningInv, Typed
<1>7. RowInv'
  <2>1. \A e \in Ids : dcTenants[e] # "none" => dcTenants'[e] # "none"
    BY <1>4
  <2>2. \A q \in Operations : operation'[q].at = "update" => dcTenants'[operation'[q].id] # "none"
    <3>1. \A q \in Operations : operation[q].id \in {0} \cup Ids
      BY DEF ProvisioningInv, Typed, Request
    <3> QED
      BY <1>1, <1>2, <1>3, <2>1, <3>1 DEF ProvisioningInv, RowInv
  <2> QED
    BY <1>1, <1>2, <1>3, <2>1, <2>2 DEF ProvisioningInv, RowInv, Typed
<1>8. Exposed' \subseteq Exposed
  BY <1>1, <1>2, <1>3, <1>4 DEF Exposed, Live, Statuses
<1>9. Debt' <= Debt
  BY <1>1, <1>3, <1>6, <1>8, ExposedShrinks, DebtTyped, DebtTypedNext DEF ProvisioningInv, Debt
<1>10. BudgetInv'
  <2>1. CASE mishapped' = mishapped + 1
    BY <1>1, <1>6, <1>9, <2>1, Paid, DebtTyped, DebtTypedNext DEF ProvisioningInv
  <2>2. CASE mishapped' = mishapped
    <3>1. /\ o \in Deleting /\ Syncing' = Syncing /\ Deleting' = Deleting /\ Creating' = Creating
      BY <1>1, <1>2, <1>3 DEF Creating, Deleting, Syncing
    <3>2. \A p \in Deleting : operation'[p].id = operation[p].id /\ (p # o => operation'[p] = operation[p])
      BY <1>2, <1>3 DEF Deleting
    <3>3. tenantRow.id # 0 => /\ tenantRow.id = d => ~Live(tenantRow.id)'
                              /\ Live(tenantRow.id)' => Live(tenantRow.id)
      BY <1>1, <1>4, <2>2 DEF ProvisioningInv, Typed, Live, Statuses
    <3>4. ASSUME NEW p \in Deleting, tenantRow.id # 0, operation'[p].at = "delete", Live(tenantRow.id)'
          PROVE  Owing
      <4>1. CASE p = o
        BY <3>1, <3>3, <3>4, <4>1 DEF Owing
      <4>2. CASE p # o
        BY <3>2, <3>3, <3>4, <4>2 DEF Owing
      <4> QED
        BY <4>1, <4>2
    <3>5. Owing' => Owing
      BY <1>1, <3>1, <3>2, <3>4 DEF Owing
    <3> QED
      BY <1>1, <1>6, <1>9, <2>2, <3>5, Even, DebtTyped, DebtTypedNext DEF ProvisioningInv
  <2> QED
    BY <1>1, <2>1, <2>2
<1> QED
  BY <1>6, <1>7, <1>10 DEF ProvisioningInv

LEMMA DeleteRowKeeps ==
    ASSUME ProvisioningInv, NEW o \in Operations, DeleteTenant(o)
    PROVE  ProvisioningInv'
<1>1. /\ operation[o].at = "delete" /\ operation[o] \in Request
      /\ Over(o) /\ UNCHANGED <<dcTenants, late, overlaps>> /\ tenantRow.state # "none"
  BY DEF DeleteTenant, ProvisioningInv, Typed, RowInv
<1>2. \/ RowExists /\ tenantRow' = [tenantRow EXCEPT !.state = "deleted", !.id = 0] /\ mishapped' = mishapped
      \/ tenantRow' = tenantRow /\ mishapped' \in {mishapped, mishapped + 1}
  BY DEF DeleteTenant, GoesWrong
<1>3. /\ tenantRow' \in [state : {"none", "pending", "failed", "provisioned", "deleted"},
                         id : {0} \cup Ids, status : Statuses]
      /\ tenantRow'.id \in {0, tenantRow.id} /\ mishapped' \in {mishapped, mishapped + 1}
      /\ \/ tenantRow' = tenantRow
         \/ tenantRow'.state = "deleted" /\ tenantRow'.id = 0 /\ RowExists /\ mishapped' = mishapped
  BY <1>2 DEF ProvisioningInv, Typed
<1>4. /\ Typed' /\ Exposed' \subseteq Exposed /\ Debt' <= Debt
      /\ operation'[o] = NotOperating /\ \A q \in Operations : q # o => operation'[q] = operation[q]
      /\ Cardinality(Calling') = Cardinality(Calling)
  BY <1>1, <1>3, OverStep
<1>5. RowInv'
  BY <1>1, <1>3, <1>4, NotOperatingTyped DEF ProvisioningInv, RowInv
<1>6. /\ o \in Deleting /\ Syncing' = Syncing /\ Deleting' \subseteq Deleting /\ Creating' = Creating
  BY <1>1, <1>4, NotOperatingTyped DEF Creating, Deleting, Syncing
<1>7. BudgetInv'
  <2>1. CASE mishapped' = mishapped + 1
    BY <1>1, <1>4, <2>1, Paid, DebtTyped, DebtTypedNext DEF ProvisioningInv
  <2>2. CASE tenantRow' = tenantRow /\ mishapped' = mishapped
    <3>1. \A p \in Deleting' : operation'[p] = operation[p]
      BY <1>4, NotOperatingTyped DEF Deleting
    <3>2. Owing' => Owing
      BY <1>1, <1>6, <2>2, <3>1 DEF Owing, Live
    <3> QED
      BY <1>1, <1>4, <2>2, <3>2, Even, DebtTyped, DebtTypedNext DEF ProvisioningInv
  <2>3. CASE tenantRow'.id = 0 /\ mishapped' = mishapped
    <3>1. CASE Owing
      BY <1>1, <1>4, <2>3, <3>1, Even, DebtTyped, DebtTypedNext DEF ProvisioningInv
    <3>2. CASE ~Owing
      <4>1. Creating = {} /\ Syncing = {}
        BY <1>6, <3>2 DEF Owing
      <4>2. tenantRow.id \in Ids /\ ~Live(tenantRow.id)
        BY <1>1, <1>6, <3>2, <4>1 DEF Owing, ProvisioningInv, Typed
      <4>3. tenantRow.id \in Exposed /\ tenantRow.id \notin Exposed'
        BY <1>1, <1>4, <2>3, <4>1, <4>2, IdsFinite, NotOperatingTyped DEF Exposed, Live, Creating, Syncing
      <4>4. Cardinality(Exposed') <= Cardinality(Exposed) - 1
        <5>1. Exposed' \subseteq Exposed \ {tenantRow.id}
          BY <1>4, <4>3
        <5>2. IsFiniteSet(Exposed \ {tenantRow.id})
              /\ Cardinality(Exposed \ {tenantRow.id}) = Cardinality(Exposed) - 1
          BY <4>3, ExposedCounts, FS_RemoveElement
        <5>3. Cardinality(Exposed') <= Cardinality(Exposed \ {tenantRow.id})
          BY <5>1, <5>2, FS_Subset
        <5> QED
          BY <5>2, <5>3
      <4>5. Debt' + 1 <= Debt
        BY <1>1, <1>4, <4>4, DebtTyped, DebtTypedNext DEF ProvisioningInv, Debt
      <4> QED
        BY <1>1, <1>4, <2>3, <4>5, Paid, DebtTyped, DebtTypedNext DEF ProvisioningInv
    <3> QED
      BY <3>1, <3>2
  <2> QED
    BY <1>3, <2>1, <2>2, <2>3
<1> QED
  BY <1>4, <1>5, <1>7 DEF ProvisioningInv

LEMMA StepProvisioningInv == ProvisioningInv /\ [ProvisioningNext]_provisioningVars => ProvisioningInv'
<1> SUFFICES ASSUME ProvisioningInv, [ProvisioningNext]_provisioningVars PROVE ProvisioningInv'
  OBVIOUS
<1>1. CASE UNCHANGED provisioningVars
  <2>1. /\ Exposed' = Exposed /\ Calling' = Calling /\ Creating' = Creating
        /\ Deleting' = Deleting /\ Syncing' = Syncing
    BY <1>1 DEF provisioningVars, Exposed, Live, Calling, Creating, Deleting, Syncing
  <2>2. Typed' /\ RowInv'
    BY <1>1, <2>1 DEF provisioningVars, ProvisioningInv, Typed, RowInv
  <2>3. Owing' => Owing
    BY <1>1, <2>1 DEF provisioningVars, Owing, Live
  <2>4. Debt' = Debt
    BY <1>1, <2>1 DEF provisioningVars, Debt
  <2> QED
    BY <1>1, <2>2, <2>3, <2>4, Even, DebtTyped, DebtTypedNext DEF provisioningVars, ProvisioningInv
<1> QED
  BY <1>1, BeginKeeps, CreationKeeps, CallKeeps, LateKeeps, ProvisionedKeeps, FailedKeeps, SyncKeeps,
     DropKeeps, DeleteRowKeeps DEF ProvisioningNext

(* Each tenant of the data center that the backoffice does not know has    *)
(* cost a failed step or a request that overlapped another, for any number *)
(* of requests, tenants and faults.                                        *)
THEOREM StrandedTenantsCost == ProvisioningSpec => []StrandedTenantsAccounted
<1> DEFINE U == {d \in Ids : Unclaimed(d)}
<1>1. ASSUME ProvisioningInv PROVE StrandedTenantsAccounted
  <2>1. /\ IsFiniteSet(Exposed) /\ U \subseteq Exposed /\ Cardinality(Exposed) \in Nat
        /\ mishapped \in Nat /\ overlaps \in Nat /\ late \in Nat /\ Cardinality(Calling) \in Nat
        /\ Debt <= mishapped + overlaps + 1 /\ Debt \in Nat
        /\ Owing => Debt <= mishapped + overlaps
    BY <1>1, ExposedCounts, DebtTyped DEF Exposed, Unclaimed, Live, ProvisioningInv, BudgetInv
  <2>2. Cardinality(U) \in Nat /\ Cardinality(U) <= Cardinality(Exposed)
    BY <2>1, FS_Subset, FS_CardinalityType
  <2>3. CASE Owing \/ Calling # {}
    <3>1. Calling # {} => Cardinality(Calling) >= 1
      <4>1. Calling # {} => Cardinality(Calling) # 0
        BY <1>1, FS_EmptySet DEF ProvisioningInv, Typed
      <4> QED
        BY <2>1, <4>1
    <3> QED
      BY <2>1, <2>2, <2>3, <3>1 DEF Debt, StrandedTenantsAccounted
  <2>4. CASE ~Owing /\ Calling = {}
    <3>1. \E d \in Exposed : d \notin U
      <4>1. CASE tenantRow.id # 0
        BY <1>1, <4>1 DEF Exposed, Unclaimed, ProvisioningInv, Typed
      <4>2. CASE tenantRow.id = 0
        <5>1. PICK o \in Operations : operation[o].at = "update"
          BY <2>4, <4>2 DEF Owing, Creating, Calling
        <5> QED
          BY <1>1, <5>1 DEF Exposed, Unclaimed, ProvisioningInv, Typed, RowInv, Request
      <4> QED
        BY <4>1, <4>2
    <3>2. PICK d \in Exposed : d \notin U
      BY <3>1
    <3>3. IsFiniteSet(Exposed \ {d}) /\ Cardinality(Exposed \ {d}) = Cardinality(Exposed) - 1
      BY <2>1, FS_RemoveElement
    <3>4. U \subseteq Exposed \ {d}
      BY <2>1, <3>2
    <3>5. Cardinality(U) <= Cardinality(Exposed \ {d})
      BY <3>3, <3>4, FS_Subset
    <3> QED
      BY <2>1, <2>2, <3>3, <3>5 DEF Debt, StrandedTenantsAccounted
  <2> QED
    BY <2>3, <2>4
<1> QED
  BY <1>1, InitProvisioningInv, StepProvisioningInv, PTL DEF ProvisioningSpec

-----------------------------------------------------------------------------
(* Credential sources and their resolution (Credentials).                  *)

(* What an update has read is what the row was given last, unless another  *)
(* gift came after the read or the row already holds an older one; a row   *)
(* once deleted does not come back under its id.                           *)
ReadKept(request) ==
    /\ request.row \in Sources /\ given[request.row] # NoSource
    /\ request.overtaken \/ request.row \in reverted \/ request.read = given[request.row]

RowsKept ==
    \A s \in Sources : Exists(s) =>
        given[s] # NoSource /\ (secret[s] = given[s] \/ s \in reverted)

ReadsKept == \A c \in Clients : client[c].op = "update" => ReadKept(client[c])

RowsReferred ==
    /\ link # NoSource => Exists(link)
    /\ \A m \in mappings : Exists(m[2])

CredInv == CredentialsTypeOK /\ RowsKept /\ ReadsKept /\ RowsReferred

Client == [op : {"none", "update", "put", "drop"}, row : Sources \cup {NoSource},
           read : Given, overtaken : BOOLEAN]

LEMMA InitCredInv == CredentialsInit => CredInv
<1> SUFFICES ASSUME CredentialsInit PROVE CredInv
  OBVIOUS
<1>1. Idle \in Client /\ Idle.op = "none"
  BY DEF Idle, Client, Given, Masked
<1>2. MaxRequests \in Nat
  BY CredentialsAssumption
<1>3. CredentialsTypeOK
  BY <1>1, <1>2 DEF CredentialsInit, CredentialsTypeOK, Client
<1>4. RowsKept /\ ReadsKept /\ RowsReferred
  BY <1>1 DEF CredentialsInit, RowsKept, ReadsKept, RowsReferred, Exists
<1> QED
  BY <1>3, <1>4 DEF CredInv

(* A request begins or ends; the rows stay. *)
LEMMA ClientCredInv ==
    ASSUME CredInv, NEW c \in Clients, NEW request \in Client,
           client' = [client EXCEPT ![c] = request], started' \in 0 .. MaxRequests,
           request.op = "update" => ReadKept(request),
           UNCHANGED <<secret, given, reverted, mappings, link>>
    PROVE  CredInv'
<1>1. client \in [Clients -> Client]
  BY DEF CredInv, CredentialsTypeOK, Client
<1>2. client' \in [Clients -> Client]
  BY <1>1
<1>3. CredentialsTypeOK'
  BY <1>2 DEF CredInv, CredentialsTypeOK, Client
<1>4. \A d \in Clients : client'[d] = IF d = c THEN request ELSE client[d]
  BY <1>1
<1>5. ReadsKept'
  BY <1>4 DEF CredInv, ReadsKept, ReadKept
<1>6. RowsKept' /\ RowsReferred'
  BY DEF CredInv, RowsKept, RowsReferred, Exists
<1> QED
  BY <1>3, <1>5, <1>6 DEF CredInv

(* A row is deleted, with all that refers to it. *)
LEMMA RemoveCredInv ==
    ASSUME CredInv, NEW s, Remove(s), link' \in Sources \cup {NoSource},
           link' = NoSource \/ (link' = link /\ link # s), UNCHANGED started,
           UNCHANGED client \/ \E c \in Clients : client' = [client EXCEPT ![c] = Idle]
    PROVE  CredInv'
<1>1. client \in [Clients -> Client] /\ Idle \in Client /\ Idle.op = "none"
  BY DEF CredInv, CredentialsTypeOK, Client, Idle, Given, Masked
<1>2. client' \in [Clients -> Client]
      /\ \A c \in Clients : client'[c] = client[c] \/ client'[c].op = "none"
  BY <1>1
<1>3. /\ secret' \in [Sources -> Given \cup {NoSource}]
      /\ mappings' \subseteq mappings /\ \A m \in mappings' : m[2] # s
      /\ \A t \in Sources : secret'[t] = IF t = s THEN NoSource ELSE secret[t]
      /\ given' = given /\ reverted' = reverted
  BY DEF CredInv, CredentialsTypeOK, Remove
<1>4. CredentialsTypeOK'
  BY <1>2, <1>3 DEF CredInv, CredentialsTypeOK, Client
<1>5. RowsKept'
  BY <1>3 DEF CredInv, RowsKept, Exists
<1>6. ReadsKept'
  BY <1>2, <1>3 DEF CredInv, ReadsKept, ReadKept
<1>7. \A m \in mappings' : m[2] \in Sources
  BY <1>3 DEF CredInv, CredentialsTypeOK, Mapping
<1>8. RowsReferred'
  BY <1>3, <1>7 DEF CredInv, CredentialsTypeOK, RowsReferred, Exists
<1> QED
  BY <1>4, <1>5, <1>6, <1>8 DEF CredInv

(* A new row is given its first secret. *)
LEMMA InsertCredInv ==
    ASSUME CredInv, NEW s \in Sources, NEW k \in Given, Insert(s, k),
           link' \in {link, s}, UNCHANGED <<mappings, started>>,
           UNCHANGED client \/ \E c \in Clients : client' = [client EXCEPT ![c] = Idle]
    PROVE  CredInv'
<1>1. client \in [Clients -> Client] /\ Idle \in Client /\ Idle.op = "none"
  BY DEF CredInv, CredentialsTypeOK, Client, Idle, Given, Masked
<1>2. client' \in [Clients -> Client]
      /\ \A c \in Clients : client'[c] = client[c] \/ client'[c].op = "none"
  BY <1>1
<1>3. k # NoSource
  BY CredentialsAssumption
<1>4. /\ secret' \in [Sources -> Given \cup {NoSource}]
      /\ given' \in [Sources -> Given \cup {NoSource}]
      /\ \A t \in Sources : secret'[t] = IF t = s THEN k ELSE secret[t]
      /\ \A t \in Sources : given'[t] = IF t = s THEN k ELSE given[t]
      /\ given[s] = NoSource /\ reverted' = reverted
  BY DEF CredInv, CredentialsTypeOK, Insert
<1>5. CredentialsTypeOK'
  BY <1>2, <1>4 DEF CredInv, CredentialsTypeOK, Client
<1>6. RowsKept'
  BY <1>3, <1>4 DEF CredInv, RowsKept, Exists
<1>7. ReadsKept'
  BY <1>2, <1>4 DEF CredInv, ReadsKept, ReadKept
<1>8. \A m \in mappings' : m[2] \in Sources
  BY DEF CredInv, CredentialsTypeOK, Mapping
<1>9. RowsReferred'
  BY <1>3, <1>4, <1>8 DEF CredInv, CredentialsTypeOK, RowsReferred, Exists
<1> QED
  BY <1>5, <1>6, <1>7, <1>9 DEF CredInv

(* A row is given another secret, and overtakes the updates that read it.  *)
LEMMA GiveCredInv ==
    ASSUME CredInv, NEW c \in Clients, NEW s \in Sources, NEW k \in Given, Exists(s),
           Give(c, s, k), UNCHANGED <<mappings, link>>
    PROVE  CredInv'
<1>1. client \in [Clients -> Client] /\ Idle \in Client /\ Idle.op = "none"
  BY DEF CredInv, CredentialsTypeOK, Client, Idle, Given, Masked
<1>2. \A d \in Clients :
        client'[d] = IF d = c THEN Idle
                     ELSE [client[d] EXCEPT !.overtaken = client[d].overtaken \/ client[d].row = s]
  BY DEF Give
<1>3. ASSUME NEW d \in Clients, d # c
      PROVE  /\ client'[d] \in Client
             /\ client'[d].op = client[d].op /\ client'[d].row = client[d].row
             /\ client'[d].read = client[d].read
             /\ client[d].overtaken => client'[d].overtaken
             /\ client[d].row = s => client'[d].overtaken
  <2>1. PICK old \in Client : old = client[d]
    BY <1>1
  <2>2. client'[d] = [old EXCEPT !.overtaken = old.overtaken \/ old.row = s]
    BY <1>2, <1>3, <2>1
  <2> QED
    BY <2>1, <2>2 DEF Client
<1>4. client' \in [Clients -> Client]
  <2>1. \A d \in Clients : client'[d] \in Client
    BY <1>1, <1>2, <1>3
  <2>2. client' = [d \in Clients |-> client'[d]]
    BY DEF Give
  <2> QED
    BY <2>1, <2>2
<1>5. k # NoSource
  BY CredentialsAssumption
<1>6. /\ secret' \in [Sources -> Given \cup {NoSource}]
      /\ given' \in [Sources -> Given \cup {NoSource}]
      /\ \A t \in Sources : secret'[t] = IF t = s THEN k ELSE secret[t]
      /\ \A t \in Sources : given'[t] = IF t = s THEN k ELSE given[t]
      /\ reverted' = reverted \ {s} /\ started' = started
  BY DEF CredInv, CredentialsTypeOK, Give
<1>7. CredentialsTypeOK'
  BY <1>4, <1>6 DEF CredInv, CredentialsTypeOK, Client
<1>8. RowsKept'
  BY <1>5, <1>6 DEF CredInv, RowsKept, Exists
<1>9. ASSUME NEW d \in Clients, client'[d].op = "update" PROVE ReadKept(client[d])'
  <2>1. d # c
    BY <1>1, <1>2, <1>9
  <2>2. ReadKept(client[d])
    BY <1>3, <1>9, <2>1 DEF CredInv, ReadsKept
  <2> QED
    BY <1>3, <1>5, <1>6, <2>1, <2>2 DEF ReadKept
<1>10. ReadsKept'
  BY <1>9 DEF ReadsKept
<1>11. \A m \in mappings' : m[2] \in Sources
  BY DEF CredInv, CredentialsTypeOK, Mapping
<1>12. RowsReferred'
  BY <1>5, <1>6, <1>11 DEF CredInv, CredentialsTypeOK, RowsReferred, Exists
<1> QED
  BY <1>7, <1>8, <1>10, <1>12 DEF CredInv

(* An update that leaves the secret masked writes back the one it read. *)
LEMMA WriteBackCredInv ==
    ASSUME CredInv, NEW c \in Clients, NEW s \in Sources, NEW incoming \in Masked,
           Exists(s), client[c].op = "update", s = client[c].row,
           WriteBack(c, s, incoming), UNCHANGED <<mappings, link>>
    PROVE  CredInv'
<1>1. client \in [Clients -> Client] /\ Idle \in Client /\ Idle.op = "none"
  BY DEF CredInv, CredentialsTypeOK, Client, Idle, Given, Masked
<1>2. client' \in [Clients -> Client]
      /\ \A d \in Clients : client'[d] = client[d] \/ client'[d].op = "none"
  BY <1>1 DEF WriteBack, Finish
<1>3. PICK read \in Given : read = client[c].read
  BY <1>1 DEF Client
<1>4. read # NoSource
  BY CredentialsAssumption
<1>5. /\ secret' = [secret EXCEPT ![s] = read]
      /\ reverted' = IF client[c].overtaken THEN reverted \cup {s} ELSE reverted
      /\ given' = given /\ started' = started
  BY <1>3 DEF WriteBack, MergeSecret, Finish
<1>6. /\ secret' \in [Sources -> Given \cup {NoSource}]
      /\ \A t \in Sources : secret'[t] = IF t = s THEN read ELSE secret[t]
      /\ reverted \subseteq reverted' /\ reverted' \subseteq Sources
  BY <1>5 DEF CredInv, CredentialsTypeOK
<1>7. CredentialsTypeOK'
  BY <1>2, <1>5, <1>6 DEF CredInv, CredentialsTypeOK, Client
<1>8. given[s] # NoSource /\ (s \in reverted' \/ read = given[s])
  BY <1>3, <1>5, <1>6 DEF CredInv, ReadsKept, ReadKept
<1>9. RowsKept'
  BY <1>5, <1>6, <1>8 DEF CredInv, RowsKept, Exists
<1>10. ReadsKept'
  BY <1>2, <1>5, <1>6 DEF CredInv, ReadsKept, ReadKept
<1>11. \A m \in mappings' : m[2] \in Sources
  BY DEF CredInv, CredentialsTypeOK, Mapping
<1>12. RowsReferred'
  BY <1>4, <1>6, <1>11 DEF CredInv, CredentialsTypeOK, RowsReferred, Exists
<1> QED
  BY <1>7, <1>9, <1>10, <1>12 DEF CredInv

LEMMA StepCredInv == CredInv /\ [CredentialsNext]_credVars => CredInv'
<1> SUFFICES ASSUME CredInv, [CredentialsNext]_credVars PROVE CredInv'
  OBVIOUS
<1>a. /\ client \in [Clients -> Client] /\ Idle \in Client /\ Idle.op = "none"
      /\ secret \in [Sources -> Given \cup {NoSource}]
      /\ link \in Sources \cup {NoSource} /\ NoSource \notin Sources
      /\ started \in 0 .. MaxRequests /\ MaxRequests \in Nat
      /\ Static \subseteq Sources /\ Blank \in Given
  BY CredentialsAssumption DEF CredInv, CredentialsTypeOK, Client, Idle, Given, Masked, Static
<1>1. ASSUME NEW s \in Sources, NEW k \in Given, CreateSource(s, k) PROVE CredInv'
  BY <1>1, InsertCredInv DEF CreateSource
<1>2. ASSUME NEW s \in Sources, DeleteSource(s) PROVE CredInv'
  <2>1. Remove(s) /\ UNCHANGED <<client, started>>
        /\ link' \in Sources \cup {NoSource} /\ (link' = NoSource \/ (link' = link /\ link # s))
    BY <1>a, <1>2 DEF DeleteSource
  <2> QED
    BY <2>1, RemoveCredInv
<1>3. ASSUME NEW c \in Clients, NEW op \in {"update", "put", "drop"},
             NEW s \in Sources \cup {NoSource}, NEW read \in Given, Start(c, op, s, read),
             op = "update" => s \in Sources /\ Exists(s) /\ read = secret[s]
      PROVE  CredInv'
  <2> DEFINE request == [op |-> op, row |-> s, read |-> read, overtaken |-> FALSE]
  <2>1. request \in Client /\ request.op = op /\ request.row = s /\ request.read = read
    BY DEF Client
  <2>2. /\ client' = [client EXCEPT ![c] = request] /\ started' \in 0 .. MaxRequests
        /\ UNCHANGED <<secret, given, reverted, mappings, link>>
    BY <1>a, <1>3 DEF Start
  <2> HIDE DEF request
  <2>3. request.op = "update" => ReadKept(request)
    BY <1>3, <2>1 DEF CredInv, RowsKept, ReadKept
  <2> QED
    BY <2>1, <2>2, <2>3, ClientCredInv
<1>4. ASSUME NEW c \in Clients, NEW s \in Sources, UpdateRead(c, s) PROVE CredInv'
  <2>1. secret[s] \in Given /\ Exists(s) /\ Start(c, "update", s, secret[s])
    BY <1>a, <1>4 DEF UpdateRead, Exists
  <2> QED
    BY <1>3, <2>1
<1>5. ASSUME NEW c \in Clients, PutLookup(c) \/ DropLookup(c) PROVE CredInv'
  BY <1>a, <1>3, <1>5 DEF PutLookup, DropLookup
<1>6. ASSUME NEW c \in Clients, Finish(c),
             UNCHANGED <<secret, given, reverted, mappings, link>>
      PROVE  CredInv'
  BY <1>a, <1>6, ClientCredInv DEF Finish
<1>7. ASSUME NEW c \in Clients, NEW incoming \in Given, UpdateSource(c, incoming)
      PROVE  CredInv'
  <2> DEFINE s == client[c].row
  <2>1. client[c].op = "update" /\ UNCHANGED <<mappings, link>> /\ s \in Sources
    BY <1>7 DEF UpdateSource, CredInv, ReadsKept, ReadKept
  <2>2. CASE ~Exists(s)
    BY <1>6, <1>7, <2>1, <2>2 DEF UpdateSource
  <2>3. CASE Exists(s) /\ incoming \notin Masked
    <3>1. Give(c, s, incoming)
      BY <1>7, <2>3 DEF UpdateSource, MergeSecret
    <3> HIDE DEF s
    <3> QED
      BY <2>1, <2>3, <3>1, GiveCredInv
  <2>4. CASE Exists(s) /\ incoming \in Masked
    <3>1. WriteBack(c, s, incoming)
      BY <1>7, <2>4 DEF UpdateSource
    <3> QED
      BY <2>1, <2>4, <3>1, WriteBackCredInv
  <2> QED
    BY <2>2, <2>3, <2>4
<1>8. ASSUME NEW c \in Clients, NEW k \in Given, UpsertStaticCredentialSource(c, k)
      PROVE  CredInv'
  <2> DEFINE s == client[c].row
  <2>1. UNCHANGED mappings
    BY <1>8 DEF UpsertStaticCredentialSource
  <2>2. CASE s = NoSource
    <3>1. s \notin Static /\ s \notin Sources
      BY <1>a, <2>2
    <3>2. Finish(c) /\ \E new \in Static : Insert(new, k) /\ link' = new
      BY <1>8, <3>1 DEF UpsertStaticCredentialSource
    <3>3. PICK new \in Static : Insert(new, k) /\ link' = new
      BY <3>2
    <3> QED
      BY <1>a, <2>1, <3>2, <3>3, InsertCredInv DEF Finish
  <2>3. CASE s # NoSource /\ s \in Static /\ Exists(s)
    <3>1. Give(c, s, k) /\ UNCHANGED link /\ s \in Sources
      BY <1>a, <1>8, <2>3 DEF UpsertStaticCredentialSource
    <3> HIDE DEF s
    <3> QED
      BY <2>1, <2>3, <3>1, GiveCredInv
  <2>4. CASE s # NoSource /\ ~(s \in Static /\ Exists(s))
    <3>1. Finish(c) /\ UNCHANGED <<secret, given, reverted, link>>
      BY <1>8, <2>4 DEF UpsertStaticCredentialSource
    <3> QED
      BY <1>6, <2>1, <3>1
  <2> QED
    BY <2>2, <2>3, <2>4
<1>9. ASSUME NEW c \in Clients, DeleteCredentialForTarget(c) PROVE CredInv'
  <2> DEFINE s == client[c].row
  <2>1. Remove(s) /\ link' = NoSource
    BY <1>9 DEF DeleteCredentialForTarget
  <2>2. client' = [client EXCEPT ![c] = Idle] /\ UNCHANGED started
    BY <1>9 DEF DeleteCredentialForTarget, Finish
  <2> HIDE DEF s
  <2> QED
    BY <2>1, <2>2, RemoveCredInv
<1>10. ASSUME NEW m \in Mapping, CreateMapping(m) \/ DeleteMapping(m) PROVE CredInv'
  <2>1. /\ mappings' \subseteq mappings \cup {m} /\ (mappings' \subseteq mappings \/ Exists(m[2]))
        /\ UNCHANGED <<secret, given, reverted, link, client, started>>
    BY <1>10 DEF CreateMapping, DeleteMapping
  <2>2. CredentialsTypeOK'
    BY <2>1 DEF CredInv, CredentialsTypeOK
  <2>3. RowsKept' /\ ReadsKept'
    BY <2>1 DEF CredInv, RowsKept, ReadsKept, ReadKept, Exists
  <2>4. RowsReferred'
    BY <2>1 DEF CredInv, RowsReferred, Exists
  <2> QED
    BY <2>2, <2>3, <2>4 DEF CredInv
<1>11. CASE UNCHANGED credVars
  BY <1>11 DEF credVars, CredInv, CredentialsTypeOK, RowsKept, ReadsKept, ReadKept,
               RowsReferred, Exists
<1> QED
  BY <1>1, <1>2, <1>4, <1>5, <1>7, <1>8, <1>9, <1>10, <1>11 DEF CredentialsNext

(* The secret a scan is sent is the one its row was given last, unless an  *)
(* update wrote back what it had read before that was given: for any       *)
(* number of sources, clients and requests, and whatever is given, masked  *)
(* values included.                                                        *)
THEOREM SecretsAreIntended == CredentialsSpec => []ScanSecretIsIntended
<1>1. CredInv => ScanSecretIsIntended
  <2> SUFFICES ASSUME CredInv, NEW s \in ScanSources
               PROVE  Exists(s) /\ (secret[s] = given[s] \/ s \in reverted)
    BY DEF ScanSecretIsIntended
  <2>1. s \in Sources /\ Exists(s)
    BY DEF ScanSources, ResolveCredentialForEndpoint, CredInv, CredentialsTypeOK,
           RowsReferred, Mapping
  <2> QED
    BY <2>1 DEF CredInv, RowsKept
<1> QED
  BY <1>1, InitCredInv, StepCredInv, PTL DEF CredentialsSpec
=============================================================================
