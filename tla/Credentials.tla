----------------------------- MODULE Credentials -----------------------------
(***************************************************************************)
(* Credential sources of a tenant, their mappings and the resolution for a *)
(* scan of one endpoint or of one target.  Reads replace a secret by a     *)
(* sentinel; updates read the row, merge and write it back.  A row's       *)
(* statements are atomic, a handler's are not.                             *)
(***************************************************************************)
EXTENDS Naturals

CONSTANTS
    Sources, SourceType, \* credential_sources rows that may exist, and their types
    NoSource,
    Secrets,             \* what a client may supply, besides masked values
    Clients,             \* requests in flight
    MaxRequests          \* bound: requests started

Blank == ""
Sentinel == "(set)"
Masked == {Blank, Sentinel}   \* what a read, or a form, puts in a secret's place
Given == Secrets \cup Masked
Static == {s \in Sources : SourceType[s] = "static"}
Resolvable == {"static", "aws_secrets_manager"}   \* resolvableSourceTypes
Collection == 3
Levels == 1 .. Collection   \* scope_kind: endpoint, asset, collection
Mapping == Levels \X Sources

ASSUME CredentialsAssumption ==
    /\ SourceType \in [Sources -> Resolvable \cup {"hashicorp_vault", "slack"}]
    /\ NoSource \notin Sources \cup Given /\ MaxRequests \in Nat

VARIABLES
    secret,    \* what each row stores; NoSource without a row
    given,     \* what a request last gave the row to store (history)
    reverted,  \* rows with an older gift written back over the last (history)
    mappings,  \* credential_mappings that cover the endpoint
    link,      \* targets.credential_source_id
    client,    \* each request: what it does, on which row, what it read, and
               \* whether the row was given a secret after that (history)
    started
credVars == <<secret, given, reverted, mappings, link, client, started>>

Idle == [op |-> "none", row |-> NoSource, read |-> Blank, overtaken |-> FALSE]

CredentialsTypeOK ==
    /\ secret \in [Sources -> Given \cup {NoSource}]
    /\ given \in [Sources -> Given \cup {NoSource}]
    /\ reverted \subseteq Sources
    /\ mappings \subseteq Mapping /\ link \in Sources \cup {NoSource}
    /\ client \in [Clients -> [op : {"none", "update", "put", "drop"},
                               row : Sources \cup {NoSource}, read : Given,
                               overtaken : BOOLEAN]]
    /\ started \in 0 .. MaxRequests

CredentialsInit ==
    /\ secret = [s \in Sources |-> NoSource] /\ given = secret /\ reverted = {}
    /\ mappings = {} /\ link = NoSource
    /\ client = [c \in Clients |-> Idle] /\ started = 0

Exists(s) == secret[s] # NoSource

Finish(c) == client' = [client EXCEPT ![c] = Idle] /\ UNCHANGED started

(* Ids are fresh: a deleted row does not come back. *)
Insert(s, k) ==
    /\ given[s] = NoSource
    /\ secret' = [secret EXCEPT ![s] = k] /\ given' = [given EXCEPT ![s] = k]
    /\ UNCHANGED reverted

(* A request of c's gives a row another secret; updates have read it before.*)
Give(c, s, k) ==
    /\ secret' = [secret EXCEPT ![s] = k] /\ given' = [given EXCEPT ![s] = k]
    /\ reverted' = reverted \ {s}
    /\ client' = [d \in Clients |->
                    IF d = c THEN Idle
                    ELSE [client[d] EXCEPT !.overtaken = @ \/ client[d].row = s]]
    /\ UNCHANGED started

(* Foreign keys: mappings cascade, targets are set to NULL. *)
Remove(s) ==
    /\ secret' = [t \in Sources |-> IF t = s THEN NoSource ELSE secret[t]]
    /\ UNCHANGED <<given, reverted>>
    /\ mappings' = {m \in mappings : m[2] # s}

(* encryptStaticConfig refuses an empty password, and nothing else is      *)
(* refused: a masked value of a new row is stored as it is.                *)
CreateSource(s, k) ==
    /\ s \in Static => k # Blank
    /\ Insert(s, k) /\ UNCHANGED <<mappings, link, client, started>>

DeleteSource(s) ==
    /\ Exists(s) /\ Remove(s)
    /\ link' = IF link = s THEN NoSource ELSE link
    /\ UNCHANGED <<client, started>>

Start(c, op, row, read) ==
    /\ client[c] = Idle /\ started < MaxRequests /\ started' = started + 1
    /\ client' = [client EXCEPT ![c] =
                    [op |-> op, row |-> row, read |-> read, overtaken |-> FALSE]]
    /\ UNCHANGED <<secret, given, reverted, mappings, link>>

(* UpdateSource reads the row ... *)
UpdateRead(c, s) == Exists(s) /\ Start(c, "update", s, secret[s])

(* A plausible bug: only a blank secret keeps the stored one. *)
MergeBlank(read, incoming) == IF incoming = Blank THEN read ELSE incoming

(* ... keeps its secret where the request has a blank or the sentinel ...  *)
MergeSecret(read, incoming) == IF incoming \in Masked THEN read ELSE incoming

(* ... and writes it back, if it is still there. *)
WriteBack(c, s, incoming) ==
    /\ secret' = [secret EXCEPT ![s] = MergeSecret(client[c].read, incoming)]
    /\ reverted' = IF client[c].overtaken THEN reverted \cup {s} ELSE reverted
    /\ UNCHANGED given /\ Finish(c)

UpdateSource(c, incoming) ==
    /\ client[c].op = "update" /\ UNCHANGED <<mappings, link>>
    /\ LET s == client[c].row
       IN \/ ~Exists(s) /\ Finish(c) /\ UNCHANGED <<secret, given, reverted>>
          \/ Exists(s) /\ incoming \notin Masked /\ Give(c, s, MergeSecret(client[c].read, incoming))
          \/ Exists(s) /\ incoming \in Masked /\ WriteBack(c, s, incoming)

(* UpsertStaticCredentialSource and DeleteCredentialForTarget look up the  *)
(* target's row in one statement and change it in others.                  *)
PutLookup(c) == Start(c, "put", link, Blank)
DropLookup(c) == link \in Static /\ Start(c, "drop", link, Blank)

(* Put refuses empty data only, and what it stores is not looked into. *)
UpsertStaticCredentialSource(c, k) ==
    /\ client[c].op = "put" /\ UNCHANGED mappings
    /\ LET s == client[c].row
       IN \/ s = NoSource /\ Finish(c) /\ \E new \in Static : Insert(new, k) /\ link' = new
          \/ s \in Static /\ Exists(s) /\ Give(c, s, k) /\ UNCHANGED link
          \/ /\ s \in Sources /\ ~(s \in Static /\ Exists(s))
             /\ Finish(c) /\ UNCHANGED <<secret, given, reverted, link>>

DeleteCredentialForTarget(c) ==
    /\ client[c].op = "drop" /\ Finish(c)
    /\ link' = NoSource /\ Remove(client[c].row)

CreateMapping(m) ==
    /\ Exists(m[2]) /\ m \notin mappings /\ mappings' = mappings \cup {m}
    /\ UNCHANGED <<secret, given, reverted, link, client, started>>

DeleteMapping(m) ==
    /\ m \in mappings /\ mappings' = mappings \ {m}
    /\ UNCHANGED <<secret, given, reverted, link, client, started>>

At(level) == {m \in mappings : m[1] = level}
Usable(m) == SourceType[m[2]] \in Resolvable

(* resolveBySQL takes any one row of a level and gives up on the level if  *)
(* its type is not resolvable; the collection level goes through its rows. *)
MayPass(level) ==
    \/ At(level) = {}
    \/ level # Collection /\ \E m \in At(level) : ~Usable(m)
    \/ \A m \in At(level) : ~Usable(m)

(* The mappings whose source a directive for the endpoint may carry; none  *)
(* of them when every level is passed.                                     *)
ResolveCredentialForEndpoint ==
    {m \in mappings : Usable(m) /\ \A k \in 1 .. (m[1] - 1) : MayPass(k)}

(* The rows fetchCredentialForDirective may take: the target's own, then   *)
(* one that is mapped to its endpoint.                                     *)
ScanSources == ({link} \ {NoSource}) \cup {m[2] : m \in ResolveCredentialForEndpoint}

CredentialsNext ==
    \/ \E s \in Sources : DeleteSource(s) \/ \E k \in Given : CreateSource(s, k)
    \/ \E c \in Clients :
         \/ \E s \in Sources : UpdateRead(c, s)
         \/ \E incoming \in Given : UpdateSource(c, incoming)
         \/ PutLookup(c) \/ DropLookup(c) \/ DeleteCredentialForTarget(c)
         \/ \E k \in Given : UpsertStaticCredentialSource(c, k)
    \/ \E m \in Mapping : CreateMapping(m) \/ DeleteMapping(m)

CredentialsSpec == CredentialsInit /\ [][CredentialsNext]_credVars

(***************************************************************************)
(* Properties                                                              *)
(***************************************************************************)

(* A scan is sent the secret its row was given last, by a create, a put or *)
(* an update that names one: an update that leaves the secret masked never *)
(* stores the mask, and brings an older secret back only if it had read    *)
(* the row before the last one was given (UpdateSource reads and writes in *)
(* two statements).  A row that was deleted meanwhile is not used.         *)
ScanSecretIsIntended ==
    \A s \in ScanSources : Exists(s) /\ (secret[s] = given[s] \/ s \in reverted)
=============================================================================
