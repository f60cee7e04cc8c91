------------------------------ MODULE AgentKeys ------------------------------
(***************************************************************************)
(* How an agent comes to be: install token, bootstrap, key rotation, the   *)
(* one discovery its first allowlist report starts, deletion.  A host runs *)
(* the agent process with the credentials it has in memory or on disk.     *)
(***************************************************************************)
EXTENDS Naturals, FiniteSets

CONSTANTS
    InstallTokens, AgentRows, Hosts, NoAgent,
    MaxKeys,     \* bound: keys generated
    MaxReports   \* bound: allowlist snapshots received

ASSUME AgentKeysAssumption ==
    /\ NoAgent \notin AgentRows /\ MaxKeys \in Nat /\ MaxReports \in Nat

VARIABLES
    tokenState, \* "valid", "used" or "expired"
    born,       \* agents created with each token
    row,        \* agents: "none", "live", "deleted"
    keyHash, nextKeyHash, keys, \* 0: NULL; keys counts those generated
    lastUsed,   \* the key each agent last connected with
    boot,       \* each host's bootstrap: "out", "asking", "consumed"
    bootToken,
    memory, disk,  \* each host's credentials
    pending,    \* agents.auto_discover_pending
    snapshot,   \* agents whose allowlist is stored
    reports,
    handling,   \* snapshots whose handler has not come to maybeAutoDiscover
    claims,     \* runs of maybeAutoDiscover that have claimed and not created yet
    definitions \* auto-discovery definitions created, for each agent
keyVars == <<tokenState, born, row, keyHash, nextKeyHash, keys, lastUsed, boot, bootToken,
             memory, disk, pending, snapshot, reports, handling, claims, definitions>>

KeyNumber == 0 .. MaxKeys
Creds == [agent : AgentRows \cup {NoAgent}, key : KeyNumber]
NoCreds == [agent |-> NoAgent, key |-> 0]

AgentKeysTypeOK ==
    /\ tokenState \in [InstallTokens -> {"valid", "used", "expired"}]
    /\ born \in [InstallTokens -> SUBSET AgentRows]
    /\ row \in [AgentRows -> {"none", "live", "deleted"}]
    /\ {keyHash, nextKeyHash, lastUsed} \subseteq [AgentRows -> KeyNumber] /\ keys \in KeyNumber
    /\ boot \in [Hosts -> {"out", "asking", "consumed"}] /\ bootToken \in [Hosts -> InstallTokens]
    /\ memory \in [Hosts -> Creds] /\ disk \in [Hosts -> Creds]
    /\ pending \subseteq AgentRows /\ snapshot \subseteq AgentRows /\ reports \in 0 .. MaxReports
    /\ {handling, claims} \subseteq [AgentRows -> 0 .. MaxReports]
    /\ definitions \in [AgentRows -> 0 .. MaxReports]

AgentKeysInit ==
    /\ tokenState = [t \in InstallTokens |-> "valid"] /\ born = [t \in InstallTokens |-> {}]
    /\ row = [a \in AgentRows |-> "none"] /\ keys = 0
    /\ keyHash = [a \in AgentRows |-> 0] /\ nextKeyHash = [a \in AgentRows |-> 0]
    /\ lastUsed = [a \in AgentRows |-> 0]
    /\ boot = [h \in Hosts |-> "out"] /\ bootToken \in [Hosts -> InstallTokens]
    /\ memory = [h \in Hosts |-> NoCreds] /\ disk = [h \in Hosts |-> NoCreds]
    /\ pending = {} /\ snapshot = {} /\ reports = 0
    /\ handling = [a \in AgentRows |-> 0] /\ claims = [a \in AgentRows |-> 0]
    /\ definitions = [a \in AgentRows |-> 0]

OnHosts == <<boot, bootToken, memory, disk>>
InKeys == <<keyHash, nextKeyHash, keys, lastUsed>>
Discovery == <<pending, snapshot, reports, handling, claims, definitions>>

ExpireToken(t) ==
    /\ tokenState[t] = "valid" /\ tokenState' = [tokenState EXCEPT ![t] = "expired"]
    /\ UNCHANGED <<born, row, InKeys, OnHosts, Discovery>>

(* EnsureCreds: what is on disk, or a bootstrap with the install token. *)
EnsureCreds(h) ==
    /\ memory[h] = NoCreds /\ boot[h] = "out"
    /\ IF disk[h] # NoCreds
       THEN memory' = [memory EXCEPT ![h] = disk[h]] /\ UNCHANGED boot
       ELSE boot' = [boot EXCEPT ![h] = "asking"] /\ UNCHANGED memory
    /\ UNCHANGED <<tokenState, born, row, InKeys, bootToken, disk, Discovery>>

(* A plausible bug, the order the handler's comment first considers: the   *)
(* token is looked at now and marked when the agent exists.                *)
PeekInstallToken(h) ==
    /\ boot[h] = "asking" /\ UNCHANGED tokenState
    /\ boot' = [boot EXCEPT ![h] = IF tokenState[bootToken[h]] = "valid" THEN "consumed" ELSE "out"]
    /\ UNCHANGED <<born, row, InKeys, bootToken, memory, disk, Discovery>>

ConsumeInstallToken(h) ==
    /\ boot[h] = "asking"
    /\ IF tokenState[bootToken[h]] = "valid"
       THEN /\ tokenState' = [tokenState EXCEPT ![bootToken[h]] = "used"]
            /\ boot' = [boot EXCEPT ![h] = "consumed"]
       ELSE boot' = [boot EXCEPT ![h] = "out"] /\ UNCHANGED tokenState
    /\ UNCHANGED <<born, row, InKeys, bootToken, memory, disk, Discovery>>

(* CreateAgent, with the token's auto-discover intent or without. *)
CreateAgent(h, a) ==
    /\ boot[h] = "consumed" /\ boot' = [boot EXCEPT ![h] = "out"]
    /\ row[a] = "none" /\ row' = [row EXCEPT ![a] = "live"]
    /\ keys < MaxKeys /\ keys' = keys + 1 /\ keyHash' = [keyHash EXCEPT ![a] = keys + 1]
    /\ born' = [born EXCEPT ![bootToken[h]] = @ \cup {a}]
    /\ pending' \in {pending, pending \cup {a}}
    /\ LET creds == [agent |-> a, key |-> keys + 1]
       IN \/ UNCHANGED <<memory, disk>>   \* the reply is lost
          \/ /\ memory' = [memory EXCEPT ![h] = creds]
             /\ disk' \in {disk, [disk EXCEPT ![h] = creds]}   \* writeCreds may fail
    /\ UNCHANGED <<tokenState, nextKeyHash, lastUsed, bootToken, snapshot, reports,
                   handling, claims, definitions>>

(* The insert fails, or the instance stops before it: the token is spent. *)
BootstrapFails(h) ==
    /\ boot[h] = "consumed" /\ boot' = [boot EXCEPT ![h] = "out"]
    /\ UNCHANGED <<tokenState, born, row, InKeys, bootToken, memory, disk, Discovery>>

RestartHost(h) ==
    /\ memory[h] # NoCreds /\ memory' = [memory EXCEPT ![h] = NoCreds]
    /\ UNCHANGED <<tokenState, born, row, InKeys, boot, bootToken, disk, Discovery>>

(* RotateKey returns the new key, which the operator puts on the host. *)
RotateAgentKey(a) ==
    /\ row[a] = "live" /\ keys < MaxKeys /\ keys' = keys + 1
    /\ nextKeyHash' = [nextKeyHash EXCEPT ![a] = keys + 1]
    /\ UNCHANGED <<tokenState, born, row, keyHash, lastUsed, OnHosts, Discovery>>

GiveKey(h) ==
    /\ LET a == disk[h].agent
       IN /\ a # NoAgent /\ nextKeyHash[a] \notin {0, disk[h].key}
          /\ disk' = [disk EXCEPT ![h].key = nextKeyHash[a]]
          /\ memory' = [memory EXCEPT ![h] = disk'[h]]
    /\ UNCHANGED <<tokenState, born, row, InKeys, boot, bootToken, Discovery>>

(* verifyAgentKey; PromoteAgentKey has no caller. *)
Accepts(a, k) == row[a] = "live" /\ k # 0 /\ k \in {keyHash[a], nextKeyHash[a]}

(* Connect, and the snapshot every new connection is sent; storing it may  *)
(* fail, which does not keep maybeAutoDiscover from running.               *)
ConnectAndReport(h) ==
    /\ LET a == memory[h].agent
       IN /\ a # NoAgent /\ Accepts(a, memory[h].key) /\ reports < MaxReports
          /\ lastUsed' = [lastUsed EXCEPT ![a] = memory[h].key]
          /\ reports' = reports + 1
          /\ snapshot' \in {snapshot, snapshot \cup {a}}
          /\ handling' = [handling EXCEPT ![a] = @ + 1]
    /\ UNCHANGED <<tokenState, born, row, keyHash, nextKeyHash, keys, OnHosts, pending, claims,
                   definitions>>

(* One update takes the flag and says whether it was set. *)
ClaimAutoDiscover(a) ==
    /\ handling[a] > 0 /\ handling' = [handling EXCEPT ![a] = @ - 1]
    /\ pending' = pending \ {a}
    /\ claims' = IF a \in pending THEN [claims EXCEPT ![a] = @ + 1] ELSE claims
    /\ UNCHANGED <<tokenState, born, row, InKeys, OnHosts, snapshot, reports, definitions>>

(* maybeAutoDiscover goes on: the definition is created, or the agent is   *)
(* gone, its name is taken, or the instance stops: the flag is spent.      *)
CreateAutoDefinition(a) ==
    /\ claims[a] > 0 /\ claims' = [claims EXCEPT ![a] = @ - 1]
    /\ \/ row[a] = "live" /\ definitions' = [definitions EXCEPT ![a] = @ + 1]
       \/ UNCHANGED definitions
    /\ UNCHANGED <<tokenState, born, row, InKeys, OnHosts, pending, snapshot, reports, handling>>

(* Delete, and SelfDelete by an uninstall that holds a valid key: in one   *)
(* transaction with the definitions that need the agent.                   *)
DeleteAgent(a) ==
    /\ row[a] = "live" /\ row' = [row EXCEPT ![a] = "deleted"]
    /\ definitions' = [definitions EXCEPT ![a] = 0]
    /\ pending' = pending \ {a} /\ snapshot' = snapshot \ {a}
    /\ UNCHANGED <<tokenState, born, InKeys, OnHosts, reports, handling, claims>>

AgentKeysNext ==
    \/ \E t \in InstallTokens : ExpireToken(t)
    \/ \E h \in Hosts :
         \/ EnsureCreds(h) \/ ConsumeInstallToken(h) \/ BootstrapFails(h) \/ RestartHost(h)
         \/ GiveKey(h) \/ ConnectAndReport(h) \/ \E a \in AgentRows : CreateAgent(h, a)
    \/ \E a \in AgentRows : \/ RotateAgentKey(a) \/ ClaimAutoDiscover(a)
                          \/ CreateAutoDefinition(a) \/ DeleteAgent(a)

AgentKeysSpec == AgentKeysInit /\ [][AgentKeysNext]_keyVars

(***************************************************************************)
(* Properties                                                              *)
(***************************************************************************)

(* What an install token sets going happens once: one agent, however many  *)
(* hosts bootstrap with it at the same time and whatever fails in between, *)
(* and one discovery for an agent that opted in, though two connections    *)
(* may report their first snapshots together.                              *)
InstallActsOnce ==
    /\ \A t \in InstallTokens : Cardinality(born[t]) <= 1
    /\ \A a \in AgentRows : definitions[a] + claims[a] <= 1

(* RotateKey promises that the "old one stays valid until the agent        *)
(* reconnects": the key an agent last connected with is accepted until it  *)
(* has connected with another.                                             *)
KeyInUseIsAccepted ==
    \A a \in AgentRows : row[a] = "live" /\ lastUsed[a] # 0 => Accepts(a, lastUsed[a])
=============================================================================
