---------------------------- MODULE AllowlistScope ----------------------------
(***************************************************************************)
(* Discovery of an agent's own allowlist.  The agent reports the file it   *)
(* scans by, the API turns the entries it last heard of into chunks, and   *)
(* the agent checks every chunk against the file it has then.  Addresses   *)
(* are numbers; a name stands for the addresses it resolves to.            *)
(***************************************************************************)
EXTENDS Naturals, FiniteSets, Sequences

Seqs == INSTANCE SequencesExt

CONSTANTS
    Addr,         \* 0 .. n
    AllowEntries, \* entries a file may hold
    MaxAllow,     \* bound: allow entries of a file
    MaxDeny,      \* bound: deny entries
    ChunkIPs,     \* DISCOVERY_CHUNK_IPS
    BlockSizes,   \* sizes of networks: 1, 2, 4 ...
    MaxAllowEdits  \* bound: edits of the file

EntryKinds == {"cidr", "ip", "range", "host"}
Entry == [kind : EntryKinds, lo : Addr, hi : Addr]

ASSUME AllowlistAssumption ==
    /\ Addr \subseteq Nat /\ \A h \in Addr : 0 .. h \subseteq Addr
    /\ AllowEntries \subseteq Entry /\ IsFiniteSet(AllowEntries)
    /\ \A e \in AllowEntries : e.kind = "ip" => e.lo = e.hi
    /\ BlockSizes \subseteq Nat \ {0} /\ 1 \in BlockSizes
    /\ MaxAllow \in Nat /\ MaxDeny \in Nat /\ ChunkIPs \in Nat \ {0} /\ MaxAllowEdits \in Nat

VARIABLES
    allowFile,    \* the agent's scan allowlist
    allowEdits,
    reported,     \* agent_allowlists: what it last reported
    scopeChunks,  \* the chunks of one dispatch
    scopeNext,    \* the chunk the agent will be asked for next
    vetting       \* its last verdict, and the file it was based on

allowlistVars == <<allowFile, allowEdits, reported, scopeChunks, scopeNext, vetting>>

AllowFile == [allow : {s \in SUBSET AllowEntries : Cardinality(s) <= MaxAllow},
              deny  : {s \in SUBSET AllowEntries : Cardinality(s) <= MaxDeny}]
NoFile == [allow |-> {}, deny |-> {}]
NoVet == [verdict |-> "none", chunk |-> [kind |-> "host", lo |-> 0, hi |-> 0], addrs |-> {}, file |-> NoFile]

AllowlistTypeOK ==
    /\ allowFile \in AllowFile /\ reported \in AllowFile /\ allowEdits \in 0 .. MaxAllowEdits
    /\ \A i \in 1 .. Len(scopeChunks) : scopeChunks[i] \in Entry
    /\ scopeNext \in 1 .. Len(scopeChunks) + 1
    /\ vetting.verdict \in {"none", "scan", "allowlist_violation"} /\ vetting.addrs \subseteq Addr

(***************************************************************************)
(* The agent's file                                                        *)
(***************************************************************************)
Within(a, e) == e.lo <= a /\ a <= e.hi
Addresses(e) == {a \in Addr : Within(a, e)}

AllowsIP(f, a) ==
    /\ \E e \in f.allow : e.kind # "host" /\ Within(a, e)
    /\ \A e \in f.deny : e.kind # "host" => ~Within(a, e)

CidrContainsCidr(outer, inner) == Within(inner.lo, outer) /\ Within(inner.hi, outer)

(* An overlap test that looks at one of the two first addresses. *)
CidrsOverlapOneWay(a, b) == Within(b.lo, a)

(* Two blocks overlap only if one holds the other's first address. *)
CidrsOverlap(a, b) == Within(b.lo, a) \/ Within(a.lo, b)

(* Networks only: the other forms of entry are not looked at. *)
AllowsCIDR(f, c) ==
    /\ \E n \in f.allow : n.kind = "cidr" /\ CidrContainsCidr(n, c)
    /\ \A n \in f.deny : n.kind = "cidr" => ~CidrsOverlap(n, c)

(* vetTargetAgainstAllowlist: the ends of a range, every address of a name.*)
Vet(f, c, resolved) ==
    CASE c.kind = "cidr"  -> AllowsCIDR(f, c)
      [] c.kind = "ip"    -> AllowsIP(f, c.lo)
      [] c.kind = "range" -> AllowsIP(f, c.lo) /\ AllowsIP(f, c.hi)
      [] c.kind = "host"  -> /\ \E e \in f.allow : e.kind = "host"
                             /\ resolved # {} /\ \A a \in resolved : AllowsIP(f, a)

(***************************************************************************)
(* The API's chunks                                                        *)
(***************************************************************************)

(* largestCIDRBlockSize *)
BlockSize(start, remaining) ==
    LET fits == {n \in BlockSizes : n <= remaining /\ n <= ChunkIPs /\ start % n = 0}
    IN CHOOSE n \in fits : \A m \in fits : m <= n

(* chunkIdentifier: a block of one address goes as that address. *)
Block(a, n) == [kind |-> IF n = 1 THEN "ip" ELSE "cidr", lo |-> a, hi |-> a + n - 1]

(* splitIPv4Window: one block after the other from the first address on. *)
SplitWindow(lo, hi) ==
    LET split[a \in lo .. hi + 1] ==
            IF a > hi THEN <<>>
            ELSE <<Block(a, BlockSize(a, hi - a + 1))>> \o split[a + BlockSize(a, hi - a + 1)]
    IN split[lo]

(* A splitter that rounds blocks up to the chunk size. *)
SplitAligned(e) ==
    IF e.kind \in {"cidr", "range"} /\ e.lo <= e.hi
    THEN [i \in 1 .. (e.hi - e.lo) \div ChunkIPs + 1 |->
            [kind |-> "cidr", lo |-> e.lo + (i - 1) * ChunkIPs,
             hi |-> IF e.lo + i * ChunkIPs - 1 \in Addr THEN e.lo + i * ChunkIPs - 1 ELSE e.hi]]
    ELSE <<e>>

(* splitDiscoveryTarget; a range whose bounds are reversed goes as a host. *)
SplitTarget(e) ==
    IF e.kind \in {"cidr", "range"} /\ e.lo <= e.hi THEN SplitWindow(e.lo, e.hi) ELSE <<e>>

(***************************************************************************)
(* Steps                                                                   *)
(***************************************************************************)
AllowlistInit ==
    /\ allowFile \in AllowFile /\ allowEdits = 0 /\ reported = NoFile
    /\ scopeChunks = <<>> /\ scopeNext = 1 /\ vetting = NoVet

(* The customer edits the file; Load notices a new modification time. *)
EditFile(e) ==
    /\ allowEdits < MaxAllowEdits /\ allowEdits' = allowEdits + 1
    /\ \E list \in {"allow", "deny"} :
         allowFile' = [allowFile EXCEPT ![list] = IF e \in @ THEN @ \ {e} ELSE @ \cup {e}]
    /\ allowFile' \in AllowFile
    /\ UNCHANGED <<reported, scopeChunks, scopeNext, vetting>>

(* allowlist_snapshot; after the dispatch a report changes nothing here. *)
ReportAllowlist ==
    /\ scopeChunks = <<>> /\ reported' = allowFile
    /\ UNCHANGED <<allowFile, allowEdits, scopeChunks, scopeNext, vetting>>

(* Execute with scope agent_allowlist: the entries as they are, deny left to *)
(* the agent; without a report there is nothing to scan.                   *)
DispatchAllowlist ==
    /\ reported.allow # {} /\ scopeChunks = <<>>
    /\ scopeChunks' = Seqs!FlattenSeq([i \in 1 .. Cardinality(reported.allow) |->
                                         SplitTarget(Seqs!SetToSeq(reported.allow)[i])])
    /\ UNCHANGED <<allowFile, allowEdits, reported, scopeNext, vetting>>

(* The next chunk's directive arrives; a name resolves as it may. *)
VetChunk(resolved) ==
    /\ scopeNext <= Len(scopeChunks) /\ scopeNext' = scopeNext + 1
    /\ LET c == scopeChunks[scopeNext]
       IN /\ c.kind # "host" => resolved = {}
          /\ vetting' = [verdict |-> IF Vet(allowFile, c, resolved)
                                     THEN "scan" ELSE "allowlist_violation",
                         chunk |-> c, file |-> allowFile,
                         addrs |-> IF c.kind = "host" THEN resolved ELSE Addresses(c)]
    /\ UNCHANGED <<allowFile, allowEdits, reported, scopeChunks>>

AllowlistNext ==
    \/ \E e \in AllowEntries : EditFile(e)
    \/ ReportAllowlist \/ DispatchAllowlist
    \/ \E resolved \in SUBSET Addr : VetChunk(resolved)

AllowlistSpec == AllowlistInit /\ [][AllowlistNext]_allowlistVars

(***************************************************************************)
(* Properties                                                              *)
(***************************************************************************)
Allowed(f, a) == \E e \in f.allow : e.kind # "host" /\ Within(a, e)
Denied(f, a, kinds) == \E e \in f.deny : e.kind \in kinds /\ Within(a, e)

(* However the report and the file have drifted apart, what the agent scans*)
(* is allowed by the file of that moment and in none of its denied         *)
(* networks; single addresses and names are in no denied range either.     *)
ScansStayInFile ==
    vetting.verdict = "scan" =>
        \A a \in vetting.addrs :
            /\ Allowed(vetting.file, a) /\ ~Denied(vetting.file, a, {"cidr"})
            /\ vetting.chunk.kind # "cidr" => ~Denied(vetting.file, a, {"ip", "range"})

(* The chunks of a dispatch tile the reported entries: an address is in as*)
(* many chunks as entries, so that none is left out, added or asked for    *)
(* twice within an entry; and no chunk is larger than the limit.           *)
ChunksTileEntries ==
    scopeChunks # <<>> =>
        LET chunk == 1 .. Len(scopeChunks)
        IN /\ \A i \in chunk : scopeChunks[i].kind # "host" =>
                Cardinality(Addresses(scopeChunks[i])) <= ChunkIPs
           /\ \A a \in Addr : Cardinality({i \in chunk : Within(a, scopeChunks[i])})
                             = Cardinality({e \in reported.allow : Within(a, e)})
=============================================================================
