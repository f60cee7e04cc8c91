---------------------------- MODULE ServerProofs ----------------------------
(***************************************************************************)
(* Proofs about the API server: when scans are started, on which           *)
(* addresses, and what their reports lead to (allowlists and chunks,       *)
(* discovery definitions, endpoints and findings, predicates, versions of  *)
(* rules and alerts). The last section composes these parts with those of  *)
(* MessagingProofs and AccountProofs as MCServer does.                     *)
(***************************************************************************)
EXTENDS MCServer, MessagingProofs, AccountProofs, SequenceLemmas, FunctionTheorems

-----------------------------------------------------------------------------
(* The allowlist, the chunks of a discovery and their vetting              *)
(* (AllowlistScope).                                                       *)

(* What the splitter makes of an entry: single addresses, networks within  *)
(* the limit, names, and ranges whose bounds are reversed.                 *)
Cut(c) ==
    /\ c.kind = "ip" => c.lo = c.hi
    /\ c.kind = "range" => c.hi < c.lo
    /\ c.kind # "host" => Cardinality(Addresses(c)) <= ChunkIPs

Count(a, s) == Cardinality({i \in 1 .. Len(s) : Within(a, s[i])})

LEMMA AddrTyped ==
    /\ Addr \subseteq Nat /\ ChunkIPs \in Nat \ {0} /\ AllowEntries \subseteq Entry
    /\ \A h \in Addr : \A a \in Nat : a <= h => a \in Addr
BY AllowlistAssumption

LEMMA BlockFits ==
    ASSUME NEW a \in Nat, NEW r \in Nat \ {0}
    PROVE  BlockSize(a, r) \in Nat \ {0} /\ BlockSize(a, r) <= r /\ BlockSize(a, r) <= ChunkIPs
<1> DEFINE fits == {n \in BlockSizes : n <= r /\ n <= ChunkIPs /\ a % n = 0}
           rest == {r - n : n \in fits}
<1>1. 1 \in fits /\ fits \subseteq Nat \ {0} /\ \A n \in fits : n <= r /\ n <= ChunkIPs
  <2>1. a % 1 = 0 /\ 1 <= r
    OBVIOUS
  <2>2. 1 <= ChunkIPs /\ 1 \in BlockSizes /\ BlockSizes \subseteq Nat \ {0}
    BY AllowlistAssumption
  <2> QED
    BY <2>1, <2>2
<1>2. rest \subseteq Nat /\ rest # {}
  BY <1>1
<1>3. PICK d \in rest : \A e \in rest : d <= e
  BY <1>2, LeastNumber
<1>4. PICK n \in fits : d = r - n
  BY <1>3
<1>5. \A m \in fits : m <= n
  <2> TAKE m \in fits
  <2>1. r - n <= r - m
    BY <1>3, <1>4
  <2> QED
    BY <1>1, <2>1
<1>6. BlockSize(a, r) \in fits
  <2> DEFINE largest == CHOOSE x \in fits : \A y \in fits : y <= x
  <2>1. largest \in fits
    BY <1>5
  <2>2. BlockSize(a, r) = largest
    BY DEF BlockSize
  <2> HIDE DEF fits, largest
  <2> QED
    BY <2>1, <2>2
<1> QED
  BY <1>1, <1>6

LEMMA Counts ==
    ASSUME NEW a, NEW s \in Seq(Entry)
    PROVE  IsFiniteSet({i \in 1 .. Len(s) : Within(a, s[i])}) /\ Count(a, s) \in Nat
<1>1. IsFiniteSet(1 .. Len(s))
  BY FS_Interval, LenProperties
<1> QED
  BY <1>1, FS_Subset, FS_CardinalityType DEF Count

LEMMA CountConcat ==
    ASSUME NEW a, NEW s \in Seq(Entry), NEW t \in Seq(Entry)
    PROVE  Count(a, s \o t) = Count(a, s) + Count(a, t)
<1> DEFINE A == {i \in 1 .. Len(s) : Within(a, s[i])}
           B == {i \in 1 .. Len(t) : Within(a, t[i])}
           C == {i \in 1 .. Len(s) + Len(t) : i > Len(s) /\ Within(a, t[i - Len(s)])}
           W == {i \in 1 .. Len(s \o t) : Within(a, (s \o t)[i])}
           f == [i \in B |-> i + Len(s)]
<1>1. /\ Len(s) \in Nat /\ Len(t) \in Nat /\ Len(s \o t) = Len(s) + Len(t)
      /\ \A i \in 1 .. Len(s) + Len(t) : (s \o t)[i] = IF i <= Len(s) THEN s[i] ELSE t[i - Len(s)]
  BY LenProperties, ConcatProperties
<1>2. W = A \cup C /\ A \cap C = {}
  BY <1>1
<1>3. f \in Bijection(B, C)
  <2>1. f \in [B -> C]
    BY <1>1
  <2>2. \A i, j \in B : f[i] = f[j] => i = j
    BY <1>1
  <2>3. ASSUME NEW k \in C PROVE \E i \in B : f[i] = k
    <3>1. k - Len(s) \in B /\ f[k - Len(s)] = k
      BY <1>1, <2>3
    <3> QED
      BY <3>1
  <2> HIDE DEF f, B, C
  <2> QED
    BY <2>1, <2>2, <2>3, Fun_IsBij
<1>4. IsFiniteSet(A) /\ IsFiniteSet(B)
  BY Counts
<1>5. IsFiniteSet(C) /\ Cardinality(C) = Cardinality(B)
  <2> HIDE DEF f, B, C
  <2> QED
    BY <1>3, <1>4, FS_Bijection DEF ExistsBijection
<1>6. Cardinality(A \cup C) = Cardinality(A) + Cardinality(C)
  <2> HIDE DEF A, C
  <2>1. Cardinality(A \cup C) = Cardinality(A) + Cardinality(C) - Cardinality(A \cap C)
    BY <1>4, <1>5, FS_Union
  <2>2. Cardinality(A \cap C) = 0
    BY <1>2, FS_EmptySet
  <2>3. Cardinality(A) \in Nat /\ Cardinality(C) \in Nat
    BY <1>4, <1>5, FS_CardinalityType
  <2> QED
    BY <2>1, <2>2, <2>3
<1> QED
  BY <1>2, <1>5, <1>6 DEF Count

LEMMA CountOne ==
    ASSUME NEW a, NEW c \in Entry
    PROVE  /\ <<c>> \in Seq(Entry) /\ Len(<<c>>) = 1 /\ <<c>>[1] = c
           /\ Count(a, <<c>>) = IF Within(a, c) THEN 1 ELSE 0
<1>1. <<c>> \in Seq(Entry) /\ Len(<<c>>) = 1 /\ <<c>>[1] = c
  OBVIOUS
<1>2. {i \in 1 .. Len(<<c>>) : Within(a, <<c>>[i])} = IF Within(a, c) THEN {1} ELSE {}
  BY <1>1
<1> QED
  BY <1>1, <1>2, FS_EmptySet, FS_Singleton DEF Count

LEMMA CountNone == ASSUME NEW a PROVE Count(a, <<>>) = 0
<1>1. {i \in 1 .. Len(<<>>) : Within(a, <<>>[i])} = {}
  BY EmptyHolds
<1> QED
  BY <1>1, FS_EmptySet DEF Count

(* Sequences of chunks that were cut from the addresses of T. *)
Tiling(s, T) ==
    /\ s \in Seq(Entry) /\ \A i \in 1 .. Len(s) : Cut(s[i])
    /\ \A a \in Addr : Count(a, s) = IF a \in T THEN 1 ELSE 0

LEMMA AddressesSize ==
    ASSUME NEW c \in Entry, c.lo <= c.hi
    PROVE  Cardinality(Addresses(c)) = c.hi - c.lo + 1
<1>1. c.lo \in Addr /\ c.hi \in Addr /\ c.lo \in Nat /\ c.hi \in Nat
  BY AddrTyped DEF Entry
<1>2. \A a \in Nat : a <= c.hi => a \in Addr
  BY <1>1, AddrTyped
<1>3. Addresses(c) = c.lo .. c.hi
  <2>1. Addr \subseteq Nat
    BY AddrTyped
  <2>2. \A a \in Addr : Within(a, c) <=> a \in c.lo .. c.hi
    BY <1>1, <2>1 DEF Within
  <2>3. \A a \in c.lo .. c.hi : a \in Addr
    BY <1>1, <1>2
  <2> QED
    BY <2>2, <2>3 DEF Addresses
<1>4. PICK l \in Nat, h \in Nat : l = c.lo /\ h = c.hi
  BY <1>1
<1>5. Cardinality(l .. h) = h - l + 1
  <2>1. l \in Int /\ h \in Int /\ ~(l > h)
    BY <1>4
  <2>2. Cardinality(l .. h) = IF l > h THEN 0 ELSE h - l + 1
    BY <2>1, FS_Interval, Zenon
  <2> QED
    BY <2>1, <2>2
<1> QED
  BY <1>3, <1>4, <1>5

LEMMA BlockTiles ==
    ASSUME NEW h \in Addr, NEW b \in 0 .. h
    PROVE  LET n == BlockSize(b, h - b + 1)
               c == Block(b, n)
           IN  /\ n \in Nat \ {0} /\ b + n <= h + 1
               /\ c \in Entry /\ Cut(c) /\ c.lo = b /\ c.hi = b + n - 1
<1> DEFINE n == BlockSize(b, h - b + 1)
           c == Block(b, n)
<1>1. h \in Nat /\ b \in Nat /\ b <= h
  BY AddrTyped
<1>2. n \in Nat \ {0} /\ n <= h - b + 1 /\ n <= ChunkIPs
  BY <1>1, BlockFits
<1> HIDE DEF n
<1>3. b + n - 1 \in Nat /\ b + n - 1 <= h
  BY <1>1, <1>2
<1>4. b \in Addr /\ b + n - 1 \in Addr
  BY <1>1, <1>3, AddrTyped
<1>5. c \in Entry /\ c.lo = b /\ c.hi = b + n - 1 /\ c.kind \in {"ip", "cidr"} /\ (c.kind = "ip" => n = 1)
  BY <1>4 DEF Block, Entry, EntryKinds
<1> HIDE DEF c
<1>6. Cardinality(Addresses(c)) = n
  BY <1>1, <1>2, <1>5, AddressesSize
<1>7. Cut(c)
  BY <1>1, <1>2, <1>5, <1>6 DEF Cut
<1> QED
  BY <1>1, <1>2, <1>3, <1>5, <1>7 DEF n, c

(* What SplitWindow computes: the chunks from each address of the window on. *)
Splits(b, h, g) ==
    g = [a \in b .. h + 1 |->
            IF a > h THEN <<>>
            ELSE <<Block(a, BlockSize(a, h - a + 1))>> \o g[a + BlockSize(a, h - a + 1)]]

LEMMA SplitsExist ==
    ASSUME NEW h \in Addr, NEW b \in 0 .. h
    PROVE  \E g : Splits(b, h, g)
<1> DEFINE S == {d \in Nat : d <= h + 1 => \E g : Splits(h + 1 - d, h, g)}
<1>1. h \in Nat /\ b \in Nat /\ b <= h
  BY AddrTyped
<1>2. 0 \in S
  <2>1. Splits(h + 1, h, [a \in h + 1 .. h + 1 |-> <<>>])
    BY <1>1 DEF Splits
  <2> QED
    BY <1>1, <2>1
<1>3. ASSUME NEW d \in Nat, d \in S PROVE d + 1 \in S
  <2>1. CASE d + 1 > h + 1
    BY <1>1, <2>1
  <2>2. CASE d + 1 <= h + 1
    <3> DEFINE c == h - d
               n == BlockSize(c, h - c + 1)
    <3>1. PICK g : Splits(h + 1 - d, h, g)
      BY <1>1, <1>3, <2>2
    <3>2. c \in 0 .. h /\ c \in Nat /\ h + 1 - d = c + 1 /\ h + 1 - (d + 1) = c
      BY <1>1, <2>2
    <3> HIDE DEF c
    <3>3. n \in Nat \ {0} /\ c + n <= h + 1
      BY <3>2, BlockTiles
    <3> HIDE DEF n
    <3> DEFINE f == [a \in c .. h + 1 |-> IF a = c THEN <<Block(c, n)>> \o g[c + n] ELSE g[a]]
    <3>4. ASSUME NEW a \in c .. h + 1
          PROVE  f[a] = IF a > h THEN <<>>
                        ELSE <<Block(a, BlockSize(a, h - a + 1))>> \o f[a + BlockSize(a, h - a + 1)]
      <4>1. CASE a = c
        <5>1. c + n \in c .. h + 1 /\ c + n # c /\ c <= h
          BY <1>1, <3>2, <3>3
        <5>2. f[c + n] = g[c + n] /\ f[c] = <<Block(c, n)>> \o g[c + n]
          BY <1>1, <3>2, <5>1
        <5> QED
          BY <1>1, <3>2, <4>1, <5>1, <5>2 DEF n
      <4>2. CASE a # c
        <5>1. a \in c + 1 .. h + 1 /\ a \in Nat
          BY <1>1, <3>2, <4>2
        <5>2. f[a] = g[a]
          BY <4>2
        <5>3. g[a] = IF a > h THEN <<>>
                     ELSE <<Block(a, BlockSize(a, h - a + 1))>> \o g[a + BlockSize(a, h - a + 1)]
          BY <3>1, <3>2, <5>1 DEF Splits
        <5>4. CASE a > h
          BY <5>2, <5>3, <5>4
        <5>5. CASE ~(a > h)
          <6> DEFINE k == BlockSize(a, h - a + 1)
          <6>1. k \in Nat \ {0} /\ a + k <= h + 1
            BY <1>1, <5>1, <5>5, BlockTiles
          <6> HIDE DEF k
          <6>2. a + k \in c .. h + 1 /\ a + k # c
            BY <1>1, <3>2, <5>1, <6>1
          <6>3. f[a + k] = g[a + k]
            BY <6>2
          <6> HIDE DEF f
          <6> QED
            BY <5>2, <5>3, <5>5, <6>3 DEF k
        <5> QED
          BY <5>4, <5>5
      <4> QED
        BY <4>1, <4>2
    <3>5. Splits(c, h, f)
      <4>1. f = [a \in c .. h + 1 |-> f[a]]
        OBVIOUS
      <4> HIDE DEF f
      <4> QED
        BY <3>4, <4>1 DEF Splits
    <3> QED
      BY <3>2, <3>5
  <2> QED
    BY <1>1, <2>1, <2>2
<1>4. Nat \subseteq S
  <2> HIDE DEF S
  <2> QED
    BY <1>2, <1>3, Induction
<1>5. h + 1 - b \in Nat /\ h + 1 - b <= h + 1 /\ h + 1 - (h + 1 - b) = b
  BY <1>1
<1>6. h + 1 - b \in S
  BY <1>4, <1>5
<1> QED
  BY <1>5, <1>6

LEMMA SplitWindowTiles ==
    ASSUME NEW h \in Addr, NEW b \in 0 .. h
    PROVE  Tiling(SplitWindow(b, h), b .. h) /\ SplitWindow(b, h) # <<>>
<1> DEFINE s == CHOOSE g : g = [a \in b .. h + 1 |->
                    IF a > h THEN <<>>
                    ELSE <<Block(a, BlockSize(a, h - a + 1))>> \o g[a + BlockSize(a, h - a + 1)]]
           From(a) == Tiling(s[a], a .. h) /\ (a <= h => s[a] # <<>>)
           S == {d \in Nat : \A a \in b .. h + 1 : h + 1 - a <= d => From(a)}
<1>1. h \in Nat /\ b \in Nat /\ b <= h
  BY AddrTyped
<1>2. s = [a \in b .. h + 1 |->
             IF a > h THEN <<>>
             ELSE <<Block(a, BlockSize(a, h - a + 1))>> \o s[a + BlockSize(a, h - a + 1)]]
  BY SplitsExist, Zenon DEF Splits
<1>3. SplitWindow(b, h) = s[b]
  BY Zenon DEF SplitWindow
<1> HIDE DEF s
<1>4. From(h + 1)
  <2>1. s[h + 1] = <<>> /\ ~(h + 1 <= h)
    BY <1>1, <1>2
  <2>2. <<>> \in Seq(Entry) /\ Len(<<>>) = 0 /\ (h + 1) .. h = {}
    BY <1>1, EmptySeq
  <2> QED
    BY <2>1, <2>2, CountNone DEF Tiling
<1>5. 0 \in S
  <2>1. \A a \in b .. h + 1 : h + 1 - a <= 0 => a = h + 1
    BY <1>1
  <2> QED
    BY <1>4, <2>1
<1>6. ASSUME NEW d \in Nat, d \in S, NEW a \in b .. h + 1, h + 1 - a <= d + 1 PROVE From(a)
  <2>1. CASE a = h + 1
    BY <1>4, <2>1
  <2>2. CASE a # h + 1
    <3> DEFINE n == BlockSize(a, h - a + 1)
               c == Block(a, n)
               t == s[a + n]
    <3>1. a \in 0 .. h /\ a \in Nat /\ a <= h /\ b <= a
      BY <1>1, <2>2
    <3>2. /\ n \in Nat \ {0} /\ a + n <= h + 1
          /\ c \in Entry /\ Cut(c) /\ c.lo = a /\ c.hi = a + n - 1
      BY <3>1, BlockTiles
    <3>3. s[a] = <<c>> \o t
      <4>1. s[a] = IF a > h THEN <<>>
                   ELSE <<Block(a, BlockSize(a, h - a + 1))>> \o s[a + BlockSize(a, h - a + 1)]
        BY <1>2, Zenon
      <4>2. ~(a > h)
        BY <1>1, <3>1
      <4> QED
        BY <4>1, <4>2
    <3> HIDE DEF n, c
    <3>4. a + n \in b .. h + 1 /\ h + 1 - (a + n) <= d
      BY <1>1, <1>6, <3>1, <3>2
    <3>5. Tiling(t, a + n .. h)
      BY <1>6, <3>4
    <3> HIDE DEF t
    <3>6. t \in Seq(Entry) /\ <<c>> \in Seq(Entry) /\ Len(<<c>>) = 1 /\ <<c>>[1] = c
      BY <3>2, <3>5, CountOne DEF Tiling
    <3>7. /\ s[a] \in Seq(Entry) /\ Len(s[a]) = 1 + Len(t) /\ Len(t) \in Nat
          /\ \A i \in 1 .. 1 + Len(t) : s[a][i] = IF i <= 1 THEN <<c>>[i] ELSE t[i - 1]
      BY <3>3, <3>6, ConcatProperties, LenProperties
    <3>8. \A i \in 1 .. Len(s[a]) : Cut(s[a][i])
      <4> TAKE i \in 1 .. Len(s[a])
      <4>1. CASE i = 1
        BY <3>2, <3>6, <3>7, <4>1
      <4>2. CASE i # 1
        <5>1. i - 1 \in 1 .. Len(t) /\ s[a][i] = t[i - 1]
          BY <3>7, <4>2
        <5> QED
          BY <3>5, <5>1 DEF Tiling
      <4> QED
        BY <4>1, <4>2
    <3>9. ASSUME NEW x \in Addr PROVE Count(x, s[a]) = IF x \in a .. h THEN 1 ELSE 0
      <4>1. Count(x, s[a]) = Count(x, <<c>>) + Count(x, t)
        BY <3>3, <3>6, CountConcat
      <4>2. Count(x, <<c>>) = IF a <= x /\ x <= a + n - 1 THEN 1 ELSE 0
        BY <3>2, CountOne DEF Within
      <4>3. Count(x, t) = IF x \in a + n .. h THEN 1 ELSE 0
        BY <3>5 DEF Tiling
      <4>4. x \in Nat
        BY AddrTyped
      <4> QED
        BY <1>1, <3>1, <3>2, <4>1, <4>2, <4>3, <4>4
    <3>10. s[a] # <<>>
      BY <3>7, EmptyHolds
    <3> QED
      BY <3>7, <3>8, <3>9, <3>10 DEF Tiling
  <2> QED
    BY <2>1, <2>2
<1>7. ASSUME NEW d \in Nat, d \in S PROVE d + 1 \in S
  BY <1>6, <1>7
<1>8. Nat \subseteq S
  <2> HIDE DEF S
  <2> QED
    BY <1>5, <1>7, Induction
<1>9. h + 1 - b \in Nat /\ b \in b .. h + 1 /\ b <= h
  BY <1>1
<1>10. From(b)
  <2>1. h + 1 - b \in S
    BY <1>8, <1>9
  <2> QED
    BY <1>9, <2>1
<1> QED
  BY <1>3, <1>9, <1>10

LEMMA SplitTargetTiles ==
    ASSUME NEW e \in AllowEntries
    PROVE  Tiling(SplitTarget(e), Addresses(e)) /\ SplitTarget(e) # <<>>
<1>1. e \in Entry /\ (e.kind = "ip" => e.lo = e.hi) /\ e.lo \in Addr /\ e.hi \in Addr
        /\ e.lo \in Nat /\ e.hi \in Nat /\ Addr \subseteq Nat
  BY AllowlistAssumption, AddrTyped DEF Entry
<1>2. CASE e.kind \in {"cidr", "range"} /\ e.lo <= e.hi
  <2>1. e.lo \in 0 .. e.hi /\ SplitTarget(e) = SplitWindow(e.lo, e.hi)
    BY <1>1, <1>2 DEF SplitTarget
  <2>2. \A a \in Addr : a \in Addresses(e) <=> a \in e.lo .. e.hi
    BY <1>1 DEF Addresses, Within
  <2> QED
    BY <1>1, <2>1, <2>2, SplitWindowTiles DEF Tiling
<1>3. CASE ~(e.kind \in {"cidr", "range"} /\ e.lo <= e.hi)
  <2>1. SplitTarget(e) = <<e>>
    BY <1>3 DEF SplitTarget
  <2>2. /\ <<e>> \in Seq(Entry) /\ Len(<<e>>) = 1 /\ <<e>>[1] = e /\ <<e>> # <<>>
        /\ \A a \in Addr : Count(a, <<e>>) = IF a \in Addresses(e) THEN 1 ELSE 0
    BY <1>1, CountOne DEF Addresses
  <2>3. Cut(e)
    <3>1. CASE e.lo <= e.hi
      <4>1. Cardinality(Addresses(e)) = e.hi - e.lo + 1
        BY <1>1, <3>1, AddressesSize
      <4>2. e.kind \in {"ip", "host"} /\ 1 <= ChunkIPs
        BY <1>1, <1>3, <3>1, AddrTyped DEF Entry, EntryKinds
      <4> QED
        BY <1>1, <4>1, <4>2 DEF Cut
    <3>2. CASE ~(e.lo <= e.hi)
      <4>1. Addresses(e) = {}
        <5>1. \A a \in Addr : ~Within(a, e)
          BY <1>1, <3>2 DEF Within
        <5> QED
          BY <5>1 DEF Addresses
      <4>2. Cardinality(Addresses(e)) = 0 /\ 0 <= ChunkIPs
        BY <4>1, FS_EmptySet, AddrTyped
      <4> QED
        BY <1>1, <3>2, <4>2 DEF Cut
    <3> QED
      BY <3>1, <3>2
  <2> QED
    BY <2>1, <2>2, <2>3 DEF Tiling
<1> QED
  BY <1>2, <1>3

(* What FlattenSeq computes: the concatenation of every prefix. *)
Flattens(q, k, f) ==
    f = [i \in 1 .. k |-> IF i = 1 THEN q[i] ELSE f[i - 1] \o q[i]]

LEMMA FlattensExist == ASSUME NEW q, NEW k \in Nat PROVE \E f : Flattens(q, k, f)
<1> DEFINE S == {n \in Nat : \E f : Flattens(q, n, f)}
<1>1. 0 \in S
  <2>1. Flattens(q, 0, [i \in 1 .. 0 |-> <<>>])
    BY DEF Flattens
  <2> QED
    BY <2>1
<1>2. ASSUME NEW n \in Nat, n \in S PROVE n + 1 \in S
  <2>1. PICK f : Flattens(q, n, f)
    BY <1>2
  <2> DEFINE g == [i \in 1 .. n + 1 |-> IF i = n + 1
                                        THEN IF i = 1 THEN q[i] ELSE f[n] \o q[i]
                                        ELSE f[i]]
  <2>2. ASSUME NEW i \in 1 .. n + 1 PROVE g[i] = IF i = 1 THEN q[i] ELSE g[i - 1] \o q[i]
    <3>1. CASE i = n + 1
      <4>1. i # 1 => i - 1 = n /\ n \in 1 .. n + 1 /\ n # n + 1
        BY <3>1
      <4>2. i # 1 => g[i - 1] = f[n]
        BY <4>1
      <4> QED
        BY <3>1, <4>2
    <3>2. CASE i # n + 1
      <4>1. i \in 1 .. n /\ g[i] = f[i] /\ (i # 1 => i - 1 \in 1 .. n /\ i - 1 # n + 1)
        BY <3>2
      <4>2. i # 1 => g[i - 1] = f[i - 1]
        BY <4>1
      <4>3. f[i] = IF i = 1 THEN q[i] ELSE f[i - 1] \o q[i]
        BY <2>1, <4>1 DEF Flattens
      <4> HIDE DEF g
      <4> QED
        BY <4>1, <4>2, <4>3
    <3> QED
      BY <3>1, <3>2
  <2>3. Flattens(q, n + 1, g)
    <3>1. g = [i \in 1 .. n + 1 |-> g[i]]
      OBVIOUS
    <3> HIDE DEF g
    <3> QED
      BY <2>2, <3>1 DEF Flattens
  <2> QED
    BY <2>3
<1>3. Nat \subseteq S
  <2> HIDE DEF S
  <2> QED
    BY <1>1, <1>2, Induction
<1> QED
  BY <1>3

(* The entries that contain an address, among the first n. *)
Containing(a, e, n) == {j \in 1 .. n : Within(a, e[j])}

LEMMA ContainingGrows ==
    ASSUME NEW a, NEW e, NEW n \in Nat
    PROVE  /\ IsFiniteSet(Containing(a, e, n)) /\ Cardinality(Containing(a, e, n)) \in Nat
           /\ Cardinality(Containing(a, e, n + 1))
                = Cardinality(Containing(a, e, n)) + IF Within(a, e[n + 1]) THEN 1 ELSE 0
<1>1. IsFiniteSet(Containing(a, e, n)) /\ Cardinality(Containing(a, e, n)) \in Nat
  <2>1. IsFiniteSet(1 .. n) /\ Containing(a, e, n) \subseteq 1 .. n
    BY FS_Interval DEF Containing
  <2> QED
    BY <2>1, FS_Subset, FS_CardinalityType
<1>2. n + 1 \notin Containing(a, e, n)
  BY DEF Containing
<1>3. CASE Within(a, e[n + 1])
  <2>1. Containing(a, e, n + 1) = Containing(a, e, n) \cup {n + 1}
    BY <1>3 DEF Containing
  <2> QED
    BY <1>1, <1>2, <1>3, <2>1, FS_AddElement
<1>4. CASE ~Within(a, e[n + 1])
  <2>1. Containing(a, e, n + 1) = Containing(a, e, n)
    BY <1>4 DEF Containing
  <2> QED
    BY <1>1, <1>4, <2>1
<1> QED
  BY <1>1, <1>3, <1>4

LEMMA FlattenTiles ==
    ASSUME NEW N \in Nat \ {0}, NEW e \in [1 .. N -> Entry],
           NEW q \in Seq(Seq(Entry)), Len(q) = N,
           \A j \in 1 .. N : Tiling(q[j], Addresses(e[j])) /\ q[j] # <<>>
    PROVE  LET s == Seqs!FlattenSeq(q)
           IN  /\ s \in Seq(Entry) /\ \A i \in 1 .. Len(s) : Cut(s[i])
               /\ \A a \in Addr : Count(a, s) = Cardinality(Containing(a, e, N))
<1> DEFINE c == CHOOSE f : f = [i \in 1 .. Len(q) |-> IF i = 1 THEN q[i] ELSE f[i - 1] \o q[i]]
           Upto(n) == /\ c[n] \in Seq(Entry) /\ \A i \in 1 .. Len(c[n]) : Cut(c[n][i])
                      /\ \A a \in Addr : Count(a, c[n]) = Cardinality(Containing(a, e, n))
           S == {n \in Nat : n \in 1 .. N => Upto(n)}
<1>1. c = [i \in 1 .. Len(q) |-> IF i = 1 THEN q[i] ELSE c[i - 1] \o q[i]]
  <2>1. \E f : Flattens(q, Len(q), f)
    BY FlattensExist
  <2> QED
    BY <2>1, Zenon DEF Flattens
<1>2. Seqs!FlattenSeq(q) = c[N]
  <2>1. Len(q) # 0
    OBVIOUS
  <2>2. Seqs!FlattenSeq(q) = c[Len(q)]
    BY <2>1, Zenon DEF Seqs!FlattenSeq
  <2> QED
    BY <2>2
<1> HIDE DEF c
<1>3. \A i \in 1 .. N : c[i] = IF i = 1 THEN q[i] ELSE c[i - 1] \o q[i]
  BY <1>1
<1>4. \A j \in 1 .. N, a \in Addr : Count(a, q[j]) = IF Within(a, e[j]) THEN 1 ELSE 0
  BY DEF Tiling, Addresses
<1>5. 0 \in S
  OBVIOUS
<1>6. ASSUME NEW n \in Nat, n \in S, n + 1 \in 1 .. N PROVE Upto(n + 1)
  <2>1. PICK qn : qn = q[n + 1]
    OBVIOUS
  <2>2. PICK cn : cn = c[n + 1]
    OBVIOUS
  <2>3. qn \in Seq(Entry) /\ \A i \in 1 .. Len(qn) : Cut(qn[i])
    BY <1>6, <2>1 DEF Tiling
  <2>4. \A a \in Addr : Count(a, qn) = IF Within(a, e[n + 1]) THEN 1 ELSE 0
    BY <1>4, <1>6, <2>1
  <2>5. CASE n = 0
    <3>1. cn = qn
      BY <1>3, <1>6, <2>1, <2>2, <2>5
    <3>2. ASSUME NEW a \in Addr PROVE Cardinality(Containing(a, e, n + 1)) = Count(a, cn)
      <4>1. Containing(a, e, n) = {}
        BY <2>5 DEF Containing
      <4>2. Cardinality(Containing(a, e, n)) = 0
        BY <4>1, FS_EmptySet
      <4>3. Cardinality(Containing(a, e, n + 1))
              = Cardinality(Containing(a, e, n)) + IF Within(a, e[n + 1]) THEN 1 ELSE 0
        BY ContainingGrows
      <4> QED
        BY <2>4, <3>1, <4>2, <4>3
    <3> QED
      BY <2>2, <2>3, <3>1, <3>2
  <2>6. CASE n # 0
    <3>0. n \in 1 .. N /\ n + 1 # 1 /\ (n + 1) - 1 = n
      BY <1>6, <2>6
    <3>1. PICK co : co = c[n]
      OBVIOUS
    <3>2. cn = co \o qn
      BY <1>3, <1>6, <2>1, <2>2, <3>0, <3>1
    <3>a. Upto(n)
      BY <1>6, <3>0
    <3>3. /\ co \in Seq(Entry) /\ \A i \in 1 .. Len(co) : Cut(co[i])
          /\ \A a \in Addr : Count(a, co) = Cardinality(Containing(a, e, n))
      BY <3>1, <3>a
    <3>4. cn \in Seq(Entry) /\ \A i \in 1 .. Len(cn) : Cut(cn[i])
      <4>1. /\ cn \in Seq(Entry) /\ Len(cn) = Len(co) + Len(qn)
            /\ \A i \in 1 .. Len(co) + Len(qn) :
                 cn[i] = IF i <= Len(co) THEN co[i] ELSE qn[i - Len(co)]
            /\ Len(co) \in Nat /\ Len(qn) \in Nat
        BY <2>3, <3>2, <3>3, ConcatProperties, LenProperties
      <4>2. ASSUME NEW i \in 1 .. Len(cn) PROVE Cut(cn[i])
        <5>1. CASE i <= Len(co)
          <6>1. i \in 1 .. Len(co) /\ cn[i] = co[i]
            BY <4>1, <5>1
          <6> QED
            BY <3>3, <6>1
        <5>2. CASE ~(i <= Len(co))
          <6>1. i - Len(co) \in 1 .. Len(qn) /\ cn[i] = qn[i - Len(co)]
            BY <4>1, <5>2
          <6> QED
            BY <2>3, <6>1
        <5> QED
          BY <5>1, <5>2
      <4> QED
        BY <4>1, <4>2
    <3>5. ASSUME NEW a \in Addr PROVE Count(a, cn) = Cardinality(Containing(a, e, n + 1))
      <4>1. Count(a, cn) = Count(a, co) + Count(a, qn)
        BY <2>3, <3>2, <3>3, CountConcat
      <4>2. Cardinality(Containing(a, e, n + 1))
              = Cardinality(Containing(a, e, n)) + IF Within(a, e[n + 1]) THEN 1 ELSE 0
        BY ContainingGrows
      <4> QED
        BY <2>4, <3>3, <4>1, <4>2
    <3> QED
      BY <2>2, <3>4, <3>5
  <2> QED
    BY <2>5, <2>6
<1>7. ASSUME NEW n \in Nat, n \in S PROVE n + 1 \in S
  <2> SUFFICES n + 1 \in 1 .. N => Upto(n + 1)
    OBVIOUS
  <2> QED
    BY <1>6, <1>7
<1>8. Nat \subseteq S
  <2> HIDE DEF S
  <2> QED
    BY <1>5, <1>7, Induction
<1>9. Upto(N)
  <2>1. N \in S /\ N \in 1 .. N
    BY <1>8
  <2> QED
    BY <2>1
<1> QED
  BY <1>2, <1>9

(* An injection between sets of the same size reaches everything. *)
LEMMA InjectionReaches ==
    ASSUME NEW S, NEW T, IsFiniteSet(S), IsFiniteSet(T), Cardinality(S) = Cardinality(T),
           NEW f \in [S -> T], \A a, b \in S : f[a] = f[b] => a = b
    PROVE  \A t \in T : \E s \in S : f[s] = t
<1> SUFFICES ASSUME NEW t \in T, \A s \in S : f[s] # t PROVE FALSE
  OBVIOUS
<1> DEFINE R == {f[s] : s \in S}
<1>1. f \in Bijection(S, R)
  <2>1. f \in [S -> R] /\ \A r \in R : \E s \in S : f[s] = r
    OBVIOUS
  <2> HIDE DEF R
  <2> QED
    BY <2>1, Fun_IsBij
<1>2. R \subseteq T \ {t}
  OBVIOUS
<1> HIDE DEF R
<1>3. Cardinality(R) = Cardinality(S)
  BY <1>1, FS_Bijection DEF ExistsBijection
<1>4. IsFiniteSet(T \ {t}) /\ Cardinality(T \ {t}) = Cardinality(T) - 1
  BY FS_RemoveElement
<1>5. Cardinality(R) <= Cardinality(T \ {t}) /\ Cardinality(T) \in Nat
  BY <1>2, <1>4, FS_Subset, FS_CardinalityType
<1> QED
  BY <1>3, <1>4, <1>5

(* A set in some order: every element once. *)
LEMMA SetToSeqIs ==
    ASSUME NEW T, IsFiniteSet(T)
    PROVE  LET f == Seqs!SetToSeq(T)
           IN  /\ Cardinality(T) \in Nat /\ f \in [1 .. Cardinality(T) -> T]
               /\ \A a, b \in 1 .. Cardinality(T) : f[a] = f[b] => a = b
               /\ \A t \in T : \E i \in 1 .. Cardinality(T) : f[i] = t
<1>1. PICK n \in Nat : n = Cardinality(T) /\ Bijection(1 .. n, T) # {}
  BY FS_CardinalityType DEF ExistsBijection
<1> DEFINE F == [1 .. n -> T]
           f == CHOOSE g \in F : Seqs!IsInjective(g)
<1>2. \E g \in F : Seqs!IsInjective(g)
  <2>1. PICK g : g \in Bijection(1 .. n, T)
    BY <1>1
  <2>2. g \in F /\ \A a, b \in 1 .. n : g[a] = g[b] => a = b
    BY <2>1, Fun_BijectionProperties
  <2> QED
    BY <2>2 DEF Seqs!IsInjective
<1>3. Seqs!SetToSeq(T) = f
  <2>1. Seqs!SetToSeq(T) = CHOOSE g \in [1 .. Cardinality(T) -> T] : Seqs!IsInjective(g)
    BY Zenon DEF Seqs!SetToSeq, Seqs!Cardinality, Cardinality
  <2>2. n = Cardinality(T)
    BY <1>1
  <2> QED
    BY <2>1, <2>2, Zenon
<1>4. f \in F /\ Seqs!IsInjective(f)
  <2> HIDE DEF F
  <2> QED
    BY <1>2, Zenon
<1> HIDE DEF f
<1>5. f \in [1 .. n -> T] /\ \A a, b \in 1 .. n : f[a] = f[b] => a = b
  BY <1>4 DEF Seqs!IsInjective
<1>6. IsFiniteSet(1 .. n) /\ Cardinality(1 .. n) = Cardinality(T)
  BY <1>1, FS_Interval
<1>7. \A t \in T : \E i \in 1 .. n : f[i] = t
  BY <1>5, <1>6, InjectionReaches
<1> QED
  BY <1>1, <1>3, <1>5, <1>7

(* What every reachable state of a discovery keeps to. *)
Tiles(s, f) == \A a \in Addr : Count(a, s) = Cardinality({e \in f.allow : Within(a, e)})

AllowlistInv ==
    /\ allowFile \in AllowFile /\ reported \in AllowFile /\ allowEdits \in 0 .. MaxAllowEdits
    /\ scopeChunks \in Seq(Entry) /\ \A i \in 1 .. Len(scopeChunks) : Cut(scopeChunks[i])
    /\ scopeNext \in 1 .. Len(scopeChunks) + 1
    /\ scopeChunks # <<>> => Tiles(scopeChunks, reported)
    /\ vetting.verdict \in {"none", "scan", "allowlist_violation"} /\ vetting.addrs \subseteq Addr
    /\ ScansStayInFile

LEMMA FilesTyped ==
    ASSUME NEW f \in AllowFile
    PROVE  /\ f.allow \subseteq AllowEntries /\ f.deny \subseteq AllowEntries /\ IsFiniteSet(f.allow)
           /\ \A e \in f.allow \cup f.deny : e \in Entry /\ e.lo \in Nat /\ e.hi \in Nat
<1>1. f.allow \subseteq AllowEntries /\ f.deny \subseteq AllowEntries
  BY DEF AllowFile
<1>2. IsFiniteSet(f.allow)
  BY <1>1, FS_Subset, AllowlistAssumption
<1>3. \A e \in Entry : e.lo \in Nat /\ e.hi \in Nat
  BY AddrTyped DEF Entry
<1> QED
  BY <1>1, <1>2, <1>3, AddrTyped

LEMMA AllowlistInit_Inv == AllowlistInit => AllowlistInv
<1> SUFFICES ASSUME AllowlistInit PROVE AllowlistInv
  OBVIOUS
<1> USE DEF AllowlistInit
<1>1. NoFile \in AllowFile
  <2>1. Cardinality({}) = 0 /\ {} \in SUBSET AllowEntries /\ 0 <= MaxAllow /\ 0 <= MaxDeny
    BY FS_EmptySet, AllowlistAssumption
  <2> QED
    BY <2>1 DEF NoFile, AllowFile
<1>2. scopeChunks \in Seq(Entry) /\ Len(scopeChunks) = 0
  BY EmptySeq, EmptyHolds
<1>3. vetting.verdict = "none" /\ vetting.addrs = {}
  BY DEF NoVet
<1>4. allowEdits \in 0 .. MaxAllowEdits
  BY AllowlistAssumption
<1> QED
  BY <1>1, <1>2, <1>3, <1>4 DEF AllowlistInv, ScansStayInFile

(* The chunks of a dispatch. *)
LEMMA DispatchTiles ==
    ASSUME NEW f \in AllowFile, f.allow # {}
    PROVE  LET s == Seqs!FlattenSeq([i \in 1 .. Cardinality(f.allow) |->
                                       SplitTarget(Seqs!SetToSeq(f.allow)[i])])
           IN  s \in Seq(Entry) /\ (\A i \in 1 .. Len(s) : Cut(s[i])) /\ Tiles(s, f)
<1> DEFINE N == Cardinality(f.allow)
           e == Seqs!SetToSeq(f.allow)
           q == [i \in 1 .. N |-> SplitTarget(e[i])]
           s == Seqs!FlattenSeq(q)
<1>1. IsFiniteSet(f.allow) /\ f.allow \subseteq AllowEntries /\ AllowEntries \subseteq Entry
  BY FilesTyped, AddrTyped
<1>2. /\ N \in Nat /\ e \in [1 .. N -> f.allow]
      /\ \A a, b \in 1 .. N : e[a] = e[b] => a = b
      /\ \A t \in f.allow : \E i \in 1 .. N : e[i] = t
  BY <1>1, SetToSeqIs
<1>3. N \in Nat \ {0}
  BY <1>1, <1>2, FS_EmptySet
<1> HIDE DEF N, e
<1>4. \A i \in 1 .. N : e[i] \in AllowEntries /\ e[i] \in Entry
  BY <1>1, <1>2
<1>5. \A i \in 1 .. N : Tiling(SplitTarget(e[i]), Addresses(e[i])) /\ SplitTarget(e[i]) # <<>>
  BY <1>4, SplitTargetTiles
<1>6. \A i \in 1 .. N : q[i] = SplitTarget(e[i]) /\ q[i] \in Seq(Entry)
  BY <1>5 DEF Tiling
<1>7. q \in Seq(Seq(Entry)) /\ Len(q) = N
  <2>1. q \in [1 .. N -> Seq(Entry)]
    BY <1>6
  <2> HIDE DEF q
  <2> QED
    BY <1>2, <2>1, SeqDef, LenProperties
<1>8. \A j \in 1 .. N : Tiling(q[j], Addresses(e[j])) /\ q[j] # <<>>
  BY <1>5, <1>6
<1>9. e \in [1 .. N -> Entry]
  BY <1>2, <1>4
<1> HIDE DEF q
<1>10. /\ s \in Seq(Entry) /\ \A i \in 1 .. Len(s) : Cut(s[i])
       /\ \A a \in Addr : Count(a, s) = Cardinality(Containing(a, e, N))
  BY <1>3, <1>7, <1>8, <1>9, FlattenTiles, Zenon
<1> HIDE DEF s
<1>11. ASSUME NEW a \in Addr
       PROVE Cardinality(Containing(a, e, N)) = Cardinality({x \in f.allow : Within(a, x)})
  <2> DEFINE I == Containing(a, e, N)
             X == {x \in f.allow : Within(a, x)}
             g == [i \in I |-> e[i]]
  <2>1. I \subseteq 1 .. N /\ \A i \in I : e[i] \in X
    BY <1>2 DEF Containing
  <2>2. \A x \in X : \E i \in I : e[i] = x
    BY <1>2 DEF Containing
  <2>3. /\ g \in [I -> X] /\ \A i, j \in I : g[i] = g[j] => i = j
        /\ \A x \in X : \E i \in I : g[i] = x
    <3> HIDE DEF I, X
    <3> QED
      BY <1>2, <2>1, <2>2
  <2>4. IsFiniteSet(I)
    BY <1>2, ContainingGrows
  <2> HIDE DEF I, X, g
  <2>5. g \in Bijection(I, X)
    BY <2>3, Fun_IsBij
  <2> QED
    BY <2>4, <2>5, FS_Bijection DEF ExistsBijection, I, X
<1>12. Tiles(s, f)
  BY <1>10, <1>11 DEF Tiles
<1> QED
  BY <1>10, <1>12 DEF s, q, e, N

(* A verdict to scan is a scan within the file. *)
LEMMA VetIsSound ==
    ASSUME NEW f \in AllowFile, NEW c \in Entry, Cut(c), NEW resolved \in SUBSET Addr,
           Vet(f, c, resolved)
    PROVE  \A a \in IF c.kind = "host" THEN resolved ELSE Addresses(c) :
               /\ Allowed(f, a) /\ ~Denied(f, a, {"cidr"})
               /\ c.kind # "cidr" => ~Denied(f, a, {"ip", "range"})
<1>1. /\ c.kind \in EntryKinds /\ c.lo \in Nat /\ c.hi \in Nat /\ Addr \subseteq Nat
      /\ \A e \in f.allow \cup f.deny : e \in Entry /\ e.lo \in Nat /\ e.hi \in Nat
  BY FilesTyped, AddrTyped DEF Entry
<1>2. \A a \in Addr : AllowsIP(f, a) =>
          Allowed(f, a) /\ ~Denied(f, a, {"cidr"}) /\ ~Denied(f, a, {"ip", "range"})
  BY DEF AllowsIP, Allowed, Denied
<1>3. CASE c.kind = "cidr"
  <2>1. AllowsCIDR(f, c)
    BY <1>3 DEF Vet
  <2> SUFFICES ASSUME NEW a \in Addr, Within(a, c) PROVE Allowed(f, a) /\ ~Denied(f, a, {"cidr"})
    BY <1>3 DEF Addresses
  <2>2. Allowed(f, a)
    <3>1. PICK n \in f.allow : n.kind = "cidr" /\ CidrContainsCidr(n, c)
      BY <2>1 DEF AllowsCIDR
    <3>2. Within(a, n)
      BY <1>1, <3>1 DEF CidrContainsCidr, Within
    <3> QED
      BY <3>1, <3>2 DEF Allowed
  <2>3. ASSUME NEW n \in f.deny, n.kind = "cidr", Within(a, n) PROVE FALSE
    <3>1. ~CidrsOverlap(n, c)
      BY <2>1, <2>3 DEF AllowsCIDR
    <3> QED
      BY <1>1, <2>3, <3>1 DEF CidrsOverlap, Within
  <2> QED
    BY <2>2, <2>3 DEF Denied
<1>4. CASE c.kind = "ip"
  <2>1. AllowsIP(f, c.lo) /\ \A a \in Addresses(c) : a = c.lo /\ a \in Addr
    BY <1>1, <1>4 DEF Vet, Cut, Addresses, Within
  <2> QED
    BY <1>2, <1>4, <2>1
<1>5. CASE c.kind = "range"
  <2>1. c.hi < c.lo
    BY <1>5 DEF Cut
  <2>2. \A a \in Addr : a \in Nat /\ ~(c.lo <= a /\ a <= c.hi)
    BY <1>1, <2>1
  <2>3. Addresses(c) = {}
    BY <2>2 DEF Addresses, Within
  <2> QED
    BY <1>5, <2>3
<1>6. CASE c.kind = "host"
  <2>1. \A a \in resolved : AllowsIP(f, a)
    BY <1>6 DEF Vet
  <2> QED
    BY <1>2, <1>6, <2>1
<1> QED
  BY <1>1, <1>3, <1>4, <1>5, <1>6 DEF EntryKinds

LEMMA AllowlistStep == AllowlistInv /\ [AllowlistNext]_allowlistVars => AllowlistInv'
<1> SUFFICES ASSUME AllowlistInv, [AllowlistNext]_allowlistVars PROVE AllowlistInv'
  OBVIOUS
<1>1. ASSUME NEW e \in AllowEntries, EditFile(e) PROVE AllowlistInv'
  <2>1. allowEdits' \in 0 .. MaxAllowEdits
    BY <1>1, AllowlistAssumption DEF AllowlistInv, EditFile
  <2> QED
    BY <1>1, <2>1 DEF AllowlistInv, EditFile, ScansStayInFile
<1>2. CASE ReportAllowlist
  BY <1>2 DEF AllowlistInv, ReportAllowlist, ScansStayInFile
<1>3. CASE DispatchAllowlist
  <2>1. PICK s : s = scopeChunks'
    OBVIOUS
  <2>2. s \in Seq(Entry) /\ (\A i \in 1 .. Len(s) : Cut(s[i])) /\ Tiles(s, reported)
    BY <1>3, <2>1, DispatchTiles DEF AllowlistInv, DispatchAllowlist
  <2>3. scopeNext = 1 /\ Len(s) \in Nat
    <3>1. scopeChunks = <<>> /\ Len(scopeChunks) = 0
      BY <1>3, EmptyHolds DEF DispatchAllowlist
    <3> QED
      BY <2>2, <3>1, LenProperties DEF AllowlistInv
  <2>4. scopeNext' \in 1 .. Len(s) + 1
    BY <1>3, <2>3 DEF DispatchAllowlist
  <2> QED
    BY <1>3, <2>1, <2>2, <2>4 DEF AllowlistInv, DispatchAllowlist, ScansStayInFile
<1>4. ASSUME NEW resolved \in SUBSET Addr, VetChunk(resolved) PROVE AllowlistInv'
  <2> DEFINE c == scopeChunks[scopeNext]
  <2>1. scopeNext \in 1 .. Len(scopeChunks) /\ Len(scopeChunks) \in Nat
    BY <1>4, LenProperties DEF AllowlistInv, VetChunk
  <2>2. c \in Entry /\ Cut(c)
    BY <2>1, ElementOfSeq DEF AllowlistInv
  <2>3. /\ vetting'.verdict = IF Vet(allowFile, c, resolved) THEN "scan" ELSE "allowlist_violation"
        /\ vetting'.chunk = c /\ vetting'.file = allowFile
        /\ vetting'.addrs = IF c.kind = "host" THEN resolved ELSE Addresses(c)
    BY <1>4 DEF VetChunk
  <2>4. ScansStayInFile'
    <3>1. CASE Vet(allowFile, c, resolved)
      <4> HIDE DEF c
      <4> QED
        BY <2>2, <2>3, <3>1, VetIsSound DEF AllowlistInv, ScansStayInFile
    <3>2. CASE ~Vet(allowFile, c, resolved)
      <4> HIDE DEF c
      <4> QED
        BY <2>3, <3>2 DEF ScansStayInFile
    <3> QED
      BY <3>1, <3>2
  <2>5. scopeNext' \in 1 .. Len(scopeChunks) + 1
    BY <1>4, <2>1 DEF VetChunk
  <2>6. vetting'.verdict \in {"none", "scan", "allowlist_violation"} /\ vetting'.addrs \subseteq Addr
    BY <2>3 DEF Addresses
  <2> QED
    BY <1>4, <2>4, <2>5, <2>6 DEF AllowlistInv, VetChunk
<1>5. CASE UNCHANGED allowlistVars
  BY <1>5 DEF AllowlistInv, allowlistVars, ScansStayInFile
<1> QED
  BY <1>1, <1>2, <1>3, <1>4, <1>5 DEF AllowlistNext

(* What every reachable state of an allowlist, its report and the chunks   *)
(* of a discovery keeps to.                                                *)
THEOREM AllowlistInvariant == AllowlistSpec => []AllowlistInv
<1> QED
  BY AllowlistInit_Inv, AllowlistStep, PTL DEF AllowlistSpec

(* However far the report and the file have drifted apart, what the agent  *)
(* scans is allowed by its file of that moment, for any addresses,         *)
(* entries, chunk limit and number of edits.                               *)
THEOREM ScansAreAllowed == AllowlistSpec => []ScansStayInFile
<1>1. AllowlistInv => ScansStayInFile
  BY DEF AllowlistInv
<1> QED
  BY <1>1, AllowlistInvariant, PTL

(* The chunks of a dispatch hold every address as often as the reported    *)
(* entries do and none holds more than the limit, for any addresses,       *)
(* entries and sizes of networks.                                          *)
THEOREM ChunksTile == AllowlistSpec => []ChunksTileEntries
<1>1. AllowlistInv => ChunksTileEntries
  <2> SUFFICES ASSUME AllowlistInv, scopeChunks # <<>> PROVE ChunksTileEntries
    BY DEF ChunksTileEntries
  <2>1. \A i \in 1 .. Len(scopeChunks) : Cut(scopeChunks[i])
    BY DEF AllowlistInv
  <2>2. Tiles(scopeChunks, reported)
    BY DEF AllowlistInv
  <2> QED
    BY <2>1, <2>2 DEF ChunksTileEntries, Tiles, Count, Cut
<1> QED
  BY <1>1, AllowlistInvariant, PTL

-----------------------------------------------------------------------------
(* Discovery definitions and their parents (ScanDefinitions).              *)

Crons == CronTimes \cup {NoCron}
Worker == [at : {"idle", "claim", "create", "chunks", "fail", "update", "enable"},
           now : Minutes, cron : Crons, stale : BOOLEAN]

Failing == {w \in Workers : worker[w].at = "fail"}
MatchedBy(until) == {t \in def.cron : since < t /\ t <= minute /\ t < until}
Matched == {t \in def.cron : since < t /\ t <= minute}
Scheduled == def.enabled /\ def.cron # NoCron /\ def.next # Null

(* Nobody works with a time to come; an enable that no write has overtaken *)
(* works on the schedule the row has.                                      *)
WorkersInv ==
    /\ worker \in [Workers -> Worker]
    /\ \A w \in Workers :
         /\ worker[w].now <= minute
         /\ worker[w].at = "enable" /\ ~worker[w].stale => worker[w].cron = def.cron

(* A parent about to be failed has cost one fault already. *)
FaultsInv ==
    /\ IsFiniteSet(Failing)
    /\ 2 * orphans + Cardinality(Failing) <= mishaps + deaths

(* The claims so far took one match each, all before the next run. *)
ClaimsInv ==
    gaveUp \/ overlapped \/
      /\ claimed <= Cardinality(Matched)
      /\ Scheduled => /\ def.next \in def.cron /\ since < def.next
                      /\ claimed <= Cardinality(MatchedBy(def.next))

DefInv ==
    /\ ScanDefinitionsTypeOK /\ WorkersInv /\ FaultsInv /\ ClaimsInv /\ LoseATickNotADefinition

LEMMA CronsTyped ==
    /\ NoCron \in Crons /\ \A c \in Crons : IsFiniteSet(c) /\ c \subseteq Minutes /\ 0 \notin c
    /\ 0 \in Minutes /\ Minutes \subseteq Nat
<1>1. IsFiniteSet(1 .. MaxMinutes)
  BY FS_Interval, ScanDefinitionsAssumption
<1>2. ASSUME NEW c \in Crons PROVE IsFiniteSet(c) /\ c \subseteq 1 .. MaxMinutes
  <2>1. c \subseteq 1 .. MaxMinutes
    BY ScanDefinitionsAssumption DEF Crons, NoCron
  <2> QED
    BY <1>1, <2>1, FS_Subset
<1>3. 1 .. MaxMinutes \subseteq Minutes /\ 0 \notin 1 .. MaxMinutes /\ 0 \in Minutes /\ Minutes \subseteq Nat
  BY ScanDefinitionsAssumption DEF Minutes
<1> QED
  BY <1>2, <1>3 DEF Crons

LEMMA OffDutyIdle == OffDuty \in Worker /\ OffDuty.at = "idle" /\ OffDuty.now = 0
BY CronsTyped DEF OffDuty, Worker

LEMMA OffDutyTyped ==
    ASSUME NEW to \in {"idle", "claim", "create", "chunks", "fail", "update", "enable"}
    PROVE  \E x \in Worker : x = [OffDuty EXCEPT !.at = to] /\ x.at = to /\ x.now = 0
<1> DEFINE x == [OffDuty EXCEPT !.at = to]
<1>1. x \in Worker /\ x.at = to /\ x.now = 0
  BY OffDutyIdle DEF Worker
<1> HIDE DEF x
<1>2. x = [OffDuty EXCEPT !.at = to]
  BY DEF x
<1> QED
  BY <1>1, <1>2

LEMMA NextRunIs ==
    ASSUME NEW cron \in Crons, NEW from \in Minutes
    PROVE  /\ NextRun(cron, from) \in Minutes
           /\ NextRun(cron, from) # Null => NextRun(cron, from) \in cron /\ from < NextRun(cron, from)
<1>1. Matching(cron, from) \in SUBSET Nat /\ Matching(cron, from) \subseteq cron
  BY CronsTyped DEF Matching
<1>2. CASE Matching(cron, from) = {}
  BY <1>2, CronsTyped DEF NextRun, Null
<1>3. CASE Matching(cron, from) # {}
  <2>1. NextRun(cron, from) \in Matching(cron, from)
    BY <1>1, <1>3, LeastNumber DEF NextRun, Min
  <2> QED
    BY <2>1, CronsTyped DEF Matching
<1> QED
  BY <1>2, <1>3

LEMMA InitDefInv == ScanDefinitionsInit => DefInv
<1> SUFFICES ASSUME ScanDefinitionsInit PROVE DefInv
  OBVIOUS
<1>1. worker \in [Workers -> Worker] /\ \A w \in Workers : worker[w] = OffDuty
  BY OffDutyIdle DEF ScanDefinitionsInit
<1>2. WorkersInv
  BY <1>1, OffDutyIdle DEF WorkersInv, ScanDefinitionsInit
<1>3. Failing = {}
  BY <1>1, OffDutyIdle DEF Failing
<1>4. FaultsInv
  BY <1>3, FS_EmptySet DEF FaultsInv, ScanDefinitionsInit
<1>5. Matched = {}
  BY DEF Matched, ScanDefinitionsInit, NoCron
<1>6. ClaimsInv
  BY <1>5, FS_EmptySet DEF ClaimsInv, Scheduled, ScanDefinitionsInit
<1>7. ScanDefinitionsTypeOK
  <2>1. /\ minute \in Minutes /\ since \in Minutes /\ claimed \in Nat /\ orphans \in Nat /\ edits \in 0 .. MaxEdits
        /\ mishaps \in 0 .. edits /\ deaths \in 0 .. mishaps
        /\ gaveUp \in BOOLEAN /\ overlapped \in BOOLEAN
    <3>1. 0 \in 0 .. MaxEdits /\ 0 \in 0 .. 0 /\ 0 \in Minutes
      BY CronsTyped, ScanDefinitionsAssumption
    <3> QED
      BY <3>1 DEF ScanDefinitionsInit
  <2>2. def \in [enabled : BOOLEAN, cron : Crons, next : Minutes]
    BY CronsTyped DEF ScanDefinitionsInit, Null
  <2> QED
    BY <1>1, <2>1, <2>2 DEF ScanDefinitionsTypeOK, Worker, Crons
<1> QED
  BY <1>2, <1>4, <1>6, <1>7 DEF DefInv, LoseATickNotADefinition, ScanDefinitionsInit

(* How the failing workers change with one worker. *)
LEMMA FailingStep ==
    ASSUME WorkersInv, FaultsInv, NEW w \in Workers, NEW x \in Worker, worker' = [worker EXCEPT ![w] = x]
    PROVE  /\ IsFiniteSet(Failing') /\ Cardinality(Failing) \in Nat /\ Cardinality(Failing') \in Nat
           /\ (x.at = "fail") => Cardinality(Failing') <= Cardinality(Failing) + 1
           /\ (x.at # "fail") => Cardinality(Failing') <= Cardinality(Failing)
           /\ (x.at # "fail") /\ worker[w].at = "fail" => Cardinality(Failing') = Cardinality(Failing) - 1
<1>1. \A v \in Workers : worker'[v] = IF v = w THEN x ELSE worker[v]
  BY DEF WorkersInv
<1>2. x.at = "fail" => Failing' = Failing \cup {w}
  BY <1>1 DEF Failing
<1>3. x.at # "fail" => Failing' = Failing \ {w}
  BY <1>1 DEF Failing
<1>4. w \in Failing <=> worker[w].at = "fail"
  BY DEF Failing
<1>5. IsFiniteSet(Failing) /\ Cardinality(Failing) \in Nat
  BY FS_CardinalityType DEF FaultsInv
<1>6. /\ IsFiniteSet(Failing \cup {w}) /\ Cardinality(Failing \cup {w}) \in Nat
      /\ Cardinality(Failing \cup {w}) <= Cardinality(Failing) + 1
  <2>1. /\ IsFiniteSet(Failing \cup {w})
        /\ \/ Cardinality(Failing \cup {w}) = Cardinality(Failing)
           \/ Cardinality(Failing \cup {w}) = Cardinality(Failing) + 1
    BY <1>5, FS_AddElement
  <2> QED
    BY <1>5, <2>1
<1>7. /\ IsFiniteSet(Failing \ {w}) /\ Cardinality(Failing \ {w}) \in Nat
      /\ Cardinality(Failing \ {w}) <= Cardinality(Failing)
      /\ w \in Failing => Cardinality(Failing \ {w}) = Cardinality(Failing) - 1
  <2>1. /\ IsFiniteSet(Failing \ {w})
        /\ w \in Failing => Cardinality(Failing \ {w}) = Cardinality(Failing) - 1
        /\ w \notin Failing => Cardinality(Failing \ {w}) = Cardinality(Failing)
    BY <1>5, FS_RemoveElement
  <2> QED
    BY <1>5, <2>1, FS_CardinalityType
<1> QED
  BY <1>2, <1>3, <1>4, <1>5, <1>6, <1>7

(* One worker goes on, and the row is not written. *)
LEMMA WorkerStep ==
    ASSUME DefInv, NEW w \in Workers, NEW x \in Worker, worker' = [worker EXCEPT ![w] = x],
           UNCHANGED <<minute, def, claimed, since, gaveUp, overlapped>>,
           x.now <= minute, x.at = "enable" => x.cron = def.cron,
           orphans' \in Nat, edits' \in 0 .. MaxEdits, mishaps' \in 0 .. edits', deaths' \in 0 .. mishaps',
           2 * orphans' + Cardinality(Failing') <= mishaps' + deaths'
    PROVE  DefInv'
<1>1. /\ worker' \in [Workers -> Worker]
      /\ \A v \in Workers : worker'[v] = IF v = w THEN x ELSE worker[v]
  BY DEF DefInv, WorkersInv
<1>2. WorkersInv'
  BY <1>1 DEF DefInv, WorkersInv
<1>3. FaultsInv'
  BY FailingStep DEF DefInv, FaultsInv
<1>4. ClaimsInv'
  BY DEF DefInv, ClaimsInv, Matched, MatchedBy, Scheduled
<1>5. ScanDefinitionsTypeOK'
  BY <1>1 DEF DefInv, ScanDefinitionsTypeOK, Worker, Crons
<1> QED
  BY <1>2, <1>3, <1>4, <1>5 DEF DefInv, LoseATickNotADefinition

LEMMA CountersTyped ==
    ASSUME DefInv
    PROVE  /\ orphans \in Nat /\ edits \in 0 .. MaxEdits /\ MaxEdits \in Nat
           /\ mishaps \in 0 .. edits /\ deaths \in 0 .. mishaps /\ claimed \in Nat
BY ScanDefinitionsAssumption DEF DefInv, ScanDefinitionsTypeOK

LEMMA TimesTyped ==
    ASSUME DefInv
    PROVE  minute \in Minutes /\ since \in Minutes /\ minute \in Nat /\ 0 <= minute /\ minute <= minute
BY CronsTyped DEF DefInv, ScanDefinitionsTypeOK

LEMMA RowTyped ==
    ASSUME DefInv
    PROVE  /\ def \in [enabled : BOOLEAN, cron : Crons, next : Minutes]
           /\ worker \in [Workers -> Worker]
BY DEF DefInv, ScanDefinitionsTypeOK, WorkersInv, Crons

(* The steps of a worker that only goes on. *)
LEMMA PlainKeeps ==
    ASSUME DefInv, NEW w \in Workers,
           StartTick(w) \/ NothingDue(w) \/ ExecuteNow(w) \/ CreateScanForDefinition(w)
           \/ CreateChunks(w) \/ EditRefused(w)
    PROVE  DefInv'
<1>1. PICK x \in Worker : /\ worker' = [worker EXCEPT ![w] = x]
                          /\ x.now <= minute /\ x.at \notin {"enable", "fail"}
  <2>1. CASE StartTick(w)
    <3> DEFINE x == [OffDuty EXCEPT !.at = "claim", !.now = minute]
    <3>1. minute \in Minutes
      BY TimesTyped
    <3>2. x \in Worker /\ x.now = minute /\ x.at = "claim"
      BY OffDutyIdle, <3>1 DEF Worker
    <3>3. worker' = [worker EXCEPT ![w] = x]
      BY <2>1 DEF StartTick
    <3> HIDE DEF x
    <3> QED
      BY <3>2, <3>3, TimesTyped
  <2>2. CASE NothingDue(w) \/ CreateChunks(w) \/ EditRefused(w)
    BY <2>2, OffDutyIdle, TimesTyped DEF NothingDue, CreateChunks, EditRefused
  <2>3. CASE ExecuteNow(w)
    <3>1. PICK x \in Worker : x = [OffDuty EXCEPT !.at = "create"] /\ x.at = "create" /\ x.now = 0
      BY OffDutyTyped
    <3> QED
      BY <2>3, <3>1, TimesTyped DEF ExecuteNow, Goes
  <2>4. CASE CreateScanForDefinition(w)
    <3>1. PICK x \in Worker : x = [OffDuty EXCEPT !.at = "chunks"] /\ x.at = "chunks" /\ x.now = 0
      BY OffDutyTyped
    <3> QED
      BY <2>4, <3>1, TimesTyped DEF CreateScanForDefinition, Goes
  <2> QED
    BY <2>1, <2>2, <2>3, <2>4
<1>2. /\ UNCHANGED <<minute, def, claimed, since, gaveUp, overlapped, orphans, mishaps, deaths>>
      /\ edits' \in 0 .. MaxEdits /\ edits' >= edits
  BY CountersTyped DEF StartTick, NothingDue, ExecuteNow, CreateScanForDefinition, CreateChunks, EditRefused, Edit
<1>3. 2 * orphans' + Cardinality(Failing') <= mishaps' + deaths'
  <2>1. Cardinality(Failing') <= Cardinality(Failing) /\ Cardinality(Failing') \in Nat
        /\ Cardinality(Failing) \in Nat
    BY <1>1, FailingStep DEF DefInv
  <2> QED
    BY <1>2, <2>1, CountersTyped DEF DefInv, FaultsInv
<1>4. /\ orphans' \in Nat /\ edits' \in 0 .. MaxEdits /\ mishaps' \in 0 .. edits' /\ deaths' \in 0 .. mishaps'
  BY <1>2, CountersTyped
<1> QED
  BY <1>1, <1>2, <1>3, <1>4, WorkerStep, TimesTyped

LEMMA StartEditKeeps ==
    ASSUME DefInv, NEW w \in Workers, NEW op \in {"update", "enable"}, NEW cron \in Crons,
           op = "enable" => cron = def.cron, StartEdit(w, op, cron)
    PROVE  DefInv'
<1> DEFINE x == [at |-> op, now |-> minute, cron |-> cron, stale |-> FALSE]
<1>1. x \in Worker /\ x.now = minute /\ x.at = op /\ x.cron = cron
  BY TimesTyped DEF Worker
<1>2. /\ worker' = [worker EXCEPT ![w] = x] /\ edits < MaxEdits /\ edits' = edits + 1
      /\ UNCHANGED <<minute, def, claimed, since, gaveUp, overlapped, orphans, mishaps, deaths>>
  BY DEF StartEdit, Edit
<1> HIDE DEF x
<1>3. 2 * orphans' + Cardinality(Failing') <= mishaps' + deaths'
  <2>1. Cardinality(Failing') <= Cardinality(Failing) /\ Cardinality(Failing') \in Nat
        /\ Cardinality(Failing) \in Nat
    BY <1>1, <1>2, FailingStep DEF DefInv
  <2> QED
    BY <1>2, <2>1, CountersTyped DEF DefInv, FaultsInv
<1>4. /\ orphans' \in Nat /\ edits' \in 0 .. MaxEdits /\ mishaps' \in 0 .. edits' /\ deaths' \in 0 .. mishaps'
  BY <1>2, CountersTyped
<1> QED
  BY <1>1, <1>2, <1>3, <1>4, WorkerStep, TimesTyped

(* The steps in which something fails, or what failed is cleaned up. *)
LEMMA FaultKeeps ==
    ASSUME DefInv, NEW w \in Workers, ChunksFail(w) \/ FailScan(w) \/ WorkerEnds(w)
    PROVE  DefInv'
<1>1. PICK x \in Worker : /\ worker' = [worker EXCEPT ![w] = x] /\ x.now <= minute /\ x.at # "enable"
                          /\ (ChunksFail(w) \/ x.at # "fail")
  <2>1. CASE ChunksFail(w)
    <3>1. PICK x \in Worker : x = [OffDuty EXCEPT !.at = "fail"] /\ x.at = "fail" /\ x.now = 0
      BY OffDutyTyped
    <3> QED
      BY <2>1, <3>1, TimesTyped DEF ChunksFail, Goes
  <2>2. CASE FailScan(w) \/ WorkerEnds(w)
    BY <2>2, OffDutyIdle, TimesTyped DEF FailScan, WorkerEnds
  <2> QED
    BY <2>1, <2>2
<1>2. UNCHANGED <<minute, def, claimed, since, gaveUp, overlapped>>
  BY DEF ChunksFail, FailScan, WorkerEnds
<1> DEFINE F == Cardinality(Failing)
           G == Cardinality(Failing')
<1>3. /\ F \in Nat /\ G \in Nat /\ G <= F + 1
      /\ x.at # "fail" => G <= F
      /\ x.at # "fail" /\ worker[w].at = "fail" => G = F - 1
  <2>1. WorkersInv /\ FaultsInv /\ worker' = [worker EXCEPT ![w] = x]
    BY <1>1 DEF DefInv
  <2>2. /\ F \in Nat /\ G \in Nat /\ (x.at = "fail" => G <= F + 1) /\ (x.at # "fail" => G <= F)
        /\ (x.at # "fail" /\ worker[w].at = "fail" => G = F - 1)
    BY <2>1, FailingStep
  <2> HIDE DEF F, G
  <2> QED
    BY <2>2
<1>4. 2 * orphans + F <= mishaps + deaths
  BY DEF DefInv, FaultsInv
<1> HIDE DEF F, G
<1>5. /\ orphans' \in Nat /\ edits' \in 0 .. MaxEdits /\ mishaps' \in 0 .. edits' /\ deaths' \in 0 .. mishaps'
      /\ 2 * orphans' + G <= mishaps' + deaths'
  <2>1. CASE ChunksFail(w)
    <3>1. edits < MaxEdits /\ edits' = edits + 1 /\ mishaps' = mishaps + 1 /\ orphans' = orphans /\ deaths' = deaths
      BY <2>1 DEF ChunksFail, Mishap
    <3> QED
      BY <1>3, <1>4, <3>1, CountersTyped
  <2>2. CASE FailScan(w)
    <3>1. /\ worker[w].at = "fail" /\ deaths' = deaths /\ x.at # "fail"
          /\ \/ orphans' = orphans /\ edits' = edits /\ mishaps' = mishaps
             \/ edits < MaxEdits /\ edits' = edits + 1 /\ mishaps' = mishaps + 1 /\ orphans' = orphans + 1
      BY <2>2, <1>1, OffDutyIdle, RowTyped DEF FailScan, Mishap, OnDuty, ChunksFail
    <3> QED
      BY <1>3, <1>4, <3>1, CountersTyped
  <2>3. CASE WorkerEnds(w)
    <3>1. /\ edits < MaxEdits /\ edits' = edits + 1 /\ mishaps' = mishaps + 1 /\ deaths' = deaths + 1
          /\ orphans' = orphans \/ orphans' = orphans + 1
      BY <2>3, CountersTyped DEF WorkerEnds, Mishap
    <3>2. x.at # "fail"
      BY <1>1, <2>3, OffDutyIdle, RowTyped DEF WorkerEnds
    <3> QED
      BY <1>3, <1>4, <3>1, <3>2, CountersTyped
  <2> QED
    BY <2>1, <2>2, <2>3
<1> QED
  BY <1>1, <1>2, <1>5, WorkerStep DEF G

LEMMA MinuteKeeps ==
    ASSUME DefInv, MinutePasses
    PROVE  DefInv'
<1>1. /\ minute < MaxMinutes /\ minute' = minute + 1
      /\ UNCHANGED <<def, worker, claimed, since, gaveUp, overlapped, orphans, edits, mishaps, deaths>>
  BY DEF MinutePasses
<1>2. minute' \in Minutes
  BY <1>1, TimesTyped, ScanDefinitionsAssumption DEF Minutes
<1>3. \A w \in Workers : worker[w].now \in Nat
  BY RowTyped, CronsTyped DEF Worker
<1>4. WorkersInv'
  BY <1>1, <1>3, TimesTyped DEF DefInv, WorkersInv
<1>5. /\ Matched \subseteq Matched' /\ Matched' \subseteq def.cron
      /\ MatchedBy(def.next) \subseteq MatchedBy(def.next)' /\ MatchedBy(def.next)' \subseteq def.cron
  <2>1. \A t \in def.cron : t \in Nat
    BY RowTyped, CronsTyped
  <2> QED
    BY <1>1, <2>1, TimesTyped DEF Matched, MatchedBy
<1>6. /\ Cardinality(Matched) <= Cardinality(Matched') /\ Cardinality(Matched) \in Nat
      /\ Cardinality(MatchedBy(def.next)) <= Cardinality(MatchedBy(def.next)')
      /\ Cardinality(MatchedBy(def.next)) \in Nat
      /\ Cardinality(Matched') \in Nat /\ Cardinality(MatchedBy(def.next)') \in Nat
  <2>1. IsFiniteSet(def.cron)
    BY RowTyped, CronsTyped
  <2>2. IsFiniteSet(Matched') /\ IsFiniteSet(MatchedBy(def.next)')
    BY <1>5, <2>1, FS_Subset
  <2> QED
    BY <1>5, <2>2, FS_Subset, FS_CardinalityType
<1>7. ClaimsInv'
  BY <1>1, <1>6, CountersTyped DEF DefInv, ClaimsInv, Scheduled
<1>8. FaultsInv'
  BY <1>1 DEF DefInv, FaultsInv, Failing
<1>9. ScanDefinitionsTypeOK'
  BY <1>1, <1>2 DEF DefInv, ScanDefinitionsTypeOK
<1> QED
  BY <1>1, <1>4, <1>7, <1>8, <1>9 DEF DefInv, LoseATickNotADefinition

LEMMA ClaimKeeps ==
    ASSUME DefInv, NEW w \in Workers, ClaimDueScanDefinitions(w)
    PROVE  DefInv'
<1> DEFINE now == worker[w].now
           next == NextRun(def.cron, now)
<1>1. /\ def.enabled /\ def.cron # NoCron /\ def.next # Null /\ def.next <= now
      /\ def' = [def EXCEPT !.next = IF next = Null THEN def.next ELSE next]
      /\ gaveUp' = (gaveUp \/ next = Null) /\ claimed' = (IF gaveUp' THEN claimed ELSE claimed + 1)
      /\ worker' = [worker EXCEPT ![w] = [OffDuty EXCEPT !.at = "create"]]
      /\ UNCHANGED <<minute, since, overlapped, orphans, edits, mishaps, deaths>>
  BY DEF ClaimDueScanDefinitions, Due, Advance, Goes
<1>2. now \in Minutes /\ now <= minute /\ def.cron \in Crons /\ def.next \in Minutes
  BY RowTyped DEF DefInv, WorkersInv, Worker
<1>3. next \in Minutes /\ (next # Null => next \in def.cron /\ now < next)
  BY <1>2, NextRunIs
<1>4. PICK x \in Worker : worker' = [worker EXCEPT ![w] = x] /\ x.at = "create" /\ x.now = 0
  BY <1>1, OffDutyTyped
<1>5. /\ worker' \in [Workers -> Worker]
      /\ \A v \in Workers : worker'[v] = IF v = w THEN x ELSE worker[v]
  BY <1>4, RowTyped
<1> HIDE DEF now, next
<1>6. /\ def' \in [enabled : BOOLEAN, cron : Crons, next : Minutes] /\ def'.cron = def.cron
      /\ def'.enabled = def.enabled /\ def'.next = (IF next = Null THEN def.next ELSE next) /\ def'.next # Null
  BY <1>1, <1>2, <1>3, RowTyped
<1>7. WorkersInv'
  BY <1>1, <1>4, <1>5, <1>6, TimesTyped DEF DefInv, WorkersInv
<1>8. FaultsInv'
  <2>1. /\ Cardinality(Failing') <= Cardinality(Failing) /\ Cardinality(Failing') \in Nat
        /\ Cardinality(Failing) \in Nat /\ IsFiniteSet(Failing')
    BY <1>4, FailingStep DEF DefInv
  <2> QED
    BY <1>1, <2>1, CountersTyped DEF DefInv, FaultsInv
<1>9. ClaimsInv'
  <2> SUFFICES ASSUME ~gaveUp', ~overlapped'
               PROVE  claimed' <= Cardinality(Matched') /\ claimed' <= Cardinality(MatchedBy(def.next)')
                      /\ def'.next \in def.cron /\ since < def'.next
    BY <1>1, <1>6 DEF ClaimsInv
  <2>1. /\ next # Null /\ claimed' = claimed + 1 /\ def'.next = next
        /\ def.next \in def.cron /\ since < def.next /\ claimed <= Cardinality(MatchedBy(def.next))
    BY <1>1, <1>6 DEF DefInv, ClaimsInv, Scheduled
  <2>2. \A t \in def.cron : t \in Nat
    BY <1>2, CronsTyped
  <2>3. since \in Nat /\ minute \in Nat /\ next \in Nat /\ def.next \in Nat /\ now \in Nat
    BY <1>2, <1>3, TimesTyped, CronsTyped
  <2>4. /\ MatchedBy(def.next) \cup {def.next} \subseteq MatchedBy(def.next)'
        /\ def.next \notin MatchedBy(def.next) /\ MatchedBy(def.next)' \subseteq Matched'
        /\ Matched' \subseteq def.cron
    BY <1>1, <1>2, <1>3, <1>6, <2>1, <2>2, <2>3 DEF MatchedBy, Matched
  <2>5. IsFiniteSet(def.cron) /\ IsFiniteSet(Matched') /\ IsFiniteSet(MatchedBy(def.next)')
        /\ IsFiniteSet(MatchedBy(def.next))
    BY <1>2, <2>4, CronsTyped, FS_Subset DEF MatchedBy
  <2>6. Cardinality(MatchedBy(def.next) \cup {def.next}) = Cardinality(MatchedBy(def.next)) + 1
    BY <2>4, <2>5, FS_AddElement
  <2>7. /\ Cardinality(MatchedBy(def.next) \cup {def.next}) <= Cardinality(MatchedBy(def.next)')
        /\ Cardinality(MatchedBy(def.next)') <= Cardinality(Matched')
        /\ Cardinality(Matched') \in Nat /\ Cardinality(MatchedBy(def.next)') \in Nat
        /\ Cardinality(MatchedBy(def.next)) \in Nat
    BY <2>4, <2>5, FS_Subset, FS_CardinalityType
  <2>8. since < def'.next
    BY <1>1, <1>3, <2>1, <2>3
  <2> QED
    BY <1>3, <2>1, <2>6, <2>7, <2>8, CountersTyped
<1>10. claimed' \in Nat /\ gaveUp' \in BOOLEAN
  BY <1>1, CountersTyped
<1>11. ScanDefinitionsTypeOK'
  BY <1>1, <1>5, <1>6, <1>10 DEF DefInv, ScanDefinitionsTypeOK, Worker, Crons
<1> QED
  BY <1>6, <1>7, <1>8, <1>9, <1>11 DEF DefInv, LoseATickNotADefinition

(* A request writes the row: what it computed from another's is overtaken. *)
LEMMA WrittenKeeps ==
    ASSUME DefInv, NEW w \in Workers, NEW op \in {"update", "enable"}, Written(w, op),
           def' \in [enabled : BOOLEAN, cron : Crons, next : Minutes],
           op = "enable" => def'.cron = def.cron,
           ~worker[w].stale /\ def'.enabled /\ def'.cron # NoCron =>
             def'.next # Null /\ def'.next \in def'.cron /\ worker[w].now < def'.next
    PROVE  DefInv'
<1> DEFINE f == [v \in Workers |->
         IF v = w THEN OffDuty ELSE [worker[v] EXCEPT !.stale = worker[v].at \in {"update", "enable"}]]
<1>1. /\ worker[w].at = op /\ worker' = f /\ overlapped' = (overlapped \/ worker[w].stale)
      /\ claimed' = 0 /\ since' = worker[w].now /\ gaveUp' = FALSE
      /\ UNCHANGED <<minute, orphans, edits, mishaps, deaths>>
  BY DEF Written, OnDuty
<1>2. \A v \in Workers : worker[v] \in Worker /\ worker[v].now <= minute
  BY RowTyped DEF DefInv, WorkersInv
<1>3. \A v \in Workers : f[v] \in Worker /\ f[v].now <= minute /\ (f[v].at = "enable" => f[v].stale)
                         /\ (f[v].at = "fail" => worker[v].at = "fail")
  <2>1. f[w] = OffDuty
    OBVIOUS
  <2>2. ASSUME NEW v \in Workers, v # w
        PROVE  f[v] \in Worker /\ f[v].now = worker[v].now /\ f[v].at = worker[v].at
               /\ f[v].stale = (worker[v].at \in {"update", "enable"})
    <3>1. PICK b \in BOOLEAN : b = (worker[v].at \in {"update", "enable"})
      <4>1. CASE worker[v].at \in {"update", "enable"}
        <5>1. TRUE = (worker[v].at \in {"update", "enable"})
          BY <4>1
        <5> QED
          BY <5>1
      <4>2. CASE ~ (worker[v].at \in {"update", "enable"})
        <5>1. FALSE = (worker[v].at \in {"update", "enable"})
          BY <4>2
        <5> QED
          BY <5>1
      <4> QED
        BY <4>1, <4>2
    <3>2. f[v] = [worker[v] EXCEPT !.stale = b]
      BY <2>2, <3>1
    <3>3. /\ [worker[v] EXCEPT !.stale = b] \in Worker /\ [worker[v] EXCEPT !.stale = b].now = worker[v].now
          /\ [worker[v] EXCEPT !.stale = b].at = worker[v].at /\ [worker[v] EXCEPT !.stale = b].stale = b
      BY <1>2 DEF Worker
    <3> HIDE DEF f
    <3> QED
      BY <3>1, <3>2, <3>3
  <2> HIDE DEF f
  <2> QED
    BY <1>2, <2>1, <2>2, OffDutyIdle, TimesTyped
<1>4. worker' \in [Workers -> Worker]
  BY <1>1, <1>3
<1> HIDE DEF f
<1>5. WorkersInv'
  BY <1>1, <1>3, <1>4 DEF WorkersInv
<1>6. FaultsInv'
  <2>1. Failing' \subseteq Failing
    BY <1>1, <1>3 DEF Failing
  <2>2. /\ IsFiniteSet(Failing') /\ Cardinality(Failing') <= Cardinality(Failing)
        /\ Cardinality(Failing') \in Nat /\ Cardinality(Failing) \in Nat
    BY <2>1, FS_Subset, FS_CardinalityType DEF DefInv, FaultsInv
  <2> QED
    BY <1>1, <2>2, CountersTyped DEF DefInv, FaultsInv
<1>7. ClaimsInv'
  <2> SUFFICES ASSUME ~overlapped'
               PROVE  /\ claimed' <= Cardinality(Matched')
                      /\ Scheduled' => /\ def'.next \in def'.cron /\ since' < def'.next
                                       /\ claimed' <= Cardinality(MatchedBy(def.next)')
    BY DEF ClaimsInv
  <2>1. IsFiniteSet(def'.cron)
    BY CronsTyped
  <2>2. IsFiniteSet(Matched') /\ IsFiniteSet(MatchedBy(def.next)')
    BY <2>1, FS_Subset DEF Matched, MatchedBy
  <2>3. Cardinality(Matched') \in Nat /\ Cardinality(MatchedBy(def.next)') \in Nat
    BY <2>2, FS_CardinalityType
  <2> QED
    BY <1>1, <2>3 DEF Scheduled
<1>8. ScanDefinitionsTypeOK'
  BY <1>1, <1>2, <1>4 DEF DefInv, ScanDefinitionsTypeOK, Worker, Crons
<1>9. LoseATickNotADefinition'
  BY <1>1 DEF LoseATickNotADefinition
<1> QED
  BY <1>5, <1>6, <1>7, <1>8, <1>9 DEF DefInv

LEMMA RequestKeeps ==
    ASSUME DefInv, NEW w \in Workers,
           (\E enabled \in BOOLEAN : UpdateScanDefinition(w, enabled)) \/ SetEnabled(w) \/ SetDisabled(w)
    PROVE  DefInv'
<1> DEFINE now == worker[w].now
           cron == worker[w].cron
           next == NextRun(cron, now)
<1>1. worker[w] \in Worker /\ now \in Minutes /\ cron \in Crons
  BY RowTyped DEF Worker
<1>2. next \in Minutes /\ (next # Null => next \in cron /\ now < next)
  BY <1>1, NextRunIs
<1>3. worker[w].at = "enable" /\ ~worker[w].stale => cron = def.cron
  BY DEF DefInv, WorkersInv
<1>4. Null \in Minutes
  BY CronsTyped DEF Null
<1>5. ASSUME NEW enabled \in BOOLEAN, UpdateScanDefinition(w, enabled) PROVE DefInv'
  <2>1. /\ enabled /\ cron # NoCron => next # Null
        /\ def' = [enabled |-> enabled, cron |-> cron, next |-> IF enabled THEN next ELSE Null]
    BY <1>5 DEF UpdateScanDefinition
  <2> HIDE DEF now, cron, next
  <2>2. /\ def' \in [enabled : BOOLEAN, cron : Crons, next : Minutes] /\ def'.cron = cron
        /\ def'.enabled = enabled /\ (enabled => def'.next = next)
    BY <1>1, <1>2, <1>4, <2>1
  <2>3. ~worker[w].stale /\ def'.enabled /\ def'.cron # NoCron =>
          def'.next # Null /\ def'.next \in def'.cron /\ worker[w].now < def'.next
    BY <1>2, <2>1, <2>2 DEF now, cron
  <2> QED
    BY <1>5, <2>2, <2>3, WrittenKeeps DEF UpdateScanDefinition
<1>6. CASE SetEnabled(w)
  <2>1. /\ cron # NoCron => next # Null
        /\ def' = [def EXCEPT !.enabled = TRUE, !.next = next] /\ worker[w].at = "enable"
    BY <1>6 DEF SetEnabled, Written, OnDuty
  <2> HIDE DEF now, cron, next
  <2>2. /\ def' \in [enabled : BOOLEAN, cron : Crons, next : Minutes] /\ def'.cron = def.cron
        /\ def'.next = next
    BY <1>2, <2>1, RowTyped
  <2>3. ~worker[w].stale /\ def'.enabled /\ def'.cron # NoCron =>
          def'.next # Null /\ def'.next \in def'.cron /\ worker[w].now < def'.next
    BY <1>2, <1>3, <2>1, <2>2 DEF now, cron
  <2> QED
    BY <1>6, <2>2, <2>3, WrittenKeeps DEF SetEnabled
<1>7. CASE SetDisabled(w)
  <2>1. /\ def' \in [enabled : BOOLEAN, cron : Crons, next : Minutes] /\ def'.cron = def.cron
        /\ def'.enabled = FALSE
    BY <1>4, <1>7, RowTyped DEF SetDisabled
  <2> QED
    BY <1>7, <2>1, WrittenKeeps DEF SetDisabled
<1> QED
  BY <1>5, <1>6, <1>7

LEMMA StepDefInv == DefInv /\ [ScanDefinitionsNext]_defVars => DefInv'
<1> SUFFICES ASSUME DefInv, [ScanDefinitionsNext]_defVars PROVE DefInv'
  OBVIOUS
<1>1. CASE UNCHANGED defVars
  BY <1>1 DEF defVars, DefInv, ScanDefinitionsTypeOK, WorkersInv, FaultsInv, Failing, ClaimsInv, Matched,
              MatchedBy, Scheduled, LoseATickNotADefinition
<1>2. ASSUME NEW w \in Workers,
             (\E cron \in CronTimes \cup {NoCron} : StartEdit(w, "update", cron)) \/ StartEdit(w, "enable", def.cron)
      PROVE  DefInv'
  BY <1>2, StartEditKeeps, RowTyped DEF Crons
<1> QED
  BY <1>1, <1>2, MinuteKeeps, ClaimKeeps, PlainKeeps, FaultKeeps, RequestKeeps DEF ScanDefinitionsNext

(* A definition is claimed at most once for each minute its cron matched   *)
(* since its next run was last set, unless Cron.Next gave up or edits      *)
(* overlapped, for any number of schedulers, minutes and edits.            *)
THEOREM ClaimsMatch == ScanDefinitionsSpec => []ClaimedOncePerMatch
<1>1. DefInv => ClaimedOncePerMatch
  BY DEF DefInv, ClaimsInv, Matched, ClaimedOncePerMatch
<1> QED
  BY <1>1, InitDefInv, StepDefInv, PTL DEF ScanDefinitionsSpec

(* Crashes, failing statements and schedules that run out cost a tick and  *)
(* never the definition: while it is enabled and scheduled it stays due,   *)
(* unless edits overlapped, for any number of schedulers, minutes and      *)
(* edits.                                                                  *)
THEOREM DefinitionsAreKept == ScanDefinitionsSpec => []LoseATickNotADefinition
<1>1. DefInv => LoseATickNotADefinition
  BY DEF DefInv
<1> QED
  BY <1>1, InitDefInv, StepDefInv, PTL DEF ScanDefinitionsSpec

(* A parent scan without chunks that nothing fails takes two failed        *)
(* statements or deaths of a scheduler, for any number of schedulers and   *)
(* faults.                                                                 *)
THEOREM OrphansCostFaults == ScanDefinitionsSpec => []OrphansAccounted
<1>1. DefInv => OrphansAccounted
  <2> SUFFICES ASSUME DefInv PROVE 2 * orphans <= mishaps + deaths
    BY DEF OrphansAccounted
  <2>1. Cardinality(Failing) \in Nat
    BY FS_CardinalityType DEF DefInv, FaultsInv
  <2> QED
    BY <2>1, CountersTyped DEF DefInv, FaultsInv
<1> QED
  BY <1>1, InitDefInv, StepDefInv, PTL DEF ScanDefinitionsSpec

-----------------------------------------------------------------------------
(* Reports into an endpoint, its events and findings (Ingest).             *)

Station == {"idle", "list", "upsert", "append", "lookup", "write"}
Report == [at : Station, stage : Stages, service : Services \cup {Unknown}, status : {"open", "resolved"},
           old : Services \cup {Unknown, Absent}, new : Services \cup {Unknown, Absent},
           row : Nat, was : FindingStatuses]

(* The handlers that found no row and are about to insert one. *)
Inserting(s) == {r \in Reporters : reporter[r].at = "write" /\ reporter[r].stage = s /\ reporter[r].row = 0}

RowsInv == \A s \in Stages :
    Len(findings[s]) # 0 => Len(findings[s]) + Cardinality(Inserting(s)) <= Cardinality(Reporters)

(* Until there is a row nobody is past its upsert and everybody has read   *)
(* that there was none; then the one that inserted it has yet to say so.   *)
EndpointInv ==
    /\ endpoint = Absent =>
         \A r \in Reporters : reporter[r].at \in {"idle", "list", "upsert"} /\ reporter[r].old = Absent
    /\ endpoint # Absent /\ ~eventsLost /\ "new_asset" \notin assetEvents =>
         \E r \in Reporters : reporter[r].at = "append" /\ reporter[r].old = Absent

IngestTyped ==
    /\ endpoint \in Services \cup {Unknown, Absent}
    /\ findings \in [Stages -> Seq(FindingStatuses)]
    /\ reporter \in [Reporters -> Report]

IngestInv == IngestTyped /\ EndpointInv /\ RowsInv

LEMMA NoReportTyped == NoReport \in Report /\ NoReport.at = "idle" /\ NoReport.old = Absent
BY DEF NoReport, Report, Station, Stages, FindingStatuses

LEMMA InitIngestInv == IngestInit => IngestInv
<1> SUFFICES ASSUME IngestInit PROVE IngestInv
  OBVIOUS
<1>1. <<>> \in Seq(FindingStatuses) /\ Len(<<>>) = 0
  BY EmptySeq
<1>2. /\ reporter \in [Reporters -> Report] /\ findings \in [Stages -> Seq(FindingStatuses)]
      /\ \A r \in Reporters : reporter[r] = NoReport
      /\ \A s \in Stages : Len(findings[s]) = 0
  BY <1>1, NoReportTyped DEF IngestInit
<1> QED
  BY <1>2, NoReportTyped DEF IngestInit, IngestInv, IngestTyped, EndpointInv, RowsInv

(* A handler goes on, and no row is inserted. *)
LEMMA ReporterStep ==
    ASSUME IngestInv, NEW r \in Reporters, NEW x \in Report, reporter' = [reporter EXCEPT ![r] = x],
           UNCHANGED findings,
           x.at = "write" => x.row # 0 \/ Len(findings[x.stage]) = 0
    PROVE  /\ reporter' \in [Reporters -> Report] /\ RowsInv'
           /\ reporter'[r] = x /\ \A q \in Reporters : q # r => reporter'[q] = reporter[q]
<1>1. /\ reporter' \in [Reporters -> Report] /\ reporter'[r] = x
      /\ \A q \in Reporters : q # r => reporter'[q] = reporter[q]
  BY DEF IngestInv, IngestTyped
<1>2. ASSUME NEW s \in Stages, Len(findings'[s]) # 0
      PROVE  Len(findings'[s]) + Cardinality(Inserting(s)') <= Cardinality(Reporters)
  <2>1. Inserting(s)' \subseteq Inserting(s)
    BY <1>1, <1>2 DEF Inserting
  <2>2. IsFiniteSet(Inserting(s)) /\ Inserting(s) \subseteq Reporters
    BY IngestAssumption, FS_Subset DEF Inserting
  <2>3. /\ Cardinality(Inserting(s)') <= Cardinality(Inserting(s))
        /\ Cardinality(Inserting(s)') \in Nat /\ Cardinality(Inserting(s)) \in Nat
        /\ Cardinality(Reporters) \in Nat
    BY <2>1, <2>2, FS_Subset, FS_CardinalityType, IngestAssumption
  <2>4. Len(findings[s]) \in Nat
    BY LenProperties DEF IngestInv, IngestTyped
  <2> QED
    BY <1>2, <2>3, <2>4 DEF IngestInv, RowsInv
<1> QED
  BY <1>1, <1>2 DEF RowsInv

(* One that keeps its row to compare with, before there is one to insert.  *)
LEMMA QuietReporter ==
    ASSUME IngestInv, NEW r \in Reporters, NEW x \in Report, reporter' = [reporter EXCEPT ![r] = x],
           UNCHANGED <<findings, endpoint, assetEvents, eventsLost>>,
           x.at = "write" => x.row # 0 \/ Len(findings[x.stage]) = 0,
           endpoint = Absent => x.at \in {"idle", "list", "upsert"} /\ x.old = Absent,
           reporter[r].at # "append"
    PROVE  IngestInv'
<1>1. /\ reporter' \in [Reporters -> Report] /\ RowsInv'
      /\ reporter'[r] = x /\ \A q \in Reporters : q # r => reporter'[q] = reporter[q]
  BY ReporterStep
<1>2. EndpointInv'
  BY <1>1 DEF IngestInv, EndpointInv
<1> QED
  BY <1>1, <1>2 DEF IngestInv, IngestTyped

LEMMA ReceiveKeeps ==
    ASSUME IngestInv, NEW r \in Reporters, NEW stage \in Stages, NEW service \in Services \cup {Unknown},
           NEW status \in {"open", "resolved"}, ReceiveReport(r, stage, service, status)
    PROVE  IngestInv'
<1> DEFINE x == [NoReport EXCEPT !.at = IF stage = Bundle THEN "lookup" ELSE "list",
                                 !.stage = stage, !.service = service, !.status = status]
<1>1. /\ x \in Report /\ x.at = (IF stage = Bundle THEN "lookup" ELSE "list") /\ x.old = Absent
  BY NoReportTyped DEF Report, Station
<1>2. reporter' = [reporter EXCEPT ![r] = x] /\ UNCHANGED <<findings, endpoint, assetEvents, eventsLost>>
      /\ reporter[r].at = "idle" /\ (stage = Bundle => endpoint # Absent)
  BY DEF ReceiveReport, Doing
<1> HIDE DEF x
<1> QED
  BY <1>1, <1>2, QuietReporter

LEMMA ListKeeps ==
    ASSUME IngestInv, NEW r \in Reporters, ListEndpointsForAsset(r)
    PROVE  IngestInv'
<1>1. reporter[r] \in Report /\ reporter[r].at = "list" /\ endpoint \in Services \cup {Unknown, Absent}
      /\ UNCHANGED <<findings, endpoint, assetEvents, eventsLost>>
  BY DEF IngestInv, IngestTyped, ListEndpointsForAsset, Doing
<1>2. \E old \in {endpoint, reporter[r].old} :
        reporter' = [reporter EXCEPT ![r] = [reporter[r] EXCEPT !.at = "upsert", !.old = old]]
  <2>1. CASE reporter' = [reporter EXCEPT ![r].at = "upsert", ![r].old = endpoint]
    BY <1>1, <2>1 DEF IngestInv, IngestTyped
  <2>2. CASE Proceed(r, "upsert")
    <3>1. [reporter[r] EXCEPT !.at = "upsert"] = [reporter[r] EXCEPT !.at = "upsert", !.old = reporter[r].old]
      BY <1>1 DEF Report
    <3> QED
      BY <2>2, <3>1 DEF Proceed
  <2> QED
    BY <2>1, <2>2 DEF ListEndpointsForAsset
<1>3. PICK old \in {endpoint, reporter[r].old} :
        reporter' = [reporter EXCEPT ![r] = [reporter[r] EXCEPT !.at = "upsert", !.old = old]]
  BY <1>2
<1> DEFINE x == [reporter[r] EXCEPT !.at = "upsert", !.old = old]
<1>4. x \in Report /\ x.at = "upsert" /\ x.old = old
  BY <1>1 DEF Report, Station
<1>5. endpoint = Absent => old = Absent
  BY DEF IngestInv, EndpointInv
<1>6. reporter' = [reporter EXCEPT ![r] = x]
  BY <1>3
<1> HIDE DEF x
<1> QED
  BY <1>1, <1>4, <1>5, <1>6, QuietReporter

LEMMA UpsertKeeps ==
    ASSUME IngestInv, NEW r \in Reporters, UpsertAssetEndpoint(r)
    PROVE  IngestInv'
<1> DEFINE me == reporter[r]
           service == ServiceSet(isNetworkSubPass(me.stage), me.service)
           x == [me EXCEPT !.at = "append", !.service = Unknown, !.old = me.old, !.new = service]
<1>1. /\ me \in Report /\ me.at = "upsert" /\ UNCHANGED <<findings, assetEvents, eventsLost>>
      /\ endpoint \in Services \cup {Unknown, Absent}
  BY DEF IngestInv, IngestTyped, UpsertAssetEndpoint, Doing
<1>2. service \in Services \cup {Unknown}
  BY <1>1 DEF ServiceSet, Coalesce, Stored, Report
<1>3. endpoint' = service /\ reporter' = [reporter EXCEPT ![r] = x]
  BY <1>1 DEF UpsertAssetEndpoint, OldRow, IngestInv, IngestTyped
<1> HIDE DEF service
<1>4. x \in Report /\ x.at = "append" /\ x.old = me.old
  BY <1>1, <1>2 DEF Report, Station
<1> HIDE DEF x
<1>5. /\ reporter' \in [Reporters -> Report] /\ RowsInv'
      /\ reporter'[r] = x /\ \A q \in Reporters : q # r => reporter'[q] = reporter[q]
  BY <1>1, <1>3, <1>4, ReporterStep
<1>6. endpoint' # Absent
  BY <1>2, <1>3, IngestAssumption DEF Unknown, Absent
<1>7. EndpointInv'
  <2>1. ASSUME ~eventsLost', "new_asset" \notin assetEvents'
        PROVE  \E q \in Reporters : reporter'[q].at = "append" /\ reporter'[q].old = Absent
    <3>1. CASE endpoint = Absent
      BY <3>1, <1>4, <1>5 DEF IngestInv, EndpointInv
    <3>2. CASE endpoint # Absent
      BY <3>2, <2>1, <1>1, <1>5 DEF IngestInv, EndpointInv
    <3> QED
      BY <3>1, <3>2
  <2> QED
    BY <1>6, <2>1 DEF EndpointInv
<1> QED
  BY <1>2, <1>3, <1>5, <1>7, <1>1 DEF IngestInv, IngestTyped

LEMMA AppendKeeps ==
    ASSUME IngestInv, NEW r \in Reporters, AppendAssetEvents(r)
    PROVE  IngestInv'
<1>1. reporter[r] \in Report /\ reporter[r].at = "append" /\ UNCHANGED <<findings, endpoint>>
  BY DEF IngestInv, IngestTyped, AppendAssetEvents, Doing
<1>2. \E x \in Report : /\ reporter' = [reporter EXCEPT ![r] = x] /\ x.at \in {"idle", "lookup"}
  <2>1. CASE Finished(r)
    BY <2>1, NoReportTyped DEF Finished
  <2>2. CASE reporter' = [reporter EXCEPT ![r] = [NoReport EXCEPT !.at = "lookup", !.stage = reporter[r].stage]]
    <3>1. /\ [NoReport EXCEPT !.at = "lookup", !.stage = reporter[r].stage] \in Report
          /\ [NoReport EXCEPT !.at = "lookup", !.stage = reporter[r].stage].at = "lookup"
      BY <1>1, NoReportTyped DEF Report, Station
    <3> QED
      BY <2>2, <3>1
  <2> QED
    BY <2>1, <2>2 DEF AppendAssetEvents
<1>3. PICK x \in Report : reporter' = [reporter EXCEPT ![r] = x] /\ x.at \in {"idle", "lookup"}
  BY <1>2
<1>4. /\ reporter' \in [Reporters -> Report] /\ RowsInv'
      /\ reporter'[r] = x /\ \A q \in Reporters : q # r => reporter'[q] = reporter[q]
  BY <1>1, <1>3, ReporterStep
<1>5. EndpointInv'
  <2>1. endpoint # Absent
    BY <1>1 DEF IngestInv, EndpointInv
  <2>2. ASSUME ~eventsLost', "new_asset" \notin assetEvents'
        PROVE  \E q \in Reporters : reporter'[q].at = "append" /\ reporter'[q].old = Absent
    <3>1. /\ assetEvents' = assetEvents \cup deriveAssetEvents(reporter[r].old, reporter[r].new)
          /\ eventsLost' = eventsLost
      BY <2>2 DEF AppendAssetEvents
    <3>2. reporter[r].old # Absent
      BY <2>2, <3>1 DEF deriveAssetEvents
    <3>3. PICK q \in Reporters : reporter[q].at = "append" /\ reporter[q].old = Absent
      BY <2>1, <2>2, <3>1 DEF IngestInv, EndpointInv
    <3> QED
      BY <1>4, <3>2, <3>3
  <2> QED
    BY <1>1, <2>1, <2>2 DEF EndpointInv
<1> QED
  BY <1>1, <1>4, <1>5 DEF IngestInv, IngestTyped

LEMMA LookupKeeps ==
    ASSUME IngestInv, NEW r \in Reporters, LookupFinding(r)
    PROVE  IngestInv'
<1>1. /\ reporter[r] \in Report /\ reporter[r].at = "lookup" /\ reporter[r].stage \in Stages
      /\ UNCHANGED <<findings, endpoint, assetEvents, eventsLost>>
      /\ findings[reporter[r].stage] \in Seq(FindingStatuses) /\ endpoint # Absent
      /\ reporter \in [Reporters -> Report]
  BY DEF IngestInv, IngestTyped, EndpointInv, LookupFinding, Doing, Report
<1> DEFINE n == Len(Rows(r))
<1>2. n \in Nat
  BY <1>1, LenProperties DEF Rows
<1>3. CASE n > 0
  <2> DEFINE was == Rows(r)[n]
             x == [reporter[r] EXCEPT !.at = "write", !.row = n, !.was = was]
  <2>1. was \in FindingStatuses
    BY <1>1, <1>2, <1>3, ElementOfSeq DEF Rows
  <2>2. reporter' = [reporter EXCEPT ![r] = x]
    BY <1>1, <1>3 DEF LookupFinding
  <2> HIDE DEF n, was
  <2>3. x \in Report /\ x.row = n
    BY <1>1, <1>2, <2>1 DEF Report, Station
  <2>4. x.row # 0
    BY <1>2, <1>3, <2>3
  <2> HIDE DEF x
  <2> QED
    BY <1>1, <2>2, <2>3, <2>4, QuietReporter
<1>4. CASE ~ (n > 0)
  <2> DEFINE x == [reporter[r] EXCEPT !.at = "write"]
  <2>1. x \in Report /\ x.stage = reporter[r].stage
    BY <1>1 DEF Report, Station
  <2>2. reporter' = [reporter EXCEPT ![r] = x]
    BY <1>4 DEF LookupFinding, Proceed
  <2>3. Len(findings[x.stage]) = 0
    BY <1>2, <1>4, <2>1 DEF Rows
  <2> HIDE DEF x, n
  <2> QED
    BY <1>1, <2>1, <2>2, <2>3, QuietReporter
<1> QED
  BY <1>3, <1>4

LEMMA WriteKeeps ==
    ASSUME IngestInv, NEW r \in Reporters, WriteFinding(r)
    PROVE  IngestInv'
<1> DEFINE me == reporter[r]
           s == me.stage
           after == IF me.row > 0 THEN [findings[s] EXCEPT ![me.row] = NextStatus(me.was, me.status)]
                                  ELSE Append(findings[s], me.status)
<1>1. /\ me \in Report /\ me.at = "write" /\ s \in Stages
      /\ UNCHANGED <<endpoint, assetEvents, eventsLost>> /\ endpoint # Absent
      /\ findings[s] \in Seq(FindingStatuses) /\ me.row \in Nat
      /\ reporter \in [Reporters -> Report] /\ findings \in [Stages -> Seq(FindingStatuses)]
      /\ reporter' = [reporter EXCEPT ![r] = NoReport] /\ findings' = [findings EXCEPT ![s] = after]
  BY DEF IngestInv, IngestTyped, EndpointInv, WriteFinding, Doing, Report, Finished
<1>2. NextStatus(me.was, me.status) \in FindingStatuses /\ me.status \in FindingStatuses
  BY <1>1 DEF NextStatus, FindingStatuses, Report
<1>3. /\ after \in Seq(FindingStatuses) /\ Len(findings[s]) \in Nat
      /\ me.row > 0 => Len(after) = Len(findings[s])
      /\ ~ (me.row > 0) => Len(after) = Len(findings[s]) + 1
  <2>1. /\ Append(findings[s], me.status) \in Seq(FindingStatuses) /\ Len(findings[s]) \in Nat
        /\ Len(Append(findings[s], me.status)) = Len(findings[s]) + 1
    BY <1>1, <1>2, AppendProperties, LenProperties
  <2>2. /\ [findings[s] EXCEPT ![me.row] = NextStatus(me.was, me.status)] \in Seq(FindingStatuses)
        /\ Len([findings[s] EXCEPT ![me.row] = NextStatus(me.was, me.status)]) = Len(findings[s])
    <3>1. CASE me.row \in 1 .. Len(findings[s])
      BY <1>1, <1>2, <3>1, ExceptSeq
    <3>2. CASE me.row \notin 1 .. Len(findings[s])
      <4>1. [findings[s] EXCEPT ![me.row] = NextStatus(me.was, me.status)] = findings[s]
        BY <1>1, <3>2, LenProperties
      <4> QED
        BY <1>1, <4>1
    <3> QED
      BY <3>1, <3>2
  <2> QED
    BY <2>1, <2>2
<1> HIDE DEF after
<1>4. /\ findings' \in [Stages -> Seq(FindingStatuses)] /\ findings'[s] = after
      /\ \A t \in Stages : t # s => findings'[t] = findings[t]
      /\ reporter' \in [Reporters -> Report] /\ reporter'[r] = NoReport
      /\ \A q \in Reporters : q # r => reporter'[q] = reporter[q]
  BY <1>1, <1>3, NoReportTyped
<1>5. ASSUME NEW t \in Stages, Len(findings'[t]) # 0
      PROVE  Len(findings'[t]) + Cardinality(Inserting(t)') <= Cardinality(Reporters)
  <2>1. Inserting(t)' = Inserting(t) \ {r}
    BY <1>4, NoReportTyped DEF Inserting
  <2>2. IsFiniteSet(Inserting(t)) /\ Inserting(t) \subseteq Reporters /\ Cardinality(Reporters) \in Nat
        /\ Cardinality(Inserting(t)) \in Nat /\ Cardinality(Inserting(t)) <= Cardinality(Reporters)
    BY IngestAssumption, FS_Subset, FS_CardinalityType DEF Inserting
  <2>3. /\ r \in Inserting(t) => Cardinality(Inserting(t)') = Cardinality(Inserting(t)) - 1
        /\ r \notin Inserting(t) => Cardinality(Inserting(t)') = Cardinality(Inserting(t))
    BY <2>1, <2>2, FS_RemoveElement
  <2>4. Len(findings[t]) \in Nat
    BY <1>1, LenProperties
  <2>5. CASE t = s /\ me.row = 0
    <3>1. r \in Inserting(t)
      BY <1>1, <2>5 DEF Inserting
    <3>2. Len(findings'[t]) = Len(findings[t]) + 1
      BY <1>3, <1>4, <2>5
    <3>3. Len(findings[t]) # 0 => Len(findings[t]) + Cardinality(Inserting(t)) <= Cardinality(Reporters)
      BY DEF IngestInv, RowsInv
    <3> QED
      BY <2>2, <2>3, <2>4, <3>1, <3>2, <3>3
  <2>6. CASE t # s \/ me.row > 0
    <3>1. Len(findings'[t]) = Len(findings[t])
      BY <1>3, <1>4, <2>6
    <3> QED
      BY <1>5, <2>2, <2>3, <2>4, <3>1 DEF IngestInv, RowsInv
  <2> QED
    BY <1>1, <2>5, <2>6
<1>6. EndpointInv'
  BY <1>1, <1>4 DEF IngestInv, EndpointInv
<1> QED
  BY <1>1, <1>4, <1>5, <1>6 DEF IngestInv, IngestTyped, RowsInv

LEMMA SetStatusKeeps ==
    ASSUME IngestInv, NEW s \in Stages, NEW i \in DOMAIN findings[s], NEW status \in FindingStatuses,
           SetFindingStatus(s, i, status)
    PROVE  IngestInv'
<1>1. /\ findings \in [Stages -> Seq(FindingStatuses)]
      /\ findings' = [findings EXCEPT ![s] = [findings[s] EXCEPT ![i] = status]]
      /\ UNCHANGED <<endpoint, assetEvents, eventsLost, reporter>>
  BY DEF IngestInv, IngestTyped, SetFindingStatus
<1>2. /\ [findings[s] EXCEPT ![i] = status] \in Seq(FindingStatuses)
      /\ Len([findings[s] EXCEPT ![i] = status]) = Len(findings[s])
  BY <1>1, ExceptSeq, LenProperties
<1>3. findings' \in [Stages -> Seq(FindingStatuses)] /\ \A t \in Stages : Len(findings'[t]) = Len(findings[t])
  BY <1>1, <1>2
<1>4. \A t \in Stages : Inserting(t)' = Inserting(t)
  BY <1>1 DEF Inserting
<1> QED
  BY <1>1, <1>3, <1>4 DEF IngestInv, IngestTyped, EndpointInv, RowsInv

LEMMA StepIngestInv == IngestInv /\ [IngestNext]_ingestVars => IngestInv'
<1> SUFFICES ASSUME IngestInv, [IngestNext]_ingestVars PROVE IngestInv'
  OBVIOUS
<1>1. CASE UNCHANGED ingestVars
  <2>1. \A t \in Stages : Inserting(t)' = Inserting(t)
    BY <1>1 DEF Inserting, ingestVars
  <2> QED
    BY <1>1, <2>1 DEF ingestVars, IngestInv, IngestTyped, EndpointInv, RowsInv
<1>2. ASSUME NEW r \in Reporters, UpsertFails(r) \/ UpsertFindingFails(r) PROVE IngestInv'
  <2>1. /\ reporter' = [reporter EXCEPT ![r] = NoReport] /\ reporter[r].at # "append"
        /\ UNCHANGED <<findings, endpoint, assetEvents, eventsLost>>
    BY <1>2 DEF UpsertFails, UpsertFindingFails, Finished, Doing
  <2> QED
    BY <2>1, NoReportTyped, QuietReporter
<1> QED
  BY <1>1, <1>2, ReceiveKeeps, ListKeeps, UpsertKeeps, AppendKeeps, LookupKeeps, WriteKeeps, SetStatusKeeps
     DEF IngestNext

(* A finding has never more rows than there are handlers that report it at *)
(* the same time, for any number of reports.                               *)
THEOREM RowsAreRaces == IngestSpec => []RowsComeFromRaces
<1>1. IngestInv => RowsComeFromRaces
  <2> SUFFICES ASSUME IngestInv, NEW s \in Stages PROVE Len(findings[s]) <= Cardinality(Reporters)
    BY DEF RowsComeFromRaces
  <2>1. /\ Cardinality(Inserting(s)) \in Nat /\ Cardinality(Reporters) \in Nat /\ Len(findings[s]) \in Nat
    BY IngestAssumption, FS_Subset, FS_CardinalityType, LenProperties DEF Inserting, IngestInv, IngestTyped
  <2> QED
    BY <2>1 DEF IngestInv, RowsInv
<1> QED
  BY <1>1, InitIngestInv, StepIngestInv, PTL DEF IngestSpec

(* An endpoint that exists has been announced as new, or is about to be,   *)
(* unless the statement that announces it failed, for any number of        *)
(* reports.                                                                *)
THEOREM NewEndpointsAreAnnounced == IngestSpec => []NewEndpointAnnounced
<1>1. IngestInv => NewEndpointAnnounced
  BY DEF IngestInv, EndpointInv, NewEndpointAnnounced, Doing
<1> QED
  BY <1>1, InitIngestInv, StepIngestInv, PTL DEF IngestSpec

(* Only the user, or a report that had read the finding before the user    *)
(* suppressed it, takes the suppression away, for any number of reports    *)
(* and stages.                                                             *)
THEOREM UsersSuppress == IngestSpec => SuppressionHonored
<1> DEFINE Honored == \A s \in Stages : \A i \in DOMAIN findings[s] :
             findings[s][i] = "suppressed" /\ findings'[s][i] # "suppressed" =>
               \/ UNCHANGED reporter
               \/ \E r \in Reporters : Doing(r, "write") /\ ~Doing(r, "write")'
                    /\ reporter[r].row = i /\ reporter[r].stage = s
                    /\ reporter[r].was # "suppressed"
<1>1. IngestInv /\ [IngestNext]_ingestVars => [Honored]_ingestVars
  <2> SUFFICES ASSUME IngestInv, IngestNext, NEW s \in Stages, NEW i \in DOMAIN findings[s],
                      findings[s][i] = "suppressed", findings'[s][i] # "suppressed",
                      ~ UNCHANGED reporter
               PROVE  \E r \in Reporters : Doing(r, "write") /\ ~Doing(r, "write")'
                        /\ reporter[r].row = i /\ reporter[r].stage = s /\ reporter[r].was # "suppressed"
    OBVIOUS
  <2>1. PICK r \in Reporters : WriteFinding(r)
    BY DEF IngestNext, ReceiveReport, ListEndpointsForAsset, UpsertAssetEndpoint, UpsertFails,
           AppendAssetEvents, LookupFinding, UpsertFindingFails, SetFindingStatus
  <2> DEFINE me == reporter[r]
  <2>2. /\ me \in Report /\ findings[s] \in Seq(FindingStatuses) /\ me.stage \in Stages /\ me.row \in Nat
        /\ findings \in [Stages -> Seq(FindingStatuses)] /\ reporter \in [Reporters -> Report]
    BY DEF IngestInv, IngestTyped, Report
  <2>3. /\ Doing(r, "write") /\ reporter' = [reporter EXCEPT ![r] = NoReport]
        /\ findings' = [findings EXCEPT ![me.stage] =
              IF me.row > 0 THEN [findings[me.stage] EXCEPT ![me.row] = NextStatus(me.was, me.status)]
                            ELSE Append(findings[me.stage], me.status)]
    BY <2>1 DEF WriteFinding, Finished
  <2>4. ~Doing(r, "write")'
    BY <2>2, <2>3, NoReportTyped DEF Doing
  <2>5. me.stage = s
    BY <2>2, <2>3
  <2>6. me.row > 0
    BY <2>2, <2>3, <2>5, AppendProperties, LenProperties
  <2>7. me.row = i /\ NextStatus(me.was, me.status) # "suppressed"
    BY <2>2, <2>3, <2>5, <2>6
  <2>8. me.was # "suppressed"
    BY <2>7 DEF NextStatus
  <2> QED
    BY <2>3, <2>4, <2>5, <2>7, <2>8
<1> QED
  BY <1>1, InitIngestInv, StepIngestInv, PTL DEF IngestSpec, SuppressionHonored

-----------------------------------------------------------------------------
(* Predicates and the order of their evaluation (Predicate).               *)

(* Results that differ by an error only, if there is any error.            *)
Agrees(r, faulty) ==
    /\ r # {} /\ r \subseteq Results /\ ~({"match", "mismatch"} \subseteq r)
    /\ "error" \in r => "error" \in faulty
Errors(t) == IF Evaluable(t) THEN {} ELSE {"error"}
Children(t, i, f) == [k \in 1 .. Len(t[i].kids) |-> f[t[i].kids[k]]]
Evaluates(t, n, f) == f = [i \in 1 .. n |-> EvalNode(t[i], Children(t, i, f))]

WellFormed(t) ==
    /\ t \in Seq(Node)
    /\ \A i \in 1 .. Len(t) :
         /\ \A k \in 1 .. Len(t[i].kids) : t[i].kids[k] \in 1 .. i - 1
         /\ t[i].op = "$not" => Len(t[i].kids) = 1

LEMMA TermsAgree ==
    ASSUME NEW T \in SUBSET Results, NEW faulty, "error" \in T => "error" \in faulty
    PROVE  Agrees(EvalTerms(T), faulty)
BY DEF EvalTerms, Agrees, Results

LEMMA NotAgrees ==
    ASSUME NEW r, NEW faulty, Agrees(r, faulty)
    PROVE  Agrees(EvalNot(r), faulty)
BY DEF EvalNot, Opposite, Agrees, Results

(* What a loop over an array that stops on d can return.                   *)
LEMMA VisitReturns ==
    ASSUME NEW n \in Nat, NEW q, Len(q) = n, \A k \in 1 .. n : q[k] # {},
           NEW d, NEW other, other \notin d
    PROVE  LET v == Visit(q, d, other)
           IN  /\ v # {} /\ \A x \in v : x = other \/ (x \in d /\ \E k \in 1 .. n : x \in q[k])
               /\ other \in v => \A k \in 1 .. n : ~(q[k] \subseteq d)
<1> DEFINE v == Visit(q, d, other)
<1>1. Reached(q, d, n + 1) <=> \A j \in 1 .. n : ~(q[j] \subseteq d)
  <2>1. (n + 1) - 1 = n
    OBVIOUS
  <2> QED
    BY <2>1 DEF Reached
<1>2. v # {}
  <2>1. CASE Reached(q, d, n + 1)
    BY <2>1 DEF Visit
  <2>2. CASE ~Reached(q, d, n + 1)
    <3> DEFINE P == {k \in 1 .. n : q[k] \subseteq d}
    <3>1. P \in SUBSET Nat /\ P # {}
      BY <1>1, <2>2
    <3>2. PICK k \in P : \A j \in P : k <= j
      BY <3>1, LeastNumber
    <3>3. Reached(q, d, k)
      <4> SUFFICES ASSUME NEW j \in 1 .. k - 1 PROVE ~(q[j] \subseteq d)
        BY DEF Reached
      <4>1. j \in 1 .. n /\ ~(k <= j)
        BY <3>2
      <4> QED
        BY <3>2, <4>1
    <3>4. PICK x : x \in q[k] /\ x \in d
      BY <3>2
    <3>5. x \in v
      BY <3>2, <3>3, <3>4 DEF Visit
    <3> QED
      BY <3>5
  <2> QED
    BY <2>1, <2>2
<1>3. \A x \in v : x = other \/ (x \in d /\ \E k \in 1 .. n : x \in q[k])
  BY DEF Visit
<1>4. other \in v => \A k \in 1 .. n : ~(q[k] \subseteq d)
  BY <1>1 DEF Visit
<1> QED
  BY <1>2, <1>3, <1>4

(* A loop that stops on one of the answers and on errors.                  *)
LEMMA VisitAgrees ==
    ASSUME NEW n \in Nat, NEW q, Len(q) = n, NEW faulty,
           \A k \in 1 .. n : Agrees(q[k], faulty),
           NEW stop, NEW other,
           (stop = "match" /\ other = "mismatch") \/ (stop = "mismatch" /\ other = "match")
    PROVE  Agrees(Visit(q, {stop, "error"}, other), faulty)
<1> DEFINE d == {stop, "error"}
           v == Visit(q, d, other)
<1>1. other \notin d /\ stop # other /\ other # "error" /\ Results = {stop, other, "error"}
  BY DEF Results
<1>2. \A k \in 1 .. n :
         /\ q[k] # {} /\ q[k] \subseteq Results /\ ~(stop \in q[k] /\ other \in q[k])
         /\ "error" \in q[k] => "error" \in faulty
  BY DEF Agrees
<1> HIDE DEF d, v
<1>3. /\ v # {} /\ \A x \in v : x = other \/ (x \in d /\ \E k \in 1 .. n : x \in q[k])
      /\ other \in v => \A k \in 1 .. n : ~(q[k] \subseteq d)
  BY <1>1, <1>2, VisitReturns, Zenon DEF v
<1>4. d = {stop, "error"}
  BY DEF d
<1>5. v \subseteq Results
  BY <1>1, <1>3, <1>4
<1>6. ~(stop \in v /\ other \in v)
  <2> SUFFICES ASSUME stop \in v, other \in v PROVE FALSE
    OBVIOUS
  <2>1. PICK k \in 1 .. n : stop \in q[k]
    BY <1>1, <1>3
  <2>2. PICK x \in q[k] : x \notin d
    BY <1>3
  <2>3. x = other
    BY <1>1, <1>2, <1>4, <2>2
  <2> QED
    BY <1>2, <2>1, <2>2, <2>3
<1>7. "error" \in v => "error" \in faulty
  BY <1>1, <1>2, <1>3
<1>8. Agrees(v, faulty)
  BY <1>3, <1>5, <1>6, <1>7 DEF Agrees
<1> QED
  BY <1>8 DEF v, d

(* A node whose children agree. *)
LEMMA NodeAgrees ==
    ASSUME NEW node \in Node, NEW q, Len(q) = Len(node.kids), Len(q) \in Nat,
           NEW faulty, "error" \in node.terms => "error" \in faulty,
           \A k \in 1 .. Len(q) : Agrees(q[k], faulty), node.op = "$not" => Len(q) = 1
    PROVE  Agrees(EvalNode(node, q), faulty)
<1>1. CASE node.op = "terms"
  <2>1. EvalNode(node, q) = EvalTerms(node.terms)
    BY <1>1 DEF EvalNode
  <2> QED
    BY <2>1, TermsAgree DEF Node
<1>2. CASE node.op = "$not"
  <2>1. EvalNode(node, q) = EvalNot(q[1])
    BY <1>2 DEF EvalNode
  <2> QED
    BY <1>2, <2>1, NotAgrees
<1>3. CASE node.op = "$and"
  <2>1. EvalNode(node, q) = Visit(q, {"mismatch", "error"}, "match")
    BY <1>3 DEF EvalNode, EvalAnd
  <2> QED
    BY <2>1, VisitAgrees
<1>4. CASE node.op = "$or"
  <2>1. EvalNode(node, q) = Visit(q, {"match", "error"}, "mismatch")
    BY <1>4 DEF EvalNode, EvalOr
  <2> QED
    BY <2>1, VisitAgrees
<1> QED
  BY <1>1, <1>2, <1>3, <1>4 DEF Node

(* The recursion over the nodes has a value, for every tree. *)
LEMMA EvaluationExists ==
    ASSUME NEW t, WellFormed(t), NEW n \in Nat, n <= Len(t)
    PROVE  \E f : Evaluates(t, n, f)
<1> DEFINE S == {m \in Nat : m <= Len(t) => \E f : Evaluates(t, m, f)}
<1>0. Len(t) \in Nat
  BY LenProperties DEF WellFormed
<1>1. 0 \in S
  <2>1. Evaluates(t, 0, [i \in 1 .. 0 |-> {}])
    BY DEF Evaluates
  <2> QED
    BY <2>1
<1>2. ASSUME NEW m \in Nat, m \in S PROVE m + 1 \in S
  <2> SUFFICES ASSUME m + 1 <= Len(t) PROVE \E f : Evaluates(t, m + 1, f)
    OBVIOUS
  <2>1. PICK f : Evaluates(t, m, f)
    BY <1>0, <1>2
  <2> DEFINE g == [i \in 1 .. m + 1 |-> IF i = m + 1 THEN EvalNode(t[m + 1], Children(t, m + 1, f))
                                                     ELSE f[i]]
  <2>2. ASSUME NEW i \in 1 .. m + 1 PROVE Children(t, i, g) = Children(t, i, f)
    <3>1. \A k \in 1 .. Len(t[i].kids) : t[i].kids[k] \in 1 .. i - 1
      BY <1>0 DEF WellFormed
    <3>2. \A j \in 1 .. i - 1 : g[j] = f[j]
      OBVIOUS
    <3> HIDE DEF g
    <3> QED
      BY <3>1, <3>2 DEF Children
  <2>3. ASSUME NEW i \in 1 .. m + 1 PROVE g[i] = EvalNode(t[i], Children(t, i, f))
    <3>1. CASE i = m + 1
      BY <3>1
    <3>2. CASE i # m + 1
      <4>1. i \in 1 .. m /\ g[i] = f[i]
        BY <3>2
      <4> HIDE DEF g
      <4> QED
        BY <2>1, <4>1 DEF Evaluates
    <3> QED
      BY <3>1, <3>2
  <2>4. g = [i \in 1 .. m + 1 |-> g[i]]
    OBVIOUS
  <2> HIDE DEF g
  <2>5. \A i \in 1 .. m + 1 : g[i] = EvalNode(t[i], Children(t, i, g))
    BY <2>2, <2>3
  <2>6. Evaluates(t, m + 1, g)
    BY <2>4, <2>5 DEF Evaluates
  <2> QED
    BY <2>6
<1>3. Nat \subseteq S
  <2> HIDE DEF S
  <2> QED
    BY <1>1, <1>2, Induction
<1> QED
  BY <1>3

(* Every node of every tree, from the leaves up. *)
LEMMA MatchAgrees ==
    ASSUME NEW t, WellFormed(t), t # <<>>
    PROVE  Agrees(Match(t), Errors(t))
<1> DEFINE faulty == Errors(t)
           f == CHOOSE g : Evaluates(t, Len(t), g)
           S == {n \in Nat : \A i \in 1 .. n : i <= Len(t) => Agrees(f[i], faulty)}
<1>0. Len(t) \in Nat \ {0}
  BY LenProperties, EmptySeq DEF WellFormed
<1>1. Evaluates(t, Len(t), f)
  BY <1>0, EvaluationExists
<1>2. Match(t) = f[Len(t)]
  BY Zenon DEF Match, Evaluates, Children
<1>b. \A i \in 1 .. Len(t) : "error" \in t[i].terms => "error" \in faulty
  BY DEF Errors, Evaluable
<1> HIDE DEF f, faulty
<1>3. \A i \in 1 .. Len(t) : f[i] = EvalNode(t[i], Children(t, i, f))
  BY <1>1 DEF Evaluates
<1>4. 0 \in S
  OBVIOUS
<1>5. ASSUME NEW n \in Nat, n \in S PROVE n + 1 \in S
  <2> SUFFICES ASSUME n + 1 <= Len(t) PROVE Agrees(f[n + 1], faulty)
    BY <1>5
  <2> DEFINE i == n + 1
             q == Children(t, i, f)
  <2>1. i \in 1 .. Len(t) /\ t[i] \in Node /\ Len(t[i].kids) \in Nat
    <3>1. i \in 1 .. Len(t) /\ t[i] \in Node
      BY <1>0, ElementOfSeq DEF WellFormed
    <3> QED
      BY <3>1, LenProperties DEF Node
  <2>2. /\ \A k \in 1 .. Len(t[i].kids) : t[i].kids[k] \in 1 .. n
        /\ t[i].op = "$not" => Len(t[i].kids) = 1
    BY <2>1 DEF WellFormed
  <2>3. \A j \in 1 .. n : Agrees(f[j], faulty)
    BY <1>0, <1>5
  <2>4. \A k \in 1 .. Len(t[i].kids) : q[k] = f[t[i].kids[k]]
    BY DEF Children
  <2>5. Len(q) = Len(t[i].kids)
    BY <2>1 DEF Children
  <2>6. \A k \in 1 .. Len(q) : Agrees(q[k], faulty)
    BY <2>2, <2>3, <2>4, <2>5
  <2> HIDE DEF i, q
  <2>7. Agrees(EvalNode(t[i], q), faulty)
    BY <1>b, <2>1, <2>2, <2>5, <2>6, NodeAgrees
  <2>8. f[i] = EvalNode(t[i], q)
    BY <1>3, <2>1 DEF q
  <2> QED
    BY <2>7, <2>8 DEF i
<1>6. Nat \subseteq S
  <2> HIDE DEF S
  <2> QED
    BY <1>4, <1>5, Induction
<1>7. Agrees(f[Len(t)], faulty)
  <2>1. Len(t) \in S /\ Len(t) \in 1 .. Len(t)
    BY <1>0, <1>6
  <2> QED
    BY <1>0, <2>1
<1> QED
  BY <1>2, <1>7 DEF faulty

LEMMA NodeKeeps ==
    ASSUME PredicateTypeOK, NEW node \in Node, Write(node),
           \A k \in 1 .. Len(node.kids) : node.kids[k] \in 1 .. Len(tree),
           node.op = "$not" => Len(node.kids) = 1
    PROVE  PredicateTypeOK'
<1>1. tree \in Seq(Node) /\ Len(tree) \in 1 .. MaxNodes /\ Len(tree) < MaxNodes
  BY DEF PredicateTypeOK, Write
<1>2. PICK t : t = tree'
  OBVIOUS
<1>3. /\ t \in Seq(Node) /\ Len(t) = Len(tree) + 1
      /\ \A i \in 1 .. Len(tree) : t[i] = tree[i]
      /\ t[Len(tree) + 1] = node
  BY <1>1, <1>2, AppendProperties DEF Write
<1>4. Len(t) \in 1 .. MaxNodes
  BY <1>1, <1>3, PredicateAssumption
<1>5. ASSUME NEW i \in 1 .. Len(t)
      PROVE  /\ \A k \in 1 .. Len(t[i].kids) : t[i].kids[k] \in 1 .. i - 1
             /\ t[i].op = "$not" => Len(t[i].kids) = 1
  <2>1. CASE i = Len(tree) + 1
    <3>1. t[i] = node /\ i - 1 = Len(tree)
      BY <1>1, <1>3, <2>1
    <3> QED
      BY <3>1
  <2>2. CASE i # Len(tree) + 1
    <3>1. i \in 1 .. Len(tree) /\ t[i] = tree[i]
      BY <1>1, <1>3, <2>2
    <3> QED
      BY <3>1 DEF PredicateTypeOK
  <2> QED
    BY <2>1, <2>2
<1> QED
  BY <1>2, <1>3, <1>4, <1>5 DEF PredicateTypeOK

LEMMA LeafIsNode ==
    ASSUME NEW T \in SUBSET Results
    PROVE  Terms(T) \in Node /\ Len(Terms(T).kids) = 0 /\ Terms(T).op = "terms"
<1>1. <<>> \in Seq(Nat) /\ Len(<<>>) = 0
  BY EmptySeq, EmptyHolds
<1> QED
  BY <1>1 DEF Terms, Node

LEMMA PredicateStep == PredicateTypeOK /\ [PredicateNext]_predicateVars => PredicateTypeOK'
<1> SUFFICES ASSUME PredicateTypeOK, [PredicateNext]_predicateVars PROVE PredicateTypeOK'
  OBVIOUS
<1>1. ASSUME NEW T \in SUBSET Results, Write(Terms(T)) PROVE PredicateTypeOK'
  <2>1. Terms(T) \in Node /\ Len(Terms(T).kids) = 0 /\ Terms(T).op = "terms"
    BY LeafIsNode
  <2> QED
    BY <1>1, <2>1, NodeKeeps
<1>2. ASSUME NEW k \in 1 .. Len(tree), Write(Operator("$not", <<k>>)) PROVE PredicateTypeOK'
  <2> DEFINE node == Operator("$not", <<k>>)
  <2>1. k \in Nat /\ <<k>> \in Seq(Nat) /\ Len(<<k>>) = 1 /\ <<k>>[1] = k
    OBVIOUS
  <2>2. node \in Node /\ node.kids = <<k>>
    BY <2>1 DEF Operator, Node
  <2>3. \A j \in 1 .. Len(node.kids) : node.kids[j] \in 1 .. Len(tree)
    BY <2>1, <2>2
  <2> HIDE DEF node
  <2> QED
    BY <1>2, <2>1, <2>2, <2>3, NodeKeeps DEF node
<1>3. ASSUME NEW op \in {"$and", "$or"}, NEW n \in 0 .. MaxKids, NEW kids \in [1 .. n -> 1 .. Len(tree)],
             Write(Operator(op, kids))
      PROVE  PredicateTypeOK'
  <2> DEFINE node == Operator(op, kids)
  <2>1. n \in Nat /\ kids \in [1 .. n -> Nat]
    BY PredicateAssumption
  <2>2. kids \in Seq(Nat) /\ Len(kids) = n
    BY <2>1, SeqDef, LenProperties
  <2>3. node \in Node /\ node.kids = kids /\ node.op # "$not"
    BY <2>2 DEF Operator, Node
  <2>4. \A j \in 1 .. Len(node.kids) : node.kids[j] \in 1 .. Len(tree)
    BY <2>2, <2>3
  <2> HIDE DEF node
  <2> QED
    BY <1>3, <2>3, <2>4, NodeKeeps DEF node
<1>4. CASE UNCHANGED predicateVars
  BY <1>4 DEF PredicateTypeOK, predicateVars
<1> QED
  BY <1>1, <1>2, <1>3, <1>4 DEF PredicateNext, AddTerms, Negate, Combine

(* The nodes of a predicate come after their children.                     *)
THEOREM PredicateTyped == PredicateSpec => []PredicateTypeOK
<1>1. PredicateInit => PredicateTypeOK
  <2> SUFFICES ASSUME NEW T \in SUBSET Results, tree = <<Terms(T)>> PROVE PredicateTypeOK
    BY DEF PredicateInit
  <2>1. PICK l : l = Terms(T)
    OBVIOUS
  <2>2. l \in Node /\ Len(l.kids) = 0 /\ l.op = "terms"
    BY <2>1, LeafIsNode
  <2>3. <<l>> \in Seq(Node) /\ Len(<<l>>) = 1 /\ <<l>>[1] = l
    BY <2>2
  <2> QED
    BY <2>1, <2>2, <2>3, PredicateAssumption DEF PredicateTypeOK
<1> QED
  BY <1>1, PredicateStep, PTL DEF PredicateSpec

(* No predicate, whatever its nodes and however long its arrays, matches a *)
(* subject in one visiting order and fails to match it in another, and one *)
(* whose terms can all be evaluated has one result, and that no error.     *)
THEOREM OrderCostsErrors == PredicateSpec => []OrderHidesErrorsOnly
<1>1. PredicateTypeOK => OrderHidesErrorsOnly
  <2> SUFFICES ASSUME PredicateTypeOK PROVE OrderHidesErrorsOnly
    OBVIOUS
  <2>1. WellFormed(tree) /\ tree # <<>>
    BY EmptyHolds DEF PredicateTypeOK, WellFormed
  <2>2. Agrees(Match(tree), Errors(tree))
    BY <2>1, MatchAgrees
  <2>3. PICK r : r = Match(tree)
    OBVIOUS
  <2>4. Evaluable(tree) => r = {"match"} \/ r = {"mismatch"}
    BY <2>2, <2>3 DEF Agrees, Errors, Results
  <2>5. ~({"match", "mismatch"} \subseteq r)
    BY <2>2, <2>3 DEF Agrees
  <2> QED
    BY <2>3, <2>4, <2>5 DEF OrderHidesErrorsOnly
<1> QED
  BY <1>1, PredicateTyped, PTL

-----------------------------------------------------------------------------
(* Concurrent updates of one rule, for any number of requests and versions *)
(* (RuleVersions).                                                         *)

(* No request sees rows that are not there; one that is about to disable,  *)
(* or has, read MAX(version) before its UPDATE took its snapshot.          *)
Snapshots ==
    \A e \in Editors :
        /\ visible[e] <= Len(live)
        /\ editor[e].at \in {"disabling", "locked"} => editor[e].max <= visible[e]
        /\ editor[e].at = "counted" => editor[e].max <= Len(live)

VersionsInv == RuleVersionsTypeOK /\ Snapshots /\ LastVersionLive

LEMMA InitVersionsInv == RuleVersionsInit => VersionsInv
<1> SUFFICES ASSUME RuleVersionsInit PROVE VersionsInv
  OBVIOUS
<1>1. live \in Seq(BOOLEAN) /\ Len(live) = 1 /\ DOMAIN live = 1 .. 1
  BY DEF RuleVersionsInit
<1> QED
  BY <1>1, RuleVersionsAssumption
     DEF RuleVersionsInit, VersionsInv, RuleVersionsTypeOK, Snapshots, LastVersionLive, NotEditing

(* What an UPDATE leaves: every row there was when it started is disabled. *)
LEMMA DisabledTyped ==
    ASSUME VersionsInv, NEW e \in Editors
    PROVE  /\ Disabled(e) \in Seq(BOOLEAN) /\ Len(Disabled(e)) = Len(live)
           /\ DOMAIN Disabled(e) = DOMAIN live
           /\ \A v \in DOMAIN live : Disabled(e)[v] => live[v] /\ v > visible[e]
<1>1. live \in Seq(BOOLEAN) /\ Len(live) \in Nat /\ DOMAIN live = 1 .. Len(live)
      /\ visible[e] \in Nat
  BY RuleVersionsAssumption DEF VersionsInv, RuleVersionsTypeOK
<1>2. \A v \in 1 .. Len(live) : live[v] \in BOOLEAN
  BY <1>1
<1>3. Disabled(e) = [v \in 1 .. Len(live) |-> IF v <= visible[e] THEN FALSE ELSE live[v]]
  BY <1>1 DEF Disabled
<1>4. Disabled(e) \in [1 .. Len(live) -> BOOLEAN]
  BY <1>2, <1>3
<1>5. Disabled(e) \in Seq(BOOLEAN) /\ Len(Disabled(e)) = Len(live)
      /\ DOMAIN Disabled(e) = 1 .. Len(live)
  BY <1>1, <1>4
<1>6. ASSUME NEW v \in 1 .. Len(live), Disabled(e)[v] PROVE live[v] /\ v > visible[e]
  <2>1. Disabled(e)[v] = IF v <= visible[e] THEN FALSE ELSE live[v]
    BY <1>3
  <2>2. ~(v <= visible[e])
    BY <1>6, <2>1
  <2> QED
    BY <1>1, <1>6, <2>1, <2>2
<1> QED
  BY <1>1, <1>5, <1>6

(* A request that only looks at the rows. *)
LEMMA ReadVersionsInv ==
    ASSUME VersionsInv, NEW e \in Editors,
           \/ \E v \in DOMAIN live : GetCorrelationRule(e, v)
           \/ SelectMaxVersion(e) \/ StartDisabling(e) \/ StartDelete(e)
           \/ LockVersions(e) \/ VersionTaken(e)
    PROVE  VersionsInv'
<1> USE DEF VersionsInv, RuleVersionsTypeOK, Snapshots, To, Editing
<1>1. Len(live) \in 0 .. MaxVersions /\ UNCHANGED live
  BY RuleVersionsAssumption
     DEF GetCorrelationRule, SelectMaxVersion, StartDisabling, StartDelete, LockVersions, VersionTaken
<1>2. LastVersionLive'
  BY <1>1 DEF LastVersionLive
<1>3. ASSUME NEW v \in DOMAIN live, GetCorrelationRule(e, v) PROVE VersionsInv'
  <2>1. live[v] \in BOOLEAN
    BY <1>1
  <2>2. PICK enabled \in BOOLEAN :
          editor' = [editor EXCEPT ![e].at = "validated", ![e].enabled = enabled]
    BY <1>3, <2>1 DEF GetCorrelationRule
  <2>3. UNCHANGED <<live, visible>>
    BY <1>3 DEF GetCorrelationRule
  <2>4. RuleVersionsTypeOK'
    BY <2>2, <2>3
  <2>5. Snapshots'
    BY <2>2, <2>3
  <2> QED
    BY <1>2, <2>4, <2>5
<1>4. CASE SelectMaxVersion(e)
  <2>1. /\ editor' = [editor EXCEPT ![e].at = "counted", ![e].max = Len(live)]
        /\ UNCHANGED <<live, visible>>
    BY <1>4 DEF SelectMaxVersion
  <2>2. RuleVersionsTypeOK'
    BY <1>1, <2>1
  <2>3. Snapshots'
    BY <1>1, <2>1
  <2> QED
    BY <1>2, <2>2, <2>3
<1>5. CASE StartDisabling(e) \/ StartDelete(e)
  <2>1. PICK at \in {"disabling", "deleting"} :
          /\ editor' = [editor EXCEPT ![e].at = at]
          /\ at = "disabling" => editor[e].at = "counted"
          /\ visible' = [visible EXCEPT ![e] = Len(live)]
    BY <1>5 DEF StartDisabling, StartDelete
  <2>2. RuleVersionsTypeOK'
    BY <1>1, <2>1
  <2>3. ASSUME NEW f \in Editors
        PROVE  /\ visible'[f] <= Len(live)
               /\ editor'[f].at \in {"disabling", "locked"} => editor'[f].max <= visible'[f]
               /\ editor'[f].at = "counted" => editor'[f].max <= Len(live)
    <3>1. CASE f = e
      BY <1>1, <2>1, <3>1
    <3>2. CASE f # e
      BY <1>1, <2>1, <3>2
    <3> QED
      BY <3>1, <3>2
  <2> QED
    BY <1>1, <1>2, <2>2, <2>3
<1>6. CASE LockVersions(e)
  BY <1>1, <1>2, <1>6 DEF LockVersions
<1>7. CASE VersionTaken(e)
  <2>1. /\ editor' = [editor EXCEPT ![e] = NotEditing]
        /\ visible' = [visible EXCEPT ![e] = 0] /\ UNCHANGED live
    BY <1>7 DEF VersionTaken, Ends
  <2>2. RuleVersionsTypeOK'
    BY <1>1, <2>1, RuleVersionsAssumption DEF NotEditing
  <2>3. Snapshots'
    BY <1>1, <2>1, RuleVersionsAssumption DEF NotEditing
  <2> QED
    BY <1>2, <2>2, <2>3
<1> QED
  BY <1>3, <1>4, <1>5, <1>6, <1>7

LEMMA DeleteVersionsInv ==
    ASSUME VersionsInv, NEW e \in Editors, DeleteCorrelationRule(e)
    PROVE  VersionsInv'
<1>1. /\ live' \in Seq(BOOLEAN) /\ Len(live') = Len(live) /\ DOMAIN live' = DOMAIN live
      /\ \A v \in DOMAIN live : live'[v] => live[v]
  BY DisabledTyped DEF DeleteCorrelationRule
<1>2. LastVersionLive'
  BY <1>1 DEF LastVersionLive, VersionsInv
<1>3. RuleVersionsTypeOK' /\ Snapshots'
  BY <1>1, RuleVersionsAssumption
     DEF DeleteCorrelationRule, Ends, NotEditing, VersionsInv, RuleVersionsTypeOK, Snapshots
<1> QED
  BY <1>2, <1>3 DEF VersionsInv

(* The row that is inserted follows every row its transaction has disabled:*)
(* MAX(version) was read before, and no row has come since.                *)
LEMMA CommitVersionsInv ==
    ASSUME VersionsInv, NEW e \in Editors, CommitVersion(e)
    PROVE  VersionsInv'
<1> DEFINE n == Len(live)
<1>1. /\ live \in Seq(BOOLEAN) /\ n \in Nat /\ DOMAIN live = 1 .. n /\ n < MaxVersions
      /\ visible[e] \in Nat /\ editor[e].enabled \in BOOLEAN
  BY DEF VersionsInv, RuleVersionsTypeOK, CommitVersion
<1>2. visible[e] = n
  BY <1>1, RuleVersionsAssumption
     DEF VersionsInv, RuleVersionsTypeOK, Snapshots, CommitVersion, Editing
<1>3. \A v \in 1 .. n : ~Disabled(e)[v]
  BY <1>1, <1>2, DisabledTyped
<1>4. Disabled(e) \in Seq(BOOLEAN) /\ Len(Disabled(e)) = n
  BY DisabledTyped
<1>5. /\ live' \in Seq(BOOLEAN) /\ Len(live') = n + 1
      /\ \A v \in 1 .. n : live'[v] = Disabled(e)[v]
  BY <1>1, <1>4, AppendProperties DEF CommitVersion
<1>6. LastVersionLive'
  <2>1. DOMAIN live' = 1 .. (n + 1)
    BY <1>5
  <2> QED
    BY <1>1, <1>3, <1>5, <2>1 DEF LastVersionLive
<1>7. RuleVersionsTypeOK' /\ Snapshots'
  BY <1>1, <1>5, RuleVersionsAssumption
     DEF CommitVersion, Ends, NotEditing, VersionsInv, RuleVersionsTypeOK, Snapshots
<1> QED
  BY <1>6, <1>7 DEF VersionsInv

LEMMA StepVersionsInv == VersionsInv /\ [RuleVersionsNext]_ruleVars => VersionsInv'
<1> SUFFICES ASSUME VersionsInv, [RuleVersionsNext]_ruleVars PROVE VersionsInv'
  OBVIOUS
<1>1. CASE UNCHANGED ruleVars
  BY <1>1 DEF ruleVars, VersionsInv, RuleVersionsTypeOK, Snapshots, LastVersionLive
<1>2. CASE RuleVersionsNext
  BY <1>2, ReadVersionsInv, DeleteVersionsInv, CommitVersionsInv DEF RuleVersionsNext
<1> QED
  BY <1>1, <1>2

(* Whatever updates and deletes of a rule overlap, and however many there  *)
(* are, only its last version can be enabled: the rule fires once.         *)
THEOREM RuleFiresOnce == RuleVersionsSpec => []LastVersionLive
<1>1. VersionsInv => LastVersionLive
  BY DEF VersionsInv
<1> QED
  BY <1>1, InitVersionsInv, StepVersionsInv, PTL DEF RuleVersionsSpec

-----------------------------------------------------------------------------
(* Alerts and their delivery rows (RuleActions).                           *)

Alert == [at : {"none", "lookup", "post", "insert", "done"}, left : 0 .. Deadline,
          result : {"none", "sent", "failed", "pending"}, slow : BOOLEAN,
          lost : {"no", "channel", "database", "deadline", "process"}]

(* One alert: what its deadline has left after each step when the database *)
(* answered at once, and what it leaves behind.                            *)
OnTime(a) ==
    /\ a.at = "lookup" => a.left = Deadline
    /\ a.at = "post" /\ ~a.slow => a.left = Deadline
    /\ a.at = "insert" => a.result # "none" /\ (a.left = 0 => a.slow)
    /\ a.at # "done" => a.lost = "no"
    /\ a.lost = "deadline" => a.slow

Settled(i) ==
    /\ OnTime(alert[i])
    /\ alert[i].at = "done" /\ alert[i].lost = "no" => delivery[i] # "none"
    /\ alert[i].result = "sent" \/ delivery[i] = "sent" => i \in taken

ActionsInv == RuleActionsTypeOK /\ \A i \in Actions : Settled(i)

LEMMA UnsentTyped ==
    /\ Unsent \in Alert /\ OnTime(Unsent) /\ Unsent.at = "none" /\ Unsent.result = "none"
    /\ Unsent.lost = "no"
BY DEF Unsent, Alert, Deadline, OnTime

LEMMA Starts ==
    ASSUME NEW u \in Alert
    PROVE  LET a == [u EXCEPT !.at = "lookup", !.left = Deadline]
           IN  /\ a \in Alert /\ a.at = "lookup" /\ a.left = Deadline
               /\ a.result = u.result /\ a.lost = u.lost
<1> DEFINE d == Deadline
<1>1. d \in 0 .. Deadline
  BY DEF Deadline
<1> HIDE DEF d
<1>2. LET a == [u EXCEPT !.at = "lookup", !.left = d]
      IN  /\ a \in Alert /\ a.at = "lookup" /\ a.left = d
          /\ a.result = u.result /\ a.lost = u.lost
  BY <1>1 DEF Alert
<1> QED
  BY <1>2 DEF d

LEMMA InitActionsInv == RuleActionsInit => ActionsInv
<1> SUFFICES ASSUME RuleActionsInit PROVE ActionsInv
  OBVIOUS
<1>1. RuleActionsTypeOK
  BY UnsentTyped, RuleActionsAssumption DEF RuleActionsInit, RuleActionsTypeOK, Alert
<1> QED
  BY <1>1, UnsentTyped DEF RuleActionsInit, ActionsInv, Settled

(* A step of one alert. *)
LEMMA OneAlert ==
    ASSUME ActionsInv, NEW i \in Actions, NEW a \in Alert, OnTime(a),
           alert' = [alert EXCEPT ![i] = a],
           a.at = "done" /\ a.lost = "no" => delivery'[i] # "none",
           a.result = "sent" => i \in taken',
           delivery'[i] = "sent" => i \in taken',
           delivery' \in [Actions -> {"none", "sent", "failed", "pending"}],
           \A j \in Actions : j # i => delivery'[j] = delivery[j],
           taken \subseteq taken', taken' \subseteq Actions, reached' \in 0 .. MaxActions,
           UNCHANGED <<fired, config>>
    PROVE  ActionsInv'
<1>1. alert \in [Actions -> Alert]
  BY DEF ActionsInv, RuleActionsTypeOK, Alert
<1>2. alert' \in [Actions -> Alert]
  BY <1>1
<1>3. RuleActionsTypeOK'
  BY <1>2 DEF ActionsInv, RuleActionsTypeOK, Alert
<1>4. ASSUME NEW j \in Actions PROVE Settled(j)'
  <2>1. CASE j = i
    BY <1>1, <2>1 DEF Settled
  <2>2. CASE j # i
    BY <1>1, <2>2 DEF Settled, ActionsInv
  <2> QED
    BY <2>1, <2>2
<1> QED
  BY <1>3, <1>4 DEF ActionsInv

LEMMA StepActionsInv == ActionsInv /\ [RuleActionsNext]_actionVars => ActionsInv'
<1> SUFFICES ASSUME ActionsInv, [RuleActionsNext]_actionVars PROVE ActionsInv'
  OBVIOUS
<1>a. /\ alert \in [Actions -> Alert] /\ taken \subseteq Actions /\ reached \in 0 .. MaxActions
      /\ delivery \in [Actions -> {"none", "sent", "failed", "pending"}]
      /\ fired \in [Actions -> Channels \cup {Nothing}]
      /\ MaxActions \in Nat /\ \A i \in Actions : Settled(i) /\ OnTime(alert[i])
  BY RuleActionsAssumption DEF ActionsInv, RuleActionsTypeOK, Alert, Settled
<1>1. CASE RunRuleAction
  <2>1. reached' = reached + 1 /\ reached' \in Actions /\ reached' \in 0 .. MaxActions
        /\ UNCHANGED <<fired, config, delivery, taken>>
    BY <1>a, <1>1 DEF RunRuleAction, Actions
  <2>2. CASE UNCHANGED alert
    BY <1>a, <2>1, <2>2 DEF ActionsInv, RuleActionsTypeOK, Settled, OnTime
  <2>3. CASE alert' = [alert EXCEPT ![reached'] = [Unsent EXCEPT !.at = "lookup", !.left = Deadline]]
    <3> DEFINE a == [Unsent EXCEPT !.at = "lookup", !.left = Deadline]
    <3>2. /\ a \in Alert /\ a.at = "lookup" /\ a.result = "none" /\ a.left = Deadline
          /\ a.lost = "no"
      BY UnsentTyped, Starts
    <3> HIDE DEF a
    <3>3. OnTime(a)
      BY <3>2 DEF OnTime
    <3>4. PICK i \in Actions : i = reached'
      BY <2>1
    <3>5. alert' = [alert EXCEPT ![i] = a]
      BY <2>3, <3>4 DEF a
    <3>6. /\ delivery'[i] = "sent" => i \in taken'
          /\ \A j \in Actions : j # i => delivery'[j] = delivery[j]
          /\ taken \subseteq taken' /\ taken' \subseteq Actions
          /\ delivery' \in [Actions -> {"none", "sent", "failed", "pending"}]
      BY <1>a, <2>1 DEF Settled
    <3> QED
      BY <2>1, <3>2, <3>3, <3>5, <3>6, OneAlert
  <2> QED
    BY <1>1, <2>2, <2>3 DEF RunRuleAction
<1>2. ASSUME NEW c \in Channels, NEW to \in {"good", "broken", "gone"}, EditChannel(c, to)
      PROVE  ActionsInv'
  BY <1>a, <1>2 DEF EditChannel, ActionsInv, RuleActionsTypeOK, Settled, OnTime
<1>3. ASSUME NEW i \in Actions, NEW why \in {"channel", "database"}, Loses(i, why),
             UNCHANGED <<fired, reached, config, delivery, taken>>
      PROVE  ActionsInv'
  <2> DEFINE a == [alert[i] EXCEPT !.at = "done", !.lost = why]
  <2>1. a \in Alert /\ OnTime(a) /\ a.lost = why /\ a.result = alert[i].result
    BY <1>a DEF Alert, OnTime
  <2>2. alert' = [alert EXCEPT ![i] = a]
    BY <1>a, <1>3 DEF Loses
  <2> HIDE DEF a
  <2> QED
    BY <1>a, <1>3, <2>1, <2>2, OneAlert DEF Settled
<1>4. ASSUME NEW i \in Actions, NEW spent \in 0 .. Deadline, Lookup(i, spent)
      PROVE  ActionsInv'
  <2>1. alert[i].at = "lookup" /\ UNCHANGED <<fired, reached, config, delivery, taken>>
    BY <1>4 DEF Lookup
  <2>2. CASE Loses(i, "database") \/ Loses(i, "channel")
    BY <1>3, <2>1, <2>2
  <2>3. ASSUME NEW at \in {"insert", "post"}, NEW result \in {"none", "failed", "pending"},
               at = "insert" => result # "none", spent < alert[i].left,
               alert' = [alert EXCEPT ![i].at = at, ![i].left = @ - spent,
                                      ![i].slow = spent > 0, ![i].result = result]
        PROVE  ActionsInv'
    <3> DEFINE slow == spent > 0
               left == alert[i].left - spent
               a == [alert[i] EXCEPT !.at = at, !.left = left, !.slow = slow, !.result = result]
    <3>1. /\ alert[i] \in Alert /\ left \in 0 .. Deadline /\ left # 0
          /\ ~slow => left = Deadline
      BY <1>a, <2>1, <2>3 DEF Alert, OnTime, Deadline
    <3>2. slow \in BOOLEAN
      OBVIOUS
    <3>3. alert' = [alert EXCEPT ![i] = a]
      BY <1>a, <2>3
    <3> HIDE DEF slow, left
    <3>4. /\ a \in Alert /\ a.at = at /\ a.lost = alert[i].lost /\ a.result = result
          /\ a.left = left /\ a.slow = slow
      BY <3>1, <3>2 DEF Alert
    <3>5. alert[i].lost = "no"
      BY <1>a, <2>1 DEF OnTime
    <3>6. OnTime(a)
      BY <2>3, <3>1, <3>4, <3>5 DEF OnTime
    <3> HIDE DEF a
    <3> QED
      BY <1>a, <2>1, <2>3, <3>3, <3>4, <3>6, OneAlert DEF Settled
  <2> QED
    BY <1>4, <2>2, <2>3 DEF Lookup
<1>5. ASSUME NEW i \in Actions, NEW spent \in 0 .. Deadline, Send(i, spent)
      PROVE  ActionsInv'
  <2>1. PICK accepts \in BOOLEAN, heard \in BOOLEAN :
          /\ alert[i].at = "post" /\ spent <= Min2(ClientTimeout, alert[i].left)
          /\ taken' = IF accepts THEN taken \cup {i} ELSE taken
          /\ alert' = [alert EXCEPT ![i].at = "insert", ![i].left = @ - spent,
                          ![i].result = IF accepts /\ heard THEN "sent" ELSE "failed"]
          /\ UNCHANGED <<fired, reached, config, delivery>>
    BY <1>5 DEF Send, SendWithin
  <2> DEFINE result == IF accepts /\ heard THEN "sent" ELSE "failed"
             a == [alert[i] EXCEPT !.at = "insert", !.left = @ - spent, !.result = result]
  <2>2. /\ alert[i] \in Alert /\ alert[i].left \in 0 .. Deadline
        /\ spent <= 1 /\ spent <= alert[i].left
        /\ alert[i].left - spent \in 0 .. Deadline
        /\ alert[i].left = Deadline => alert[i].left - spent # 0
    BY <1>a, <2>1 DEF Alert, Deadline, Min2, ClientTimeout
  <2>3. /\ a \in Alert /\ a.at = "insert" /\ a.lost = alert[i].lost /\ a.result = result
        /\ a.left = alert[i].left - spent /\ a.slow = alert[i].slow
    BY <2>2 DEF Alert
  <2>4. OnTime(a)
    BY <1>a, <2>1, <2>2, <2>3 DEF OnTime, Alert
  <2>5. alert' = [alert EXCEPT ![i] = a]
    BY <1>a, <2>1
  <2>6. /\ taken \subseteq taken' /\ taken' \subseteq Actions
        /\ result = "sent" => i \in taken'
    BY <1>a, <2>1
  <2> HIDE DEF a, result
  <2> QED
    BY <1>a, <2>1, <2>3, <2>4, <2>5, <2>6, OneAlert DEF Settled
<1>6. ASSUME NEW i \in Actions, Record(i) PROVE ActionsInv'
  <2>1. alert[i].at = "insert" /\ UNCHANGED <<fired, reached, config, taken>>
    BY <1>6 DEF Record
  <2>2. CASE /\ alert[i].left > 0 /\ InsertNotificationDelivery(i)
             /\ alert' = [alert EXCEPT ![i].at = "done"]
    <3> DEFINE a == [alert[i] EXCEPT !.at = "done"]
    <3>1. /\ a \in Alert /\ a.at = "done" /\ a.lost = "no" /\ a.result = alert[i].result
          /\ alert[i].result \in {"sent", "failed", "pending"} /\ OnTime(a)
      BY <1>a, <2>1 DEF Alert, OnTime
    <3>2. alert' = [alert EXCEPT ![i] = a]
      BY <1>a, <2>2
    <3>3. /\ delivery' \in [Actions -> {"none", "sent", "failed", "pending"}]
          /\ delivery'[i] = alert[i].result
          /\ \A j \in Actions : j # i => delivery'[j] = delivery[j]
      BY <1>a, <2>2, <3>1 DEF InsertNotificationDelivery
    <3> HIDE DEF a
    <3> QED
      BY <1>a, <2>1, <3>1, <3>2, <3>3, OneAlert DEF Settled
  <2>3. CASE Loses(i, "database") /\ UNCHANGED delivery
    BY <1>3, <2>1, <2>3
  <2>4. CASE alert[i].left = 0 /\ Loses(i, "deadline") /\ UNCHANGED delivery
    <3> DEFINE a == [alert[i] EXCEPT !.at = "done", !.lost = "deadline"]
    <3>1. a \in Alert /\ OnTime(a) /\ a.lost = "deadline" /\ a.result = alert[i].result
      BY <1>a, <2>1, <2>4 DEF Alert, OnTime
    <3>2. alert' = [alert EXCEPT ![i] = a]
      BY <1>a, <2>4 DEF Loses
    <3> HIDE DEF a
    <3> QED
      BY <1>a, <2>1, <2>4, <3>1, <3>2, OneAlert DEF Settled
  <2> QED
    BY <1>6, <2>2, <2>3, <2>4 DEF Record
<1>7. CASE ProcessEnds
  <2>1. /\ reached' = MaxActions /\ UNCHANGED <<fired, config, delivery, taken>>
        /\ alert' = [i \in Actions |-> IF Running(i)
                        THEN [alert[i] EXCEPT !.at = "done", !.lost = "process"] ELSE alert[i]]
    BY <1>7 DEF ProcessEnds
  <2>2. ASSUME NEW i \in Actions PROVE alert'[i] \in Alert /\ Settled(i)'
    <3>1. CASE ~Running(i)
      BY <1>a, <2>1, <3>1 DEF Settled
    <3>2. CASE Running(i)
      <4> DEFINE a == [alert[i] EXCEPT !.at = "done", !.lost = "process"]
      <4>1. a \in Alert /\ OnTime(a) /\ a.lost = "process" /\ a.result = alert[i].result
        BY <1>a DEF Alert, OnTime
      <4>2. alert'[i] = a
        BY <2>1, <3>2
      <4> HIDE DEF a
      <4> QED
        BY <1>a, <2>1, <4>1, <4>2 DEF Settled
    <3> QED
      BY <3>1, <3>2
  <2>3. alert' \in [Actions -> Alert]
    BY <2>1, <2>2
  <2>4. RuleActionsTypeOK'
    <3>1. MaxActions \in 0 .. MaxActions
      BY <1>a
    <3> QED
      BY <1>a, <2>1, <2>3, <3>1 DEF ActionsInv, RuleActionsTypeOK, Alert
  <2> QED
    BY <2>2, <2>4 DEF ActionsInv
<1>8. CASE UNCHANGED actionVars
  BY <1>a, <1>8 DEF actionVars, ActionsInv, RuleActionsTypeOK, Settled, OnTime
<1> QED
  BY <1>1, <1>2, <1>4, <1>5, <1>6, <1>7, <1>8 DEF RuleActionsNext

(* An alert ends without a delivery row only if its channel is gone, the   *)
(* database was slow or refused, or the process ended, and a row says sent *)
(* only of an alert that the receiver took, for any number of alerts.      *)
THEOREM AlertsLeaveRows == RuleActionsSpec => []AlertsRecorded
<1>1. ActionsInv => AlertsRecorded
  BY DEF ActionsInv, RuleActionsTypeOK, Settled, OnTime, AlertsRecorded
<1> QED
  BY <1>1, InitActionsInv, StepActionsInv, PTL DEF RuleActionsSpec

----------------------------------------------------------------------------
(* The types of the parts whose invariants leave some of them open.        *)

(* Round trips: connections and the probe at hand. *)
LinksTyped ==
    /\ handler \in [Handlers -> {"none", "connecting", "listening", "gone"}]
    /\ agentConn \in Handlers \cup {NoHandler}
    /\ probing \in Probes \cup {NoProbe}

LEMMA LinksStayTyped ==
    ASSUME TripInv, LinksTyped, [RoundTripNext]_tripVars
    PROVE  LinksTyped'
<1> USE DEF LinksTyped
<1>1. ASSUME NEW r \in Requests,
             Register(r) \/ AwaitResult(r) \/ PublishRequest(r) \/ Return(r) \/ OnCredentialTest(r)
      PROVE  LinksTyped'
  BY <1>1 DEF Register, AwaitResult, PublishRequest, Return, OnCredentialTest, Linking, Agent
<1>2. ASSUME NEW h \in Handlers, ConnectHandler(h) \/ SubscribeProbes(h) \/ HandlerReturns(h)
      PROVE  LinksTyped'
  BY <1>2 DEF ConnectHandler, SubscribeProbes, HandlerReturns, Agent
<1>3. CASE BreakConnection \/ OnProbe \/ PublishResult
  BY <1>3 DEF BreakConnection, OnProbe, PublishResult, Linking, Agent
<1>4. CASE AgentReads
  BY <1>4 DEF AgentReads, Linking
<1>5. CASE UNCHANGED tripVars
  BY <1>5 DEF tripVars
<1> QED
  BY <1>1, <1>2, <1>3, <1>4, <1>5 DEF RoundTripNext

LEMMA TripTyped == TripInv /\ LinksTyped => RoundTripTypeOK
<1> SUFFICES ASSUME TripInv, LinksTyped PROVE RoundTripTypeOK
  OBVIOUS
<1>1. Published \subseteq Requests
  BY DEF Published
<1>2. toAgent \in Seq(Requests) /\ answers \in Seq(Requests)
  BY <1>1 DEF TripInv, OnItsWay
<1> QED
  BY <1>2 DEF TripInv, TripTypes, LinksTyped, RoundTripTypeOK

(* Keys, credentials and reports. *)
CredsTyped ==
    /\ keys \in KeyNumber
    /\ keyHash \in [AgentRows -> KeyNumber] /\ nextKeyHash \in [AgentRows -> KeyNumber]
    /\ lastUsed \in [AgentRows -> KeyNumber]
    /\ memory \in [Hosts -> Creds] /\ disk \in [Hosts -> Creds]
    /\ pending \subseteq AgentRows /\ snapshot \subseteq AgentRows

(* A definition takes a claim, a claim a report. *)
ReportsCount ==
    /\ reports \in 0 .. MaxReports /\ handling \in [AgentRows -> Nat]
    /\ claims \in [AgentRows -> Nat] /\ definitions \in [AgentRows -> Nat]
    /\ \A a \in AgentRows : handling[a] + claims[a] + definitions[a] <= reports

LEMMA CredsStayTyped ==
    ASSUME KeyTypes, CredsTyped, [AgentKeysNext]_keyVars
    PROVE  CredsTyped'
<1> USE DEF CredsTyped, InKeys, OnHosts, Discovery
<1>1. NoCreds \in Creds /\ 0 \in KeyNumber /\ KeyNumber = 0 .. MaxKeys /\ MaxKeys \in Nat
  BY AgentKeysAssumption DEF NoCreds, Creds, KeyNumber
<1>2. ASSUME NEW t \in InstallTokens, ExpireToken(t) PROVE CredsTyped'
  BY <1>2 DEF ExpireToken
<1>3. ASSUME NEW h \in Hosts, EnsureCreds(h) \/ ConsumeInstallToken(h) \/ BootstrapFails(h) \/ RestartHost(h)
      PROVE  CredsTyped'
  <2>1. memory' \in [Hosts -> Creds]
    BY <1>1, <1>3 DEF EnsureCreds, ConsumeInstallToken, BootstrapFails, RestartHost
  <2>2. UNCHANGED <<keys, keyHash, nextKeyHash, lastUsed, disk, pending, snapshot>>
    BY <1>3 DEF EnsureCreds, ConsumeInstallToken, BootstrapFails, RestartHost
  <2> QED
    BY <2>1, <2>2
<1>4. ASSUME NEW h \in Hosts, NEW a \in AgentRows, CreateAgent(h, a) PROVE CredsTyped'
  <2>1. PICK n : n = keys + 1
    OBVIOUS
  <2>2. n \in KeyNumber /\ keys' = n /\ keyHash' = [keyHash EXCEPT ![a] = n]
    BY <1>1, <1>4, <2>1 DEF CreateAgent
  <2>3. PICK creds : creds = [agent |-> a, key |-> n]
    OBVIOUS
  <2>4. creds \in Creds
    BY <2>2, <2>3 DEF Creds
  <2>5. /\ memory' \in {memory, [memory EXCEPT ![h] = creds]}
        /\ disk' \in {disk, [disk EXCEPT ![h] = creds]}
    BY <1>4, <2>1, <2>3 DEF CreateAgent
  <2>6. memory' \in [Hosts -> Creds] /\ disk' \in [Hosts -> Creds]
    BY <2>4, <2>5
  <2> QED
    BY <1>4, <2>2, <2>6 DEF CreateAgent
<1>5. ASSUME NEW h \in Hosts, GiveKey(h) PROVE CredsTyped'
  <2>1. PICK n : n = nextKeyHash[disk[h].agent]
    OBVIOUS
  <2>2. disk[h].agent \in AgentRows /\ disk[h] \in Creds
    BY <1>5 DEF GiveKey, Creds
  <2>3. n \in KeyNumber
    BY <2>1, <2>2
  <2>4. [disk[h] EXCEPT !.key = n] \in Creds
    BY <2>2, <2>3 DEF Creds
  <2>5. PICK d : d = disk'
    OBVIOUS
  <2>6. d = [disk EXCEPT ![h].key = n] /\ memory' = [memory EXCEPT ![h] = d[h]]
    BY <1>5, <2>1, <2>5 DEF GiveKey
  <2>7. d \in [Hosts -> Creds]
    BY <2>4, <2>6
  <2>8. UNCHANGED <<keys, keyHash, nextKeyHash, lastUsed, pending, snapshot>>
    BY <1>5 DEF GiveKey
  <2> QED
    BY <2>5, <2>6, <2>7, <2>8
<1>6. ASSUME NEW h \in Hosts, ConnectAndReport(h) PROVE CredsTyped'
  <2>1. memory[h].agent \in AgentRows /\ memory[h].key \in KeyNumber
    BY <1>6 DEF ConnectAndReport, Creds
  <2> QED
    BY <1>6, <2>1 DEF ConnectAndReport
<1>7. ASSUME NEW a \in AgentRows, RotateAgentKey(a) PROVE CredsTyped'
  <2>1. keys + 1 \in KeyNumber
    BY <1>1, <1>7 DEF RotateAgentKey
  <2> QED
    BY <1>7, <2>1 DEF RotateAgentKey
<1>8. ASSUME NEW a \in AgentRows, ClaimAutoDiscover(a) \/ CreateAutoDefinition(a) \/ DeleteAgent(a)
      PROVE  CredsTyped'
  BY <1>8 DEF ClaimAutoDiscover, CreateAutoDefinition, DeleteAgent
<1>9. CASE UNCHANGED keyVars
  BY <1>9 DEF keyVars
<1> QED
  BY <1>2, <1>3, <1>4, <1>5, <1>6, <1>7, <1>8, <1>9 DEF AgentKeysNext

LEMMA ReportsStayCounted ==
    ASSUME CredsTyped, ReportsCount, [AgentKeysNext]_keyVars
    PROVE  ReportsCount'
<1> USE DEF ReportsCount, Discovery
<1>1. ASSUME NEW t \in InstallTokens, ExpireToken(t) PROVE ReportsCount'
  BY <1>1 DEF ExpireToken
<1>2. ASSUME NEW h \in Hosts, \/ EnsureCreds(h) \/ ConsumeInstallToken(h) \/ BootstrapFails(h)
                              \/ RestartHost(h) \/ GiveKey(h) \/ \E a \in AgentRows : CreateAgent(h, a)
      PROVE  ReportsCount'
  <2>1. UNCHANGED <<reports, handling, claims, definitions>>
    BY <1>2 DEF EnsureCreds, ConsumeInstallToken, BootstrapFails, RestartHost, GiveKey, CreateAgent
  <2> QED
    BY <2>1
<1>3. ASSUME NEW h \in Hosts, ConnectAndReport(h) PROVE ReportsCount'
  <2>1. PICK a \in AgentRows : a = memory[h].agent
    BY <1>3 DEF ConnectAndReport, CredsTyped, Creds
  <2>2. /\ reports < MaxReports /\ reports' = reports + 1 /\ UNCHANGED <<claims, definitions>>
        /\ handling' = [handling EXCEPT ![a] = @ + 1]
    BY <1>3, <2>1 DEF ConnectAndReport
  <2> QED
    BY <2>2, AgentKeysAssumption
<1>4. ASSUME NEW a \in AgentRows, ClaimAutoDiscover(a) PROVE ReportsCount'
  BY <1>4 DEF ClaimAutoDiscover
<1>5. ASSUME NEW a \in AgentRows, CreateAutoDefinition(a) PROVE ReportsCount'
  BY <1>5 DEF CreateAutoDefinition
<1>6. ASSUME NEW a \in AgentRows, RotateAgentKey(a) \/ DeleteAgent(a) PROVE ReportsCount'
  BY <1>6 DEF RotateAgentKey, DeleteAgent
<1>7. CASE UNCHANGED keyVars
  BY <1>7 DEF keyVars
<1> QED
  BY <1>1, <1>2, <1>3, <1>4, <1>5, <1>6, <1>7 DEF AgentKeysNext

LEMMA KeysTyped == KeyTypes /\ CredsTyped /\ ReportsCount => AgentKeysTypeOK
<1> SUFFICES ASSUME KeyTypes, CredsTyped, ReportsCount PROVE AgentKeysTypeOK
  OBVIOUS
<1>1. ASSUME NEW a \in AgentRows
      PROVE  /\ handling[a] \in 0 .. MaxReports /\ claims[a] \in 0 .. MaxReports
             /\ definitions[a] \in 0 .. MaxReports
  BY AgentKeysAssumption DEF ReportsCount
<1>2. /\ handling \in [AgentRows -> 0 .. MaxReports] /\ claims \in [AgentRows -> 0 .. MaxReports]
      /\ definitions \in [AgentRows -> 0 .. MaxReports]
  BY <1>1 DEF ReportsCount
<1> QED
  BY <1>2 DEF KeyTypes, CredsTyped, ReportsCount, AgentKeysTypeOK

(* Reports about the endpoint: a row that was looked up stays. *)
IngestTypes ==
    /\ IngestTyped /\ assetEvents \subseteq {"new_asset", "version_changed"} /\ eventsLost \in BOOLEAN
    /\ \A r \in Reporters : reporter[r].row <= Len(findings[reporter[r].stage])
    /\ inputs \in 0 .. MaxInputs

LEMMA InputTyped == ASSUME IngestTypes, Input PROVE inputs' \in 0 .. MaxInputs
BY IngestAssumption DEF IngestTypes, Input

LEMMA IngestStaysTyped ==
    ASSUME IngestInv, IngestTypes, IngestInv', [IngestNext]_ingestVars
    PROVE  IngestTypes'
<1>0. /\ IngestTyped' /\ NoReport \in Report /\ NoReport.row = 0
      /\ \A s \in Stages : Len(findings[s]) \in Nat
      /\ findings \in [Stages -> Seq(FindingStatuses)] /\ reporter \in [Reporters -> Report]
  BY NoReportTyped, LenProperties DEF IngestInv, IngestTyped, NoReport
<1>1. ASSUME NEW r \in Reporters, NEW stage \in Stages, NEW service \in Services \cup {Unknown},
             NEW status \in {"open", "resolved"}, ReceiveReport(r, stage, service, status)
      PROVE  IngestTypes'
  <2>1. PICK x : x = [NoReport EXCEPT !.at = IF stage = Bundle THEN "lookup" ELSE "list",
                                      !.stage = stage, !.service = service, !.status = status]
    OBVIOUS
  <2>2. x.row = 0 /\ x.stage = stage
    BY <2>1 DEF NoReport
  <2>3. reporter' = [reporter EXCEPT ![r] = x] /\ UNCHANGED <<findings, assetEvents, eventsLost>>
    BY <1>1, <2>1 DEF ReceiveReport
  <2>4. inputs' \in 0 .. MaxInputs
    BY <1>1, InputTyped DEF ReceiveReport
  <2> QED
    BY <1>0, <2>2, <2>3, <2>4 DEF IngestTypes
<1>2. ASSUME NEW r \in Reporters, ListEndpointsForAsset(r) \/ UpsertAssetEndpoint(r)
      PROVE  IngestTypes'
  <2>1. /\ \A q \in Reporters : reporter'[q].row = reporter[q].row /\ reporter'[q].stage = reporter[q].stage
        /\ UNCHANGED <<findings, assetEvents, eventsLost>>
    <3>1. CASE ListEndpointsForAsset(r)
      <4>1. \/ reporter' = [reporter EXCEPT ![r].at = "upsert", ![r].old = endpoint]
            \/ reporter' = [reporter EXCEPT ![r].at = "upsert"]
        BY <3>1 DEF ListEndpointsForAsset, Proceed
      <4>2. UNCHANGED <<findings, assetEvents, eventsLost>>
        BY <3>1 DEF ListEndpointsForAsset
      <4>3. CASE reporter' = [reporter EXCEPT ![r].at = "upsert", ![r].old = endpoint]
        BY <1>0, <4>2, <4>3 DEF Report
      <4>4. CASE reporter' = [reporter EXCEPT ![r].at = "upsert"]
        BY <1>0, <4>2, <4>4 DEF Report
      <4> QED
        BY <4>1, <4>3, <4>4
    <3>2. CASE UpsertAssetEndpoint(r)
      <4>1. PICK service, old :
              reporter' = [reporter EXCEPT ![r].at = "append", ![r].service = Unknown,
                                           ![r].old = old, ![r].new = service]
        BY <3>2 DEF UpsertAssetEndpoint
      <4>2. UNCHANGED <<findings, assetEvents, eventsLost>>
        BY <3>2 DEF UpsertAssetEndpoint
      <4> QED
        BY <1>0, <4>1, <4>2 DEF Report
    <3> QED
      BY <1>2, <3>1, <3>2
  <2>2. inputs' \in 0 .. MaxInputs
    BY <1>2, InputTyped DEF ListEndpointsForAsset, UpsertAssetEndpoint, SQLError, IngestTypes
  <2> QED
    BY <1>0, <2>1, <2>2 DEF IngestTypes
<1>3. ASSUME NEW r \in Reporters, UpsertFails(r) \/ UpsertFindingFails(r)
      PROVE  IngestTypes'
  <2>1. reporter' = [reporter EXCEPT ![r] = NoReport] /\ UNCHANGED <<findings, assetEvents, eventsLost>>
    BY <1>3 DEF UpsertFails, UpsertFindingFails, Finished
  <2>2. inputs' \in 0 .. MaxInputs
    BY <1>3, InputTyped DEF UpsertFails, UpsertFindingFails, SQLError
  <2>3. NoReport.stage \in Stages
    BY <1>0 DEF Report
  <2> QED
    BY <1>0, <2>1, <2>2, <2>3 DEF IngestTypes
<1>4. ASSUME NEW r \in Reporters, AppendAssetEvents(r)
      PROVE  IngestTypes'
  <2>1. UNCHANGED findings
    BY <1>4 DEF AppendAssetEvents
  <2>2. PICK x : reporter' = [reporter EXCEPT ![r] = x] /\ x.row = 0 /\ x.stage \in Stages
    <3>1. NoReport.stage \in Stages /\ reporter[r].stage \in Stages
      BY <1>0 DEF Report
    <3>2. /\ [NoReport EXCEPT !.at = "lookup", !.stage = reporter[r].stage].row = 0
          /\ [NoReport EXCEPT !.at = "lookup", !.stage = reporter[r].stage].stage = reporter[r].stage
      BY DEF NoReport
    <3> QED
      BY <1>0, <1>4, <3>1, <3>2 DEF AppendAssetEvents, Finished
  <2>3. inputs' \in 0 .. MaxInputs
    BY <1>4, InputTyped DEF AppendAssetEvents, SQLError, IngestTypes
  <2>4. assetEvents' \subseteq {"new_asset", "version_changed"} /\ eventsLost' \in BOOLEAN
    BY <1>4 DEF AppendAssetEvents, deriveAssetEvents, IngestTypes
  <2> QED
    BY <1>0, <2>1, <2>2, <2>3, <2>4 DEF IngestTypes
<1>5. ASSUME NEW r \in Reporters, LookupFinding(r) PROVE IngestTypes'
  <2>1. /\ UNCHANGED <<findings, assetEvents, eventsLost, inputs>>
        /\ reporter[r].stage \in Stages
    BY <1>0, <1>5 DEF LookupFinding, Report
  <2>2. ASSUME NEW q \in Reporters PROVE reporter'[q].row <= Len(findings[reporter'[q].stage])
    <3>1. CASE Len(findings[reporter[r].stage]) > 0
      <4>1. reporter' = [reporter EXCEPT ![r].at = "write", ![r].row = Len(findings[reporter[r].stage]),
                                         ![r].was = Rows(r)[Len(findings[reporter[r].stage])]]
        BY <1>5, <3>1 DEF LookupFinding, Rows
      <4>2. reporter'[r].row = Len(findings[reporter[r].stage]) /\ reporter'[r].stage = reporter[r].stage
        BY <1>0, <4>1 DEF Report
      <4>3. q # r => reporter'[q] = reporter[q]
        BY <1>0, <4>1
      <4> QED
        BY <1>0, <2>1, <4>2, <4>3 DEF IngestTypes
    <3>2. CASE ~(Len(findings[reporter[r].stage]) > 0)
      <4>1. reporter' = [reporter EXCEPT ![r].at = "write"]
        BY <1>5, <3>2 DEF LookupFinding, Rows, Proceed
      <4>2. reporter'[q].row = reporter[q].row /\ reporter'[q].stage = reporter[q].stage
        BY <1>0, <4>1 DEF Report
      <4> QED
        BY <4>2 DEF IngestTypes
    <3> QED
      BY <3>1, <3>2
  <2> QED
    BY <1>0, <2>1, <2>2 DEF IngestTypes
<1>6. ASSUME NEW r \in Reporters, WriteFinding(r) PROVE IngestTypes'
  <2>1. PICK s \in Stages : s = reporter[r].stage
    BY <1>0 DEF Report
  <2>2. PICK x : findings' = [findings EXCEPT ![s] = x] /\ Len(findings[s]) <= Len(x)
    <3>1. PICK rows \in Seq(FindingStatuses) : rows = findings[s]
      BY <1>0
    <3>2. PICK me : me = reporter[r]
      OBVIOUS
    <3>3. me.status \in FindingStatuses
      BY <1>0, <3>2 DEF Report, FindingStatuses
    <3>4. /\ Len(Append(rows, me.status)) = Len(rows) + 1 /\ Len(rows) \in Nat
          /\ Len([rows EXCEPT ![me.row] = NextStatus(me.was, me.status)]) = Len(rows)
      BY <3>3, AppendProperties, LenProperties
    <3>5. findings' = [findings EXCEPT ![s] =
            IF me.row > 0 THEN [rows EXCEPT ![me.row] = NextStatus(me.was, me.status)]
                          ELSE Append(rows, me.status)]
      BY <1>0, <1>6, <2>1, <3>1, <3>2 DEF WriteFinding
    <3>6. PICK x : x = IF me.row > 0 THEN [rows EXCEPT ![me.row] = NextStatus(me.was, me.status)]
                                     ELSE Append(rows, me.status)
      OBVIOUS
    <3>7. Len(findings[s]) <= Len(x)
      BY <3>1, <3>4, <3>6
    <3>8. findings' = [findings EXCEPT ![s] = x]
      BY <3>5, <3>6
    <3> QED
      BY <3>7, <3>8
  <2>3. /\ reporter' = [reporter EXCEPT ![r] = NoReport] /\ NoReport.stage \in Stages
        /\ UNCHANGED <<assetEvents, eventsLost, inputs>>
    BY <1>0, <1>6 DEF WriteFinding, Finished, Report
  <2>4. \A q \in Stages : Len(findings'[q]) \in Nat /\ Len(findings[q]) <= Len(findings'[q])
    BY <1>0, <2>2, LenProperties DEF IngestTyped
  <2>5. ASSUME NEW q \in Reporters PROVE reporter'[q].row <= Len(findings'[reporter'[q].stage])
    <3>1. CASE q = r
      <4>1. reporter'[q] = NoReport
        BY <1>0, <2>3, <3>1
      <4> QED
        BY <1>0, <2>3, <2>4, <4>1
    <3>2. CASE q # r
      <4>1. reporter'[q] = reporter[q] /\ reporter[q].stage \in Stages /\ reporter[q].row \in Nat
        BY <1>0, <2>3, <3>2 DEF Report
      <4>2. reporter[q].row <= Len(findings[reporter[q].stage])
        BY DEF IngestTypes
      <4> QED
        BY <1>0, <2>4, <4>1, <4>2
    <3> QED
      BY <3>1, <3>2
  <2> QED
    BY <1>0, <2>3, <2>5 DEF IngestTypes
<1>7. ASSUME NEW s \in Stages, NEW i \in DOMAIN findings[s], NEW status \in FindingStatuses,
             SetFindingStatus(s, i, status)
      PROVE  IngestTypes'
  <2>1. PICK rows \in Seq(FindingStatuses) : rows = findings[s]
    BY <1>0
  <2>2. Len([rows EXCEPT ![i] = status]) = Len(rows)
    BY LenProperties
  <2>3. findings' = [findings EXCEPT ![s] = [rows EXCEPT ![i] = status]]
    BY <1>0, <1>7, <2>1 DEF SetFindingStatus
  <2>4. \A q \in Stages : Len(findings'[q]) = Len(findings[q])
    BY <1>0, <2>1, <2>2, <2>3
  <2>5. UNCHANGED <<assetEvents, eventsLost, reporter>> /\ inputs' \in 0 .. MaxInputs
    BY <1>7, InputTyped DEF SetFindingStatus
  <2>6. \A r \in Reporters : reporter[r].stage \in Stages
    BY <1>0 DEF Report
  <2> QED
    BY <1>0, <2>4, <2>5, <2>6 DEF IngestTypes
<1>8. CASE UNCHANGED ingestVars
  BY <1>0, <1>8 DEF ingestVars, IngestTypes
<1> QED
  BY <1>1, <1>2, <1>3, <1>4, <1>5, <1>6, <1>7, <1>8 DEF IngestNext

LEMMA IngestTypesIngest == IngestTypes => IngestTypeOK
BY DEF IngestTypes, IngestTyped, IngestTypeOK, Report, Station

(* Mishaps: a call that may still be executed is one. *)
MishapsCount ==
    /\ late \in Nat /\ late <= mishapped
    /\ mishapped \in 0 .. MaxMishaps /\ overlaps \in 0 .. MaxOverlaps

LEMMA MishapsStayCounted ==
    ASSUME MishapsCount, [ProvisioningNext]_provisioningVars
    PROVE  MishapsCount'
<1> USE ProvisioningAssumption DEF MishapsCount, GoesWrong
<1>1. ASSUME NEW o \in Operations, NEW x, Begin(o, x), UNCHANGED <<late, mishapped>>
      PROVE  MishapsCount'
  BY <1>1 DEF Begin
<1>2. ASSUME NEW o \in Operations, Create(o) \/ Retry(o) \/ Delete(o) \/ \E s \in Statuses : UpdateStatus(o, s)
      PROVE  MishapsCount'
  BY <1>1, <1>2 DEF Create, Retry, Delete, UpdateStatus
<1>3. ASSUME NEW o \in Operations, CallFails(o) PROVE MishapsCount'
  BY <1>3 DEF CallFails
<1>4. ASSUME NEW o \in Operations,
             \/ \E d \in Ids : DcCreateTenant(o, d)
             \/ Provisioned(o) \/ ProvisioningFailed(o) \/ DcUpdateTenant(o)
             \/ UpdateTenantStatus(o) \/ DcDeleteTenant(o) \/ DeleteTenant(o)
      PROVE  MishapsCount'
  <2>1. UNCHANGED <<late, overlaps>> /\ (UNCHANGED mishapped \/ GoesWrong)
    BY <1>4 DEF DcCreateTenant, Provisioned, ProvisioningFailed, DcUpdateTenant,
                UpdateTenantStatus, DcDeleteTenant, DeleteTenant
  <2> QED
    BY <2>1
<1>5. ASSUME NEW d \in Ids, ExecutedLate(d) PROVE MishapsCount'
  BY <1>5 DEF ExecutedLate
<1>6. CASE UNCHANGED provisioningVars
  BY <1>6 DEF provisioningVars
<1> QED
  BY <1>2, <1>3, <1>4, <1>5, <1>6 DEF ProvisioningNext

LEMMA ProvisioningTyped == Typed /\ MishapsCount => ProvisioningTypeOK
BY ProvisioningAssumption DEF Typed, MishapsCount, ProvisioningTypeOK, Request

LEMMA AllowlistTyped == AllowlistInv => AllowlistTypeOK
<1> SUFFICES ASSUME AllowlistInv PROVE AllowlistTypeOK
  OBVIOUS
<1>1. \A i \in 1 .. Len(scopeChunks) : scopeChunks[i] \in Entry
  BY ElementOfSeq DEF AllowlistInv
<1> QED
  BY <1>1 DEF AllowlistInv, AllowlistTypeOK

----------------------------------------------------------------------------
(* The parts as MCServer composes them.                                    *)

(* A behaviour of the composition is one of every part: an area's step     *)
(* stutters in the other parts.                                            *)
LEMMA PartsRun ==
    Spec => /\ AllowlistSpec /\ EventBusSpec /\ AuditSpec /\ RoundTripSpec /\ CredentialsSpec
            /\ AgentKeysSpec /\ IngestSpec /\ ScanDefinitionsSpec /\ PredicateSpec
            /\ RuleVersionsSpec /\ RuleActionsSpec /\ MembershipsSpec /\ ProvisioningSpec
<1>1. Init => /\ AllowlistInit /\ EventBusInit /\ AuditInit /\ RoundTripInit /\ CredentialsInit
              /\ AgentKeysInit /\ IngestInit /\ ScanDefinitionsInit /\ PredicateInit
              /\ RuleVersionsInit /\ RuleActionsInit /\ MembershipsInit /\ ProvisioningInit
  BY DEF Init
<1>2. [Next]_vars =>
        /\ [AllowlistNext]_allowlistVars /\ [EventBusNext]_busVars /\ [AuditNext]_auditVars
        /\ [RoundTripNext]_tripVars /\ [CredentialsNext]_credVars /\ [AgentKeysNext]_keyVars
        /\ [IngestNext]_ingestVars /\ [ScanDefinitionsNext]_defVars
        /\ [PredicateNext]_predicateVars /\ [RuleVersionsNext]_ruleVars
        /\ [RuleActionsNext]_actionVars /\ [MembershipsNext]_memberVars
        /\ [ProvisioningNext]_provisioningVars
  BY DEF Next, vars, OnlyAllowlist, OnlyEventBus, OnlyAudit, OnlyRoundTrip, OnlyCredentials,
         OnlyAgentKeys, OnlyIngest, OnlyScanDefinitions, OnlyPredicate, OnlyRuleVersions,
         OnlyRuleActions, OnlyMemberships, OnlyProvisioning
<1> QED
  BY <1>1, <1>2, PTL
     DEF Spec, AllowlistSpec, EventBusSpec, AuditSpec, RoundTripSpec, CredentialsSpec,
         AgentKeysSpec, IngestSpec, ScanDefinitionsSpec, PredicateSpec, RuleVersionsSpec,
         RuleActionsSpec, MembershipsSpec, ProvisioningSpec

LEMMA MessagesTyped ==
    /\ EventBusSpec => []EventBusTypeOK
    /\ AuditSpec => []AuditTypeOK
    /\ RoundTripSpec => []RoundTripTypeOK
<1>1. (BusInv => EventBusTypeOK) /\ (AuditInv => AuditTypeOK)
  BY DEF BusInv, AuditInv
<1>2. RoundTripInit => LinksTyped
  BY DEF RoundTripInit, LinksTyped
<1> QED
  BY <1>1, <1>2, InitBusInv, StepBusInv, InitAuditInv, StepAuditInv, InitTripInv, StepTripInv,
     LinksStayTyped, TripTyped, PTL DEF EventBusSpec, AuditSpec, RoundTripSpec

LEMMA AccountsTyped ==
    /\ CredentialsSpec => []CredentialsTypeOK
    /\ AgentKeysSpec => []AgentKeysTypeOK
    /\ MembershipsSpec => []MembershipsTypeOK
    /\ ProvisioningSpec => []ProvisioningTypeOK
<1>1. /\ CredInv => CredentialsTypeOK
      /\ MembersInv => MembershipsTypeOK
      /\ ProvisioningInv => Typed
      /\ KeysInv => KeyTypes
  BY DEF CredInv, MembersInv, ProvisioningInv, KeysInv
<1>2. AgentKeysInit => CredsTyped /\ ReportsCount
  BY AgentKeysAssumption DEF AgentKeysInit, CredsTyped, ReportsCount, NoCreds, Creds, KeyNumber
<1>3. ProvisioningInit => MishapsCount
  BY ProvisioningAssumption DEF ProvisioningInit, MishapsCount
<1> QED
  BY <1>1, <1>2, <1>3, InitCredInv, StepCredInv, InitMembersInv, StepMembersInv,
     InitProvisioningInv, StepProvisioningInv, InitKeysInv, StepKeysInv, CredsStayTyped,
     ReportsStayCounted, KeysTyped, MishapsStayCounted, ProvisioningTyped, PTL
     DEF CredentialsSpec, AgentKeysSpec, MembershipsSpec, ProvisioningSpec

LEMMA ScansAndRulesTyped ==
    /\ AllowlistSpec => []AllowlistTypeOK
    /\ IngestSpec => []IngestTypeOK
    /\ ScanDefinitionsSpec => []ScanDefinitionsTypeOK
    /\ RuleVersionsSpec => []RuleVersionsTypeOK
    /\ RuleActionsSpec => []RuleActionsTypeOK
<1>1. /\ DefInv => ScanDefinitionsTypeOK
      /\ VersionsInv => RuleVersionsTypeOK
      /\ ActionsInv => RuleActionsTypeOK
  BY DEF DefInv, VersionsInv, ActionsInv
<1>2. IngestInit => IngestTypes
  <2> SUFFICES ASSUME IngestInit PROVE IngestTypes
    OBVIOUS
  <2>1. IngestTyped
    BY InitIngestInv DEF IngestInv
  <2>2. NoReport.row = 0 /\ NoReport.stage \in Stages
    BY DEF NoReport, Stages
  <2>3. \A s \in Stages : Len(findings[s]) = 0
    BY EmptyHolds DEF IngestInit
  <2>4. ASSUME NEW r \in Reporters PROVE reporter[r].row <= Len(findings[reporter[r].stage])
    <3>1. reporter[r] = NoReport
      BY DEF IngestInit
    <3> QED
      BY <2>2, <2>3, <3>1
  <2>5. /\ assetEvents \subseteq {"new_asset", "version_changed"} /\ eventsLost \in BOOLEAN
    BY DEF IngestInit
  <2>6. inputs \in 0 .. MaxInputs
    <3>1. inputs = 0 /\ MaxInputs \in Nat
      BY IngestAssumption DEF IngestInit
    <3> QED
      BY <3>1
  <2> QED
    BY <2>1, <2>4, <2>5, <2>6 DEF IngestTypes
<1> QED
  BY <1>1, <1>2, AllowlistInvariant, AllowlistTyped, InitIngestInv, StepIngestInv, IngestStaysTyped,
     IngestTypesIngest, InitDefInv, StepDefInv, InitVersionsInv, StepVersionsInv,
     InitActionsInv, StepActionsInv, PTL
     DEF IngestSpec, ScanDefinitionsSpec, RuleVersionsSpec, RuleActionsSpec

(* The parts of the server keep their types, for any number of requests,   *)
(* agents, workers, reports and faults.                                    *)
THEOREM ServerTypeCorrect == Spec => []TypeOK
BY PartsRun, MessagesTyped, AccountsTyped, ScansAndRulesTyped, PredicateTyped, PTL DEF TypeOK

(* Every safety property of the server's parts holds of the server that is *)
(* composed of them: what a theorem states of a part's own specification   *)
(* it states of MCServer's.                                                *)
THEOREM ServerCorrect ==
    Spec => /\ [](ScansStayInFile /\ ChunksTileEntries)
            /\ [](EventReachesStream /\ AuditAccounted /\ AnswerIsHeard)
            /\ [](ScanSecretIsIntended /\ InstallActsOnce)
            /\ [](AdminsLostByRaceOrOperator /\ StrandedTenantsAccounted)
            /\ [](RowsComeFromRaces /\ NewEndpointAnnounced) /\ SuppressionHonored
            /\ [](ClaimedOncePerMatch /\ LoseATickNotADefinition /\ OrphansAccounted)
            /\ [](OrderHidesErrorsOnly /\ LastVersionLive /\ AlertsRecorded)
BY PartsRun, ScansAreAllowed, ChunksTile, EventsReachStreams, EventsAccounted, AnswersReachWaiters,
   SecretsAreIntended, TokensActOnce, AdminsStay, StrandedTenantsCost, RowsAreRaces,
   NewEndpointsAreAnnounced, UsersSuppress, ClaimsMatch, DefinitionsAreKept, OrphansCostFaults,
   OrderCostsErrors, RuleFiresOnce, AlertsLeaveRows, PTL
=============================================================================
