---------------------------- MODULE AgentProofs -----------------------------
(***************************************************************************)
(* Proofs about the agent's parts: its tunnel, the run of a directive, the *)
(* discovery pipeline and the throttled log stream. Each part is proved    *)
(* about its own specification; the last section composes them as MCAgent  *)
(* does.                                                                   *)
(***************************************************************************)
EXTENDS MCAgent, SequenceLemmas

-----------------------------------------------------------------------------
(* The tunnel and its send buffer (AgentTunnel).                           *)

(* The buffer and the wires hold messages in the order in which they were  *)
(* handed over, each in one place: what is on a wire left the buffer before*)
(* everything that is still in it.                                         *)
InOrder(buffer, wires, n) ==
    /\ n \in Nat /\ buffer \in Seq(Nat) /\ wires \in [Dials -> Seq(Nat)]
    /\ Holds(buffer) \subseteq 1 .. n /\ Ascending(buffer)
    /\ \A c \in Dials :
         /\ Holds(wires[c]) \subseteq 1 .. n /\ Ascending(wires[c])
         /\ Precedes(Holds(wires[c]), Holds(buffer))
    /\ \A b, c \in Dials : b # c => Holds(wires[b]) \cap Holds(wires[c]) = {}

TunnelInv == TunnelTypeOK /\ InOrder(sendCh, sock, handed)

LEMMA InOrderHandOver ==
    ASSUME NEW q, NEW w, NEW n, InOrder(q, w, n)
    PROVE  InOrder(q, w, n + 1) /\ InOrder(Append(q, n + 1), w, n + 1)
<1>1. n \in Nat /\ n + 1 \in Nat /\ 1 .. n \subseteq 1 .. n + 1 /\ n + 1 \in 1 .. n + 1
      /\ q \in Seq(Nat) /\ Precedes(1 .. n, {n + 1})
  BY DEF InOrder, Precedes
<1>2. InOrder(q, w, n + 1)
  BY <1>1 DEF InOrder
<1>3. /\ Holds(Append(q, n + 1)) = Holds(q) \cup {n + 1} /\ Append(q, n + 1) \in Seq(Nat)
      /\ Precedes(Holds(q), {n + 1}) /\ Ascending(Append(q, n + 1))
  <2>1. Holds(Append(q, n + 1)) = Holds(q) \cup {n + 1} /\ Append(q, n + 1) \in Seq(Nat)
    BY <1>1, HoldsAppend, AppendProperties
  <2>2. Precedes(Holds(q), {n + 1})
    BY <1>1 DEF InOrder, Precedes
  <2> QED
    BY <1>1, <2>1, <2>2, AscendingAppend DEF InOrder
<1>4. \A c \in Dials : Precedes(Holds(w[c]), Holds(q) \cup {n + 1})
  BY <1>1 DEF InOrder, Precedes
<1> QED
  BY <1>1, <1>2, <1>3, <1>4 DEF InOrder

LEMMA InOrderTake ==
    ASSUME NEW q, NEW w, NEW n, InOrder(q, w, n), q # <<>>
    PROVE  /\ InOrder(Tail(q), w, n)
           /\ Holds(q) = Holds(Tail(q)) \cup {Head(q)} /\ Head(q) \notin Holds(Tail(q))
           /\ \A c \in Dials : Head(q) \notin Holds(w[c])
<1>1. /\ q \in Seq(Nat) /\ Tail(q) \in Seq(Nat) /\ Head(q) \in Nat
      /\ Holds(q) = Holds(Tail(q)) \cup {Head(q)} /\ Holds(q) \subseteq 1 .. n
      /\ Ascending(Tail(q)) /\ Precedes({Head(q)}, Holds(Tail(q)))
  BY HoldsTail, AscendingTail DEF InOrder
<1>2. \A a \in Nat : ~(a < a)
  OBVIOUS
<1>3. Head(q) \notin Holds(Tail(q))
  BY <1>1, <1>2 DEF Precedes
<1>4. \A c \in Dials : Head(q) \notin Holds(w[c]) /\ Precedes(Holds(w[c]), Holds(Tail(q)))
  BY <1>1, <1>2 DEF InOrder, Precedes
<1> QED
  BY <1>1, <1>3, <1>4 DEF InOrder

LEMMA InOrderWire ==
    ASSUME NEW q, NEW w, NEW n, InOrder(q, w, n), NEW c \in Dials,
           NEW s \in Seq(Nat), Ascending(s), Holds(s) \subseteq Holds(w[c])
    PROVE  InOrder(q, [w EXCEPT ![c] = s], n)
<1> DEFINE u == [w EXCEPT ![c] = s]
<1>1. /\ u \in [Dials -> Seq(Nat)] /\ u[c] = s
      /\ \A b \in Dials : b # c => u[b] = w[b]
  BY DEF InOrder
<1> HIDE DEF u
<1>2. \A b \in Dials : Ascending(u[b]) /\ Holds(u[b]) \subseteq Holds(w[b])
  BY <1>1 DEF InOrder
<1>3. InOrder(q, u, n)
  BY <1>1, <1>2 DEF InOrder, Precedes
<1> QED
  BY <1>3 DEF u

LEMMA InOrderWrite ==
    ASSUME NEW q, NEW w, NEW n, InOrder(q, w, n), q # <<>>, NEW c \in Dials
    PROVE  /\ InOrder(Tail(q), [w EXCEPT ![c] = Append(@, Head(q))], n)
           /\ Holds(Append(w[c], Head(q))) = Holds(w[c]) \cup {Head(q)}
<1> DEFINE m == Head(q)
           s == Append(w[c], m)
           u == [w EXCEPT ![c] = s]
<1>1. /\ InOrder(Tail(q), w, n) /\ Holds(q) = Holds(Tail(q)) \cup {m}
      /\ \A b \in Dials : m \notin Holds(w[b])
  BY InOrderTake
<1>2. w[c] \in Seq(Nat) /\ m \in Nat /\ m \in 1 .. n /\ m \in Holds(q)
  BY <1>1, HoldsTail DEF InOrder
<1>3. s \in Seq(Nat) /\ Holds(s) = Holds(w[c]) \cup {m}
  BY <1>2, HoldsAppend, AppendProperties
<1>4. Ascending(s)
  <2>1. Precedes(Holds(w[c]), {m})
    BY <1>2 DEF InOrder, Precedes
  <2> QED
    BY <1>2, <2>1, AscendingAppend DEF InOrder
<1>5. Precedes({m}, Holds(Tail(q)))
  BY AscendingTail DEF InOrder
<1>6. /\ u \in [Dials -> Seq(Nat)] /\ u[c] = s
      /\ \A b \in Dials : b # c => u[b] = w[b]
  BY <1>3 DEF InOrder
<1> HIDE DEF m, s, u
<1>7. InOrder(Tail(q), u, n)
  <2>1. \A b \in Dials : /\ Holds(u[b]) \subseteq 1 .. n /\ Ascending(u[b])
                         /\ Precedes(Holds(u[b]), Holds(Tail(q)))
    BY <1>1, <1>2, <1>3, <1>4, <1>5, <1>6 DEF InOrder, Precedes
  <2>2. \A a, b \in Dials : a # b => Holds(u[a]) \cap Holds(u[b]) = {}
    <3>1. ASSUME NEW b \in Dials, b # c PROVE Holds(s) \cap Holds(w[b]) = {}
      BY <1>1, <1>3, <3>1 DEF InOrder
    <3>2. \A a, b \in Dials : a # b => Holds(w[a]) \cap Holds(w[b]) = {}
      BY DEF InOrder
    <3> SUFFICES ASSUME NEW a \in Dials, NEW b \in Dials, a # b
                 PROVE  Holds(u[a]) \cap Holds(u[b]) = {}
      OBVIOUS
    <3>3. CASE a = c
      BY <1>6, <3>1, <3>3
    <3>4. CASE b = c
      BY <1>6, <3>1, <3>4
    <3>5. CASE a # c /\ b # c
      BY <1>6, <3>2, <3>5
    <3> QED
      BY <3>3, <3>4, <3>5
  <2> QED
    BY <1>1, <1>6, <2>1, <2>2 DEF InOrder
<1> QED
  BY <1>3, <1>7 DEF m, s, u

LEMMA AscendingCardinality ==
    ASSUME NEW s \in Seq(Nat), Ascending(s)
    PROVE  IsFiniteSet(Holds(s)) /\ Cardinality(Holds(s)) = Len(s)
<1>1. Len(s) \in Nat /\ s \in [1 .. Len(s) -> Nat] /\ \A i \in 1 .. Len(s) : s[i] \in Nat
  BY LenProperties, ElementOfSeq
<1>2. s \in [1 .. Len(s) -> Holds(s)] /\ \A m \in Holds(s) : \E i \in 1 .. Len(s) : s[i] = m
  BY <1>1 DEF Holds
<1>3. ASSUME NEW i \in 1 .. Len(s), NEW j \in 1 .. Len(s), s[i] = s[j] PROVE i = j
  BY <1>1, <1>3 DEF Ascending
<1>4. s \in Bijection(1 .. Len(s), Holds(s))
  BY <1>2, <1>3 DEF Bijection, Injection, Surjection, IsInjective
<1>5. IsFiniteSet(1 .. Len(s)) /\ Cardinality(1 .. Len(s)) = Len(s)
  <2>1. /\ IsFiniteSet(1 .. Len(s))
        /\ Cardinality(1 .. Len(s)) = IF 1 > Len(s) THEN 0 ELSE Len(s) - 1 + 1
    BY <1>1, 1 \in Int, Len(s) \in Int, FS_Interval
  <2> QED
    BY <1>1, <2>1
<1> QED
  BY <1>4, <1>5, FS_Bijection DEF ExistsBijection

-----------------------------------------------------------------------------
(* The refinement. *)

Waiting == Elements(sendCh) \cup UNION {Elements(sock[c]) : c \in Dials}
Arrived == UNION {Elements(got[c]) : c \in Dials}

LEMMA ElementsHeld == \A s : Elements(s) = Holds(s)
BY DEF Elements, Holds

LEMMA UnionUpdate ==
    ASSUME NEW S, NEW f \in [Dials -> S], NEW c \in Dials, NEW t,
           NEW g, g = [f EXCEPT ![c] = t]
    PROVE  /\ UNION {Elements(g[b]) : b \in Dials}
                = (UNION {Elements(f[b]) : b \in Dials \ {c}}) \cup Elements(t)
           /\ UNION {Elements(f[b]) : b \in Dials}
                = (UNION {Elements(f[b]) : b \in Dials \ {c}}) \cup Elements(f[c])
<1>1. g[c] = t /\ \A b \in Dials \ {c} : g[b] = f[b]
  OBVIOUS
<1> QED
  BY <1>1

LEMMA InitTunnel == TunnelInit => TunnelInv /\ Channel!Init
<1> SUFFICES ASSUME TunnelInit PROVE TunnelInv /\ Channel!Init
  OBVIOUS
<1>1. <<>> \in Seq(Message) /\ <<>> \in Seq(Nat) /\ Len(<<>>) = 0
  BY EmptySeq
<1>2. TunnelTypeOK
  BY <1>1, TunnelAssumption DEF TunnelInit, TunnelTypeOK
<1>3. InOrder(sendCh, sock, handed)
  BY <1>1, EmptyHolds DEF TunnelInit, InOrder, Precedes
<1>4. Channel!Init
  BY ElementsHeld, EmptyHolds DEF TunnelInit, Channel!Init
<1> QED
  BY <1>2, <1>3, <1>4 DEF TunnelInv

LEMMA SendStep ==
    ASSUME TunnelInv, TunnelSend
    PROVE  TunnelInv' /\ [Channel!Next]_Channel!channel
<1>1. /\ sendCh \in Seq(Message) /\ Len(sendCh) <= SendChSize /\ handed \in 0 .. MaxMessages
      /\ handed < MaxMessages /\ handed' = handed + 1 /\ handed + 1 \in Message
      /\ UNCHANGED <<state, writer, sock, got, lost>>
      /\ MaxMessages \in Nat /\ SendChSize \in Nat /\ Len(sendCh) \in Nat
      /\ handed + 1 \in 0 .. MaxMessages
  BY TunnelAssumption, LenProperties DEF TunnelInv, TunnelTypeOK, TunnelSend, Message
<1>2. CASE Len(sendCh) < SendChSize
  <2>1. sendCh' = Append(sendCh, handed + 1) /\ dropped' = dropped
    BY <1>2 DEF TunnelSend
  <2>2. Append(sendCh, handed + 1) \in Seq(Message) /\ Len(Append(sendCh, handed + 1)) <= SendChSize
    BY <1>1, <1>2, AppendProperties
  <2>3. TunnelTypeOK'
    BY <1>1, <2>1, <2>2 DEF TunnelInv, TunnelTypeOK
  <2>4. InOrder(sendCh', sock', handed')
    BY <1>1, <2>1, InOrderHandOver DEF TunnelInv
  <2>5. Elements(Append(sendCh, handed + 1)) = Elements(sendCh) \cup {handed + 1}
    BY <1>1, HoldsAppend, ElementsHeld
  <2>6. Channel!Accept
    BY <1>1, <2>1, <2>5 DEF Channel!Accept
  <2> QED
    BY <2>3, <2>4, <2>6 DEF TunnelInv, Channel!Next
<1>3. CASE ~(Len(sendCh) < SendChSize)
  <2>1. dropped' = dropped \cup {handed + 1} /\ sendCh' = sendCh
    BY <1>3 DEF TunnelSend
  <2>2. TunnelTypeOK'
    BY <1>1, <2>1 DEF TunnelInv, TunnelTypeOK
  <2>3. InOrder(sendCh', sock', handed')
    BY <1>1, <2>1, InOrderHandOver DEF TunnelInv
  <2>4. Cardinality(Waiting) >= SendChSize
    <3>1. Waiting \subseteq 1 .. handed /\ Elements(sendCh) \subseteq Waiting
      BY ElementsHeld DEF TunnelInv, InOrder, Waiting
    <3>2. IsFiniteSet(1 .. handed)
      BY <1>1, FS_Interval
    <3>3. IsFiniteSet(Waiting) /\ Cardinality(Waiting) \in Nat
      BY <3>1, <3>2, FS_Subset, FS_CardinalityType
    <3>4. Cardinality(Elements(sendCh)) <= Cardinality(Waiting)
      BY <3>1, <3>3, FS_Subset
    <3>5. Cardinality(Elements(sendCh)) = Len(sendCh)
      BY AscendingCardinality, ElementsHeld DEF TunnelInv, InOrder
    <3> QED
      BY <1>1, <1>3, <3>3, <3>4, <3>5
  <2>5. Channel!Cardinality(Waiting) = Cardinality(Waiting)
    BY DEF Channel!Cardinality, Cardinality
  <2>6. Channel!Refuse
    BY <1>1, <2>1, <2>4, <2>5 DEF Channel!Refuse, Waiting
  <2> QED
    BY <2>2, <2>3, <2>6 DEF TunnelInv, Channel!Next
<1> QED
  BY <1>2, <1>3

(* A message leaves the buffer for nowhere. *)
LEMMA LoseStep ==
    ASSUME TunnelInv, sendCh # <<>>, sendCh' = Tail(sendCh), lost' = lost \cup {Head(sendCh)},
           UNCHANGED <<handed, sock, got, dropped>>,
           state' \in [Dials -> {"new", "open", "severed", "cancelled", "closed"}],
           writer' \subseteq Dials
    PROVE  TunnelInv' /\ [Channel!Next]_Channel!channel
<1>1. /\ InOrder(Tail(sendCh), sock, handed)
      /\ Holds(sendCh) = Holds(Tail(sendCh)) \cup {Head(sendCh)}
      /\ Head(sendCh) \notin Holds(Tail(sendCh))
      /\ \A c \in Dials : Head(sendCh) \notin Holds(sock[c])
  BY InOrderTake DEF TunnelInv
<1>2. /\ Tail(sendCh) \in Seq(Message) /\ Head(sendCh) \in Message
      /\ Len(Tail(sendCh)) <= SendChSize
  BY HeadTailProperties, LenProperties, TunnelAssumption DEF TunnelInv, TunnelTypeOK
<1>3. TunnelTypeOK'
  BY <1>2 DEF TunnelInv, TunnelTypeOK
<1>4. Waiting' = Waiting \ {Head(sendCh)} /\ {Head(sendCh)} \in SUBSET Waiting
  BY <1>1, ElementsHeld DEF Waiting
<1>5. Channel!GiveUp({Head(sendCh)})
  BY <1>4 DEF Channel!GiveUp, Waiting
<1> QED
  BY <1>1, <1>3, <1>4, <1>5 DEF TunnelInv, Channel!Next, Waiting

LEMMA WriteStep ==
    ASSUME TunnelInv, NEW c \in Dials, WriteMessage(c)
    PROVE  TunnelInv' /\ [Channel!Next]_Channel!channel
<1>1. /\ sendCh # <<>> /\ sendCh' = Tail(sendCh)
      /\ UNCHANGED <<handed, state, writer, got, dropped>>
  BY DEF WriteMessage, Take
<1>2. CASE state[c] # "open"
  BY <1>1, <1>2, LoseStep DEF WriteMessage, TunnelInv, TunnelTypeOK
<1>3. CASE state[c] = "open"
  <2>1. sock' = [sock EXCEPT ![c] = Append(@, Head(sendCh))] /\ lost' = lost
    BY <1>3 DEF WriteMessage
  <2>2. /\ InOrder(sendCh', sock', handed')
        /\ Holds(Append(sock[c], Head(sendCh))) = Holds(sock[c]) \cup {Head(sendCh)}
    BY <1>1, <2>1, InOrderWrite DEF TunnelInv
  <2>3. /\ Tail(sendCh) \in Seq(Message) /\ Head(sendCh) \in Message
        /\ Len(Tail(sendCh)) <= SendChSize /\ sock[c] \in Seq(Message)
    BY <1>1, HeadTailProperties, LenProperties, TunnelAssumption DEF TunnelInv, TunnelTypeOK
  <2>4. Append(sock[c], Head(sendCh)) \in Seq(Message)
    BY <2>3, AppendProperties
  <2>5. TunnelTypeOK'
    BY <1>1, <2>1, <2>3, <2>4 DEF TunnelInv, TunnelTypeOK
  <2>6. Waiting' = Waiting
    <3> DEFINE rest == UNION {Elements(sock[b]) : b \in Dials \ {c}}
    <3>1. UNION {Elements(sock'[b]) : b \in Dials} = rest \cup Elements(Append(sock[c], Head(sendCh)))
      BY <2>1, UnionUpdate DEF TunnelInv, TunnelTypeOK
    <3>2. UNION {Elements(sock[b]) : b \in Dials} = rest \cup Elements(sock[c])
      BY <2>1, UnionUpdate DEF TunnelInv, TunnelTypeOK
    <3>3. Elements(sendCh) = Elements(Tail(sendCh)) \cup {Head(sendCh)}
      BY <1>1, InOrderTake, ElementsHeld DEF TunnelInv
    <3>4. Elements(Append(sock[c], Head(sendCh))) = Elements(sock[c]) \cup {Head(sendCh)}
      BY <2>2, ElementsHeld
    <3> HIDE DEF rest
    <3> QED
      BY <1>1, <3>1, <3>2, <3>3, <3>4 DEF Waiting
  <2> QED
    BY <1>1, <2>1, <2>2, <2>5, <2>6 DEF TunnelInv, Waiting, Channel!channel
<1> QED
  BY <1>2, <1>3

LEMMA SeverStep ==
    ASSUME TunnelInv, NEW c \in Dials, Sever(c)
    PROVE  TunnelInv' /\ [Channel!Next]_Channel!channel
<1>1. /\ lost' = lost \cup Elements(sock[c]) /\ sock' = [sock EXCEPT ![c] = <<>>]
      /\ UNCHANGED <<handed, sendCh, writer, got, dropped>>
      /\ state' = [state EXCEPT ![c] = "severed"]
  BY DEF Sever
<1>2. sock \in [Dials -> Seq(Message)] /\ InOrder(sendCh, sock, handed)
  BY DEF TunnelInv, TunnelTypeOK
<1>3. Elements(sock[c]) \subseteq Message
  BY <1>2, HoldsIn, ElementsHeld
<1>4. <<>> \in Seq(Nat) /\ <<>> \in Seq(Message)
  BY EmptySeq
<1>5. InOrder(sendCh, sock', handed)
  BY <1>1, <1>2, <1>4, EmptyHolds, InOrderWire
<1>6. TunnelTypeOK'
  BY <1>1, <1>2, <1>3, <1>4 DEF TunnelInv, TunnelTypeOK
<1>7. Waiting' = Waiting \ Elements(sock[c]) /\ Elements(sock[c]) \in SUBSET Waiting
  <2> DEFINE rest == UNION {Elements(sock[b]) : b \in Dials \ {c}}
  <2>1. UNION {Elements(sock'[b]) : b \in Dials} = rest
    BY <1>1, <1>2, UnionUpdate, EmptyHolds, ElementsHeld
  <2>2. UNION {Elements(sock[b]) : b \in Dials} = rest \cup Elements(sock[c])
    BY <1>1, <1>2, UnionUpdate
  <2>3. Elements(sock[c]) \cap rest = {}
    BY <1>2, ElementsHeld DEF InOrder
  <2>4. Elements(sock[c]) \cap Elements(sendCh) = {}
    <3>1. \A a \in Nat : ~(a < a)
      OBVIOUS
    <3>2. Holds(sendCh) \subseteq Nat
      BY <1>2 DEF InOrder
    <3> QED
      BY <1>2, <3>1, <3>2, ElementsHeld DEF InOrder, Precedes
  <2> HIDE DEF rest
  <2> QED
    BY <1>1, <2>1, <2>2, <2>3, <2>4 DEF Waiting
<1>8. Channel!GiveUp(Elements(sock[c]))
  BY <1>1, <1>7 DEF Channel!GiveUp, Waiting
<1> QED
  BY <1>1, <1>5, <1>6, <1>7, <1>8 DEF TunnelInv, Channel!Next, Waiting

LEMMA ReadStep ==
    ASSUME TunnelInv, NEW c \in Dials, ServerReads(c)
    PROVE  TunnelInv' /\ [Channel!Next]_Channel!channel
<1> DEFINE m == Head(sock[c])
<1>1. /\ sock[c] # <<>> /\ got' = [got EXCEPT ![c] = Append(@, m)]
      /\ sock' = [sock EXCEPT ![c] = Tail(@)]
      /\ UNCHANGED <<handed, sendCh, state, writer, dropped, lost>>
  BY DEF ServerReads
<1>2. /\ sock \in [Dials -> Seq(Message)] /\ got \in [Dials -> Seq(Message)]
      /\ InOrder(sendCh, sock, handed)
  BY DEF TunnelInv, TunnelTypeOK
<1>3. /\ Tail(sock[c]) \in Seq(Message) /\ m \in Message
      /\ Append(got[c], m) \in Seq(Message)
  BY <1>1, <1>2, HeadTailProperties, AppendProperties
<1>4. /\ sock[c] \in Seq(Nat) /\ Tail(sock[c]) \in Seq(Nat) /\ Ascending(Tail(sock[c]))
      /\ Holds(sock[c]) = Holds(Tail(sock[c])) \cup {m} /\ m \in Nat
      /\ Precedes({m}, Holds(Tail(sock[c])))
  BY <1>1, <1>2, HoldsTail, AscendingTail DEF InOrder
<1>5. InOrder(sendCh, sock', handed)
  BY <1>1, <1>2, <1>4, InOrderWire
<1>6. TunnelTypeOK'
  BY <1>1, <1>2, <1>3 DEF TunnelInv, TunnelTypeOK
<1>7. m \notin Elements(Tail(sock[c])) /\ m \in Elements(sock[c])
      /\ Elements(sock[c]) = Elements(Tail(sock[c])) \cup {m}
  <2>1. ~(m < m)
    BY <1>4
  <2> QED
    BY <1>4, <2>1, ElementsHeld DEF Precedes
<1>8. m \in Waiting /\ Waiting' = Waiting \ {m}
  <2> DEFINE rest == UNION {Elements(sock[b]) : b \in Dials \ {c}}
  <2>1. UNION {Elements(sock'[b]) : b \in Dials} = rest \cup Elements(Tail(sock[c]))
    BY <1>1, <1>2, UnionUpdate
  <2>2. UNION {Elements(sock[b]) : b \in Dials} = rest \cup Elements(sock[c])
    BY <1>1, <1>2, UnionUpdate
  <2>3. m \notin rest
    BY <1>2, <1>7, ElementsHeld DEF InOrder
  <2>4. m \notin Elements(sendCh)
    <3>1. ~(m < m)
      BY <1>4
    <3> QED
      BY <1>2, <1>7, <3>1, ElementsHeld DEF InOrder, Precedes
  <2> HIDE DEF rest
  <2> QED
    BY <1>1, <1>7, <2>1, <2>2, <2>3, <2>4 DEF Waiting
<1>9. Arrived' = Arrived \cup {m}
  <2> DEFINE rest == UNION {Elements(got[b]) : b \in Dials \ {c}}
  <2>1. UNION {Elements(got'[b]) : b \in Dials} = rest \cup Elements(Append(got[c], m))
    BY <1>1, <1>2, UnionUpdate
  <2>2. UNION {Elements(got[b]) : b \in Dials} = rest \cup Elements(got[c])
    BY <1>1, <1>2, UnionUpdate
  <2>3. Elements(Append(got[c], m)) = Elements(got[c]) \cup {m}
    BY <1>2, <1>3, HoldsAppend, ElementsHeld
  <2> HIDE DEF rest
  <2> QED
    BY <2>1, <2>2, <2>3 DEF Arrived
<1> HIDE DEF m
<1>10. Channel!Arrive(m)
  BY <1>1, <1>8, <1>9 DEF Channel!Arrive, Waiting, Arrived
<1> QED
  BY <1>1, <1>5, <1>6, <1>8, <1>10 DEF TunnelInv, Channel!Next, Waiting

LEMMA TunnelStep == TunnelInv /\ [TunnelNext]_tunnelVars => TunnelInv' /\ [Channel!Next]_Channel!channel
<1> SUFFICES ASSUME TunnelInv, [TunnelNext]_tunnelVars
             PROVE  TunnelInv' /\ [Channel!Next]_Channel!channel
  OBVIOUS
<1>1. ASSUME UNCHANGED <<handed, sendCh, sock, got, dropped, lost>>,
             state' \in [Dials -> {"new", "open", "severed", "cancelled", "closed"}],
             writer' \subseteq Dials
      PROVE  TunnelInv' /\ [Channel!Next]_Channel!channel
  BY <1>1 DEF TunnelInv, TunnelTypeOK, Channel!channel
<1>2. ASSUME NEW c \in Dials, Dial(c) \/ WriterStops(c) \/ ReadLoopFails(c) \/ CloseConn(c)
      PROVE  TunnelInv' /\ [Channel!Next]_Channel!channel
  BY <1>1, <1>2 DEF Dial, WriterStops, ReadLoopFails, CloseConn, TunnelInv, TunnelTypeOK
<1>3. ASSUME NEW c \in Dials, WriteFails(c)
      PROVE  TunnelInv' /\ [Channel!Next]_Channel!channel
  BY <1>3, LoseStep DEF WriteFails, Take, TunnelInv, TunnelTypeOK
<1>4. CASE UNCHANGED tunnelVars
  BY <1>1, <1>4 DEF tunnelVars, TunnelInv, TunnelTypeOK
<1> QED
  BY <1>2, <1>3, <1>4, SendStep, WriteStep, SeverStep, ReadStep DEF TunnelNext, Goroutine

(* The tunnel with its send buffer, its write loops and the sockets of its *)
(* successive connections implements a bounded channel that may lose       *)
(* messages but repeats none, for any number of dials and messages and any *)
(* size of the buffer.                                                     *)
THEOREM TunnelRefines == TunnelSpec => TunnelIsLossyChannel
<1> QED
  BY InitTunnel, TunnelStep, PTL DEF TunnelSpec, TunnelIsLossyChannel, Channel!Spec

-----------------------------------------------------------------------------
(* A directive on the agent and its files (DirectiveRun).                  *)

Running == Steps \ {"idle", "ended", "cleared"}

(* The ids are set from OnDirective to the goroutine's defer, and between  *)
(* the two every acceptance has one outcome.                               *)
JobInv ==
    /\ job \in Directives \cup {None} /\ step \in Steps /\ tally \in [Directives -> Tally]
    /\ job = None <=> step \in {"idle", "cleared"}
    /\ OneEndPerAcceptance

(* What the bounds allow, and an upgrade that may still end the process. *)
OutsideInv ==
    /\ progress \in 0 .. Controls /\ upgrading \in {"no", "checked", "unchecked"}
    /\ deliveries \in [Directives -> 0 .. MaxDeliveries] /\ exits \in 0 .. MaxExits
    /\ upgrading # "no" => exits < MaxExits

(* No final name ever holds an incomplete file, but for a bundle that is   *)
(* being extracted or was, and an agent installed unverified.              *)
FilesInv ==
    /\ disk \in [Artifacts -> File] /\ tmp \in [Artifacts -> File] /\ bundle \in File
    /\ interrupted \in BOOLEAN /\ unverified \in BOOLEAN
    /\ disk["tool"] # "torn" /\ disk["collector"] # "torn"
    /\ disk["agent"] = "torn" => unverified
    /\ tmp["agent"] # "absent" => upgrading # "no"
    /\ bundle = "torn" => interrupted \/ step = "extract"
    /\ FilesRunWhole

RunInv == JobInv /\ OutsideInv /\ FilesInv

LEMMA InitRunInv == RunInit => RunInv
<1> SUFFICES ASSUME RunInit PROVE RunInv
  OBVIOUS
<1>1. JobInv
  BY DirectiveAssumption DEF RunInit, JobInv, OneEndPerAcceptance, Tally, Steps
<1>2. OutsideInv
  BY DirectiveAssumption DEF RunInit, OutsideInv
<1>3. FilesInv
  BY DEF RunInit, FilesInv, FilesRunWhole, File, Artifacts
<1> QED
  BY <1>1, <1>2, <1>3 DEF RunInv

LEMMA GoKeepsJob ==
    ASSUME JobInv, step \in Running, NEW s \in Running, Go(s)
    PROVE  JobInv'
BY DEF JobInv, Running, Go, OneEndPerAcceptance, Steps

LEMMA EndKeepsJob ==
    ASSUME JobInv, step \in Running, End
    PROVE  JobInv'
<1>1. /\ job \in Directives /\ job # None /\ step' = "ended" /\ job' = job
      /\ tally' = [tally EXCEPT ![job].ended = @ + 1] /\ tally \in [Directives -> Tally]
  BY DEF JobInv, Running, End
<1>2. tally' \in [Directives -> Tally]
  BY <1>1 DEF Tally
<1>3. ASSUME NEW d \in Directives
      PROVE  tally[d].accepted \in Nat /\ tally[d].ended \in Nat /\ tally[d].aborted \in Nat
  BY <1>1 DEF Tally
<1>4. OneEndPerAcceptance'
  <2> SUFFICES ASSUME NEW d \in Directives
               PROVE  tally'[d].accepted = tally'[d].ended + tally'[d].aborted
                        + IF job' = d /\ step' # "ended" THEN 1 ELSE 0
    BY DEF OneEndPerAcceptance
  <2>1. tally[d].accepted = tally[d].ended + tally[d].aborted
          + IF job = d /\ step # "ended" THEN 1 ELSE 0
    BY DEF JobInv, OneEndPerAcceptance
  <2>2. CASE d = job
    <3>1. /\ tally'[d].accepted = tally[d].accepted /\ tally'[d].aborted = tally[d].aborted
          /\ tally'[d].ended = tally[d].ended + 1
      BY <1>1, <2>2 DEF Tally
    <3> QED
      BY <1>1, <1>3, <2>1, <2>2, <3>1 DEF Running
  <2>3. CASE d # job
    BY <1>1, <1>3, <2>1, <2>3
  <2> QED
    BY <2>2, <2>3
<1> QED
  BY <1>1, <1>2, <1>4 DEF JobInv, Steps

(* A step of the goroutine that leaves the files alone. *)
LEMMA FilesStay ==
    ASSUME FilesInv, UNCHANGED <<Files, unverified>>,
           step = "extract" => step' = "extract" \/ bundle # "torn",
           upgrading' = upgrading \/ upgrading' # "no"
    PROVE  FilesInv'
BY DEF FilesInv, Files, FilesRunWhole

LEMMA OutsideStays ==
    ASSUME OutsideInv, UNCHANGED Outside, progress' \in 0 .. Controls
    PROVE  OutsideInv'
BY DEF OutsideInv, Outside

LEMMA OnDirectiveKeeps == ASSUME RunInv, NEW d \in Directives, OnRunDirective(d) PROVE RunInv'
<1>1. UNCHANGED <<upgrading, exits, unverified, Files>>
  BY DEF OnRunDirective
<1>2. OutsideInv'
  <2>1. /\ deliveries \in [Directives -> 0 .. MaxDeliveries] /\ deliveries[d] < MaxDeliveries
        /\ deliveries' = [deliveries EXCEPT ![d] = @ + 1] /\ MaxDeliveries \in Nat
    BY DirectiveAssumption DEF RunInv, OutsideInv, OnRunDirective
  <2>2. deliveries' \in [Directives -> 0 .. MaxDeliveries]
    BY <2>1
  <2>3. progress' \in 0 .. Controls
    BY DirectiveAssumption DEF RunInv, OutsideInv, OnRunDirective
  <2> QED
    BY <1>1, <2>2, <2>3 DEF RunInv, OutsideInv
<1>3. FilesInv'
  BY <1>1, FilesStay DEF RunInv, OnRunDirective
<1>4. JobInv'
  <2>0. /\ tally \in [Directives -> Tally] /\ None \notin Directives
        /\ \A e \in Directives : tally[e].accepted \in Nat /\ tally[e].ended \in Nat
                                 /\ tally[e].aborted \in Nat /\ tally[e].refused \in Nat
    BY DirectiveAssumption DEF RunInv, JobInv, Tally
  <2>1. CASE /\ step = "idle" /\ job' = d
             /\ step' = IF Kind[d] = "discovery" THEN "naabu" ELSE "resolve"
             /\ tally' = [tally EXCEPT ![d].accepted = @ + 1]
    <3>1. tally' \in [Directives -> Tally]
      BY <2>0, <2>1 DEF Tally
    <3>2. job = None /\ step' # "ended" /\ step' \in Steps \ {"idle", "cleared"}
      BY <2>1 DEF RunInv, JobInv, Steps
    <3>3. ASSUME NEW e \in Directives
          PROVE  tally'[e].accepted = tally'[e].ended + tally'[e].aborted
                        + IF job' = e /\ step' # "ended" THEN 1 ELSE 0
      <4>1. tally[e].accepted = tally[e].ended + tally[e].aborted
        BY <2>0, <3>2 DEF RunInv, JobInv, OneEndPerAcceptance
      <4>2. CASE e = d
        <5>1. /\ tally'[e].accepted = tally[e].accepted + 1
              /\ tally'[e].aborted = tally[e].aborted /\ tally'[e].ended = tally[e].ended
          BY <2>0, <2>1, <4>2 DEF Tally
        <5> QED
          BY <2>0, <2>1, <3>2, <4>1, <4>2, <5>1
      <4>3. CASE e # d
        BY <2>0, <2>1, <4>1, <4>3
      <4> QED
        BY <4>2, <4>3
    <3> QED
      BY <2>0, <2>1, <3>1, <3>2, <3>3 DEF JobInv, OneEndPerAcceptance
  <2>2. CASE UNCHANGED <<job, step, tally>>
    BY <2>2 DEF RunInv, JobInv, OneEndPerAcceptance
  <2>3. CASE UNCHANGED <<job, step>> /\ tally' = [tally EXCEPT ![d].refused = @ + 1]
    <3>1. tally' \in [Directives -> Tally]
      BY <2>0, <2>3 DEF Tally
    <3>2. ASSUME NEW e \in Directives
          PROVE  /\ tally'[e].accepted = tally[e].accepted
                 /\ tally'[e].aborted = tally[e].aborted /\ tally'[e].ended = tally[e].ended
      BY <2>0, <2>3 DEF Tally
    <3> QED
      BY <2>3, <3>1, <3>2 DEF RunInv, JobInv, OneEndPerAcceptance
  <2> QED
    BY <2>1, <2>2, <2>3 DEF OnRunDirective
<1> QED
  BY <1>2, <1>3, <1>4 DEF RunInv

(* The goroutine's steps that touch no file. *)
LEMMA QuietKeeps ==
    ASSUME RunInv, UNCHANGED <<progress, Outside, Files>>,
           step \in Running, step # "extract" \/ bundle # "torn",
           End \/ \E s \in Running : Go(s)
    PROVE  RunInv'
<1>1. JobInv'
  BY EndKeepsJob, GoKeepsJob DEF RunInv
<1>2. OutsideInv' /\ FilesInv'
  BY OutsideStays, FilesStay DEF RunInv, OutsideInv, Outside
<1> QED
  BY <1>1, <1>2 DEF RunInv

(* The goroutine's steps that run a file which is not torn unless allowed. *)
LEMMA RunKeeps ==
    ASSUME RunInv, UNCHANGED <<Outside, disk, tmp, bundle, interrupted>>, progress' \in 0 .. Controls,
           step \in Running, step # "extract",
           End \/ \E s \in Running : Go(s),
           \/ \E a \in {"tool", "collector"} : Run(a, disk[a])
           \/ Run("bundle", bundle)
    PROVE  RunInv'
<1>1. JobInv'
  BY EndKeepsJob, GoKeepsJob DEF RunInv
<1>2. OutsideInv'
  BY OutsideStays DEF RunInv
<1>3. FilesRunWhole'
  BY DEF RunInv, FilesInv, FilesRunWhole, Run, Outside
<1>4. FilesInv'
  BY <1>3 DEF RunInv, FilesInv, Outside
<1> QED
  BY <1>1, <1>2, <1>4 DEF RunInv

LEMMA GoroutineKeeps == ASSUME RunInv, ScanGoroutine PROVE RunInv'
<1>a. /\ step \in Steps /\ progress \in 0 .. Controls /\ Controls \in Nat
  BY DirectiveAssumption DEF RunInv, JobInv, OutsideInv
<1>1. CASE \/ ResolveCredential \/ ReconRun \/ FoundCollector \/ GetOrFetch
           \/ ReadBundleManifest \/ ManifestScanEnds
  <2>1. /\ UNCHANGED <<progress, Outside, Files>> /\ step \in Running /\ step # "extract"
        /\ End \/ \E s \in Running : Go(s)
    <3> USE DEF Running, Steps
    <3>1. CASE ResolveCredential
      BY <3>1, "collector" \in Running, "bundle" \in Running DEF ResolveCredential
    <3>2. CASE ReconRun
      BY <3>2 DEF ReconRun
    <3>3. CASE FoundCollector
      BY <3>3 DEF FoundCollector
    <3>4. CASE GetOrFetch
      BY <3>4 DEF GetOrFetch
    <3>5. CASE ReadBundleManifest
      BY <3>5 DEF ReadBundleManifest
    <3>6. CASE ManifestScanEnds
      BY <3>6 DEF ManifestScanEnds
    <3> QED
      BY <1>1, <3>1, <3>2, <3>3, <3>4, <3>5, <3>6
  <2> QED
    BY <2>1, QuietKeeps
<1>2. CASE RunNaabu \/ RunCollector \/ RunControl \/ RunLegacy
  <2>1. /\ UNCHANGED <<Outside, disk, tmp, bundle, interrupted>> /\ progress' \in 0 .. Controls
        /\ step \in Running /\ step # "extract"
        /\ End \/ \E s \in Running : Go(s)
        /\ (\E a \in {"tool", "collector"} : Run(a, disk[a])) \/ Run("bundle", bundle)
    <3> USE DEF Running, Steps
    <3>1. CASE RunNaabu
      BY <1>a, <3>1 DEF RunNaabu
    <3>2. CASE RunCollector
      BY <1>a, <3>2 DEF RunCollector
    <3>3. CASE RunControl
      BY <1>a, <3>3 DEF RunControl
    <3>4. CASE RunLegacy
      BY <1>a, <3>4 DEF RunLegacy
    <3> QED
      BY <1>2, <3>1, <3>2, <3>3, <3>4
  <2> QED
    BY <2>1, RunKeeps
<1>3. CASE ClearCurrent \/ FreeSemaphore
  <2>1. JobInv'
    BY <1>3, DirectiveAssumption DEF ClearCurrent, FreeSemaphore, RunInv, JobInv, OneEndPerAcceptance, Steps
  <2>2. OutsideInv' /\ FilesInv'
    BY <1>3, <1>a, OutsideStays, FilesStay DEF RunInv, ClearCurrent, FreeSemaphore, Outside
  <2> QED
    BY <2>1, <2>2 DEF RunInv
<1>4. CASE StoreFirst
  <2>1. JobInv'
    BY <1>4, GoKeepsJob DEF StoreFirst, RunInv, Running, Steps
  <2>2. OutsideInv'
    BY <1>4, <1>a, OutsideStays DEF StoreFirst, RunInv
  <2>3. FilesInv'
    BY <1>4 DEF StoreFirst, RunInv, FilesInv, FilesRunWhole, Go, File, Outside
  <2> QED
    BY <2>1, <2>2, <2>3 DEF RunInv
<1>5. CASE StoreRest
  <2>1. JobInv'
    BY <1>5, GoKeepsJob, EndKeepsJob DEF StoreRest, RunInv, Running, Steps
  <2>2. OutsideInv'
    BY <1>5, <1>a, OutsideStays DEF StoreRest, RunInv
  <2>3. FilesInv'
    BY <1>5 DEF StoreRest, RunInv, FilesInv, FilesRunWhole, File, Outside
  <2> QED
    BY <2>1, <2>2, <2>3 DEF RunInv
<1>6. ASSUME NEW a \in {"tool", "collector"}, Download(a) \/ InstallFile(a) \/ RejectDownload(a)
      PROVE  RunInv'
  <2>1. step \in {"naabu", "collector"} /\ UNCHANGED <<progress, Outside>>
    BY <1>6 DEF Download, InstallFile, Install, RejectDownload, Wanted
  <2>2. OutsideInv'
    BY <1>a, <2>1, OutsideStays DEF RunInv
  <2>3. JobInv'
    <3>1. CASE UNCHANGED <<job, step, tally>>
      BY <3>1 DEF RunInv, JobInv, OneEndPerAcceptance
    <3>2. CASE End \/ Go("collect") \/ Go("bundle")
      BY <2>1, <3>2, EndKeepsJob, GoKeepsJob DEF RunInv, Running, Steps
    <3> QED
      BY <1>6, <3>1, <3>2 DEF Download, InstallFile, RejectDownload
  <2>4. /\ UNCHANGED <<bundle, ranTorn, interrupted, unverified, upgrading>>
        /\ \E f \in File : tmp' = [tmp EXCEPT ![a] = f]
        /\ UNCHANGED disk \/ disk' = [disk EXCEPT ![a] = "whole"]
    <3>1. UNCHANGED <<bundle, ranTorn, interrupted, unverified, upgrading>>
      BY <1>6, <2>1 DEF Download, InstallFile, Install, RejectDownload, Outside
    <3>2. \E f \in File : tmp' = [tmp EXCEPT ![a] = f]
      BY <1>6 DEF Download, InstallFile, Install, RejectDownload, File
    <3>3. UNCHANGED disk \/ disk' = [disk EXCEPT ![a] = "whole"]
      BY <1>6 DEF Download, InstallFile, Install, RejectDownload
    <3> QED
      BY <3>1, <3>2, <3>3
  <2>5. FilesInv'
    <3>1. /\ tmp' \in [Artifacts -> File] /\ disk' \in [Artifacts -> File]
          /\ tmp'["agent"] = tmp["agent"] /\ disk'["agent"] = disk["agent"]
          /\ disk'["tool"] # "torn" /\ disk'["collector"] # "torn"
      BY <2>4 DEF RunInv, FilesInv, File, Artifacts
    <3> QED
      BY <2>1, <2>4, <3>1 DEF RunInv, FilesInv, FilesRunWhole
  <2> QED
    BY <2>2, <2>3, <2>5 DEF RunInv
<1> QED
  BY <1>1, <1>2, <1>3, <1>4, <1>5, <1>6 DEF ScanGoroutine, Artifacts

(* The process ends: whatever ran is aborted, and a directory that was     *)
(* being filled stays as it is.                                            *)
LEMMA RestartKeeps ==
    ASSUME RunInv, exits < MaxExits, Restart, UNCHANGED bundle,
           tmp' = [a \in Artifacts |-> "absent"],
           \/ UNCHANGED <<disk, unverified>> /\ Run("agent", disk["agent"])
           \/ /\ disk' = [disk EXCEPT !["agent"] = tmp["agent"]] /\ unverified' \in BOOLEAN
              /\ (unverified => unverified') /\ (tmp["agent"] = "torn" => unverified')
              /\ Run("agent", disk'["agent"])
    PROVE  RunInv'
<1>1. OutsideInv'
  BY DirectiveAssumption DEF RunInv, OutsideInv, Restart
<1>2. JobInv'
  <2>0. /\ tally \in [Directives -> Tally] /\ None \notin Directives
        /\ \A e \in Directives : tally[e].accepted \in Nat /\ tally[e].ended \in Nat
                                 /\ tally[e].aborted \in Nat
        /\ job' = None /\ step' = "idle"
    BY DirectiveAssumption DEF RunInv, JobInv, Tally, Restart
  <2>1. CASE (job = None \/ step = "ended") /\ tally' = tally
    BY <2>0, <2>1 DEF RunInv, JobInv, OneEndPerAcceptance, Steps
  <2>2. CASE job # None /\ step # "ended" /\ tally' = [tally EXCEPT ![job].aborted = @ + 1]
    <3>1. tally' \in [Directives -> Tally] /\ job \in Directives
      BY <2>0, <2>2 DEF RunInv, JobInv, Tally
    <3>2. ASSUME NEW e \in Directives
          PROVE  tally'[e].accepted = tally'[e].ended + tally'[e].aborted
      <4>1. tally[e].accepted = tally[e].ended + tally[e].aborted
              + IF job = e THEN 1 ELSE 0
        BY <2>2 DEF RunInv, JobInv, OneEndPerAcceptance
      <4>2. CASE e = job
        <5>1. /\ tally'[e].accepted = tally[e].accepted /\ tally'[e].ended = tally[e].ended
              /\ tally'[e].aborted = tally[e].aborted + 1
          BY <2>0, <2>2, <4>2 DEF Tally
        <5> QED
          BY <2>0, <4>1, <4>2, <5>1
      <4>3. CASE e # job
        BY <2>0, <2>2, <4>1, <4>3
      <4> QED
        BY <4>2, <4>3
    <3>3. \A e \in Directives : tally'[e].ended \in Nat /\ tally'[e].aborted \in Nat
      BY <3>1 DEF Tally
    <3> QED
      BY <2>0, <3>1, <3>2, <3>3 DEF JobInv, OneEndPerAcceptance, Steps
  <2> QED
    BY <2>1, <2>2 DEF Restart
<1>3. /\ disk' \in [Artifacts -> File] /\ tmp' \in [Artifacts -> File]
      /\ disk'["tool"] # "torn" /\ disk'["collector"] # "torn"
      /\ disk'["agent"] = "torn" => unverified'
      /\ unverified' \in BOOLEAN /\ (unverified => unverified')
      /\ tmp'["agent"] = "absent"
  <2>1. tmp' \in [Artifacts -> File] /\ tmp'["agent"] = "absent"
    BY DEF Artifacts, File
  <2>2. disk \in [Artifacts -> File] /\ tmp["agent"] \in File
    BY DEF RunInv, FilesInv, Artifacts
  <2>3. disk' \in [Artifacts -> File]
    BY <2>2
  <2>4. disk'["tool"] = disk["tool"] /\ disk'["collector"] = disk["collector"]
    BY <2>2 DEF Artifacts
  <2>5. /\ unverified' \in BOOLEAN /\ (unverified => unverified')
        /\ disk'["agent"] = "torn" => unverified'
    BY <2>2 DEF RunInv, FilesInv, Artifacts
  <2> QED
    BY <2>1, <2>3, <2>4, <2>5 DEF RunInv, FilesInv
<1>4. Run("agent", disk'["agent"])
  OBVIOUS
<1>5. /\ interrupted' = (interrupted \/ (step = "extract" /\ bundle = "torn"))
      /\ bundle' = bundle
  BY DEF Restart
<1>6. FilesRunWhole'
  BY <1>3, <1>4, <1>5 DEF RunInv, FilesInv, FilesRunWhole, Run
<1>7. FilesInv'
  BY <1>3, <1>5, <1>6 DEF RunInv, FilesInv
<1> QED
  BY <1>1, <1>2, <1>7 DEF RunInv

LEMMA AgentKeeps == ASSUME RunInv, ReadLoop \/ OnUpgrade \/ Crash PROVE RunInv'
<1>1. CASE UpgradeDone
  <2>1. exits < MaxExits
    BY <1>1 DEF UpgradeDone, RunInv, OutsideInv, FilesInv
  <2>2. unverified' \in BOOLEAN /\ (unverified => unverified')
    BY <1>1 DEF UpgradeDone, RunInv, FilesInv
  <2>3. tmp["agent"] = "torn" => unverified'
    BY <1>1 DEF UpgradeDone, RunInv, FilesInv
  <2> QED
    BY <1>1, <2>1, <2>2, <2>3, RestartKeeps DEF UpgradeDone
<1>2. CASE Crash
  BY <1>2, RestartKeeps DEF Crash
<1>3. CASE Download("agent") \/ RejectDownload("agent")
  <2>1. /\ UNCHANGED <<job, step, progress, tally, disk, bundle, ranTorn, interrupted,
                       deliveries, exits, unverified>>
        /\ tmp' \in [Artifacts -> File] /\ upgrading' \in {"no", upgrading}
        /\ tmp'["agent"] # "absent" => upgrading' # "no"
    BY <1>3 DEF Download, RejectDownload, RunInv, FilesInv, Outside, File, Artifacts, Wanted
  <2>2. JobInv' /\ OutsideInv'
    BY <2>1 DEF RunInv, JobInv, OneEndPerAcceptance, OutsideInv
  <2>3. FilesInv'
    BY <2>1 DEF RunInv, FilesInv, FilesRunWhole
  <2> QED
    BY <2>2, <2>3 DEF RunInv
<1>4. CASE OnUpgrade
  <2>1. JobInv' /\ OutsideInv'
    BY <1>4 DEF OnUpgrade, RunInv, JobInv, OneEndPerAcceptance, OutsideInv
  <2>2. FilesInv'
    BY <1>4, FilesStay DEF OnUpgrade, RunInv
  <2> QED
    BY <2>1, <2>2 DEF RunInv
<1> QED
  BY <1>1, <1>2, <1>3, <1>4 DEF ReadLoop

LEMMA StepRunInv == RunInv /\ [RunNext]_runVars => RunInv'
<1> SUFFICES ASSUME RunInv, [RunNext]_runVars PROVE RunInv'
  OBVIOUS
<1>1. CASE UNCHANGED runVars
  <2>1. JobInv' /\ OutsideInv'
    BY <1>1 DEF runVars, RunInv, JobInv, OneEndPerAcceptance, OutsideInv
  <2>2. FilesInv'
    BY <1>1, FilesStay DEF runVars, Files, RunInv
  <2> QED
    BY <2>1, <2>2 DEF RunInv
<1> QED
  BY <1>1, OnDirectiveKeeps, GoroutineKeeps, AgentKeeps DEF RunNext

(* Every directive the agent accepts ends in exactly one last report or    *)
(* with the process that ran it, for any number of directives, duplicates  *)
(* and crashes.                                                            *)
THEOREM AcceptedOnce == RunSpec => []OneEndPerAcceptance
<1>1. RunInv => OneEndPerAcceptance
  BY DEF RunInv, JobInv
<1> QED
  BY <1>1, InitRunInv, StepRunInv, PTL DEF RunSpec

(* What a runner executes is a whole file, unless the extraction of a      *)
(* bundle was cut short or an upgrade came without a checksum, whenever    *)
(* and however often the process is killed.                                *)
THEOREM FilesAreWhole == RunSpec => []FilesRunWhole
<1>1. RunInv => FilesRunWhole
  BY DEF RunInv, FilesInv
<1> QED
  BY <1>1, InitRunInv, StepRunInv, PTL DEF RunSpec

-----------------------------------------------------------------------------
(* The stages of a discovery and their batches (DiscoveryPipeline).        *)

PipelineInv ==
    /\ PipelineTypeOK
    /\ BatchesPartitionFindings
    /\ stage = "detect" => buf = {}
    /\ \A e \in excluded : <<"detect", e>> \in found
    /\ stage \in {"nuclei", "completed"} /\ want.httpx => inputs = open \ excluded

LEMMA InitPipelineInv == PipelineInit => PipelineInv
BY DEF PipelineInit, PipelineInv, PipelineTypeOK, BatchesPartitionFindings

Contents == found = emitted \cup buf \cup UNION held
Apart == /\ emitted \cap (buf \cup UNION held) = {} /\ buf \cap UNION held = {}
         /\ \A b, c \in held : b = c \/ b \cap c = {}
Batches == Contents /\ Apart

LEMMA AddKeepsBatches ==
    ASSUME PipelineInv, NEW u \in Upserts, Add(u)
    PROVE  /\ Batches' /\ found' = found \cup {u} /\ found' \subseteq Upserts
           /\ buf' \subseteq Upserts /\ armed' \in BOOLEAN /\ held' = held
           /\ emitted' \subseteq Upserts
<1>1. Batches /\ u \notin found /\ found' = found \cup {u} /\ held' = held
  BY DEF PipelineInv, BatchesPartitionFindings, Add, Batches, Contents, Apart
<1>2. \/ emitted' = emitted \cup (buf \cup {u}) /\ buf' = {} /\ armed' = FALSE
      \/ buf' = buf \cup {u} /\ armed' = TRUE /\ emitted' = emitted
  <2> DEFINE full == Cardinality(buf) + 1 >= IF u[1] = "nuclei" THEN 1 ELSE BatchSize
  <2>1. IF full THEN Send(buf \cup {u}) /\ buf' = {} /\ armed' = FALSE
                ELSE buf' = buf \cup {u} /\ armed' = TRUE /\ UNCHANGED emitted
    BY DEF Add
  <2> HIDE DEF full
  <2> QED
    BY <2>1 DEF Send
<1>3. Contents'
  BY <1>1, <1>2 DEF Batches, Contents
<1>4. u \notin emitted /\ u \notin buf /\ u \notin UNION held
  BY <1>1 DEF Batches, Contents
<1>5. Apart'
  <2>1. Apart
    BY <1>1 DEF Batches
  <2>2. emitted' \cap (buf' \cup UNION held) = {}
    BY <1>2, <1>4, <2>1 DEF Apart
  <2>3. buf' \cap UNION held = {}
    BY <1>2, <1>4, <2>1 DEF Apart
  <2> QED
    BY <1>1, <2>1, <2>2, <2>3 DEF Apart
<1> QED
  BY <1>1, <1>2, <1>3, <1>5 DEF PipelineInv, PipelineTypeOK, Batches

LEMMA FlushKeepsBatches ==
    ASSUME PipelineInv, Flush
    PROVE  /\ Batches' /\ found' = found /\ buf' = {} /\ armed' \in BOOLEAN /\ held' = held
           /\ emitted' \subseteq Upserts
BY DEF PipelineInv, PipelineTypeOK, BatchesPartitionFindings, Flush, Send, Batches, Contents, Apart

(* A stage reports a finding and stays where it is. *)
LEMMA FindingKeeps ==
    ASSUME PipelineInv, NEW u \in Upserts, Add(u), UNCHANGED <<want, stage>>,
           stage \notin {"detect", "completed", "error"},
           open' \subseteq Endpoints, hits' \subseteq Endpoints, excluded' \subseteq Endpoints,
           UNCHANGED inputs,
           stage = "nuclei" => UNCHANGED <<open, excluded>>,
           \A e \in excluded' : e \in excluded \/ u = <<"detect", e>>
    PROVE  PipelineInv'
<1>1. PipelineTypeOK'
  BY AddKeepsBatches DEF PipelineInv, PipelineTypeOK
<1>2. BatchesPartitionFindings'
  BY AddKeepsBatches DEF BatchesPartitionFindings, Batches, Contents, Apart
<1>3. \A e \in excluded' : <<"detect", e>> \in found'
  BY AddKeepsBatches DEF PipelineInv
<1> QED
  BY <1>1, <1>2, <1>3 DEF PipelineInv

(* A stage ends with what it found on its way. *)
LEMMA EndKeeps ==
    ASSUME PipelineInv, Flush, UNCHANGED <<want, open, hits, excluded, inputs>>,
           stage' \in {"naabu", "detect", "backfill", "vuln", "httpx", "nuclei", "completed", "error"},
           stage' \in {"nuclei", "completed"} /\ want.httpx => inputs = open \ excluded
    PROVE  PipelineInv'
<1>1. PipelineTypeOK'
  BY FlushKeepsBatches DEF PipelineInv, PipelineTypeOK
<1>2. BatchesPartitionFindings'
  BY FlushKeepsBatches DEF BatchesPartitionFindings, Batches, Contents, Apart
<1> QED
  BY <1>1, <1>2, FlushKeepsBatches DEF PipelineInv

LEMMA StepPipelineInv == PipelineInv /\ [PipelineNext]_pipelineVars => PipelineInv'
<1> SUFFICES ASSUME PipelineInv, [PipelineNext]_pipelineVars PROVE PipelineInv'
  OBVIOUS
<1>a. /\ PipelineTypeOK
      /\ open \subseteq Endpoints /\ hits \subseteq Endpoints /\ excluded \subseteq Endpoints
      /\ inputs \subseteq Endpoints
  BY DEF PipelineInv, PipelineTypeOK
<1>1. ASSUME NEW e \in Endpoints, NaabuFinds(e) PROVE PipelineInv'
  <2>1. <<"naabu", e>> \in Upserts
    BY DEF Upserts
  <2> QED
    BY <1>a, <1>1, <2>1, FindingKeeps DEF NaabuFinds
<1>2. ASSUME NEW e \in Endpoints, VulnFinds(e) PROVE PipelineInv'
  <2>1. <<"vuln", e>> \in Upserts
    BY DEF Upserts
  <2> QED
    BY <1>a, <1>2, <2>1, FindingKeeps DEF VulnFinds
<1>3. ASSUME NEW e \in Endpoints, HTTPXFinds(e) PROVE PipelineInv'
  <2>1. <<"httpx", e>> \in Upserts
    BY DEF Upserts
  <2> QED
    BY <1>a, <1>3, <2>1, FindingKeeps DEF HTTPXFinds
<1>4. ASSUME NEW e \in Endpoints, NucleiFinds(e) PROVE PipelineInv'
  <2>1. <<"nuclei", e>> \in Upserts
    BY DEF Upserts
  <2> QED
    BY <1>a, <1>4, <2>1, FindingKeeps DEF NucleiFinds
<1>5. CASE NaabuEnds
  BY <1>5, EndKeeps DEF NaabuEnds, AfterNaabu, AfterDetect
<1>6. CASE DetectEnds
  <2>1. /\ stage = "detect" /\ buf = {} /\ stage' \in {"backfill", AfterDetect}
        /\ UNCHANGED <<want, open, excluded, inputs, found, buf, armed, held, emitted>>
    BY <1>6 DEF DetectEnds, PipelineInv
  <2>2. hits' \subseteq Endpoints
    BY <1>a, <1>6 DEF DetectEnds
  <2>3. /\ stage' \in {"backfill", "vuln", "httpx", "completed"}
        /\ stage' = "completed" => ~want.httpx
    BY <2>1 DEF AfterDetect
  <2>4. PipelineTypeOK'
    BY <1>a, <2>1, <2>2, <2>3 DEF PipelineTypeOK
  <2>5. BatchesPartitionFindings'
    BY <2>1 DEF PipelineInv, BatchesPartitionFindings
  <2> QED
    BY <2>1, <2>3, <2>4, <2>5 DEF PipelineInv
<1>7. CASE Backfill
  <2>1. PICK h \in hits : \E e \in Answers(h) :
          hits' = hits \ Answers(h) /\ excluded' = excluded \cup {e} /\ Add(<<"detect", e>>)
    BY <1>7 DEF Backfill
  <2>b. PICK e \in Answers(h) :
          hits' = hits \ Answers(h) /\ excluded' = excluded \cup {e} /\ Add(<<"detect", e>>)
    BY <2>1
  <2>2. e \in Endpoints /\ <<"detect", e>> \in Upserts
    BY <1>a, <2>b DEF Answers, Upserts
  <2> QED
    BY <1>a, <1>7, <2>b, <2>2, FindingKeeps DEF Backfill
<1>8. CASE BackfillEnds
  BY <1>8, EndKeeps DEF BackfillEnds, AfterDetect
<1>9. CASE VulnEnds
  BY <1>9, EndKeeps DEF VulnEnds
<1>10. CASE StartHTTPX
  <2>1. PipelineTypeOK'
    BY <1>a, <1>10 DEF StartHTTPX, PipelineTypeOK
  <2>2. BatchesPartitionFindings'
    BY <1>10 DEF StartHTTPX, PipelineInv, BatchesPartitionFindings
  <2> QED
    BY <1>10, <2>1, <2>2 DEF StartHTTPX, PipelineInv
<1>11. CASE HTTPXEnds
  BY <1>11, EndKeeps DEF HTTPXEnds
<1>12. CASE NucleiEnds
  BY <1>12, EndKeeps DEF NucleiEnds, PipelineInv
<1>13. CASE TimerTakes
  <2>1. Batches'
    BY <1>13 DEF TimerTakes, PipelineInv, BatchesPartitionFindings, Batches, Contents, Apart
  <2>2. PipelineTypeOK'
    BY <1>a, <1>13 DEF TimerTakes, PipelineTypeOK
  <2> QED
    BY <1>13, <2>1, <2>2 DEF TimerTakes, PipelineInv, BatchesPartitionFindings, Batches, Contents, Apart
<1>14. ASSUME NEW batch \in held, TimerSends(batch) PROVE PipelineInv'
  <2>1. Batches
    BY DEF PipelineInv, BatchesPartitionFindings, Batches, Contents, Apart
  <2>2. /\ held' = held \ {batch} /\ emitted' = emitted \cup batch
        /\ UNCHANGED <<want, stage, open, hits, excluded, inputs, found, buf, armed>>
    BY <1>14 DEF TimerSends, Send
  <2>3. batch \cap UNION held' = {} /\ UNION held = batch \cup UNION held'
    BY <2>1, <2>2 DEF Batches, Apart
  <2>4. Contents' /\ Apart'
    BY <2>1, <2>2, <2>3 DEF Batches, Contents, Apart
  <2>5. PipelineTypeOK'
    BY <1>a, <2>2 DEF PipelineTypeOK
  <2> QED
    BY <2>2, <2>4, <2>5 DEF PipelineInv, BatchesPartitionFindings, Contents, Apart
<1>15. CASE UNCHANGED pipelineVars
  <2>1. PipelineTypeOK' /\ BatchesPartitionFindings'
    BY <1>a, <1>15 DEF pipelineVars, PipelineInv, PipelineTypeOK, BatchesPartitionFindings
  <2> QED
    BY <1>15, <2>1 DEF pipelineVars, PipelineInv
<1> QED
  BY <1>1, <1>2, <1>3, <1>4, <1>5, <1>6, <1>7, <1>8, <1>9, <1>10, <1>11, <1>12, <1>13, <1>14, <1>15
     DEF PipelineNext, StageEnds

(* Every finding of a discovery is in the batcher's buffer, in one batch a *)
(* timer holds, or sent, and in one of them only, for any endpoints and    *)
(* any batch size.                                                         *)
THEOREM BatchesAccounted == PipelineSpec => []BatchesPartitionFindings
<1>1. PipelineInv => BatchesPartitionFindings
  BY DEF PipelineInv
<1> QED
  BY <1>1, InitPipelineInv, StepPipelineInv, PTL DEF PipelineSpec

(* When httpx ran, every open port was given to it or had its service      *)
(* reported by the detection pass, for any set of endpoints and any        *)
(* options.                                                                *)
THEOREM PortsExamined == PipelineSpec => []EveryPortExamined
<1>1. PipelineInv => EveryPortExamined
  BY DEF PipelineInv, EveryPortExamined
<1> QED
  BY <1>1, InitPipelineInv, StepPipelineInv, PTL DEF PipelineSpec

-----------------------------------------------------------------------------
(* The throttled log stream (LogThrottle).                                 *)

Summary == [now : 1 .. MaxClock, count : 0 .. MaxRecords]

(* What Total sums up, one summary after the other. *)
Sums(s, f) == f = [i \in 0 .. Len(s) |-> IF i = 0 THEN 0 ELSE f[i - 1] + s[i].count]

LEMMA SumsExist ==
    ASSUME NEW s \in Seq(Summary)
    PROVE  \E f : Sums(s, f)
<1> DEFINE Upto(n, f) == /\ f \in [0 .. n -> Nat] /\ f[0] = 0
                         /\ \A i \in 1 .. n : i <= Len(s) => f[i] = f[i - 1] + s[i].count
           S == {n \in Nat : n <= Len(s) => \E f : Upto(n, f)}
<1>0. Len(s) \in Nat /\ \A i \in 1 .. Len(s) : s[i].count \in Nat
  <2>1. \A i \in 1 .. Len(s) : s[i] \in Summary
    BY ElementOfSeq
  <2> QED
    BY <2>1, LenProperties, ThrottleAssumption DEF Summary
<1>1. 0 \in S
  <2>1. Upto(0, [i \in 0 .. 0 |-> 0])
    OBVIOUS
  <2> QED
    BY <2>1
<1>2. ASSUME NEW n \in Nat, n \in S PROVE n + 1 \in S
  <2>1. CASE n + 1 > Len(s)
    BY <1>0, <2>1
  <2>2. CASE n + 1 <= Len(s)
    <3>1. PICK f : Upto(n, f)
      BY <1>0, <1>2, <2>2
    <3> DEFINE g == [i \in 0 .. n + 1 |-> IF i = n + 1 THEN f[n] + s[n + 1].count ELSE f[i]]
    <3>2. s[n + 1].count \in Nat /\ f[n] \in Nat
      BY <1>0, <2>2, <3>1
    <3>3. g \in [0 .. n + 1 -> Nat] /\ g[0] = 0
      BY <3>1, <3>2
    <3>4. ASSUME NEW i \in 1 .. n + 1, i <= Len(s) PROVE g[i] = g[i - 1] + s[i].count
      <4>1. CASE i = n + 1
        BY <4>1
      <4>2. CASE i # n + 1
        <5>1. i \in 1 .. n /\ i - 1 \in 0 .. n + 1 /\ i - 1 # n + 1 /\ i \in 0 .. n + 1
          BY <4>2
        <5> QED
          BY <3>1, <3>4, <4>2, <5>1
      <4> QED
        BY <4>1, <4>2
    <3>5. Upto(n + 1, g)
      BY <3>3, <3>4
    <3> HIDE DEF Upto
    <3> QED
      BY <3>5
  <2> QED
    BY <1>0, <2>1, <2>2
<1>3. Len(s) \in S
  <2> HIDE DEF S
  <2> QED
    BY <1>0, <1>1, <1>2, Induction
<1>4. PICK f : Upto(Len(s), f)
  BY <1>0, <1>3
<1>5. Sums(s, f)
  BY <1>0, <1>4 DEF Sums
<1> QED
  BY <1>5

LEMMA SumsStep ==
    ASSUME NEW s, Len(s) \in Nat, NEW f, Sums(s, f)
    PROVE  f[0] = 0 /\ \A i \in 1 .. Len(s) : f[i] = f[i - 1] + s[i].count
<1>1. \A i \in 0 .. Len(s) : f[i] = IF i = 0 THEN 0 ELSE f[i - 1] + s[i].count
  BY DEF Sums
<1>2. 0 \in 0 .. Len(s) /\ \A i \in 1 .. Len(s) : i \in 0 .. Len(s) /\ i # 0
  OBVIOUS
<1> QED
  BY <1>1, <1>2

LEMMA TotalSums ==
    ASSUME NEW s \in Seq(Summary)
    PROVE  \E g \in [0 .. Len(s) -> Nat] : Sums(s, g) /\ Total(s) = g[Len(s)]
<1> DEFINE c == CHOOSE g : g = [i \in 0 .. Len(s) |-> IF i = 0 THEN 0 ELSE g[i - 1] + s[i].count]
           S == {n \in Nat : n <= Len(s) => c[n] \in Nat}
<1>1. c = [i \in 0 .. Len(s) |-> IF i = 0 THEN 0 ELSE c[i - 1] + s[i].count]
  BY SumsExist, Zenon DEF Sums
<1>2. Total(s) = c[Len(s)]
  BY Zenon DEF Total
<1> HIDE DEF c
<1>3. Len(s) \in Nat /\ \A i \in 1 .. Len(s) : s[i].count \in Nat
  <2>1. \A i \in 1 .. Len(s) : s[i] \in Summary
    BY ElementOfSeq
  <2> QED
    BY <2>1, LenProperties, ThrottleAssumption DEF Summary
<1>4. c[0] = 0 /\ \A i \in 1 .. Len(s) : c[i] = c[i - 1] + s[i].count
  BY <1>1, <1>3
<1>5. 0 \in S
  BY <1>4
<1>6. ASSUME NEW n \in Nat, n \in S PROVE n + 1 \in S
  <2>1. CASE n + 1 <= Len(s)
    <3>1. n + 1 \in 1 .. Len(s) /\ c[n] \in Nat /\ (n + 1) - 1 = n
      BY <1>3, <1>6, <2>1
    <3>2. c[n + 1] = c[n] + s[n + 1].count /\ s[n + 1].count \in Nat
      BY <1>3, <1>4, <3>1
    <3> QED
      BY <3>1, <3>2
  <2> QED
    BY <2>1
<1>7. Nat \subseteq S
  <2> HIDE DEF S
  <2> QED
    BY <1>5, <1>6, Induction
<1>8. c \in [0 .. Len(s) -> Nat]
  <2>1. \A i \in 0 .. Len(s) : c[i] \in Nat
    BY <1>3, <1>7
  <2>2. c = [i \in 0 .. Len(s) |-> c[i]]
    BY <1>1
  <2> QED
    BY <2>1, <2>2
<1> QED
  BY <1>1, <1>2, <1>8 DEF Sums

LEMMA TotalEmpty == Total(<<>>) = 0
<1>1. <<>> \in Seq(Summary) /\ Len(<<>>) = 0
  BY EmptySeq
<1>2. PICK g \in [0 .. Len(<<>>) -> Nat] : Sums(<<>>, g) /\ Total(<<>>) = g[Len(<<>>)]
  BY <1>1, TotalSums
<1> QED
  BY <1>1, <1>2, SumsStep

LEMMA TotalAppend ==
    ASSUME NEW s \in Seq(Summary), NEW x \in Summary
    PROVE  Total(Append(s, x)) = Total(s) + x.count /\ Total(s) \in Nat
<1> DEFINE t == Append(s, x)
<1>1. /\ t \in Seq(Summary) /\ Len(t) = Len(s) + 1 /\ t[Len(s) + 1] = x /\ Len(s) \in Nat
      /\ \A i \in 1 .. Len(s) : t[i] = s[i]
  BY AppendProperties, LenProperties
<1> HIDE DEF t
<1>2. PICK f \in [0 .. Len(s) -> Nat] : Sums(s, f) /\ Total(s) = f[Len(s)]
  BY TotalSums
<1>3. PICK g \in [0 .. Len(t) -> Nat] : Sums(t, g) /\ Total(t) = g[Len(t)]
  BY <1>1, TotalSums
<1>4. /\ f[0] = 0 /\ \A i \in 1 .. Len(s) : f[i] = f[i - 1] + s[i].count
      /\ g[0] = 0 /\ \A i \in 1 .. Len(s) + 1 : g[i] = g[i - 1] + t[i].count
  <2>1. f[0] = 0 /\ \A i \in 1 .. Len(s) : f[i] = f[i - 1] + s[i].count
    BY <1>1, <1>2, SumsStep
  <2>2. g[0] = 0 /\ \A i \in 1 .. Len(t) : g[i] = g[i - 1] + t[i].count
    <3>1. Len(t) \in Nat /\ Sums(t, g)
      BY <1>1, <1>3
    <3> QED
      BY <3>1, SumsStep
  <2> QED
    BY <1>1, <2>1, <2>2
<1> DEFINE S == {n \in Nat : n <= Len(s) => f[n] = g[n]}
<1>5. 0 \in S
  BY <1>4
<1>6. ASSUME NEW n \in Nat, n \in S PROVE n + 1 \in S
  <2>1. CASE n + 1 <= Len(s)
    <3>1. n + 1 \in 1 .. Len(s) /\ n + 1 \in 1 .. Len(s) + 1 /\ f[n] = g[n] /\ (n + 1) - 1 = n
      BY <1>1, <1>6, <2>1
    <3>2. f[n + 1] = f[n] + s[n + 1].count /\ g[n + 1] = g[n] + t[n + 1].count
      BY <1>4, <3>1
    <3> QED
      BY <1>1, <3>1, <3>2
  <2> QED
    BY <2>1
<1>7. Nat \subseteq S
  <2> HIDE DEF S
  <2> QED
    BY <1>5, <1>6, Induction
<1>8. f[Len(s)] = g[Len(s)]
  BY <1>1, <1>7
<1>9. g[Len(s) + 1] = g[Len(s)] + x.count
  <2>1. Len(s) + 1 \in 1 .. Len(s) + 1 /\ (Len(s) + 1) - 1 = Len(s)
    BY <1>1
  <2> QED
    BY <1>1, <1>4, <2>1
<1>10. Total(s) \in Nat
  BY <1>1, <1>2
<1> QED
  BY <1>1, <1>2, <1>3, <1>8, <1>9, <1>10 DEF t

-----------------------------------------------------------------------------
(* The invariant. *)

Reporting(h) == {g \in Loggers : At(g, "send") /\ call[g].h = h}
Busy(g) == call[g].at \in {"swap", "send", "stamp"}

(* One goroutine at a time reports for a handler, and the flag says so. *)
FlagInv ==
    /\ \A g \in Loggers : Busy(g) => inFlight[call[g].h] /\ call[g].now \in 1 .. MaxClock
    /\ \A f, g \in Loggers : Busy(f) /\ Busy(g) /\ call[f].h = call[g].h => f = g

(* What a handler refused is counted, summarised, or in the hands of the   *)
(* one goroutine that is about to send it.                                 *)
Counted(h, extra) == refused[h] = uncounted[h] + Total(summaries[h]) + extra
CountInv ==
    \A h \in Handlers :
        /\ (\A g \in Loggers : ~(At(g, "send") /\ call[g].h = h)) => Counted(h, 0)
        /\ \A g \in Loggers : At(g, "send") /\ call[g].h = h => Counted(h, call[g].count)

ThrottleInv ==
    /\ ThrottleTypeOK /\ FlagInv /\ CountInv
    /\ summaries \in [Handlers -> Seq(Summary)]
    /\ \A h \in Handlers : uncounted[h] <= records /\ refused[h] <= records

LEMMA InitThrottleInv == ThrottleInit => ThrottleInv
<1> SUFFICES ASSUME ThrottleInit PROVE ThrottleInv
  OBVIOUS
<1>1. <<>> \in Seq(Summary) /\ MaxClock \in Nat /\ MaxRecords \in Nat
  BY EmptySeq, ThrottleAssumption
<1>2. ThrottleTypeOK
  <2>1. call \in [Loggers -> Call]
    BY DEF ThrottleInit
  <2>2. \A h \in Handlers : summaries[h] \in Seq(Summary)
    BY <1>1 DEF ThrottleInit
  <2> QED
    BY <1>1, <2>1, <2>2, ThrottleAssumption DEF ThrottleInit, ThrottleTypeOK, Summary
<1>3. FlagInv /\ CountInv
  <2>1. \A g \in Loggers : call[g].at = "out"
    BY DEF ThrottleInit
  <2>2. \A h \in Handlers : refused[h] = 0 /\ uncounted[h] = 0 /\ Total(summaries[h]) = 0
    BY TotalEmpty DEF ThrottleInit
  <2> QED
    BY <2>1, <2>2 DEF FlagInv, CountInv, Busy, At, Counted
<1> QED
  BY <1>1, <1>2, <1>3 DEF ThrottleInit, ThrottleInv

(* A step of one goroutine that neither starts nor ends a report.          *)
LEMMA OtherCall ==
    ASSUME ThrottleInv, NEW g \in Loggers, NEW c \in Call, call' = [call EXCEPT ![g] = c],
           call[g].at # "send", c.at # "send", UNCHANGED <<uncounted, refused, summaries>>
    PROVE  CountInv'
<1>1. call \in [Loggers -> Call]
  BY DEF ThrottleInv, ThrottleTypeOK
<1>2. call'[g] = c /\ \A f \in Loggers : f # g => call'[f] = call[f]
  BY <1>1
<1>3. SUFFICES ASSUME NEW h \in Handlers
               PROVE  /\ (\A f \in Loggers : ~(At(f, "send") /\ call[f].h = h)') => Counted(h, 0)'
                      /\ \A f \in Loggers : (At(f, "send") /\ call[f].h = h)' => Counted(h, call[f].count)'
  BY DEF CountInv
<1>4. \A f \in Loggers : (At(f, "send") /\ call[f].h = h)' <=> At(f, "send") /\ call[f].h = h
  BY <1>2 DEF At
<1> QED
  BY <1>2, <1>4 DEF ThrottleInv, CountInv, Counted, At

LEMMA StepThrottleInv == ThrottleInv /\ [ThrottleNext]_throttleVars => ThrottleInv'
<1> SUFFICES ASSUME ThrottleInv, [ThrottleNext]_throttleVars PROVE ThrottleInv'
  OBVIOUS
<1>a. /\ clock \in 1 .. MaxClock /\ tokens \in 0 .. Burst /\ records \in 0 .. MaxRecords
      /\ uncounted \in [Handlers -> 0 .. MaxRecords]
      /\ lastSummary \in [Handlers -> 0 .. MaxClock]
      /\ inFlight \in [Handlers -> BOOLEAN] /\ call \in [Loggers -> Call]
      /\ refused \in [Handlers -> 0 .. MaxRecords]
      /\ summaries \in [Handlers -> Seq(Summary)]
      /\ MaxClock \in Nat /\ MaxRecords \in Nat /\ Burst \in Nat
  BY ThrottleAssumption DEF ThrottleInv, ThrottleTypeOK
<1>b. \A g \in Loggers : /\ call[g].h \in Handlers /\ call[g].now \in 0 .. MaxClock
                          /\ call[g].count \in 0 .. MaxRecords
                          /\ call[g] \in Call
  BY <1>a DEF Call
<1>1. CASE Tick \/ Refill \/ UNCHANGED throttleVars
  <2>1. /\ UNCHANGED <<records, uncounted, lastSummary, inFlight, call, refused, summaries>>
        /\ clock' \in 1 .. MaxClock /\ tokens' \in 0 .. Burst
    BY <1>1, <1>a DEF Tick, Refill, throttleVars
  <2>2. ThrottleTypeOK'
    BY <1>a, <2>1 DEF ThrottleTypeOK, Summary
  <2>3. FlagInv' /\ CountInv'
    BY <2>1 DEF ThrottleInv, FlagInv, CountInv, Busy, At, Counted
  <2> QED
    BY <1>a, <2>1, <2>2, <2>3 DEF ThrottleInv
<1>2. ASSUME NEW g \in Loggers, NEW h \in Handlers, Handle(g, h) PROVE ThrottleInv'
  <2> DEFINE c == [call[g] EXCEPT !.at = "load", !.h = h]
  <2>1. /\ call[g].at = "out" /\ records < MaxRecords /\ records' = records + 1
        /\ UNCHANGED <<clock, lastSummary, inFlight, summaries>>
        /\ call' = [call EXCEPT ![g] = c]
    BY <1>2 DEF Handle, At
  <2>2. c \in Call /\ c.at = "load"
    BY <1>b DEF Call
  <2> HIDE DEF c
  <2>3. call' \in [Loggers -> Call] /\ call'[g] = c /\ \A f \in Loggers : f # g => call'[f] = call[f]
    BY <1>a, <2>1, <2>2
  <2>4. records' \in 0 .. MaxRecords
    BY <1>a, <2>1
  <2>5. FlagInv'
    BY <2>1, <2>2, <2>3 DEF ThrottleInv, FlagInv, Busy
  <2>6. CASE tokens' = tokens - 1 /\ UNCHANGED <<uncounted, refused>> /\ tokens > 0
    <3>1. CountInv'
      BY <2>1, <2>2, <2>6, OtherCall
    <3>2. tokens' \in 0 .. Burst
      BY <1>a, <2>6
    <3>3. ThrottleTypeOK'
      BY <1>a, <2>1, <2>3, <2>4, <2>6, <3>2 DEF ThrottleTypeOK, Summary
    <3>4. \A k \in Handlers : uncounted'[k] <= records' /\ refused'[k] <= records'
      BY <1>a, <2>1, <2>6 DEF ThrottleInv
    <3> QED
      BY <1>a, <2>1, <2>5, <3>1, <3>3, <3>4 DEF ThrottleInv
  <2>7. CASE /\ uncounted' = [uncounted EXCEPT ![h] = @ + 1]
             /\ refused' = [refused EXCEPT ![h] = @ + 1] /\ UNCHANGED tokens
    <3>1. /\ uncounted[h] + 1 <= records' /\ refused[h] + 1 <= records'
          /\ uncounted[h] + 1 \in 0 .. MaxRecords /\ refused[h] + 1 \in 0 .. MaxRecords
      BY <1>a, <2>1 DEF ThrottleInv
    <3>2. ThrottleTypeOK'
      BY <1>a, <2>1, <2>3, <2>4, <2>7, <3>1 DEF ThrottleTypeOK, Summary
    <3>3. \A k \in Handlers : uncounted'[k] <= records' /\ refused'[k] <= records'
      BY <1>a, <2>1, <2>7, <3>1 DEF ThrottleInv
    <3>4. CountInv'
      <4>1. SUFFICES ASSUME NEW k \in Handlers
                     PROVE  /\ (\A f \in Loggers : ~(At(f, "send") /\ call[f].h = k)') => Counted(k, 0)'
                            /\ \A f \in Loggers : (At(f, "send") /\ call[f].h = k)' => Counted(k, call[f].count)'
        BY DEF CountInv
      <4>2. \A f \in Loggers : (At(f, "send") /\ call[f].h = k)' <=> At(f, "send") /\ call[f].h = k
        BY <2>1, <2>2, <2>3 DEF At
      <4>3. Total(summaries[k]) \in Nat /\ summaries'[k] = summaries[k]
        <5>1. summaries[k] \in Seq(Summary)
          BY <1>a
        <5>2. Total(summaries[k]) \in Nat
          BY <5>1, TotalSums, LenProperties
        <5> QED
          BY <2>1, <5>2
      <4>4. \A n \in 0 .. MaxRecords : Counted(k, n) => Counted(k, n)'
        <5>1. CASE k = h
          BY <1>a, <2>7, <4>3, <5>1 DEF Counted
        <5>2. CASE k # h
          BY <1>a, <2>7, <4>3, <5>2 DEF Counted
        <5> QED
          BY <5>1, <5>2
      <4>5. 0 \in 0 .. MaxRecords /\ \A f \in Loggers : f # g => call'[f].count = call[f].count
        BY <1>a, <2>3
      <4>6. \A f \in Loggers : At(f, "send") => f # g
        BY <2>1 DEF At
      <4> QED
        BY <1>b, <4>2, <4>4, <4>5, <4>6 DEF ThrottleInv, CountInv, Counted
    <3> QED
      BY <1>a, <2>1, <2>5, <3>2, <3>3, <3>4 DEF ThrottleInv
  <2> QED
    BY <1>2, <2>6, <2>7 DEF Handle
<1>3. ASSUME NEW g \in Loggers, AnyDropped(g) PROVE ThrottleInv'
  <2>1. PICK at \in {"out", "lock"} : call' = [call EXCEPT ![g].at = at]
    BY <1>3 DEF AnyDropped, GoOn
  <2> DEFINE c == [call[g] EXCEPT !.at = at]
  <2>2. /\ call[g].at = "load" /\ call' = [call EXCEPT ![g] = c]
        /\ UNCHANGED <<clock, tokens, records, uncounted, lastSummary, inFlight, refused, summaries>>
    BY <1>3, <1>a, <2>1 DEF AnyDropped, At
  <2>3. c \in Call /\ c.at = at
    BY <1>b DEF Call
  <2> HIDE DEF c
  <2>4. call' \in [Loggers -> Call] /\ call'[g] = c /\ \A f \in Loggers : f # g => call'[f] = call[f]
    BY <1>a, <2>2, <2>3
  <2>5. FlagInv'
    BY <2>2, <2>3, <2>4 DEF ThrottleInv, FlagInv, Busy
  <2>6. CountInv'
    BY <2>2, <2>3, OtherCall
  <2>7. ThrottleTypeOK'
    BY <1>a, <2>2, <2>4 DEF ThrottleTypeOK, Summary
  <2> QED
    BY <2>2, <2>5, <2>6, <2>7 DEF ThrottleInv
<1>4. ASSUME NEW g \in Loggers, Decide(g) PROVE ThrottleInv'
  <2> DEFINE h == call[g].h
  <2>1. /\ call[g].at = "lock" /\ h \in Handlers
        /\ UNCHANGED <<clock, tokens, records, uncounted, lastSummary, refused, summaries>>
    BY <1>4, <1>b DEF Decide, At
  <2>2. CASE ~inFlight[h] /\ inFlight' = [inFlight EXCEPT ![h] = TRUE]
             /\ call' = [call EXCEPT ![g] = [@ EXCEPT !.at = "swap", !.now = clock]]
    <3> DEFINE c == [call[g] EXCEPT !.at = "swap", !.now = clock]
    <3>1. call' = [call EXCEPT ![g] = c] /\ clock \in 0 .. MaxClock
      BY <1>a, <2>2
    <3>2. c \in Call /\ c.at = "swap" /\ c.now = clock /\ c.h = h
      BY <1>b, <3>1 DEF Call
    <3> HIDE DEF c
    <3>3. call' \in [Loggers -> Call] /\ call'[g] = c /\ \A f \in Loggers : f # g => call'[f] = call[f]
      BY <1>a, <3>1, <3>2
    <3>4. CountInv'
      BY <2>1, <3>1, <3>2, OtherCall
    <3>5. /\ \A k \in Handlers : inFlight[k] => inFlight'[k]
          /\ inFlight'[h] /\ inFlight' \in [Handlers -> BOOLEAN]
      BY <1>a, <2>1, <2>2
    <3>6. \A f \in Loggers : Busy(f) => call[f].h # h
      BY <2>2 DEF ThrottleInv, FlagInv
    <3> HIDE DEF h
    <3>7. FlagInv'
      <4>1. ASSUME NEW f \in Loggers, Busy(f)'
            PROVE  (inFlight[call[f].h] /\ call[f].now \in 1 .. MaxClock)'
        <5>1. CASE f = g
          BY <1>a, <3>2, <3>3, <3>5, <5>1
        <5>2. CASE f # g
          BY <1>b, <3>3, <3>5, <4>1, <5>2 DEF ThrottleInv, FlagInv, Busy
        <5> QED
          BY <5>1, <5>2
      <4>2. ASSUME NEW e \in Loggers, NEW f \in Loggers, (Busy(e) /\ Busy(f) /\ call[e].h = call[f].h)'
            PROVE  e = f
        <5>1. CASE e # g /\ f # g
          BY <3>3, <4>2, <5>1 DEF ThrottleInv, FlagInv, Busy
        <5>2. CASE e = g /\ f # g
          BY <3>2, <3>3, <3>6, <4>2, <5>2 DEF Busy
        <5>3. CASE e # g /\ f = g
          BY <3>2, <3>3, <3>6, <4>2, <5>3 DEF Busy
        <5> QED
          BY <5>1, <5>2, <5>3
      <4> QED
        BY <4>1, <4>2 DEF FlagInv
    <3>8. ThrottleTypeOK'
      BY <1>a, <2>1, <3>3, <3>5 DEF ThrottleTypeOK, Summary
    <3> QED
      BY <2>1, <3>4, <3>7, <3>8 DEF ThrottleInv
  <2>3. CASE GoOn(g, "out") /\ UNCHANGED inFlight
    <3> DEFINE c == [call[g] EXCEPT !.at = "out"]
    <3>1. call' = [call EXCEPT ![g] = c]
      BY <1>a, <2>3 DEF GoOn
    <3>2. c \in Call /\ c.at = "out"
      BY <1>b DEF Call
    <3> HIDE DEF c
    <3>3. call' \in [Loggers -> Call] /\ call'[g] = c /\ \A f \in Loggers : f # g => call'[f] = call[f]
      BY <1>a, <3>1, <3>2
    <3>4. FlagInv'
      BY <2>1, <2>3, <3>2, <3>3 DEF ThrottleInv, FlagInv, Busy
    <3>5. CountInv'
      BY <2>1, <3>1, <3>2, OtherCall
    <3>6. ThrottleTypeOK'
      BY <1>a, <2>1, <2>3, <3>3 DEF ThrottleTypeOK, Summary
    <3> QED
      BY <2>1, <3>4, <3>5, <3>6 DEF ThrottleInv
  <2> QED
    BY <1>4, <2>2, <2>3 DEF Decide
<1>5. ASSUME NEW g \in Loggers, TakeCount(g) PROVE ThrottleInv'
  <2>h. PICK h \in Handlers, n \in 0 .. MaxRecords : h = call[g].h /\ n = uncounted[h]
    BY <1>a, <1>b
  <2> DEFINE c == [call[g] EXCEPT !.at = "send", !.count = n]
  <2>1. /\ call[g].at = "swap" /\ h \in Handlers /\ n \in 0 .. MaxRecords
        /\ call' = [call EXCEPT ![g] = c] /\ uncounted' = [uncounted EXCEPT ![h] = 0]
        /\ UNCHANGED <<clock, tokens, records, lastSummary, inFlight, refused, summaries>>
    BY <1>5, <2>h DEF TakeCount, At
  <2>2. c \in Call /\ c.at = "send" /\ c.count = n /\ c.h = h /\ c.now = call[g].now
    BY <1>b, <2>h, <2>1 DEF Call
  <2> HIDE DEF c
  <2>3. call' \in [Loggers -> Call] /\ call'[g] = c /\ \A f \in Loggers : f # g => call'[f] = call[f]
    BY <1>a, <2>1, <2>2
  <2>4. \A f \in Loggers : Busy(f) /\ call[f].h = h => f = g
    BY <2>h, <2>1 DEF ThrottleInv, FlagInv, Busy
  <2>5. Counted(h, 0)
    <3>1. \A f \in Loggers : ~(At(f, "send") /\ call[f].h = h)
      BY <2>1, <2>4 DEF Busy, At
    <3> QED
      BY <2>1, <3>1 DEF ThrottleInv, CountInv
  <2>6. FlagInv'
    BY <2>h, <2>1, <2>2, <2>3 DEF ThrottleInv, FlagInv, Busy
  <2>7. /\ uncounted' \in [Handlers -> 0 .. MaxRecords] /\ uncounted'[h] = 0
        /\ \A k \in Handlers : k # h => uncounted'[k] = uncounted[k]
    BY <1>a, <2>1
  <2>8. ThrottleTypeOK'
    BY <1>a, <2>1, <2>3, <2>7 DEF ThrottleTypeOK, Summary
  <2>9. \A k \in Handlers : uncounted'[k] <= records'
    BY <1>a, <2>1, <2>7 DEF ThrottleInv
  <2>10. Counted(h, n)'
    <3>1. summaries[h] \in Seq(Summary)
      BY <1>a, <2>1
    <3>2. Total(summaries[h]) \in Nat
      BY <3>1, TotalSums, LenProperties
    <3> QED
      BY <1>a, <2>h, <2>1, <2>5, <2>7, <3>2 DEF Counted
  <2>11. CountInv'
    <3>1. ASSUME NEW k \in Handlers, k # h
          PROVE  /\ (\A f \in Loggers : ~(At(f, "send") /\ call[f].h = k)') => Counted(k, 0)'
                 /\ \A f \in Loggers : (At(f, "send") /\ call[f].h = k)' => Counted(k, call[f].count)'
      <4>1. \A f \in Loggers : (At(f, "send") /\ call[f].h = k)' <=> At(f, "send") /\ call[f].h = k
        BY <2>h, <2>1, <2>2, <2>3, <3>1 DEF At
      <4>2. \A f \in Loggers : At(f, "send") => f # g
        BY <2>1 DEF At
      <4> QED
        BY <2>1, <2>3, <2>7, <3>1, <4>1, <4>2 DEF ThrottleInv, CountInv, Counted
    <3>2. ASSUME NEW f \in Loggers, (At(f, "send") /\ call[f].h = h)'
          PROVE  f = g
      BY <2>3, <2>4, <3>2 DEF At, Busy
    <3>3. (At(g, "send") /\ call[g].h = h)' /\ call'[g].count = n
      BY <2>2, <2>3 DEF At
    <3> QED
      BY <2>10, <3>1, <3>2, <3>3 DEF CountInv
  <2> QED
    BY <2>1, <2>6, <2>8, <2>9, <2>11 DEF ThrottleInv
<1>6. ASSUME NEW g \in Loggers, SendSummary(g) PROVE ThrottleInv'
  <2>h. PICK h \in Handlers : h = call[g].h
    BY <1>b
  <2> DEFINE x == [now |-> call[g].now, count |-> call[g].count]
             c == [call[g] EXCEPT !.at = "stamp", !.count = 0]
  <2>1. /\ call[g].at = "send" /\ h \in Handlers
        /\ call' = [call EXCEPT ![g] = c] /\ summaries' = [summaries EXCEPT ![h] = Append(@, x)]
        /\ UNCHANGED <<clock, tokens, records, uncounted, lastSummary, inFlight, refused>>
    BY <1>6, <2>h DEF SendSummary, At
  <2>2. call[g].now \in 1 .. MaxClock /\ 0 \in 0 .. MaxRecords
    BY <1>a, <2>1 DEF ThrottleInv, FlagInv, Busy
  <2>3. c \in Call /\ c.at = "stamp" /\ c.h = h /\ c.now = call[g].now
    BY <1>b, <2>h, <2>2 DEF Call
  <2>4. x \in Summary /\ x.count = call[g].count
    BY <1>b, <2>2 DEF Summary
  <2> HIDE DEF c, x
  <2>5. call' \in [Loggers -> Call] /\ call'[g] = c /\ \A f \in Loggers : f # g => call'[f] = call[f]
    BY <1>a, <2>1, <2>3
  <2>6. \A f \in Loggers : Busy(f) /\ call[f].h = h => f = g
    BY <2>h, <2>1 DEF ThrottleInv, FlagInv, Busy
  <2>7. FlagInv'
    BY <2>h, <2>1, <2>3, <2>5 DEF ThrottleInv, FlagInv, Busy
  <2>8. /\ Append(summaries[h], x) \in Seq(Summary) /\ summaries[h] \in Seq(Summary)
        /\ Total(Append(summaries[h], x)) = Total(summaries[h]) + call[g].count
        /\ Total(summaries[h]) \in Nat
    BY <1>a, <2>1, <2>4, TotalAppend, AppendProperties
  <2>9. /\ summaries' \in [Handlers -> Seq(Summary)]
        /\ summaries'[h] = Append(summaries[h], x)
        /\ \A k \in Handlers : k # h => summaries'[k] = summaries[k]
    BY <1>a, <2>1, <2>8
  <2>10. ThrottleTypeOK'
    <3>1. \A k \in Handlers : summaries'[k] \in Seq(Summary)
      BY <2>9
    <3> QED
      BY <1>a, <2>1, <2>5, <3>1 DEF ThrottleTypeOK, Summary
  <2>11. Counted(h, call[g].count)
    BY <2>h, <2>1 DEF ThrottleInv, CountInv, At
  <2>12. Counted(h, 0)'
    BY <1>a, <1>b, <2>1, <2>8, <2>9, <2>11 DEF Counted
  <2>13. CountInv'
    <3>1. ASSUME NEW k \in Handlers, k # h
          PROVE  /\ (\A f \in Loggers : ~(At(f, "send") /\ call[f].h = k)') => Counted(k, 0)'
                 /\ \A f \in Loggers : (At(f, "send") /\ call[f].h = k)' => Counted(k, call[f].count)'
      <4>1. \A f \in Loggers : (At(f, "send") /\ call[f].h = k)' <=> At(f, "send") /\ call[f].h = k
        BY <2>h, <2>1, <2>3, <2>5, <3>1 DEF At
      <4>2. \A f \in Loggers : (At(f, "send") /\ call[f].h = k) => f # g
        BY <2>h, <3>1
      <4> QED
        BY <2>1, <2>5, <2>9, <3>1, <4>1, <4>2 DEF ThrottleInv, CountInv, Counted
    <3>2. \A f \in Loggers : ~(At(f, "send") /\ call[f].h = h)'
      BY <2>3, <2>5, <2>6 DEF At, Busy
    <3> QED
      BY <2>12, <3>1, <3>2 DEF CountInv
  <2> QED
    BY <2>1, <2>7, <2>9, <2>10, <2>13 DEF ThrottleInv
<1>7. ASSUME NEW g \in Loggers, Stamp(g) PROVE ThrottleInv'
  <2> DEFINE h == call[g].h
             c == [call[g] EXCEPT !.at = "out"]
  <2>1. /\ call[g].at = "stamp" /\ h \in Handlers /\ call' = [call EXCEPT ![g] = c]
        /\ lastSummary' = [lastSummary EXCEPT ![h] = call[g].now]
        /\ inFlight' = [inFlight EXCEPT ![h] = FALSE]
        /\ UNCHANGED <<clock, tokens, records, uncounted, refused, summaries>>
    BY <1>7, <1>a, <1>b DEF Stamp, At, GoOn
  <2>2. c \in Call /\ c.at = "out"
    BY <1>b DEF Call
  <2> HIDE DEF c
  <2>3. call' \in [Loggers -> Call] /\ call'[g] = c /\ \A f \in Loggers : f # g => call'[f] = call[f]
    BY <1>a, <2>1, <2>2
  <2>4. \A f \in Loggers : Busy(f) /\ call[f].h = h => f = g
    BY <2>1 DEF ThrottleInv, FlagInv, Busy
  <2>5. /\ inFlight' \in [Handlers -> BOOLEAN] /\ lastSummary' \in [Handlers -> 0 .. MaxClock]
        /\ \A k \in Handlers : k # h => inFlight'[k] = inFlight[k]
    BY <1>a, <1>b, <2>1
  <2>6. CountInv'
    BY <2>1, <2>2, OtherCall
  <2>7. ThrottleTypeOK'
    BY <1>a, <2>1, <2>3, <2>5 DEF ThrottleTypeOK, Summary
  <2> HIDE DEF h
  <2>8. FlagInv'
    <3>1. ASSUME NEW f \in Loggers, Busy(f)' PROVE f # g /\ call'[f] = call[f] /\ Busy(f)
      BY <2>2, <2>3, <3>1 DEF Busy
    <3> QED
      BY <1>b, <2>4, <2>5, <3>1 DEF ThrottleInv, FlagInv
  <2> QED
    BY <2>1, <2>6, <2>7, <2>8 DEF ThrottleInv
<1> QED
  BY <1>1, <1>2, <1>3, <1>4, <1>5, <1>6, <1>7 DEF ThrottleNext

(* Each log record the throttle refuses is counted in one summary, or      *)
(* still to be counted, however many goroutines log through one handler.   *)
THEOREM DropsReported == ThrottleSpec => []DropsAccounted
<1>1. ThrottleInv => DropsAccounted
  <2> SUFFICES ASSUME ThrottleInv, NEW h \in Handlers
               PROVE  LET reporting == {g \in Loggers : At(g, "send") /\ call[g].h = h}
                      IN /\ \A f, g \in reporting : f = g
                         /\ refused[h] = uncounted[h] + Total(summaries[h])
                              + IF reporting = {} THEN 0 ELSE call[CHOOSE g \in reporting : TRUE].count
    BY DEF DropsAccounted
  <2> DEFINE R == {g \in Loggers : At(g, "send") /\ call[g].h = h}
  <2>1. \A f, g \in R : f = g
    BY DEF ThrottleInv, FlagInv, Busy, At
  <2>2. CASE R = {}
    BY <2>1, <2>2 DEF ThrottleInv, CountInv, Counted
  <2>3. CASE R # {}
    <3> DEFINE g == CHOOSE g \in R : TRUE
    <3>1. g \in R
      BY <2>3
    <3>2. Counted(h, call[g].count)
      BY <3>1 DEF ThrottleInv, CountInv
    <3> QED
      BY <2>1, <2>3, <3>2 DEF Counted
  <2> QED
    BY <2>2, <2>3
<1> QED
  BY <1>1, InitThrottleInv, StepThrottleInv, PTL DEF ThrottleSpec

-----------------------------------------------------------------------------
(* The parts as MCAgent composes them.                                     *)

AgentInv == TunnelInv /\ RunInv /\ PipelineInv /\ ThrottleInv

LEMMA InitAgentInv == Init => AgentInv
BY InitTunnel, InitRunInv, InitPipelineInv, InitThrottleInv DEF Init, AgentInv

(* What an area's step leaves alone stutters in the other parts. *)
LEMMA StepAgentInv == AgentInv /\ [Next]_vars => AgentInv'
<1> SUFFICES ASSUME AgentInv, [Next]_vars PROVE AgentInv'
  OBVIOUS
<1>1. [TunnelNext]_tunnelVars /\ [RunNext]_runVars /\ [PipelineNext]_pipelineVars
        /\ [ThrottleNext]_throttleVars
  BY DEF Next, vars
<1> QED
  BY <1>1, TunnelStep, StepRunInv, StepPipelineInv, StepThrottleInv DEF AgentInv

(* The agent's parts keep their types in one process, for any number of    *)
(* dials, directives, endpoints, loggers and faults.                       *)
THEOREM AgentTypeCorrect == Spec => []TypeOK
<1>1. RunInv => RunTypeOK
  BY DEF RunInv, JobInv, OutsideInv, FilesInv, FilesRunWhole, RunTypeOK, Artifacts
<1>2. AgentInv => TypeOK
  BY <1>1 DEF AgentInv, TypeOK, TunnelInv, PipelineInv, ThrottleInv
<1> QED
  BY <1>2, InitAgentInv, StepAgentInv, PTL DEF Spec

LEMMA AgentPartsRun ==
    Spec => TunnelSpec /\ RunSpec /\ PipelineSpec /\ ThrottleSpec
<1>1. Init => TunnelInit /\ RunInit /\ PipelineInit /\ ThrottleInit
  BY DEF Init
<1>2. [Next]_vars => /\ [TunnelNext]_tunnelVars /\ [RunNext]_runVars
                     /\ [PipelineNext]_pipelineVars /\ [ThrottleNext]_throttleVars
  BY DEF Next, vars
<1> QED
  BY <1>1, <1>2, PTL DEF Spec, TunnelSpec, RunSpec, PipelineSpec, ThrottleSpec

(* Every safety property of the agent's parts holds of the agent that is   *)
(* composed of them, and its tunnel implements the lossy channel.          *)
THEOREM AgentCorrect ==
    Spec => /\ [](OneEndPerAcceptance /\ FilesRunWhole)
            /\ [](BatchesPartitionFindings /\ EveryPortExamined /\ DropsAccounted)
            /\ TunnelIsLossyChannel
BY AgentPartsRun, AcceptedOnce, FilesAreWhole, BatchesAccounted, PortsExamined, DropsReported,
   TunnelRefines, PTL
=============================================================================
