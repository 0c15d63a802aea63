--------------------------- MODULE RimItemsProofs ---------------------------
(***************************************************************************)
(* The fifo, the lifo and the linked list of src/rimrtc.c for any number   *)
(* of nodes: the nodes and their pointers implement the sequence with a    *)
(* position that module Items promises the program.                        *)
(***************************************************************************)
EXTENDS RimFifo, RimList, SequencesExt, FiniteSetTheorems, TLAPS

-----------------------------------------------------------------------------
(* Chains. Memory holds the sequence c if its nodes are distinct and every *)
(* pointer is to the next one, or NULL at the end.                         *)

\* The pointer to the i-th node, if there is one.
To(c, i, Null) == IF i \in 1 .. Len(c) THEN c[i] ELSE Null

\* Its nodes.
Nodes(c) == {c[i] : i \in 1 .. Len(c)}

Distinct(c) == \A i, k \in 1 .. Len(c) : c[i] = c[k] => i = k

Linked(c, next, Null) == \A i \in 1 .. Len(c) : next[c[i]] = To(c, i + 1, Null)

\* A set of numbers up to n that is not empty has a least element: a walk that
\* goes astray has a first step that does.
LEMMA LeastPlace ==
  ASSUME NEW n \in Nat, NEW T \in SUBSET (0 .. n), T # {}
  PROVE  \E t \in T : \A m \in T : t <= m
<1> DEFINE F == {0 .. t : t \in T}
           R == StrictSubsetOrdering(0 .. n)
<1>1. IsFiniteSet(0 .. n)
  BY FS_Interval
<1>2. IsWellFoundedOn(R, SUBSET (0 .. n))
  BY <1>1, FS_StrictSubsetOrderingWellFounded, FS_FiniteSubsetsOfFinite
<1>3. F \subseteq SUBSET (0 .. n) /\ F # {}
  <2>1. \A t \in T : 0 .. t \subseteq 0 .. n
    OBVIOUS
  <2> QED
    BY <2>1
<1> HIDE DEF R
<1>4. PICK x \in F : \A y \in F : ~ (<<y, x>> \in R)
  BY <1>2, <1>3, WFMin
<1>5. PICK t \in T : x = 0 .. t
  BY <1>4
<1>6. ASSUME NEW m \in T, m < t PROVE FALSE
  <2>1. 0 .. m \in F /\ 0 .. m \in SUBSET (0 .. n) /\ x \in SUBSET (0 .. n)
    BY <1>3, <1>5
  <2>2. t \in 0 .. t /\ t \notin 0 .. m /\ 0 .. m \subseteq 0 .. t
    BY <1>6
  <2>3. <<0 .. m, x>> \in R
    BY <2>1, <2>2, <1>5 DEF R, StrictSubsetOrdering
  <2> QED
    BY <1>4, <2>1, <2>3
<1> QED
  BY <1>6

\* A chain has no more nodes than there are.
LEMMA ChainFits ==
  ASSUME NEW Node, IsFiniteSet(Node), NEW c \in Seq(Node), Distinct(c)
  PROVE  Cardinality(Node) \in Nat /\ Len(c) <= Cardinality(Node)
<1>1. c \in Injection(1 .. Len(c), Node)
  BY DEF Distinct, Injection, IsInjective
<1>2. Cardinality(1 .. Len(c)) <= Cardinality(Node)
  BY <1>1, FS_Injection
<1>3. Cardinality(1 .. Len(c)) = Len(c)
  <2>1. Cardinality(1 .. Len(c)) = IF 1 > Len(c) THEN 0 ELSE Len(c) - 1 + 1
    BY FS_Interval
  <2> QED
    BY <2>1
<1> QED
  BY <1>2, <1>3, FS_CardinalityType

\* Following the pointers of a chain to its j-th node, or to the end, meets the
\* nodes in front of it: what the loops that delete elements take out.
LEMMA WalkMeets ==
  ASSUME NEW Node, IsFiniteSet(Node), NEW Null, Null \notin Node,
         NEW c \in Seq(Node), Distinct(c), NEW next, Linked(c, next, Null),
         NEW j \in 1 .. Len(c) + 1
  PROVE  Walk(Node, next, To(c, 1, Null), {To(c, j, Null), Null}) = SubSeq(c, 1, j - 1)
<1> DEFINE K == Cardinality(Node)
           first == To(c, 1, Null)
           stop == To(c, j, Null)
           stops == {stop, Null}
           Behind == [p \in Node \cup stops |-> IF p \in stops THEN p ELSE next[p]]
           Def(f) == [i \in 1 .. K |-> IF i = 1 THEN first ELSE Behind[f[i - 1]]]
           F == CHOOSE f : f = Def(f)
           W == [i \in 1 .. K |-> IF i < j THEN c[i] ELSE stop]
<1>1. K \in Nat /\ Len(c) \in Nat /\ j \in 1 .. Len(c) + 1 /\ Len(c) <= K
  BY ChainFits
<1>2. CASE j = 1
  <2>1. first \in stops
    BY <1>2
  <2>2. Walk(Node, next, first, stops) = <<>>
    BY <2>1 DEF Walk
  <2>3. SubSeq(c, 1, j - 1) = <<>>
    BY <1>2
  <2> QED
    BY <2>2, <2>3
<1>3. CASE j # 1
  <2>1. \A i \in 1 .. Len(c) : c[i] \in Node /\ c[i] # Null
    OBVIOUS
  <2>2. \A i \in 1 .. j - 1 : i \in 1 .. Len(c) /\ To(c, i, Null) = c[i] /\ c[i] \notin stops
    BY <2>1 DEF To, Distinct
  <2>3. first = c[1] /\ first \notin stops /\ 1 \in 1 .. j - 1
    BY <1>3, <2>2
  <2>4. \A i \in 1 .. j - 1 : Behind[c[i]] = To(c, i + 1, Null)
    BY <2>1, <2>2 DEF Linked
  <2>5. Behind[stop] = stop
    OBVIOUS
  <2>6. Walk(Node, next, first, stops) = [i \in {k \in 1 .. K : F[k] \notin stops} |-> F[i]]
    BY <2>3 DEF Walk
  <2> HIDE DEF Behind, stops, K
  <2>7. W = Def(W)
    <3>1. ASSUME NEW i \in 1 .. K
          PROVE  W[i] = IF i = 1 THEN first ELSE Behind[W[i - 1]]
      <4>1. CASE i = 1
        BY <1>1, <1>3, <2>3, <4>1
      <4>2. CASE i # 1 /\ i - 1 < j
        <5>1. W[i - 1] = c[i - 1] /\ i - 1 \in 1 .. j - 1
          BY <1>1, <4>2
        <5>2. Behind[W[i - 1]] = To(c, i, Null)
          BY <2>4, <5>1
        <5>3. CASE i < j
          BY <1>1, <2>2, <4>2, <5>2, <5>3
        <5>4. CASE i = j
          BY <1>1, <4>2, <5>2, <5>4
        <5> QED
          BY <1>1, <4>2, <5>3, <5>4
      <4>3. CASE i # 1 /\ ~ (i - 1 < j)
        BY <1>1, <2>5, <4>3
      <4> QED
        BY <4>1, <4>2, <4>3
    <3> HIDE DEF first, stop
    <3>2. W = [i \in 1 .. K |-> W[i]]
      OBVIOUS
    <3> QED
      BY <3>1, <3>2
  <2> HIDE DEF Def, W
  <2>8. F = Def(F)
    BY <2>7
  <2> HIDE DEF F
  <2> DEFINE T == {k \in 1 .. K : F[k] # W[k]}
  <2>9. T = {}
    <3> SUFFICES ASSUME T # {} PROVE FALSE
      OBVIOUS
    <3>1. PICK t \in T : \A u \in T : t <= u
      BY <1>1, LeastPlace, T \in SUBSET (0 .. K)
    <3>2. F[t] = IF t = 1 THEN first ELSE Behind[F[t - 1]]
      BY <2>8 DEF Def
    <3>3. W[t] = IF t = 1 THEN first ELSE Behind[W[t - 1]]
      BY <2>7 DEF Def
    <3>4. t # 1 => t - 1 \in 1 .. K /\ t - 1 \notin T
      BY <1>1, <3>1
    <3> QED
      BY <3>1, <3>2, <3>3, <3>4
  <2> HIDE DEF T
  <2>10. \A k \in 1 .. K : F[k] = W[k]
    BY <2>9 DEF T
  <2>11. \A i \in 1 .. K : W[i] = IF i < j THEN c[i] ELSE stop
    BY DEF W
  <2> HIDE DEF stop
  <2>12. {k \in 1 .. K : F[k] \notin stops} = 1 .. j - 1
    <3>1. ASSUME NEW k \in 1 .. K PROVE F[k] \notin stops <=> k < j
      <4>1. F[k] = IF k < j THEN c[k] ELSE stop
        BY <2>10, <2>11
      <4>2. CASE k < j
        BY <1>1, <2>2, <4>1, <4>2
      <4>3. CASE ~ (k < j)
        BY <4>1, <4>3 DEF stops
      <4> QED
        BY <4>2, <4>3
    <3> QED
      BY <1>1, <3>1
  <2>13. \A i \in 1 .. j - 1 : F[i] = c[i]
    BY <1>1, <2>10, <2>11
  <2>14. SubSeq(c, 1, j - 1) = [i \in 1 .. j - 1 |-> c[i]]
    OBVIOUS
  <2>15. Walk(Node, next, first, stops) = [i \in 1 .. j - 1 |-> F[i]]
    BY <2>6, <2>12
  <2>16. [i \in 1 .. j - 1 |-> F[i]] = [i \in 1 .. j - 1 |-> c[i]]
    BY <2>13
  <2> QED
    BY <2>14, <2>15, <2>16 DEF stop, stops
<1> QED
  BY <1>2, <1>3

\* A pointer to the n-th node of a chain tells the position n, and NULL tells 0.
LEMMA PlaceIs ==
  ASSUME NEW Node, NEW Null, Null \notin Node, NEW c \in Seq(Node), Distinct(c),
         NEW n \in 0 .. Len(c)
  PROVE  /\ To(c, n, Null) = Null <=> n = 0
         /\ n # 0 => \A i \in DOMAIN c : c[i] = To(c, n, Null) <=> i = n
<1>1. \A i \in 1 .. Len(c) : c[i] \in Node /\ c[i] # Null
  OBVIOUS
<1>2. DOMAIN c = 1 .. Len(c)
  OBVIOUS
<1> QED
  BY <1>1, <1>2 DEF To, Distinct

\* The nodes of a chain are as many as it is long: what num_of counts.
LEMMA ChainCount ==
  ASSUME NEW Node, NEW c \in Seq(Node), Distinct(c)
  PROVE  Cardinality(Nodes(c)) = Len(c)
<1> DEFINE S == {c[i] : i \in 1 .. Len(c)}
<1>1. c \in Bijection(1 .. Len(c), S)
  <2>1. c \in [1 .. Len(c) -> S]
    OBVIOUS
  <2>2. \A t \in S : \E i \in 1 .. Len(c) : c[i] = t
    OBVIOUS
  <2> QED
    BY <2>1, <2>2 DEF Distinct, Bijection, Injection, Surjection, IsInjective
<1>2. IsFiniteSet(1 .. Len(c)) /\ Cardinality(1 .. Len(c)) = Len(c)
  <2>1. Cardinality(1 .. Len(c)) = IF 1 > Len(c) THEN 0 ELSE Len(c) - 1 + 1
    BY FS_Interval
  <2>2. IsFiniteSet(1 .. Len(c))
    BY FS_Interval
  <2> QED
    BY <2>1, <2>2
<1>3. ExistsBijection(1 .. Len(c), S)
  BY <1>1 DEF ExistsBijection
<1> HIDE DEF S
<1>4. Cardinality(S) = Cardinality(1 .. Len(c))
  BY <1>2, <1>3, FS_Bijection
<1> QED
  BY <1>2, <1>4 DEF S, Nodes

-----------------------------------------------------------------------------
(* Fifo and lifo: memory holds the sequence c, and n is the number of the  *)
(* element to retrieve, 0 if there is none. Elements not read can only be  *)
(* at its end, and then there is none to retrieve.                         *)

FifoHolds(c, n) ==
  /\ c \in Seq(FifoNode) /\ Distinct(c) /\ n \in 0 .. Len(c)
  /\ fNext \in [FifoNode -> FifoNode \cup {FifoNull}] /\ Linked(c, fNext, FifoNull)
  /\ fFirst = To(c, 1, FifoNull) /\ fLast = To(c, Len(c), FifoNull)
  /\ fRetrieve = To(c, n, FifoNull)
  /\ fUsed = Nodes(c) /\ fNumOf = Len(c)
  /\ fKind \in {"fifo", "lifo"}

UnreadFits(c, n) == fUnread \in 0 .. Len(c) /\ (n # 0 => fUnread = 0)

\* How many elements the program has read since it rewound.
WereRead(c, n) == IF n = 0 THEN Len(c) - fUnread ELSE n - 1

FifoReads ==
  \A c, n : FifoHolds(c, n) =>
    /\ FifoChain = c /\ FifoAt = WereRead(c, n)
    /\ Leading(fRetrieve) = SubSeq(c, 1, IF n = 0 THEN Len(c) ELSE n - 1)

\* What memory holds is what the pointers are followed to.
LEMMA FifoIsRead == FifoReads
<1> SUFFICES ASSUME NEW c, NEW n, FifoHolds(c, n)
             PROVE  /\ FifoChain = c /\ FifoAt = WereRead(c, n)
                    /\ Leading(fRetrieve) = SubSeq(c, 1, IF n = 0 THEN Len(c) ELSE n - 1)
  BY DEF FifoReads
<1> DEFINE m == IF n = 0 THEN Len(c) + 1 ELSE n
<1>1. c \in Seq(FifoNode) /\ Len(c) \in Nat /\ Distinct(c) /\ n \in 0 .. Len(c)
  BY DEF FifoHolds
<1>2. Linked(c, fNext, FifoNull) /\ fFirst = To(c, 1, FifoNull) /\ fRetrieve = To(c, n, FifoNull)
  BY DEF FifoHolds
<1>3. FifoNull \notin FifoNode /\ IsFiniteSet(FifoNode)
  BY FifoAssumption
<1>4. To(c, Len(c) + 1, FifoNull) = FifoNull
  BY <1>1 DEF To
<1>5. FifoChain = c
  <2>1. {To(c, Len(c) + 1, FifoNull), FifoNull} = {FifoNull, FifoNull}
    BY <1>4
  <2>2. Walk(FifoNode, fNext, fFirst, {FifoNull, FifoNull}) = SubSeq(c, 1, Len(c) + 1 - 1)
    BY <1>1, <1>2, <1>3, <2>1, Len(c) + 1 \in 1 .. Len(c) + 1, WalkMeets
  <2>3. SubSeq(c, 1, Len(c) + 1 - 1) = c
    BY <1>1
  <2> QED
    BY <2>2, <2>3 DEF FifoChain, Leading
<1>6. Leading(fRetrieve) = SubSeq(c, 1, IF n = 0 THEN Len(c) ELSE n - 1)
  <2>1. m \in 1 .. Len(c) + 1 /\ m - 1 = IF n = 0 THEN Len(c) ELSE n - 1
    BY <1>1
  <2>2. fRetrieve = To(c, m, FifoNull)
    BY <1>1, <1>2, <1>4 DEF To
  <2> HIDE DEF m
  <2>3. Walk(FifoNode, fNext, fFirst, {fRetrieve, FifoNull}) = SubSeq(c, 1, m - 1)
    BY <1>1, <1>2, <1>3, <2>1, <2>2, WalkMeets
  <2> QED
    BY <2>1, <2>3 DEF Leading
<1>7. FifoAt = WereRead(c, n)
  <2>1. fRetrieve = FifoNull <=> n = 0
    BY <1>1, <1>2, <1>3, PlaceIs
  <2>2. CASE n = 0
    BY <1>5, <2>1, <2>2 DEF FifoAt, WereRead
  <2>3. CASE n # 0
    <3>1. \A i \in DOMAIN c : c[i] = fRetrieve <=> i = n
      BY <1>1, <1>2, <1>3, <2>3, PlaceIs
    <3>2. n \in DOMAIN c
      BY <1>1, <2>3
    <3> QED
      BY <1>5, <2>1, <2>3, <3>1, <3>2 DEF FifoAt, WereRead
  <2> QED
    BY <2>2, <2>3
<1> QED
  BY <1>5, <1>6, <1>7

\* The same after a step.
LEMMA FifoIsReadNext == FifoReads'
BY FifoIsRead, PTL

\* A new chain that adds a node at the end: write-fifo.
LEMMA ChainAppended ==
  ASSUME NEW Node, NEW Null, Null \notin Node, NEW c \in Seq(Node), Distinct(c),
         NEW next \in [Node -> Node \cup {Null}], Linked(c, next, Null),
         NEW np \in Node, np \notin Nodes(c),
         NEW after \in [Node -> Node \cup {Null}], after[np] = Null,
         \A p \in Node \ {np} : after[p] = IF c # <<>> /\ p = c[Len(c)] THEN np ELSE next[p]
  PROVE  /\ Append(c, np) \in Seq(Node) /\ Distinct(Append(c, np))
         /\ Linked(Append(c, np), after, Null)
         /\ Nodes(Append(c, np)) = Nodes(c) \cup {np}
<1> USE DEF Nodes
<1> DEFINE d == Append(c, np)
<1>1. d \in Seq(Node) /\ Len(c) \in Nat /\ Len(d) = Len(c) + 1 /\ d[Len(c) + 1] = np
  OBVIOUS
<1>2. \A i \in 1 .. Len(c) : d[i] = c[i] /\ c[i] \in Node /\ c[i] # np
  OBVIOUS
<1> HIDE DEF d
<1>3. Distinct(d)
  BY <1>1, <1>2 DEF Distinct
<1>4. ASSUME NEW i \in 1 .. Len(d) PROVE after[d[i]] = To(d, i + 1, Null)
  <2>1. CASE i = Len(d)
    BY <1>1, <2>1 DEF To
  <2>2. CASE i < Len(c)
    <3>1. i \in 1 .. Len(c) /\ i + 1 \in 1 .. Len(c) /\ i + 1 \in 1 .. Len(d)
      BY <1>1, <2>2
    <3>2. c[i] # c[Len(c)]
      BY <1>1, <2>2, <3>1 DEF Distinct
    <3>3. after[d[i]] = next[c[i]]
      BY <1>2, <3>1, <3>2
    <3> QED
      BY <1>2, <3>1, <3>3 DEF To, Linked
  <2>3. CASE i = Len(c)
    <3>1. i \in 1 .. Len(c) /\ c # <<>> /\ i + 1 \in 1 .. Len(d)
      BY <1>1, <2>3
    <3>2. after[d[i]] = np
      BY <1>2, <2>3, <3>1
    <3> QED
      BY <1>1, <2>3, <3>1, <3>2 DEF To
  <2> QED
    BY <1>1, <2>1, <2>2, <2>3
<1>5. Nodes(d) = Nodes(c) \cup {np}
  <2>1. 1 .. Len(d) = 1 .. Len(c) \cup {Len(c) + 1}
    BY <1>1
  <2> QED
    BY <1>1, <1>2, <2>1
<1> QED
  BY <1>1, <1>3, <1>4, <1>5 DEF d, Linked

\* A new chain that adds a node in front: write-lifo.
LEMMA ChainPushed ==
  ASSUME NEW Node, NEW Null, Null \notin Node, NEW c \in Seq(Node), Distinct(c),
         NEW next, Linked(c, next, Null),
         NEW np \in Node, np \notin Nodes(c),
         NEW after, after[np] = To(c, 1, Null), \A p \in Node \ {np} : after[p] = next[p]
  PROVE  /\ <<np>> \o c \in Seq(Node) /\ Distinct(<<np>> \o c)
         /\ Linked(<<np>> \o c, after, Null)
         /\ Nodes(<<np>> \o c) = Nodes(c) \cup {np}
<1> USE DEF Nodes
<1> DEFINE d == <<np>> \o c
<1>1. d \in Seq(Node) /\ Len(c) \in Nat /\ Len(d) = Len(c) + 1 /\ d[1] = np
  OBVIOUS
<1>2. \A i \in 1 .. Len(c) : d[i + 1] = c[i] /\ c[i] \in Node /\ c[i] # np
  OBVIOUS
<1> HIDE DEF d
<1>3. \A i \in 1 .. Len(d) : i = 1 \/ (i - 1 \in 1 .. Len(c) /\ d[i] = c[i - 1])
  BY <1>1, <1>2
<1>4. Distinct(d)
  <2>1. ASSUME NEW i \in 1 .. Len(d), NEW k \in 1 .. Len(d), d[i] = d[k] PROVE i = k
    <3>1. \A l \in 1 .. Len(d) : l # 1 => l - 1 \in 1 .. Len(c) /\ d[l] = c[l - 1] /\ d[l] # np
      BY <1>2, <1>3
    <3>2. CASE i = 1 \/ k = 1
      BY <1>1, <2>1, <3>1, <3>2
    <3>3. CASE i # 1 /\ k # 1
      <4>1. c[i - 1] = c[k - 1] /\ i - 1 \in 1 .. Len(c) /\ k - 1 \in 1 .. Len(c)
        BY <2>1, <3>1, <3>3
      <4>2. i - 1 = k - 1
        BY <4>1 DEF Distinct
      <4> QED
        BY <4>2
    <3> QED
      BY <3>2, <3>3
  <2> QED
    BY <2>1 DEF Distinct
<1>5. ASSUME NEW i \in 1 .. Len(d) PROVE after[d[i]] = To(d, i + 1, Null)
  <2>1. To(d, i + 1, Null) = To(c, i, Null)
    BY <1>1, <1>2, i \in Nat DEF To
  <2>2. CASE i = 1
    BY <1>1, <2>1, <2>2
  <2>3. CASE i # 1
    <3>1. i - 1 \in 1 .. Len(c) /\ d[i] = c[i - 1]
      BY <1>3, <2>3
    <3>2. next[c[i - 1]] = To(c, i - 1 + 1, Null)
      BY <3>1 DEF Linked
    <3> QED
      BY <1>2, <2>1, <3>1, <3>2
  <2> QED
    BY <2>2, <2>3
<1>6. Nodes(d) = Nodes(c) \cup {np}
  <2>1. \A x \in Nodes(c) \cup {np} : \E i \in 1 .. Len(d) : d[i] = x
    <3>1. \A i \in 1 .. Len(c) : i + 1 \in 1 .. Len(d)
      BY <1>1
    <3> QED
      BY <1>1, <1>2, <3>1
  <2>2. \A i \in 1 .. Len(d) : d[i] \in Nodes(c) \cup {np}
    BY <1>1, <1>3
  <2>3. \A x \in Nodes(d) : \E i \in 1 .. Len(d) : d[i] = x
    OBVIOUS
  <2>4. \A i \in 1 .. Len(d) : d[i] \in Nodes(d)
    OBVIOUS
  <2> HIDE DEF Nodes
  <2>5. Nodes(d) \subseteq Nodes(c) \cup {np}
    BY <2>2, <2>3
  <2>6. Nodes(c) \cup {np} \subseteq Nodes(d)
    BY <2>1, <2>4
  <2> QED
    BY <2>5, <2>6
<1> QED
  BY <1>1, <1>4, <1>5, <1>6 DEF d, Linked

\* What is left of a chain behind its m-th node is a chain: delete-fifo.
LEMMA ChainDropped ==
  ASSUME NEW Node, NEW Null, Null \notin Node, NEW c \in Seq(Node), Distinct(c),
         NEW next, Linked(c, next, Null), NEW m \in 0 .. Len(c),
         NEW after, \A p \in Node \ Nodes(SubSeq(c, 1, m)) : after[p] = next[p]
  PROVE  LET d == SubSeq(c, m + 1, Len(c)) IN
         /\ d \in Seq(Node) /\ Len(d) = Len(c) - m /\ Distinct(d) /\ Linked(d, after, Null)
         /\ \A i \in 1 .. Len(d) : d[i] = c[i + m]
         /\ Nodes(d) = Nodes(c) \ Nodes(SubSeq(c, 1, m))
<1> DEFINE d == SubSeq(c, m + 1, Len(c))
           gone == Nodes(SubSeq(c, 1, m))
<1>1. d \in Seq(Node) /\ Len(c) \in Nat /\ m \in Nat /\ Len(d) = Len(c) - m
  OBVIOUS
<1>2. \A i \in 1 .. Len(d) : d[i] = c[i + m] /\ i + m \in 1 .. Len(c)
  BY <1>1
<1> HIDE DEF d
<1>3. gone = {c[i] : i \in 1 .. m}
  <2>1. SubSeq(c, 1, m) = [i \in 1 .. m |-> c[i]] /\ Len(SubSeq(c, 1, m)) = m
    BY <1>1
  <2> QED
    BY <2>1 DEF Nodes
<1> HIDE DEF gone
<1>4. \A p \in Node \ gone : after[p] = next[p]
  BY DEF gone
<1>5. Distinct(d)
  <2>1. ASSUME NEW i \in 1 .. Len(d), NEW k \in 1 .. Len(d), d[i] = d[k] PROVE i = k
    <3>1. c[i + m] = c[k + m]
      BY <1>2, <2>1
    <3>2. i + m = k + m
      BY <1>2, <3>1 DEF Distinct
    <3> QED
      BY <1>1, <3>2
  <2> QED
    BY <2>1 DEF Distinct
<1>6. ASSUME NEW i \in 1 .. Len(d) PROVE after[d[i]] = To(d, i + 1, Null)
  <2>1. i + m \in 1 .. Len(c) /\ i \in Nat /\ d[i] = c[i + m] /\ c[i + m] \in Node
    BY <1>2
  <2>2. d[i] \notin gone
    BY <1>1, <1>3, <2>1 DEF Distinct
  <2>3. after[d[i]] = To(c, i + m + 1, Null)
    BY <1>4, <2>1, <2>2 DEF Linked
  <2>4. To(d, i + 1, Null) = To(c, i + m + 1, Null)
    <3>1. CASE i = Len(d)
      BY <1>1, <3>1 DEF To
    <3>2. CASE i # Len(d)
      <4>1. i + 1 \in 1 .. Len(d) /\ i + 1 + m = i + m + 1
        BY <1>1, <2>1, <3>2
      <4>2. d[i + 1] = c[i + 1 + m] /\ i + 1 + m \in 1 .. Len(c)
        BY <1>2, <4>1
      <4> QED
        BY <4>1, <4>2 DEF To
    <3> QED
      BY <3>1, <3>2
  <2> QED
    BY <2>1, <2>3, <2>4
<1>7. Nodes(d) = Nodes(c) \ gone
  <2>1. ASSUME NEW i \in 1 .. Len(d) PROVE d[i] \in Nodes(c) \ gone
    BY <1>1, <1>2, <1>3 DEF Distinct, Nodes
  <2>2. ASSUME NEW k \in 1 .. Len(c), c[k] \notin gone PROVE c[k] \in Nodes(d)
    <3>1. k > m /\ k - m \in 1 .. Len(d)
      BY <1>1, <1>3, <2>2
    <3>2. d[k - m] = c[k]
      BY <1>1, <1>2, <3>1
    <3> QED
      BY <3>1, <3>2 DEF Nodes
  <2> QED
    BY <2>1, <2>2 DEF Nodes
<1> QED
  BY <1>1, <1>2, <1>5, <1>6, <1>7 DEF d, gone, Linked

-----------------------------------------------------------------------------
(* What each statement does to the sequence a fifo or a lifo holds.        *)

\* write-fifo
LEMMA WriteFifoHolds ==
  ASSUME NEW c, NEW n, FifoHolds(c, n), NEW np \in FifoNode, WriteFifo(np)
  PROVE  FifoHolds(Append(c, np), IF c = <<>> THEN 1 ELSE n)'
<1> USE FifoAssumption
<1> DEFINE d == Append(c, np)
<1>1. c \in Seq(FifoNode) /\ Len(c) \in Nat /\ Distinct(c) /\ n \in 0 .. Len(c)
  BY DEF FifoHolds
<1>2. d \in Seq(FifoNode) /\ Len(d) = Len(c) + 1 /\ d[Len(c) + 1] = np
  BY <1>1
<1>3. \A k \in 1 .. Len(c) : d[k] = c[k]
  BY <1>1
<1>4. fNumOf = 0 <=> c = <<>>
  BY <1>1 DEF FifoHolds
<1>5. c # <<>> => fLast = c[Len(c)] /\ fLast \in FifoNode /\ fLast # np
  <2>1. c # <<>> => Len(c) \in 1 .. Len(c)
    BY <1>1
  <2> QED
    BY <1>1, <2>1 DEF FifoHolds, To, WriteFifo
<1>6. fNext' \in [FifoNode -> FifoNode \cup {FifoNull}]
  BY <1>4, <1>5 DEF FifoHolds, WriteFifo
<1>7. fNext'[np] = FifoNull
  BY <1>4, <1>5 DEF FifoHolds, WriteFifo
<1>8. \A p \in FifoNode \ {np} : fNext'[p] = IF c # <<>> /\ p = c[Len(c)] THEN np ELSE fNext[p]
  BY <1>4, <1>5 DEF FifoHolds, WriteFifo
<1>9. np \notin Nodes(c) /\ Linked(c, fNext, FifoNull)
      /\ fNext \in [FifoNode -> FifoNode \cup {FifoNull}]
  BY DEF FifoHolds, WriteFifo
<1>10. /\ Distinct(d) /\ Linked(d, fNext', FifoNull)
       /\ Nodes(d) = Nodes(c) \cup {np}
  BY <1>1, <1>6, <1>7, <1>8, <1>9, ChainAppended
<1> HIDE DEF d
<1>11. fFirst' = To(d, 1, FifoNull) /\ fLast' = To(d, Len(d), FifoNull)
  <2>1. CASE c = <<>>
    BY <1>2, <1>4, <2>1 DEF To, WriteFifo
  <2>2. CASE c # <<>>
    <3>1. Len(c) >= 1
      BY <1>1, <2>2
    <3>2. To(d, 1, FifoNull) = To(c, 1, FifoNull)
      BY <1>1, <1>2, <1>3, <3>1 DEF To
    <3>3. fFirst' = fFirst /\ fLast' = np
      BY <1>4, <2>2 DEF WriteFifo
    <3> QED
      BY <1>1, <1>2, <3>2, <3>3 DEF To, FifoHolds
  <2> QED
    BY <2>1, <2>2
<1> DEFINE m == IF c = <<>> THEN 1 ELSE n
<1>12. m \in 0 .. Len(d) /\ fRetrieve' = To(d, m, FifoNull)
  <2>1. CASE c = <<>>
    BY <1>2, <1>4, <2>1 DEF To, WriteFifo
  <2>2. CASE c # <<>>
    <3>1. To(d, n, FifoNull) = To(c, n, FifoNull)
      BY <1>1, <1>2, <1>3 DEF To
    <3>2. fRetrieve' = fRetrieve
      BY <1>4, <2>2 DEF WriteFifo
    <3> QED
      BY <1>1, <1>2, <2>2, <3>1, <3>2 DEF FifoHolds
  <2> QED
    BY <2>1, <2>2
<1>13. fUsed' = fUsed \cup {np} /\ fNumOf' = fNumOf + 1 /\ fKind' = fKind
  BY DEF WriteFifo
<1>14. fUsed = Nodes(c) /\ fNumOf = Len(c) /\ fKind \in {"fifo", "lifo"}
  BY DEF FifoHolds
<1>15. FifoHolds(d, m)'
  BY <1>2, <1>6, <1>10, <1>11, <1>12, <1>13, <1>14 DEF FifoHolds
<1> QED
  BY <1>15 DEF d

\* write-lifo
LEMMA WriteLifoHolds ==
  ASSUME NEW c, NEW n, FifoHolds(c, n), NEW np \in FifoNode, WriteLifo(np)
  PROVE  FifoHolds(<<np>> \o c, 1)'
<1> USE FifoAssumption
<1> DEFINE d == <<np>> \o c
<1>1. c \in Seq(FifoNode) /\ Len(c) \in Nat /\ Distinct(c)
  BY DEF FifoHolds
<1>2. d \in Seq(FifoNode) /\ Len(d) = Len(c) + 1 /\ d[1] = np
  BY <1>1
<1>3. \A k \in 1 .. Len(c) : d[k + 1] = c[k]
  BY <1>1
<1>4. fNumOf = 0 <=> c = <<>>
  BY <1>1 DEF FifoHolds
<1>5. fFirst = To(c, 1, FifoNull) /\ fFirst \in FifoNode \cup {FifoNull}
      /\ (c = <<>> => fFirst = FifoNull)
  BY <1>1 DEF FifoHolds, To
<1>6. fNext' = [fNext EXCEPT ![np] = fFirst]
  BY <1>4, <1>5 DEF WriteLifo
<1>7. fNext \in [FifoNode -> FifoNode \cup {FifoNull}] /\ Linked(c, fNext, FifoNull)
      /\ np \notin Nodes(c)
  BY DEF FifoHolds, WriteLifo
<1>8. fNext' \in [FifoNode -> FifoNode \cup {FifoNull}]
      /\ fNext'[np] = To(c, 1, FifoNull)
      /\ \A p \in FifoNode \ {np} : fNext'[p] = fNext[p]
  BY <1>5, <1>6, <1>7
<1>9. /\ Distinct(d) /\ Linked(d, fNext', FifoNull)
      /\ Nodes(d) = Nodes(c) \cup {np}
  BY <1>1, <1>7, <1>8, ChainPushed
<1> HIDE DEF d
<1>10. fFirst' = To(d, 1, FifoNull) /\ fRetrieve' = To(d, 1, FifoNull)
  BY <1>1, <1>2 DEF To, WriteLifo
<1>11. fLast' = To(d, Len(d), FifoNull)
  <2>1. CASE c = <<>>
    BY <1>2, <1>4, <2>1 DEF To, WriteLifo
  <2>2. CASE c # <<>>
    <3>1. Len(c) \in 1 .. Len(c) /\ Len(d) \in 1 .. Len(d)
      BY <1>1, <1>2, <2>2
    <3>2. fLast' = fLast /\ fLast = c[Len(c)]
      BY <1>4, <2>2, <3>1 DEF WriteLifo, FifoHolds, To
    <3> QED
      BY <1>2, <1>3, <3>1, <3>2 DEF To
  <2> QED
    BY <2>1, <2>2
<1>12. fUsed' = fUsed \cup {np} /\ fNumOf' = fNumOf + 1 /\ fKind' = fKind
  BY DEF WriteLifo
<1>13. fUsed = Nodes(c) /\ fNumOf = Len(c) /\ fKind \in {"fifo", "lifo"}
  BY DEF FifoHolds
<1>14. 1 \in 0 .. Len(d)
  BY <1>1, <1>2
<1>15. FifoHolds(d, 1)'
  BY <1>2, <1>8, <1>9, <1>10, <1>11, <1>12, <1>13, <1>14 DEF FifoHolds
<1> QED
  BY <1>15 DEF d

\* read-fifo, read-lifo, rewind-fifo and rewind-lifo only move the position.
LEMMA ReadFifoHolds ==
  ASSUME NEW c, NEW n, FifoHolds(c, n), ReadFifo
  PROVE  FifoHolds(c, IF n = 0 \/ n = Len(c) THEN 0 ELSE n + 1)'
<1> DEFINE m == IF n = 0 \/ n = Len(c) THEN 0 ELSE n + 1
<1>1. c \in Seq(FifoNode) /\ Len(c) \in Nat /\ Distinct(c) /\ n \in 0 .. Len(c)
  BY DEF FifoHolds
<1>2. fRetrieve = FifoNull <=> n = 0
  BY <1>1, FifoAssumption, PlaceIs DEF FifoHolds
<1>3. m \in 0 .. Len(c) /\ fRetrieve' = To(c, m, FifoNull)
  <2>1. CASE n = 0
    BY <1>1, <1>2, <2>1 DEF ReadFifo, FifoHolds
  <2>2. CASE n # 0
    <3>1. n \in 1 .. Len(c) /\ fRetrieve = c[n] /\ fRetrieve' = fNext[fRetrieve]
      BY <1>1, <1>2, <2>2 DEF ReadFifo, FifoHolds, To
    <3>2. fRetrieve' = To(c, n + 1, FifoNull)
      BY <3>1 DEF FifoHolds, Linked
    <3> QED
      BY <1>1, <2>2, <3>2 DEF To
  <2> QED
    BY <2>1, <2>2
<1> HIDE DEF m
<1>4. UNCHANGED <<fKind, fNext, fUsed, fFirst, fLast, fNumOf>>
  BY DEF ReadFifo, fEnds
<1>5. FifoHolds(c, m)'
  BY <1>3, <1>4 DEF FifoHolds
<1> QED
  BY <1>5 DEF m

\* rim_rewind() puts the read position back in front of the first element.
LEMMA RewindFifoHolds ==
  ASSUME NEW c, NEW n, FifoHolds(c, n), RewindFifo
  PROVE  FifoHolds(c, IF c = <<>> THEN 0 ELSE 1)'
<1> DEFINE m == IF c = <<>> THEN 0 ELSE 1
<1>1. c \in Seq(FifoNode) /\ Len(c) \in Nat
  BY DEF FifoHolds
<1>2. m \in 0 .. Len(c) /\ fRetrieve' = To(c, m, FifoNull)
  BY <1>1 DEF FifoHolds, RewindFifo, To
<1> HIDE DEF m
<1>3. UNCHANGED <<fKind, fNext, fUsed, fFirst, fLast, fNumOf>>
  BY DEF RewindFifo, fEnds
<1>4. FifoHolds(c, m)'
  BY <1>2, <1>3 DEF FifoHolds
<1> QED
  BY <1>4 DEF m

\* delete-fifo and delete-lifo: the loop takes out the elements that were read,
\* and num_of goes down by as many.
LEMMA DeleteFifoHolds ==
  ASSUME NEW c, NEW n, FifoHolds(c, n), DeleteFifo
  PROVE  FifoHolds(IF n = 0 THEN <<>> ELSE SubSeq(c, n, Len(c)), IF n = 0 THEN 0 ELSE 1)'
<1> DEFINE k == IF n = 0 THEN Len(c) ELSE n - 1
           d == SubSeq(c, k + 1, Len(c))
           m == IF n = 0 THEN 0 ELSE 1
           lead == Leading(fRetrieve)
           gone == {lead[i] : i \in DOMAIN lead}
<1>1. c \in Seq(FifoNode) /\ Len(c) \in Nat /\ Distinct(c) /\ n \in 0 .. Len(c)
  BY DEF FifoHolds
<1>2. k \in 0 .. Len(c) /\ (k = Len(c) <=> n = 0) /\ (n # 0 => k + 1 = n)
  BY <1>1
<1>3. d = IF n = 0 THEN <<>> ELSE SubSeq(c, n, Len(c))
  <2>1. CASE n = 0
    BY <1>1, <2>1
  <2>2. CASE n # 0
    <3>1. k + 1 = n
      BY <1>1, <2>2
    <3> QED
      BY <2>2, <3>1
  <2> QED
    BY <2>1, <2>2
<1>4. lead = SubSeq(c, 1, k)
  BY FifoIsRead DEF FifoReads
<1> HIDE DEF k, lead
<1>5. lead \in Seq(FifoNode) /\ Len(lead) = k /\ DOMAIN lead = 1 .. k
      /\ \A i \in 1 .. k : lead[i] = c[i]
  BY <1>1, <1>2, <1>4
<1>6. gone = {c[i] : i \in 1 .. k} /\ gone = Nodes(SubSeq(c, 1, k))
  BY <1>4, <1>5 DEF Nodes
<1>7. Cardinality(gone) = k
  <2>1. Distinct(lead)
    BY <1>1, <1>2, <1>5 DEF Distinct
  <2>2. gone = Nodes(lead)
    BY <1>5 DEF Nodes
  <2> HIDE DEF gone
  <2> QED
    BY <1>5, <2>1, <2>2, ChainCount
<1>8. DeleteUpTo(fRetrieve) /\ fKind' = fKind
  BY DEF DeleteFifo
<1>9. fFirst = To(c, 1, FifoNull) /\ fLast = To(c, Len(c), FifoNull)
      /\ fRetrieve = To(c, n, FifoNull) /\ fUsed = Nodes(c) /\ fNumOf = Len(c)
      /\ fNext \in [FifoNode -> FifoNode \cup {FifoNull}] /\ Linked(c, fNext, FifoNull)
      /\ fKind \in {"fifo", "lifo"}
  BY DEF FifoHolds
<1>10. FifoNull \notin FifoNode
  BY FifoAssumption
<1>11. fFirst = FifoNull <=> c = <<>>
  <2>1. \A i \in 1 .. Len(c) : c[i] \in FifoNode
    BY <1>1
  <2> QED
    BY <1>1, <1>9, <1>10, <2>1 DEF To
<1>12. CASE c = <<>>
  <2>1. n = 0 /\ k = 0 /\ d = <<>>
    BY <1>1, <1>2, <1>12
  <2>2. UNCHANGED <<fNext, fUsed, fFirst, fLast, fNumOf>> /\ fRetrieve' = fRetrieve
    BY <1>8, <1>11, <1>12 DEF DeleteUpTo, fEnds
  <2>3. FifoHolds(c, n)'
    BY <1>8, <2>2 DEF FifoHolds
  <2> QED
    BY <1>12, <2>1, <2>3
<1>13. CASE c # <<>>
  <2>1. /\ fFirst' = IF fLast \in gone THEN FifoNull ELSE fRetrieve
        /\ fLast' = IF fLast \in gone THEN FifoNull ELSE fLast
        /\ fRetrieve' = IF fLast \in gone THEN FifoNull ELSE fRetrieve
        /\ fUsed' = fUsed \ gone
        /\ fNext' = [p \in FifoNode |-> IF p \in gone THEN FifoNull ELSE fNext[p]]
        /\ fNumOf' = fNumOf - Cardinality(gone)
    BY <1>8, <1>11, <1>13 DEF DeleteUpTo, CountDeleted, lead
  <2> HIDE DEF gone
  <2>2. Len(c) \in 1 .. Len(c) /\ fLast = c[Len(c)]
    BY <1>1, <1>9, <1>13 DEF To
  <2>3. fLast \in gone <=> n = 0
    BY <1>1, <1>2, <1>6, <2>2 DEF Distinct
  <2>4. fNext' \in [FifoNode -> FifoNode \cup {FifoNull}]
        /\ \A p \in FifoNode \ gone : fNext'[p] = fNext[p]
    BY <1>9, <2>1
  <2>5. /\ d \in Seq(FifoNode) /\ Len(d) = Len(c) - k
        /\ Distinct(d) /\ Linked(d, fNext', FifoNull)
        /\ \A i \in 1 .. Len(d) : d[i] = c[i + k]
        /\ Nodes(d) = Nodes(c) \ gone
    <3>1. \A p \in FifoNode \ Nodes(SubSeq(c, 1, k)) : fNext'[p] = fNext[p]
      BY <1>6, <2>4
    <3>2. /\ d \in Seq(FifoNode) /\ Len(d) = Len(c) - k
          /\ Distinct(d) /\ Linked(d, fNext', FifoNull)
          /\ Nodes(d) = Nodes(c) \ Nodes(SubSeq(c, 1, k))
      BY <1>1, <1>2, <1>9, <1>10, <3>1, ChainDropped
    <3>3. \A i \in 1 .. Len(d) : d[i] = c[i + k]
      BY <1>1, <1>2, <1>9, <1>10, <3>1, ChainDropped
    <3> QED
      BY <1>6, <3>2, <3>3
  <2> HIDE DEF d
  <2>6. Nodes(d) = Nodes(c) \ gone /\ Len(d) = Len(c) - k
    BY <2>5
  <2>7. m \in 0 .. Len(d) /\ fFirst' = To(d, 1, FifoNull)
        /\ fLast' = To(d, Len(d), FifoNull) /\ fRetrieve' = To(d, m, FifoNull)
    <3>1. CASE n = 0
      <4>1. Len(d) = 0 /\ m = 0
        BY <1>1, <1>2, <2>6, <3>1
      <4> QED
        BY <2>1, <2>3, <3>1, <4>1 DEF To
    <3>2. CASE n # 0
      <4>1. Len(d) >= 1 /\ Len(d) \in Nat /\ m = 1 /\ k + 1 = n
        BY <1>1, <1>2, <2>6, <3>2
      <4>2. d[1] = c[n] /\ d[Len(d)] = c[Len(c)]
        <5>1. d[1] = c[1 + k]
          BY <2>5, <4>1
        <5>2. d[Len(d)] = c[Len(d) + k]
          BY <2>5, <4>1
        <5> QED
          BY <1>1, <1>2, <2>6, <4>1, <5>1, <5>2
      <4>3. To(c, n, FifoNull) = c[n]
        BY <1>1, <3>2 DEF To
      <4> QED
        BY <1>9, <2>1, <2>2, <2>3, <3>2, <4>1, <4>2, <4>3 DEF To
    <3> QED
      BY <3>1, <3>2
  <2>8. fUsed' = Nodes(d) /\ fNumOf' = Len(d)
    BY <1>7, <1>9, <2>1, <2>6
  <2> HIDE DEF m
  <2>9. FifoHolds(d, m)'
    BY <1>8, <1>9, <2>4, <2>5, <2>7, <2>8 DEF FifoHolds
  <2> QED
    BY <1>3, <2>9 DEF m
<1> QED
  BY <1>12, <1>13

\* new-fifo and new-lifo hold nothing, and so does what purge-fifo leaves.
LEMMA EmptyFifoHolds ==
  /\ FifoInit => FifoHolds(<<>>, 0)
  /\ \A c, n : FifoHolds(c, n) /\ PurgeFifo => FifoHolds(<<>>, 0)'
<1>1. /\ <<>> \in Seq(FifoNode) /\ Distinct(<<>>) /\ 0 \in 0 .. Len(<<>>)
      /\ \A next : Linked(<<>>, next, FifoNull)
      /\ \A i : To(<<>>, i, FifoNull) = FifoNull
      /\ Nodes(<<>>) = {} /\ Len(<<>>) = 0
  BY DEF Distinct, Linked, To, Nodes
<1>2. FifoInit => FifoHolds(<<>>, 0)
  BY <1>1 DEF FifoInit, FifoHolds
<1>3. ASSUME NEW c, NEW n, FifoHolds(c, n), PurgeFifo PROVE FifoHolds(<<>>, 0)'
  <2>1. Leading(FifoNull) = c
    BY <1>3, FifoIsRead DEF FifoReads, FifoChain
  <2>2. fUsed' = {} /\ fKind \in {"fifo", "lifo"}
    BY <1>3, <2>1 DEF PurgeFifo, FifoHolds, Nodes
  <2>3. fNext' = [p \in FifoNode |-> FifoNull] /\ fNumOf' = 0 /\ fKind' = fKind
        /\ fFirst' = FifoNull /\ fLast' = FifoNull /\ fRetrieve' = FifoNull
    BY <1>3 DEF PurgeFifo
  <2> QED
    BY <1>1, <2>2, <2>3 DEF FifoHolds
<1> QED
  BY <1>2, <1>3

-----------------------------------------------------------------------------
(* The refinement: every statement does to that sequence what module Items *)
(* promises.                                                               *)

FifoInv == \E c, n : FifoHolds(c, n) /\ UnreadFits(c, n)

FifoStep == FifoItems!Next \/ PassesUnread

\* A sequence that memory holds after a step is the one the pointers are then
\* followed to.
LEMMA FifoTurns ==
  ASSUME NEW c, NEW n, FifoHolds(c, n), NEW d, NEW m, FifoHolds(d, m)'
  PROVE  /\ FifoChain = c /\ c \in Seq(FifoNode) /\ n \in 0 .. Len(c)
         /\ FifoAt = IF n = 0 THEN Len(c) - fUnread ELSE n - 1
         /\ FifoChain' = d /\ d \in Seq(FifoNode) /\ m \in 0 .. Len(d)
         /\ FifoAt' = IF m = 0 THEN Len(d) - fUnread' ELSE m - 1
         /\ n # 0 => fRetrieve = c[n]
         /\ (fRetrieve = FifoNull) <=> n = 0
         /\ fKind \in {"fifo", "lifo"}
<1>1. FifoChain = c /\ FifoAt = WereRead(c, n)
  BY FifoIsRead DEF FifoReads
<1>2. FifoReads'
  BY FifoIsReadNext
<1>3. FifoChain' = d /\ FifoAt' = WereRead(d, m)'
  BY <1>2 DEF FifoReads
<1>4. c \in Seq(FifoNode) /\ n \in 0 .. Len(c) /\ Distinct(c) /\ fRetrieve = To(c, n, FifoNull)
      /\ fKind \in {"fifo", "lifo"} /\ FifoNull \notin FifoNode
      /\ d \in Seq(FifoNode) /\ m \in 0 .. Len(d)
  BY FifoAssumption DEF FifoHolds
<1>5. (fRetrieve = FifoNull) <=> n = 0
  BY <1>4, PlaceIs
<1>6. n # 0 => fRetrieve = c[n]
  BY <1>4 DEF To
<1> QED
  BY <1>1, <1>3, <1>4, <1>5, <1>6 DEF WereRead

\* write-fifo appends, write-lifo pushes. An element that is appended when all
\* have been read is not read, and the number of those read stays.
LEMMA WriteRefines ==
  ASSUME NEW c, NEW n, FifoHolds(c, n), UnreadFits(c, n),
         NEW np \in FifoNode, WriteFifo(np) \/ WriteLifo(np)
  PROVE  FifoInv' /\ FifoStep
<1>1. CASE WriteFifo(np)
  <2> DEFINE m == IF c = <<>> THEN 1 ELSE n
             d == Append(c, np)
  <2>1. FifoHolds(d, m)'
    BY <1>1, WriteFifoHolds
  <2>2. fKind = "fifo" /\ fKind' = fKind /\ fAnswer' = <<"write">>
    BY <1>1 DEF WriteFifo
  <2>3. c \in Seq(FifoNode) /\ Len(c) \in Nat /\ n \in 0 .. Len(c) /\ fNumOf = Len(c)
        /\ (c = <<>> <=> Len(c) = 0) /\ Len(d) = Len(c) + 1
    BY DEF FifoHolds
  <2> HIDE DEF m, d
  <2>4. /\ FifoChain = c /\ FifoAt = IF n = 0 THEN Len(c) - fUnread ELSE n - 1
        /\ FifoChain' = d /\ FifoAt' = IF m = 0 THEN Len(d) - fUnread' ELSE m - 1
        /\ (fRetrieve = FifoNull) <=> n = 0
    BY <2>1, FifoTurns
  <2>5. fUnread' = IF Len(c) # 0 /\ n = 0 THEN fUnread + 1 ELSE 0
    BY <1>1, <2>3, <2>4 DEF WriteFifo
  <2>6. fUnread \in 0 .. Len(c) /\ (n # 0 => fUnread = 0)
    BY DEF UnreadFits
  <2>7. m = IF Len(c) = 0 THEN 1 ELSE n
    BY <2>3 DEF m
  <2>8. FifoAt' = FifoAt /\ fUnread' \in 0 .. Len(d) /\ (m # 0 => fUnread' = 0)
    BY <2>3, <2>4, <2>5, <2>6, <2>7
  <2>9. FifoItems!Queue(np)
    BY <2>2, <2>4, <2>8 DEF FifoItems!Queue, FifoItems!Told, d
  <2> QED
    BY <2>1, <2>2, <2>8, <2>9 DEF FifoInv, UnreadFits, FifoStep, FifoItems!Next
<1>2. CASE WriteLifo(np)
  <2> DEFINE d == <<np>> \o c
  <2>1. FifoHolds(d, 1)'
    BY <1>2, WriteLifoHolds
  <2>2. fKind = "lifo" /\ fKind' = fKind /\ fAnswer' = <<"write">> /\ fUnread' = 0
    BY <1>2 DEF WriteLifo
  <2> HIDE DEF d
  <2>3. FifoChain = c /\ FifoChain' = d /\ FifoAt' = 0 /\ Len(d) \in Nat
    BY <2>1, FifoTurns
  <2>4. FifoItems!Push(np)
    BY <2>2, <2>3 DEF FifoItems!Push, FifoItems!Told, d
  <2>5. UnreadFits(d, 1)'
    BY <2>2, <2>3 DEF UnreadFits
  <2> QED
    BY <2>1, <2>2, <2>4, <2>5 DEF FifoInv, FifoStep, FifoItems!Next
<1> QED
  BY <1>1, <1>2

\* What is read is the element behind those read; with others behind retrieve_ptr
\* the program is told that there are no more.
LEMMA ReadRefines ==
  ASSUME NEW c, NEW n, FifoHolds(c, n), UnreadFits(c, n), ReadFifo
  PROVE  FifoInv' /\ FifoStep
<1> DEFINE m == IF n = 0 \/ n = Len(c) THEN 0 ELSE n + 1
<1>1. FifoHolds(c, m)'
  BY ReadFifoHolds
<1>2. m = IF n = 0 \/ n = Len(c) THEN 0 ELSE n + 1
  OBVIOUS
<1> HIDE DEF m
<1>3. /\ FifoChain = c /\ FifoChain' = c /\ c \in Seq(FifoNode) /\ n \in 0 .. Len(c)
      /\ FifoAt = IF n = 0 THEN Len(c) - fUnread ELSE n - 1
      /\ FifoAt' = IF m = 0 THEN Len(c) - fUnread' ELSE m - 1
      /\ n # 0 => fRetrieve = c[n]
      /\ (fRetrieve = FifoNull) <=> n = 0
      /\ fKind \in {"fifo", "lifo"}
  BY <1>1, FifoTurns
<1>4. fKind' = fKind /\ fUnread' = fUnread
  BY DEF ReadFifo
<1>5. fUnread \in 0 .. Len(c) /\ (n # 0 => fUnread = 0) /\ Len(c) \in Nat
  BY <1>3 DEF UnreadFits
<1>6. UnreadFits(c, m)'
  BY <1>2, <1>4, <1>5 DEF UnreadFits
<1>7. FifoStep
  <2>1. CASE n = 0
    <3>1. fAnswer' = <<"read", "ERR_EXIST">> /\ FifoAt' = FifoAt
      BY <1>2, <1>3, <1>4, <2>1 DEF ReadFifo
    <3>2. FifoItems!Nothing("read")
      BY <1>3, <3>1 DEF FifoItems!Nothing, FifoItems!Told, FifoItems!Stay
    <3>3. CASE fUnread = 0
      <4>1. FifoItems!ReadNothing
        BY <1>3, <1>5, <2>1, <3>2, <3>3 DEF FifoItems!ReadNothing
      <4> QED
        BY <1>3, <1>4, <4>1 DEF FifoStep, FifoItems!Next, FifoItems!FifoNext
    <3>4. CASE fUnread # 0
      BY <1>4, <3>2, <3>4 DEF FifoStep, PassesUnread
    <3> QED
      BY <3>3, <3>4
  <2>2. CASE n # 0
    <3>1. fAnswer' = <<"read", c[n]>>
      BY <1>3, <2>2 DEF ReadFifo
    <3>2. FifoAt = n - 1 /\ FifoAt + 1 = n /\ FifoAt # Len(c) /\ FifoAt' = FifoAt + 1
      BY <1>2, <1>3, <1>4, <1>5, <2>2
    <3>3. FifoItems!Read
      BY <1>3, <3>1, <3>2 DEF FifoItems!Read, FifoItems!Told
    <3> QED
      BY <1>3, <1>4, <3>3 DEF FifoStep, FifoItems!Next, FifoItems!FifoNext
  <2> QED
    BY <2>1, <2>2
<1> QED
  BY <1>1, <1>6, <1>7 DEF FifoInv

\* For the program rewind-fifo begins reading again.
LEMMA RewindRefines ==
  ASSUME NEW c, NEW n, FifoHolds(c, n), UnreadFits(c, n), RewindFifo
  PROVE  FifoInv' /\ FifoStep
<1> DEFINE m == IF c = <<>> THEN 0 ELSE 1
<1>1. FifoHolds(c, m)'
  BY RewindFifoHolds
<1>2. fKind' = fKind /\ fAnswer' = <<"rewind">> /\ fUnread' = 0
  BY DEF RewindFifo
<1>3. m = 1 \/ (m = 0 /\ Len(c) = 0)
  OBVIOUS
<1> HIDE DEF m
<1>4. /\ FifoChain = c /\ FifoChain' = c /\ c \in Seq(FifoNode)
      /\ FifoAt' = IF m = 0 THEN Len(c) - fUnread' ELSE m - 1
      /\ fKind \in {"fifo", "lifo"}
  BY <1>1, FifoTurns
<1>5. FifoAt' = 0 /\ UnreadFits(c, m)'
  BY <1>2, <1>3, <1>4 DEF UnreadFits
<1>6. FifoItems!Rewind
  BY <1>2, <1>4, <1>5 DEF FifoItems!Rewind, FifoItems!Told
<1> QED
  BY <1>1, <1>2, <1>4, <1>5, <1>6 DEF FifoInv, FifoStep, FifoItems!Next, FifoItems!FifoNext

\* delete drops what was read; if something behind it was not, that goes, too.
LEMMA DeleteRefines ==
  ASSUME NEW c, NEW n, FifoHolds(c, n), UnreadFits(c, n), DeleteFifo
  PROVE  FifoInv' /\ FifoStep
<1> DEFINE d == IF n = 0 THEN <<>> ELSE SubSeq(c, n, Len(c))
           m == IF n = 0 THEN 0 ELSE 1
<1>1. FifoHolds(d, m)'
  BY DeleteFifoHolds
<1>2. (n = 0 => d = <<>> /\ m = 0 /\ Len(d) = 0) /\ (n # 0 => d = SubSeq(c, n, Len(c)) /\ m = 1)
  OBVIOUS
<1> HIDE DEF d, m
<1>3. /\ FifoChain = c /\ FifoChain' = d /\ c \in Seq(FifoNode) /\ n \in 0 .. Len(c)
      /\ FifoAt = IF n = 0 THEN Len(c) - fUnread ELSE n - 1
      /\ FifoAt' = IF m = 0 THEN Len(d) - fUnread' ELSE m - 1
      /\ fKind \in {"fifo", "lifo"} /\ d \in Seq(FifoNode)
  BY <1>1, FifoTurns
<1>4. fKind' = fKind /\ fAnswer' = <<"delete">> /\ fUnread' = 0
  BY DEF DeleteFifo
<1>5. fUnread \in 0 .. Len(c) /\ (n # 0 => fUnread = 0) /\ Len(c) \in Nat
  BY <1>3 DEF UnreadFits
<1>6. FifoAt' = 0
  BY <1>2, <1>3, <1>4
<1>7. UnreadFits(d, m)'
  BY <1>3, <1>4 DEF UnreadFits
<1>8. FifoStep
  <2>1. CASE fUnread # 0
    BY <1>2, <1>3, <1>4, <1>5, <1>6, <2>1 DEF FifoStep, PassesUnread
  <2>2. CASE fUnread = 0
    <3>1. d = SubSeq(c, FifoAt + 1, Len(c))
      <4>1. CASE n = 0
        <5>1. FifoAt = Len(c)
          BY <1>3, <1>5, <2>2, <4>1
        <5> QED
          BY <1>2, <1>3, <4>1, <5>1
      <4>2. CASE n # 0
        <5>1. FifoAt + 1 = n
          BY <1>3, <1>5, <4>2
        <5> QED
          BY <1>2, <4>2, <5>1
      <4> QED
        BY <4>1, <4>2
    <3>2. FifoItems!DropRead
      BY <1>3, <1>4, <1>6, <3>1 DEF FifoItems!DropRead, FifoItems!Told
    <3> QED
      BY <1>3, <1>4, <3>2 DEF FifoStep, FifoItems!Next, FifoItems!FifoNext
  <2> QED
    BY <2>1, <2>2
<1> QED
  BY <1>1, <1>7, <1>8 DEF FifoInv

\* purge drops everything.
LEMMA PurgeRefines ==
  ASSUME NEW c, NEW n, FifoHolds(c, n), PurgeFifo
  PROVE  FifoInv' /\ FifoStep
<1>1. FifoHolds(<<>>, 0)'
  BY EmptyFifoHolds
<1>2. fKind' = fKind /\ fAnswer' = <<"purge">> /\ fUnread' = 0
  BY DEF PurgeFifo
<1>3. FifoChain' = <<>> /\ FifoAt' = 0 /\ UnreadFits(<<>>, 0)'
  BY <1>1, <1>2, FifoTurns, Len(<<>>) = 0 DEF UnreadFits
<1>4. FifoItems!Clear
  BY <1>2, <1>3 DEF FifoItems!Clear, FifoItems!Told
<1> QED
  BY <1>1, <1>2, <1>3, <1>4 DEF FifoInv, FifoStep, FifoItems!Next

\* Steps that leave the fifo alone leave the sequence alone.
LEMMA FifoStutters ==
  ASSUME FifoInv, UNCHANGED fifoVars
  PROVE  FifoInv' /\ UNCHANGED FifoItems!vars
<1>1. PICK c, n : FifoHolds(c, n) /\ UnreadFits(c, n)
  BY DEF FifoInv
<1>2. FifoHolds(c, n)' /\ UnreadFits(c, n)'
  BY <1>1 DEF FifoHolds, UnreadFits, fifoVars
<1>3. fKind' = fKind /\ fAnswer' = fAnswer /\ fUnread' = fUnread
  BY DEF fifoVars
<1>4. FifoChain' = FifoChain /\ FifoAt' = FifoAt
  BY <1>1, <1>2, <1>3, FifoTurns
<1> QED
  BY <1>2, <1>3, <1>4 DEF FifoInv, FifoItems!vars

\* For any number of nodes, and whatever statements a program mixes, the nodes and
\* pointers of a fifo or a lifo implement the documented sequence with a reading
\* position: delete takes what was read and nothing else. The one exception is
\* what read and delete do with elements written when all had been read.
THEOREM FifoImplementsSequence == FifoSpec => FifoIsSequence
<1>1. ASSUME FifoInit PROVE FifoInv /\ FifoItems!Init
  <2>1. FifoHolds(<<>>, 0) /\ fUnread = 0
    BY <1>1, EmptyFifoHolds DEF FifoInit
  <2>2. FifoChain = <<>> /\ FifoAt = 0
    BY <2>1, FifoIsRead, Len(<<>>) = 0 DEF FifoReads, WereRead
  <2>3. UnreadFits(<<>>, 0)
    BY <2>1, Len(<<>>) = 0 DEF UnreadFits
  <2>4. fKind \in {"fifo", "lifo"} /\ fAnswer = <<"new">>
    BY <1>1 DEF FifoInit
  <2> QED
    BY <2>1, <2>2, <2>3, <2>4 DEF FifoInv, FifoItems!Init
<1>2. ASSUME FifoInv, [FifoNext]_fifoVars PROVE FifoInv' /\ [FifoStep]_(FifoItems!vars)
  <2>1. CASE UNCHANGED fifoVars
    BY <1>2, <2>1, FifoStutters
  <2>2. CASE FifoNext
    <3>1. PICK c, n : FifoHolds(c, n) /\ UnreadFits(c, n)
      BY <1>2 DEF FifoInv
    <3>2. ASSUME NEW np \in FifoNode, WriteFifo(np) \/ WriteLifo(np) PROVE FifoInv' /\ FifoStep
      BY <3>1, <3>2, WriteRefines
    <3> QED
      BY <2>2, <3>1, <3>2, ReadRefines, RewindRefines, DeleteRefines, PurgeRefines DEF FifoNext
  <2> QED
    BY <1>2, <2>1, <2>2
<1>3. FifoItems!Init /\ [][FifoStep]_(FifoItems!vars) => FifoIsSequence
  BY DEF FifoIsSequence, FifoStep
<1> QED
  BY <1>1, <1>2, <1>3, PTL DEF FifoSpec

-----------------------------------------------------------------------------
(* Chains that are linked both ways, and a node that is put into or taken  *)
(* out of the middle of one.                                               *)

LinkedBack(c, prev, Null) == \A i \in 1 .. Len(c) : prev[c[i]] = To(c, i - 1, Null)

\* What InsertAt and RemoveAt make of a sequence, element by element.
LEMMA InsertedAt ==
  ASSUME NEW S, NEW s \in Seq(S), NEW e \in S, NEW j \in 1 .. Len(s) + 1
  PROVE  /\ InsertAt(s, j, e) \in Seq(S) /\ Len(InsertAt(s, j, e)) = Len(s) + 1
         /\ \A i \in 1 .. Len(s) + 1 :
              InsertAt(s, j, e)[i] = IF i < j THEN s[i] ELSE IF i = j THEN e ELSE s[i - 1]
<1>1. Len(s) \in Nat /\ j \in Nat /\ j <= Len(s) + 1
  OBVIOUS
<1> DEFINE a == SubSeq(s, 1, j - 1)
           b == SubSeq(s, j, Len(s))
<1>2. a \in Seq(S) /\ Len(a) = j - 1 /\ \A i \in 1 .. j - 1 : a[i] = s[i]
  BY <1>1
<1>3. b \in Seq(S) /\ Len(b) = Len(s) + 1 - j /\ \A i \in 1 .. Len(s) + 1 - j : b[i] = s[i + j - 1]
  BY <1>1
<1> HIDE DEF a, b
<1> DEFINE ae == a \o <<e>>
<1>4. ae \in Seq(S) /\ Len(ae) = j /\ ae[j] = e /\ \A i \in 1 .. j - 1 : ae[i] = s[i]
  BY <1>1, <1>2
<1> HIDE DEF ae
<1> DEFINE d == ae \o b
<1>5. d \in Seq(S) /\ Len(d) = Len(s) + 1
  BY <1>1, <1>3, <1>4
<1>6. /\ \A i \in 1 .. j : d[i] = ae[i]
      /\ \A i \in j + 1 .. Len(s) + 1 : d[i] = b[i - j]
  BY <1>1, <1>3, <1>4
<1>7. InsertAt(s, j, e) = d
  BY DEF InsertAt, a, b, ae
<1> HIDE DEF d
<1>8. ASSUME NEW i \in 1 .. Len(s) + 1
      PROVE  d[i] = IF i < j THEN s[i] ELSE IF i = j THEN e ELSE s[i - 1]
  <2>1. CASE i <= j
    BY <1>1, <1>4, <1>6, <2>1
  <2>2. CASE i > j
    <3>1. d[i] = b[i - j] /\ i - j \in 1 .. Len(s) + 1 - j /\ i - j + j - 1 = i - 1
      BY <1>1, <1>6, <2>2
    <3> QED
      BY <1>1, <1>3, <2>2, <3>1
  <2> QED
    BY <1>1, <2>1, <2>2
<1> QED
  BY <1>5, <1>7, <1>8

\* A sequence without one of its elements, place by place: what
\* rim_list_delete() leaves.
LEMMA RemovedAt ==
  ASSUME NEW S, NEW s \in Seq(S), NEW j \in 1 .. Len(s)
  PROVE  /\ RemoveAt(s, j) \in Seq(S) /\ Len(RemoveAt(s, j)) = Len(s) - 1
         /\ \A i \in 1 .. Len(s) - 1 :
              RemoveAt(s, j)[i] = IF i < j THEN s[i] ELSE s[i + 1]
<1>1. Len(s) \in Nat /\ j \in Nat /\ j <= Len(s) /\ j >= 1
  OBVIOUS
<1> DEFINE a == SubSeq(s, 1, j - 1)
           b == SubSeq(s, j + 1, Len(s))
<1>2. a \in Seq(S) /\ Len(a) = j - 1 /\ \A i \in 1 .. j - 1 : a[i] = s[i]
  BY <1>1
<1>3. b \in Seq(S) /\ Len(b) = Len(s) - j /\ \A i \in 1 .. Len(s) - j : b[i] = s[i + j]
  BY <1>1
<1> HIDE DEF a, b
<1> DEFINE d == a \o b
<1>4. d \in Seq(S) /\ Len(d) = Len(s) - 1
  <2>1. a \in Seq(S) /\ b \in Seq(S)
    BY <1>2, <1>3
  <2>2. d \in Seq(S) /\ Len(d) = Len(a) + Len(b)
    BY <2>1
  <2> QED
    BY <1>1, <1>2, <1>3, <2>2
<1>5. /\ \A i \in 1 .. j - 1 : d[i] = a[i]
      /\ \A i \in j .. Len(s) - 1 : d[i] = b[i - (j - 1)]
  BY <1>1, <1>2, <1>3
<1>6. RemoveAt(s, j) = d
  BY DEF RemoveAt, a, b
<1> HIDE DEF d
<1>7. ASSUME NEW i \in 1 .. Len(s) - 1 PROVE d[i] = IF i < j THEN s[i] ELSE s[i + 1]
  <2>1. CASE i < j
    BY <1>1, <1>2, <1>5, <2>1
  <2>2. CASE i >= j
    <3>1. d[i] = b[i - (j - 1)] /\ i - (j - 1) \in 1 .. Len(s) - j /\ i - (j - 1) + j = i + 1
      BY <1>1, <1>5, <2>2
    <3> QED
      BY <1>1, <1>3, <2>2, <3>1
  <2> QED
    BY <1>1, <2>1, <2>2
<1> QED
  BY <1>4, <1>6, <1>7

\* Two sequences with the same elements are the same.
LEMMA SameSequence ==
  ASSUME NEW S, NEW s \in Seq(S), NEW t \in Seq(S), Len(s) = Len(t),
         \A i \in 1 .. Len(s) : s[i] = t[i]
  PROVE  s = t
OBVIOUS

\* A node is put in front of the j-th one: its neighbours point to it, and it
\* points to them.
LEMMA ChainInserted ==
  ASSUME NEW Node, NEW Null, Null \notin Node, NEW c \in Seq(Node), Distinct(c),
         NEW next, Linked(c, next, Null), NEW prev, LinkedBack(c, prev, Null),
         NEW j \in 1 .. Len(c) + 1, NEW np \in Node, np \notin Nodes(c),
         NEW after, after[np] = To(c, j, Null),
         \A p \in Node \ {np} : after[p] = IF p = To(c, j - 1, Null) THEN np ELSE next[p],
         NEW back, back[np] = To(c, j - 1, Null),
         \A p \in Node \ {np} : back[p] = IF p = To(c, j, Null) THEN np ELSE prev[p]
  PROVE  /\ Distinct(InsertAt(c, j, np)) /\ Nodes(InsertAt(c, j, np)) = Nodes(c) \cup {np}
         /\ Linked(InsertAt(c, j, np), after, Null) /\ LinkedBack(InsertAt(c, j, np), back, Null)
<1> DEFINE d == InsertAt(c, j, np)
<1>1. /\ d \in Seq(Node) /\ Len(d) = Len(c) + 1 /\ Len(c) \in Nat /\ j \in 1 .. Len(c) + 1
      /\ \A i \in 1 .. Len(c) + 1 : d[i] = IF i < j THEN c[i] ELSE IF i = j THEN np ELSE c[i - 1]
  <2>1. d \in Seq(Node) /\ Len(d) = Len(c) + 1
    BY InsertedAt
  <2>2. \A i \in 1 .. Len(c) + 1 : d[i] = IF i < j THEN c[i] ELSE IF i = j THEN np ELSE c[i - 1]
    BY InsertedAt
  <2> QED
    BY <2>1, <2>2
<1>2. \A i \in 1 .. Len(c) : c[i] \in Node \ {np} /\ c[i] # Null
  BY DEF Nodes
<1> HIDE DEF d
<1> DEFINE old(i) == IF i < j THEN i ELSE i - 1
<1>3. \A i \in 1 .. Len(d) : i = j \/ (old(i) \in 1 .. Len(c) /\ d[i] = c[old(i)])
  BY <1>1
<1>4. d[j] = np /\ j \in 1 .. Len(d)
  BY <1>1
<1>5. Distinct(d)
  <2>1. ASSUME NEW i \in 1 .. Len(d), NEW k \in 1 .. Len(d), d[i] = d[k] PROVE i = k
    <3>1. CASE i = j \/ k = j
      BY <1>2, <1>3, <1>4, <2>1, <3>1
    <3>2. CASE i # j /\ k # j
      <4>1. c[old(i)] = c[old(k)] /\ old(i) \in 1 .. Len(c) /\ old(k) \in 1 .. Len(c)
        BY <1>3, <2>1, <3>2
      <4>2. old(i) = old(k)
        BY <4>1 DEF Distinct
      <4> QED
        BY <1>1, <3>2, <4>2
    <3> QED
      BY <3>1, <3>2
  <2> QED
    BY <2>1 DEF Distinct
<1>6. Nodes(d) = Nodes(c) \cup {np}
  <2>1. ASSUME NEW k \in 1 .. Len(c) PROVE \E i \in 1 .. Len(d) : d[i] = c[k]
    <3>1. CASE k < j
      BY <1>1, <3>1
    <3>2. CASE k >= j
      <4>1. k + 1 \in 1 .. Len(d) /\ d[k + 1] = c[k + 1 - 1] /\ k + 1 - 1 = k
        BY <1>1, <3>2
      <4> QED
        BY <4>1
    <3> QED
      BY <1>1, <3>1, <3>2
  <2>2. \A i \in 1 .. Len(d) : d[i] \in Nodes(c) \cup {np}
    BY <1>3, <1>4 DEF Nodes
  <2>3. Nodes(d) \subseteq Nodes(c) \cup {np}
    BY <2>2 DEF Nodes
  <2>4. Nodes(c) \cup {np} \subseteq Nodes(d)
    BY <1>4, <2>1 DEF Nodes
  <2> QED
    BY <2>3, <2>4
<1>7. ASSUME NEW i \in 1 .. Len(d) PROVE after[d[i]] = To(d, i + 1, Null)
  <2>1. CASE i = j
    <3>1. To(d, j + 1, Null) = To(c, j, Null)
      BY <1>1 DEF To
    <3> QED
      BY <1>4, <2>1, <3>1
  <2>2. CASE i # j
    <3>1. old(i) \in 1 .. Len(c) /\ d[i] = c[old(i)] /\ c[old(i)] \in Node \ {np}
      BY <1>2, <1>3, <2>2
    <3>2. CASE i = j - 1
      <4>1. To(c, j - 1, Null) = d[i]
        BY <1>1, <3>1, <3>2 DEF To
      <4> QED
        BY <1>1, <1>4, <3>1, <3>2, <4>1 DEF To
    <3>3. CASE i # j - 1
      <4>1. d[i] # To(c, j - 1, Null)
        BY <1>1, <1>2, <2>2, <3>1, <3>3 DEF To, Distinct
      <4>2. after[d[i]] = To(c, old(i) + 1, Null)
        BY <3>1, <4>1 DEF Linked
      <4>3. To(d, i + 1, Null) = To(c, old(i) + 1, Null)
        BY <1>1, <2>2, <3>1, <3>3 DEF To
      <4> QED
        BY <4>2, <4>3
    <3> QED
      BY <3>2, <3>3
  <2> QED
    BY <2>1, <2>2
<1>8. ASSUME NEW i \in 1 .. Len(d) PROVE back[d[i]] = To(d, i - 1, Null)
  <2>1. CASE i = j
    <3>1. To(d, j - 1, Null) = To(c, j - 1, Null)
      BY <1>1 DEF To
    <3> QED
      BY <1>4, <2>1, <3>1
  <2>2. CASE i # j
    <3>1. old(i) \in 1 .. Len(c) /\ d[i] = c[old(i)] /\ c[old(i)] \in Node \ {np}
      BY <1>2, <1>3, <2>2
    <3>2. CASE i = j + 1
      <4>1. To(c, j, Null) = d[i]
        BY <1>1, <3>1, <3>2 DEF To
      <4> QED
        BY <1>1, <1>4, <3>1, <3>2, <4>1 DEF To
    <3>3. CASE i # j + 1
      <4>1. d[i] # To(c, j, Null)
        BY <1>1, <1>2, <2>2, <3>1, <3>3 DEF To, Distinct
      <4>2. back[d[i]] = To(c, old(i) - 1, Null)
        BY <3>1, <4>1 DEF LinkedBack
      <4>3. To(d, i - 1, Null) = To(c, old(i) - 1, Null)
        BY <1>1, <2>2, <3>1, <3>3 DEF To
      <4> QED
        BY <4>2, <4>3
    <3> QED
      BY <3>2, <3>3
  <2> QED
    BY <2>1, <2>2
<1> QED
  BY <1>5, <1>6, <1>7, <1>8 DEF d, Linked, LinkedBack

\* The j-th node is taken out: its neighbours point to each other.
LEMMA ChainRemoved ==
  ASSUME NEW Node, NEW Null, Null \notin Node, NEW c \in Seq(Node), Distinct(c),
         NEW next, Linked(c, next, Null), NEW prev, LinkedBack(c, prev, Null),
         NEW j \in 1 .. Len(c),
         NEW after, \A p \in Node \ {c[j]} :
           after[p] = IF p = To(c, j - 1, Null) THEN To(c, j + 1, Null) ELSE next[p],
         NEW back, \A p \in Node \ {c[j]} :
           back[p] = IF p = To(c, j + 1, Null) THEN To(c, j - 1, Null) ELSE prev[p]
  PROVE  /\ Distinct(RemoveAt(c, j)) /\ Nodes(RemoveAt(c, j)) = Nodes(c) \ {c[j]}
         /\ Linked(RemoveAt(c, j), after, Null) /\ LinkedBack(RemoveAt(c, j), back, Null)
<1> DEFINE d == RemoveAt(c, j)
<1>1. /\ d \in Seq(Node) /\ Len(d) = Len(c) - 1 /\ Len(c) \in Nat /\ j \in 1 .. Len(c)
      /\ \A i \in 1 .. Len(c) - 1 : d[i] = IF i < j THEN c[i] ELSE c[i + 1]
  <2>1. d \in Seq(Node) /\ Len(d) = Len(c) - 1
    BY RemovedAt
  <2>2. \A i \in 1 .. Len(c) - 1 : d[i] = IF i < j THEN c[i] ELSE c[i + 1]
    BY RemovedAt
  <2> QED
    BY <2>1, <2>2
<1> HIDE DEF d
<1> DEFINE old(i) == IF i < j THEN i ELSE i + 1
<1>2. ASSUME NEW i \in 1 .. Len(d)
      PROVE  /\ old(i) \in 1 .. Len(c) /\ old(i) # j /\ d[i] = c[old(i)]
             /\ c[old(i)] \in Node \ {c[j]} /\ c[old(i)] # Null
  <2>1. old(i) \in 1 .. Len(c) /\ old(i) # j /\ d[i] = c[old(i)]
    BY <1>1
  <2>2. c[old(i)] # c[j]
    BY <1>1, <2>1 DEF Distinct
  <2> QED
    BY <1>1, <2>1, <2>2
<1>3. Distinct(d)
  <2>1. ASSUME NEW i \in 1 .. Len(d), NEW k \in 1 .. Len(d), d[i] = d[k] PROVE i = k
    <3>1. c[old(i)] = c[old(k)] /\ old(i) \in 1 .. Len(c) /\ old(k) \in 1 .. Len(c)
      BY <1>2, <2>1
    <3>2. old(i) = old(k)
      BY <3>1 DEF Distinct
    <3> QED
      BY <1>1, <3>2
  <2> QED
    BY <2>1 DEF Distinct
<1>4. Nodes(d) = Nodes(c) \ {c[j]}
  <2>1. ASSUME NEW k \in 1 .. Len(c), c[k] # c[j] PROVE \E i \in 1 .. Len(d) : d[i] = c[k]
    <3>1. CASE k < j
      BY <1>1, <3>1
    <3>2. CASE k > j
      <4>1. k - 1 \in 1 .. Len(d) /\ d[k - 1] = c[k - 1 + 1] /\ k - 1 + 1 = k
        BY <1>1, <3>2
      <4> QED
        BY <4>1
    <3> QED
      BY <1>1, <2>1, <3>1, <3>2
  <2>2. Nodes(d) \subseteq Nodes(c) \ {c[j]}
    BY <1>2 DEF Nodes
  <2>3. Nodes(c) \ {c[j]} \subseteq Nodes(d)
    BY <2>1 DEF Nodes
  <2> QED
    BY <2>2, <2>3
<1>5. ASSUME NEW i \in 1 .. Len(d) PROVE after[d[i]] = To(d, i + 1, Null)
  <2>1. /\ old(i) \in 1 .. Len(c) /\ old(i) # j /\ d[i] = c[old(i)]
        /\ c[old(i)] \in Node \ {c[j]} /\ c[old(i)] # Null
    BY <1>2
  <2>2. CASE i = j - 1
    <3>1. To(c, j - 1, Null) = d[i]
      BY <1>1, <2>1, <2>2 DEF To
    <3>2. To(d, i + 1, Null) = To(c, j + 1, Null)
      BY <1>1, <2>2 DEF To
    <3> QED
      BY <2>1, <3>1, <3>2
  <2>3. CASE i # j - 1
    <3>1. d[i] # To(c, j - 1, Null)
      BY <1>1, <2>1, <2>3 DEF To, Distinct
    <3>2. after[d[i]] = To(c, old(i) + 1, Null)
      BY <2>1, <3>1 DEF Linked
    <3>3. To(d, i + 1, Null) = To(c, old(i) + 1, Null)
      BY <1>1, <2>1, <2>3 DEF To
    <3> QED
      BY <3>2, <3>3
  <2> QED
    BY <2>2, <2>3
<1>6. ASSUME NEW i \in 1 .. Len(d) PROVE back[d[i]] = To(d, i - 1, Null)
  <2>1. /\ old(i) \in 1 .. Len(c) /\ old(i) # j /\ d[i] = c[old(i)]
        /\ c[old(i)] \in Node \ {c[j]} /\ c[old(i)] # Null
    BY <1>2
  <2>2. CASE i = j
    <3>1. To(c, j + 1, Null) = d[i]
      BY <1>1, <2>1, <2>2 DEF To
    <3>2. To(d, i - 1, Null) = To(c, j - 1, Null)
      BY <1>1, <2>2 DEF To
    <3> QED
      BY <2>1, <3>1, <3>2
  <2>3. CASE i # j
    <3>1. d[i] # To(c, j + 1, Null)
      BY <1>1, <2>1, <2>3 DEF To, Distinct
    <3>2. back[d[i]] = To(c, old(i) - 1, Null)
      BY <2>1, <3>1 DEF LinkedBack
    <3>3. To(d, i - 1, Null) = To(c, old(i) - 1, Null)
      BY <1>1, <2>1, <2>3 DEF To
    <3> QED
      BY <3>2, <3>3
  <2> QED
    BY <2>2, <2>3
<1> QED
  BY <1>3, <1>4, <1>5, <1>6 DEF d, Linked, LinkedBack

-----------------------------------------------------------------------------
(* The list: memory holds the nodes c in their order, linked both ways, and *)
(* n is the number of the current one.                                      *)

ListHolds(c, n) ==
  /\ c \in Seq(ListNode) /\ Distinct(c) /\ n \in 0 .. Len(c)
  /\ lNext \in [ListNode -> ListNode \cup {ListNull}] /\ Linked(c, lNext, ListNull)
  /\ lPrev \in [ListNode -> ListNode \cup {ListNull}] /\ LinkedBack(c, lPrev, ListNull)
  /\ lFirst = To(c, 1, ListNull) /\ lLast = To(c, Len(c), ListNull)
  /\ lCurr = To(c, n, ListNull)
  /\ lUsed = Nodes(c) /\ lNumOf = Len(c)
  /\ lData \in [ListNode -> ListString \cup {ListNull}]

\* The strings of those nodes.
Strings(c, data) == [i \in DOMAIN c |-> data[c[i]]]

ListReads == \A c, n : ListHolds(c, n) => ListChain = c /\ ListAt = n

\* What memory holds is what the pointers are followed to.
LEMMA ListIsRead == ListReads
<1> SUFFICES ASSUME NEW c, NEW n, ListHolds(c, n) PROVE ListChain = c /\ ListAt = n
  BY DEF ListReads
<1>1. c \in Seq(ListNode) /\ Len(c) \in Nat /\ Distinct(c) /\ n \in 0 .. Len(c)
  BY DEF ListHolds
<1>2. Linked(c, lNext, ListNull) /\ lFirst = To(c, 1, ListNull) /\ lCurr = To(c, n, ListNull)
  BY DEF ListHolds
<1>3. ListNull \notin ListNode /\ IsFiniteSet(ListNode)
  BY ListAssumption
<1>4. ListChain = c
  <2>1. To(c, Len(c) + 1, ListNull) = ListNull
    BY <1>1 DEF To
  <2>2. {To(c, Len(c) + 1, ListNull), ListNull} = {ListNull}
    BY <2>1
  <2>3. Walk(ListNode, lNext, lFirst, {To(c, Len(c) + 1, ListNull), ListNull})
          = SubSeq(c, 1, Len(c) + 1 - 1)
    BY <1>1, <1>2, <1>3, Len(c) + 1 \in 1 .. Len(c) + 1, WalkMeets
  <2>4. SubSeq(c, 1, Len(c) + 1 - 1) = c
    BY <1>1
  <2> QED
    BY <2>2, <2>3, <2>4 DEF ListChain
<1>5. ListAt = n
  <2>1. lCurr = ListNull <=> n = 0
    BY <1>1, <1>2, <1>3, PlaceIs
  <2>2. CASE n = 0
    BY <2>1, <2>2 DEF ListAt
  <2>3. CASE n # 0
    <3>1. \A i \in DOMAIN c : c[i] = lCurr <=> i = n
      BY <1>1, <1>2, <1>3, <2>3, PlaceIs
    <3>2. n \in DOMAIN c
      BY <1>1, <2>3
    <3> QED
      BY <1>4, <2>1, <2>3, <3>1, <3>2 DEF ListAt
  <2> QED
    BY <2>2, <2>3
<1> QED
  BY <1>4, <1>5

\* The same after a step.
LEMMA ListIsReadNext == ListReads'
BY ListIsRead, PTL

\* What a step that goes from one sequence to another knows of both.
LEMMA ListTurns ==
  ASSUME NEW c, NEW n, ListHolds(c, n), NEW d, NEW m, ListHolds(d, m)'
  PROVE  /\ ListChain = c /\ ListAt = n /\ ListChain' = d /\ ListAt' = m
         /\ c \in Seq(ListNode) /\ d \in Seq(ListNode) /\ n \in 0 .. Len(c)
         /\ n # 0 => lCurr = c[n]
         /\ lCurr = ListNull <=> n = 0
         /\ lNumOf = Len(c)
<1>1. ListChain = c /\ ListAt = n
  BY ListIsRead DEF ListReads
<1>2. ListReads'
  BY ListIsReadNext
<1>3. ListChain' = d /\ ListAt' = m
  BY <1>2 DEF ListReads
<1>4. c \in Seq(ListNode) /\ n \in 0 .. Len(c) /\ Distinct(c) /\ lCurr = To(c, n, ListNull)
      /\ lNumOf = Len(c) /\ ListNull \notin ListNode
  BY ListAssumption DEF ListHolds
<1>5. d \in Seq(ListNode)
  BY DEF ListHolds
<1>6. lCurr = ListNull <=> n = 0
  BY <1>4, PlaceIs
<1>7. n # 0 => lCurr = c[n]
  BY <1>4 DEF To
<1> QED
  BY <1>1, <1>3, <1>4, <1>5, <1>6, <1>7

Put(f, k, x) == [f EXCEPT ![k] = x]

\* The strings after a node was inserted or removed.
LEMMA StringsInserted ==
  ASSUME NEW c \in Seq(ListNode), NEW data \in [ListNode -> ListString \cup {ListNull}],
         NEW np \in ListNode, np \notin Nodes(c), NEW x \in ListString,
         NEW j \in 1 .. Len(c) + 1
  PROVE  Strings(InsertAt(c, j, np), Put(data, np, x)) = InsertAt(Strings(c, data), j, x)
<1> DEFINE S == ListString \cup {ListNull}
           s == Strings(c, data)
           d == InsertAt(c, j, np)
           t == Strings(d, Put(data, np, x))
           u == InsertAt(s, j, x)
<1>1. d \in Seq(ListNode) /\ Len(d) = Len(c) + 1 /\ Len(c) \in Nat
  BY InsertedAt
<1>2. \A i \in 1 .. Len(c) + 1 : d[i] = IF i < j THEN c[i] ELSE IF i = j THEN np ELSE c[i - 1]
  BY InsertedAt
<1>3. s \in Seq(S) /\ Len(s) = Len(c) /\ \A i \in 1 .. Len(c) : s[i] = data[c[i]]
  BY DEF Strings
<1> HIDE DEF s, d
<1> DEFINE after == Put(data, np, x)
<1>4. after \in [ListNode -> S]
  BY DEF Put
<1> HIDE DEF after, S
<1>5. t \in Seq(S) /\ Len(t) = Len(c) + 1
  BY <1>1, <1>4 DEF Strings, after
<1>6. \A i \in 1 .. Len(c) + 1 : t[i] = after[d[i]]
  BY <1>1 DEF Strings, after
<1> HIDE DEF t
<1>7. s \in Seq(S) /\ x \in S /\ j \in 1 .. Len(s) + 1
  BY <1>3 DEF S
<1>8. u \in Seq(S) /\ Len(u) = Len(c) + 1
  <2>1. u \in Seq(S) /\ Len(u) = Len(s) + 1
    BY <1>7, InsertedAt
  <2> QED
    BY <1>3, <2>1
<1>9. \A i \in 1 .. Len(c) + 1 : u[i] = IF i < j THEN s[i] ELSE IF i = j THEN x ELSE s[i - 1]
  <2>1. \A i \in 1 .. Len(s) + 1 : u[i] = IF i < j THEN s[i] ELSE IF i = j THEN x ELSE s[i - 1]
    <3>1. ASSUME NEW i \in 1 .. Len(s) + 1
          PROVE  u[i] = IF i < j THEN s[i] ELSE IF i = j THEN x ELSE s[i - 1]
      BY <1>7, InsertedAt
    <3> QED
      BY <3>1
  <2> QED
    BY <1>3, <2>1
<1> HIDE DEF u
<1>10. ASSUME NEW i \in 1 .. Len(c) + 1 PROVE t[i] = u[i]
  <2>1. \A k \in 1 .. Len(c) : c[k] \in ListNode /\ c[k] # np
    BY DEF Nodes
  <2>2. CASE i < j
    <3>1. i \in 1 .. Len(c) /\ d[i] = c[i] /\ after[d[i]] = data[c[i]]
      BY <1>1, <1>2, <2>1, <2>2 DEF after, Put
    <3> QED
      BY <1>3, <1>6, <1>9, <2>2, <3>1
  <2>3. CASE i = j
    BY <1>2, <1>6, <1>9, <2>3 DEF after, Put
  <2>4. CASE i > j
    <3>1. i - 1 \in 1 .. Len(c) /\ d[i] = c[i - 1] /\ after[d[i]] = data[c[i - 1]]
      BY <1>1, <1>2, <2>1, <2>4 DEF after, Put
    <3> QED
      BY <1>3, <1>6, <1>9, <2>4, <3>1
  <2> QED
    BY <1>1, <2>2, <2>3, <2>4
<1>11. t \in Seq(S) /\ u \in Seq(S) /\ Len(t) = Len(u) /\ \A i \in 1 .. Len(t) : t[i] = u[i]
  BY <1>8, <1>10, <1>5
<1>12. t = u
  BY <1>11, SameSequence
<1> QED
  BY <1>12 DEF s, d, t, u, after

\* Taking a node out of the chain takes its strings out, and no others.
LEMMA StringsRemoved ==
  ASSUME NEW c \in Seq(ListNode), Distinct(c),
         NEW data \in [ListNode -> ListString \cup {ListNull}], NEW j \in 1 .. Len(c)
  PROVE  Strings(RemoveAt(c, j), Put(data, c[j], ListNull))
           = RemoveAt(Strings(c, data), j)
<1> DEFINE S == ListString \cup {ListNull}
           s == Strings(c, data)
           d == RemoveAt(c, j)
           t == Strings(d, Put(data, c[j], ListNull))
           u == RemoveAt(s, j)
<1>1. d \in Seq(ListNode) /\ Len(d) = Len(c) - 1 /\ Len(c) \in Nat
  BY RemovedAt
<1>2. \A i \in 1 .. Len(c) - 1 : d[i] = IF i < j THEN c[i] ELSE c[i + 1]
  BY RemovedAt
<1>3. s \in Seq(S) /\ Len(s) = Len(c) /\ \A i \in 1 .. Len(c) : s[i] = data[c[i]]
  BY DEF Strings
<1> HIDE DEF s, d
<1> DEFINE after == Put(data, c[j], ListNull)
<1>4. after \in [ListNode -> S]
  BY DEF Put
<1> HIDE DEF after, S
<1>5. t \in Seq(S) /\ Len(t) = Len(c) - 1
  BY <1>1, <1>4 DEF Strings, after
<1>6. \A i \in 1 .. Len(c) - 1 : t[i] = after[d[i]]
  BY <1>1 DEF Strings, after
<1> HIDE DEF t
<1>7. s \in Seq(S) /\ j \in 1 .. Len(s)
  BY <1>3 DEF S
<1>8. u \in Seq(S) /\ Len(u) = Len(c) - 1
  <2>1. u \in Seq(S) /\ Len(u) = Len(s) - 1
    BY <1>7, RemovedAt
  <2> QED
    BY <1>3, <2>1
<1>9. \A i \in 1 .. Len(c) - 1 : u[i] = IF i < j THEN s[i] ELSE s[i + 1]
  <2>1. \A i \in 1 .. Len(s) - 1 : u[i] = IF i < j THEN s[i] ELSE s[i + 1]
    BY <1>7, RemovedAt
  <2> QED
    BY <1>3, <2>1
<1> HIDE DEF u
<1>10. ASSUME NEW i \in 1 .. Len(c) - 1 PROVE t[i] = u[i]
  <2>1. \A k \in 1 .. Len(c) : c[k] \in ListNode /\ (k # j => c[k] # c[j])
    BY DEF Distinct
  <2>2. CASE i < j
    <3>1. i \in 1 .. Len(c) /\ d[i] = c[i] /\ after[d[i]] = data[c[i]]
      BY <1>1, <1>2, <2>1, <2>2 DEF after, Put
    <3> QED
      BY <1>3, <1>6, <1>9, <2>2, <3>1
  <2>3. CASE i >= j
    <3>1. i + 1 \in 1 .. Len(c) /\ d[i] = c[i + 1] /\ after[d[i]] = data[c[i + 1]]
      BY <1>1, <1>2, <2>1, <2>3 DEF after, Put
    <3> QED
      BY <1>3, <1>6, <1>9, <2>3, <3>1
  <2> QED
    BY <1>1, <2>2, <2>3
<1>11. t \in Seq(S) /\ u \in Seq(S) /\ Len(t) = Len(u) /\ \A i \in 1 .. Len(t) : t[i] = u[i]
  BY <1>8, <1>10, <1>5
<1>12. t = u
  BY <1>11, SameSequence
<1> QED
  BY <1>12 DEF s, d, t, u, after

\* The strings after one was put in the place of another.
LEMMA StringsUpdated ==
  ASSUME NEW c \in Seq(ListNode), Distinct(c),
         NEW data \in [ListNode -> ListString \cup {ListNull}], NEW x \in ListString,
         NEW j \in 1 .. Len(c), NEW after, after = Put(data, c[j], x)
  PROVE  Strings(c, after) = Put(Strings(c, data), j, x)
<1>1. \A i \in DOMAIN c : i \in 1 .. Len(c) /\ c[i] \in ListNode /\ (c[i] = c[j] <=> i = j)
  BY DEF Distinct
<1> QED
  BY <1>1 DEF Strings, Put

-----------------------------------------------------------------------------
(* What each statement does to the sequence a list holds, and that module  *)
(* Items promises it.                                                      *)

ListInv == \E c, n : ListHolds(c, n)

\* A new node in front of the j-th one, whichever of the four cases of
\* rim_list_store() it is.
LEMMA InsertHolds ==
  ASSUME NEW c, NEW n, ListHolds(c, n), NEW np \in ListNode, NEW x \in ListString,
         NewItem(np, x), NEW j \in 1 .. Len(c) + 1,
         lNext' = [p \in ListNode |-> IF p = np THEN To(c, j, ListNull)
                                      ELSE IF p = To(c, j - 1, ListNull) THEN np ELSE lNext[p]],
         lPrev' = [p \in ListNode |-> IF p = np THEN To(c, j - 1, ListNull)
                                      ELSE IF p = To(c, j, ListNull) THEN np ELSE lPrev[p]],
         lFirst' = IF j = 1 THEN np ELSE lFirst,
         lLast' = IF j = Len(c) + 1 THEN np ELSE lLast
  PROVE  ListHolds(InsertAt(c, j, np), j)'
<1> DEFINE d == InsertAt(c, j, np)
<1>1. c \in Seq(ListNode) /\ Len(c) \in Nat /\ Distinct(c) /\ ListNull \notin ListNode
      /\ Linked(c, lNext, ListNull) /\ LinkedBack(c, lPrev, ListNull)
  BY ListAssumption DEF ListHolds
<1>2. np \notin Nodes(c) /\ lUsed' = Nodes(c) \cup {np} /\ lNumOf' = Len(c) + 1 /\ lCurr' = np
      /\ lData' = [lData EXCEPT ![np] = x]
  BY DEF ListHolds, NewItem
<1>3. d \in Seq(ListNode) /\ Len(d) = Len(c) + 1
  BY <1>1, InsertedAt
<1>4. \A i \in 1 .. Len(c) + 1 : d[i] = IF i < j THEN c[i] ELSE IF i = j THEN np ELSE c[i - 1]
  BY <1>1, InsertedAt
<1>5. \A i : To(c, i, ListNull) \in ListNode \cup {ListNull}
  BY <1>1 DEF To
<1>6. /\ lNext' \in [ListNode -> ListNode \cup {ListNull}]
      /\ lPrev' \in [ListNode -> ListNode \cup {ListNull}]
  BY <1>5 DEF ListHolds
<1>7. /\ lNext'[np] = To(c, j, ListNull)
      /\ \A p \in ListNode \ {np} : lNext'[p] = IF p = To(c, j - 1, ListNull) THEN np ELSE lNext[p]
      /\ lPrev'[np] = To(c, j - 1, ListNull)
      /\ \A p \in ListNode \ {np} : lPrev'[p] = IF p = To(c, j, ListNull) THEN np ELSE lPrev[p]
  OBVIOUS
<1>8. /\ Distinct(d) /\ Nodes(d) = Nodes(c) \cup {np}
      /\ Linked(d, lNext', ListNull) /\ LinkedBack(d, lPrev', ListNull)
  BY <1>1, <1>2, <1>7, ChainInserted
<1> HIDE DEF d
<1>9. lFirst' = To(d, 1, ListNull)
  <2>1. lFirst = To(c, 1, ListNull)
    BY DEF ListHolds
  <2>2. CASE j = 1
    BY <1>1, <1>3, <1>4, <2>2 DEF To
  <2>3. CASE j # 1
    <3>1. 1 \in 1 .. Len(c) /\ 1 \in 1 .. Len(d) /\ d[1] = c[1]
      BY <1>1, <1>3, <1>4, <2>3
    <3> QED
      BY <2>1, <2>3, <3>1 DEF To
  <2> QED
    BY <2>2, <2>3
<1>10. lLast' = To(d, Len(d), ListNull)
  <2>1. lLast = To(c, Len(c), ListNull)
    BY DEF ListHolds
  <2>2. CASE j = Len(c) + 1
    BY <1>1, <1>3, <1>4, <2>2 DEF To
  <2>3. CASE j # Len(c) + 1
    <3>1. Len(c) \in 1 .. Len(c) /\ Len(d) \in 1 .. Len(d) /\ d[Len(d)] = c[Len(c)]
      BY <1>1, <1>3, <1>4, <2>3
    <3> QED
      BY <2>1, <2>3, <3>1 DEF To
  <2> QED
    BY <2>2, <2>3
<1>11. j \in 1 .. Len(d) /\ lCurr' = To(d, j, ListNull)
  BY <1>1, <1>2, <1>3, <1>4 DEF To
<1>12. lData' \in [ListNode -> ListString \cup {ListNull}]
  BY <1>2 DEF ListHolds
<1>13. ListHolds(d, j)'
  BY <1>2, <1>3, <1>6, <1>8, <1>9, <1>10, <1>11, <1>12 DEF ListHolds
<1> QED
  BY <1>13 DEF d

\* The sequence of strings gets the new one at the same place.
LEMMA InsertRefines ==
  ASSUME NEW c, NEW n, ListHolds(c, n), NEW np \in ListNode, NEW x \in ListString,
         NewItem(np, x), NEW append \in BOOLEAN,
         NEW j \in 1 .. Len(c) + 1, j = IF append \/ n = 0 THEN Len(c) + 1 ELSE n,
         ListHolds(InsertAt(c, j, np), j)'
  PROVE  ListInv' /\ ListItems!Next
<1>1. /\ ListChain = c /\ ListAt = n /\ ListChain' = InsertAt(c, j, np) /\ ListAt' = j
      /\ c \in Seq(ListNode)
  BY ListTurns
<1>2. np \notin Nodes(c) /\ lData \in [ListNode -> ListString \cup {ListNull}]
      /\ lData' = [lData EXCEPT ![np] = x] /\ lAnswer' = <<"write">>
  BY DEF ListHolds, NewItem
<1>3. Strings(InsertAt(c, j, np), lData') = InsertAt(Strings(c, lData), j, x)
  <2>1. lData' = Put(lData, np, x)
    BY <1>2 DEF Put
  <2>2. Strings(InsertAt(c, j, np), Put(lData, np, x)) = InsertAt(Strings(c, lData), j, x)
    BY <1>1, <1>2, StringsInserted
  <2> QED
    BY <2>1, <2>2
<1>4. Len(Strings(c, lData)) = Len(c)
  BY <1>1 DEF Strings
<1>5. /\ [i \in DOMAIN ListChain |-> lData[ListChain[i]]] = Strings(c, lData)
      /\ [i \in DOMAIN ListChain |-> lData[ListChain[i]]]'
           = InsertAt(Strings(c, lData), j, x)
  BY <1>1, <1>3 DEF Strings
<1>6. ListItems!InsertAt(Strings(c, lData), j, x) = InsertAt(Strings(c, lData), j, x)
  BY DEF ListItems!InsertAt, InsertAt
<1>7. ListItems!Insert(x, append)
  BY <1>1, <1>2, <1>4, <1>5, <1>6 DEF ListItems!Insert, ListItems!Told
<1> QED
  BY <1>7 DEF ListInv, ListItems!Next, ListItems!ListNext

\* write-list, in each of its four cases.
LEMMA WriteListRefines ==
  ASSUME NEW c, NEW n, ListHolds(c, n), NEW np \in ListNode, NEW x \in ListString,
         NEW append \in BOOLEAN,
         \/ WriteOnly(np, x) \/ WriteFirst(np, x) \/ WriteBetween(np, x)
         \/ WriteLast(np, x, append)
  PROVE  ListInv' /\ ListItems!Next
<1>1. c \in Seq(ListNode) /\ Len(c) \in Nat /\ Distinct(c) /\ n \in 0 .. Len(c)
      /\ ListNull \notin ListNode /\ lNumOf = Len(c)
  BY ListAssumption DEF ListHolds
<1>2. /\ lFirst = To(c, 1, ListNull) /\ lLast = To(c, Len(c), ListNull)
      /\ lCurr = To(c, n, ListNull)
      /\ lNext \in [ListNode -> ListNode \cup {ListNull}]
      /\ lPrev \in [ListNode -> ListNode \cup {ListNull}]
      /\ lUsed = Nodes(c) /\ LinkedBack(c, lPrev, ListNull)
  BY DEF ListHolds
<1>3. lCurr = ListNull <=> n = 0
  BY <1>1, <1>2, PlaceIs
<1>4. \A i : To(c, i, ListNull) \in ListNode => To(c, i, ListNull) \in Nodes(c)
  BY <1>1 DEF To, Nodes
<1>5. NewItem(np, x) /\ np \notin Nodes(c)
  BY <1>2 DEF WriteOnly, WriteFirst, WriteBetween, WriteLast, NewItem
<1>6. CASE WriteOnly(np, x)
  <2>1. Len(c) = 0 /\ n = 0 /\ To(c, 1, ListNull) = ListNull /\ To(c, 1 - 1, ListNull) = ListNull
    BY <1>1, <1>6 DEF WriteOnly, To
  <2>2. lNext' = [p \in ListNode |-> IF p = np THEN To(c, 1, ListNull)
                    ELSE IF p = To(c, 1 - 1, ListNull) THEN np ELSE lNext[p]]
    BY <1>1, <1>2, <1>6, <2>1 DEF WriteOnly
  <2>3. lPrev' = [p \in ListNode |-> IF p = np THEN To(c, 1 - 1, ListNull)
                    ELSE IF p = To(c, 1, ListNull) THEN np ELSE lPrev[p]]
    BY <1>1, <1>2, <1>6, <2>1 DEF WriteOnly
  <2>4. lFirst' = np /\ lLast' = np
    BY <1>6 DEF WriteOnly
  <2>5. 1 \in 1 .. Len(c) + 1 /\ 1 = Len(c) + 1
    BY <2>1
  <2>6. ListHolds(InsertAt(c, 1, np), 1)'
    BY <1>5, <2>2, <2>3, <2>4, <2>5, InsertHolds
  <2> QED
    BY <1>5, <2>1, <2>5, <2>6, InsertRefines
<1>7. CASE WriteLast(np, x, append)
  <2>1. Len(c) \in 1 .. Len(c) /\ (append \/ n = 0) /\ lLast = c[Len(c)] /\ lLast \in ListNode
    BY <1>1, <1>2, <1>3, <1>7 DEF WriteLast, To
  <2>2. lLast # np
    BY <1>2, <1>4, <1>5, <2>1
  <2> DEFINE j == Len(c) + 1
  <2>3. To(c, j, ListNull) = ListNull /\ To(c, j - 1, ListNull) = lLast
        /\ j \in 1 .. Len(c) + 1 /\ j # 1
    BY <1>1, <1>2, <2>1 DEF To
  <2>4. lNext' = [p \in ListNode |-> IF p = np THEN To(c, j, ListNull)
                    ELSE IF p = To(c, j - 1, ListNull) THEN np ELSE lNext[p]]
    BY <1>2, <1>7, <2>1, <2>2, <2>3 DEF WriteLast
  <2>5. lPrev' = [p \in ListNode |-> IF p = np THEN To(c, j - 1, ListNull)
                    ELSE IF p = To(c, j, ListNull) THEN np ELSE lPrev[p]]
    BY <1>1, <1>2, <1>7, <2>1, <2>2, <2>3 DEF WriteLast
  <2>6. lFirst' = lFirst /\ lLast' = np
    BY <1>7 DEF WriteLast
  <2>7. j = IF append \/ n = 0 THEN Len(c) + 1 ELSE n
    BY <2>1
  <2>8. lFirst' = (IF j = 1 THEN np ELSE lFirst) /\ lLast' = (IF j = Len(c) + 1 THEN np ELSE lLast)
    BY <2>3, <2>6
  <2> HIDE DEF j
  <2>9. ListHolds(InsertAt(c, j, np), j)'
    BY <1>5, <2>3, <2>4, <2>5, <2>8, InsertHolds
  <2> QED
    BY <1>5, <2>3, <2>7, <2>9, InsertRefines
<1>8. CASE WriteFirst(np, x)
  <2>1. Len(c) >= 1 /\ 1 \in 1 .. Len(c) /\ lFirst = c[1] /\ lFirst \in ListNode /\ n # 0
    <3>1. Len(c) >= 1 /\ 1 \in 1 .. Len(c) /\ lCurr = lFirst
      BY <1>1, <1>8 DEF WriteFirst
    <3> QED
      BY <1>1, <1>2, <1>3, <3>1 DEF To
  <2>2. n = 1 /\ lFirst # np
    <3>1. c[n] = c[1] /\ n \in 1 .. Len(c)
      BY <1>1, <1>2, <1>8, <2>1 DEF WriteFirst, To
    <3> QED
      BY <1>1, <1>2, <1>4, <1>5, <2>1, <3>1 DEF Distinct
  <2>3. To(c, 1, ListNull) = lFirst /\ To(c, 1 - 1, ListNull) = ListNull
        /\ 1 \in 1 .. Len(c) + 1 /\ 1 # Len(c) + 1
    BY <1>1, <1>2, <2>1 DEF To
  <2>4. lNext' = [p \in ListNode |-> IF p = np THEN To(c, 1, ListNull)
                    ELSE IF p = To(c, 1 - 1, ListNull) THEN np ELSE lNext[p]]
    BY <1>1, <1>2, <1>8, <2>1, <2>2, <2>3 DEF WriteFirst
  <2>5. lPrev' = [p \in ListNode |-> IF p = np THEN To(c, 1 - 1, ListNull)
                    ELSE IF p = To(c, 1, ListNull) THEN np ELSE lPrev[p]]
    BY <1>1, <1>2, <1>8, <2>1, <2>2, <2>3 DEF WriteFirst
  <2>6. lFirst' = (IF 1 = 1 THEN np ELSE lFirst) /\ lLast' = (IF 1 = Len(c) + 1 THEN np ELSE lLast)
    BY <1>8, <2>3 DEF WriteFirst
  <2>7. ListHolds(InsertAt(c, 1, np), 1)'
    BY <1>5, <2>3, <2>4, <2>5, <2>6, InsertHolds
  <2>8. 1 = IF FALSE \/ n = 0 THEN Len(c) + 1 ELSE n
    BY <2>2
  <2> QED
    BY <1>5, <2>3, <2>7, <2>8, InsertRefines
<1>9. CASE WriteBetween(np, x)
  <2>1. n \in 2 .. Len(c) /\ lCurr = c[n] /\ lCurr \in ListNode
    <3>1. n \in 1 .. Len(c) /\ lCurr # lFirst
      BY <1>1, <1>3, <1>9 DEF WriteBetween
    <3> QED
      BY <1>1, <1>2, <3>1 DEF To
  <2>2. lPrev[lCurr] = To(c, n - 1, ListNull)
    BY <1>1, <1>2, <2>1 DEF LinkedBack
  <2>3. To(c, n, ListNull) = lCurr /\ n \in 1 .. Len(c) + 1 /\ n # Len(c) + 1 /\ n # 1
        /\ To(c, n - 1, ListNull) \in ListNode
    BY <1>1, <2>1 DEF To
  <2>4. lCurr # np /\ To(c, n - 1, ListNull) # np
    BY <1>2, <1>4, <1>5, <2>1, <2>3
  <2>5. lNext' = [p \in ListNode |-> IF p = np THEN To(c, n, ListNull)
                    ELSE IF p = To(c, n - 1, ListNull) THEN np ELSE lNext[p]]
    BY <1>2, <1>9, <2>2, <2>3, <2>4 DEF WriteBetween
  <2>6. lPrev' = [p \in ListNode |-> IF p = np THEN To(c, n - 1, ListNull)
                    ELSE IF p = To(c, n, ListNull) THEN np ELSE lPrev[p]]
    BY <1>2, <1>9, <2>1, <2>2, <2>3, <2>4 DEF WriteBetween
  <2>7. lFirst' = (IF n = 1 THEN np ELSE lFirst) /\ lLast' = (IF n = Len(c) + 1 THEN np ELSE lLast)
    BY <1>9, <2>3 DEF WriteBetween
  <2>8. ListHolds(InsertAt(c, n, np), n)'
    BY <1>5, <2>3, <2>5, <2>6, <2>7, InsertHolds
  <2>9. n = IF FALSE \/ n = 0 THEN Len(c) + 1 ELSE n
    BY <2>1
  <2> QED
    BY <1>5, <2>3, <2>8, <2>9, InsertRefines
<1> QED
  BY <1>6, <1>7, <1>8, <1>9

\* rim_list_delete(): what becomes current is the next element, or the one before
\* the last, or none.
LEMMA DeleteListHolds ==
  ASSUME NEW c, NEW n, ListHolds(c, n), DeleteList
  PROVE  /\ n \in 1 .. Len(c) /\ lData' = [lData EXCEPT ![c[n]] = ListNull]
         /\ ListHolds(RemoveAt(c, n), IF n < Len(c) THEN n ELSE n - 1)'
<1> DEFINE d == RemoveAt(c, n)
           m == IF n < Len(c) THEN n ELSE n - 1
<1>1. c \in Seq(ListNode) /\ Len(c) \in Nat /\ Distinct(c) /\ n \in 0 .. Len(c)
      /\ ListNull \notin ListNode
      /\ Linked(c, lNext, ListNull) /\ LinkedBack(c, lPrev, ListNull)
  BY ListAssumption DEF ListHolds
<1>2. n \in 1 .. Len(c) /\ lCurr = c[n] /\ c[n] \in ListNode /\ c[n] # ListNull
  BY <1>1 DEF ListHolds, DeleteList, To
<1>3. lNext[lCurr] = To(c, n + 1, ListNull) /\ lPrev[lCurr] = To(c, n - 1, ListNull)
  BY <1>1, <1>2 DEF Linked, LinkedBack
<1>4. d \in Seq(ListNode) /\ Len(d) = Len(c) - 1
  BY <1>1, <1>2, RemovedAt
<1>5. \A i \in 1 .. Len(c) - 1 : d[i] = IF i < n THEN c[i] ELSE c[i + 1]
  BY <1>1, <1>2, RemovedAt
<1>6. \A i : To(c, i, ListNull) \in ListNode \cup {ListNull}
  BY <1>1 DEF To
<1>7. /\ lNext' = [p \in ListNode |-> IF p = c[n] THEN ListNull
                     ELSE IF p = To(c, n - 1, ListNull) THEN To(c, n + 1, ListNull) ELSE lNext[p]]
      /\ lPrev' = [p \in ListNode |-> IF p = c[n] THEN ListNull
                     ELSE IF p = To(c, n + 1, ListNull) THEN To(c, n - 1, ListNull) ELSE lPrev[p]]
  BY <1>2, <1>3 DEF DeleteList
<1>8. /\ lNext \in [ListNode -> ListNode \cup {ListNull}]
      /\ lPrev \in [ListNode -> ListNode \cup {ListNull}]
  BY DEF ListHolds
<1>9. /\ lNext' \in [ListNode -> ListNode \cup {ListNull}]
      /\ lPrev' \in [ListNode -> ListNode \cup {ListNull}]
  BY <1>6, <1>7, <1>8
<1>10. /\ \A p \in ListNode \ {c[n]} : lNext'[p] =
            IF p = To(c, n - 1, ListNull) THEN To(c, n + 1, ListNull) ELSE lNext[p]
       /\ \A p \in ListNode \ {c[n]} : lPrev'[p] =
            IF p = To(c, n + 1, ListNull) THEN To(c, n - 1, ListNull) ELSE lPrev[p]
  BY <1>7
<1>11. /\ Distinct(d) /\ Nodes(d) = Nodes(c) \ {c[n]}
       /\ Linked(d, lNext', ListNull) /\ LinkedBack(d, lPrev', ListNull)
  BY <1>1, <1>2, <1>10, ChainRemoved
<1> HIDE DEF d
<1>12. To(c, n + 1, ListNull) = ListNull <=> n = Len(c)
  BY <1>1, <1>2 DEF To
<1>13. To(c, n - 1, ListNull) = ListNull <=> n = 1
  BY <1>1, <1>2 DEF To
<1>14. lFirst' = To(d, 1, ListNull)
  <2>1. lFirst' = IF n = 1 THEN To(c, n + 1, ListNull) ELSE To(c, 1, ListNull)
    BY <1>3, <1>13 DEF DeleteList, ListHolds
  <2>2. CASE n = 1
    BY <1>1, <1>4, <1>5, <2>1, <2>2 DEF To
  <2>3. CASE n # 1
    <3>1. 1 \in 1 .. Len(c) - 1 /\ d[1] = c[1]
      BY <1>1, <1>2, <1>5, <2>3
    <3> QED
      BY <1>1, <1>4, <2>1, <2>3, <3>1 DEF To
  <2> QED
    BY <2>2, <2>3
<1>15. lLast' = To(d, Len(d), ListNull)
  <2>1. lLast' = IF n = Len(c) THEN To(c, n - 1, ListNull) ELSE To(c, Len(c), ListNull)
    BY <1>3, <1>12 DEF DeleteList, ListHolds
  <2>2. CASE n = Len(c)
    BY <1>1, <1>2, <1>4, <1>5, <2>1, <2>2 DEF To
  <2>3. CASE n # Len(c)
    <3>1. Len(d) \in 1 .. Len(d) /\ Len(d) \in 1 .. Len(c) - 1 /\ ~ (Len(d) < n) /\ Len(d) + 1 = Len(c)
      BY <1>1, <1>2, <1>4, <2>3
    <3>2. d[Len(d)] = c[Len(c)]
      BY <1>5, <3>1
    <3>3. Len(c) \in 1 .. Len(c)
      BY <1>1, <1>2
    <3> QED
      BY <2>1, <2>3, <3>1, <3>2, <3>3 DEF To
  <2> QED
    BY <2>2, <2>3
<1>16. m \in 0 .. Len(d) /\ lCurr' = To(d, m, ListNull)
  <2>1. lCurr' = IF n # Len(c) \/ n = 1 THEN To(c, n + 1, ListNull) ELSE To(c, n - 1, ListNull)
    BY <1>3, <1>12, <1>13 DEF DeleteList, CurrentAfter
  <2>2. CASE n # Len(c)
    <3>1. m = n /\ n \in 1 .. Len(d) /\ d[n] = c[n + 1] /\ n + 1 \in 1 .. Len(c)
      BY <1>1, <1>2, <1>4, <1>5, <2>2
    <3> QED
      BY <1>4, <2>1, <2>2, <3>1 DEF To
  <2>3. CASE n = Len(c) /\ n = 1
    <3>1. m = 0 /\ Len(d) = 0 /\ To(c, n + 1, ListNull) = ListNull
      BY <1>1, <1>2, <1>4, <1>12, <2>3
    <3> QED
      BY <2>1, <2>3, <3>1 DEF To
  <2>4. CASE n = Len(c) /\ n # 1
    <3>1. m = n - 1 /\ m \in 1 .. Len(d) /\ d[m] = c[n - 1] /\ n - 1 \in 1 .. Len(c)
      BY <1>1, <1>2, <1>4, <1>5, <2>4
    <3> QED
      BY <1>4, <2>1, <2>4, <3>1 DEF To
  <2> QED
    BY <2>2, <2>3, <2>4
<1>17. lUsed' = Nodes(d) /\ lNumOf' = Len(d) /\ lData' = [lData EXCEPT ![c[n]] = ListNull]
  BY <1>2, <1>4, <1>11 DEF DeleteList, ListHolds
<1>18. lData' \in [ListNode -> ListString \cup {ListNull}]
  BY <1>17 DEF ListHolds
<1> HIDE DEF m
<1>19. ListHolds(d, m)'
  BY <1>4, <1>9, <1>11, <1>14, <1>15, <1>16, <1>17, <1>18 DEF ListHolds
<1> QED
  BY <1>2, <1>17, <1>19 DEF d, m

\* delete-list takes away the element at the position, as it promises.
LEMMA DeleteListRefines ==
  ASSUME NEW c, NEW n, ListHolds(c, n), DeleteList
  PROVE  ListInv' /\ ListItems!Next
<1> DEFINE m == IF n < Len(c) THEN n ELSE n - 1
<1>1. n \in 1 .. Len(c) /\ lData' = [lData EXCEPT ![c[n]] = ListNull]
      /\ ListHolds(RemoveAt(c, n), m)'
  BY DeleteListHolds
<1> HIDE DEF m
<1>2. /\ ListChain = c /\ ListAt = n /\ ListChain' = RemoveAt(c, n) /\ ListAt' = m
      /\ c \in Seq(ListNode)
  BY <1>1, ListTurns
<1>3. Distinct(c) /\ lData \in [ListNode -> ListString \cup {ListNull}] /\ lAnswer' = <<"delete">>
  BY DEF ListHolds, DeleteList
<1>4. Strings(RemoveAt(c, n), lData') = RemoveAt(Strings(c, lData), n)
  <2>1. lData' = Put(lData, c[n], ListNull)
    BY <1>1 DEF Put
  <2>2. Strings(RemoveAt(c, n), Put(lData, c[n], ListNull)) = RemoveAt(Strings(c, lData), n)
    BY <1>1, <1>2, <1>3, StringsRemoved
  <2> QED
    BY <2>1, <2>2
<1>5. Len(Strings(c, lData)) = Len(c)
  BY <1>2 DEF Strings
<1>6. /\ [i \in DOMAIN ListChain |-> lData[ListChain[i]]] = Strings(c, lData)
      /\ [i \in DOMAIN ListChain |-> lData[ListChain[i]]]' = RemoveAt(Strings(c, lData), n)
  BY <1>2, <1>4 DEF Strings
<1>7. ListItems!RemoveAt(Strings(c, lData), n) = RemoveAt(Strings(c, lData), n)
  BY DEF ListItems!RemoveAt, RemoveAt
<1>8. n # 0 /\ m = IF n < Len(c) THEN n ELSE n - 1
  BY <1>1 DEF m
<1>9. ListItems!RemoveCurrent
  BY <1>2, <1>3, <1>5, <1>6, <1>7, <1>8 DEF ListItems!RemoveCurrent, ListItems!Told
<1> QED
  BY <1>1, <1>9 DEF ListInv, ListItems!Next, ListItems!ListNext

\* read-list tells the current string, and may put another in its place.
LEMMA ReadListRefines ==
  ASSUME NEW c, NEW n, ListHolds(c, n), NEW x \in ListString, ReadList(x)
  PROVE  ListInv' /\ ListItems!Next
<1>1. c \in Seq(ListNode) /\ Distinct(c) /\ lData \in [ListNode -> ListString \cup {ListNull}]
  BY DEF ListHolds
<1>2. n \in 1 .. Len(c) /\ lCurr = c[n] /\ c[n] \in ListNode
  BY <1>1 DEF ListHolds, ReadList, To
<1>3. UNCHANGED <<lNext, lPrev, lUsed, lFirst, lLast, lNumOf, lCurr>>
      /\ lData' = [lData EXCEPT ![c[n]] = x] /\ lAnswer' = <<"read", lData[c[n]]>>
  BY <1>2 DEF ReadList, lChainVars
<1>4. lData' \in [ListNode -> ListString \cup {ListNull}]
  BY <1>1, <1>3
<1>5. ListHolds(c, n)'
  BY <1>3, <1>4 DEF ListHolds
<1>6. ListChain = c /\ ListAt = n /\ ListChain' = c /\ ListAt' = n
  BY <1>5, ListTurns
<1>7. Strings(c, lData') = [Strings(c, lData) EXCEPT ![n] = x]
  <2>1. /\ c \in Seq(ListNode) /\ Distinct(c) /\ n \in 1 .. Len(c)
        /\ lData \in [ListNode -> ListString \cup {ListNull}]
        /\ lData' = Put(lData, c[n], x)
    BY <1>1, <1>2, <1>3 DEF Put
  <2>2. Strings(c, lData') = Put(Strings(c, lData), n, x)
    BY <2>1, StringsUpdated
  <2> QED
    BY <2>2 DEF Put
<1>8. /\ [i \in DOMAIN ListChain |-> lData[ListChain[i]]] = Strings(c, lData)
      /\ [i \in DOMAIN ListChain |-> lData[ListChain[i]]]' = [Strings(c, lData) EXCEPT ![n] = x]
  BY <1>6, <1>7 DEF Strings
<1>9. Strings(c, lData)[n] = lData[c[n]] /\ n # 0
  BY <1>1, <1>2 DEF Strings
<1>10. ListItems!Update(x)
  BY <1>3, <1>6, <1>8, <1>9 DEF ListItems!Update, ListItems!Told
<1> QED
  BY <1>5, <1>10 DEF ListInv, ListItems!Next, ListItems!ListNext

\* Statements that find no current element, and get-list, change nothing.
LEMMA NothingRefines ==
  ASSUME NEW c, NEW n, ListHolds(c, n),
         ReadNothing("read") \/ ReadNothing("delete") \/ CountList
  PROVE  ListInv' /\ ListItems!Next
<1>1. UNCHANGED <<lNext, lPrev, lUsed, lFirst, lLast, lNumOf, lCurr, lData>>
  BY DEF ReadNothing, CountList, lChainVars
<1>2. ListHolds(c, n)'
  BY <1>1 DEF ListHolds
<1>3. /\ ListChain = c /\ ListAt = n /\ ListChain' = c /\ ListAt' = n /\ c \in Seq(ListNode)
      /\ (lCurr = ListNull <=> n = 0) /\ lNumOf = Len(c)
  BY <1>2, ListTurns
<1>4. /\ [i \in DOMAIN ListChain |-> lData[ListChain[i]]]' = [i \in DOMAIN ListChain |-> lData[ListChain[i]]]
      /\ Len([i \in DOMAIN ListChain |-> lData[ListChain[i]]]) = Len(c)
  BY <1>1, <1>3
<1>5. CASE ReadNothing("read") \/ ReadNothing("delete")
  <2>1. n = 0 /\ (lAnswer' = <<"read", "ERR_EXIST">> \/ lAnswer' = <<"delete", "ERR_EXIST">>)
    BY <1>3, <1>5 DEF ReadNothing
  <2>2. ListItems!PeekNothing
    BY <1>3, <1>4, <2>1
       DEF ListItems!PeekNothing, ListItems!Nothing, ListItems!Told, ListItems!Stay
  <2> QED
    BY <1>2, <2>2 DEF ListInv, ListItems!Next, ListItems!ListNext
<1>6. CASE CountList
  <2>1. lAnswer' = <<"count", Len(c)>>
    BY <1>3, <1>6 DEF CountList
  <2>2. ListItems!Count
    BY <1>3, <1>4, <2>1 DEF ListItems!Count, ListItems!Told, ListItems!Stay
  <2> QED
    BY <1>2, <2>2 DEF ListInv, ListItems!Next, ListItems!ListNext
<1> QED
  BY <1>5, <1>6

\* What the positions of position-list are called.
LEMMA Places ==
  /\ ListItems!Place("first") = 1
  /\ ListItems!Place("last") = Len([i \in DOMAIN ListChain |-> lData[ListChain[i]]])
  /\ ListItems!Place("end") = 0
  /\ ListItems!Place("previous") =
       IF ListAt = 0 THEN Len([i \in DOMAIN ListChain |-> lData[ListChain[i]]]) ELSE ListAt - 1
  /\ ListItems!Place("next") =
       IF ListAt = Len([i \in DOMAIN ListChain |-> lData[ListChain[i]]]) THEN 0 ELSE ListAt + 1
BY Zenon DEF ListItems!Place

\* position-list to the m-th element: what is current moves, and nothing else.
LEMMA PositionedHolds ==
  ASSUME NEW c, NEW n, ListHolds(c, n), NEW m \in 0 .. Len(c),
         Positioned(To(c, m, ListNull))
  PROVE  /\ ListHolds(c, m)'
         /\ ListChain = c /\ ListAt = n /\ ListChain' = c /\ ListAt' = m
         /\ lAnswer' = <<"position">>
         /\ [i \in DOMAIN ListChain |-> lData[ListChain[i]]]'
              = [i \in DOMAIN ListChain |-> lData[ListChain[i]]]
         /\ Len([i \in DOMAIN ListChain |-> lData[ListChain[i]]]) = Len(c)
<1>1. UNCHANGED <<lNext, lPrev, lUsed, lFirst, lLast, lNumOf, lData>>
      /\ lCurr' = To(c, m, ListNull) /\ lAnswer' = <<"position">>
  BY DEF Positioned, lChainVars
<1>2. ListHolds(c, m)'
  BY <1>1 DEF ListHolds
<1>3. ListChain = c /\ ListAt = n /\ ListChain' = c /\ ListAt' = m /\ c \in Seq(ListNode)
  BY <1>2, ListTurns
<1> QED
  BY <1>1, <1>2, <1>3

\* The five ways to position a list.
LEMMA PositionRefines ==
  ASSUME NEW c, NEW n, ListHolds(c, n),
         PositionFirst \/ PositionLast \/ PositionEnd \/ PositionPrevious \/ PositionNext
  PROVE  ListInv' /\ ListItems!Next
<1> DEFINE items == [i \in DOMAIN ListChain |-> lData[ListChain[i]]]
<1>1. c \in Seq(ListNode) /\ Len(c) \in Nat /\ n \in 0 .. Len(c) /\ Distinct(c)
      /\ ListNull \notin ListNode
      /\ Linked(c, lNext, ListNull) /\ LinkedBack(c, lPrev, ListNull)
      /\ lFirst = To(c, 1, ListNull) /\ lLast = To(c, Len(c), ListNull)
      /\ lCurr = To(c, n, ListNull) /\ lNumOf = Len(c)
  BY ListAssumption DEF ListHolds
<1>2. Len(c) >= 1 /\ Len(c) # 0
  BY <1>1 DEF PositionFirst, PositionLast, PositionEnd, PositionPrevious, PositionNext
<1>3. lCurr = ListNull <=> n = 0
  BY <1>1, PlaceIs
<1>4. lCurr = lFirst <=> n = 1
  <2>1. 1 \in 1 .. Len(c) /\ lFirst = c[1] /\ c[1] # ListNull
    BY <1>1, <1>2 DEF To
  <2> QED
    BY <1>1, <2>1 DEF To, Distinct
<1>5. ASSUME NEW m \in 0 .. Len(c), Positioned(To(c, m, ListNull)),
             NEW where \in {"first", "last", "end", "previous", "next"},
             ListItems!Place(where) = m,
             where = "previous" => n # 1, where = "next" => n # 0
      PROVE  ListInv' /\ ListItems!Next
  <2>1. /\ ListHolds(c, m)'
        /\ ListChain = c /\ ListAt = n /\ ListChain' = c /\ ListAt' = m
        /\ lAnswer' = <<"position">> /\ items' = items /\ Len(items) = Len(c)
    BY <1>5, PositionedHolds
  <2>2. items # <<>>
    BY <1>2, <2>1
  <2> HIDE DEF items
  <2>3. ListItems!Move(where)
    BY <1>5, <2>1, <2>2 DEF ListItems!Move, ListItems!CanMove, ListItems!Told, items
  <2> QED
    BY <2>1, <2>3 DEF ListInv, ListItems!Next, ListItems!ListNext
<1>6. ListAt = n /\ Len(items) = Len(c)
  <2>1. ListChain = c /\ ListAt = n
    BY ListIsRead DEF ListReads
  <2> QED
    BY <1>1, <2>1
<1> HIDE DEF items
<1>7. /\ ListItems!Place("first") = 1 /\ ListItems!Place("last") = Len(c)
      /\ ListItems!Place("end") = 0
      /\ ListItems!Place("previous") = IF n = 0 THEN Len(c) ELSE n - 1
      /\ ListItems!Place("next") = IF n = Len(c) THEN 0 ELSE n + 1
  BY <1>6, Places DEF items
<1>8. CASE PositionFirst
  <2>1. Positioned(To(c, 1, ListNull)) /\ 1 \in 0 .. Len(c)
    BY <1>1, <1>2, <1>8 DEF PositionFirst
  <2> QED
    BY <1>5, <1>7, <2>1
<1>9. CASE PositionLast
  <2>1. Positioned(To(c, Len(c), ListNull)) /\ Len(c) \in 0 .. Len(c)
    BY <1>1, <1>9 DEF PositionLast
  <2> QED
    BY <1>5, <1>7, <2>1
<1>10. CASE PositionEnd
  <2>1. Positioned(To(c, 0, ListNull)) /\ 0 \in 0 .. Len(c)
    BY <1>1, <1>10 DEF PositionEnd, To
  <2> QED
    BY <1>5, <1>7, <2>1
<1>11. CASE PositionPrevious
  <2> DEFINE m == IF n = 0 THEN Len(c) ELSE n - 1
  <2>1. m \in 0 .. Len(c) /\ n # 1
    BY <1>1, <1>4, <1>11 DEF PositionPrevious
  <2>2. Positioned(To(c, m, ListNull))
    <3>1. CASE n = 0
      BY <1>1, <1>3, <1>11, <3>1 DEF PositionPrevious
    <3>2. CASE n # 0
      <4>1. lPrev[lCurr] = To(c, n - 1, ListNull)
        BY <1>1, <3>2 DEF LinkedBack, To
      <4> QED
        BY <1>3, <1>11, <3>2, <4>1 DEF PositionPrevious
    <3> QED
      BY <3>1, <3>2
  <2>3. ListItems!Place("previous") = m
    BY <1>7
  <2> HIDE DEF m
  <2> QED
    BY <1>5, <2>1, <2>2, <2>3
<1>12. CASE PositionNext
  <2> DEFINE m == IF n = Len(c) THEN 0 ELSE n + 1
  <2>1. n # 0 /\ m \in 0 .. Len(c)
    BY <1>1, <1>3, <1>12 DEF PositionNext
  <2>2. Positioned(To(c, m, ListNull))
    <3>1. lNext[lCurr] = To(c, n + 1, ListNull)
      BY <1>1, <2>1 DEF Linked, To
    <3>2. To(c, n + 1, ListNull) = To(c, m, ListNull)
      BY <1>1, <2>1 DEF To
    <3> QED
      BY <1>12, <3>1, <3>2 DEF PositionNext
  <2>3. ListItems!Place("next") = m
    BY <1>7
  <2> HIDE DEF m
  <2> QED
    BY <1>5, <2>1, <2>2, <2>3
<1> QED
  BY <1>8, <1>9, <1>10, <1>11, <1>12

\* A list that is not positioned: it is empty, or at the end that was asked for.
LEMMA NoPositionRefines ==
  ASSUME NEW c, NEW n, ListHolds(c, n), NoPosition
  PROVE  ListInv' /\ ListItems!Next
<1> DEFINE items == [i \in DOMAIN ListChain |-> lData[ListChain[i]]]
<1>1. UNCHANGED <<lNext, lPrev, lUsed, lFirst, lLast, lNumOf, lCurr, lData>>
      /\ lAnswer' = <<"position", "ERR_EXIST">>
  BY DEF NoPosition, lChainVars
<1>2. ListHolds(c, n)'
  BY <1>1 DEF ListHolds
<1>3. /\ ListChain = c /\ ListAt = n /\ ListChain' = c /\ ListAt' = n /\ c \in Seq(ListNode)
      /\ (lCurr = ListNull <=> n = 0) /\ lNumOf = Len(c)
  BY <1>2, ListTurns
<1>4. items' = items /\ (items = <<>> <=> Len(c) = 0)
  BY <1>1, <1>3
<1>5. c \in Seq(ListNode) /\ Len(c) \in Nat /\ n \in 0 .. Len(c) /\ Distinct(c)
      /\ ListNull \notin ListNode
      /\ lFirst = To(c, 1, ListNull) /\ lCurr = To(c, n, ListNull)
  BY ListAssumption DEF ListHolds
<1>6. Len(c) = 0 \/ n = 1 \/ n = 0
  <2>1. lNumOf = 0 \/ lCurr = lFirst \/ lCurr = ListNull
    BY DEF NoPosition
  <2>2. CASE Len(c) # 0 /\ lCurr = lFirst
    <3>1. 1 \in 1 .. Len(c) /\ lFirst = c[1] /\ c[1] # ListNull
      BY <1>5, <2>2 DEF To
    <3> QED
      BY <1>5, <2>2, <3>1 DEF To, Distinct
  <2> QED
    BY <1>3, <2>1, <2>2
<1> HIDE DEF items
<1>7. PICK where \in {"first", "previous", "next"} :
        items = <<>> \/ (where = "previous" /\ n = 1) \/ (where = "next" /\ n = 0)
  BY <1>4, <1>6
<1>8. ~ ListItems!CanMove(where)
  BY <1>3, <1>7 DEF ListItems!CanMove, items
<1>9. ListItems!MoveNot(where)
  BY <1>1, <1>3, <1>4, <1>8
     DEF ListItems!MoveNot, ListItems!Nothing, ListItems!Told, ListItems!Stay, items
<1> QED
  BY <1>2, <1>7, <1>9 DEF ListInv, ListItems!Next, ListItems!ListNext

\* new-list holds nothing, and so does what purge-list leaves.
LEMMA EmptyListHolds ==
  /\ ListInit => ListHolds(<<>>, 0)
  /\ \A c, n : ListHolds(c, n) /\ PurgeList => ListHolds(<<>>, 0)'
<1>1. /\ <<>> \in Seq(ListNode) /\ Distinct(<<>>) /\ 0 \in 0 .. Len(<<>>)
      /\ \A next : Linked(<<>>, next, ListNull) /\ LinkedBack(<<>>, next, ListNull)
      /\ \A i : To(<<>>, i, ListNull) = ListNull
      /\ Nodes(<<>>) = {} /\ Len(<<>>) = 0
  BY DEF Distinct, Linked, LinkedBack, To, Nodes
<1>2. ListInit => ListHolds(<<>>, 0)
  BY <1>1 DEF ListInit, ListHolds
<1>3. ASSUME NEW c, NEW n, ListHolds(c, n), PurgeList PROVE ListHolds(<<>>, 0)'
  <2>1. ListChain = c
    BY <1>3, ListIsRead DEF ListReads
  <2>2. lUsed' = {}
    BY <1>3, <2>1 DEF PurgeList, ListHolds, Nodes
  <2>3. lNext' = [p \in ListNode |-> ListNull] /\ lPrev' = lNext' /\ lData' = lNext' /\ lNumOf' = 0
        /\ lFirst' = ListNull /\ lLast' = ListNull /\ lCurr' = ListNull
    BY <1>3 DEF PurgeList
  <2> QED
    BY <1>1, <2>2, <2>3 DEF ListHolds
<1> QED
  BY <1>2, <1>3

\* For the program purge-list leaves an empty list.
LEMMA PurgeListRefines ==
  ASSUME NEW c, NEW n, ListHolds(c, n), PurgeList
  PROVE  ListInv' /\ ListItems!Next
<1>1. ListHolds(<<>>, 0)'
  BY EmptyListHolds
<1>2. ListChain' = <<>> /\ ListAt' = 0
  BY <1>1, ListTurns
<1>3. [i \in DOMAIN ListChain |-> lData[ListChain[i]]]' = <<>>
  BY <1>2
<1>4. lAnswer' = <<"purge">>
  BY DEF PurgeList
<1>5. ListItems!Clear
  BY <1>2, <1>3, <1>4 DEF ListItems!Clear, ListItems!Told
<1> QED
  BY <1>1, <1>5 DEF ListInv, ListItems!Next

\* Steps that leave the list alone leave the sequence alone.
LEMMA ListStutters ==
  ASSUME ListInv, UNCHANGED listVars
  PROVE  ListInv' /\ UNCHANGED ListItems!vars
<1>1. PICK c, n : ListHolds(c, n)
  BY DEF ListInv
<1>2. UNCHANGED <<lNext, lPrev, lUsed, lFirst, lLast, lNumOf, lCurr, lData, lAnswer>>
  BY DEF listVars, lChainVars
<1>3. ListHolds(c, n)'
  BY <1>1, <1>2 DEF ListHolds
<1>4. ListChain' = ListChain /\ ListAt' = ListAt
  BY <1>1, <1>3, ListTurns
<1>5. [i \in DOMAIN ListChain |-> lData[ListChain[i]]]' = [i \in DOMAIN ListChain |-> lData[ListChain[i]]]
  BY <1>2, <1>4
<1> QED
  BY <1>2, <1>3, <1>4, <1>5 DEF ListInv, ListItems!vars

\* For any number of nodes, and whatever statements a program mixes, the nodes and
\* their pointers both ways implement a sequence with a current element.
THEOREM ListImplementsSequence == ListSpec => ListIsSequence
<1>1. ASSUME ListInit PROVE ListInv /\ ListItems!Init
  <2>1. ListHolds(<<>>, 0)
    BY <1>1, EmptyListHolds
  <2>2. ListChain = <<>> /\ ListAt = 0
    BY <2>1, ListIsRead DEF ListReads
  <2>3. [i \in DOMAIN ListChain |-> lData[ListChain[i]]] = <<>>
    BY <2>2
  <2>4. lAnswer = <<"new">>
    BY <1>1 DEF ListInit
  <2> QED
    BY <2>1, <2>2, <2>3, <2>4 DEF ListInv, ListItems!Init
<1>2. ASSUME ListInv, [ListNext]_listVars PROVE ListInv' /\ [ListItems!Next]_(ListItems!vars)
  <2>1. CASE UNCHANGED listVars
    BY <1>2, <2>1, ListStutters
  <2>2. CASE ListNext
    <3>1. PICK c, n : ListHolds(c, n)
      BY <1>2 DEF ListInv
    <3>2. CASE \E np \in ListNode, x \in ListString :
                 \/ WriteOnly(np, x) \/ WriteFirst(np, x) \/ WriteBetween(np, x)
                 \/ \E append \in BOOLEAN : WriteLast(np, x, append)
      <4>1. PICK np \in ListNode, x \in ListString, append \in BOOLEAN :
              \/ WriteOnly(np, x) \/ WriteFirst(np, x) \/ WriteBetween(np, x)
              \/ WriteLast(np, x, append)
        BY <3>2
      <4> QED
        BY <3>1, <4>1, WriteListRefines
    <3>3. CASE \E x \in ListString : ReadList(x)
      BY <3>1, <3>3, ReadListRefines
    <3>4. CASE ReadNothing("read") \/ ReadNothing("delete") \/ CountList
      BY <3>1, <3>4, NothingRefines
    <3>5. CASE PositionFirst \/ PositionLast \/ PositionEnd \/ PositionPrevious \/ PositionNext
      BY <3>1, <3>5, PositionRefines
    <3>6. CASE DeleteList \/ NoPosition \/ PurgeList
      BY <3>1, <3>6, DeleteListRefines, NoPositionRefines, PurgeListRefines
    <3> QED
      BY <2>2, <3>2, <3>3, <3>4, <3>5, <3>6 DEF ListNext
  <2> QED
    BY <1>2, <2>1, <2>2
<1> QED
  BY <1>1, <1>2, PTL DEF ListSpec, ListIsSequence, ListItems!Spec

=============================================================================
