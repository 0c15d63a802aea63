---------------------------- MODULE RimMemProofs ----------------------------
(***************************************************************************)
(* Proofs about the memory manager, for any number of blocks and entries   *)
(* and any bound on the reference count. The invariant IInv says, besides  *)
(* the types, that every header names the entry of its block and that each *)
(* of the two lists runs through the entries it should.                    *)
(*                                                                         *)
(* That a list runs through a set of entries is said with a rank: the      *)
(* entries are numbered from the tail to the head, and next goes down by   *)
(* one. A push adds a rank, a pop takes the highest one away, and the swap *)
(* of rim_mem_del_ord leaves every next where it is.                       *)
(*                                                                         *)
(* The program sees no entries but blocks: a card has what the table says  *)
(* of one, and each call changes the cards of the blocks it is about. From *)
(* the cards follow MemBlocks and, with ScopeInv, what requests leave.     *)
(***************************************************************************)
EXTENDS RimMem, FiniteSetTheorems, TLAPS

Ranks(next, S, head, rank, n) ==
  /\ \A r \in S : rank[r] \in 1 .. n
  /\ \A r, s \in S : rank[r] = rank[s] => r = s
  /\ IF n = 0 THEN head = Nil ELSE head \in S /\ rank[head] = n
  /\ \A r \in S : IF rank[r] = 1 THEN next[r] = Nil
                  ELSE next[r] \in S /\ rank[next[r]] = rank[r] - 1

\* The list that starts at head runs through exactly the entries of S.
Listed(next, S, head) ==
  \E rank \in [Slot -> Nat], n \in Nat : Ranks(next, S, head, rank, n)

NextOf(m) == [r \in Slot |-> m.vm[r].next]
Ordinary(m) == {r \in Slot : Live(m, r) /\ ~ IsProcess(m, r)}
Freed(m) == {r \in Slot : r < m.curr /\ "free" \in m.vm[r].status}

Headers(m, hp) ==
  \A r \in Slot : Live(m, r) => m.vm[r].ptr \in hp /\ m.id[m.vm[r].ptr] = r

InTable(m, p) == \E r \in Slot : Live(m, r) /\ m.vm[r].ptr = p

\* What the table says of each block, whichever entry the block is in.
NoCard == [status |-> {"free"}, ref |-> 0]
Put(f, p, c) == [f EXCEPT ![p] = c]
NewCard(b) == [status |-> IF b THEN {"process"} ELSE {}, ref |-> 0]
Card(e) == [status |-> e.status, ref |-> e.ref]
ReferredCard(c, isProcess) ==
  [status |-> IF isProcess THEN c.status \cup {"process"} ELSE c.status,
   ref |-> CASE "process" \notin c.status -> 1
             [] isProcess /\ "process" \in c.status -> Incr(c.ref)
             [] OTHER -> c.ref]
UnreferredCard(c) ==
  LET left == IF c.ref > 0 THEN c.ref - 1 ELSE c.ref
  IN IF left = 0 THEN [status |-> c.status \ {"process"}, ref |-> 1]
     ELSE [status |-> c.status, ref |-> left]
CardSet == [status : SUBSET Bit, ref : RefCount]
Cards(m) == [p \in Block |-> IF InTable(m, p) THEN Card(m.vm[m.id[p]]) ELSE NoCard]

Lists(m, head) ==
  /\ Listed(NextOf(m), Ordinary(m), head)
  /\ Listed(NextOf(m), Freed(m), m.firstFree)

\* While rim_done() runs, what is left of the ordinary list starts at walk.
Head == IF phase = "done" THEN walk ELSE mem.firstOrd

IInv ==
  /\ TypeOK
  /\ Headers(mem, heap)
  /\ Lists(mem, Head)

-----------------------------------------------------------------------------
(* Lists.                                                                  *)

\* A list has a head unless it runs through nothing.
LEMMA HeadOfList ==
  ASSUME NEW next, NEW S, NEW head, Listed(next, S, head), Nil \notin S
  PROVE  /\ head \in S \cup {Nil}
         /\ head = Nil <=> S = {}
BY DEF Listed, Ranks

\* rim_mem_add_ord and rim_mem_release put an entry in front of a list.
LEMMA Push ==
  ASSUME NEW next, NEW S \in SUBSET Slot, NEW head, Listed(next, S, head),
         NEW r \in Slot, r \notin S,
         NEW next2, next2[r] = head, \A s \in S : next2[s] = next[s]
  PROVE  Listed(next2, S \cup {r}, r)
<1>1. PICK rank \in [Slot -> Nat], n \in Nat : Ranks(next, S, head, rank, n)
  BY DEF Listed
<1> DEFINE rank2 == [rank EXCEPT ![r] = n + 1]
<1>2. rank2 \in [Slot -> Nat]
  BY n + 1 \in Nat
<1>3. \A s \in S : rank2[s] = rank[s] /\ next2[s] = next[s]
  OBVIOUS
<1>4. rank2[r] = n + 1 /\ next2[r] = head
  OBVIOUS
<1> HIDE DEF rank2
<1>5. /\ \A s \in S : rank[s] \in 1 .. n
      /\ n # 0 => head \in S /\ rank[head] = n
      /\ n = 0 => head = Nil
      /\ \A s \in S : IF rank[s] = 1 THEN next[s] = Nil
                      ELSE next[s] \in S /\ rank[next[s]] = rank[s] - 1
      /\ \A s, t \in S : rank[s] = rank[t] => s = t
  BY <1>1 DEF Ranks
<1>6. \A s \in S \cup {r} : rank2[s] \in 1 .. n + 1
  BY <1>3, <1>4, <1>5
<1>7. \A s, t \in S \cup {r} : rank2[s] = rank2[t] => s = t
  BY <1>3, <1>4, <1>5
<1>8. \A s \in S : IF rank2[s] = 1 THEN next2[s] = Nil
                   ELSE next2[s] \in S /\ rank2[next2[s]] = rank2[s] - 1
  BY <1>3, <1>5
<1>9. IF rank2[r] = 1 THEN next2[r] = Nil
      ELSE next2[r] \in S /\ rank2[next2[r]] = rank2[r] - 1
  BY <1>3, <1>4, <1>5
<1>10. Ranks(next2, S \cup {r}, r, rank2, n + 1)
  BY <1>4, <1>6, <1>7, <1>8, <1>9 DEF Ranks
<1> QED
  BY <1>2, <1>10, n + 1 \in Nat DEF Listed

\* rim_add_mem and rim_mem_del_ord take the first entry off a list.
LEMMA Pop ==
  ASSUME NEW next \in [Slot -> Link], NEW S \in SUBSET Slot, NEW head,
         Listed(next, S, head), head # Nil
  PROVE  head \in S /\ Listed(next, S \ {head}, next[head])
<1>1. PICK rank \in [Slot -> Nat], n \in Nat : Ranks(next, S, head, rank, n)
  BY DEF Listed
<1>2. n # 0 /\ n - 1 \in Nat /\ head \in S /\ rank[head] = n
  BY <1>1 DEF Ranks
<1>3. \A s \in S \ {head} : rank[s] \in 1 .. n - 1
  BY <1>1, <1>2 DEF Ranks
<1>4. Ranks(next, S \ {head}, next[head], rank, n - 1)
  BY <1>1, <1>2, <1>3 DEF Ranks
<1> QED
  BY <1>2, <1>4 DEF Listed

\* A list is the same as long as the links of its entries are.
LEMMA SameList ==
  ASSUME NEW next, NEW S, NEW head, Listed(next, S, head),
         NEW next2, \A r \in S : next2[r] = next[r]
  PROVE  Listed(next2, S, head)
BY DEF Listed, Ranks

-----------------------------------------------------------------------------
(* What the table says of the blocks.                                      *)

\* A block the table knows is in the entry its header names.
LEMMA TrackedEntry ==
  ASSUME NEW m \in Memory, NEW hp, Headers(m, hp), NEW p,
         \E r \in Slot : Live(m, r) /\ m.vm[r].ptr = p
  PROVE  /\ m.id[p] \in Slot /\ Live(m, m.id[p]) /\ m.vm[m.id[p]].ptr = p
         /\ p \in hp
         /\ \A r \in Slot : Live(m, r) /\ m.vm[r].ptr = p => r = m.id[p]
BY DEF Headers

\* The card of a block is that of its one entry.
LEMMA CardOfLive ==
  ASSUME NEW m, NEW hp \in SUBSET Block, Headers(m, hp), NEW r \in Slot, Live(m, r)
  PROVE  /\ m.vm[r].ptr \in Block /\ InTable(m, m.vm[r].ptr)
         /\ Cards(m)[m.vm[r].ptr] = Card(m.vm[r])
<1>1. m.vm[r].ptr \in Block /\ m.id[m.vm[r].ptr] = r
  BY DEF Headers
<1>2. InTable(m, m.vm[r].ptr)
  BY DEF InTable
<1> QED
  BY <1>1, <1>2 DEF Cards

\* A block has the bit "free" on its card when no live entry points to it.
LEMMA CardIsFree ==
  ASSUME NEW m, NEW hp \in SUBSET Block, Headers(m, hp), NEW p \in Block
  PROVE  /\ InTable(m, p) <=> "free" \notin Cards(m)[p].status
         /\ ~ InTable(m, p) => Cards(m)[p] = NoCard
         /\ p \notin hp => ~ InTable(m, p)
<1>1. CASE InTable(m, p)
  <2>1. PICK r \in Slot : Live(m, r) /\ m.vm[r].ptr = p
    BY <1>1 DEF InTable
  <2>2. Cards(m)[p] = Card(m.vm[r])
    BY <2>1, CardOfLive
  <2> QED
    BY <1>1, <2>1, <2>2 DEF Card, Live, Headers
<1>2. CASE ~ InTable(m, p)
  BY <1>2 DEF Cards, NoCard
<1> QED
  BY <1>1, <1>2

\* Every card is in its range.
LEMMA CardsTyped ==
  ASSUME NEW m \in Memory, NEW hp \in SUBSET Block, Headers(m, hp)
  PROVE  Cards(m) \in [Block -> CardSet]
<1>1. NoCard \in CardSet
  BY MemAssumption DEF NoCard, CardSet, Bit, RefCount
<1>2. ASSUME NEW p \in Block, InTable(m, p) PROVE Card(m.vm[m.id[p]]) \in CardSet
  <2>1. m.id[p] \in Slot /\ m.vm[m.id[p]] \in Entry
    BY <1>2 DEF InTable, Headers, Memory
  <2> QED
    BY <2>1 DEF Entry, Card, CardSet
<1> QED
  BY <1>1, <1>2 DEF Cards

\* The card of a block goes with the block when the block changes entries.
LEMMA SameCard ==
  ASSUME NEW m, NEW hp \in SUBSET Block, Headers(m, hp),
         NEW mm, NEW hq \in SUBSET Block, Headers(mm, hq), NEW p \in Block,
         \A r \in Slot : Live(m, r) /\ m.vm[r].ptr = p
           => \E s \in Slot : Live(mm, s) /\ mm.vm[s].ptr = p /\ Card(mm.vm[s]) = Card(m.vm[r]),
         \A s \in Slot : Live(mm, s) /\ mm.vm[s].ptr = p => InTable(m, p)
  PROVE  Cards(mm)[p] = Cards(m)[p]
<1>1. CASE InTable(m, p)
  <2>1. PICK r \in Slot : Live(m, r) /\ m.vm[r].ptr = p
    BY <1>1 DEF InTable
  <2>2. PICK s \in Slot : Live(mm, s) /\ mm.vm[s].ptr = p /\ Card(mm.vm[s]) = Card(m.vm[r])
    BY <2>1
  <2>3. Cards(m)[p] = Card(m.vm[r]) /\ Cards(mm)[p] = Card(mm.vm[s])
    BY <2>1, <2>2, CardOfLive
  <2> QED
    BY <2>2, <2>3
<1>2. CASE ~ InTable(m, p)
  BY <1>2 DEF Cards, InTable
<1> QED
  BY <1>1, <1>2

\* Two tables that differ in the card of one block, or of none.
LEMMA CardsExcept ==
  ASSUME NEW m, NEW mm, NEW p \in Block, NEW c, Cards(mm)[p] = c,
         \A q \in Block \ {p} : Cards(mm)[q] = Cards(m)[q]
  PROVE  Cards(mm) = Put(Cards(m), p, c)
<1> DEFINE f == Cards(m)
           g == Cards(mm)
<1>1. f = [q \in Block |-> f[q]] /\ g = [q \in Block |-> g[q]]
  BY DEF Cards
<1> HIDE DEF f, g
<1>2. g = [f EXCEPT ![p] = c]
  <2>1. g[p] = c /\ \A q \in Block \ {p} : g[q] = f[q]
    BY DEF f, g
  <2>2. DOMAIN g = Block /\ DOMAIN f = Block
    BY <1>1
  <2> QED
    BY <1>1, <2>1, <2>2
<1> QED
  BY <1>2 DEF f, g, Put

\* Two tables whose blocks all have the same cards
LEMMA CardsEqual ==
  ASSUME NEW m, NEW mm, \A q \in Block : Cards(mm)[q] = Cards(m)[q]
  PROVE  Cards(mm) = Cards(m)
<1> DEFINE f == Cards(m)
           g == Cards(mm)
<1>1. f = [q \in Block |-> f[q]] /\ g = [q \in Block |-> g[q]]
  BY DEF Cards
<1>2. \A q \in Block : g[q] = f[q]
  OBVIOUS
<1> HIDE DEF f, g
<1>3. g = f
  BY <1>1, <1>2
<1> QED
  BY <1>3 DEF f, g

-----------------------------------------------------------------------------
(* The functions of rimmem.c.                                              *)

\* The two lists are disjoint and every list has a head in the table.
LEMMA ListHeads ==
  ASSUME NEW m \in Memory, NEW head \in Link, Lists(m, head)
  PROVE  /\ NextOf(m) \in [Slot -> Link]
         /\ head \in Ordinary(m) \cup {Nil}
         /\ head = Nil <=> Ordinary(m) = {}
         /\ m.firstFree \in Freed(m) \cup {Nil}
         /\ Ordinary(m) \cap Freed(m) = {}
<1>1. Nil \notin Ordinary(m) /\ Nil \notin Freed(m)
  BY MemAssumption DEF Ordinary, Freed, Slot, Nil
<1>2. NextOf(m) \in [Slot -> Link]
  BY DEF NextOf, Memory, Entry
<1>3. Ordinary(m) \cap Freed(m) = {}
  BY DEF Ordinary, Freed, Live
<1> QED
  BY <1>1, <1>2, <1>3, HeadOfList DEF Lists

\* rim_mem_del_ord brings the block of an ordinary entry to the head of the
\* list and takes that entry off; no other block loses its entry.
LEMMA DelOrdResult ==
  ASSUME NEW m \in Memory, NEW hp \in SUBSET Block, Headers(m, hp), Lists(m, m.firstOrd),
         NEW r \in Ordinary(m)
  PROVE  LET d == m.firstOrd
             mm == DelOrd(m, r)
         IN /\ mm \in Memory
            /\ d \in Ordinary(m)
            /\ mm.vm[d] = [m.vm[r] EXCEPT !.next = m.vm[d].next]
            /\ mm.id[m.vm[r].ptr] = d
            /\ mm.curr = m.curr /\ mm.firstFree = m.firstFree
            /\ mm.firstOrd = m.vm[d].next
            /\ NextOf(mm) = NextOf(m)
            /\ Ordinary(mm) = Ordinary(m) /\ Freed(mm) = Freed(m)
            /\ Headers(mm, hp) /\ Cards(mm) = Cards(m)
            /\ Listed(NextOf(m), Ordinary(m) \ {d}, mm.firstOrd)
<1> DEFINE d == m.firstOrd
           mm == DelOrd(m, r)
           p == m.vm[r].ptr
           e == m.vm[d].ptr
<1>1. d \in Ordinary(m) /\ d \in Slot /\ r \in Slot /\ NextOf(m) \in [Slot -> Link]
  BY ListHeads, m.firstOrd \in Link DEF Ordinary, Memory
<1>2. Listed(NextOf(m), Ordinary(m) \ {d}, NextOf(m)[d])
  <2>1. Nil \notin Slot
    BY MemAssumption DEF Slot, Nil
  <2> QED
    BY <1>1, <2>1, Pop, Ordinary(m) \in SUBSET Slot DEF Lists, Ordinary
<1>3. NextOf(m)[d] = m.vm[d].next
  BY <1>1 DEF NextOf
<1>4. p \in hp /\ e \in hp /\ m.id[p] = r /\ m.id[e] = d
  BY <1>1 DEF Headers, Ordinary
<1>5. CASE r = d
  <2>1. mm = [m EXCEPT !.firstOrd = m.vm[d].next]
    BY <1>5 DEF DelOrd
  <2>2. mm \in Memory /\ mm.vm = m.vm /\ mm.id = m.id /\ mm.curr = m.curr
        /\ mm.firstFree = m.firstFree /\ mm.firstOrd = m.vm[d].next
    BY <1>1, <2>1 DEF Memory, Entry
  <2>3. mm.vm[d] = [m.vm[r] EXCEPT !.next = m.vm[d].next]
    BY <1>1, <1>5, <2>2 DEF Memory, Entry
  <2>4. Cards(mm) = Cards(m)
    BY <2>2 DEF Cards, InTable, Live
  <2> HIDE DEF mm
  <2> QED
    BY <1>1, <1>2, <1>3, <1>4, <1>5, <2>2, <2>3, <2>4
       DEF mm, NextOf, Ordinary, Freed, Headers, Live, IsProcess
<1>6. CASE r # d
  <2>1. p # e
    BY <1>4, <1>6
  <2>2. /\ mm.vm = [m.vm EXCEPT ![r] = [m.vm[d] EXCEPT !.next = m.vm[r].next],
                               ![d] = [m.vm[r] EXCEPT !.next = m.vm[d].next]]
        /\ mm.id = [m.id EXCEPT ![e] = r, ![p] = d]
        /\ mm.curr = m.curr /\ mm.firstFree = m.firstFree /\ mm.firstOrd = m.vm[d].next
        /\ mm \in [vm : {mm.vm}, curr : {mm.curr}, firstFree : {mm.firstFree},
                    firstOrd : {mm.firstOrd}, id : {mm.id}]
    <3> DEFINE sw == Swap(m, r, d)
    <3>1. /\ sw.vm = [m.vm EXCEPT ![r] = [m.vm[d] EXCEPT !.next = m.vm[r].next],
                                 ![d] = [m.vm[r] EXCEPT !.next = m.vm[d].next]]
          /\ sw.id = [m.id EXCEPT ![e] = r, ![p] = d]
          /\ sw.curr = m.curr /\ sw.firstFree = m.firstFree
          /\ sw \in [vm : {sw.vm}, curr : {sw.curr}, firstFree : {sw.firstFree},
                      firstOrd : {sw.firstOrd}, id : {sw.id}]
      BY <1>4 DEF Swap, Memory
    <3>2. mm = [sw EXCEPT !.firstOrd = m.vm[d].next]
      BY <1>6 DEF DelOrd
    <3> HIDE DEF sw, mm
    <3> QED
      BY <3>1, <3>2
  <2>3. m.vm[r] \in Entry /\ m.vm[d] \in Entry
    BY <1>1 DEF Memory
  <2>4. mm \in Memory
    <3>1. /\ [m.vm[d] EXCEPT !.next = m.vm[r].next] \in Entry
          /\ [m.vm[r] EXCEPT !.next = m.vm[d].next] \in Entry
      BY <2>3 DEF Entry
    <3>2. mm.vm \in [Slot -> Entry]
      BY <1>1, <2>2, <3>1 DEF Memory
    <3>3. mm.id \in [Block -> Link]
      BY <1>1, <2>2 DEF Memory, Link
    <3>4. m.vm[d].next \in Link
      BY <2>3 DEF Entry
    <3> HIDE DEF mm
    <3> QED
      BY <2>2, <3>2, <3>3, <3>4 DEF Memory
  <2>5. /\ mm.vm[r] = [m.vm[d] EXCEPT !.next = m.vm[r].next]
        /\ mm.vm[d] = [m.vm[r] EXCEPT !.next = m.vm[d].next]
        /\ \A s \in Slot \ {r, d} : mm.vm[s] = m.vm[s]
        /\ mm.id[p] = d /\ mm.id[e] = r
        /\ \A q \in hp \ {p, e} : mm.id[q] = m.id[q]
    BY <1>1, <1>4, <1>6, <2>1, <2>2 DEF Memory
  <2> HIDE DEF mm, d, p, e
  <2>6. NextOf(mm) = NextOf(m)
    BY <1>1, <2>3, <2>5 DEF NextOf, Entry
  <2>7. Ordinary(mm) = Ordinary(m) /\ Freed(mm) = Freed(m)
    BY <1>1, <1>6, <2>2, <2>3, <2>5 DEF Ordinary, Freed, Live, IsProcess, Entry
  <2>8. Headers(mm, hp)
    <3>1. mm.vm[r].ptr = e /\ mm.vm[d].ptr = p
      BY <2>3, <2>5 DEF Entry, p, e
    <3>2. \A s \in Slot \ {r, d} : Live(m, s) => m.vm[s].ptr \in hp \ {p, e} /\ m.id[m.vm[s].ptr] = s
      BY <1>1, <1>4 DEF Headers, p, e
    <3> QED
      BY <1>4, <2>2, <2>5, <3>1, <3>2 DEF Headers, Live
  <2>9. Cards(mm) = Cards(m)
    <3>1. /\ mm.vm[r].ptr = m.vm[d].ptr /\ Card(mm.vm[r]) = Card(m.vm[d])
          /\ mm.vm[d].ptr = m.vm[r].ptr /\ Card(mm.vm[d]) = Card(m.vm[r])
      BY <2>3, <2>5 DEF Entry, Card
    <3>2. /\ Live(m, r) /\ Live(m, d) /\ Live(mm, r) /\ Live(mm, d)
          /\ \A s \in Slot \ {r, d} : mm.vm[s] = m.vm[s] /\ (Live(mm, s) <=> Live(m, s))
      BY <2>2, <2>5, <2>7, <1>1 DEF Ordinary, Live
    <3>3. ASSUME NEW q \in Block PROVE Cards(mm)[q] = Cards(m)[q]
      <4>1. ASSUME NEW s \in Slot, Live(m, s), m.vm[s].ptr = q
            PROVE  \E t \in Slot : Live(mm, t) /\ mm.vm[t].ptr = q /\ Card(mm.vm[t]) = Card(m.vm[s])
        <5>1. CASE s = r
          BY <1>1, <3>1, <3>2, <4>1, <5>1
        <5>2. CASE s = d
          BY <1>1, <3>1, <3>2, <4>1, <5>2
        <5>3. CASE s \notin {r, d}
          BY <3>2, <4>1, <5>3
        <5> QED
          BY <5>1, <5>2, <5>3
      <4>2. ASSUME NEW s \in Slot, Live(mm, s), mm.vm[s].ptr = q PROVE InTable(m, q)
        BY <1>1, <3>1, <3>2, <4>2 DEF InTable
      <4> QED
        BY <2>8, <4>1, <4>2, SameCard
    <3> QED
      BY <3>3, CardsEqual
  <2> QED
    BY <1>1, <1>2, <1>3, <2>2, <2>4, <2>5, <2>6, <2>7, <2>8, <2>9 DEF mm, d, p, e
<1> QED
  BY <1>5, <1>6

\* rim_mem_release puts an entry that left the ordinary list, or was never on
\* it, on the free list; its block is no longer in the table.
LEMMA ReleaseResult ==
  ASSUME NEW m \in Memory, NEW hp \in SUBSET Block, Headers(m, hp),
         NEW r \in Slot, Live(m, r), NEW head,
         Listed(NextOf(m), Ordinary(m) \ {r}, head), Listed(NextOf(m), Freed(m), m.firstFree)
  PROVE  LET mm == ReleaseEntry(m, r)
         IN /\ mm \in Memory
            /\ mm.id = m.id /\ mm.curr = m.curr
            /\ mm.firstOrd = m.firstOrd /\ mm.firstFree = r
            /\ Ordinary(mm) = Ordinary(m) \ {r}
            /\ Lists(mm, head)
            /\ Headers(mm, hp \ {m.vm[r].ptr})
            /\ Cards(mm) = Put(Cards(m), m.vm[r].ptr, NoCard)
<1> DEFINE mm == ReleaseEntry(m, r)
           e == [m.vm[r] EXCEPT !.ptr = NoBlock, !.status = {"free"}, !.next = m.firstFree]
<1>1. m.vm[r] \in Entry /\ m.firstFree \in Link /\ r \in Link
  BY DEF Memory, Link
<1>2. e \in Entry /\ e.next = m.firstFree /\ e.status = {"free"}
  BY <1>1 DEF Entry, Bit
<1>3. /\ mm.vm = [m.vm EXCEPT ![r] = e]
      /\ mm.id = m.id /\ mm.curr = m.curr /\ mm.firstOrd = m.firstOrd /\ mm.firstFree = r
      /\ mm \in [vm : {mm.vm}, curr : {mm.curr}, firstFree : {mm.firstFree},
                  firstOrd : {mm.firstOrd}, id : {mm.id}]
  BY DEF ReleaseEntry, Memory
<1> HIDE DEF mm, e
<1>4. mm.vm \in [Slot -> Entry] /\ mm.vm[r] = e /\ \A s \in Slot \ {r} : mm.vm[s] = m.vm[s]
  BY <1>2, <1>3 DEF Memory
<1>5. mm \in Memory
  BY <1>1, <1>3, <1>4 DEF Memory
<1>6. /\ NextOf(mm) = [NextOf(m) EXCEPT ![r] = m.firstFree]
      /\ NextOf(m) \in [Slot -> Link] /\ NextOf(mm) \in [Slot -> Link]
  BY <1>2, <1>4, <1>5 DEF NextOf, Memory, Entry
<1>7. /\ Ordinary(mm) = Ordinary(m) \ {r} /\ Freed(mm) = Freed(m) \cup {r}
      /\ Freed(m) \in SUBSET Slot /\ r \notin Freed(m)
  BY <1>2, <1>3, <1>4 DEF Ordinary, Freed, Live, IsProcess
<1>8. Listed(NextOf(mm), Freed(mm), mm.firstFree)
  <2>1. NextOf(mm)[r] = m.firstFree /\ \A s \in Freed(m) : NextOf(mm)[s] = NextOf(m)[s]
    BY <1>6, <1>7
  <2> QED
    BY <1>3, <1>7, <2>1, Push
<1>9. Listed(NextOf(mm), Ordinary(mm), head)
  <2>1. \A s \in Ordinary(m) \ {r} : NextOf(mm)[s] = NextOf(m)[s]
    BY <1>6 DEF Ordinary
  <2> QED
    BY <1>7, <2>1, SameList
<1>10. Headers(mm, hp \ {m.vm[r].ptr})
  <2> SUFFICES ASSUME NEW s \in Slot, Live(mm, s)
               PROVE  mm.vm[s].ptr \in hp \ {m.vm[r].ptr} /\ mm.id[mm.vm[s].ptr] = s
    BY DEF Headers
  <2>1. s # r /\ mm.vm[s] = m.vm[s] /\ Live(m, s)
    BY <1>2, <1>3, <1>4 DEF Live
  <2> QED
    BY <1>3, <2>1 DEF Headers
<1>11. Cards(mm) = Put(Cards(m), m.vm[r].ptr, NoCard)
  <2> DEFINE p == m.vm[r].ptr
  <2>1. p \in Block /\ hp \ {p} \in SUBSET Block
    BY CardOfLive
  <2>2. Cards(mm)[p] = NoCard
    BY <1>10, <2>1, CardIsFree, p \notin hp \ {p}
  <2>3. ASSUME NEW q \in Block \ {p} PROVE Cards(mm)[q] = Cards(m)[q]
    <3>1. \A s \in Slot : Live(m, s) /\ m.vm[s].ptr = q
            => Live(mm, s) /\ mm.vm[s].ptr = q /\ Card(mm.vm[s]) = Card(m.vm[s])
      BY <1>3, <1>4 DEF Live
    <3>2. \A s \in Slot : Live(mm, s) /\ mm.vm[s].ptr = q => InTable(m, q)
      BY <1>2, <1>3, <1>4 DEF Live, InTable
    <3> QED
      BY <1>10, <2>1, <3>1, <3>2, SameCard
  <2> QED
    BY <2>1, <2>2, <2>3, CardsExcept
<1> QED
  BY <1>3, <1>5, <1>7, <1>8, <1>9, <1>10, <1>11 DEF Lists, mm

\* rim_mem_add_ord puts a live entry that is not on the list at its head.
LEMMA AddOrdResult ==
  ASSUME NEW m \in Memory, NEW hp \in SUBSET Block, Headers(m, hp),
         NEW r \in Ordinary(m),
         Listed(NextOf(m), Ordinary(m) \ {r}, m.firstOrd), Listed(NextOf(m), Freed(m), m.firstFree)
  PROVE  LET mm == AddOrd(m, r)
         IN /\ mm \in Memory
            /\ mm.id = m.id
            /\ mm.vm[r] = [m.vm[r] EXCEPT !.next = m.firstOrd]
            /\ Live(mm, r) /\ ~ IsProcess(mm, r)
            /\ Lists(mm, mm.firstOrd)
            /\ Headers(mm, hp) /\ Cards(mm) = Cards(m)
<1> DEFINE mm == AddOrd(m, r)
           e == [m.vm[r] EXCEPT !.next = m.firstOrd]
<1>1. r \in Slot /\ r \in Link /\ m.vm[r] \in Entry /\ m.firstOrd \in Link
  BY DEF Memory, Link, Ordinary
<1>2. /\ e \in Entry /\ e.next = m.firstOrd
      /\ e.status = m.vm[r].status /\ e.ptr = m.vm[r].ptr
  BY <1>1 DEF Entry
<1>3. /\ mm.vm = [m.vm EXCEPT ![r] = e]
      /\ mm.id = m.id /\ mm.curr = m.curr /\ mm.firstOrd = r /\ mm.firstFree = m.firstFree
      /\ mm \in [vm : {mm.vm}, curr : {mm.curr}, firstFree : {mm.firstFree},
                  firstOrd : {mm.firstOrd}, id : {mm.id}]
  BY <1>1 DEF AddOrd, Memory, Entry
<1> HIDE DEF mm, e
<1>4. mm.vm \in [Slot -> Entry] /\ mm.vm[r] = e /\ \A s \in Slot \ {r} : mm.vm[s] = m.vm[s]
  BY <1>1, <1>2, <1>3 DEF Memory
<1>5. mm \in Memory
  BY <1>1, <1>3, <1>4 DEF Memory
<1>6. /\ NextOf(mm) = [NextOf(m) EXCEPT ![r] = m.firstOrd]
      /\ NextOf(m) \in [Slot -> Link] /\ NextOf(mm) \in [Slot -> Link]
  BY <1>2, <1>4, <1>5 DEF NextOf, Memory, Entry
<1>7. Ordinary(mm) = Ordinary(m) /\ Freed(mm) = Freed(m) /\ r \notin Freed(m)
  BY <1>1, <1>2, <1>3, <1>4 DEF Ordinary, Freed, Live, IsProcess
<1>8. Listed(NextOf(mm), Ordinary(mm), mm.firstOrd)
  <2>1. Ordinary(m) \ {r} \in SUBSET Slot /\ (Ordinary(m) \ {r}) \cup {r} = Ordinary(mm)
    BY <1>7 DEF Ordinary
  <2>2. NextOf(mm)[r] = m.firstOrd
        /\ \A s \in Ordinary(m) \ {r} : NextOf(mm)[s] = NextOf(m)[s]
    BY <1>1, <1>6 DEF Ordinary
  <2>3. Listed(NextOf(mm), (Ordinary(m) \ {r}) \cup {r}, r)
    BY <1>1, <2>1, <2>2, Push, r \notin Ordinary(m) \ {r}
  <2> QED
    BY <1>3, <2>1, <2>3
<1>9. Listed(NextOf(mm), Freed(mm), mm.firstFree)
  <2>1. \A s \in Freed(m) : NextOf(mm)[s] = NextOf(m)[s]
    BY <1>6, <1>7 DEF Freed
  <2> QED
    BY <1>3, <1>7, <2>1, SameList
<1>10. Headers(mm, hp)
  BY <1>2, <1>3, <1>4 DEF Headers, Live
<1>11. Live(mm, r) /\ ~ IsProcess(mm, r)
  BY <1>7 DEF Ordinary
<1>12. Cards(mm) = Cards(m)
  <2>1. \A s \in Slot : /\ mm.vm[s].ptr = m.vm[s].ptr /\ Card(mm.vm[s]) = Card(m.vm[s])
                        /\ Live(mm, s) <=> Live(m, s)
    <3>1. e.ref = m.vm[r].ref
      BY <1>1 DEF Entry, e
    <3> QED
      BY <1>2, <1>3, <1>4, <3>1 DEF Card, Live
  <2>2. ASSUME NEW q \in Block PROVE Cards(mm)[q] = Cards(m)[q]
    <3>1. \A s \in Slot : Live(m, s) /\ m.vm[s].ptr = q
            => Live(mm, s) /\ mm.vm[s].ptr = q /\ Card(mm.vm[s]) = Card(m.vm[s])
      BY <2>1
    <3>2. \A s \in Slot : Live(mm, s) /\ mm.vm[s].ptr = q => InTable(m, q)
      BY <2>1 DEF InTable
    <3> QED
      BY <1>10, <3>1, <3>2, SameCard
  <2> QED
    BY <2>2, CardsEqual
<1> QED
  BY <1>3, <1>4, <1>5, <1>8, <1>9, <1>10, <1>11, <1>12 DEF Lists, mm, e

\* rim_add_mem takes a free entry, or the next one never used, for block p.
LEMMA AddMemResult ==
  ASSUME NEW m \in Memory, NEW hp \in SUBSET Block, Headers(m, hp), Lists(m, m.firstOrd),
         NEW p \in Block \ hp, NEW b \in BOOLEAN, HasRoom(m)
  PROVE  LET mm == AddMem(m, p, b)
             r == NextEntry(m)
         IN /\ mm \in Memory
            /\ mm.id[p] = r /\ mm.vm[r].ptr = p
            /\ Live(mm, r) /\ (IsProcess(mm, r) <=> b)
            /\ Lists(mm, mm.firstOrd)
            /\ Headers(mm, hp \cup {p})
            /\ Cards(mm) = Put(Cards(m), p, NewCard(b))
<1> DEFINE r == NextEntry(m)
           taken == IF m.firstFree # Nil
                    THEN [m EXCEPT !.firstFree = m.vm[r].next]
                    ELSE [m EXCEPT !.curr = @ + 1]
           e == [m.vm[r] EXCEPT !.ptr = p, !.ref = 0, !.status = IF b THEN {"process"} ELSE {}]
           filled == [taken EXCEPT !.vm[r] = [@ EXCEPT !.ptr = p, !.ref = 0,
                                        !.status = IF b THEN {"process"} ELSE {}],
                                   !.id[p] = r]
           mm == AddMem(m, p, b)
<1>1. /\ r \in Slot /\ r \in Link /\ m.vm[r] \in Entry
      /\ MaxVm \in Nat /\ MaxRef \in Nat /\ Nil \notin Slot
      /\ p \in Block
  BY MemAssumption DEF HasRoom, Memory, Link, Slot, Nil
<1>2. /\ e \in Entry /\ e.ptr = p /\ e.next = m.vm[r].next
      /\ e.status = IF b THEN {"process"} ELSE {}
      /\ e.ref = 0
  <2>1. (IF b THEN {"process"} ELSE {}) \in SUBSET Bit
    BY DEF Bit
  <2>2. 0 \in RefCount
    BY <1>1 DEF RefCount
  <2> QED
    BY <1>1, <2>1, <2>2 DEF Entry
<1>3. /\ Freed(m) \in SUBSET Slot /\ Ordinary(m) \in SUBSET Slot
      /\ NextOf(m) \in [Slot -> Link]
      /\ m.firstFree \in Freed(m) \cup {Nil}
      /\ r \notin Ordinary(m)
  <2>1. m.firstOrd \in Link
    BY DEF Memory
  <2>2. m.firstFree \in Freed(m) \cup {Nil} /\ NextOf(m) \in [Slot -> Link]
        /\ Ordinary(m) \cap Freed(m) = {}
    BY <2>1, ListHeads
  <2> QED
    BY <1>1, <2>2 DEF Freed, Ordinary, Live, NextEntry, Memory, Slot
<1>4. /\ taken \in Memory /\ taken.vm = m.vm /\ taken.id = m.id /\ taken.firstOrd = m.firstOrd
      /\ r < taken.curr
      /\ \A s \in Slot \ {r} : s < taken.curr <=> s < m.curr
      /\ Listed(NextOf(m), Freed(m) \ {r}, taken.firstFree)
  <2>1. CASE m.firstFree # Nil
    <3>1. r = m.firstFree /\ r \in Freed(m)
      BY <1>3, <2>1 DEF NextEntry
    <3>2. Listed(NextOf(m), Freed(m) \ {r}, NextOf(m)[r])
      BY <1>3, <2>1, <3>1, Pop DEF Lists
    <3>3. m.vm[r].next \in Link /\ NextOf(m)[r] = m.vm[r].next
      BY <1>1 DEF Entry, NextOf
    <3>4. r < m.curr
      BY <3>1 DEF Freed
    <3>5. taken = [m EXCEPT !.firstFree = m.vm[r].next]
      BY <2>1
    <3> HIDE DEF taken
    <3> QED
      BY <3>2, <3>3, <3>4, <3>5 DEF Memory
  <2>2. CASE m.firstFree = Nil
    <3>1. r = m.curr /\ r + 1 \in 0 .. MaxVm
      BY <1>1, <2>2 DEF NextEntry, Slot
    <3>2. taken = [m EXCEPT !.curr = m.curr + 1]
      BY <2>2
    <3>3. r \notin Freed(m) /\ Freed(m) \ {r} = Freed(m)
      BY <3>1 DEF Freed, Slot
    <3> HIDE DEF taken
    <3>4. /\ taken \in Memory /\ taken.vm = m.vm /\ taken.id = m.id
          /\ taken.firstOrd = m.firstOrd /\ taken.firstFree = Nil /\ taken.curr = r + 1
      BY <2>2, <3>1, <3>2 DEF Memory
    <3>5. \A s \in Slot \ {r} : s < r + 1 <=> s < r
      BY <1>1 DEF Slot
    <3>6. r < r + 1
      BY <1>1 DEF Slot
    <3>7. Listed(NextOf(m), Freed(m) \ {r}, taken.firstFree)
      BY <2>2, <3>3, <3>4 DEF Lists
    <3> QED
      BY <3>1, <3>4, <3>5, <3>6, <3>7
  <2> QED
    BY <2>1, <2>2
<1> HIDE DEF taken
<1>5. /\ filled.vm = [m.vm EXCEPT ![r] = e] /\ filled.id = [m.id EXCEPT ![p] = r]
      /\ filled.curr = taken.curr /\ filled.firstOrd = m.firstOrd
      /\ filled.firstFree = taken.firstFree
      /\ filled \in [vm : {filled.vm}, curr : {filled.curr}, firstFree : {filled.firstFree},
                      firstOrd : {filled.firstOrd}, id : {filled.id}]
  BY <1>1, <1>4 DEF Memory
<1>6. mm = IF b THEN filled ELSE AddOrd(filled, r)
  BY DEF AddMem, taken
<1> HIDE DEF filled, e, r, mm
<1>7. /\ filled.vm \in [Slot -> Entry] /\ filled.vm[r] = e
      /\ \A s \in Slot \ {r} : filled.vm[s] = m.vm[s]
      /\ filled.id \in [Block -> Link] /\ filled.id[p] = r
      /\ \A q \in Block \ {p} : filled.id[q] = m.id[q]
  BY <1>1, <1>2, <1>5 DEF Memory
<1>8. filled \in Memory
  BY <1>4, <1>5, <1>7 DEF Memory
<1>9. NextOf(filled) = NextOf(m)
  BY <1>1, <1>2, <1>7 DEF NextOf
<1>10. Freed(filled) = Freed(m) \ {r}
  BY <1>2, <1>4, <1>5, <1>7 DEF Freed
<1>11. Ordinary(filled) = Ordinary(m) \cup (IF b THEN {} ELSE {r})
  <2>1. \A s \in Slot \ {r} : s \in Ordinary(filled) <=> s \in Ordinary(m)
    BY <1>4, <1>5, <1>7 DEF Ordinary, Live, IsProcess
  <2>2. r \in Ordinary(filled) <=> ~ b
    BY <1>1, <1>2, <1>4, <1>5, <1>7 DEF Ordinary, Live, IsProcess
  <2>3. Ordinary(filled) \in SUBSET Slot
    BY DEF Ordinary
  <2> QED
    BY <1>1, <1>3, <2>1, <2>2, <2>3
<1>12. Headers(filled, hp \cup {p})
  BY <1>2, <1>4, <1>5, <1>7 DEF Headers, Live
<1>13. Live(filled, r) /\ (IsProcess(filled, r) <=> b)
  BY <1>2, <1>4, <1>5, <1>7 DEF Live, IsProcess
<1>14. Listed(NextOf(filled), Freed(filled), filled.firstFree)
  BY <1>4, <1>5, <1>9, <1>10
<1>15. Listed(NextOf(filled), Ordinary(filled) \ {r}, filled.firstOrd)
  <2>1. Ordinary(filled) \ {r} = Ordinary(m)
    BY <1>3, <1>11
  <2> QED
    BY <1>5, <1>9, <2>1 DEF Lists
<1>18. Cards(filled) = Put(Cards(m), p, NewCard(b))
  <2>1. hp \cup {p} \in SUBSET Block
    BY <1>1
  <2>2. Cards(filled)[p] = NewCard(b)
    <3>1. Cards(filled)[p] = Card(e)
      BY <1>1, <1>2, <1>7, <1>12, <1>13, <2>1, CardOfLive
    <3> QED
      BY <1>2, <3>1 DEF Card, NewCard
  <2>3. ASSUME NEW q \in Block \ {p} PROVE Cards(filled)[q] = Cards(m)[q]
    <3>1. r \notin {s \in Slot : Live(m, s)}
      BY <1>3 DEF Live, NextEntry, Freed, Ordinary, r, Memory, Slot
    <3>2. \A s \in Slot : Live(m, s) /\ m.vm[s].ptr = q
            => Live(filled, s) /\ filled.vm[s].ptr = q /\ Card(filled.vm[s]) = Card(m.vm[s])
      BY <1>4, <1>5, <1>7, <3>1 DEF Live
    <3>3. \A s \in Slot : Live(filled, s) /\ filled.vm[s].ptr = q => InTable(m, q)
      BY <1>2, <1>4, <1>5, <1>7 DEF Live, InTable
    <3> QED
      BY <1>12, <2>1, <3>2, <3>3, SameCard
  <2> QED
    BY <1>1, <2>2, <2>3, CardsExcept
<1>16. CASE b
  <2>1. Ordinary(filled) \ {r} = Ordinary(filled)
    BY <1>3, <1>11, <1>16
  <2>2. mm = filled
    BY <1>6, <1>16
  <2> QED
    BY <1>2, <1>7, <1>8, <1>12, <1>13, <1>14, <1>15, <1>18, <2>1, <2>2 DEF Lists, mm, r
<1>17. CASE ~ b
  <2>1. r \in Ordinary(filled)
    BY <1>11, <1>17
  <2>2. mm = AddOrd(filled, r)
    BY <1>6, <1>17
  <2>3. /\ mm \in Memory /\ mm.id = filled.id
        /\ mm.vm[r] = [filled.vm[r] EXCEPT !.next = filled.firstOrd]
        /\ Live(mm, r) /\ ~ IsProcess(mm, r)
        /\ Lists(mm, mm.firstOrd) /\ Headers(mm, hp \cup {p})
        /\ Cards(mm) = Cards(filled)
    BY <1>8, <1>12, <1>14, <1>15, <2>1, <2>2, AddOrdResult, hp \cup {p} \in SUBSET Block
  <2>4. mm.vm[r].ptr = p
    BY <1>2, <1>7, <2>3 DEF Entry
  <2> QED
    BY <1>7, <1>17, <1>18, <2>3, <2>4 DEF mm, r
<1> QED
  BY <1>16, <1>17

\* Only the card of the block of entry r changes when only entry r does.
LEMMA CardUpdate ==
  ASSUME NEW m, NEW hp \in SUBSET Block, Headers(m, hp), NEW mm, Headers(mm, hp),
         NEW r \in Slot, Live(m, r), mm.curr = m.curr,
         mm.vm[r].ptr = m.vm[r].ptr, "free" \notin mm.vm[r].status,
         \A s \in Slot \ {r} : mm.vm[s] = m.vm[s]
  PROVE  Cards(mm) = Put(Cards(m), m.vm[r].ptr, Card(mm.vm[r]))
<1> DEFINE p == m.vm[r].ptr
<1>1. \A s \in Slot : /\ Live(mm, s) <=> Live(m, s)
                      /\ mm.vm[s].ptr = m.vm[s].ptr
                      /\ s # r => Card(mm.vm[s]) = Card(m.vm[s])
  BY DEF Live
<1>2. p \in Block /\ Cards(mm)[p] = Card(mm.vm[r])
  BY <1>1, CardOfLive
<1>3. ASSUME NEW q \in Block \ {p} PROVE Cards(mm)[q] = Cards(m)[q]
  <2>1. \A s \in Slot : Live(m, s) /\ m.vm[s].ptr = q
          => Live(mm, s) /\ mm.vm[s].ptr = q /\ Card(mm.vm[s]) = Card(m.vm[s])
    BY <1>1
  <2>2. \A s \in Slot : Live(mm, s) /\ mm.vm[s].ptr = q => InTable(m, q)
    BY <1>1 DEF InTable
  <2> QED
    BY <2>1, <2>2, SameCard
<1> QED
  BY <1>2, <1>3, CardsExcept

\* What rimmem.c writes to the entry of a block is what its card then says.
LEMMA CardOfUpdate ==
  ASSUME NEW m \in Memory, NEW hp \in SUBSET Block, Headers(m, hp), NEW r \in Slot, Live(m, r),
         NEW e \in Entry, e.ptr = m.vm[r].ptr, "free" \notin e.status
  PROVE  Cards([m EXCEPT !.vm[r] = e]) = Put(Cards(m), e.ptr, Card(e))
<1> DEFINE mm == [m EXCEPT !.vm[r] = e]
<1>1. mm.vm = [m.vm EXCEPT ![r] = e] /\ mm.curr = m.curr /\ mm.id = m.id
  BY DEF Memory
<1>2. mm.vm[r] = e /\ \A s \in Slot \ {r} : mm.vm[s] = m.vm[s]
  BY <1>1 DEF Memory
<1> HIDE DEF mm
<1>3. Headers(mm, hp)
  BY <1>1, <1>2 DEF Headers, Live
<1>4. mm.curr = m.curr /\ mm.vm[r].ptr = m.vm[r].ptr /\ "free" \notin mm.vm[r].status
  BY <1>1, <1>2
<1>5. \A s \in Slot \ {r} : mm.vm[s] = m.vm[s]
  BY <1>2
<1>6. Cards(mm) = Put(Cards(m), m.vm[r].ptr, Card(mm.vm[r]))
  BY <1>3, <1>4, <1>5, CardUpdate
<1> QED
  BY <1>2, <1>6 DEF mm

\* Changing an entry but for its block, its link and its bit "free" leaves
\* the links and the free list alone.
LEMMA EntryUpdate ==
  ASSUME NEW m \in Memory, NEW r \in Slot, NEW e \in Entry,
         e.next = m.vm[r].next, e.ptr = m.vm[r].ptr,
         "free" \in e.status <=> "free" \in m.vm[r].status,
         NEW mm, mm = [m EXCEPT !.vm[r] = e]
  PROVE  /\ mm \in Memory
         /\ mm.id = m.id /\ mm.curr = m.curr
         /\ mm.firstFree = m.firstFree /\ mm.firstOrd = m.firstOrd
         /\ mm.vm[r] = e /\ \A s \in Slot \ {r} : mm.vm[s] = m.vm[s]
         /\ NextOf(mm) = NextOf(m) /\ Freed(mm) = Freed(m)
         /\ Ordinary(mm) \ {r} = Ordinary(m) \ {r}
         /\ r \in Ordinary(mm) <=> Live(m, r) /\ "process" \notin e.status
         /\ \A hp : Headers(m, hp) => Headers(mm, hp)
<1>1. /\ mm.vm = [m.vm EXCEPT ![r] = e] /\ mm.id = m.id /\ mm.curr = m.curr
      /\ mm.firstFree = m.firstFree /\ mm.firstOrd = m.firstOrd
      /\ mm \in [vm : {mm.vm}, curr : {mm.curr}, firstFree : {mm.firstFree},
                  firstOrd : {mm.firstOrd}, id : {mm.id}]
  BY DEF Memory
<1>2. mm.vm[r] = e /\ \A s \in Slot \ {r} : mm.vm[s] = m.vm[s]
  BY <1>1 DEF Memory
<1>3. mm \in Memory
  BY <1>1 DEF Memory
<1>4. NextOf(mm) = NextOf(m)
  BY <1>2 DEF NextOf
<1>5. Freed(mm) = Freed(m)
  BY <1>1, <1>2 DEF Freed
<1>6. Ordinary(mm) \ {r} = Ordinary(m) \ {r}
  BY <1>1, <1>2 DEF Ordinary, Live, IsProcess
<1>7. r \in Ordinary(mm) <=> Live(m, r) /\ "process" \notin e.status
  BY <1>1, <1>2 DEF Ordinary, Live, IsProcess
<1>8. \A hp : Headers(m, hp) => Headers(mm, hp)
  BY <1>1, <1>2 DEF Headers, Live
<1> QED
  BY <1>1, <1>2, <1>3, <1>4, <1>5, <1>6, <1>7, <1>8

\* So the lists stay as they are when the bit "process" does, too.
LEMMA SameScopeUpdate ==
  ASSUME NEW m \in Memory, NEW r \in Slot, NEW e \in Entry,
         e.next = m.vm[r].next, e.ptr = m.vm[r].ptr,
         "free" \in e.status <=> "free" \in m.vm[r].status,
         "process" \in e.status <=> IsProcess(m, r),
         NEW mm, mm = [m EXCEPT !.vm[r] = e], NEW head, Lists(m, head)
  PROVE  Lists(mm, head) /\ Ordinary(mm) = Ordinary(m)
<1>1. r \in Ordinary(mm) <=> r \in Ordinary(m)
  BY EntryUpdate DEF Ordinary
<1>2. Ordinary(mm) \ {r} = Ordinary(m) \ {r}
  BY EntryUpdate
<1>3. Ordinary(mm) = Ordinary(m)
  BY <1>1, <1>2
<1> QED
  BY <1>3, EntryUpdate DEF Lists

-----------------------------------------------------------------------------
(* Every step keeps the invariant.                                         *)

\* rim_malloc keeps the invariant and gives block p a card.
LEMMA MallocStep ==
  ASSUME IInv, NEW p \in Block, NEW opens \in BOOLEAN, Malloc(p, opens)
  PROVE  /\ IInv'
         /\ Cards(mem') = Put(Cards(mem), p, [NewCard(memProcess) EXCEPT !.status = @ \cup (IF opens THEN {"file"} ELSE {})])
<1> DEFINE m == AddMem(mem, p, memProcess)
           r == m.id[p]
           new == NewCard(memProcess)
           hq == heap \cup {p}
<1>1. phase # "done" /\ phase' = phase /\ Head = mem.firstOrd /\ Head' = mem'.firstOrd
  BY DEF Malloc, InRequest, Head
<1>2. /\ m \in Memory /\ r \in Slot /\ Lists(m, m.firstOrd) /\ Headers(m, hq)
      /\ Live(m, r) /\ m.vm[r].ptr = p /\ hq \in SUBSET Block
      /\ Cards(m) = Put(Cards(mem), p, new)
  <2>1. /\ mem \in Memory /\ heap \in SUBSET Block /\ Headers(mem, heap)
        /\ Lists(mem, mem.firstOrd) /\ memProcess \in BOOLEAN
    BY <1>1 DEF IInv, TypeOK
  <2>2. p \in Block \ heap /\ HasRoom(mem) /\ NextEntry(mem) \in Slot
    BY DEF Malloc, HasRoom
  <2>3. /\ r = NextEntry(mem) /\ m \in Memory /\ Lists(m, m.firstOrd) /\ Headers(m, hq)
    BY <2>1, <2>2, AddMemResult
  <2>5. Cards(m) = Put(Cards(mem), p, new)
    BY <2>1, <2>2, AddMemResult
  <2>4. r \in Slot /\ hq \in SUBSET Block
    BY <2>1, <2>2, <2>3
  <2>6. Cards(m)[p] = new /\ "free" \notin new.status
    BY <2>1, <2>5, CardsTyped DEF NewCard, Put
  <2> HIDE DEF m, new, hq
  <2>7. InTable(m, p)
    BY <2>3, <2>4, <2>6, CardIsFree
  <2>8. Live(m, r) /\ m.vm[r].ptr = p
    BY <2>3, <2>7, TrackedEntry DEF InTable
  <2> HIDE DEF r
  <2> QED
    BY <2>3, <2>4, <2>5, <2>8
<1>3. Cards(mem) \in [Block -> CardSet]
  BY CardsTyped DEF IInv, TypeOK
<1>4. /\ mem' \in Memory /\ Lists(mem', mem'.firstOrd) /\ Headers(mem', heap')
      /\ Cards(mem') = Put(Cards(mem), p, [new EXCEPT !.status = @ \cup (IF opens THEN {"file"} ELSE {})])
  <2>1. CASE ~ opens
    <3>1. mem' = m /\ heap' = hq
      BY <2>1 DEF Malloc
    <3>2. [new EXCEPT !.status = @ \cup (IF opens THEN {"file"} ELSE {})] = new
      BY <2>1 DEF NewCard
    <3> HIDE DEF m, new, hq
    <3> QED
      BY <1>2, <3>1, <3>2
  <2>2. CASE opens
    <3> DEFINE e == [m.vm[r] EXCEPT !.status = @ \cup {"file"}]
    <3>1. mem' = [m EXCEPT !.vm[r].status = @ \cup {"file"}] /\ heap' = hq
      BY <2>2 DEF Malloc
    <3> HIDE DEF m, r, new, hq
    <3>2. mem' = [m EXCEPT !.vm[r] = e]
      BY <3>1
    <3>3. m.vm[r] \in Entry
      BY <1>2 DEF Memory
    <3>4. /\ e \in Entry /\ e.next = m.vm[r].next /\ e.ptr = m.vm[r].ptr
          /\ e.status = m.vm[r].status \cup {"file"} /\ e.ref = m.vm[r].ref
      BY <3>3 DEF Entry, Bit
    <3> HIDE DEF e
    <3>5. /\ "free" \in e.status <=> "free" \in m.vm[r].status
          /\ "process" \in e.status <=> IsProcess(m, r)
      BY <3>4 DEF IsProcess
    <3>6. /\ mem' \in Memory /\ mem'.firstOrd = m.firstOrd
          /\ \A hp : Headers(m, hp) => Headers(mem', hp)
      BY <1>2, <3>2, <3>4, <3>5, EntryUpdate
    <3>7. Lists(mem', m.firstOrd)
      BY <1>2, <3>2, <3>4, <3>5, SameScopeUpdate
    <3>8. Cards(mem') = Put(Cards(m), p, Card(e))
      <4>1. e.ptr = p /\ "free" \notin e.status
        BY <1>2, <3>4 DEF Live
      <4>2. Cards([m EXCEPT !.vm[r] = e]) = Put(Cards(m), e.ptr, Card(e))
        BY <1>2, <3>4, <4>1, CardOfUpdate
      <4> QED
        BY <3>2, <4>1, <4>2
    <3>9. Card(e) = [new EXCEPT !.status = @ \cup {"file"}]
      <4>1. Cards(m)[p] = Card(m.vm[r])
        BY <1>2, CardOfLive
      <4>2. Cards(m)[p] = new
        BY <1>2, <1>3 DEF Put
      <4> QED
        BY <3>4, <4>1, <4>2 DEF Card
    <3>10. Cards(mem') = Put(Cards(mem), p, [new EXCEPT !.status = @ \cup {"file"}])
      BY <1>2, <1>3, <3>4, <3>8, <3>9 DEF Put
    <3> QED
      BY <1>2, <2>2, <3>1, <3>6, <3>7, <3>10
  <2> QED
    BY <2>1, <2>2
<1>5. TypeOK'
  BY <1>4 DEF IInv, TypeOK, Malloc, Origin
<1> QED
  BY <1>1, <1>4, <1>5 DEF IInv

\* rim_mem_add_ref keeps the invariant.
LEMMA AddRefStep ==
  ASSUME IInv, NEW p \in Block, NEW isProcess \in BOOLEAN, AddRef(p, isProcess)
  PROVE  /\ IInv'
         /\ Cards(mem') = Put(Cards(mem), p, ReferredCard(Cards(mem)[p], isProcess))
<1> DEFINE r == mem.id[p]
<1>1. /\ phase # "done" /\ phase' = phase /\ Head = mem.firstOrd /\ Head' = mem'.firstOrd
      /\ heap' = heap /\ mem \in Memory /\ heap \in SUBSET Block /\ MaxRef \in Nat \ {0}
      /\ Headers(mem, heap) /\ Lists(mem, mem.firstOrd)
  BY MemAssumption DEF AddRef, Head, IInv, TypeOK
<1>2. r \in Slot /\ Live(mem, r) /\ mem.vm[r].ptr = p /\ mem.vm[r] \in Entry
  BY <1>1, TrackedEntry DEF AddRef, Tracked, Memory
<1>5. Cards(mem)[p] = Card(mem.vm[r])
  BY <1>1, <1>2, CardOfLive
<1>6. "free" \notin mem.vm[r].status
  BY <1>2 DEF Live
<1>3. /\ mem' \in Memory /\ Lists(mem', mem'.firstOrd) /\ Headers(mem', heap)
      /\ Cards(mem') = Put(Cards(mem), p, ReferredCard(Cards(mem)[p], isProcess))
  <2>1. CASE isProcess /\ ~ IsProcess(mem, r)
    <3> DEFINE m == DelOrd(mem, r)
               d == mem.firstOrd
    <3>1. r \in Ordinary(mem)
      BY <1>2, <2>1 DEF Ordinary
    <3>2. /\ m \in Memory /\ d \in Ordinary(mem) /\ Headers(m, heap)
          /\ m.firstFree = mem.firstFree /\ NextOf(m) = NextOf(mem)
          /\ Ordinary(m) = Ordinary(mem) /\ Freed(m) = Freed(mem)
          /\ Listed(NextOf(m), Ordinary(m) \ {d}, m.firstOrd)
          /\ Cards(m) = Cards(mem)
      BY <1>1, <3>1, DelOrdResult
    <3>10. m.vm[d] = [mem.vm[r] EXCEPT !.next = mem.vm[d].next]
      BY <1>1, <3>1, DelOrdResult
    <3>3. mem' = [m EXCEPT !.vm[d].status = @ \cup {"process"}, !.vm[d].ref = 1]
      BY <2>1 DEF AddRef, Header
    <3> HIDE DEF m, d
    <3>4. d \in Slot /\ m.vm[d] \in Entry
      BY <3>2 DEF Ordinary, Memory
    <3> DEFINE e == [m.vm[d] EXCEPT !.status = @ \cup {"process"}, !.ref = 1]
    <3>5. 1 \in RefCount /\ m.vm[d].status \cup {"process"} \in SUBSET Bit
      BY <1>1, <3>4 DEF Entry, Bit, RefCount
    <3>6. /\ e \in Entry /\ e.next = m.vm[d].next /\ e.ptr = m.vm[d].ptr
          /\ e.status = m.vm[d].status \cup {"process"} /\ e.ref = 1
      BY <3>4, <3>5 DEF Entry
    <3>7. mem' = [m EXCEPT !.vm[d] = e]
      BY <3>2, <3>3, <3>4 DEF Memory
    <3> HIDE DEF e
    <3>8. "free" \in e.status <=> "free" \in m.vm[d].status
      BY <3>6
    <3>9. /\ mem' \in Memory /\ Headers(mem', heap)
          /\ mem'.firstOrd = m.firstOrd /\ mem'.firstFree = m.firstFree
          /\ NextOf(mem') = NextOf(m) /\ Freed(mem') = Freed(m)
          /\ Ordinary(mem') = Ordinary(m) \ {d}
      BY <3>2, <3>4, <3>6, <3>7, <3>8, EntryUpdate
    <3>11. /\ e.ptr = p /\ e.status = mem.vm[r].status \cup {"process"}
      BY <1>2, <3>6, <3>10 DEF Entry
    <3>12. Cards(mem') = Put(Cards(m), e.ptr, Card(e))
      <4>1. Live(m, d) /\ "free" \notin e.status
        BY <1>6, <3>2, <3>11 DEF Ordinary
      <4> QED
        BY <1>1, <3>2, <3>4, <3>6, <3>7, <4>1, CardOfUpdate
    <3>13. Card(e) = ReferredCard(Cards(mem)[p], isProcess)
      BY <1>5, <2>1, <3>6, <3>11 DEF Card, ReferredCard, IsProcess
    <3>14. Cards(mem') = Put(Cards(mem), p, ReferredCard(Cards(mem)[p], isProcess))
      BY <3>2, <3>11, <3>12, <3>13
    <3> QED
      BY <1>1, <3>2, <3>9, <3>14 DEF Lists
  <2>2. CASE ~ (isProcess /\ ~ IsProcess(mem, r))
    <3> DEFINE n == CASE ~ IsProcess(mem, r) -> 1
                      [] isProcess /\ IsProcess(mem, r) -> Incr(mem.vm[r].ref)
                      [] OTHER -> mem.vm[r].ref
               e == [mem.vm[r] EXCEPT !.ref = n]
    <3>1. mem' = [mem EXCEPT !.vm[r].ref = n]
      BY <2>2 DEF AddRef, Header
    <3>2. n \in RefCount
      BY <1>1, <1>2 DEF Entry, RefCount, Incr
    <3> HIDE DEF n
    <3>3. mem' = [mem EXCEPT !.vm[r] = e]
      BY <3>1
    <3>4. /\ e \in Entry /\ e.next = mem.vm[r].next /\ e.ptr = mem.vm[r].ptr
          /\ e.status = mem.vm[r].status /\ e.ref = n
      BY <1>2, <3>2 DEF Entry
    <3> HIDE DEF e
    <3>5. mem' \in Memory /\ Headers(mem', heap) /\ mem'.firstOrd = mem.firstOrd
      BY <1>1, <1>2, <3>3, <3>4, EntryUpdate
    <3>6. "process" \in e.status <=> IsProcess(mem, r)
      BY <3>4 DEF IsProcess
    <3>7. Lists(mem', mem.firstOrd)
      BY <1>1, <1>2, <3>3, <3>4, <3>6, SameScopeUpdate
    <3>8. Cards(mem') = Put(Cards(mem), e.ptr, Card(e))
      BY <1>1, <1>2, <1>6, <3>3, <3>4, CardOfUpdate
    <3>9. Card(e) = ReferredCard(Cards(mem)[p], isProcess)
      <4> DEFINE x == mem.vm[r]
      <4>1. Card(e) = [status |-> x.status, ref |-> n]
        BY <3>4 DEF Card
      <4>2. Cards(mem)[p].status = x.status /\ Cards(mem)[p].ref = x.ref
        BY <1>5 DEF Card
      <4>3. x.status = IF isProcess THEN x.status \cup {"process"} ELSE x.status
        BY <2>2 DEF IsProcess
      <4>4. n = CASE "process" \notin x.status -> 1
                  [] isProcess /\ "process" \in x.status -> Incr(x.ref)
                  [] OTHER -> x.ref
        BY DEF IsProcess, n
      <4> HIDE DEF x
      <4> QED
        BY <4>1, <4>2, <4>3, <4>4 DEF ReferredCard
    <3>10. Cards(mem') = Put(Cards(mem), p, ReferredCard(Cards(mem)[p], isProcess))
      BY <1>2, <3>4, <3>8, <3>9
    <3> QED
      BY <3>5, <3>7, <3>10
  <2> QED
    BY <2>1, <2>2
<1>4. TypeOK'
  BY <1>3 DEF IInv, TypeOK, AddRef, Origin
<1> QED
  BY <1>1, <1>3, <1>4 DEF IInv

\* rim_mem_add_ref keeps the invariant when the count wraps, too.
LEMMA AddRefFailsStep ==
  ASSUME IInv, NEW p \in Block, AddRefFails(p)
  PROVE  /\ IInv'
         /\ Cards(mem') = Put(Cards(mem), p, [Cards(mem)[p] EXCEPT !.ref = Incr(@)])
<1> DEFINE r == mem.id[p]
           n == Incr(mem.vm[r].ref)
           e == [mem.vm[r] EXCEPT !.ref = n]
<1>1. /\ phase # "done" /\ phase' # "done" /\ Head = mem.firstOrd /\ Head' = mem'.firstOrd
      /\ heap' = heap /\ mem \in Memory /\ MaxRef \in Nat \ {0}
      /\ Headers(mem, heap) /\ Lists(mem, mem.firstOrd)
  BY MemAssumption DEF AddRefFails, MayFail, Head, IInv, TypeOK
<1>2. r \in Slot /\ mem.vm[r] \in Entry /\ Live(mem, r) /\ mem.vm[r].ptr = p
  BY <1>1, TrackedEntry DEF AddRefFails, Tracked, Memory
<1>3. mem' = [mem EXCEPT !.vm[r].ref = n]
  BY DEF AddRefFails, Header
<1>4. n \in RefCount
  BY <1>1, <1>2 DEF Entry, RefCount, Incr
<1> HIDE DEF n, r
<1>5. mem' = [mem EXCEPT !.vm[r] = e]
  BY <1>3
<1>6. /\ e \in Entry /\ e.next = mem.vm[r].next /\ e.ptr = mem.vm[r].ptr
      /\ e.status = mem.vm[r].status /\ e.ref = n
  BY <1>2, <1>4 DEF Entry
<1> HIDE DEF e
<1>7. mem' \in Memory /\ Headers(mem', heap) /\ mem'.firstOrd = mem.firstOrd
  BY <1>1, <1>2, <1>5, <1>6, EntryUpdate
<1>8. "process" \in e.status <=> IsProcess(mem, r)
  BY <1>6 DEF IsProcess
<1>9. Lists(mem', mem.firstOrd)
  BY <1>1, <1>2, <1>5, <1>6, <1>8, SameScopeUpdate
<1>10. TypeOK'
  BY <1>7 DEF IInv, TypeOK, AddRefFails, Phase
<1>11. Cards(mem') = Put(Cards(mem), e.ptr, Card(e))
  <2>1. heap \in SUBSET Block /\ "free" \notin e.status
    BY <1>2, <1>6 DEF IInv, TypeOK, Live
  <2> QED
    BY <1>1, <1>2, <1>5, <1>6, <2>1, CardOfUpdate
<1>12. Card(e) = [Cards(mem)[p] EXCEPT !.ref = Incr(@)]
  <2>1. Cards(mem)[p] = Card(mem.vm[r])
    BY <1>1, <1>2, CardOfLive DEF IInv, TypeOK
  <2> QED
    BY <1>6, <2>1 DEF Card, n
<1> QED
  BY <1>1, <1>2, <1>6, <1>7, <1>9, <1>10, <1>11, <1>12 DEF IInv

\* rim_mem_dec_process keeps the invariant.
LEMMA DecProcessStep ==
  ASSUME IInv, NEW p \in Block, DecProcess(p)
  PROVE  /\ IInv'
         /\ Cards(mem') = Put(Cards(mem), p, UnreferredCard(Cards(mem)[p]))
<1> DEFINE r == mem.id[p]
           left == IF mem.vm[r].ref > 0 THEN mem.vm[r].ref - 1 ELSE mem.vm[r].ref
<1>1. /\ phase # "done" /\ phase' = phase /\ Head = mem.firstOrd /\ Head' = mem'.firstOrd
      /\ heap' = heap /\ mem \in Memory /\ heap \in SUBSET Block /\ MaxRef \in Nat \ {0}
      /\ Headers(mem, heap) /\ Lists(mem, mem.firstOrd)
  BY MemAssumption DEF DecProcess, Head, IInv, TypeOK
<1>2. /\ r \in Slot /\ Live(mem, r) /\ mem.vm[r] \in Entry /\ IsProcess(mem, r)
      /\ mem.vm[r].ptr = p
  BY <1>1, TrackedEntry DEF DecProcess, Header, Tracked, Memory
<1>3. left \in RefCount /\ 1 \in RefCount
  BY <1>1, <1>2 DEF Entry, RefCount
<1>6. Cards(mem)[p] = Card(mem.vm[r]) /\ "free" \notin mem.vm[r].status
  BY <1>1, <1>2, CardOfLive DEF Live
<1>4. /\ mem' \in Memory /\ Lists(mem', mem'.firstOrd) /\ Headers(mem', heap)
      /\ Cards(mem') = Put(Cards(mem), p, UnreferredCard(Cards(mem)[p]))
  <2>1. CASE left = 0
    <3> DEFINE e == [mem.vm[r] EXCEPT !.status = @ \ {"process"}, !.ref = 1]
               m == [mem EXCEPT !.vm[r].status = @ \ {"process"}, !.vm[r].ref = 1]
    <3>1. mem' = AddOrd(m, r)
      BY <2>1 DEF DecProcess, Header
    <3> HIDE DEF r
    <3>2. m = [mem EXCEPT !.vm[r] = e]
      BY <1>1, <1>2 DEF Memory
    <3>3. mem.vm[r].status \ {"process"} \in SUBSET Bit
      BY <1>2 DEF Entry
    <3>4. /\ e \in Entry /\ e.next = mem.vm[r].next /\ e.ptr = mem.vm[r].ptr
          /\ e.status = mem.vm[r].status \ {"process"} /\ e.ref = 1
      BY <1>2, <1>3, <3>3 DEF Entry
    <3> HIDE DEF e, m
    <3>5. /\ "free" \in e.status <=> "free" \in mem.vm[r].status
          /\ "process" \notin e.status
      BY <3>4
    <3>6. /\ m \in Memory /\ Headers(m, heap) /\ m.firstOrd = mem.firstOrd
          /\ m.firstFree = mem.firstFree /\ NextOf(m) = NextOf(mem) /\ Freed(m) = Freed(mem)
          /\ Ordinary(m) \ {r} = Ordinary(mem) \ {r} /\ r \in Ordinary(m)
      BY <1>1, <1>2, <3>2, <3>4, <3>5, EntryUpdate
    <3>7. Ordinary(mem) \ {r} = Ordinary(mem)
      BY <1>2 DEF Ordinary
    <3>8. Listed(NextOf(m), Ordinary(m) \ {r}, m.firstOrd) /\ Listed(NextOf(m), Freed(m), m.firstFree)
      BY <1>1, <3>6, <3>7 DEF Lists
    <3>9. /\ mem' \in Memory /\ Lists(mem', mem'.firstOrd) /\ Headers(mem', heap)
          /\ Cards(mem') = Cards(m)
      BY <1>1, <3>1, <3>6, <3>8, AddOrdResult
    <3>10. Cards(m) = Put(Cards(mem), e.ptr, Card(e))
      <4>1. "free" \notin e.status
        BY <1>6, <3>4
      <4> QED
        BY <1>1, <1>2, <3>2, <3>4, <4>1, CardOfUpdate
    <3>11. Card(e) = UnreferredCard(Cards(mem)[p])
      BY <1>6, <2>1, <3>4 DEF Card, UnreferredCard
    <3> QED
      BY <1>2, <3>4, <3>9, <3>10, <3>11
  <2>2. CASE left # 0
    <3> DEFINE e == [mem.vm[r] EXCEPT !.ref = left]
    <3>1. mem' = [mem EXCEPT !.vm[r].ref = left]
      BY <2>2 DEF DecProcess, Header
    <3> HIDE DEF left, r
    <3>2. mem' = [mem EXCEPT !.vm[r] = e]
      BY <3>1
    <3>3. /\ e \in Entry /\ e.next = mem.vm[r].next /\ e.ptr = mem.vm[r].ptr
          /\ e.status = mem.vm[r].status /\ e.ref = left
      BY <1>2, <1>3 DEF Entry
    <3> HIDE DEF e
    <3>4. mem' \in Memory /\ Headers(mem', heap) /\ mem'.firstOrd = mem.firstOrd
      BY <1>1, <1>2, <3>2, <3>3, EntryUpdate
    <3>5. "process" \in e.status <=> IsProcess(mem, r)
      BY <3>3 DEF IsProcess
    <3>6. Lists(mem', mem.firstOrd)
      BY <1>1, <1>2, <3>2, <3>3, <3>5, SameScopeUpdate
    <3>7. Cards(mem') = Put(Cards(mem), e.ptr, Card(e))
      BY <1>1, <1>2, <1>6, <3>2, <3>3, CardOfUpdate
    <3>8. Card(e) = UnreferredCard(Cards(mem)[p])
      BY <1>6, <2>2, <3>3 DEF Card, UnreferredCard, left
    <3> QED
      BY <1>2, <3>3, <3>4, <3>6, <3>7, <3>8
  <2> QED
    BY <2>1, <2>2
<1>5. TypeOK'
  BY <1>1, <1>4 DEF IInv, TypeOK, DecProcess
<1> QED
  BY <1>1, <1>4, <1>5 DEF IInv

\* A header may change when its block is not in the table.
LEMMA ForgetResult ==
  ASSUME NEW m \in Memory, NEW hp \in SUBSET Block, Headers(m, hp), NEW p, p \notin hp
  PROVE  LET mm == Forget(m, p)
         IN /\ mm \in Memory /\ Headers(mm, hp)
            /\ mm.vm = m.vm /\ mm.curr = m.curr
            /\ mm.firstFree = m.firstFree /\ mm.firstOrd = m.firstOrd
            /\ \A head : Lists(m, head) => Lists(mm, head)
            /\ Ordinary(mm) = Ordinary(m) /\ Cards(mm) = Cards(m)
<1> DEFINE mm == Forget(m, p)
<1>1. /\ mm.vm = m.vm /\ mm.curr = m.curr /\ mm.id = [m.id EXCEPT ![p] = Nil]
      /\ mm.firstFree = m.firstFree /\ mm.firstOrd = m.firstOrd
      /\ mm \in [vm : {mm.vm}, curr : {mm.curr}, firstFree : {mm.firstFree},
                  firstOrd : {mm.firstOrd}, id : {mm.id}]
  BY DEF Forget, Memory
<1> HIDE DEF mm
<1>2. mm.id \in [Block -> Link] /\ \A q \in Block \ {p} : mm.id[q] = m.id[q]
  BY <1>1 DEF Memory, Link
<1>3. mm \in Memory
  BY <1>1, <1>2 DEF Memory
<1>4. Headers(mm, hp)
  BY <1>1, <1>2 DEF Headers, Live
<1>5. NextOf(mm) = NextOf(m) /\ Ordinary(mm) = Ordinary(m) /\ Freed(mm) = Freed(m)
  BY <1>1 DEF NextOf, Ordinary, Freed, Live, IsProcess
<1>6. Cards(mm) = Cards(m)
  <2>1. ASSUME NEW q \in Block PROVE Cards(mm)[q] = Cards(m)[q]
    <3>1. \A s \in Slot : Live(m, s) /\ m.vm[s].ptr = q
            => Live(mm, s) /\ mm.vm[s].ptr = q /\ Card(mm.vm[s]) = Card(m.vm[s])
      BY <1>1 DEF Live
    <3>2. \A s \in Slot : Live(mm, s) /\ mm.vm[s].ptr = q => InTable(m, q)
      BY <1>1 DEF Live, InTable
    <3> QED
      BY <1>4, <3>1, <3>2, SameCard
  <2> QED
    BY <2>1, CardsEqual
<1> QED
  BY <1>1, <1>3, <1>4, <1>5, <1>6 DEF Lists, mm

\* Taking an ordinary block out of the table: rim_mem_del_ord, then
\* rim_mem_release, in rim_free, rim_free_int and rim_realloc.
LEMMA TakeOut ==
  ASSUME NEW m \in Memory, NEW hp \in SUBSET Block, Headers(m, hp), Lists(m, m.firstOrd),
         NEW r \in Ordinary(m)
  PROVE  LET mm == ReleaseEntry(DelOrd(m, r), m.firstOrd)
         IN /\ mm \in Memory /\ Lists(mm, mm.firstOrd) /\ mm.firstFree \in Slot
            /\ Headers(mm, hp \ {m.vm[r].ptr})
            /\ Cards(mm) = Put(Cards(m), m.vm[r].ptr, NoCard)
<1> DEFINE d == m.firstOrd
           m1 == DelOrd(m, r)
           m2 == ReleaseEntry(m1, d)
<1>1. r \in Slot /\ m.vm[r] \in Entry
  BY DEF Ordinary, Memory
<1>2. /\ m1 \in Memory /\ d \in Ordinary(m) /\ Headers(m1, hp)
      /\ m1.vm[d] = [m.vm[r] EXCEPT !.next = m.vm[d].next]
      /\ m1.firstFree = m.firstFree /\ NextOf(m1) = NextOf(m)
      /\ Ordinary(m1) = Ordinary(m) /\ Freed(m1) = Freed(m)
      /\ Listed(NextOf(m), Ordinary(m) \ {d}, m1.firstOrd)
      /\ Cards(m1) = Cards(m)
  BY DelOrdResult
<1> HIDE DEF m1, d
<1>3. m1.vm[d].ptr = m.vm[r].ptr
  BY <1>1, <1>2 DEF Entry
<1>4. d \in Slot /\ Live(m1, d)
  BY <1>2 DEF Ordinary
<1>5. Listed(NextOf(m1), Freed(m1), m1.firstFree)
  BY <1>2 DEF Lists
<1>6. /\ m2 \in Memory /\ m2.firstOrd = m1.firstOrd /\ Lists(m2, m1.firstOrd)
      /\ m2.firstFree \in Slot
      /\ Headers(m2, hp \ {m1.vm[d].ptr})
      /\ Cards(m2) = Put(Cards(m1), m1.vm[d].ptr, NoCard)
  BY <1>2, <1>4, <1>5, ReleaseResult
<1> QED
  BY <1>2, <1>3, <1>6 DEF m1, d

\* Freeing an ordinary block keeps the invariant.
LEMMA GiveBackStep ==
  ASSUME IInv, NEW p \in Block, Tracked(p), ~ IsProcess(mem, Header(p)), InRequest, GiveBack(p)
  PROVE  IInv' /\ Cards(mem') = Put(Cards(mem), p, NoCard)
<1> DEFINE r == mem.id[p]
           m == ReleaseEntry(DelOrd(mem, r), mem.firstOrd)
<1>1. /\ phase # "done" /\ phase' = phase /\ Head = mem.firstOrd /\ Head' = mem'.firstOrd
      /\ mem \in Memory /\ heap \in SUBSET Block
      /\ Headers(mem, heap) /\ Lists(mem, mem.firstOrd)
  BY DEF GiveBack, InRequest, Head, IInv, TypeOK
<1>2. r \in Ordinary(mem) /\ mem.vm[r].ptr = p
  BY <1>1, TrackedEntry DEF Tracked, Header, Ordinary
<1>3. m \in Memory /\ Lists(m, m.firstOrd) /\ Headers(m, heap \ {p})
  BY <1>1, <1>2, TakeOut
<1>7. Cards(m) = Put(Cards(mem), p, NoCard)
  BY <1>1, <1>2, TakeOut
<1>4. mem' = Forget(m, p) /\ heap' = heap \ {p}
  BY DEF GiveBack, Header
<1> HIDE DEF m
<1>5. /\ mem' \in Memory /\ Lists(mem', mem'.firstOrd) /\ Headers(mem', heap')
      /\ Cards(mem') = Cards(m)
  BY <1>1, <1>3, <1>4, ForgetResult, heap \ {p} \in SUBSET Block
<1>6. TypeOK'
  BY <1>1, <1>4, <1>5 DEF IInv, TypeOK, GiveBack, Origin
<1> QED
  BY <1>1, <1>5, <1>6, <1>7 DEF IInv

\* One turn of the loop of rim_done() keeps the invariant.
LEMMA DoneEntryStep ==
  ASSUME IInv, DoneEntry
  PROVE  /\ IInv'
         /\ walk \in Ordinary(mem)
         /\ Cards(mem') = Put(Cards(mem), mem.vm[walk].ptr, NoCard)
<1> DEFINE p == mem.vm[walk].ptr
           m == ReleaseEntry(mem, walk)
<1>1. /\ phase = "done" /\ phase' = "done" /\ Head = walk /\ Head' = walk'
      /\ walk \in Link /\ walk # Nil /\ walk' = mem.vm[walk].next
      /\ mem \in Memory /\ heap \in SUBSET Block
      /\ Headers(mem, heap) /\ Lists(mem, walk)
  BY DEF DoneEntry, Head, IInv, TypeOK
<1>2. /\ walk \in Slot /\ Live(mem, walk) /\ mem.vm[walk] \in Entry
      /\ Listed(NextOf(mem), Ordinary(mem) \ {walk}, walk') /\ walk \in Ordinary(mem)
  <2>1. walk \in Slot /\ Ordinary(mem) \in SUBSET Slot /\ NextOf(mem) \in [Slot -> Link]
    BY <1>1, ListHeads DEF Link, Ordinary
  <2>2. walk \in Ordinary(mem) /\ Listed(NextOf(mem), Ordinary(mem) \ {walk}, NextOf(mem)[walk])
    BY <1>1, <2>1, Pop DEF Lists
  <2> QED
    BY <1>1, <2>1, <2>2 DEF NextOf, Ordinary, Memory
<1>3. /\ m \in Memory /\ Lists(m, walk') /\ Headers(m, heap \ {p})
      /\ Cards(m) = Put(Cards(mem), p, NoCard)
  <2>1. Listed(NextOf(mem), Freed(mem), mem.firstFree)
    BY <1>1 DEF Lists
  <2> QED
    BY <1>1, <1>2, <2>1, ReleaseResult
<1> HIDE DEF m
<1>4. /\ mem' \in Memory /\ Lists(mem', walk') /\ Headers(mem', heap')
      /\ Cards(mem') = Cards(m)
  <2>1. CASE "file" \in mem.vm[walk].status
    BY <1>3, <2>1 DEF DoneEntry, m, Headers
  <2>2. CASE "file" \notin mem.vm[walk].status
    <3>1. mem' = Forget(m, p) /\ heap' = heap \ {p}
      BY <2>2 DEF DoneEntry, m
    <3> QED
      BY <1>1, <1>3, <3>1, ForgetResult, heap \ {p} \in SUBSET Block
  <2> QED
    BY <2>1, <2>2
<1>5. walk' \in Link
  BY <1>1, <1>2 DEF Entry
<1>6. TypeOK'
  BY <1>1, <1>4, <1>5 DEF IInv, TypeOK, DoneEntry, Origin
<1> QED
  BY <1>1, <1>2, <1>3, <1>4, <1>6 DEF IInv

\* The end of rim_done() keeps the invariant: nothing ordinary is left.
LEMMA EndDoneStep ==
  ASSUME IInv, EndDone
  PROVE  IInv' /\ Ordinary(mem) = {} /\ Cards(mem') = Cards(mem)
<1>1. /\ Head = Nil /\ mem \in Memory /\ Lists(mem, Nil) /\ Headers(mem, heap)
      /\ heap' = heap /\ Head' = mem'.firstOrd
      /\ mem' = [mem EXCEPT !.firstOrd = Nil]
  BY DEF EndDone, Head, IInv, TypeOK
<1>2. /\ mem' \in Memory /\ mem'.firstOrd = Nil
      /\ mem'.vm = mem.vm /\ mem'.id = mem.id /\ mem'.curr = mem.curr
      /\ mem'.firstFree = mem.firstFree
  BY <1>1 DEF Memory, Link
<1>3. Lists(mem', Nil) /\ Headers(mem', heap)
  BY <1>1, <1>2 DEF Lists, Headers, NextOf, Ordinary, Freed, Live, IsProcess
<1>4. TypeOK'
  BY <1>2 DEF EndDone, IInv, TypeOK, Phase
<1>5. Ordinary(mem) = {}
  BY <1>1, ListHeads, Nil \in Link DEF Link
<1>6. Cards(mem') = Cards(mem)
  BY <1>2 DEF Cards, InTable, Live
<1> QED
  BY <1>1, <1>2, <1>3, <1>4, <1>5, <1>6 DEF IInv

\* rim_realloc keeps the invariant: the entry of p is released and taken
\* again for q, by way of either list.
LEMMA ReallocStep ==
  ASSUME IInv, NEW p \in Block, NEW q \in Block, Realloc(p, q)
  PROVE  /\ IInv'
         /\ Cards(mem') = Put(Put(Cards(mem), p, NoCard), q, NewCard(memProcess))
<1> DEFINE r == mem.id[p]
           was == IsProcess(mem, r)
           m0 == [mem EXCEPT !.vm[r].ptr = q, !.id[q] = r]
           moved == Forget(m0, p)
           gone == IF was THEN ReleaseEntry(moved, r)
                   ELSE ReleaseEntry(DelOrd(moved, r), moved.firstOrd)
           new == AddMem(gone, q, memProcess)
           k == new.id[q]
           hq == (heap \ {p}) \cup {q}
           e == [new.vm[k] EXCEPT !.status = IF was THEN @ \cup {"process"} ELSE @,
                                  !.ref = mem.vm[r].ref]
<1>1. /\ phase # "done" /\ phase' = phase /\ Head = mem.firstOrd /\ Head' = mem'.firstOrd
      /\ mem \in Memory /\ heap \in SUBSET Block /\ memProcess \in BOOLEAN
      /\ Headers(mem, heap) /\ Lists(mem, mem.firstOrd)
      /\ p # q /\ q \notin heap
      /\ was => memProcess
      /\ mem.vm[r].ref = 0
      /\ hq \in SUBSET Block /\ p \notin hq /\ heap' = hq
      /\ \E s \in Slot : Live(mem, s) /\ mem.vm[s].ptr = p
  BY DEF Realloc, Header, Tracked, InRequest, Head, IInv, TypeOK
<1>2. /\ r \in Slot /\ Live(mem, r) /\ mem.vm[r] \in Entry /\ mem.vm[r].ptr = p
      /\ p \in heap
  BY <1>1, TrackedEntry DEF Memory
<1>3. mem' = [new EXCEPT !.vm[k].status = IF was THEN @ \cup {"process"} ELSE @,
                         !.vm[k].ref = mem.vm[r].ref]
  BY DEF Realloc, Header
<1> HIDE DEF r
<1>4. /\ m0 \in Memory /\ Headers(m0, hq) /\ Lists(m0, m0.firstOrd)
      /\ Live(m0, r) /\ m0.vm[r].ptr = q /\ (IsProcess(m0, r) <=> was)
      /\ \A b \in Block \ {p, q} : Cards(m0)[b] = Cards(mem)[b]
  <2> DEFINE x == [mem.vm[r] EXCEPT !.ptr = q]
  <2>1. /\ x \in Entry /\ x.ptr = q /\ x.next = mem.vm[r].next /\ x.status = mem.vm[r].status
    BY <1>2 DEF Entry
  <2>2. /\ m0.vm = [mem.vm EXCEPT ![r] = x] /\ m0.id = [mem.id EXCEPT ![q] = r]
        /\ m0.curr = mem.curr /\ m0.firstFree = mem.firstFree /\ m0.firstOrd = mem.firstOrd
        /\ m0 \in [vm : {m0.vm}, curr : {m0.curr}, firstFree : {m0.firstFree},
                    firstOrd : {m0.firstOrd}, id : {m0.id}]
    BY <1>1 DEF Memory
  <2> HIDE DEF m0, x
  <2>3. /\ m0.vm \in [Slot -> Entry] /\ m0.vm[r] = x
        /\ \A s \in Slot \ {r} : m0.vm[s] = mem.vm[s]
        /\ m0.id \in [Block -> Link] /\ m0.id[q] = r
        /\ \A b \in Block \ {q} : m0.id[b] = mem.id[b]
    BY <1>1, <1>2, <2>1, <2>2 DEF Memory, Link
  <2>4. m0 \in Memory
    BY <1>1, <2>2, <2>3 DEF Memory
  <2>5. NextOf(m0) = NextOf(mem)
    BY <1>2, <2>1, <2>3 DEF NextOf
  <2>6. Ordinary(m0) = Ordinary(mem) /\ Freed(m0) = Freed(mem)
    BY <1>2, <2>1, <2>2, <2>3 DEF Ordinary, Freed, Live, IsProcess
  <2>7. Live(m0, r) /\ m0.vm[r].ptr = q /\ (IsProcess(m0, r) <=> was)
    BY <1>2, <2>1, <2>2, <2>3 DEF Live, IsProcess
  <2>8. Headers(m0, hq)
    <3> SUFFICES ASSUME NEW s \in Slot, Live(m0, s)
                 PROVE  m0.vm[s].ptr \in hq /\ m0.id[m0.vm[s].ptr] = s
      BY DEF Headers
    <3>1. CASE s = r
      BY <2>1, <2>3, <3>1
    <3>2. CASE s # r
      <4>1. m0.vm[s] = mem.vm[s] /\ Live(mem, s)
        BY <2>2, <2>3, <3>2 DEF Live
      <4>2. mem.vm[s].ptr \in heap /\ mem.id[mem.vm[s].ptr] = s
        BY <1>1, <4>1 DEF Headers
      <4>3. mem.id[p] = r
        BY <1>1, <1>2 DEF Headers
      <4>4. mem.vm[s].ptr # p /\ mem.vm[s].ptr # q /\ mem.vm[s].ptr \in Block
        <5>1. mem.vm[s].ptr # p
          BY <3>2, <4>2, <4>3
        <5>2. mem.vm[s].ptr # q /\ mem.vm[s].ptr \in Block
          BY <1>1, <4>2
        <5> QED
          BY <5>1, <5>2
      <4> QED
        BY <2>3, <4>1, <4>2, <4>4
    <3> QED
      BY <3>1, <3>2
  <2>9. ASSUME NEW b \in Block \ {p, q} PROVE Cards(m0)[b] = Cards(mem)[b]
    <3>1. \A s \in Slot : Live(mem, s) /\ mem.vm[s].ptr = b
            => Live(m0, s) /\ m0.vm[s].ptr = b /\ Card(m0.vm[s]) = Card(mem.vm[s])
      BY <1>2, <2>2, <2>3 DEF Live
    <3>2. \A s \in Slot : Live(m0, s) /\ m0.vm[s].ptr = b => InTable(mem, b)
      BY <2>1, <2>2, <2>3 DEF Live, InTable
    <3> QED
      BY <1>1, <2>8, <3>1, <3>2, SameCard
  <2> QED
    BY <1>1, <2>2, <2>4, <2>5, <2>6, <2>7, <2>8, <2>9 DEF Lists
<1> HIDE DEF m0, hq
<1>5. /\ moved \in Memory /\ Headers(moved, hq) /\ Lists(moved, moved.firstOrd)
      /\ Live(moved, r) /\ moved.vm[r].ptr = q /\ (IsProcess(moved, r) <=> was)
      /\ Cards(moved) = Cards(m0)
  <2>1. /\ moved \in Memory /\ Headers(moved, hq) /\ moved.vm = m0.vm /\ moved.curr = m0.curr
        /\ moved.firstOrd = m0.firstOrd /\ Cards(moved) = Cards(m0)
        /\ \A head : Lists(m0, head) => Lists(moved, head)
    BY <1>1, <1>4, ForgetResult
  <2> HIDE DEF moved
  <2> QED
    BY <1>4, <2>1 DEF Live, IsProcess
<1> HIDE DEF moved, was
<1>6. /\ gone \in Memory /\ Headers(gone, hq \ {q}) /\ Lists(gone, gone.firstOrd)
      /\ gone.firstFree \in Slot /\ Cards(gone) = Put(Cards(moved), q, NoCard)
  <2>1. CASE was
    <3>1. r \notin Ordinary(moved) /\ Ordinary(moved) \ {r} = Ordinary(moved)
      BY <1>5, <2>1 DEF Ordinary
    <3>2. Listed(NextOf(moved), Ordinary(moved) \ {r}, moved.firstOrd)
          /\ Listed(NextOf(moved), Freed(moved), moved.firstFree)
      BY <1>5, <3>1 DEF Lists
    <3>3. gone = ReleaseEntry(moved, r)
      BY <2>1
    <3> HIDE DEF gone
    <3> QED
      BY <1>1, <1>2, <1>5, <3>2, <3>3, ReleaseResult
  <2>2. CASE ~ was
    <3>1. r \in Ordinary(moved)
      BY <1>2, <1>5, <2>2 DEF Ordinary
    <3>2. gone = ReleaseEntry(DelOrd(moved, r), moved.firstOrd)
      BY <2>2
    <3> HIDE DEF gone
    <3> QED
      BY <1>1, <1>5, <3>1, <3>2, TakeOut
  <2> QED
    BY <2>1, <2>2
<1> HIDE DEF gone
<1>7. /\ new \in Memory /\ k \in Slot /\ Live(new, k) /\ (IsProcess(new, k) <=> memProcess)
      /\ Lists(new, new.firstOrd) /\ Headers(new, hq)
      /\ Cards(new) = Put(Cards(gone), q, NewCard(memProcess))
  <2>1. HasRoom(gone) /\ NextEntry(gone) \in Slot
    BY <1>6, MemAssumption DEF HasRoom, NextEntry, Slot, Nil
  <2>2. hq \ {q} \in SUBSET Block /\ q \in Block \ (hq \ {q}) /\ (hq \ {q}) \cup {q} = hq
    BY <1>1 DEF hq
  <2>3. /\ new \in Memory /\ k = NextEntry(gone) /\ Live(new, NextEntry(gone))
        /\ (IsProcess(new, NextEntry(gone)) <=> memProcess)
        /\ Lists(new, new.firstOrd) /\ Headers(new, (hq \ {q}) \cup {q})
    BY <1>1, <1>6, <2>1, <2>2, AddMemResult
  <2>4. Cards(new) = Put(Cards(gone), q, NewCard(memProcess))
    BY <1>1, <1>6, <2>1, <2>2, AddMemResult
  <2> QED
    BY <2>1, <2>2, <2>3, <2>4
<1> HIDE DEF new, k
<1>8. new.vm[k] \in Entry
  BY <1>7 DEF Memory
<1>9. mem' = [new EXCEPT !.vm[k] = e]
  BY <1>3, <1>7 DEF Memory
<1>10. /\ e \in Entry /\ e.next = new.vm[k].next /\ e.ptr = new.vm[k].ptr
       /\ e.status = IF was THEN new.vm[k].status \cup {"process"} ELSE new.vm[k].status
       /\ e.ref = mem.vm[r].ref
  <2>1. (IF was THEN new.vm[k].status \cup {"process"} ELSE new.vm[k].status) \in SUBSET Bit
    BY <1>8 DEF Entry, Bit
  <2>2. mem.vm[r].ref \in RefCount
    BY <1>2 DEF Entry
  <2> QED
    BY <1>8, <2>1, <2>2 DEF Entry
<1> HIDE DEF e
<1>11. /\ "free" \in e.status <=> "free" \in new.vm[k].status
       /\ "process" \in e.status <=> IsProcess(new, k)
  <2>1. CASE was
    BY <1>1, <1>7, <1>10, <2>1 DEF IsProcess
  <2>2. CASE ~ was
    BY <1>10, <2>2 DEF IsProcess
  <2> QED
    BY <2>1, <2>2
<1>12. mem' \in Memory /\ Headers(mem', hq) /\ mem'.firstOrd = new.firstOrd
  BY <1>7, <1>9, <1>10, <1>11, EntryUpdate
<1>13. Lists(mem', new.firstOrd)
  BY <1>7, <1>9, <1>10, <1>11, SameScopeUpdate
<1>14. TypeOK'
  BY <1>1, <1>12 DEF IInv, TypeOK, Realloc, Origin
<1>15. /\ Cards(gone) \in [Block -> CardSet] /\ Cards(new) \in [Block -> CardSet]
       /\ Cards(mem) \in [Block -> CardSet] /\ Cards(moved) \in [Block -> CardSet]
       /\ Cards(mem') \in [Block -> CardSet]
  <2>1. hq \ {q} \in SUBSET Block
    BY <1>1
  <2> QED
    BY <1>1, <1>5, <1>6, <1>7, <1>12, <2>1, CardsTyped
<1>16. e.ptr = q /\ "free" \notin e.status /\ Card(e) = NewCard(memProcess)
  <2>1. Cards(new)[q] = NewCard(memProcess)
    BY <1>7, <1>15 DEF Put
  <2>2. InTable(new, q)
    BY <1>1, <1>7, <2>1, CardIsFree DEF NewCard
  <2>3. new.vm[k].ptr = q
    BY <1>7, <2>2, TrackedEntry DEF InTable, k
  <2>4. Cards(new)[q] = Card(new.vm[k])
    BY <1>1, <1>7, <2>3, CardOfLive
  <2>5. new.vm[k].status = NewCard(memProcess).status
    BY <2>1, <2>4 DEF Card, NewCard
  <2>6. e.status = NewCard(memProcess).status /\ e.ref = 0
    BY <1>1, <1>10, <2>5 DEF NewCard
  <2> QED
    BY <1>10, <2>3, <2>6 DEF Card, NewCard
<1>17. Cards(mem') = Put(Cards(new), q, NewCard(memProcess))
  <2>1. hq \in SUBSET Block /\ e.ptr = new.vm[k].ptr /\ "free" \notin e.status
    BY <1>1, <1>10, <1>16
  <2>2. Cards([new EXCEPT !.vm[k] = e]) = Put(Cards(new), e.ptr, Card(e))
    BY <1>7, <1>10, <2>1, CardOfUpdate
  <2> QED
    BY <1>9, <1>16, <2>2
<1>18. Cards(moved)[p] = NoCard
  BY <1>1, <1>5, CardIsFree
<1> QED
  <2>1. Cards(mem') = Put(Put(Cards(mem), p, NoCard), q, NewCard(memProcess))
    <3> DEFINE f == Cards(mem)
               g == Cards(moved)
               h == Cards(mem')
               c == NewCard(memProcess)
    <3>1. h = Put(Put(Put(g, q, NoCard), q, c), q, c)
      BY <1>6, <1>7, <1>17
    <3>2. /\ f \in [Block -> CardSet] /\ g \in [Block -> CardSet] /\ g[p] = NoCard
          /\ \A b \in Block \ {p, q} : g[b] = f[b]
      BY <1>4, <1>5, <1>15, <1>18
    <3> HIDE DEF f, g, h, c
    <3>3. h = Put(Put(f, p, NoCard), q, c)
      BY <1>1, <3>1, <3>2 DEF Put
    <3> QED
      BY <3>3 DEF f, h, c
  <2> QED
    BY <1>1, <1>12, <1>13, <1>14, <2>1 DEF IInv

-----------------------------------------------------------------------------
(* The theorems.                                                           *)

\* An empty table satisfies the invariant.
LEMMA InitInv == Init => IInv
<1> SUFFICES ASSUME Init PROVE IInv
  OBVIOUS
<1>1. MaxVm \in Nat \ {0} /\ MaxRef \in Nat \ {0}
  BY MemAssumption
<1>2. UnusedEntry \in Entry
  BY <1>1 DEF UnusedEntry, Entry, Link, RefCount, Bit
<1>3. /\ mem \in Memory /\ mem.curr = 0 /\ mem.firstFree = Nil /\ mem.firstOrd = Nil
  BY <1>1, <1>2 DEF Init, Memory, Link
<1>4. TypeOK
  BY <1>3 DEF Init, TypeOK, Phase, Origin, Link
<1>5. Ordinary(mem) = {} /\ Freed(mem) = {} /\ Headers(mem, heap)
  BY <1>1, <1>3 DEF Ordinary, Freed, Headers, Live, Slot
<1>6. Listed(NextOf(mem), {}, Nil)
  <2>1. [s \in Slot |-> 0] \in [Slot -> Nat] /\ 0 \in Nat
    OBVIOUS
  <2>2. Ranks(NextOf(mem), {}, Nil, [s \in Slot |-> 0], 0)
    BY DEF Ranks
  <2> QED
    BY <2>1, <2>2 DEF Listed
<1>7. Head = Nil
  BY <1>3 DEF Init, Head
<1> QED
  BY <1>3, <1>4, <1>5, <1>6, <1>7 DEF IInv, Lists

\* The steps of the request loop that leave the table alone keep the invariant.
LEMMA LoopStepInv ==
  ASSUME IInv, Accept \/ (\E b \in BOOLEAN : BeginStatement(b)) \/ EndStatement
               \/ ReportError \/ BeginDone
  PROVE  IInv'
<1>1. UNCHANGED <<mem, heap, origin, fd>> /\ phase # "done" /\ Head = mem.firstOrd
  BY DEF Accept, BeginStatement, EndStatement, ReportError, MayFail, BeginDone, Head
<1>2. TypeOK' /\ Head' = Head
  BY <1>1 DEF IInv, TypeOK, Phase, Memory, Head,
              Accept, BeginStatement, EndStatement, ReportError, BeginDone
<1> QED
  BY <1>1, <1>2 DEF IInv

\* Every step keeps the invariant.
LEMMA NextInv == IInv /\ [Next]_vars => IInv'
<1> SUFFICES ASSUME IInv, [Next]_vars PROVE IInv'
  OBVIOUS
<1>1. CASE UNCHANGED vars
  BY <1>1 DEF vars, IInv, TypeOK, Head
<1>2. CASE LoopStep
  BY <1>2, LoopStepInv, DoneEntryStep, EndDoneStep DEF LoopStep
<1>3. ASSUME NEW p \in Block, BlockStep(p)
      PROVE  IInv'
  <2>1. ASSUME NEW opens \in BOOLEAN, Malloc(p, opens) PROVE IInv'
    BY <2>1, MallocStep
  <2>2. ASSUME NEW isProcess \in BOOLEAN, AddRef(p, isProcess) PROVE IInv'
    BY <2>2, AddRefStep
  <2>3. CASE AddRefFails(p)
    BY <2>3, AddRefFailsStep
  <2>4. CASE DecProcess(p)
    BY <2>4, DecProcessStep
  <2>5. CASE Free(p)
    BY <2>5, GiveBackStep DEF Free
  <2>6. CASE FreeInt(p)
    BY <2>6, GiveBackStep DEF FreeInt, Stray
  <2>7. ASSUME NEW q \in Block, Realloc(p, q) PROVE IInv'
    BY <2>7, ReallocStep
  <2>8. CASE StrayRemoval(p)
    <3>1. UNCHANGED <<mem, heap, memProcess, walk, origin, fd>> /\ phase # "done"
          /\ phase' = "undefined"
      BY <2>8 DEF StrayRemoval, InRequest
    <3> QED
      BY <3>1 DEF IInv, TypeOK, Phase, Head
  <2> QED
    BY <1>3, <2>1, <2>2, <2>3, <2>4, <2>5, <2>6, <2>7, <2>8 DEF BlockStep
<1> QED
  BY <1>1, <1>2, <1>3 DEF Next

\* The invariant holds in every state of rimmem.c.
THEOREM Invariance == Spec => []IInv
<1> QED
  BY InitInv, NextInv, PTL DEF Spec

\* Every field of vm[], every link and every header stays in its range: no
\* call of rimmem.c, in any order, takes an index out of an entry or a header
\* that is not there (rim_mem_del_ord, rim_add_mem, rim_done).
THEOREM TypeCorrect == Spec => []TypeOK
<1>1. IInv => TypeOK
  BY DEF IInv
<1> QED
  BY <1>1, Invariance, PTL

\* However entries were swapped under the program's pointers, the header of
\* every block names the one entry that points to it (rim_mem_del_ord).
THEOREM HeadersCorrect == Spec => []HeadersFollowBlocks
<1>1. IInv => HeadersFollowBlocks
  BY DEF IInv, Headers, HeadersFollowBlocks
<1> QED
  BY <1>1, Invariance, PTL

-----------------------------------------------------------------------------
(* Chain: how far a list is followed. A fact about every step of following *)
(* is proved from the first step for which it would fail.                  *)

\* A set of numbers up to n that is not empty has a least element.
LEMMA LeastUpTo ==
  ASSUME NEW n \in Nat, NEW T \in SUBSET (0 .. n), T # {}
  PROVE  \E t \in T : \A m \in T : t <= m
<1> DEFINE F == {0 .. t : t \in T}
           R == StrictSubsetOrdering(0 .. n)
<1>1. IsFiniteSet(0 .. n)
  BY FS_Interval
<1>2. IsWellFoundedOn(R, SUBSET (0 .. n))
  BY <1>1, FS_StrictSubsetOrderingWellFounded, FS_FiniteSubsetsOfFinite
<1>3. F \subseteq SUBSET (0 .. n) /\ F # {}
  <2>1. \A t \in T : 0 .. t \subseteq 0 .. n
    OBVIOUS
  <2> QED
    BY <2>1
<1> HIDE DEF R
<1>4. PICK x \in F : \A y \in F : ~ (<<y, x>> \in R)
  BY <1>2, <1>3, WFMin
<1>5. PICK t \in T : x = 0 .. t
  BY <1>4
<1>6. ASSUME NEW m \in T, m < t PROVE FALSE
  <2>1. 0 .. m \in F /\ 0 .. m \in SUBSET (0 .. n) /\ x \in SUBSET (0 .. n)
    BY <1>3, <1>5
  <2>2. t \in 0 .. t /\ t \notin 0 .. m /\ 0 .. m \subseteq 0 .. t
    BY <1>6
  <2>3. <<0 .. m, x>> \in R
    BY <2>1, <2>2, <1>5 DEF R, StrictSubsetOrdering
  <2> QED
    BY <1>4, <2>1, <2>3
<1> QED
  BY <1>6

\* Every rank up to that of the head is the rank of an entry.
LEMMA RanksFilled ==
  ASSUME NEW next, NEW S \in SUBSET Slot, NEW head, NEW rank \in [Slot -> Nat], NEW n \in Nat,
         Ranks(next, S, head, rank, n), NEW k \in 1 .. n
  PROVE  \E r \in S : rank[r] = k
<1> DEFINE T == {t \in 0 .. n - 1 : \A r \in S : rank[r] # n - t}
<1>1. SUFFICES T = {}
  BY n - k \in 0 .. n - 1, n - (n - k) = k
<1>2. SUFFICES ASSUME T # {} PROVE FALSE
  OBVIOUS
<1>3. n - 1 \in Nat /\ T \in SUBSET (0 .. n - 1)
  OBVIOUS
<1>4. PICK t \in T : \A u \in T : t <= u
  BY <1>2, <1>3, LeastUpTo
<1>5. t \in 0 .. n - 1 /\ \A r \in S : rank[r] # n - t
  OBVIOUS
<1>6. t # 0
  BY <1>5 DEF Ranks
<1>7. t - 1 \in 0 .. n - 1 /\ ~ (t <= t - 1)
  BY <1>5, <1>6
<1>8. PICK r \in S : rank[r] = n - (t - 1)
  BY <1>4, <1>7
<1>9. next[r] \in S /\ rank[next[r]] = n - t
  <2>1. rank[r] # 1
    BY <1>5, <1>8
  <2>2. next[r] \in S /\ rank[next[r]] = rank[r] - 1
    BY <2>1 DEF Ranks
  <2> QED
    BY <1>5, <1>8, <2>2
<1> QED
  BY <1>5, <1>9

\* A list has no more entries than the table.
LEMMA ListFits ==
  ASSUME NEW next, NEW S \in SUBSET Slot, NEW head, NEW rank \in [Slot -> Nat], NEW n \in Nat,
         Ranks(next, S, head, rank, n)
  PROVE  n <= MaxVm
<1> DEFINE g == [k \in 1 .. n |-> CHOOSE r \in S : rank[r] = k]
<1>1. \A k \in 1 .. n : g[k] \in S /\ rank[g[k]] = k
  BY RanksFilled
<1>2. g \in Injection(1 .. n, Slot)
  <2>1. g \in [1 .. n -> Slot]
    BY <1>1
  <2>2. \A j, k \in 1 .. n : g[j] = g[k] => j = k
    BY <1>1
  <2> HIDE DEF g
  <2> QED
    BY <2>1, <2>2 DEF Injection, IsInjective
<1>3. MaxVm \in Nat /\ MaxVm - 1 \in Int
  BY MemAssumption
<1>4. IsFiniteSet(Slot) /\ Cardinality(Slot) = MaxVm
  <2>1. Cardinality(0 .. MaxVm - 1) = IF 0 > MaxVm - 1 THEN 0 ELSE MaxVm - 1 - 0 + 1
    BY <1>3, FS_Interval
  <2> QED
    BY <1>3, <2>1, FS_Interval, MemAssumption DEF Slot
<1>5. Cardinality(1 .. n) = n
  <2>1. Cardinality(1 .. n) = IF 1 > n THEN 0 ELSE n - 1 + 1
    BY FS_Interval
  <2> QED
    BY <2>1
<1> HIDE DEF g
<1>6. IsFiniteSet(1 .. n) /\ Cardinality(1 .. n) <= Cardinality(Slot)
  BY <1>2, <1>4, FS_Injection, FS_Interval
<1> QED
  BY <1>4, <1>5, <1>6

\* Following next from the head of a list reaches exactly its entries: after
\* k steps, those whose rank is among the highest k + 1.
LEMMA ChainOfList ==
  ASSUME NEW m \in Memory, NEW S \in SUBSET Slot, NEW head, Listed(NextOf(m), S, head)
  PROVE  Chain(m, head) = S
<1>1. PICK rank \in [Slot -> Nat], n \in Nat : Ranks(NextOf(m), S, head, rank, n)
  BY DEF Listed
<1>2. n <= MaxVm /\ MaxVm \in Nat /\ Nil \notin Slot
  BY <1>1, ListFits, MemAssumption DEF Slot, Nil
<1> DEFINE succ(A) == A \cup ({m.vm[r].next : r \in A} \ {Nil})
           Def(f) == [k \in 0 .. MaxVm |-> IF k = 0 THEN {head} \ {Nil} ELSE succ(f[k - 1])]
           F == CHOOSE f : f = Def(f)
           top(k) == {r \in S : rank[r] >= n - k}
           W == [k \in 0 .. MaxVm |-> top(k)]
<1>3. Chain(m, head) = F[MaxVm]
  BY DEF Chain
<1>4. \A r \in Slot : NextOf(m)[r] = m.vm[r].next
  BY DEF NextOf
<1>5. top(0) = {head} \ {Nil}
  <2>1. CASE n = 0
    BY <1>1, <2>1 DEF Ranks
  <2>2. CASE n # 0
    <3>1. head \in S /\ rank[head] = n /\ head # Nil
      BY <1>1, <1>2, <2>2 DEF Ranks
    <3>2. \A r \in S : rank[r] >= n => r = head
      BY <1>1, <3>1 DEF Ranks
    <3> QED
      BY <3>1, <3>2
  <2> QED
    BY <2>1, <2>2
<1>6. ASSUME NEW k \in 1 .. MaxVm PROVE top(k) = succ(top(k - 1))
  <2>1. ASSUME NEW r \in top(k) PROVE r \in succ(top(k - 1))
    <3>1. r \in S /\ rank[r] \in 1 .. n /\ rank[r] >= n - k
      BY <1>1 DEF Ranks
    <3>2. CASE rank[r] >= n - (k - 1)
      BY <3>1, <3>2
    <3>3. CASE rank[r] = n - k
      <4>1. PICK s \in S : rank[s] = n - (k - 1)
        BY <1>1, <3>1, <3>3, n - (k - 1) \in 1 .. n, RanksFilled
      <4>2. NextOf(m)[s] \in S /\ rank[NextOf(m)[s]] = rank[s] - 1
        BY <1>1, <3>1, <3>3, <4>1 DEF Ranks
      <4>3. NextOf(m)[s] = r
        BY <1>1, <3>1, <3>3, <4>1, <4>2 DEF Ranks
      <4>4. m.vm[s].next = r /\ s \in top(k - 1) /\ r # Nil
        BY <1>2, <1>4, <3>1, <4>1, <4>3
      <4> QED
        BY <4>4
    <3> QED
      BY <3>1, <3>2, <3>3
  <2>2. ASSUME NEW s \in top(k - 1), m.vm[s].next # Nil PROVE m.vm[s].next \in top(k)
    <3>1. s \in S /\ rank[s] \in 1 .. n /\ rank[s] >= n - (k - 1)
      BY <1>1 DEF Ranks
    <3>2. NextOf(m)[s] = m.vm[s].next
      BY <1>4, <3>1
    <3>3. NextOf(m)[s] \in S /\ rank[NextOf(m)[s]] = rank[s] - 1
      BY <1>1, <2>2, <3>1, <3>2 DEF Ranks
    <3> QED
      BY <3>1, <3>2, <3>3
  <2>3. \A r \in top(k - 1) : r \in top(k)
    OBVIOUS
  <2> HIDE DEF top
  <2> QED
    BY <2>1, <2>2, <2>3
<1> HIDE DEF succ, top
<1>7. W = Def(W)
  BY <1>2, <1>5, <1>6
<1> HIDE DEF Def
<1>8. F = Def(F)
  BY <1>7
<1> HIDE DEF F
<1> DEFINE T == {k \in 0 .. MaxVm : F[k] # W[k]}
<1>9. T = {}
  <2> SUFFICES ASSUME T # {} PROVE FALSE
    OBVIOUS
  <2>1. PICK t \in T : \A u \in T : t <= u
    BY <1>2, LeastUpTo, T \in SUBSET (0 .. MaxVm)
  <2>2. t \in 0 .. MaxVm /\ F[t] # W[t]
    OBVIOUS
  <2> HIDE DEF W
  <2>3. CASE t = 0
    BY <1>7, <1>8, <2>2, <2>3 DEF Def
  <2>4. CASE t # 0
    <3>1. t - 1 \in 0 .. MaxVm /\ ~ (t <= t - 1)
      BY <1>2, <2>2, <2>4
    <3>2. F[t - 1] = W[t - 1]
      BY <2>1, <3>1
    <3> QED
      BY <1>7, <1>8, <2>2, <2>4, <3>2 DEF Def
  <2> QED
    BY <2>3, <2>4
<1>10. W[MaxVm] = S
  BY <1>1, <1>2 DEF top, Ranks
<1> HIDE DEF W
<1> QED
  BY <1>2, <1>3, <1>9, <1>10

\* The two lists that share the field next never mix: outside rim_done() the
\* ordinary list runs through exactly the ordinary entries, the free list
\* through exactly the freed ones, whatever calls and errors came before.
THEOREM ListsExact == Spec => []ListsAreExact
<1>1. IInv => ListsAreExact
  <2> SUFFICES ASSUME IInv, phase # "done"
               PROVE  Chain(mem, mem.firstOrd) = Ordinary(mem) /\ Chain(mem, mem.firstFree) = Freed(mem)
    BY DEF ListsAreExact, Ordinary, Freed
  <2>1. /\ mem \in Memory
        /\ Listed(NextOf(mem), Ordinary(mem), mem.firstOrd)
        /\ Listed(NextOf(mem), Freed(mem), mem.firstFree)
    BY DEF IInv, TypeOK, Lists, Head
  <2>2. Ordinary(mem) \in SUBSET Slot /\ Freed(mem) \in SUBSET Slot
    BY DEF Ordinary, Freed
  <2> QED
    BY <2>1, <2>2, ChainOfList
<1> QED
  BY <1>1, Invariance, PTL

-----------------------------------------------------------------------------
(* Scopes: what MemBlocks sees of the table is on the cards of the blocks, *)
(* and each call changes the card of one block, of two when it moves one.  *)

Scopes == [p \in Block |-> ScopeOf(p)]
Refs == [p \in Block |-> RefOf(p)]

CardScope(c) == IF "free" \in c.status THEN "none"
                ELSE IF "process" \in c.status THEN "process" ELSE "ordinary"
ScopesIn(f) == [p \in Block |-> CardScope(f[p])]
RefsIn(f) == [p \in Block |-> f[p].ref]

\* What MemBlocks sees of a block is on its card.
LEMMA CardTells ==
  ASSUME NEW m, NEW hp \in SUBSET Block, Headers(m, hp), NEW p \in Block
  PROVE  /\ CardScope(Cards(m)[p]) = IF ~ InTable(m, p) THEN "none"
                                     ELSE IF IsProcess(m, m.id[p]) THEN "process" ELSE "ordinary"
         /\ Cards(m)[p].ref = IF InTable(m, p) THEN m.vm[m.id[p]].ref ELSE 0
<1>1. CASE InTable(m, p)
  <2>1. Cards(m)[p] = Card(m.vm[m.id[p]]) /\ "free" \notin Cards(m)[p].status
    BY <1>1, CardIsFree DEF Cards
  <2> QED
    BY <1>1, <2>1 DEF CardScope, Card, IsProcess
<1>2. CASE ~ InTable(m, p)
  BY <1>2 DEF Cards, CardScope, NoCard
<1> QED
  BY <1>1, <1>2

\* The scopes and counts that the program can tell are those on the cards.
LEMMA ScopesNow ==
  ASSUME IInv
  PROVE  Scopes = ScopesIn(Cards(mem)) /\ Refs = RefsIn(Cards(mem))
<1>1. heap \in SUBSET Block /\ Headers(mem, heap)
  BY DEF IInv, TypeOK
<1>2. \A p \in Block : ScopeOf(p) = CardScope(Cards(mem)[p]) /\ RefOf(p) = Cards(mem)[p].ref
  BY <1>1, CardTells DEF ScopeOf, RefOf, Tracked, InTable, Header
<1> QED
  BY <1>2 DEF Scopes, Refs, ScopesIn, RefsIn

\* The same after a step of rimmem.c.
LEMMA ScopesNext ==
  ASSUME IInv'
  PROVE  Scopes' = ScopesIn(Cards(mem')) /\ Refs' = RefsIn(Cards(mem'))
<1>1. heap' \in SUBSET Block /\ Headers(mem', heap')
  BY DEF IInv, TypeOK
<1>2. \A p \in Block : ScopeOf(p)' = CardScope(Cards(mem')[p]) /\ RefOf(p)' = Cards(mem')[p].ref
  BY <1>1, CardTells DEF ScopeOf, RefOf, Tracked, InTable, Header
<1> QED
  BY <1>2 DEF Scopes, Refs, ScopesIn, RefsIn

\* A new card for one block changes its scope and count alone.
LEMMA ScopesPut ==
  ASSUME NEW f \in [Block -> CardSet], NEW p \in Block, NEW c
  PROVE  /\ ScopesIn(Put(f, p, c)) = Put(ScopesIn(f), p, CardScope(c))
         /\ RefsIn(Put(f, p, c)) = Put(RefsIn(f), p, c.ref)
<1>1. Put(f, p, c)[p] = c /\ \A q \in Block \ {p} : Put(f, p, c)[q] = f[q]
  BY DEF Put
<1>2. ScopesIn(Put(f, p, c)) = [ScopesIn(f) EXCEPT ![p] = CardScope(c)]
  BY <1>1 DEF ScopesIn
<1>3. RefsIn(Put(f, p, c)) = [RefsIn(f) EXCEPT ![p] = c.ref]
  BY <1>1 DEF RefsIn
<1> QED
  BY <1>2, <1>3 DEF Put

\* A call that changes one card changes one scope and one count.
LEMMA OneBlock ==
  ASSUME IInv, IInv', NEW p \in Block, NEW c, Cards(mem') = Put(Cards(mem), p, c),
         NEW s, CardScope(c) = s, NEW n, c.ref = n
  PROVE  Scopes' = Put(Scopes, p, s) /\ Refs' = Put(Refs, p, n)
<1>1. Cards(mem) \in [Block -> CardSet]
  BY CardsTyped DEF IInv, TypeOK
<1>2. /\ ScopesIn(Put(Cards(mem), p, c)) = Put(ScopesIn(Cards(mem)), p, CardScope(c))
      /\ RefsIn(Put(Cards(mem), p, c)) = Put(RefsIn(Cards(mem)), p, c.ref)
  BY <1>1, ScopesPut
<1> QED
  BY <1>2, ScopesNext, ScopesNow

\* The scope and the count of a block are those on its card.
LEMMA OnCard ==
  ASSUME IInv, NEW p \in Block
  PROVE  /\ Cards(mem)[p] \in CardSet
         /\ Scopes[p] = CardScope(Cards(mem)[p]) /\ Refs[p] = Cards(mem)[p].ref
         /\ Scopes[p] \in {"none", "ordinary", "process"} /\ Refs[p] \in RefCount
         /\ Tracked(p) <=> Scopes[p] # "none"
         /\ Tracked(p) => Refs[p] = mem.vm[mem.id[p]].ref
         /\ Tracked(p) => (IsProcess(mem, mem.id[p]) <=> Scopes[p] = "process")
<1>1. Cards(mem)[p] \in CardSet
  BY CardsTyped DEF IInv, TypeOK
<1>2. Scopes[p] = CardScope(Cards(mem)[p]) /\ Refs[p] = Cards(mem)[p].ref
  BY ScopesNow DEF ScopesIn, RefsIn
<1>3. Scopes[p] = ScopeOf(p) /\ Refs[p] = RefOf(p)
  BY DEF Scopes, Refs
<1>4. Refs[p] \in RefCount
  BY <1>1, <1>2 DEF CardSet
<1> QED
  BY <1>1, <1>2, <1>3, <1>4 DEF ScopeOf, RefOf, Header

\* What the calls do to a card, in terms of its scope and count.
LEMMA CardChanges ==
  ASSUME NEW c \in CardSet, NEW b \in BOOLEAN, CardScope(c) # "none"
  PROVE  /\ CardScope(ReferredCard(c, b)) = IF b THEN "process" ELSE CardScope(c)
         /\ ReferredCard(c, b).ref =
              CASE CardScope(c) = "ordinary" -> 1
                [] CardScope(c) = "process" /\ b -> Incr(c.ref)
                [] OTHER -> c.ref
         /\ LET left == IF c.ref > 0 THEN c.ref - 1 ELSE c.ref
            IN /\ CardScope(UnreferredCard(c)) = IF left = 0 THEN "ordinary" ELSE CardScope(c)
               /\ UnreferredCard(c).ref = IF left = 0 THEN 1 ELSE left
<1>1. "free" \notin c.status
  BY DEF CardScope
<1>2. CardScope(c) = IF "process" \in c.status THEN "process" ELSE "ordinary"
  BY <1>1 DEF CardScope
<1>3. CardScope(ReferredCard(c, b)) = IF b THEN "process" ELSE CardScope(c)
  BY <1>1 DEF CardScope, ReferredCard
<1>4. ReferredCard(c, b).ref =
        CASE CardScope(c) = "ordinary" -> 1
          [] CardScope(c) = "process" /\ b -> Incr(c.ref)
          [] OTHER -> c.ref
  BY <1>2 DEF ReferredCard
<1>5. LET left == IF c.ref > 0 THEN c.ref - 1 ELSE c.ref
      IN /\ CardScope(UnreferredCard(c)) = IF left = 0 THEN "ordinary" ELSE CardScope(c)
         /\ UnreferredCard(c).ref = IF left = 0 THEN 1 ELSE left
  BY <1>1 DEF CardScope, UnreferredCard
<1> QED
  BY <1>3, <1>4, <1>5

\* A new card and an empty one.
LEMMA CardsMade ==
  ASSUME NEW b \in BOOLEAN
  PROVE  /\ CardScope(NewCard(b)) = (IF b THEN "process" ELSE "ordinary")
         /\ NewCard(b).ref = 0
         /\ CardScope(NoCard) = "none" /\ NoCard.ref = 0
BY DEF CardScope, NewCard, NoCard

-----------------------------------------------------------------------------
(* Each call, as MemBlocks sees it.                                        *)

\* rim_malloc makes a block ordinary or process-scoped as rim_mem_process says.
LEMMA MallocScopes ==
  ASSUME IInv, NEW p \in Block, NEW opens \in BOOLEAN, Malloc(p, opens)
  PROVE  /\ Scopes[p] = "none"
         /\ Scopes' = Put(Scopes, p, IF memProcess THEN "process" ELSE "ordinary")
         /\ Refs' = Put(Refs, p, 0)
<1> DEFINE c == [NewCard(memProcess) EXCEPT !.status = @ \cup (IF opens THEN {"file"} ELSE {})]
<1>1. memProcess \in BOOLEAN /\ heap \in SUBSET Block /\ Headers(mem, heap)
  BY DEF IInv, TypeOK
<1>2. CardScope(c) = (IF memProcess THEN "process" ELSE "ordinary") /\ c.ref = 0
  BY <1>1 DEF CardScope, NewCard
<1>3. IInv' /\ Cards(mem') = Put(Cards(mem), p, c)
  BY MallocStep
<1>4. ~ InTable(mem, p)
  BY <1>1, CardIsFree DEF Malloc
<1> HIDE DEF c
<1> QED
  BY <1>2, <1>3, <1>4, OneBlock, OnCard DEF Tracked, InTable

\* rim_mem_add_ref
LEMMA AddRefScopes ==
  ASSUME IInv, NEW p \in Block, NEW isProcess \in BOOLEAN, AddRef(p, isProcess)
  PROVE  /\ Scopes[p] # "none"
         /\ ~ (isProcess /\ Scopes[p] = "process" /\ Refs[p] = MaxRef)
         /\ Scopes' = Put(Scopes, p, IF isProcess THEN "process" ELSE Scopes[p])
         /\ Refs' = Put(Refs, p, CASE Scopes[p] = "ordinary" -> 1
                                  [] Scopes[p] = "process" /\ isProcess -> Incr(Refs[p])
                                  [] OTHER -> Refs[p])
<1> DEFINE c == ReferredCard(Cards(mem)[p], isProcess)
<1>1. /\ Tracked(p)
      /\ ~ (isProcess /\ IsProcess(mem, mem.id[p]) /\ mem.vm[mem.id[p]].ref = MaxRef)
  BY DEF AddRef, Header
<1>2. /\ Scopes[p] # "none" /\ CardScope(Cards(mem)[p]) = Scopes[p]
      /\ Cards(mem)[p].ref = Refs[p] /\ Cards(mem)[p] \in CardSet
      /\ ~ (isProcess /\ Scopes[p] = "process" /\ Refs[p] = MaxRef)
  BY <1>1, OnCard
<1>3. /\ CardScope(c) = IF isProcess THEN "process" ELSE Scopes[p]
      /\ c.ref = CASE Scopes[p] = "ordinary" -> 1
                   [] Scopes[p] = "process" /\ isProcess -> Incr(Refs[p])
                   [] OTHER -> Refs[p]
  BY <1>2, CardChanges
<1>4. IInv' /\ Cards(mem') = Put(Cards(mem), p, c)
  BY AddRefStep
<1> HIDE DEF c
<1>5. Scopes' = Put(Scopes, p, CardScope(c)) /\ Refs' = Put(Refs, p, c.ref)
  BY <1>4, OneBlock
<1> QED
  BY <1>2, <1>3, <1>5

\* rim_mem_add_ref beyond RIM_MAX_REF
LEMMA AddRefFailsScopes ==
  ASSUME IInv, NEW p \in Block, AddRefFails(p)
  PROVE  /\ Scopes[p] = "process" /\ Refs[p] = MaxRef
         /\ Scopes' = Scopes
         /\ Refs' = Put(Refs, p, Incr(Refs[p]))
<1> DEFINE c == [Cards(mem)[p] EXCEPT !.ref = Incr(@)]
<1>1. Tracked(p) /\ IsProcess(mem, mem.id[p]) /\ mem.vm[mem.id[p]].ref = MaxRef
  BY DEF AddRefFails, Header
<1>2. /\ Scopes[p] = "process" /\ Refs[p] = MaxRef
      /\ CardScope(Cards(mem)[p]) = Scopes[p]
      /\ Cards(mem)[p].ref = Refs[p] /\ Cards(mem)[p] \in CardSet
  BY <1>1, OnCard
<1>3. CardScope(c) = Scopes[p] /\ c.ref = Incr(Refs[p])
  BY <1>2 DEF CardScope, CardSet
<1>4. IInv' /\ Cards(mem') = Put(Cards(mem), p, c)
  BY AddRefFailsStep
<1> HIDE DEF c
<1>5. Scopes' = Put(Scopes, p, CardScope(c)) /\ Refs' = Put(Refs, p, c.ref)
  BY <1>4, OneBlock
<1>6. Put(Scopes, p, Scopes[p]) = Scopes
  BY DEF Put, Scopes
<1> QED
  BY <1>2, <1>3, <1>5, <1>6

\* rim_mem_dec_process
LEMMA DecProcessScopes ==
  ASSUME IInv, NEW p \in Block, DecProcess(p)
  PROVE  /\ Scopes[p] = "process"
         /\ LET left == IF Refs[p] > 0 THEN Refs[p] - 1 ELSE Refs[p]
            IN /\ Scopes' = Put(Scopes, p, IF left = 0 THEN "ordinary" ELSE Scopes[p])
               /\ Refs' = Put(Refs, p, IF left = 0 THEN 1 ELSE left)
<1> DEFINE c == UnreferredCard(Cards(mem)[p])
           left == IF Refs[p] > 0 THEN Refs[p] - 1 ELSE Refs[p]
<1>1. Tracked(p) /\ IsProcess(mem, mem.id[p])
  BY DEF DecProcess, Header
<1>2. /\ Scopes[p] = "process"
      /\ CardScope(Cards(mem)[p]) = Scopes[p]
      /\ Cards(mem)[p].ref = Refs[p] /\ Cards(mem)[p] \in CardSet
  BY <1>1, OnCard
<1>3. /\ CardScope(c) = IF left = 0 THEN "ordinary" ELSE Scopes[p]
      /\ c.ref = IF left = 0 THEN 1 ELSE left
  BY <1>2, CardChanges, TRUE \in BOOLEAN
<1>4. IInv' /\ Cards(mem') = Put(Cards(mem), p, c)
  BY DecProcessStep
<1> HIDE DEF c
<1>5. Scopes' = Put(Scopes, p, CardScope(c)) /\ Refs' = Put(Refs, p, c.ref)
  BY <1>4, OneBlock
<1> QED
  BY <1>2, <1>3, <1>5

\* rim_free and rim_free_int
LEMMA GiveBackScopes ==
  ASSUME IInv, NEW p \in Block, Tracked(p), ~ IsProcess(mem, Header(p)), InRequest, GiveBack(p)
  PROVE  /\ Scopes[p] = "ordinary"
         /\ Scopes' = Put(Scopes, p, "none") /\ Refs' = Put(Refs, p, 0)
<1>1. IInv' /\ Cards(mem') = Put(Cards(mem), p, NoCard)
  BY GiveBackStep
<1>2. Scopes[p] = "ordinary"
  BY OnCard DEF Header
<1> QED
  BY <1>1, <1>2, OneBlock, CardsMade, TRUE \in BOOLEAN

\* One turn of the loop of rim_done()
LEMMA DoneEntryScopes ==
  ASSUME IInv, DoneEntry
  PROVE  LET p == mem.vm[walk].ptr
         IN /\ p \in Block /\ p \in heap /\ Scopes[p] = "ordinary"
            /\ Scopes' = Put(Scopes, p, "none") /\ Refs' = Put(Refs, p, 0)
<1> DEFINE p == mem.vm[walk].ptr
<1>1. IInv' /\ walk \in Ordinary(mem) /\ Cards(mem') = Put(Cards(mem), p, NoCard)
  BY DoneEntryStep
<1>2. walk \in Slot /\ Live(mem, walk) /\ ~ IsProcess(mem, walk)
  BY <1>1 DEF Ordinary
<1>3. p \in Block /\ p \in heap /\ mem.id[p] = walk /\ Tracked(p)
  BY <1>2 DEF IInv, TypeOK, Headers, Tracked
<1>4. ~ IsProcess(mem, mem.id[p])
  BY <1>2, <1>3
<1> HIDE DEF p
<1>5. Scopes[p] = "ordinary"
  BY <1>3, <1>4, OnCard
<1>6. Scopes' = Put(Scopes, p, "none") /\ Refs' = Put(Refs, p, 0)
  BY <1>1, <1>3, OneBlock, CardsMade, TRUE \in BOOLEAN
<1> QED
  BY <1>3, <1>5, <1>6 DEF p

\* The end of rim_done(): no block is ordinary any more.
LEMMA EndDoneScopes ==
  ASSUME IInv, EndDone
  PROVE  /\ \A p \in Block : Scopes[p] # "ordinary"
         /\ Scopes' = Scopes /\ Refs' = Refs
<1>1. IInv' /\ Ordinary(mem) = {} /\ Cards(mem') = Cards(mem)
  BY EndDoneStep
<1>2. ASSUME NEW p \in Block, Scopes[p] = "ordinary" PROVE FALSE
  <2>1. Tracked(p) /\ ~ IsProcess(mem, mem.id[p])
    BY <1>2, OnCard
  <2>2. mem.id[p] \in Slot /\ Live(mem, mem.id[p])
    BY <2>1, TrackedEntry DEF IInv, TypeOK, Tracked
  <2> QED
    BY <1>1, <2>1, <2>2 DEF Ordinary
<1> QED
  BY <1>1, <1>2, ScopesNow, ScopesNext

\* rim_realloc: the scope and the count move with the contents.
LEMMA ReallocScopes ==
  ASSUME IInv, NEW p \in Block, NEW q \in Block, Realloc(p, q)
  PROVE  /\ Scopes[p] # "none" /\ Scopes[q] = "none" /\ p # q
         /\ Scopes[p] = "process" => memProcess
         /\ Scopes' = Put(Put(Scopes, p, "none"), q,
                          IF memProcess THEN "process" ELSE "ordinary")
         /\ Refs[p] = 0
         /\ Refs' = Put(Put(Refs, p, 0), q, 0)
<1> DEFINE f == Put(Cards(mem), p, NoCard)
<1>1. IInv' /\ Cards(mem') = Put(f, q, NewCard(memProcess))
  BY ReallocStep
<1>2. /\ p # q /\ Tracked(p) /\ mem.vm[mem.id[p]].ref = 0 /\ q \notin heap
      /\ IsProcess(mem, mem.id[p]) => memProcess
  BY DEF Realloc, Header
<1>3. /\ memProcess \in BOOLEAN /\ heap \in SUBSET Block /\ Headers(mem, heap)
      /\ Cards(mem) \in [Block -> CardSet] /\ NoCard \in CardSet
  <2>1. NoCard \in CardSet
    BY MemAssumption DEF NoCard, CardSet, Bit, RefCount
  <2> QED
    BY <2>1, CardsTyped DEF IInv, TypeOK
<1>4. Scopes[p] # "none" /\ Refs[p] = 0 /\ (Scopes[p] = "process" => memProcess)
  BY <1>2, OnCard
<1>5. Scopes[q] = "none"
  <2>1. ~ InTable(mem, q)
    BY <1>2, <1>3, CardIsFree
  <2> QED
    BY <2>1, OnCard DEF Tracked, InTable
<1>6. ScopesIn(f) = Put(Scopes, p, "none") /\ RefsIn(f) = Put(Refs, p, 0)
  BY <1>3, ScopesNow, ScopesPut, CardsMade
<1>7. f \in [Block -> CardSet]
  BY <1>3 DEF Put
<1> HIDE DEF f
<1>8. /\ Scopes' = Put(ScopesIn(f), q, IF memProcess THEN "process" ELSE "ordinary")
      /\ Refs' = Put(RefsIn(f), q, 0)
  BY <1>1, <1>3, <1>7, ScopesNext, ScopesPut, CardsMade
<1> QED
  BY <1>2, <1>4, <1>5, <1>6, <1>8

-----------------------------------------------------------------------------
(* Every step is a step of MemBlocks, and keeps the invariant ScopeInv. It *)
(* is an invariant when no error leaves a statement on a container, which  *)
(* would leave rim_mem_process set.                                        *)

ScopeInv ==
  /\ phase # "undefined"
  /\ memProcess => phase = "stmt"
  /\ \A p \in Block :
       /\ Scopes[p] # "none" => origin[p] # "none"
       /\ Scopes[p] = "process" => origin[p] # "temp"
       /\ Scopes[p] = "ordinary" => phase # "idle"
       /\ fd[p] = "open" => Scopes[p] = "ordinary"
       /\ p \in heap => Scopes[p] # "none" \/ fd[p] = "closed"

ScopeType ==
  /\ Scopes \in [Block -> {"none", "ordinary", "process"}]
  /\ origin \in [Block -> Origin] /\ fd \in [Block -> {"none", "open", "closed"}]
  /\ memProcess \in BOOLEAN /\ heap \in SUBSET Block

\* The invariant of the table gives the types the steps below need.
LEMMA ScopeTypes == IInv => ScopeType
<1> SUFFICES ASSUME IInv PROVE ScopeType
  OBVIOUS
<1>1. \A p \in Block : Scopes[p] \in {"none", "ordinary", "process"}
  BY OnCard
<1>2. Scopes = [p \in Block |-> Scopes[p]]
  BY DEF Scopes
<1> QED
  BY <1>1, <1>2 DEF ScopeType, IInv, TypeOK

\* What MemBlocks promises of each step that changes a block.
LEMMA MallocRefined ==
  ASSUME IInv, ScopeInv, NEW p \in Block, NEW opens \in BOOLEAN, Malloc(p, opens)
  PROVE  ScopeInv' /\ Blocks!Alloc(p)
<1>1. /\ Scopes[p] = "none"
      /\ Scopes' = Put(Scopes, p, IF memProcess THEN "process" ELSE "ordinary")
      /\ Refs' = Put(Refs, p, 0)
  BY MallocScopes
<1>2. Blocks!Alloc(p)
  BY <1>1 DEF Malloc, InRequest, Blocks!Alloc, Blocks!InRequest, Put, Scopes, Refs
<1>3. ScopeInv'
  BY <1>1, ScopeTypes DEF Malloc, InRequest, ScopeInv, ScopeType, Put, Origin
<1> QED
  BY <1>2, <1>3

\* rim_mem_add_ref
LEMMA AddRefRefined ==
  ASSUME IInv, ScopeInv, NEW p \in Block, NEW isProcess \in BOOLEAN, AddRef(p, isProcess)
  PROVE  ScopeInv' /\ Blocks!Refer(p, isProcess)
<1>1. /\ Scopes[p] # "none"
      /\ ~ (isProcess /\ Scopes[p] = "process" /\ Refs[p] = MaxRef)
      /\ Scopes' = Put(Scopes, p, IF isProcess THEN "process" ELSE Scopes[p])
      /\ Refs' = Put(Refs, p, CASE Scopes[p] = "ordinary" -> 1
                                [] Scopes[p] = "process" /\ isProcess -> Incr(Refs[p])
                                [] OTHER -> Refs[p])
  BY AddRefScopes
<1>2. Blocks!Refer(p, isProcess)
  BY <1>1 DEF AddRef, Blocks!Refer, Blocks!Allocated, Put, Scopes, Refs, Incr, Blocks!Incr
<1>3. ScopeInv'
  BY <1>1, ScopeTypes DEF AddRef, ScopeInv, ScopeType, Put, Origin
<1> QED
  BY <1>2, <1>3

\* rim_mem_add_ref beyond RIM_MAX_REF
LEMMA AddRefFailsRefined ==
  ASSUME ErrorsInStatements = FALSE, IInv, ScopeInv, NEW p \in Block, AddRefFails(p)
  PROVE  ScopeInv' /\ Blocks!ReferFails(p)
<1>1. /\ Scopes[p] = "process" /\ Refs[p] = MaxRef
      /\ Scopes' = Scopes
      /\ Refs' = Put(Refs, p, Incr(Refs[p]))
  BY AddRefFailsScopes
<1>2. Blocks!ReferFails(p)
  BY <1>1 DEF AddRefFails, MayFail, Blocks!ReferFails, Blocks!MayFail, Put, Scopes, Refs,
              Incr, Blocks!Incr
<1>3. ScopeInv'
  BY <1>1, ScopeTypes DEF AddRefFails, MayFail, ScopeInv, ScopeType
<1> QED
  BY <1>2, <1>3

\* rim_mem_dec_process
LEMMA DecProcessRefined ==
  ASSUME IInv, ScopeInv, NEW p \in Block, DecProcess(p)
  PROVE  ScopeInv' /\ Blocks!Unrefer(p)
<1> DEFINE left == IF Refs[p] > 0 THEN Refs[p] - 1 ELSE Refs[p]
<1>1. /\ Scopes[p] = "process"
      /\ Scopes' = Put(Scopes, p, IF left = 0 THEN "ordinary" ELSE Scopes[p])
      /\ Refs' = Put(Refs, p, IF left = 0 THEN 1 ELSE left)
  BY DecProcessScopes
<1>2. Blocks!Unrefer(p)
  BY <1>1 DEF DecProcess, Blocks!Unrefer, Put, Scopes, Refs
<1> HIDE DEF left
<1>3. ScopeInv'
  BY <1>1, ScopeTypes DEF DecProcess, ScopeInv, ScopeType, Put
<1> QED
  BY <1>2, <1>3

\* rim_free and rim_free_int
LEMMA GiveBackRefined ==
  ASSUME IInv, ScopeInv, NEW p \in Block, Tracked(p), ~ IsProcess(mem, Header(p)), InRequest,
         mem.vm[Header(p)].ref <= 0, GiveBack(p)
  PROVE  ScopeInv' /\ Blocks!Release(p)
<1>1. /\ Scopes[p] = "ordinary" /\ Refs[p] <= 0
      /\ Scopes' = Put(Scopes, p, "none") /\ Refs' = Put(Refs, p, 0)
  BY GiveBackScopes, OnCard DEF Header
<1>2. Blocks!Release(p)
  BY <1>1 DEF GiveBack, InRequest, Blocks!Release, Blocks!InRequest, Put, Scopes, Refs
<1>3. ScopeInv'
  BY <1>1, ScopeTypes DEF GiveBack, ScopeInv, ScopeType, Put
<1> QED
  BY <1>2, <1>3

\* rim_realloc
LEMMA ReallocRefined ==
  ASSUME IInv, ScopeInv, NEW p \in Block, NEW q \in Block, Realloc(p, q)
  PROVE  ScopeInv' /\ Blocks!Move(p, q)
<1>1. /\ Scopes[p] # "none" /\ Scopes[q] = "none" /\ p # q
      /\ Scopes[p] = "process" => memProcess
      /\ Scopes' = Put(Put(Scopes, p, "none"), q,
                       IF memProcess THEN "process" ELSE "ordinary")
      /\ Refs[p] = 0
      /\ Refs' = Put(Put(Refs, p, 0), q, 0)
  BY ReallocScopes
<1>2. Scopes \in [Block -> {"none", "ordinary", "process"}]
  BY ScopeTypes DEF ScopeType
<1>3. (IF memProcess THEN "process" ELSE "ordinary") = (IF memProcess THEN "process" ELSE Scopes[p])
  BY <1>1, <1>2
<1>4. Blocks!Move(p, q)
  BY <1>1, <1>3 DEF Realloc, InRequest, Blocks!Move, Blocks!InRequest, Blocks!Allocated,
                    Put, Scopes, Refs
<1>5. /\ origin' = [origin EXCEPT ![p] = "none", ![q] = origin[p]]
      /\ heap' = (heap \ {p}) \cup {q} /\ UNCHANGED <<memProcess, phase, fd>> /\ InRequest
      /\ fd[p] = "none"
      /\ origin[p] = "node" \/ (origin[p] = "temp" /\ ~ memProcess)
  BY DEF Realloc, ScopeInv
<1>6. ScopeInv'
  BY <1>1, <1>5, ScopeTypes DEF InRequest, ScopeInv, ScopeType, Put
<1> QED
  BY <1>4, <1>6

\* rim_free_int and rim_mem_add_ref never take an entry off a list it is not
\* on: what they are called for is ordinary, so the list is not empty.
LEMMA NoStrayRemoval ==
  ASSUME IInv, ScopeInv, NEW p \in Block, StrayRemoval(p)
  PROVE  FALSE
<1>1. /\ phase # "done" /\ Tracked(p) /\ Stray(mem, mem.id[p])
      /\ origin[p] = "temp" \/ ~ IsProcess(mem, mem.id[p])
  BY DEF StrayRemoval, InRequest, Header
<1>2. ~ IsProcess(mem, mem.id[p])
  BY <1>1, OnCard DEF ScopeInv
<1>3. mem \in Memory /\ Headers(mem, heap) /\ Lists(mem, mem.firstOrd)
  BY <1>1 DEF IInv, TypeOK, Head
<1>4. mem.id[p] \in Slot /\ Live(mem, mem.id[p])
  BY <1>1, <1>3, TrackedEntry DEF Tracked
<1>5. mem.firstOrd # Nil
  <2>1. mem.firstOrd \in Link
    BY <1>3 DEF Memory
  <2>2. mem.id[p] \in Ordinary(mem)
    BY <1>2, <1>4 DEF Ordinary
  <2> QED
    BY <1>3, <2>1, <2>2, ListHeads
<1> QED
  BY <1>1, <1>2, <1>5 DEF Stray

\* One turn of the loop of rim_done()
LEMMA DoneEntryRefined ==
  ASSUME IInv, ScopeInv, DoneEntry
  PROVE  ScopeInv' /\ \E p \in Block : Blocks!DoneBlock(p)
<1> DEFINE p == mem.vm[walk].ptr
           isFile == "file" \in mem.vm[walk].status
<1>1. /\ p \in Block /\ p \in heap /\ Scopes[p] = "ordinary"
      /\ Scopes' = Put(Scopes, p, "none") /\ Refs' = Put(Refs, p, 0)
  BY DoneEntryScopes
<1>2. /\ phase = "done" /\ UNCHANGED <<memProcess, phase>>
      /\ heap' = IF isFile THEN heap ELSE heap \ {p}
      /\ fd' = [fd EXCEPT ![p] = IF isFile THEN "closed" ELSE "none"]
      /\ origin' = [origin EXCEPT ![p] = "none"]
  BY DEF DoneEntry
<1> HIDE DEF p, isFile
<1>3. Blocks!DoneBlock(p)
  BY <1>1, <1>2 DEF Blocks!DoneBlock, Put, Scopes, Refs
<1>4. ScopeInv'
  BY <1>1, <1>2, ScopeTypes DEF ScopeInv, ScopeType, Put
<1> QED
  BY <1>1, <1>3, <1>4

\* The end of rim_done()
LEMMA EndDoneRefined ==
  ASSUME IInv, ScopeInv, EndDone
  PROVE  ScopeInv' /\ Blocks!EndDone
<1>1. Scopes' = Scopes /\ Refs' = Refs /\ \A p \in Block : Scopes[p] # "ordinary"
  BY EndDoneScopes
<1>2. Blocks!EndDone
  BY <1>1 DEF EndDone, Blocks!EndDone, Scopes, Refs
<1>3. ScopeInv'
  BY <1>1 DEF EndDone, ScopeInv
<1> QED
  BY <1>2, <1>3

\* The steps of the request loop: no block changes.
LEMMA LoopRefined ==
  ASSUME ErrorsInStatements = FALSE, IInv, ScopeInv,
         Accept \/ (\E b \in BOOLEAN : BeginStatement(b)) \/ EndStatement
         \/ ReportError \/ BeginDone
  PROVE  ScopeInv' /\ Blocks!BlocksNext
<1>1. UNCHANGED <<mem, heap, origin, fd>>
  BY DEF Accept, BeginStatement, EndStatement, ReportError, BeginDone
<1>2. Scopes' = Scopes /\ Refs' = Refs
  BY <1>1 DEF Scopes, Refs, ScopeOf, RefOf, Tracked, Header, IsProcess
<1>3. CASE Accept
  BY <1>1, <1>2, <1>3 DEF Accept, Blocks!Accept, Blocks!BlocksNext, ScopeInv, Scopes, Refs
<1>4. ASSUME NEW b \in BOOLEAN, BeginStatement(b) PROVE ScopeInv' /\ Blocks!BlocksNext
  BY <1>1, <1>2, <1>4
     DEF BeginStatement, Blocks!BeginStatement, Blocks!BlocksNext, ScopeInv, Scopes, Refs
<1>5. CASE EndStatement
  BY <1>1, <1>2, <1>5
     DEF EndStatement, Blocks!EndStatement, Blocks!BlocksNext, ScopeInv, Scopes, Refs
<1>6. CASE ReportError
  BY <1>1, <1>2, <1>6 DEF ReportError, MayFail, Blocks!ReportError, Blocks!MayFail,
                          Blocks!BlocksNext, ScopeInv, Scopes, Refs
<1>7. CASE BeginDone
  BY <1>1, <1>2, <1>7
     DEF BeginDone, Blocks!BeginDone, Blocks!BlocksNext, ScopeInv, Scopes, Refs
<1> QED
  BY <1>3, <1>4, <1>5, <1>6, <1>7

\* Every step of rimmem.c is a step of MemBlocks.
LEMMA NextRefined ==
  ASSUME ErrorsInStatements = FALSE, IInv, ScopeInv, Next
  PROVE  ScopeInv' /\ Blocks!BlocksNext
<1>1. CASE LoopStep
  <2>1. CASE DoneEntry
    BY <2>1, DoneEntryRefined DEF Blocks!BlocksNext
  <2>2. CASE EndDone
    BY <2>2, EndDoneRefined DEF Blocks!BlocksNext
  <2> QED
    BY <1>1, <2>1, <2>2, LoopRefined DEF LoopStep
<1>2. ASSUME NEW p \in Block, BlockStep(p)
      PROVE  ScopeInv' /\ Blocks!BlocksNext
  <2>1. ASSUME NEW opens \in BOOLEAN, Malloc(p, opens) PROVE ScopeInv' /\ Blocks!BlocksNext
    BY <2>1, MallocRefined DEF Blocks!BlocksNext
  <2>2. ASSUME NEW b \in BOOLEAN, AddRef(p, b) PROVE ScopeInv' /\ Blocks!BlocksNext
    BY <2>2, AddRefRefined DEF Blocks!BlocksNext
  <2>3. CASE AddRefFails(p)
    BY <2>3, AddRefFailsRefined DEF Blocks!BlocksNext
  <2>4. CASE DecProcess(p)
    BY <2>4, DecProcessRefined DEF Blocks!BlocksNext
  <2>5. CASE Free(p)
    <3>1. InRequest /\ Tracked(p) /\ ~ IsProcess(mem, Header(p))
          /\ mem.vm[Header(p)].ref <= 0 /\ GiveBack(p)
      BY <2>5 DEF Free
    <3> QED
      BY <3>1, GiveBackRefined DEF Blocks!BlocksNext
  <2>6. CASE FreeInt(p)
    <3>1. InRequest /\ Tracked(p) /\ ~ IsProcess(mem, Header(p))
          /\ mem.vm[Header(p)].ref <= 0 /\ GiveBack(p)
      BY <2>6 DEF FreeInt, Stray
    <3> QED
      BY <3>1, GiveBackRefined DEF Blocks!BlocksNext
  <2>7. ASSUME NEW q \in Block, Realloc(p, q) PROVE ScopeInv' /\ Blocks!BlocksNext
    BY <2>7, ReallocRefined DEF Blocks!BlocksNext
  <2>8. CASE StrayRemoval(p)
    BY <2>8, NoStrayRemoval
  <2> QED
    BY <1>2, <2>1, <2>2, <2>3, <2>4, <2>5, <2>6, <2>7, <2>8 DEF BlockStep
<1> QED
  BY <1>1, <1>2 DEF Next

\* The empty table is no memory at all.
LEMMA InitRefined == Init => ScopeInv /\ Blocks!BlocksInit
<1> SUFFICES ASSUME Init PROVE ScopeInv /\ Blocks!BlocksInit
  OBVIOUS
<1>1. \A p \in Block : ~ Tracked(p)
  <2>1. mem.curr = 0
    BY DEF Init
  <2>2. \A r \in Slot : ~ (r < 0)
    BY MemAssumption DEF Slot
  <2> QED
    BY <2>1, <2>2 DEF Tracked, Live
<1>2. \A p \in Block : ScopeOf(p) = "none" /\ RefOf(p) = 0
  BY <1>1 DEF ScopeOf, RefOf
<1>3. Scopes = [p \in Block |-> "none"] /\ Refs = [p \in Block |-> 0]
  BY <1>2 DEF Scopes, Refs
<1> QED
  BY <1>3 DEF Init, ScopeInv, Blocks!BlocksInit, Scopes, Refs

\* Both invariants hold in every state, when no error leaves a statement.
LEMMA ScopeInvariance ==
  ASSUME ErrorsInStatements = FALSE
  PROVE  Spec => [](IInv /\ ScopeInv)
<1>1. Init => IInv /\ ScopeInv
  BY InitInv, InitRefined
<1>2. IInv /\ ScopeInv /\ [Next]_vars => (IInv /\ ScopeInv)'
  <2> SUFFICES ASSUME IInv, ScopeInv, [Next]_vars PROVE (IInv /\ ScopeInv)'
    OBVIOUS
  <2>1. IInv'
    BY NextInv
  <2>2. CASE UNCHANGED vars
    BY <2>1, <2>2 DEF vars, ScopeInv, Scopes, ScopeOf, Tracked, Header
  <2> QED
    BY <2>1, <2>2, NextRefined
<1> QED
  BY <1>1, <1>2, PTL DEF Spec

-----------------------------------------------------------------------------
(* The theorems.                                                           *)

\* The table of entries, its two lists and the swapping in rim_mem_del_ord
\* implement MemBlocks: what a call of rimmem.c does to a block depends on the
\* scope and the references of that block alone.
THEOREM BlocksImplemented ==
  ASSUME ErrorsInStatements = FALSE
  PROVE  Spec => ImplementsBlocks
<1>1. Init => Blocks!BlocksInit
  BY InitRefined
<1>2. IInv /\ ScopeInv /\ [Next]_vars => [Blocks!BlocksNext]_(Blocks!blockVars)
  <2> SUFFICES ASSUME IInv, ScopeInv, [Next]_vars
               PROVE  [Blocks!BlocksNext]_(Blocks!blockVars)
    OBVIOUS
  <2>1. CASE UNCHANGED vars
    BY <2>1 DEF vars, Blocks!blockVars, ScopeOf, RefOf, Tracked, Header
  <2> QED
    BY <2>1, NextRefined
<1> QED
  BY <1>1, <1>2, ScopeInvariance, PTL DEF Spec, ImplementsBlocks, Blocks!BlocksSpec

\* No call takes an entry off the ordinary list that is not on it, although
\* rim_free_int and rim_mem_add_ref do not look.
THEOREM OnlyListedIsTaken ==
  ASSUME ErrorsInStatements = FALSE
  PROVE  Spec => []OnlyListedTaken
<1>1. IInv /\ ScopeInv => OnlyListedTaken
  BY DEF ScopeInv, OnlyListedTaken
<1> QED
  BY <1>1, ScopeInvariance, PTL

\* Between two requests the only memory left is that of process-scoped
\* objects, and every file and directory is closed (rim_done).
THEOREM NothingIsLeft ==
  ASSUME ErrorsInStatements = FALSE
  PROVE  Spec => []RequestLeavesNothing
<1>1. IInv /\ ScopeInv => RequestLeavesNothing
  <2> SUFFICES ASSUME IInv, ScopeInv, phase = "idle", NEW p \in Block
               PROVE  /\ Tracked(p) => IsProcess(mem, Header(p)) /\ origin[p] \in {"node", "kept"}
                      /\ fd[p] # "open"
    BY DEF RequestLeavesNothing
  <2>1. Scopes[p] # "ordinary" /\ fd[p] # "open" /\ origin[p] \in Origin
    BY ScopeTypes DEF ScopeInv, ScopeType
  <2>2. ASSUME Tracked(p)
        PROVE  IsProcess(mem, Header(p)) /\ origin[p] \in {"node", "kept"}
    <3>1. Scopes[p] = "process" /\ IsProcess(mem, Header(p))
      BY <2>1, <2>2, OnCard DEF Header
    <3> QED
      BY <2>1, <3>1 DEF ScopeInv, Origin
  <2> QED
    BY <2>1, <2>2
<1> QED
  BY <1>1, ScopeInvariance, PTL

\* A block leaves the heap while it is process-scoped only when rim_realloc
\* moves a container's memory to another block.
THEOREM ProcessMemoryStays ==
  ASSUME ErrorsInStatements = FALSE
  PROVE  Spec => ProcessBlocksStay
<1> DEFINE Stays == \A p \in Block :
             Tracked(p) /\ IsProcess(mem, Header(p)) /\ p \notin heap'
               => \E q \in Block : q \notin heap /\ q \in heap' /\ origin'[q] = "node"
<1>1. IInv /\ ScopeInv /\ [Next]_vars => Stays \/ UNCHANGED vars
  <2> SUFFICES ASSUME IInv, ScopeInv, Next,
                      NEW p \in Block, Tracked(p), IsProcess(mem, mem.id[p]), p \notin heap'
               PROVE  \E q \in Block : q \notin heap /\ q \in heap' /\ origin'[q] = "node"
    BY DEF Header
  <2>1. p \in heap /\ Scopes[p] = "process"
    BY OnCard, TrackedEntry DEF IInv, TypeOK, Tracked
  <2>2. CASE DoneEntry
    <3>1. Scopes[mem.vm[walk].ptr] = "ordinary"
      BY <2>2, DoneEntryScopes
    <3> QED
      BY <2>1, <2>2, <3>1 DEF DoneEntry
  <2>3. CASE LoopStep /\ ~ DoneEntry
    BY <2>1, <2>3 DEF LoopStep, Accept, BeginStatement, EndStatement, ReportError,
                      BeginDone, EndDone
  <2>4. ASSUME NEW o \in Block, BlockStep(o)
        PROVE  \E q \in Block : q \notin heap /\ q \in heap' /\ origin'[q] = "node"
    <3>1. CASE Free(o) \/ FreeInt(o)
      <4>1. Tracked(o) /\ ~ IsProcess(mem, mem.id[o]) /\ heap' = heap \ {o}
        BY <3>1 DEF Free, FreeInt, Stray, GiveBack, Header
      <4> QED
        BY <2>1, <4>1
    <3>2. ASSUME NEW q \in Block, Realloc(o, q)
          PROVE  q \notin heap /\ q \in heap' /\ origin'[q] = "node"
      <4>1. /\ heap' = (heap \ {o}) \cup {q} /\ q \notin heap
            /\ origin' = [origin EXCEPT ![o] = "none", ![q] = origin[o]]
            /\ origin[o] = "node" \/ (origin[o] = "temp" /\ phase # "stmt")
        BY <3>2 DEF Realloc
      <4>2. o = p
        BY <2>1, <4>1
      <4>3. origin[o] = "node"
        BY <2>1, <4>1, <4>2 DEF ScopeInv
      <4>4. origin \in [Block -> Origin]
        BY ScopeTypes DEF ScopeType
      <4> QED
        BY <4>1, <4>3, <4>4
    <3>3. ASSUME NEW b \in BOOLEAN, Malloc(o, b) \/ AddRef(o, b) PROVE FALSE
      BY <2>1, <3>3 DEF Malloc, AddRef
    <3>4. CASE AddRefFails(o) \/ DecProcess(o) \/ StrayRemoval(o)
      BY <2>1, <3>4 DEF AddRefFails, DecProcess, StrayRemoval
    <3> QED
      BY <2>4, <3>1, <3>2, <3>3, <3>4 DEF BlockStep
  <2> QED
    BY <2>2, <2>3, <2>4 DEF Next
<1> QED
  BY <1>1, ScopeInvariance, PTL DEF Spec, ProcessBlocksStay

-----------------------------------------------------------------------------
(* What does not depend on where errors may happen.                        *)

\* A block malloc() handed out keeps its entry through every step, or is the
\* cell of a file or directory that rim_done() closed.
LEMMA StillRemembered ==
  ASSUME IInv, NothingForgotten, [Next]_vars
  PROVE  NothingForgotten'
<1> DEFINE Kept == \A p \in heap : Scopes[p] # "none" \/ fd[p] = "closed"
<1>1. heap \subseteq Block /\ heap' \subseteq Block /\ IInv'
  BY NextInv DEF IInv, TypeOK
<1>2. Kept
  BY <1>1, OnCard DEF NothingForgotten
<1>3. SUFFICES Kept'
  <2>1. \A p \in Block : Tracked(p)' <=> Scopes'[p] # "none"
    BY DEF Scopes, ScopeOf
  <2> QED
    BY <1>1, <2>1 DEF NothingForgotten
<1>4. ScopeType
  BY ScopeTypes
<1>5. CASE UNCHANGED <<mem, heap, fd>>
  BY <1>2, <1>5 DEF Scopes, ScopeOf, Tracked, Header
<1>6. CASE DoneEntry
  <2> DEFINE p == mem.vm[walk].ptr
             isFile == "file" \in mem.vm[walk].status
  <2>1. p \in Block /\ Scopes' = Put(Scopes, p, "none")
    BY <1>6, DoneEntryScopes
  <2>2. /\ heap' = IF isFile THEN heap ELSE heap \ {p}
        /\ fd' = [fd EXCEPT ![p] = IF isFile THEN "closed" ELSE "none"]
    BY <1>6 DEF DoneEntry
  <2> HIDE DEF p, isFile
  <2> QED
    BY <1>1, <1>2, <1>4, <2>1, <2>2 DEF Put, ScopeType
<1>7. CASE EndDone
  BY <1>2, <1>7, EndDoneScopes DEF EndDone
<1>8. ASSUME NEW p \in Block, BlockStep(p) PROVE Kept'
  <2>1. ASSUME NEW opens \in BOOLEAN, Malloc(p, opens) PROVE Kept'
    <3>1. /\ Scopes' = Put(Scopes, p, IF memProcess THEN "process" ELSE "ordinary")
          /\ heap' = heap \cup {p} /\ fd' = [fd EXCEPT ![p] = IF opens THEN "open" ELSE "none"]
      BY <2>1, MallocScopes DEF Malloc
    <3> QED
      BY <1>1, <1>2, <1>4, <3>1 DEF Put, ScopeType
  <2>2. ASSUME NEW b \in BOOLEAN, AddRef(p, b) PROVE Kept'
    <3>1. /\ Scopes' = Put(Scopes, p, IF b THEN "process" ELSE Scopes[p])
          /\ UNCHANGED <<heap, fd>>
      BY <2>2, AddRefScopes DEF AddRef
    <3> QED
      BY <1>1, <1>2, <1>4, <3>1 DEF Put, ScopeType
  <2>3. CASE AddRefFails(p)
    BY <1>2, <2>3, AddRefFailsScopes DEF AddRefFails
  <2>4. CASE DecProcess(p)
    <3> DEFINE left == IF Refs[p] > 0 THEN Refs[p] - 1 ELSE Refs[p]
    <3>1. /\ Scopes' = Put(Scopes, p, IF left = 0 THEN "ordinary" ELSE Scopes[p])
          /\ UNCHANGED <<heap, fd>>
      BY <2>4, DecProcessScopes DEF DecProcess
    <3> HIDE DEF left
    <3> QED
      BY <1>1, <1>2, <1>4, <3>1 DEF Put, ScopeType
  <2>5. CASE Free(p) \/ FreeInt(p)
    <3>1. InRequest /\ Tracked(p) /\ ~ IsProcess(mem, Header(p)) /\ GiveBack(p)
      BY <2>5 DEF Free, FreeInt, Stray
    <3>2. Scopes' = Put(Scopes, p, "none") /\ heap' = heap \ {p} /\ fd' = [fd EXCEPT ![p] = "none"]
      BY <3>1, GiveBackScopes DEF GiveBack
    <3> QED
      BY <1>1, <1>2, <1>4, <3>2 DEF Put, ScopeType
  <2>6. ASSUME NEW q \in Block, Realloc(p, q) PROVE Kept'
    <3>1. /\ Scopes' = Put(Put(Scopes, p, "none"), q, IF memProcess THEN "process" ELSE "ordinary")
          /\ heap' = (heap \ {p}) \cup {q} /\ fd' = fd
      BY <2>6, ReallocScopes DEF Realloc
    <3> QED
      BY <1>1, <1>2, <1>4, <3>1 DEF Put, ScopeType
  <2>7. CASE StrayRemoval(p)
    BY <1>5, <2>7 DEF StrayRemoval
  <2> QED
    BY <1>8, <2>1, <2>2, <2>3, <2>4, <2>5, <2>6, <2>7 DEF BlockStep
<1>9. CASE UNCHANGED vars
  BY <1>5, <1>9 DEF vars
<1>10. CASE LoopStep
  BY <1>5, <1>6, <1>7, <1>10
     DEF LoopStep, Accept, BeginStatement, EndStatement, ReportError, BeginDone
<1> QED
  BY <1>8, <1>9, <1>10 DEF Next

\* All memory malloc() handed out has an entry, but for the cells of files
\* and directories that the end of a request has closed, also when an error
\* leaves a statement on a container.
THEOREM NothingIsForgotten == Spec => []NothingForgotten
<1>1. Init => NothingForgotten
  BY DEF Init, NothingForgotten
<1>2. IInv /\ NothingForgotten /\ [Next]_vars => NothingForgotten'
  BY StillRemembered
<1> QED
  BY <1>1, <1>2, Invariance, PTL DEF Spec
=============================================================================
