-------------------------- MODULE RimObjectsProofs --------------------------
(***************************************************************************)
(* The array of src/arr.c for every growth constant, every maximum and     *)
(* every value: ArrayHoldsGiven, which the runs check on a small array.    *)
(* A message of src/msg.c for every pair, every length and every choice of *)
(* the increments: its buffer (MsgBufferHolds), and what the messages made *)
(* of its text give to the program (MsgReadOnce).                          *)
(* The client of src/rcli.c for every number of calls, every request and   *)
(* whatever the servers send: what the results of the calls and the status *)
(* of call-remote say is true (CallTellsTruth).                            *)
(* The reader of src/json.c for every depth list[] has room for and every  *)
(* text: it names each leaf as the text does (JsonReadsText).              *)
(***************************************************************************)
EXTENDS RimArr, RimMsg, RimCli, RimJson, FiniteSetTheorems, SequenceTheorems,
        WellFoundedInduction, TLAPS

-----------------------------------------------------------------------------
(* Lemmas about the sizes.                                                 *)

\* The maximum of an array is never smaller than its first memory.
LEMMA MaxElemHolds ==
  ASSUME NEW size \in Nat
  PROVE  MaxElem(size) \in Nat /\ MaxElem(size) >= ArrInc
BY ArrAssumption DEF MaxElem, Larger

\* The memory allocated for an index holds it, and never exceeds the maximum.
LEMMA AllocForHolds ==
  ASSUME aMax \in Nat, NEW key \in Nat, key >= ArrInc, key < aMax
  PROVE  /\ AllocFor(key) \in Nat
         /\ key < AllocFor(key) /\ AllocFor(key) <= aMax
BY ArrAssumption DEF AllocFor, Smaller

-----------------------------------------------------------------------------
(* The inductive invariant: the sizes are ordered, memory and expectation  *)
(* agree where there is memory, and both are default behind tot_elem.      *)

Sizes ==
  /\ aMax \in Nat /\ aAlloc \in Nat /\ aTot \in Nat
  /\ ArrInc <= aAlloc /\ aAlloc <= aMax /\ aTot <= aAlloc
  /\ aMem \in [0 .. aAlloc - 1 -> ArrVal]
  /\ aGiven \in [0 .. aMax - 1 -> ArrVal]

Agree == \A i \in 0 .. aAlloc - 1 : aMem[i] = aGiven[i]
DefaultBehind == \A i \in aTot .. aMax - 1 : aGiven[i] = ArrDefault

ArrInv == Sizes /\ Agree /\ DefaultBehind

\* A new array is empty in all its length.
LEMMA ArrInitInv == ArrInit => ArrInv
<1> SUFFICES ASSUME ArrInit PROVE ArrInv
    OBVIOUS
<1> aMax \in Nat /\ aMax >= ArrInc
    BY MaxElemHolds, ArrAssumption DEF ArrInit
<1> QED
    BY ArrAssumption DEF ArrInit, ArrInv, Sizes, Agree, DefaultBehind

\* write-array grows the memory past the index before it writes.
LEMMA WriteKeepsInv ==
  ASSUME ArrInv, NEW key \in 0 .. aMax - 1, NEW v \in ArrVal, WriteArray(key, v)
  PROVE  ArrInv'
<1> USE DEF ArrInv, Sizes
<1>1. key \in Nat /\ key < aMax /\ aMax' = aMax
      BY DEF WriteArray
<1>2. CASE key >= aAlloc
  <2>1. /\ AllocFor(key) \in Nat /\ key < AllocFor(key) /\ AllocFor(key) <= aMax
        BY <1>1, <1>2, AllocForHolds, ArrAssumption
  <2>2. /\ aAlloc' = AllocFor(key)
        /\ aMem' = [Enlarged(AllocFor(key)) EXCEPT ![key] = v]
        /\ aTot' = key + 1
        /\ aGiven' = [aGiven EXCEPT ![key] = v]
        BY <1>1, <1>2 DEF WriteArray, TotalWith
  <2>3. Sizes'
        BY <1>1, <1>2, <2>1, <2>2, ArrAssumption DEF Enlarged
  <2>4. Agree'
    <3>1. ASSUME NEW i \in 0 .. AllocFor(key) - 1
          PROVE  aMem'[i] = aGiven'[i]
      <4>1. CASE i = key
            BY <4>1, <1>1, <2>1, <2>2 DEF Enlarged
      <4>2. CASE i # key /\ i < aAlloc
            BY <4>2, <2>1, <2>2 DEF Enlarged, Agree
      <4>3. CASE i # key /\ i >= aAlloc
            BY <4>3, <1>1, <2>1, <2>2 DEF Enlarged, DefaultBehind
      <4> QED
            BY <4>1, <4>2, <4>3
    <3> QED
          BY <3>1, <2>2 DEF Agree
  <2>5. DefaultBehind'
        BY <1>1, <1>2, <2>2 DEF DefaultBehind
  <2> QED
        BY <2>3, <2>4, <2>5
<1>3. CASE key < aAlloc
  <2>1. /\ aAlloc' = aAlloc
        /\ aMem' = [aMem EXCEPT ![key] = v]
        /\ aTot' = (IF key >= aTot THEN key + 1 ELSE aTot)
        /\ aGiven' = [aGiven EXCEPT ![key] = v]
        BY <1>1, <1>3 DEF WriteArray, TotalWith
  <2>2. Sizes'
        BY <1>1, <1>3, <2>1
  <2>3. Agree' /\ DefaultBehind'
        BY <1>1, <1>3, <2>1 DEF Agree, DefaultBehind
  <2> QED
        BY <2>2, <2>3
<1> QED
    BY <1>1, <1>2, <1>3

\* read-array with delete puts the default back on both sides.
LEMMA DeleteKeepsInv ==
  ASSUME ArrInv, NEW key \in 0 .. aMax - 1, DeleteArray(key)
  PROVE  ArrInv'
<1> USE DEF ArrInv, Sizes
<1>1. /\ aMax' = aMax /\ aAlloc' = aAlloc /\ aTot' = aTot
      /\ key \in 0 .. aAlloc - 1
      /\ aMem' = [aMem EXCEPT ![key] = ArrDefault]
      /\ aGiven' = [aGiven EXCEPT ![key] = ArrDefault]
      BY DEF DeleteArray
<1>2. Sizes'
      BY <1>1, ArrAssumption
<1>3. Agree'
      BY <1>1 DEF Agree
<1>4. DefaultBehind'
      BY <1>1 DEF DefaultBehind
<1> QED
    BY <1>2, <1>3, <1>4

\* sort-array moves the same values in memory and expectation.
LEMMA SortKeepsInv ==
  ASSUME ArrInv, NEW p \in Permutations(0 .. aTot - 1), SortArray(p)
  PROVE  ArrInv'
<1> USE DEF ArrInv, Sizes
<1>1. /\ aMax' = aMax /\ aAlloc' = aAlloc /\ aTot' = aTot
      /\ aMem' = [i \in 0 .. aAlloc - 1 |-> IF i < aTot THEN aMem[p[i]] ELSE aMem[i]]
      /\ aGiven' = [i \in 0 .. aMax - 1 |-> IF i < aTot THEN aGiven[p[i]] ELSE aGiven[i]]
      BY DEF SortArray, Reordered
<1>2. p \in [0 .. aTot - 1 -> 0 .. aTot - 1]
      BY DEF SortArray
<1>3. \A i \in 0 .. aTot - 1 : p[i] \in 0 .. aTot - 1
      BY <1>2
<1>4. Sizes'
  <2>1. aMem' \in [0 .. aAlloc - 1 -> ArrVal]
    <3>1. ASSUME NEW i \in 0 .. aAlloc - 1, i < aTot PROVE aMem[p[i]] \in ArrVal
          BY <1>3, <3>1
    <3> QED
        BY <1>1, <3>1
  <2>2. aGiven' \in [0 .. aMax - 1 -> ArrVal]
    <3>1. ASSUME NEW i \in 0 .. aMax - 1, i < aTot PROVE aGiven[p[i]] \in ArrVal
          BY <1>3, <3>1
    <3> QED
        BY <1>1, <3>1
  <2> QED
      BY <1>1, <2>1, <2>2
<1>5. Agree'
      BY <1>1, <1>3 DEF Agree
<1>6. DefaultBehind'
      BY <1>1 DEF DefaultBehind
<1> QED
    BY <1>4, <1>5, <1>6

\* purge-array makes the array anew.
LEMMA PurgeKeepsInv ==
  ASSUME ArrInv, PurgeArray
  PROVE  ArrInv'
<1>1. MaxElem(aMax) \in Nat /\ MaxElem(aMax) >= ArrInc
      BY MaxElemHolds DEF ArrInv, Sizes
<1> QED
    BY <1>1, ArrAssumption DEF PurgeArray, Emptied, ArrInv, Sizes, Agree, DefaultBehind

\* Every statement keeps the invariant.
LEMMA ArrStepInv ==
  ASSUME ArrInv, [ArrNext]_arrVars
  PROVE  ArrInv'
<1>1. CASE UNCHANGED arrVars
      BY <1>1 DEF arrVars, ArrInv, Sizes, Agree, DefaultBehind
<1>2. CASE ArrNext
      BY <1>2, WriteKeepsInv, DeleteKeepsInv, SortKeepsInv, PurgeKeepsInv DEF ArrNext
<1> QED
    BY <1>1, <1>2

\* The invariant says what a program reads.
LEMMA ArrInvHolds == ArrInv => ArrayHoldsGiven
BY ArrAssumption DEF ArrInv, Sizes, Agree, DefaultBehind, ArrayHoldsGiven, ReadArray

-----------------------------------------------------------------------------
\* The memory of an array never falls short of what is counted and never
\* exceeds max-size, and so no write of a legal index leaves it.
THEOREM ArraySizes == ArrSpec => []Sizes
<1>1. ArrInv => Sizes
      BY DEF ArrInv
<1> QED
    BY <1>1, ArrInitInv, ArrStepInv, PTL DEF ArrSpec

\* Every index within max-size reads as what was written there, in an array of
\* any size and however its memory grows.
THEOREM ArrayCorrect == ArrSpec => []ArrayHoldsGiven
<1> QED
    BY ArrInvHolds, ArrInitInv, ArrStepInv, PTL DEF ArrSpec

-----------------------------------------------------------------------------
\* The inductive invariant: an empty message has no length, whatever memory it
\* had before, and the memory of another one is longer than its text.
MsgSizes ==
  /\ mItems \in Seq(MsgItem)
  /\ mLen \in Nat /\ mTot \in Nat /\ mInc \in Nat
  /\ mItems = <<>> => mLen = 0

MsgInv == MsgSizes /\ MsgBufferHolds

\* A new message is empty.
LEMMA MsgInitInv == MsgInit => MsgInv
BY MsgAssumption DEF MsgInit, MsgInv, MsgSizes, MsgBufferHolds

\* The increment stays a length, by whichever rule it grows.
LEMMA IncIsNat ==
  ASSUME MsgSizes
  PROVE  IncAfter \in Nat
<1>1. mTot \div 4 \in Nat
      BY DEF MsgSizes
<1> QED
    BY <1>1 DEF MsgSizes, IncAfter

\* The memory after a write has room for the pair, and more than that.
LEMMA TotalHoldsPair ==
  ASSUME MsgInv, NEW item \in MsgItem
  PROVE  /\ TotalAfter(item) \in Nat
         /\ mLen + MsgLen[item] + MsgFixed < TotalAfter(item)
<1>1. MsgLen[item] \in Nat /\ mLen \in Nat /\ mTot \in Nat /\ IncAfter \in Nat
      BY IncIsNat, MsgAssumption DEF MsgInv, MsgSizes
<1>2. CASE mItems = <<>>
      BY <1>1, <1>2, MsgAssumption DEF MsgInv, MsgSizes, TotalAfter
<1>3. CASE mItems # <<>>
      BY <1>1, <1>3, MsgAssumption DEF TotalAfter, Needed
<1> QED
    BY <1>2, <1>3

\* write-message keeps the invariant.
LEMMA WriteMessageKeepsInv ==
  ASSUME MsgInv, NEW item \in MsgItem, WriteMessage(item)
  PROVE  MsgInv'
<1>1. /\ mItems' = Append(mItems, item)
      /\ mLen' = mLen + MsgLen[item] + MsgFixed
      /\ mTot' = TotalAfter(item)
      /\ mInc' \in {MsgBuffLen, IncAfter}
      BY DEF WriteMessage
<1>2. mItems' \in Seq(MsgItem) /\ mItems' # <<>>
      BY <1>1 DEF MsgInv, MsgSizes
<1>3. mLen' \in Nat /\ mTot' \in Nat /\ mLen' < mTot'
      BY <1>1, TotalHoldsPair, MsgAssumption DEF MsgInv, MsgSizes
<1>4. mInc' \in Nat
      BY <1>1, IncIsNat, MsgAssumption DEF MsgInv
<1> QED
    BY <1>2, <1>3, <1>4 DEF MsgInv, MsgSizes, MsgBufferHolds

\* get-message keeps the invariant: the message has no text any more.
LEMMA GetMessageKeepsInv ==
  ASSUME MsgInv, GetMessage
  PROVE  MsgInv'
BY MsgAssumption DEF GetMessage, MsgInv, MsgSizes, MsgBufferHolds

\* Every statement keeps the invariant; reading leaves the buffer alone.
LEMMA MsgStepInv ==
  ASSUME MsgInv, [MsgNext]_msgVars
  PROVE  MsgInv'
<1>1. CASE UNCHANGED <<mItems, mBuffer>>
      BY <1>1 DEF mBuffer, MsgInv, MsgSizes, MsgBufferHolds
<1>2. CASE UNCHANGED msgVars
      BY <1>1, <1>2 DEF msgVars, mText
<1>3. CASE ReadMessage
      BY <1>1, <1>3 DEF ReadMessage
<1>4. ASSUME NEW r \in MsgReader, NewMessageFrom(r) \/ ReadMessageFrom(r)
      PROVE  MsgInv'
      BY <1>1, <1>4 DEF NewMessageFrom, ReadMessageFrom, mText
<1>5. CASE MsgNext
      BY <1>3, <1>4, <1>5, WriteMessageKeepsInv, GetMessageKeepsInv DEF MsgNext
<1> QED
    BY <1>2, <1>5

-----------------------------------------------------------------------------
\* No pair that is written reaches behind the memory of its message, whatever
\* the lengths of the pairs and the increments.
THEOREM MsgBufferCorrect == MsgSpec => []MsgBufferHolds
<1>1. MsgInv => MsgBufferHolds
      BY DEF MsgInv
<1> QED
    BY <1>1, MsgInitInv, MsgStepInv, PTL DEF MsgSpec

-----------------------------------------------------------------------------
(* Reading a text from several messages.                                   *)

\* A set of places up to n that is not empty has a first one.
LEMMA FirstOfPlaces ==
  ASSUME NEW n \in Nat, NEW T \in SUBSET (0 .. n), T # {}
  PROVE  \E t \in T : \A m \in T : t <= m
<1> DEFINE Upto == {0 .. t : t \in T}
           Less == StrictSubsetOrdering(0 .. n)
<1>1. IsWellFoundedOn(Less, SUBSET (0 .. n))
  <2>1. IsFiniteSet(0 .. n)
        BY FS_Interval
  <2> QED
      BY <2>1, FS_StrictSubsetOrderingWellFounded, FS_FiniteSubsetsOfFinite
<1>2. Upto \subseteq SUBSET (0 .. n) /\ Upto # {}
  <2>1. \A t \in T : 0 .. t \subseteq 0 .. n
        OBVIOUS
  <2> QED
      BY <2>1
<1> HIDE DEF Less
<1>3. PICK x \in Upto : \A y \in Upto : ~(<<y, x>> \in Less)
      BY <1>1, <1>2, WFMin
<1>4. PICK t \in T : x = 0 .. t
      BY <1>3
<1>5. ASSUME NEW m \in T, m < t PROVE FALSE
  <2>1. 0 .. m \in Upto /\ 0 .. m \in SUBSET (0 .. n) /\ x \in SUBSET (0 .. n)
        BY <1>2, <1>4
  <2>2. t \in 0 .. t /\ t \notin 0 .. m /\ 0 .. m \subseteq 0 .. t
        BY <1>5
  <2>3. <<0 .. m, x>> \in Less
        BY <2>1, <2>2, <1>4 DEF Less, StrictSubsetOrdering
  <2> QED
      BY <1>3, <2>1, <2>3
<1> QED
    BY <1>5

\* rim_read_msg() passes comments up to the next pair, or to the end.
LEMMA NextPairIsFirst ==
  ASSUME NEW items \in Seq(MsgItem), NEW pos \in Nat
  PROVE  /\ NextPair(items, pos) \in Nat
         /\ \A i \in pos + 1 .. Len(items) :
              items[i] \notin MsgComments => i >= NextPair(items, pos)
         /\ NextPair(items, pos) <= Len(items) =>
              /\ NextPair(items, pos) > pos
              /\ items[NextPair(items, pos)] \notin MsgComments
<1> DEFINE pairs == {i \in pos + 1 .. Len(items) : items[i] \notin MsgComments}
<1>1. Len(items) \in Nat
      OBVIOUS
<1>2. CASE pairs = {}
  <2>1. NextPair(items, pos) = Len(items) + 1
        BY <1>2 DEF NextPair
  <2> QED
      BY <1>1, <1>2, <2>1
<1>3. CASE pairs # {}
  <2>1. pairs \in SUBSET (0 .. Len(items))
        BY <1>1
  <2>2. \E t \in pairs : \A m \in pairs : t <= m
        BY <1>1, <1>3, <2>1, FirstOfPlaces
  <2>3. NextPair(items, pos) = CHOOSE t \in pairs : \A m \in pairs : t <= m
        BY <1>3 DEF NextPair
  <2>4. /\ NextPair(items, pos) \in pairs
        /\ \A m \in pairs : NextPair(items, pos) <= m
        BY <2>2, <2>3
  <2> QED
      BY <1>1, <2>4
<1> QED
    BY <1>2, <1>3

\* Where reading leaves a message, and what it gives: nothing where the text
\* cannot be parsed or has ended; else the first pair behind its position.
LEMMA ReadAfterIs ==
  ASSUME NEW items \in Seq(MsgItem), NEW pos \in Nat, pos <= Len(items),
         NEW split \in Nat, split <= Len(items)
  PROVE  LET r == ReadAfter(items, pos, split)
             p == NextPair(items, pos)
         IN \/ r = [pos |-> pos, split |-> split, given |-> <<>>]
            \/ /\ split <= pos /\ pos < Len(items) /\ p > Len(items)
               /\ r = [pos |-> Len(items), split |-> Len(items), given |-> <<>>]
            \/ /\ split <= pos /\ pos < p /\ p <= Len(items)
               /\ r = [pos |-> p, split |-> p, given |-> <<items[p]>>]
<1> DEFINE p == NextPair(items, pos)
<1>1. p \in Nat /\ (p <= Len(items) => p > pos) /\ Len(items) \in Nat
  <2>1. NextPair(items, pos) \in Nat
        BY NextPairIsFirst
  <2>2. NextPair(items, pos) <= Len(items) => NextPair(items, pos) > pos
        BY NextPairIsFirst
  <2> QED
      BY <2>1, <2>2
<1> HIDE DEF p
<1>2. CASE pos >= Len(items) \/ pos < split
      BY <1>2 DEF ReadAfter
<1>3. CASE ~(pos >= Len(items) \/ pos < split) /\ p > Len(items)
  <2>1. SplitAfter(split, Len(items)) = Len(items)
        BY <1>1, <1>3 DEF SplitAfter
  <2> QED
      BY <1>1, <1>3, <2>1 DEF ReadAfter, p
<1>4. CASE ~(pos >= Len(items) \/ pos < split) /\ p <= Len(items)
  <2>1. SplitAfter(split, p) = p
        BY <1>1, <1>4 DEF SplitAfter
  <2> QED
      BY <1>1, <1>4, <2>1 DEF ReadAfter, p
<1> QED
    BY <1>1, <1>2, <1>3, <1>4

\* The inductive invariant: no message has passed more of the text than was
\* read, so that one that can go on is where the others stopped.
ReadInv ==
  /\ mItems \in Seq(MsgItem) /\ mPos \in 0 .. Len(mItems) /\ mSplit \in 0 .. Len(mItems)
  /\ gText \in Seq(MsgItem) /\ gTaken \in Nat /\ gSplit \in Nat
  /\ gTaken <= gSplit /\ gSplit <= Len(gText)
  /\ rPos \in [MsgReader -> Int]
  /\ \A r \in MsgReader : -1 <= rPos[r] /\ rPos[r] <= gSplit
  /\ rRead \in Seq(MsgItem)
  /\ MsgReadOnce

\* Nothing was read from a text that was just taken.
LEMMA NothingRead ==
  ASSUME gTaken = gSplit, gSplit \in Nat, rRead = <<>>
  PROVE  MsgReadOnce
<1>1. PairsRead = {}
      BY DEF PairsRead
<1> QED
    BY <1>1, FS_EmptySet DEF MsgReadOnce

\* A new message, and no text.
LEMMA ReadInitInv == MsgInit => ReadInv
<1> SUFFICES ASSUME MsgInit PROVE ReadInv
    OBVIOUS
<1>1. MsgReadOnce
      BY NothingRead DEF MsgInit
<1> QED
    BY <1>1 DEF MsgInit, ReadInv

\* Reading on in the message that is written.
LEMMA ReadMessageKeepsReadInv ==
  ASSUME ReadInv, ReadMessage
  PROVE  ReadInv'
<1> DEFINE start == IF mMode = "read" THEN mPos ELSE 0
<1>1. /\ mPos' = ReadAfter(mItems, start, mSplit).pos
      /\ mSplit' = ReadAfter(mItems, start, mSplit).split
      /\ UNCHANGED <<mItems, gText, gSplit, gTaken, rPos, rRead>>
      BY DEF ReadMessage
<1>2. /\ start \in Nat /\ start <= Len(mItems) /\ mItems \in Seq(MsgItem)
      /\ mSplit \in Nat /\ mSplit <= Len(mItems) /\ Len(mItems) \in Nat
      /\ NextPair(mItems, start) \in Nat
  <2>1. /\ start \in Nat /\ start <= Len(mItems) /\ mItems \in Seq(MsgItem)
        /\ mSplit \in Nat /\ mSplit <= Len(mItems) /\ Len(mItems) \in Nat
        BY DEF ReadInv
  <2> HIDE DEF start
  <2> QED
      BY <2>1, NextPairIsFirst
<1> HIDE DEF start
<1>3. mPos' \in 0 .. Len(mItems) /\ mSplit' \in 0 .. Len(mItems)
      BY <1>1, <1>2, ReadAfterIs
<1>4. MsgReadOnce'
      BY <1>1 DEF ReadInv, MsgReadOnce, PairsRead
<1> QED
    BY <1>1, <1>3, <1>4 DEF ReadInv

\* A pair is given: it takes its place behind those that were given.
LEMMA GivePair ==
  ASSUME ReadInv, NEW p \in Nat, gSplit < p, p <= Len(gText),
         gText[p] \notin MsgComments,
         \A i \in gSplit + 1 .. p - 1 : gText[i] \in MsgComments,
         UNCHANGED <<gText, gTaken>>, gSplit' = p, rRead' = rRead \o <<gText[p]>>
  PROVE  MsgReadOnce' /\ rRead' \in Seq(MsgItem)
<1> DEFINE Before(S, i) == {j \in S : j <= i}
           n == Cardinality(PairsRead)
<1>1. /\ gText \in Seq(MsgItem) /\ gTaken \in Nat /\ gSplit \in Nat /\ gTaken <= gSplit
      /\ rRead \in Seq(MsgItem) /\ Len(rRead) = n
      /\ \A i \in PairsRead : rRead[Cardinality(Before(PairsRead, i))] = gText[i]
      BY DEF ReadInv, MsgReadOnce
<1>2. PairsRead' = PairsRead \cup {p} /\ \A i \in PairsRead : i \in Int /\ i < p
  <2>1. PairsRead' = {i \in gTaken + 1 .. p : gText[i] \notin MsgComments}
        BY DEF PairsRead
  <2>2. ASSUME NEW i \in gTaken + 1 .. p, gText[i] \notin MsgComments
        PROVE  i \in PairsRead \cup {p}
        BY <1>1, <2>2 DEF PairsRead
  <2>3. ASSUME NEW i \in PairsRead
        PROVE  i \in PairsRead' /\ i \in Int /\ i < p
        BY <1>1, <2>1 DEF PairsRead
  <2>4. p \in PairsRead'
        BY <1>1, <2>1
  <2> QED
      BY <2>1, <2>2, <2>3, <2>4
<1>3. IsFiniteSet(PairsRead) /\ p \notin PairsRead /\ n \in Nat
  <2>1. IsFiniteSet(gTaken + 1 .. gSplit)
        BY <1>1, FS_Interval
  <2>2. PairsRead \in SUBSET (gTaken + 1 .. gSplit)
        BY DEF PairsRead
  <2>3. IsFiniteSet(PairsRead)
        BY <2>1, <2>2, FS_Subset
  <2> QED
      BY <1>2, <2>3, FS_CardinalityType
<1>4. Cardinality(PairsRead \cup {p}) = n + 1
      BY <1>3, FS_AddElement
<1>5. /\ rRead' \in Seq(MsgItem) /\ Len(rRead') = n + 1
      /\ \A k \in 1 .. n : rRead'[k] = rRead[k]
      /\ rRead'[n + 1] = gText[p]
  <2>1. gText[p] \in MsgItem
        BY <1>1
  <2>2. rRead' = Append(rRead, gText[p])
        BY <1>1, <2>1, AppendIsConcat
  <2> QED
      BY <1>1, <2>1, <2>2, AppendProperties
<1>6. ASSUME NEW i \in PairsRead
      PROVE  /\ Before(PairsRead \cup {p}, i) = Before(PairsRead, i)
             /\ Cardinality(Before(PairsRead, i)) \in 1 .. n
  <2>1. Before(PairsRead \cup {p}, i) = Before(PairsRead, i)
        BY <1>2
  <2>2. Before(PairsRead, i) \in SUBSET PairsRead /\ Before(PairsRead, i) # {}
        BY <1>2
  <2> HIDE DEF Before
  <2>3. /\ IsFiniteSet(Before(PairsRead, i))
        /\ Cardinality(Before(PairsRead, i)) <= n
        BY <1>3, <2>2, FS_Subset
  <2>4. Cardinality(Before(PairsRead, i)) \in Nat
        BY <2>3, FS_CardinalityType
  <2>5. Cardinality(Before(PairsRead, i)) # 0
        BY <2>2, <2>3, FS_EmptySet
  <2> QED
      BY <1>3, <2>1, <2>3, <2>4, <2>5
<1>7. Before(PairsRead \cup {p}, p) = PairsRead \cup {p}
      BY <1>2
<1>8. \A i \in PairsRead \cup {p} :
        rRead'[Cardinality(Before(PairsRead \cup {p}, i))] = gText[i]
  <2> HIDE DEF Before, n
  <2>1. ASSUME NEW i \in PairsRead
        PROVE  rRead'[Cardinality(Before(PairsRead \cup {p}, i))] = gText[i]
        BY <1>1, <1>5, <1>6
  <2>2. rRead'[Cardinality(Before(PairsRead \cup {p}, p))] = gText[p]
        BY <1>4, <1>5, <1>7
  <2> QED
      BY <2>1, <2>2
<1>9. MsgReadOnce'
  <2>1. \A i \in PairsRead' :
          rRead'[Cardinality({j \in PairsRead' : j <= i})] = gText'[i]
        BY <1>2, <1>8
  <2>2. Len(rRead') = Cardinality(PairsRead')
        BY <1>2, <1>4, <1>5
  <2> QED
      BY <2>1, <2>2 DEF MsgReadOnce
<1> QED
    BY <1>5, <1>9

\* Reading from a message made of the text.
LEMMA ReadMessageFromKeepsReadInv ==
  ASSUME ReadInv, NEW r \in MsgReader, ReadMessageFrom(r)
  PROVE  ReadInv'
<1> DEFINE pos == rPos[r]
           read == ReadAfter(gText, pos, gSplit)
           p == NextPair(gText, pos)
<1>1. /\ pos # -1
      /\ rPos' = [rPos EXCEPT ![r] = read.pos]
      /\ gSplit' = read.split /\ rRead' = rRead \o read.given
      /\ UNCHANGED <<mItems, mPos, mSplit, gText, gTaken>>
      BY DEF ReadMessageFrom, mText
<1>2. /\ gText \in Seq(MsgItem) /\ gTaken \in Nat /\ gSplit \in Nat /\ Len(gText) \in Nat
      /\ gTaken <= gSplit /\ gSplit <= Len(gText)
      /\ pos \in Nat /\ pos <= gSplit /\ pos <= Len(gText)
      /\ rPos \in [MsgReader -> Int] /\ rRead \in Seq(MsgItem)
      /\ \A s \in MsgReader : -1 <= rPos[s] /\ rPos[s] <= gSplit
      BY <1>1 DEF ReadInv
<1> HIDE DEF pos
<1>3. /\ p \in Nat
      /\ \A i \in pos + 1 .. Len(gText) : gText[i] \notin MsgComments => i >= p
      /\ p <= Len(gText) => gText[p] \notin MsgComments
      BY <1>2, NextPairIsFirst
<1>4. \/ read = [pos |-> pos, split |-> gSplit, given |-> <<>>]
      \/ /\ gSplit <= pos /\ pos < Len(gText) /\ p > Len(gText)
         /\ read = [pos |-> Len(gText), split |-> Len(gText), given |-> <<>>]
      \/ /\ gSplit <= pos /\ pos < p /\ p <= Len(gText)
         /\ read = [pos |-> p, split |-> p, given |-> <<gText[p]>>]
      BY <1>2, ReadAfterIs
<1> HIDE DEF read, p
<1>5. /\ read.pos \in Nat /\ read.split \in Nat /\ read.pos <= read.split
      /\ gSplit <= read.split /\ read.split <= Len(gText)
      BY <1>2, <1>3, <1>4
<1>6. MsgReadOnce' /\ rRead' \in Seq(MsgItem)
  <2>1. CASE read = [pos |-> pos, split |-> gSplit, given |-> <<>>]
    <3>1. gSplit' = gSplit /\ rRead' = rRead
          BY <1>1, <1>2, <2>1, ConcatEmptySeq
    <3> QED
        BY <1>1, <1>2, <3>1 DEF ReadInv, MsgReadOnce, PairsRead
  <2>2. CASE /\ gSplit <= pos /\ pos < Len(gText) /\ p > Len(gText)
             /\ read = [pos |-> Len(gText), split |-> Len(gText), given |-> <<>>]
    <3>1. gSplit' = Len(gText) /\ rRead' = rRead
          BY <1>1, <1>2, <2>2, ConcatEmptySeq
    <3>2. \A i \in gSplit + 1 .. Len(gText) : gText[i] \in MsgComments
          BY <1>2, <1>3, <2>2
    <3>3. PairsRead' = PairsRead
          BY <1>1, <1>2, <3>1, <3>2 DEF PairsRead
    <3> QED
        BY <1>1, <1>2, <3>1, <3>3 DEF ReadInv, MsgReadOnce, PairsRead
  <2>3. CASE /\ gSplit <= pos /\ pos < p /\ p <= Len(gText)
             /\ read = [pos |-> p, split |-> p, given |-> <<gText[p]>>]
    <3>1. gSplit' = p /\ rRead' = rRead \o <<gText[p]>> /\ gSplit < p
          BY <1>1, <1>2, <1>3, <2>3
    <3>2. \A i \in gSplit + 1 .. p - 1 : gText[i] \in MsgComments
          BY <1>2, <1>3, <2>3
    <3> QED
        BY <1>1, <1>3, <2>3, <3>1, <3>2, GivePair
  <2> QED
      BY <1>4, <2>1, <2>2, <2>3
<1>7. /\ rPos' \in [MsgReader -> Int]
      /\ \A s \in MsgReader : -1 <= rPos'[s] /\ rPos'[s] <= gSplit'
      BY <1>1, <1>2, <1>5
<1> QED
    BY <1>1, <1>2, <1>5, <1>6, <1>7 DEF ReadInv

\* Every statement keeps the invariant.
LEMMA ReadStepInv ==
  ASSUME ReadInv, [MsgNext]_msgVars
  PROVE  ReadInv'
<1>1. ASSUME NEW item \in MsgItem, WriteMessage(item) PROVE ReadInv'
  <2>1. /\ mItems' = Append(mItems, item)
        /\ UNCHANGED <<mPos, mSplit, gText, gSplit, gTaken, rPos, rRead>>
        BY <1>1 DEF WriteMessage
  <2>2. mItems' \in Seq(MsgItem) /\ Len(mItems') = Len(mItems) + 1 /\ Len(mItems) \in Nat
        BY <2>1 DEF ReadInv
  <2>3. MsgReadOnce'
        BY <2>1 DEF ReadInv, MsgReadOnce, PairsRead
  <2> QED
      BY <2>1, <2>2, <2>3 DEF ReadInv
<1>2. CASE GetMessage
  <2>1. /\ gText' = mItems /\ gSplit' = mSplit /\ gTaken' = mSplit
        /\ rPos' = [r \in MsgReader |-> -1] /\ rRead' = <<>>
        /\ mItems' = <<>> /\ mPos' = 0 /\ mSplit' = 0
        BY <1>2 DEF GetMessage
  <2>2. mSplit \in Nat /\ mSplit <= Len(mItems)
        BY DEF ReadInv
  <2>3. PairsRead' = {}
        BY <2>1, <2>2 DEF PairsRead
  <2>4. MsgReadOnce'
        BY <2>1, <2>3, FS_EmptySet DEF MsgReadOnce
  <2> QED
      BY <2>1, <2>2, <2>4 DEF ReadInv
<1>3. ASSUME NEW r \in MsgReader, NewMessageFrom(r) PROVE ReadInv'
  <2>1. /\ rPos' = [rPos EXCEPT ![r] = 0]
        /\ UNCHANGED <<mItems, mPos, mSplit, gText, gSplit, gTaken, rRead>>
        BY <1>3 DEF NewMessageFrom, mText
  <2>2. MsgReadOnce'
        BY <2>1 DEF ReadInv, MsgReadOnce, PairsRead
  <2> QED
      BY <2>1, <2>2 DEF ReadInv
<1>4. CASE UNCHANGED msgVars
      BY <1>4 DEF msgVars, mText, ReadInv, MsgReadOnce, PairsRead
<1> QED
    BY <1>1, <1>2, <1>3, <1>4, ReadMessageKeepsReadInv, ReadMessageFromKeepsReadInv DEF MsgNext

\* The messages made of a text give its pairs in their order and none twice,
\* however long the text is, however many messages are made of it, and wherever
\* its comments are.
THEOREM PairsGivenOnce == MsgSpec => []MsgReadOnce
<1>1. ReadInv => MsgReadOnce
      BY DEF ReadInv
<1> QED
    BY <1>1, ReadInitInv, ReadStepInv, PTL DEF MsgSpec

-----------------------------------------------------------------------------
(* Calls of call-remote: the invariant.                                    *)

\* Where rim_cli_request() can still be left.
Active == {"connect", "send", "header", "message", "padding"}
Outcomes == {"OKAY", "FAILED", "TIMEOUT"}

CliTypes ==
  /\ cPhase \in [Calls -> Active \cup {"new", "invalid", "done"}]
  /\ cTimed \in [Calls -> BOOLEAN] /\ cLate \in [Calls -> BOOLEAN]
  /\ cSent \in [Calls -> Nat]
  /\ cRecord \in [Calls -> Records] /\ cReadDone \in [Calls -> BOOLEAN]
  /\ cData \in [Calls -> Seq(Streams)] /\ sData \in [Calls -> Seq(Streams)]
  /\ cResult \in [Calls -> Outcomes \cup {"none"}]
  /\ sEnded \in [Calls -> BOOLEAN] /\ sRecords \in [Calls -> Nat]
  /\ rPhase \in {"start", "join", "done"} /\ rNext \in Calls
  /\ rStarted \in Nat /\ rOkay \in Nat

\* Between the header of a record and its content, and only there, the server
\* has sent what the call has not read yet; read_done is set by an end record
\* the server really sent.
CallIsTrue(c) ==
  /\ cResult[c] # "none" <=> cPhase[c] = "done"
  /\ cResult[c] = "OKAY" => sEnded[c] /\ cData[c] = sData[c]
  /\ cResult[c] = "TIMEOUT" => Late(c)
  /\ cReadDone[c] => sEnded[c]
  /\ cPhase[c] \notin {"message", "done"} => cData[c] = sData[c]
  /\ cPhase[c] = "message" =>
       /\ sData[c] = IF cRecord[c].type \in Streams
                     THEN Append(cData[c], cRecord[c].type) ELSE cData[c]
       /\ cRecord[c].type = "end" => sEnded[c]

Launched == {c \in Calls : cPhase[c] \notin {"new", "invalid"}}

\* What rim_call_fcgi() has counted when it is at call rNext: the threads that
\* started, and of those joined so far the ones that ended well.
RunIsTrue ==
  /\ rStarted = Cardinality(Launched)
  /\ rPhase = "start" => \A c \in Calls : cPhase[c] = "new" <=> c >= rNext
  /\ rPhase # "start" => \A c \in Calls : cPhase[c] # "new"
  /\ rPhase = "start" => rOkay = 0
  /\ rPhase = "join" =>
       /\ \A c \in Calls : c < rNext => cPhase[c] \in {"done", "invalid"}
       /\ rOkay = Cardinality({c \in OkayCalls : c < rNext})
  /\ rPhase = "done" =>
       /\ \A c \in Calls : cPhase[c] \in {"done", "invalid"}
       /\ rOkay = Cardinality(OkayCalls)
       /\ rStatus = "OKAY" <=> rStarted = MaxCalls /\ rOkay = MaxCalls

CliInv == CliTypes /\ (\A c \in Calls : CallIsTrue(c)) /\ RunIsTrue

-----------------------------------------------------------------------------
(* The steps of one call.                                                  *)

\* What the steps of call c leave alone: rim_call_fcgi(), the timeouts, and
\* everything of the other calls.
OnlyCall(c) ==
  /\ UNCHANGED <<cRun, cTimed>>
  /\ \A d \in Calls \ {c} :
       /\ cPhase'[d] = cPhase[d] /\ cResult'[d] = cResult[d]
       /\ cRecord'[d] = cRecord[d] /\ cReadDone'[d] = cReadDone[d]
       /\ cData'[d] = cData[d] /\ sData'[d] = sData[d] /\ sEnded'[d] = sEnded[d]
       /\ cLate'[d] = cLate[d]

\* A call moves between the operations on its socket, or it ends and has its
\* result; a call that did neither was not running.
Moved(c) ==
  \/ cPhase[c] \in Active /\ cPhase'[c] \in Active \cup {"done"}
  \/ cPhase'[c] = cPhase[c] /\ cResult'[c] = cResult[c]

\* What each step of a call is shown to do.
GoodStep(c) == CliTypes' /\ CallIsTrue(c)' /\ OnlyCall(c) /\ Moved(c)

\* RIM_CLI_RET leaves rim_cli_request() with its result, and nothing local.
LEMMA ReturnEnds ==
  ASSUME CliTypes, NEW c \in Calls, NEW rc \in Outcomes, Return(c, rc)
  PROVE  /\ cPhase' \in [Calls -> Active \cup {"new", "invalid", "done"}]
         /\ cSent' \in [Calls -> Nat] /\ cRecord' \in [Calls -> Records]
         /\ cReadDone' \in [Calls -> BOOLEAN]
         /\ cResult' \in [Calls -> Outcomes \cup {"none"}]
         /\ cPhase'[c] = "done" /\ cResult'[c] = rc /\ cReadDone'[c] = FALSE
         /\ \A d \in Calls \ {c} :
              /\ cPhase'[d] = cPhase[d] /\ cResult'[d] = cResult[d]
              /\ cRecord'[d] = cRecord[d] /\ cReadDone'[d] = cReadDone[d]
<1>1. NoRecord \in Records
      BY DEF NoRecord, Records, RecordTypes
<1> QED
    BY <1>1 DEF CliTypes, Return

\* A step that ends the call of a socket: it is true if its result is.
LEMMA ReturnIsGood ==
  ASSUME CliTypes, NEW c \in Calls, NEW rc \in Outcomes, Return(c, rc),
         cPhase[c] \in Active,
         UNCHANGED <<cData, cServer, cTime, cRun>>,
         rc = "OKAY" => sEnded[c] /\ cData[c] = sData[c],
         rc = "TIMEOUT" => Late(c)
  PROVE  GoodStep(c)
<1>1. CliTypes'
      BY ReturnEnds DEF CliTypes, cServer, cTime, cRun
<1>2. CallIsTrue(c)'
      BY ReturnEnds DEF CallIsTrue, cServer, cTime, Late, Outcomes
<1>3. OnlyCall(c)
      BY ReturnEnds DEF OnlyCall, cServer, cTime
<1>4. Moved(c)
      BY ReturnEnds DEF Moved
<1> QED
    BY <1>1, <1>2, <1>3, <1>4 DEF GoodStep

\* A call that is told to be late is late, and the clock never goes back.
LEMMA TimeIsGood ==
  ASSUME CliTypes, NEW c \in Calls, CallIsTrue(c), TimesOut(c) \/ TimeUp(c)
  PROVE  GoodStep(c)
<1>1. CASE TimesOut(c)
      BY <1>1, ReturnIsGood DEF TimesOut, Outcomes, Active
<1>2. CASE TimeUp(c)
  <2>1. CliTypes'
        BY <1>2 DEF CliTypes, TimeUp, cCall, cServer, cRun
  <2>2. CallIsTrue(c)'
        BY <1>2 DEF CliTypes, CallIsTrue, TimeUp, cCall, cServer, Late
  <2>3. OnlyCall(c) /\ Moved(c)
        BY <1>2 DEF CliTypes, OnlyCall, Moved, TimeUp, cCall, cServer
  <2> QED
      BY <2>1, <2>2, <2>3 DEF GoodStep
<1> QED
    BY <1>1, <1>2

\* Connecting and sending: nothing was sent by the server yet.
LEMMA SendIsGood ==
  ASSUME CliTypes, NEW c \in Calls, CallIsTrue(c),
         Connect(c) \/ ConnectFails(c) \/ Send(c) \/ SendFails(c)
  PROVE  GoodStep(c)
<1>1. CASE ConnectFails(c) \/ SendFails(c)
      BY <1>1, ReturnIsGood DEF ConnectFails, SendFails, Outcomes, Active
<1>2. CASE Connect(c) \/ Send(c)
  <2>1. PICK to \in {"send", "header"} : cPhase' = [cPhase EXCEPT ![c] = to]
        BY <1>2 DEF Connect, Send
  <2>2. /\ cPhase[c] \in {"connect", "send"}
        /\ UNCHANGED <<cRecord, cReadDone, cData, cResult, cServer, cTime, cRun>>
        BY <1>2 DEF Connect, Send
  <2>3. cSent' \in [Calls -> Nat]
    <3>1. (cSent[c] + 1) % CliParts \in Nat
          BY CliAssumption DEF CliTypes
    <3>2. cSent' \in {cSent, [cSent EXCEPT ![c] = (cSent[c] + 1) % CliParts]}
          BY <1>2 DEF Connect, Send
    <3> QED
        BY <3>1, <3>2 DEF CliTypes
  <2>4. CliTypes'
        BY <2>1, <2>2, <2>3 DEF CliTypes, cServer, cTime, cRun, Active
  <2>5. CallIsTrue(c)'
        BY <2>1, <2>2 DEF CliTypes, CallIsTrue, cServer, cTime, Late
  <2>6. OnlyCall(c)
        BY <2>1, <2>2 DEF CliTypes, OnlyCall, cServer, cTime
  <2>7. Moved(c)
        BY <2>1, <2>2 DEF CliTypes, Moved, Active
  <2> QED
      BY <2>4, <2>5, <2>6, <2>7 DEF GoodStep
<1> QED
    BY <1>1, <1>2

\* Behind the content of a record or its padding: the call goes on, or its
\* request ended. It has read everything by then.
LEMMA ProceedIsGood ==
  ASSUME CliTypes, NEW c \in Calls, NEW r \in Records, NEW readDone \in BOOLEAN,
         NEW padded \in BOOLEAN, Proceed(c, r, readDone, padded),
         cPhase[c] \in Active, cResult[c] = "none",
         UNCHANGED <<cTime, cRun>>,
         cData' \in [Calls -> Seq(Streams)], sData' \in [Calls -> Seq(Streams)],
         sEnded' \in [Calls -> BOOLEAN], sRecords' \in [Calls -> Nat],
         \A d \in Calls \ {c} :
           cData'[d] = cData[d] /\ sData'[d] = sData[d] /\ sEnded'[d] = sEnded[d],
         cData'[c] = sData'[c],
         readDone => sEnded'[c]
  PROVE  GoodStep(c)
<1>1. CASE Onward(r, readDone, padded) = "done"
  <2>1. Return(c, "OKAY") /\ readDone
        BY <1>1 DEF Proceed, Onward
  <2>2. CliTypes'
        BY <2>1, ReturnEnds DEF CliTypes, cTime, cRun, Outcomes
  <2>3. CallIsTrue(c)'
        BY <2>1, ReturnEnds DEF CallIsTrue, Outcomes
  <2>4. OnlyCall(c) /\ Moved(c)
        BY <2>1, ReturnEnds DEF OnlyCall, Moved, cTime, Outcomes
  <2> QED
      BY <2>2, <2>3, <2>4 DEF GoodStep
<1>2. CASE Onward(r, readDone, padded) # "done"
  <2>1. PICK to \in {"padding", "header"} : cPhase' = [cPhase EXCEPT ![c] = to]
        BY <1>2 DEF Proceed, Onward
  <2>2. PICK s \in Records : cRecord' = [cRecord EXCEPT ![c] = s]
    <3>1. NoRecord \in Records
          BY DEF NoRecord, Records, RecordTypes
    <3> QED
        BY <1>2, <3>1 DEF Proceed
  <2>3. /\ cReadDone' = [cReadDone EXCEPT ![c] = readDone]
        /\ UNCHANGED <<cResult, cSent>>
        BY <1>2 DEF Proceed
  <2>4. CliTypes'
        BY <2>1, <2>2, <2>3 DEF CliTypes, cTime, cRun, Active
  <2>5. CallIsTrue(c)'
        BY <2>1, <2>3 DEF CliTypes, CallIsTrue
  <2>6. OnlyCall(c) /\ Moved(c)
        BY <2>1, <2>2, <2>3 DEF CliTypes, OnlyCall, Moved, cTime, Active
  <2> QED
      BY <2>4, <2>5, <2>6 DEF GoodStep
<1> QED
    BY <1>1, <1>2

\* What the server sends with a header.
LEMMA ServerSends ==
  ASSUME CliTypes, NEW c \in Calls, NEW r \in Records, ReadHeader(c, r)
  PROVE  /\ sData' \in [Calls -> Seq(Streams)] /\ sEnded' \in [Calls -> BOOLEAN]
         /\ sRecords' \in [Calls -> Nat]
         /\ \A d \in Calls \ {c} : sData'[d] = sData[d] /\ sEnded'[d] = sEnded[d]
         /\ sData'[c] = IF r.type \in Streams /\ r.content
                        THEN Append(sData[c], r.type) ELSE sData[c]
         /\ sEnded'[c] = (sEnded[c] \/ (r.type = "end" /\ r.content))
<1>1. r.type \in Streams => Append(sData[c], r.type) \in Seq(Streams)
      BY DEF CliTypes
<1>2. /\ sRecords' = [sRecords EXCEPT ![c] = @ + 1]
      /\ sData' = IF r.type \in Streams /\ r.content
                  THEN [sData EXCEPT ![c] = Append(sData[c], r.type)] ELSE sData
      /\ sEnded' = [sEnded EXCEPT ![c] = sEnded[c] \/ (r.type = "end" /\ r.content)]
      BY DEF ReadHeader
<1>3. (sEnded[c] \/ (r.type = "end" /\ r.content)) \in BOOLEAN
      OBVIOUS
<1>4. sData' \in [Calls -> Seq(Streams)]
      BY <1>1, <1>2 DEF CliTypes
<1>5. sEnded' \in [Calls -> BOOLEAN]
      BY <1>2, <1>3 DEF CliTypes
<1>6. sRecords' \in [Calls -> Nat]
      BY <1>2 DEF CliTypes
<1> QED
    BY <1>2, <1>4, <1>5, <1>6 DEF CliTypes

\* A header announces content that is read next, or the call goes on without.
LEMMA HeaderIsGood ==
  ASSUME CliTypes, NEW c \in Calls, CallIsTrue(c), NEW r \in Records, ReadHeader(c, r)
  PROVE  GoodStep(c)
<1>1. /\ cPhase[c] = "header" /\ cResult[c] = "none" /\ cData[c] = sData[c]
      /\ UNCHANGED <<cData, cTime, cRun>>
      BY DEF ReadHeader, CallIsTrue
<1>2. CASE Return(c, "FAILED")
  <2>1. CliTypes'
        BY <1>1, <1>2, ServerSends, ReturnEnds DEF CliTypes, cTime, cRun, Outcomes
  <2>2. CallIsTrue(c)'
        BY <1>2, ReturnEnds DEF CallIsTrue, Outcomes
  <2>3. OnlyCall(c) /\ Moved(c)
        BY <1>1, <1>2, ServerSends, ReturnEnds DEF OnlyCall, Moved, cTime, Outcomes, Active
  <2> QED
      BY <2>1, <2>2, <2>3 DEF GoodStep
<1>3. CASE /\ r.content
           /\ cPhase' = [cPhase EXCEPT ![c] = "message"]
           /\ cRecord' = [cRecord EXCEPT ![c] = r]
           /\ UNCHANGED <<cResult, cSent, cReadDone>>
  <2>1. CliTypes'
        BY <1>1, <1>3, ServerSends DEF CliTypes, cTime, cRun, Active
  <2>2. /\ cPhase'[c] = "message" /\ cRecord'[c] = r /\ cResult'[c] = "none"
        /\ cReadDone'[c] = cReadDone[c] /\ cData'[c] = cData[c]
        BY <1>1, <1>3 DEF CliTypes
  <2>3. sData'[c] = IF r.type \in Streams THEN Append(cData'[c], r.type) ELSE cData'[c]
        BY <1>1, <1>3, <2>2, ServerSends
  <2>4. (r.type = "end" => sEnded'[c]) /\ (cReadDone'[c] => sEnded'[c])
        BY <1>3, <2>2, ServerSends DEF CallIsTrue
  <2>5. CallIsTrue(c)'
        BY <2>2, <2>3, <2>4 DEF CallIsTrue
  <2>6. OnlyCall(c) /\ Moved(c)
        BY <1>1, <1>3, ServerSends DEF CliTypes, OnlyCall, Moved, cTime, Active
  <2> QED
      BY <2>1, <2>5, <2>6 DEF GoodStep
<1>4. CASE ~r.content /\ Proceed(c, r, cReadDone[c], FALSE)
  <2>1. cReadDone[c] \in BOOLEAN /\ cData \in [Calls -> Seq(Streams)]
        BY DEF CliTypes
  <2>2. cData'[c] = sData'[c] /\ (cReadDone[c] => sEnded'[c])
        BY <1>1, <1>4, ServerSends DEF CallIsTrue
  <2> QED
      BY <1>1, <1>4, <2>1, <2>2, ServerSends, ProceedIsGood DEF Active
<1> QED
    BY <1>2, <1>3, <1>4 DEF ReadHeader

\* Reading the content is what the server sent; an end record of another
\* status or length does not end the request well.
LEMMA ContentIsGood ==
  ASSUME CliTypes, NEW c \in Calls, CallIsTrue(c), ReadContent(c)
  PROVE  GoodStep(c)
<1> DEFINE r == cRecord[c]
<1>1. /\ cPhase[c] = "message" /\ cResult[c] = "none" /\ r \in Records
      /\ UNCHANGED <<cServer, cTime, cRun>>
      BY DEF ReadContent, CallIsTrue, CliTypes
<1>2. /\ cData' \in [Calls -> Seq(Streams)]
      /\ cData'[c] = sData[c]
      /\ \A d \in Calls \ {c} : cData'[d] = cData[d]
  <2>1. r.type \in Streams => Append(cData[c], r.type) \in Seq(Streams)
        BY DEF CliTypes
  <2>2. cData' = IF r.type \in Streams
                 THEN [cData EXCEPT ![c] = Append(cData[c], r.type)] ELSE cData
        BY DEF ReadContent
  <2> QED
      BY <1>1, <2>1, <2>2 DEF CliTypes, CallIsTrue
<1>3. CASE EndsWell(r.type) \/ r.type \in Streams \cup {"other"}
  <2>1. Proceed(c, r, EndsWell(r.type), FALSE)
        BY <1>3 DEF ReadContent
  <2>2. EndsWell(r.type) \in BOOLEAN /\ (EndsWell(r.type) => sEnded[c])
        BY <1>1 DEF EndsWell, CallIsTrue
  <2>3. UNCHANGED <<sData, sEnded, sRecords, cTime, cRun>>
        BY <1>1 DEF cServer
  <2>4. /\ sData \in [Calls -> Seq(Streams)] /\ sEnded \in [Calls -> BOOLEAN]
        /\ sRecords \in [Calls -> Nat] /\ cPhase[c] \in Active
        BY <1>1 DEF CliTypes, Active
  <2> HIDE DEF r
  <2> QED
      BY <1>1, <1>2, <2>1, <2>2, <2>3, <2>4, ProceedIsGood
<1>4. CASE ~(EndsWell(r.type) \/ r.type \in Streams \cup {"other"})
  <2>1. Return(c, "FAILED")
        BY <1>4 DEF ReadContent
  <2>2. CliTypes'
        BY <1>1, <1>2, <2>1, ReturnEnds DEF CliTypes, cServer, cTime, cRun, Outcomes
  <2>3. CallIsTrue(c)'
        BY <2>1, ReturnEnds DEF CallIsTrue, Outcomes
  <2>4. OnlyCall(c) /\ Moved(c)
        BY <1>1, <1>2, <2>1, ReturnEnds DEF OnlyCall, Moved, cServer, cTime, Outcomes, Active
  <2> QED
      BY <2>2, <2>3, <2>4 DEF GoodStep
<1> QED
    BY <1>3, <1>4

\* The other ways a reply goes on or ends: a failed read, a bad header, the
\* padding of a record.
LEMMA RestIsGood ==
  ASSUME CliTypes, NEW c \in Calls, CallIsTrue(c),
         ReadBadHeader(c) \/ ReadPadding(c) \/ ReadFails(c)
  PROVE  GoodStep(c)
<1>1. CASE ReadBadHeader(c)
      BY <1>1, ReturnIsGood DEF ReadBadHeader, Outcomes, Active
<1>2. CASE ReadPadding(c)
  <2>1. /\ cPhase[c] = "padding" /\ Proceed(c, cRecord[c], cReadDone[c], TRUE)
        /\ UNCHANGED <<cData, sData, sEnded, sRecords, cTime, cRun>>
        BY <1>2 DEF ReadPadding, cServer
  <2>2. /\ cRecord[c] \in Records /\ cReadDone[c] \in BOOLEAN
        /\ cData \in [Calls -> Seq(Streams)] /\ sData \in [Calls -> Seq(Streams)]
        /\ sEnded \in [Calls -> BOOLEAN] /\ sRecords \in [Calls -> Nat]
        BY DEF CliTypes
  <2>3. /\ cResult[c] = "none" /\ cData[c] = sData[c] /\ (cReadDone[c] => sEnded[c])
        /\ cPhase[c] \in Active
        BY <2>1 DEF CallIsTrue, Active
  <2> QED
      BY <2>1, <2>2, <2>3, ProceedIsGood
<1>3. CASE ReadFails(c)
  <2>1. /\ cPhase[c] \in Active /\ UNCHANGED <<cData, cServer, cTime, cRun>>
        BY <1>3 DEF ReadFails, Active
  <2>2. Return(c, "FAILED") \/ Return(c, ClosedStatus(c))
        BY <1>3 DEF ReadFails
  <2>3. /\ ClosedStatus(c) \in {"FAILED", "OKAY"}
        /\ ClosedStatus(c) = "OKAY" => sEnded[c] /\ cData[c] = sData[c]
        BY DEF ClosedStatus, CallIsTrue
  <2>4. CASE Return(c, "FAILED")
        BY <2>1, <2>4, ReturnIsGood DEF Outcomes
  <2>5. CASE Return(c, ClosedStatus(c))
        BY <2>1, <2>3, <2>5, ReturnIsGood DEF Outcomes
  <2> QED
      BY <2>2, <2>4, <2>5
<1> QED
    BY <1>1, <1>2, <1>3

\* Every step of a call is one of these.
LEMMA CallStepIsGood ==
  ASSUME CliTypes, NEW c \in Calls, CallIsTrue(c), CallStep(c)
  PROVE  GoodStep(c)
<1>1. ASSUME NEW r \in CliRecords, ReadHeader(c, r) PROVE GoodStep(c)
      BY <1>1, HeaderIsGood, CliAssumption
<1> QED
    BY <1>1, TimeIsGood, SendIsGood, ContentIsGood, RestIsGood DEF CallStep, Operation

-----------------------------------------------------------------------------
(* The run of call-remote.                                                 *)

\* The calls are a finite set, and so is every part of them.
LEMMA CallsFinite ==
  /\ IsFiniteSet(Calls) /\ Cardinality(Calls) = MaxCalls
  /\ \A S \in SUBSET Calls :
       IsFiniteSet(S) /\ (Cardinality(S) = MaxCalls <=> S = Calls)
<1>1. MaxCalls \in Nat /\ MaxCalls >= 1 /\ 1 \in Int /\ MaxCalls \in Int
      BY CliAssumption
<1>2. IsFiniteSet(1 .. MaxCalls) /\ Cardinality(1 .. MaxCalls) = MaxCalls
  <2>1. IsFiniteSet(1 .. MaxCalls)
        BY <1>1, FS_Interval
  <2>2. Cardinality(1 .. MaxCalls)
          = IF 1 > MaxCalls THEN 0 ELSE MaxCalls - 1 + 1
        BY <1>1, FS_Interval
  <2> QED
      BY <1>1, <2>1, <2>2
<1>3. IsFiniteSet(Calls) /\ Cardinality(Calls) = MaxCalls
      BY <1>2 DEF Calls
<1>4. ASSUME NEW S \in SUBSET Calls
      PROVE  IsFiniteSet(S) /\ (Cardinality(S) = Cardinality(Calls) <=> S = Calls)
      BY <1>3, FS_Subset
<1> QED
    BY <1>3, <1>4

\* A step of a call leaves what rim_call_fcgi() counted true.
LEMMA CallKeepsRun ==
  ASSUME CliTypes, NEW c \in Calls, OnlyCall(c), Moved(c), CliTypes', RunIsTrue,
         \A d \in Calls : CallIsTrue(d)
  PROVE  RunIsTrue'
<1>1. UNCHANGED <<rPhase, rNext, rStarted, rOkay, rStatus>>
      BY DEF OnlyCall, cRun
<1>2. \A d \in Calls : d # c => cPhase'[d] = cPhase[d] /\ cResult'[d] = cResult[d]
      BY DEF OnlyCall
<1>3. \A d \in Calls : cPhase'[d] = cPhase[d] \/ (cPhase[d] \in Active /\ cPhase'[d] \in Active \cup {"done"})
      BY <1>2 DEF Moved
<1>4. \A d \in Calls : cPhase[d] \in {"done", "invalid"}
        => cPhase'[d] = cPhase[d] /\ cResult'[d] = cResult[d]
      BY <1>2 DEF Moved, Active
<1>5. /\ \A d \in Calls : cPhase'[d] = "new" <=> cPhase[d] = "new"
      /\ Launched' = Launched
      BY <1>3 DEF Launched, Active
<1>6. rPhase = "join" => {d \in OkayCalls : d < rNext}' = {d \in OkayCalls : d < rNext}
      BY <1>1, <1>4 DEF OkayCalls, RunIsTrue
<1>7. rPhase = "done" => OkayCalls' = OkayCalls
      BY <1>4 DEF OkayCalls, RunIsTrue
<1> QED
    BY <1>1, <1>4, <1>5, <1>6, <1>7 DEF RunIsTrue

\* The other calls are as true as they were.
LEMMA CallKeepsOthers ==
  ASSUME NEW c \in Calls, OnlyCall(c), NEW d \in Calls \ {c}, CallIsTrue(d)
  PROVE  CallIsTrue(d)'
BY DEF OnlyCall, CallIsTrue, Late

\* Starting a thread, or failing to.
LEMMA StartKeepsInv ==
  ASSUME CliInv, StartNext
  PROVE  CliInv'
<1>1. PICK to \in {"connect", "invalid"} :
        /\ cPhase' = [cPhase EXCEPT ![rNext] = to]
        /\ rStarted' = IF to = "connect" THEN rStarted + 1 ELSE rStarted
      BY DEF StartNext, StartCall, StartFails
<1>2. /\ rPhase = "start"
      /\ UNCHANGED <<rOkay, rStatus, cSent, cRecord, cReadDone, cData, cResult, cServer, cTime>>
      /\ rNext' = IF rNext = MaxCalls THEN 1 ELSE rNext + 1
      /\ rPhase' = IF rNext = MaxCalls THEN "join" ELSE "start"
      BY DEF StartNext, StartCall, StartFails
<1>3. CliTypes /\ (\A d \in Calls : CallIsTrue(d)) /\ RunIsTrue
      BY DEF CliInv
<1>4. cPhase[rNext] = "new" /\ rNext \in Calls /\ rNext \in Int /\ MaxCalls \in Nat \ {0}
      /\ rNext <= MaxCalls /\ rNext >= 1
      BY <1>2, <1>3, CliAssumption DEF CliTypes, RunIsTrue, Calls
<1>5. /\ cPhase'[rNext] = to
      /\ \A d \in Calls : d # rNext => cPhase'[d] = cPhase[d]
      BY <1>1, <1>3 DEF CliTypes
<1>6. rNext' \in Calls
      BY <1>2, <1>4 DEF Calls
<1>7. CliTypes'
  <2>1. cPhase' \in [Calls -> Active \cup {"new", "invalid", "done"}]
    <3>1. to \in Active \cup {"new", "invalid", "done"}
          BY DEF Active
    <3> QED
        BY <1>1, <1>3, <3>1 DEF CliTypes
  <2>2. rStarted' \in Nat
        BY <1>1, <1>3 DEF CliTypes
  <2>3. rPhase' \in {"start", "join", "done"}
        BY <1>2
  <2>4. /\ UNCHANGED <<rOkay, cSent, cRecord, cReadDone, cData, cResult>>
        /\ UNCHANGED <<sData, sEnded, sRecords, cTimed, cLate>>
        BY <1>2 DEF cServer, cTime
  <2> QED
      BY <1>3, <1>6, <2>1, <2>2, <2>3, <2>4 DEF CliTypes
<1>8. ASSUME NEW d \in Calls PROVE CallIsTrue(d)'
      BY <1>2, <1>3, <1>4, <1>5 DEF CallIsTrue, cServer, cTime, Late
<1>9. rStarted' = Cardinality(Launched')
  <2>1. IsFiniteSet(Launched) /\ rNext \notin Launched
        BY <1>4, CallsFinite DEF Launched
  <2>2. CASE to = "connect"
    <3>1. Launched' = Launched \cup {rNext}
          BY <1>4, <1>5, <2>2 DEF Launched
    <3>2. Cardinality(Launched \cup {rNext}) = Cardinality(Launched) + 1
          BY <2>1, FS_AddElement
    <3> QED
        BY <1>1, <1>3, <2>2, <3>1, <3>2 DEF RunIsTrue
  <2>3. CASE to = "invalid"
    <3>1. Launched' = Launched
          BY <1>4, <1>5, <2>3 DEF Launched
    <3> QED
        BY <1>1, <1>3, <2>3, <3>1 DEF RunIsTrue
  <2> QED
      BY <2>2, <2>3
<1>10. \A d \in Calls : d \in Int /\ (cPhase'[d] = "new" <=> d > rNext)
  <2>1. \A d \in Calls : d \in Int /\ (cPhase[d] = "new" <=> d >= rNext)
        BY <1>2, <1>3, CliAssumption DEF RunIsTrue, Calls
  <2> QED
      BY <1>4, <1>5, <2>1
<1>11. CASE rNext = MaxCalls
  <2>1. rPhase' = "join" /\ rNext' = 1
        BY <1>2, <1>11
  <2>2. \A d \in Calls : cPhase'[d] # "new" /\ ~(d < 1)
        BY <1>4, <1>10, <1>11 DEF Calls
  <2>3. {d \in OkayCalls : d < rNext}' = {}
        BY <2>1, <2>2 DEF OkayCalls
  <2>4. rOkay' = 0
        BY <1>2, <1>3 DEF RunIsTrue
  <2> QED
      BY <1>7, <1>8, <1>9, <2>1, <2>2, <2>3, <2>4, FS_EmptySet DEF CliInv, RunIsTrue
<1>12. CASE rNext # MaxCalls
  <2>1. rPhase' = "start" /\ rNext' = rNext + 1 /\ rOkay' = 0
        BY <1>2, <1>3, <1>12 DEF RunIsTrue
  <2>2. \A d \in Calls : cPhase'[d] = "new" <=> d >= rNext'
        BY <1>4, <1>10, <2>1
  <2> QED
      BY <1>7, <1>8, <1>9, <2>1, <2>2 DEF CliInv, RunIsTrue
<1> QED
    BY <1>11, <1>12

\* Waiting for a thread, counting it, and the status after the last one.
LEMMA JoinKeepsInv ==
  ASSUME CliInv, JoinNext
  PROVE  CliInv'
<1> DEFINE okay == IF cResult[rNext] = "OKAY" THEN rOkay + 1 ELSE rOkay
           Counted == {d \in OkayCalls : d < rNext}
           Upto == {d \in OkayCalls : d <= rNext}
<1>1. /\ rPhase = "join" /\ cPhase[rNext] \in {"done", "invalid"}
      /\ rOkay' = okay
      /\ UNCHANGED <<rStarted, cPhase, cSent, cRecord, cReadDone, cData, cResult, cServer, cTime>>
      BY DEF JoinNext, Joinable, cCall
<1>2. CliTypes /\ (\A d \in Calls : CallIsTrue(d)) /\ RunIsTrue
      BY DEF CliInv
<1>3. /\ rNext \in Calls /\ rNext \in Int /\ MaxCalls \in Nat \ {0}
      /\ rNext <= MaxCalls /\ rNext >= 1
      BY <1>2, CliAssumption DEF CliTypes, Calls
<1>4. \A d \in Calls : d \in Int /\ d <= MaxCalls
      BY CliAssumption DEF Calls
<1>5. okay = Cardinality(Upto) /\ okay \in Nat
  <2>1. IsFiniteSet(Counted) /\ rNext \notin Counted
    <3>1. Counted \in SUBSET Calls
          BY DEF OkayCalls
    <3>2. rNext \notin Counted
          BY <1>3
    <3> QED
        BY <3>1, <3>2, CallsFinite
  <2>2. rOkay = Cardinality(Counted) /\ rOkay \in Nat
        BY <1>1, <1>2 DEF RunIsTrue, CliTypes
  <2>3. CASE cResult[rNext] = "OKAY"
    <3>1. rNext \in OkayCalls /\ \A d \in OkayCalls : d \in Int
          BY <1>3, <1>4, <2>3 DEF OkayCalls
    <3>2. \A d \in OkayCalls : d <= rNext <=> d < rNext \/ d = rNext
          BY <1>3, <3>1
    <3>3. Upto = Counted \cup {rNext}
          BY <3>1, <3>2
    <3>4. Cardinality(Counted \cup {rNext}) = Cardinality(Counted) + 1
          BY <2>1, FS_AddElement
    <3> HIDE DEF Counted, Upto
    <3> QED
        BY <2>2, <2>3, <3>3, <3>4
  <2>4. CASE cResult[rNext] # "OKAY"
    <3>1. rNext \notin OkayCalls /\ \A d \in OkayCalls : d \in Int
          BY <1>3, <1>4, <2>4 DEF OkayCalls
    <3>2. \A d \in OkayCalls : d <= rNext <=> d < rNext
          BY <1>3, <3>1
    <3>3. Upto = Counted
          BY <3>2
    <3> HIDE DEF Counted, Upto
    <3> QED
        BY <2>2, <2>4, <3>3
  <2> QED
      BY <2>3, <2>4
<1>6. OkayCalls' = OkayCalls /\ Launched' = Launched
      BY <1>1 DEF OkayCalls, Launched
<1>7. \A d \in Calls : CallIsTrue(d)'
      BY <1>1, <1>2 DEF CallIsTrue, cServer, cTime, Late
<1>8. \A d \in Calls : d <= rNext => cPhase[d] \in {"done", "invalid"}
      BY <1>1, <1>2, <1>3, <1>4 DEF RunIsTrue
<1>9. CASE rNext = MaxCalls
  <2>1. /\ rPhase' = "done" /\ rNext' = rNext
        /\ rStatus' = IF rStarted = MaxCalls /\ okay = MaxCalls THEN "OKAY" ELSE "ERR_FAILED"
        BY <1>9 DEF JoinNext
  <2>2. CliTypes'
        BY <1>1, <1>2, <1>5, <2>1 DEF CliTypes, cServer, cTime
  <2>3. Upto = OkayCalls /\ \A d \in Calls : cPhase'[d] \in {"done", "invalid"}
        BY <1>1, <1>3, <1>4, <1>8, <1>9 DEF OkayCalls
  <2>4. /\ rOkay' = Cardinality(OkayCalls')
        /\ rStatus' = "OKAY" <=> rStarted' = MaxCalls /\ rOkay' = MaxCalls
        BY <1>1, <1>5, <1>6, <2>1, <2>3
  <2>5. rStarted' = Cardinality(Launched') /\ \A d \in Calls : cPhase'[d] # "new"
        BY <1>1, <1>2, <1>6 DEF RunIsTrue
  <2> HIDE DEF okay, Counted, Upto
  <2>6. RunIsTrue'
        BY <2>1, <2>3, <2>4, <2>5 DEF RunIsTrue
  <2> QED
      BY <1>7, <2>2, <2>6 DEF CliInv
<1>10. CASE rNext # MaxCalls
  <2>1. UNCHANGED rPhase /\ rNext' = rNext + 1
        BY <1>10 DEF JoinNext
  <2>2. rNext' \in Calls
        BY <1>3, <1>10, <2>1 DEF Calls
  <2>3. CliTypes'
        BY <1>1, <1>2, <1>5, <2>1, <2>2 DEF CliTypes, cServer, cTime
  <2>4. {d \in OkayCalls : d < rNext}' = Upto
    <3>1. \A d \in OkayCalls : d \in Int
          BY <1>4 DEF OkayCalls
    <3>2. \A d \in OkayCalls : d < rNext' <=> d <= rNext
          BY <1>3, <2>1, <3>1
    <3> QED
        BY <1>6, <3>2
  <2>5. \A d \in Calls : d < rNext' => cPhase'[d] \in {"done", "invalid"}
        BY <1>1, <1>3, <1>4, <1>8, <2>1
  <2>6. rStarted' = Cardinality(Launched') /\ \A d \in Calls : cPhase'[d] # "new"
        BY <1>1, <1>2, <1>6 DEF RunIsTrue
  <2>7. rOkay' = Cardinality({d \in OkayCalls : d < rNext}')
        BY <1>1, <1>5, <2>4
  <2>8. RunIsTrue'
        BY <1>1, <2>1, <2>5, <2>6, <2>7 DEF RunIsTrue
  <2> QED
      BY <1>7, <2>3, <2>8 DEF CliInv
<1> QED
    BY <1>9, <1>10

-----------------------------------------------------------------------------
(* The theorem.                                                            *)

\* No thread runs before the first call is started.
LEMMA CliInitInv == CliInit => CliInv
<1> SUFFICES ASSUME CliInit PROVE CliInv
    OBVIOUS
<1>1. CliTypes
  <2>1. NoRecord \in Records /\ 1 \in Calls /\ <<>> \in Seq(Streams)
        BY CliAssumption DEF NoRecord, Records, RecordTypes, Calls
  <2> QED
      BY <2>1 DEF CliInit, CliTypes
<1>2. \A c \in Calls : CallIsTrue(c)
      BY DEF CliInit, CallIsTrue
<1>3. RunIsTrue
  <2>1. Launched = {}
        BY DEF CliInit, Launched
  <2>2. \A c \in Calls : c >= 1
        BY CliAssumption DEF Calls
  <2> QED
      BY <2>1, <2>2, FS_EmptySet DEF CliInit, RunIsTrue
<1> QED
    BY <1>1, <1>2, <1>3 DEF CliInv

\* Every step keeps the invariant.
LEMMA CliStepInv ==
  ASSUME CliInv, [CliNext]_cliVars
  PROVE  CliInv'
<1>1. ASSUME NEW c \in Calls, CallStep(c) PROVE CliInv'
  <2>1. CliTypes /\ RunIsTrue /\ \A d \in Calls : CallIsTrue(d)
        BY DEF CliInv
  <2>2. GoodStep(c)
        BY <1>1, <2>1, CallStepIsGood
  <2>3. RunIsTrue'
        BY <2>1, <2>2, CallKeepsRun DEF GoodStep
  <2>4. ASSUME NEW d \in Calls PROVE CallIsTrue(d)'
        BY <2>1, <2>2, CallKeepsOthers DEF GoodStep
  <2> QED
      BY <2>2, <2>3, <2>4 DEF CliInv, GoodStep
<1>2. CASE UNCHANGED cliVars
      BY <1>2 DEF cliVars, cCall, cServer, cTime, cRun, CliInv, CliTypes, CallIsTrue,
         RunIsTrue, Launched, OkayCalls, Late
<1> QED
    BY <1>1, <1>2, StartKeepsInv, JoinKeepsInv DEF CliNext, CliDone

\* The invariant says what call-remote tells its program.
LEMMA InvTellsTruth ==
  ASSUME CliInv
  PROVE  CallTellsTruth
<1>1. CliTypes /\ RunIsTrue /\ \A c \in Calls : CallIsTrue(c)
      BY DEF CliInv
<1>2. ASSUME NEW c \in Calls
      PROVE  /\ cResult[c] = "OKAY" => sEnded[c] /\ cData[c] = sData[c]
             /\ cResult[c] = "TIMEOUT" => Late(c)
      BY <1>1 DEF CallIsTrue
<1>3. ASSUME rPhase = "done"
      PROVE  /\ \A c \in Calls : cPhase[c] \in {"done", "invalid"}
             /\ rStarted = Cardinality({c \in Calls : cPhase[c] = "done"})
             /\ rOkay = Cardinality(OkayCalls)
             /\ rStatus = "OKAY" <=> OkayCalls = Calls
  <2>1. /\ \A c \in Calls : cPhase[c] \in {"done", "invalid"}
        /\ rOkay = Cardinality(OkayCalls) /\ rStarted = Cardinality(Launched)
        /\ rStatus = "OKAY" <=> rStarted = MaxCalls /\ rOkay = MaxCalls
        BY <1>1, <1>3 DEF RunIsTrue
  <2>2. Launched = {c \in Calls : cPhase[c] = "done"}
        BY <2>1 DEF Launched
  <2>3. OkayCalls \subseteq Launched /\ Launched \subseteq Calls
        BY <1>1, <2>2 DEF CallIsTrue, OkayCalls, Launched
  <2>4. rStarted = MaxCalls <=> Launched = Calls
        BY <2>1, <2>3, CallsFinite
  <2>5. rOkay = MaxCalls <=> OkayCalls = Calls
        BY <2>1, <2>3, CallsFinite
  <2> QED
      BY <2>1, <2>2, <2>3, <2>4, <2>5
<1> QED
    BY <1>2, <1>3 DEF CallTellsTruth

\* Whatever the servers send and wherever a call blocks: a call is only told to
\* be all right when its server ended the request and all it sent was read, only
\* late when it is, and call-remote comes back with the status of all its calls.
THEOREM CallsTellTruth == CliSpec => []CallTellsTruth
<1> QED
    BY CliInitInv, CliStepInv, InvTellsTruth, PTL DEF CliSpec

-----------------------------------------------------------------------------
(* JSON: what the calls, the levels and the text have to do with each      *)
(* other.                                                                  *)

JsonStep == [name : JsonString \cup {JsonNoName}, index : Int]
Depths(d, open) ==
  /\ d \in [0 .. Len(open) -> Nat] /\ d[0] = 0
  /\ \A i \in 0 .. Len(open) : d[i] <= i
  /\ \A i, j \in 0 .. Len(open) : i <= j => d[i] <= d[j]
  /\ \A i \in 1 .. Len(open) : d[i] = IF open[i] = "object" THEN d[i - 1] + 1 ELSE d[i - 1]

\* Objects and arrays that are open, and the way to the next value: each object is a
\* step of it, and an array gives its index to the step of the object it is in, which
\* has none as long as its value is another object or is still to come.
Nested(open, path, d) ==
  /\ open \in Seq({"object", "array"}) /\ Len(open) <= JsonNested - 2
  /\ path \in Seq(JsonStep) /\ Len(path) = d[Len(open)]
  /\ Depths(d, open)
  /\ \A i \in 1 .. Len(open) : open[i] = "array" => i > 1 /\ open[i - 1] = "object"
  /\ \A i \in 1 .. Len(open) :
       open[i] = "object" /\ (i = Len(open) \/ open[i + 1] = "object") => path[d[i]].index = -1

\* A step of the way, or a level, with another index or name; the way in list[]; a text
\* whose last token was a leaf.
WithIndex(path, x) == [path EXCEPT ![Len(path)]["index"] = x]
WithName(path, string) == [path EXCEPT ![Len(path)]["name"] = string]
LevelIndex(list, level, x) == [list EXCEPT ![level].index = x]
LevelName(list, level, string) == [list EXCEPT ![level].name = string]
WayIn(list, level) == [i \in 1 .. level |-> list[i - 1]]
LeafText(open, path, awaits) == [Text(open, path, awaits) EXCEPT !.leaf = path]

\* The calls in progress: one for each object and array that is open, which expects
\* what may follow, and a new one for a value.
JsonCall == [expects : SUBSET {"name", "colon", "array", "object"}, arr : BOOLEAN, obj : BOOLEAN]
OpenCall(kind, expected) ==
  IF kind = "object" THEN [expects |-> {expected}, arr |-> FALSE, obj |-> TRUE]
                     ELSE [expects |-> {expected}, arr |-> TRUE, obj |-> FALSE]
CallsFit(calls, open, awaits) ==
  /\ calls \in Seq(JsonCall)
  /\ Len(calls) = IF awaits = "value" THEN Len(open) + 1 ELSE Len(open)
  /\ awaits = "value" => calls[Len(open) + 1] = NewCall
  /\ awaits # "value" => Len(open) > 0
  /\ awaits \in {"name", "colon"} => open[Len(open)] = "object"
  /\ \A i \in 1 .. Len(open) :
       calls[i] = OpenCall(open[i],
                    IF i = Len(open) /\ awaits \in {"name", "colon"} THEN awaits ELSE open[i])

\* The levels: list[] has the way to the next value, but for a name still to come,
\* and no index behind it.
LevelsFit(list, level, path, awaits) ==
  /\ list \in [Level -> JsonStep]
  /\ level = IF awaits = "value" THEN Len(path) ELSE Len(path) - 1
  /\ \A i \in 1 .. Len(path) :
       /\ list[i - 1].index = path[i].index
       /\ i < Len(path) \/ awaits # "name" => list[i - 1].name = path[i].name
  /\ \A i \in Level : i >= Len(path) => list[i].index = -1

JsonFits ==
  /\ jText.awaits \in {"value", "name", "colon", "separator"}
  /\ jState = "reading" /\ jLeaf = jText.leaf
  /\ CallsFit(jCalls, jText.open, jText.awaits)
  /\ LevelsFit(jList, jLevel, jText.path, jText.awaits)
  /\ \E d : Nested(jText.open, jText.path, d)
JsonInv ==
  \/ jText.awaits = "anything"
  \/ Complete(jText) /\ jState \in {"done", "accepted"} /\ jLeaf = jText.leaf
  \/ JsonFits

\* What nulled keeps where a text is followed: nothing another text left there, and
\* nothing at all behind a value that white space may follow.
NulledFits ==
  /\ jText.awaits # "anything" /\ jState = "reading" => jNulled \notin Token
  /\ jText.awaits = "nothing" /\ jState = "done" => jNulled = "none"

\* One more object or array is one more call of rim_json_new().
LEMMA DepthsLonger ==
  ASSUME NEW open \in Seq({"object", "array"}), NEW d, Depths(d, open),
         NEW kind \in {"object", "array"}
  PROVE  \E e : /\ Depths(e, Append(open, kind))
                /\ \A i \in 0 .. Len(open) : e[i] = d[i]
                /\ e[Len(open) + 1] = IF kind = "object" THEN d[Len(open)] + 1 ELSE d[Len(open)]
<1> DEFINE n == Len(open)
           more == Append(open, kind)
           e == [i \in 0 .. n + 1 |->
                   IF i = n + 1 THEN IF kind = "object" THEN d[n] + 1 ELSE d[n] ELSE d[i]]
<1>1. /\ n \in Nat /\ Len(more) = n + 1 /\ more[n + 1] = kind
      /\ \A i \in 1 .. n : more[i] = open[i]
  OBVIOUS
<1>2. /\ d \in [0 .. n -> Nat] /\ d[0] = 0
      /\ \A i \in 0 .. n : d[i] <= i /\ d[i] \in Nat
      /\ \A i, j \in 0 .. n : i <= j => d[i] <= d[j]
      /\ \A i \in 1 .. n : d[i] = IF open[i] = "object" THEN d[i - 1] + 1 ELSE d[i - 1]
  BY DEF Depths
<1> HIDE DEF n, more
<1>3. \A i \in 0 .. n : e[i] = d[i] /\ i \in 0 .. n + 1 /\ i # n + 1
  BY <1>1
<1>4. e[n + 1] = (IF kind = "object" THEN d[n] + 1 ELSE d[n]) /\ n \in 0 .. n /\ 0 \in 0 .. n
  BY <1>1
<1>5. d[n] \in Nat /\ d[n] <= n /\ e[n + 1] \in Nat /\ d[n] <= e[n + 1] /\ e[n + 1] <= n + 1
  BY <1>1, <1>2, <1>4
<1>6. e \in [0 .. n + 1 -> Nat]
  BY <1>1, <1>2, <1>5
<1> HIDE DEF e
<1>7. \A i \in 0 .. n + 1 : i \in 0 .. n \/ i = n + 1
  BY <1>1
<1>8. \A i \in 0 .. n + 1 : e[i] <= i
  BY <1>2, <1>3, <1>5, <1>7
<1>9. ASSUME NEW i \in 0 .. n + 1, NEW j \in 0 .. n + 1, i <= j PROVE e[i] <= e[j]
  <2>1. CASE j = n + 1
    <3>1. CASE i = n + 1
      BY <1>5, <2>1, <3>1
    <3>2. CASE i \in 0 .. n
      <4>1. d[i] <= d[n] /\ d[i] \in Nat
        BY <1>2, <1>4, <3>2
      <4> QED
        BY <1>3, <1>5, <2>1, <3>2, <4>1
    <3> QED
      BY <1>7, <3>1, <3>2
  <2>2. CASE j \in 0 .. n
    <3>1. i \in 0 .. n
      BY <1>1, <1>9, <2>2
    <3> QED
      BY <1>2, <1>3, <1>9, <2>2, <3>1
  <2> QED
    BY <1>7, <2>1, <2>2
<1>10. ASSUME NEW i \in 1 .. n + 1
       PROVE  e[i] = IF more[i] = "object" THEN e[i - 1] + 1 ELSE e[i - 1]
  <2>1. i - 1 \in 0 .. n /\ e[i - 1] = d[i - 1]
    BY <1>1, <1>3
  <2>2. CASE i = n + 1
    BY <1>1, <1>4, <2>1, <2>2
  <2>3. CASE i \in 1 .. n
    <3>1. more[i] = open[i] /\ e[i] = d[i]
      BY <1>1, <1>3, <2>3
    <3> QED
      BY <1>2, <2>1, <2>3, <3>1
  <2> QED
    BY <1>1, <2>2, <2>3
<1>11. e[0] = 0
  BY <1>2, <1>3, <1>4
<1>12. Depths(e, more)
  BY <1>1, <1>6, <1>8, <1>9, <1>10, <1>11 DEF Depths
<1> QED
  BY <1>3, <1>4, <1>12 DEF n, more

\* What Up leaves of a sequence.
LEMMA UpIs ==
  ASSUME NEW S, NEW s \in Seq(S), s # <<>>
  PROVE  /\ Up(s) \in Seq(S) /\ Len(Up(s)) = Len(s) - 1 /\ Len(s) \in Nat /\ Len(s) >= 1
         /\ \A i \in 1 .. Len(s) - 1 : Up(s)[i] = s[i]
<1>1. Len(s) \in Nat /\ Len(s) >= 1
  OBVIOUS
<1>2. Up(s) \in Seq(S)
  BY <1>1 DEF Up
<1>3. Len(Up(s)) = Len(s) - 1
  BY <1>1 DEF Up
<1>4. \A i \in 1 .. Len(s) - 1 : Up(s)[i] = s[i]
  BY <1>1 DEF Up
<1> QED
  BY <1>1, <1>2, <1>3, <1>4

\* Nothing is left when the last one ends.
LEMMA UpLeaves ==
  ASSUME NEW S, NEW s \in Seq(S), s # <<>>
  PROVE  \/ Up(s) = <<>> /\ Len(s) = 1
         \/ Up(s) # <<>> /\ Len(s) > 1 /\ Len(s) # 1
<1>1. Up(s) \in Seq(S) /\ Len(Up(s)) = Len(s) - 1 /\ Len(s) \in Nat /\ Len(s) >= 1
  BY UpIs
<1>2. \A r \in Seq(S) : r = <<>> <=> Len(r) = 0
  OBVIOUS
<1>3. Up(s) = <<>> <=> Len(Up(s)) = 0
  BY <1>1, <1>2
<1> QED
  BY <1>1, <1>3

\* Something is left when the last one is in another.
LEMMA UpLeavesMore ==
  ASSUME NEW S, NEW s \in Seq(S), Len(s) > 1
  PROVE  Up(s) # <<>> /\ Len(s) # 1
<1>1. Len(s) \in Nat /\ s # <<>>
  OBVIOUS
<1>2. \A n \in Nat : n > 1 => n # 1
  OBVIOUS
<1>3. Len(s) # 1
  BY <1>1, <1>2
<1> QED
  BY <1>1, <1>3, UpLeaves

\* An object or array that ends is one call less.
LEMMA DepthsShorter ==
  ASSUME NEW open \in Seq({"object", "array"}), NEW d, Depths(d, open), open # <<>>
  PROVE  \E e : Depths(e, Up(open)) /\ \A i \in 0 .. Len(open) - 1 : e[i] = d[i]
<1> DEFINE n == Len(open)
           less == Up(open)
           e == [i \in 0 .. n - 1 |-> d[i]]
<1>1. /\ n \in Nat /\ n >= 1 /\ Len(less) = n - 1
      /\ \A i \in 1 .. n - 1 : less[i] = open[i]
  BY UpIs
<1>2. /\ d \in [0 .. n -> Nat] /\ d[0] = 0
      /\ \A i \in 0 .. n : d[i] <= i /\ d[i] \in Nat
      /\ \A i, j \in 0 .. n : i <= j => d[i] <= d[j]
      /\ \A i \in 1 .. n : d[i] = IF open[i] = "object" THEN d[i - 1] + 1 ELSE d[i - 1]
  BY DEF Depths
<1> HIDE DEF n, less
<1>3. \A i \in 0 .. n - 1 : e[i] = d[i] /\ i \in 0 .. n
  BY <1>1
<1>4. e \in [0 .. n - 1 -> Nat]
  BY <1>2, <1>3
<1>5. 0 \in 0 .. n - 1
  BY <1>1
<1> HIDE DEF e
<1>6. e[0] = 0 /\ \A i \in 0 .. n - 1 : e[i] <= i
  BY <1>2, <1>3, <1>5
<1>7. \A i, j \in 0 .. n - 1 : i <= j => e[i] <= e[j]
  BY <1>2, <1>3
<1>8. ASSUME NEW i \in 1 .. n - 1
      PROVE  e[i] = IF less[i] = "object" THEN e[i - 1] + 1 ELSE e[i - 1]
  <2>1. i - 1 \in 0 .. n - 1 /\ i \in 0 .. n - 1 /\ i \in 1 .. n
    BY <1>1
  <2>2. e[i] = d[i] /\ e[i - 1] = d[i - 1] /\ less[i] = open[i]
    BY <1>1, <1>3, <2>1
  <2> QED
    BY <1>2, <2>1, <2>2
<1>9. Depths(e, less)
  BY <1>1, <1>4, <1>6, <1>7, <1>8 DEF Depths
<1> QED
  BY <1>3, <1>9 DEF n, less

\* The way to the next value is never longer than the objects and arrays that are open,
\* and inside of one there is a last step of it.
LEMMA NestedIs ==
  ASSUME NEW open, NEW path, NEW d, Nested(open, path, d)
  PROVE  /\ Len(open) \in Nat /\ Len(open) <= JsonNested - 2
         /\ Len(path) \in Nat /\ Len(path) = d[Len(open)] /\ Len(path) <= Len(open)
         /\ Len(open) > 0 => Len(path) > 0
<1> DEFINE n == Len(open)
<1>1. /\ n \in Nat /\ n <= JsonNested - 2 /\ Len(path) = d[n] /\ Len(path) \in Nat
      /\ open \in Seq({"object", "array"})
      /\ open[1] = "array" /\ n >= 1 => FALSE
  BY JsonAssumption DEF Nested
<1>2. /\ d \in [0 .. n -> Nat] /\ d[0] = 0
      /\ \A i \in 0 .. n : d[i] <= i
      /\ \A i, j \in 0 .. n : i <= j => d[i] <= d[j]
      /\ \A i \in 1 .. n : d[i] = IF open[i] = "object" THEN d[i - 1] + 1 ELSE d[i - 1]
  BY DEF Nested, Depths
<1>3. n \in 0 .. n
  BY <1>1
<1>4. ASSUME n > 0 PROVE d[n] > 0
  <2>1. 1 \in 1 .. n /\ 1 \in 0 .. n /\ 1 - 1 = 0
    BY <1>1, <1>4
  <2>2. open[1] = "object"
    BY <1>1, <1>4
  <2>3. d[1] = d[0] + 1
    BY <1>2, <2>1, <2>2
  <2>4. d[1] <= d[n]
    BY <1>2, <1>3, <1>4, <2>1
  <2> QED
    BY <1>1, <1>2, <2>3, <2>4
<1> QED
  BY <1>1, <1>2, <1>3, <1>4

\* How deep an object is: a step below all that is outside of it.
LEMMA ObjectIsDeeper ==
  ASSUME NEW open, NEW path, NEW d, Nested(open, path, d),
         NEW i \in 1 .. Len(open), open[i] = "object"
  PROVE  /\ d[i] \in Nat /\ d[i - 1] \in Nat /\ d[i] = d[i - 1] + 1 /\ d[i] <= Len(path)
         /\ \A j \in 0 .. i - 1 : d[j] \in Nat /\ d[j] < d[i]
<1>1. Len(open) \in Nat /\ Len(path) = d[Len(open)]
  BY NestedIs
<1>2. /\ d \in [0 .. Len(open) -> Nat]
      /\ \A j, k \in 0 .. Len(open) : j <= k => d[j] <= d[k]
      /\ d[i] = d[i - 1] + 1
  BY DEF Nested, Depths
<1>3. i \in 0 .. Len(open) /\ i - 1 \in 0 .. Len(open) /\ Len(open) \in 0 .. Len(open) /\ i <= Len(open)
  BY <1>1
<1>4. d[i] \in Nat /\ d[i - 1] \in Nat /\ d[i] <= Len(path)
  BY <1>1, <1>2, <1>3
<1>5. ASSUME NEW j \in 0 .. i - 1 PROVE d[j] \in Nat /\ d[j] < d[i]
  <2>1. j \in 0 .. Len(open) /\ j <= i - 1
    BY <1>1, <1>3
  <2>2. d[j] \in Nat /\ d[j] <= d[i - 1]
    BY <1>2, <1>3, <2>1
  <2> QED
    BY <1>2, <1>4, <2>2
<1> QED
  BY <1>2, <1>4, <1>5

\* What the way is with another index at its end.
LEMMA WithIndexIs ==
  ASSUME NEW path \in Seq(JsonStep), path # <<>>, NEW x \in Int
  PROVE  /\ WithIndex(path, x) \in Seq(JsonStep) /\ Len(WithIndex(path, x)) = Len(path)
         /\ \A i \in 1 .. Len(path) - 1 : WithIndex(path, x)[i] = path[i]
         /\ WithIndex(path, x)[Len(path)].index = x
         /\ WithIndex(path, x)[Len(path)].name = path[Len(path)].name
<1> DEFINE y == [path[Len(path)] EXCEPT !["index"] = x]
<1>1. Len(path) \in Nat /\ Len(path) >= 1 /\ path[Len(path)] \in JsonStep
  OBVIOUS
<1>2. y \in JsonStep /\ y.index = x /\ y.name = path[Len(path)].name
  BY <1>1 DEF JsonStep
<1>3. WithIndex(path, x) = [path EXCEPT ![Len(path)] = y]
  BY <1>1 DEF WithIndex
<1> HIDE DEF y
<1>4. LET onto == [path EXCEPT ![Len(path)] = y] IN
      /\ onto \in Seq(JsonStep) /\ Len(onto) = Len(path)
      /\ \A i \in 1 .. Len(path) - 1 : onto[i] = path[i]
      /\ onto[Len(path)] = y
  BY <1>1, <1>2
<1> QED
  BY <1>2, <1>3, <1>4

\* What the way is with another name at its end.
LEMMA WithNameIs ==
  ASSUME NEW path \in Seq(JsonStep), path # <<>>, NEW x \in JsonString
  PROVE  /\ WithName(path, x) \in Seq(JsonStep) /\ Len(WithName(path, x)) = Len(path)
         /\ \A i \in 1 .. Len(path) - 1 : WithName(path, x)[i] = path[i]
         /\ WithName(path, x)[Len(path)].name = x
         /\ WithName(path, x)[Len(path)].index = path[Len(path)].index
<1> DEFINE y == [path[Len(path)] EXCEPT !["name"] = x]
<1>1. Len(path) \in Nat /\ Len(path) >= 1 /\ path[Len(path)] \in JsonStep
  OBVIOUS
<1>2. y \in JsonStep /\ y.name = x /\ y.index = path[Len(path)].index
  BY <1>1 DEF JsonStep
<1>3. WithName(path, x) = [path EXCEPT ![Len(path)] = y]
  BY <1>1 DEF WithName
<1> HIDE DEF y
<1>4. LET onto == [path EXCEPT ![Len(path)] = y] IN
      /\ onto \in Seq(JsonStep) /\ Len(onto) = Len(path)
      /\ \A i \in 1 .. Len(path) - 1 : onto[i] = path[i]
      /\ onto[Len(path)] = y
  BY <1>1, <1>2
<1> QED
  BY <1>2, <1>3, <1>4

\* A name, and the index of the next value of an array, change the last step of the way.
LEMMA StepOfTheWay ==
  ASSUME NEW open, NEW path, NEW d, Nested(open, path, d), Len(open) > 0,
         NEW onto \in Seq(JsonStep), Len(onto) = Len(path),
         \A i \in 1 .. Len(path) - 1 : onto[i] = path[i],
         open[Len(open)] = "object" => onto[Len(path)].index = -1
  PROVE  Nested(open, onto, d)
<1> DEFINE n == Len(open)
<1>1. /\ n \in Nat /\ Len(path) = d[n] /\ Len(path) \in Nat /\ Len(path) > 0
      /\ open \in Seq({"object", "array"})
  BY NestedIs DEF Nested
<1>2. ASSUME NEW i \in 1 .. n, open[i] = "object", i = n \/ open[i + 1] = "object"
      PROVE  onto[d[i]].index = -1
  <2>1. path[d[i]].index = -1
    BY <1>2 DEF Nested
  <2>2. d[i] \in Nat /\ d[i] > 0 /\ d[i] <= Len(path)
    <3>1. d[i] \in Nat /\ d[i - 1] \in Nat /\ d[i] = d[i - 1] + 1 /\ d[i] <= Len(path)
      BY <1>2, ObjectIsDeeper
    <3> QED
      BY <3>1
  <2>3. CASE i = n
    BY <1>1, <1>2, <2>3
  <2>4. CASE i # n
    <3>1. i + 1 \in 1 .. n /\ open[i + 1] = "object" /\ i \in 0 .. (i + 1) - 1
      BY <1>1, <1>2, <2>4
    <3>2. d[i] < d[i + 1] /\ d[i + 1] <= Len(path) /\ d[i + 1] \in Nat
      BY <3>1, ObjectIsDeeper
    <3>3. d[i] \in 1 .. Len(path) - 1
      BY <1>1, <2>2, <3>2
    <3> QED
      BY <2>1, <3>3
  <2> QED
    BY <2>3, <2>4
<1> QED
  BY <1>2 DEF Nested

\* An object begins.
LEMMA ObjectOpens ==
  ASSUME NEW open, NEW path, NEW d, Nested(open, path, d), Len(open) # JsonNested - 2
  PROVE  \E e : Nested(Append(open, "object"), Append(path, [name |-> JsonNoName, index |-> -1]), e)
<1> DEFINE n == Len(open)
           m == Len(path)
           first == [name |-> JsonNoName, index |-> -1]
           more == Append(open, "object")
           way == Append(path, first)
<1>1. /\ n \in Nat /\ n < JsonNested - 2 /\ m = d[n] /\ m \in Nat
      /\ open \in Seq({"object", "array"}) /\ path \in Seq(JsonStep) /\ Depths(d, open)
  BY NestedIs, JsonAssumption DEF Nested
<1>2. PICK e : /\ Depths(e, more)
               /\ \A i \in 0 .. n : e[i] = d[i]
               /\ e[n + 1] = d[n] + 1
  BY <1>1, DepthsLonger
<1>3. first \in JsonStep /\ first.index = -1
  BY DEF JsonStep
<1> HIDE DEF first
<1>4. /\ more \in Seq({"object", "array"}) /\ Len(more) = n + 1 /\ more[n + 1] = "object"
      /\ \A i \in 1 .. n : more[i] = open[i]
      /\ way \in Seq(JsonStep) /\ Len(way) = m + 1 /\ way[m + 1] = first
      /\ \A i \in 1 .. m : way[i] = path[i]
  BY <1>1, <1>3
<1> HIDE DEF n, m, more, way
<1>5. ASSUME NEW i \in 1 .. n + 1, more[i] = "array" PROVE i > 1 /\ more[i - 1] = "object"
  <2>1. i \in 1 .. n /\ open[i] = "array"
    BY <1>1, <1>4, <1>5
  <2>2. i > 1 /\ open[i - 1] = "object"
    BY <2>1 DEF Nested, n
  <2> QED
    BY <1>1, <1>4, <2>1, <2>2
<1>6. ASSUME NEW i \in 1 .. n + 1, more[i] = "object", i = n + 1 \/ more[i + 1] = "object"
      PROVE  way[e[i]].index = -1
  <2>1. CASE i = n + 1
    BY <1>1, <1>2, <1>3, <1>4, <2>1
  <2>2. CASE i # n + 1
    <3>1. i \in 1 .. n /\ i \in 0 .. n /\ open[i] = "object" /\ (i = n \/ open[i + 1] = "object")
      BY <1>1, <1>4, <1>6, <2>2
    <3>2. d[i] \in Nat /\ d[i - 1] \in Nat /\ d[i] = d[i - 1] + 1 /\ d[i] <= m
      BY <3>1, ObjectIsDeeper DEF n, m
    <3>3. d[i] \in 1 .. m /\ e[i] = d[i]
      BY <1>1, <1>2, <3>1, <3>2
    <3>4. path[d[i]].index = -1
      BY <3>1 DEF Nested, n
    <3> QED
      BY <1>4, <3>3, <3>4
  <2> QED
    BY <2>1, <2>2
<1>7. n + 1 <= JsonNested - 2 /\ Len(way) = e[n + 1]
  BY <1>1, <1>2, <1>4, JsonAssumption
<1>8. Nested(more, way, e)
  BY <1>2, <1>4, <1>5, <1>6, <1>7 DEF Nested
<1> QED
  BY <1>8 DEF more, way, first

\* An array begins, as the value of a name.
LEMMA ArrayOpens ==
  ASSUME NEW open, NEW path, NEW d, Nested(open, path, d), Len(open) # JsonNested - 2,
         Len(open) > 0, open[Len(open)] = "object",
         NEW onto \in Seq(JsonStep), Len(onto) = Len(path),
         \A i \in 1 .. Len(path) - 1 : onto[i] = path[i]
  PROVE  \E e : Nested(Append(open, "array"), onto, e)
<1> DEFINE n == Len(open)
           m == Len(path)
           more == Append(open, "array")
<1>1. /\ n \in Nat /\ n < JsonNested - 2 /\ m = d[n] /\ m \in Nat
      /\ open \in Seq({"object", "array"}) /\ Depths(d, open)
  BY NestedIs, JsonAssumption DEF Nested
<1>2. PICK e : /\ Depths(e, more)
               /\ \A i \in 0 .. n : e[i] = d[i]
               /\ e[n + 1] = d[n]
  BY <1>1, DepthsLonger
<1>4. /\ more \in Seq({"object", "array"}) /\ Len(more) = n + 1 /\ more[n + 1] = "array"
      /\ \A i \in 1 .. n : more[i] = open[i]
      /\ n \in 1 .. n /\ open[n] = "object" /\ Len(onto) = m
      /\ \A i \in 1 .. m - 1 : onto[i] = path[i]
  BY <1>1
<1> HIDE DEF n, m, more
<1>5. ASSUME NEW i \in 1 .. n + 1, more[i] = "array" PROVE i > 1 /\ more[i - 1] = "object"
  <2>1. CASE i = n + 1
    BY <1>1, <1>4, <2>1
  <2>2. CASE i # n + 1
    <3>1. i \in 1 .. n /\ open[i] = "array"
      BY <1>1, <1>4, <1>5, <2>2
    <3>2. i > 1 /\ open[i - 1] = "object"
      BY <3>1 DEF Nested, n
    <3> QED
      BY <1>1, <1>4, <3>1, <3>2
  <2> QED
    BY <2>1, <2>2
<1>6. ASSUME NEW i \in 1 .. n + 1, more[i] = "object", i = n + 1 \/ more[i + 1] = "object"
      PROVE  onto[e[i]].index = -1
  <2>1. i \in 1 .. n /\ i # n + 1
    BY <1>1, <1>4, <1>6
  <2>2. i # n
    BY <1>1, <1>4, <1>6, <2>1
  <2>3. /\ open[i] = "object" /\ open[i + 1] = "object"
        /\ i \in 0 .. n - 1 /\ i \in 0 .. n
    BY <1>1, <1>4, <1>6, <2>1, <2>2
  <2>4. d[i] \in Nat /\ d[i - 1] \in Nat /\ d[i] = d[i - 1] + 1
    BY <2>1, <2>3, ObjectIsDeeper DEF n
  <2>5. d[i] < d[n]
    <3>1. \A j \in 0 .. n - 1 : d[j] < d[n]
      BY <1>4, ObjectIsDeeper DEF n
    <3> QED
      BY <2>3, <3>1
  <2>6. d[i] \in 1 .. m - 1 /\ e[i] = d[i]
    BY <1>1, <1>2, <2>3, <2>4, <2>5
  <2>7. path[d[i]].index = -1
    BY <2>1, <2>3 DEF Nested, n
  <2> QED
    BY <1>4, <2>6, <2>7
<1>7. n + 1 <= JsonNested - 2 /\ Len(onto) = e[n + 1]
  BY <1>1, <1>2, <1>4, JsonAssumption
<1>8. Nested(more, onto, e)
  BY <1>2, <1>4, <1>5, <1>6, <1>7 DEF Nested
<1> QED
  BY <1>8 DEF more

\* An object ends.
LEMMA ObjectCloses ==
  ASSUME NEW open, NEW path, NEW d, Nested(open, path, d),
         Len(open) > 0, open[Len(open)] = "object"
  PROVE  /\ path[Len(path)].index = -1
         /\ \E e : Nested(Up(open), Up(path), e)
<1> DEFINE n == Len(open)
           m == Len(path)
           less == Up(open)
           way == Up(path)
<1>1. /\ n \in Nat /\ n > 0 /\ n <= JsonNested - 2 /\ m = d[n] /\ m \in Nat /\ m > 0
      /\ open \in Seq({"object", "array"}) /\ path \in Seq(JsonStep) /\ Depths(d, open)
  BY NestedIs DEF Nested
<1>2. PICK e : Depths(e, less) /\ \A i \in 0 .. n - 1 : e[i] = d[i]
  BY <1>1, DepthsShorter
<1>3. open # <<>> /\ path # <<>>
  BY <1>1
<1>4. /\ less \in Seq({"object", "array"}) /\ Len(less) = n - 1
      /\ \A i \in 1 .. n - 1 : less[i] = open[i]
      /\ way \in Seq(JsonStep) /\ Len(way) = m - 1
      /\ \A i \in 1 .. m - 1 : way[i] = path[i]
  BY <1>1, <1>3, UpIs
<1>5. n \in 1 .. n /\ open[n] = "object" /\ d[n] = d[n - 1] + 1 /\ n - 1 \in 0 .. n - 1
  BY <1>1, ObjectIsDeeper
<1>6. path[m].index = -1
  BY <1>1, <1>5 DEF Nested
<1> HIDE DEF n, m, less, way
<1>7. ASSUME NEW i \in 1 .. n - 1, less[i] = "array" PROVE i > 1 /\ less[i - 1] = "object"
  <2>1. i \in 1 .. n /\ open[i] = "array"
    BY <1>1, <1>4, <1>7
  <2>2. i > 1 /\ open[i - 1] = "object"
    BY <2>1 DEF Nested, n
  <2> QED
    BY <1>1, <1>4, <2>1, <2>2
<1>8. ASSUME NEW i \in 1 .. n - 1, less[i] = "object", i = n - 1 \/ less[i + 1] = "object"
      PROVE  way[e[i]].index = -1
  <2>1. /\ i \in 1 .. n /\ i \in 0 .. n - 1 /\ open[i] = "object" /\ open[i + 1] = "object"
    <3>1. i \in 1 .. n /\ i \in 0 .. n - 1 /\ open[i] = "object"
      BY <1>1, <1>4, <1>8
    <3>2. CASE i = n - 1
      <4>1. i + 1 = n
        BY <1>1, <3>2
      <4> QED
        BY <1>5, <3>1, <4>1
    <3>3. CASE i # n - 1
      <4>1. i + 1 \in 1 .. n - 1
        BY <1>1, <3>3
      <4> QED
        BY <1>4, <1>8, <3>1, <3>3, <4>1
    <3> QED
      BY <3>2, <3>3
  <2>2. d[i] \in Nat /\ d[i - 1] \in Nat /\ d[i] = d[i - 1] + 1
    BY <2>1, ObjectIsDeeper DEF n
  <2>3. d[i] < d[n]
    <3>1. \A j \in 0 .. n - 1 : d[j] < d[n]
      BY <1>5, ObjectIsDeeper DEF n
    <3> QED
      BY <2>1, <3>1
  <2>4. d[i] \in 1 .. m - 1 /\ e[i] = d[i]
    BY <1>1, <1>2, <2>1, <2>2, <2>3
  <2>5. path[d[i]].index = -1
    BY <2>1 DEF Nested, n
  <2> QED
    BY <1>4, <2>4, <2>5
<1>9. n - 1 <= JsonNested - 2 /\ Len(way) = e[n - 1]
  <2>1. d[n - 1] \in Nat
    BY <1>5, ObjectIsDeeper DEF n
  <2> QED
    BY <1>1, <1>2, <1>4, <1>5, <2>1, JsonAssumption
<1>10. Nested(less, way, e)
  BY <1>2, <1>4, <1>7, <1>8, <1>9 DEF Nested
<1> QED
  BY <1>6, <1>10 DEF less, way, m

\* An array ends, and the name whose value it is has no index any more.
LEMMA ArrayCloses ==
  ASSUME NEW open, NEW path, NEW d, Nested(open, path, d),
         Len(open) > 0, open[Len(open)] = "array",
         NEW onto \in Seq(JsonStep), Len(onto) = Len(path), onto[Len(path)].index = -1,
         \A i \in 1 .. Len(path) - 1 : onto[i] = path[i]
  PROVE  Len(open) > 1 /\ \E e : Nested(Up(open), onto, e)
<1> DEFINE n == Len(open)
           m == Len(path)
           less == Up(open)
<1>1. /\ n \in Nat /\ n > 0 /\ n <= JsonNested - 2 /\ m = d[n] /\ m \in Nat /\ m > 0
      /\ open \in Seq({"object", "array"}) /\ Depths(d, open)
  BY NestedIs DEF Nested
<1>2. PICK e : Depths(e, less) /\ \A i \in 0 .. n - 1 : e[i] = d[i]
  BY <1>1, DepthsShorter
<1>3. open # <<>>
  BY <1>1
<1>4. /\ less \in Seq({"object", "array"}) /\ Len(less) = n - 1
      /\ \A i \in 1 .. n - 1 : less[i] = open[i]
      /\ Len(onto) = m /\ \A i \in 1 .. m - 1 : onto[i] = path[i]
  BY <1>1, <1>3, UpIs
<1>5. n \in 1 .. n /\ open[n] = "array" /\ n > 1 /\ open[n - 1] = "object"
  BY <1>1 DEF Nested
<1>6. d[n] = d[n - 1] /\ n - 1 \in 1 .. n /\ n - 1 \in 0 .. n - 1
  BY <1>1, <1>5 DEF Depths
<1> HIDE DEF n, m, less
<1>7. ASSUME NEW i \in 1 .. n - 1, less[i] = "array" PROVE i > 1 /\ less[i - 1] = "object"
  <2>1. i \in 1 .. n /\ open[i] = "array"
    BY <1>1, <1>4, <1>7
  <2>2. i > 1 /\ open[i - 1] = "object"
    BY <2>1 DEF Nested, n
  <2> QED
    BY <1>1, <1>4, <2>1, <2>2
<1>8. ASSUME NEW i \in 1 .. n - 1, less[i] = "object", i = n - 1 \/ less[i + 1] = "object"
      PROVE  onto[e[i]].index = -1
  <2>1. CASE i = n - 1
    BY <1>1, <1>2, <1>6, <2>1 DEF m
  <2>2. CASE i # n - 1
    <3>1. /\ i \in 1 .. n /\ i \in 0 .. n - 1 /\ i \in 0 .. (n - 1) - 1
          /\ open[i] = "object" /\ open[i + 1] = "object"
      BY <1>1, <1>4, <1>8, <2>2
    <3>2. d[i] \in Nat /\ d[i - 1] \in Nat /\ d[i] = d[i - 1] + 1
      BY <3>1, ObjectIsDeeper DEF n
    <3>3. d[i] < d[n - 1]
      <4>1. \A j \in 0 .. (n - 1) - 1 : d[j] < d[n - 1]
        BY <1>5, <1>6, ObjectIsDeeper DEF n
      <4> QED
        BY <3>1, <4>1
    <3>4. d[i] \in 1 .. m - 1 /\ e[i] = d[i]
      BY <1>1, <1>2, <1>6, <3>1, <3>2, <3>3
    <3>5. path[d[i]].index = -1
      BY <3>1 DEF Nested, n
    <3> QED
      BY <1>4, <3>4, <3>5
  <2> QED
    BY <2>1, <2>2
<1>9. n - 1 <= JsonNested - 2 /\ Len(onto) = e[n - 1]
  BY <1>1, <1>2, <1>4, <1>6, JsonAssumption
<1>10. Nested(less, onto, e)
  BY <1>2, <1>4, <1>7, <1>8, <1>9 DEF Nested
<1> QED
  BY <1>5, <1>10 DEF less, n

\* A new call reads an object: it gets the name next.
LEMMA CallReadsObject ==
  ASSUME NEW open \in Seq({"object", "array"}), NEW calls, CallsFit(calls, open, "value")
  PROVE  CallsFit([calls EXCEPT ![Len(calls)] = OpenCall("object", "name")],
                  Append(open, "object"), "name")
<1> DEFINE n == Len(open)
           more == Append(open, "object")
           call == OpenCall("object", "name")
           next == [calls EXCEPT ![Len(calls)] = call]
<1>1. /\ n \in Nat /\ calls \in Seq(JsonCall) /\ Len(calls) = n + 1
      /\ \A i \in 1 .. n : calls[i] = OpenCall(open[i], open[i])
  BY DEF CallsFit
<1>2. call \in JsonCall
  BY DEF OpenCall, JsonCall
<1> HIDE DEF call
<1>3. /\ next \in Seq(JsonCall) /\ Len(next) = n + 1 /\ next[n + 1] = call
      /\ \A i \in 1 .. n : next[i] = calls[i]
  BY <1>1, <1>2
<1>4. /\ Len(more) = n + 1 /\ more[n + 1] = "object" /\ \A i \in 1 .. n : more[i] = open[i]
  OBVIOUS
<1> HIDE DEF next, more, n
<1>5. ASSUME NEW i \in 1 .. Len(more)
      PROVE  next[i] = OpenCall(more[i], IF i = Len(more) THEN "name" ELSE more[i])
  <2>1. CASE i = n + 1
    BY <1>3, <1>4, <2>1 DEF call
  <2>2. CASE i # n + 1
    <3>1. i \in 1 .. n
      BY <1>1, <1>4, <2>2
    <3> QED
      BY <1>1, <1>3, <1>4, <2>2, <3>1
  <2> QED
    BY <2>1, <2>2
<1>6. CallsFit(next, more, "name")
  BY <1>1, <1>3, <1>4, <1>5 DEF CallsFit
<1> QED
  BY <1>6 DEF next, more, call

\* A new call reads an array, and makes a new one for its first value.
LEMMA CallReadsArray ==
  ASSUME NEW open \in Seq({"object", "array"}), NEW calls, CallsFit(calls, open, "value")
  PROVE  CallsFit(Append([calls EXCEPT ![Len(calls)] = OpenCall("array", "array")], NewCall),
                  Append(open, "array"), "value")
<1> DEFINE n == Len(open)
           more == Append(open, "array")
           call == OpenCall("array", "array")
           with == [calls EXCEPT ![Len(calls)] = call]
           next == Append(with, NewCall)
<1>1. /\ n \in Nat /\ calls \in Seq(JsonCall) /\ Len(calls) = n + 1
      /\ \A i \in 1 .. n : calls[i] = OpenCall(open[i], open[i])
  BY DEF CallsFit
<1>2. call \in JsonCall /\ NewCall \in JsonCall
  BY DEF OpenCall, JsonCall, NewCall
<1> HIDE DEF call
<1>3. /\ with \in Seq(JsonCall) /\ Len(with) = n + 1 /\ with[n + 1] = call
      /\ \A i \in 1 .. n : with[i] = calls[i]
  BY <1>1, <1>2
<1> HIDE DEF with
<1>4. /\ next \in Seq(JsonCall) /\ Len(next) = n + 2 /\ next[n + 2] = NewCall
      /\ \A i \in 1 .. n + 1 : next[i] = with[i]
  BY <1>1, <1>2, <1>3
<1>5. /\ Len(more) = n + 1 /\ more[n + 1] = "array" /\ \A i \in 1 .. n : more[i] = open[i]
  OBVIOUS
<1> HIDE DEF next, more, n
<1>6. ASSUME NEW i \in 1 .. Len(more) PROVE next[i] = OpenCall(more[i], more[i])
  <2>1. CASE i = n + 1
    BY <1>1, <1>3, <1>4, <1>5, <2>1 DEF call
  <2>2. CASE i # n + 1
    <3>1. i \in 1 .. n /\ i \in 1 .. n + 1
      BY <1>1, <1>5, <2>2
    <3> QED
      BY <1>1, <1>3, <1>4, <1>5, <3>1
  <2> QED
    BY <2>1, <2>2
<1>7. (n + 1) + 1 = n + 2
  BY <1>1
<1>8. CallsFit(next, more, "value")
  BY <1>4, <1>5, <1>6, <1>7 DEF CallsFit
<1> QED
  BY <1>8 DEF next, with, more, call

\* A call that has read a leaf returns to the one of the object or array it is in.
LEMMA CallReadsLeaf ==
  ASSUME NEW open \in Seq({"object", "array"}), NEW calls, CallsFit(calls, open, "value"),
         Len(open) > 0
  PROVE  CallsFit(Up(calls), open, "separator")
<1> DEFINE n == Len(open)
<1>1. /\ n \in Nat /\ calls \in Seq(JsonCall) /\ Len(calls) = n + 1 /\ calls # <<>>
      /\ \A i \in 1 .. n : calls[i] = OpenCall(open[i], open[i])
  BY DEF CallsFit
<1>2. /\ Up(calls) \in Seq(JsonCall) /\ Len(Up(calls)) = n
      /\ \A i \in 1 .. n : Up(calls)[i] = calls[i]
  BY <1>1, UpIs
<1> QED
  BY <1>1, <1>2 DEF CallsFit

\* The call of an object goes on with a name, and with the colon after it.
LEMMA CallGoesOn ==
  ASSUME NEW open \in Seq({"object", "array"}), NEW calls, Len(open) > 0,
         open[Len(open)] = "object",
         NEW awaits \in {"name", "separator"}, CallsFit(calls, open, awaits),
         NEW then \in {"name", "colon"}
  PROVE  CallsFit([calls EXCEPT ![Len(calls)] = OpenCall("object", then)], open, then)
<1> DEFINE n == Len(open)
           call == OpenCall("object", then)
           next == [calls EXCEPT ![Len(calls)] = call]
<1>1. /\ n \in Nat /\ calls \in Seq(JsonCall) /\ Len(calls) = n
      /\ \A i \in 1 .. n : i # n => calls[i] = OpenCall(open[i], open[i])
  BY DEF CallsFit
<1>2. call \in JsonCall
  BY DEF OpenCall, JsonCall
<1> HIDE DEF call
<1>3. /\ next \in Seq(JsonCall) /\ Len(next) = n /\ next[n] = call
      /\ \A i \in 1 .. n : i # n => next[i] = calls[i]
  BY <1>1, <1>2
<1>4. ASSUME NEW i \in 1 .. n
      PROVE  next[i] = OpenCall(open[i], IF i = n THEN then ELSE open[i])
  BY <1>1, <1>3 DEF call
<1> HIDE DEF next
<1>5. CallsFit(next, open, then)
  BY <1>3, <1>4 DEF CallsFit
<1> QED
  BY <1>5 DEF next, call

\* A call makes a new one, for the value of a name or the next one of an array.
LEMMA CallForValue ==
  ASSUME NEW open \in Seq({"object", "array"}), NEW calls, Len(open) > 0,
         NEW awaits \in {"colon", "separator"}, CallsFit(calls, open, awaits)
  PROVE  CallsFit(Append([calls EXCEPT ![Len(calls)] = OpenCall(open[Len(open)], open[Len(open)])],
                         NewCall), open, "value")
<1> DEFINE n == Len(open)
           call == OpenCall(open[n], open[n])
           with == [calls EXCEPT ![Len(calls)] = call]
           next == Append(with, NewCall)
<1>1. /\ n \in Nat /\ calls \in Seq(JsonCall) /\ Len(calls) = n
      /\ \A i \in 1 .. n : i # n => calls[i] = OpenCall(open[i], open[i])
  BY DEF CallsFit
<1>2. call \in JsonCall /\ NewCall \in JsonCall
  <2>1. open[n] \in {"object", "array"}
    BY <1>1
  <2> QED
    BY <2>1 DEF OpenCall, JsonCall, NewCall
<1> HIDE DEF call
<1>3. /\ with \in Seq(JsonCall) /\ Len(with) = n /\ with[n] = call
      /\ \A i \in 1 .. n : i # n => with[i] = calls[i]
  BY <1>1, <1>2
<1> HIDE DEF with
<1>4. /\ next \in Seq(JsonCall) /\ Len(next) = n + 1 /\ next[n + 1] = NewCall
      /\ \A i \in 1 .. n : next[i] = with[i]
  BY <1>1, <1>2, <1>3
<1> HIDE DEF next
<1>5. ASSUME NEW i \in 1 .. n PROVE next[i] = OpenCall(open[i], open[i])
  BY <1>1, <1>3, <1>4 DEF call
<1>6. CallsFit(next, open, "value")
  BY <1>4, <1>5 DEF CallsFit
<1> QED
  BY <1>6 DEF next, with, call

\* The call of an object or array that ends returns to the one of what that is in.
LEMMA CallOfEnded ==
  ASSUME NEW open \in Seq({"object", "array"}), NEW calls, CallsFit(calls, open, "separator"),
         Len(open) > 1
  PROVE  CallsFit(Up(calls), Up(open), "separator")
<1> DEFINE n == Len(open)
<1>1. /\ n \in Nat /\ calls \in Seq(JsonCall) /\ Len(calls) = n /\ calls # <<>> /\ open # <<>>
      /\ \A i \in 1 .. n : calls[i] = OpenCall(open[i], open[i])
  BY DEF CallsFit
<1>2. /\ Up(calls) \in Seq(JsonCall) /\ Len(Up(calls)) = n - 1
      /\ \A i \in 1 .. n - 1 : Up(calls)[i] = calls[i]
  BY <1>1, UpIs
<1>3. Len(Up(open)) = n - 1 /\ \A i \in 1 .. n - 1 : Up(open)[i] = open[i]
  BY <1>1, UpIs
<1>4. \A i \in 1 .. n - 1 : Up(calls)[i] = OpenCall(Up(open)[i], Up(open)[i])
  BY <1>1, <1>2, <1>3
<1> QED
  BY <1>1, <1>2, <1>3, <1>4 DEF CallsFit

\* The name to come is at the level after the way, and no index is left there.
LEMMA LevelOfObject ==
  ASSUME NEW path \in Seq(JsonStep), NEW list, NEW level, LevelsFit(list, level, path, "value"),
         Len(path) \in Level
  PROVE  LevelsFit(list, level, Append(path, [name |-> JsonNoName, index |-> -1]), "name")
<1> DEFINE m == Len(path)
           first == [name |-> JsonNoName, index |-> -1]
           way == Append(path, first)
<1>1. /\ m \in Nat /\ list \in [Level -> JsonStep] /\ level = m
      /\ \A i \in 1 .. m : list[i - 1].index = path[i].index /\ list[i - 1].name = path[i].name
      /\ \A i \in Level : i >= m => list[i].index = -1
  BY DEF LevelsFit
<1>2. first.index = -1
  OBVIOUS
<1> HIDE DEF first
<1>3. Len(way) = m + 1 /\ way[m + 1] = first /\ \A i \in 1 .. m : way[i] = path[i]
  OBVIOUS
<1> HIDE DEF way, m
<1>4. ASSUME NEW i \in 1 .. m + 1
      PROVE  /\ list[i - 1].index = way[i].index
             /\ i < m + 1 => list[i - 1].name = way[i].name
  <2>1. CASE i = m + 1
    <3>1. i - 1 = m /\ m \in Level /\ m >= m
      BY <1>1, <2>1 DEF m
    <3> QED
      BY <1>1, <1>2, <1>3, <2>1, <3>1
  <2>2. CASE i # m + 1
    <3>1. i \in 1 .. m
      BY <1>1, <2>2
    <3> QED
      BY <1>1, <1>3, <3>1
  <2> QED
    BY <2>1, <2>2
<1>5. level = (m + 1) - 1 /\ \A i \in Level : i >= m + 1 => i >= m
  BY <1>1 DEF Level
<1>6. LevelsFit(list, level, way, "name")
  BY <1>1, <1>3, <1>4, <1>5 DEF LevelsFit
<1> QED
  BY <1>6 DEF way, first

\* The last step of the way gets an index, or none.
LEMMA LevelOfIndex ==
  ASSUME NEW path \in Seq(JsonStep), NEW list, NEW level,
         NEW awaits \in {"value", "separator"}, LevelsFit(list, level, path, awaits),
         Len(path) > 0, Len(path) - 1 \in Level, NEW x \in Int,
         NEW onto \in Seq(JsonStep), Len(onto) = Len(path),
         onto[Len(path)].index = x, onto[Len(path)].name = path[Len(path)].name,
         \A i \in 1 .. Len(path) - 1 : onto[i] = path[i]
  PROVE  /\ LevelsFit(LevelIndex(list, Len(path) - 1, x), Len(path), onto, "value")
         /\ LevelsFit(LevelIndex(list, Len(path) - 1, x), Len(path) - 1, onto, "separator")
<1> DEFINE m == Len(path)
           step == [list[m - 1] EXCEPT !.index = x]
           next == LevelIndex(list, m - 1, x)
<1>1. /\ m \in Nat /\ list \in [Level -> JsonStep] /\ m - 1 \in Level
      /\ \A i \in 1 .. m : list[i - 1].index = path[i].index /\ list[i - 1].name = path[i].name
      /\ \A i \in Level : i >= m => list[i].index = -1
  BY DEF LevelsFit
<1>2. step \in JsonStep /\ step.index = x /\ step.name = list[m - 1].name
  BY <1>1 DEF JsonStep
<1>3. next = [list EXCEPT ![m - 1] = step]
  BY DEF LevelIndex
<1> HIDE DEF step
<1>4. /\ next \in [Level -> JsonStep] /\ next[m - 1] = step
      /\ \A i \in Level : i # m - 1 => next[i] = list[i]
  BY <1>1, <1>2, <1>3
<1> HIDE DEF next, m
<1>5. ASSUME NEW i \in 1 .. m
      PROVE  next[i - 1].index = onto[i].index /\ next[i - 1].name = onto[i].name
  <2>1. CASE i = m
    BY <1>1, <1>2, <1>4, <2>1 DEF m
  <2>2. CASE i # m
    <3>1. i \in 1 .. m - 1 /\ i - 1 \in Level /\ i - 1 # m - 1
      BY <1>1, <2>2, JsonAssumption DEF Level
    <3>2. onto[i] = path[i]
      BY <3>1 DEF m
    <3> QED
      BY <1>1, <1>4, <3>1, <3>2
  <2> QED
    BY <2>1, <2>2
<1>6. ASSUME NEW i \in Level, i >= m PROVE next[i].index = -1
  <2>1. i # m - 1
    BY <1>1, <1>6 DEF Level
  <2> QED
    BY <1>1, <1>4, <1>6, <2>1
<1>7. LevelsFit(next, m, onto, "value") /\ LevelsFit(next, m - 1, onto, "separator")
  BY <1>4, <1>5, <1>6 DEF LevelsFit, m
<1> QED
  BY <1>7 DEF next, m

\* The names and indexes a leaf gets are those on the way to it.
LEMMA LevelsOfLeaf ==
  ASSUME NEW path \in Seq(JsonStep), NEW list, NEW level, LevelsFit(list, level, path, "value"),
         Len(path) <= JsonNested - 2
  PROVE  /\ LevelsFit(list, level - 1, path, "separator")
         /\ WayIn(list, level) = path
<1> DEFINE m == Len(path)
<1>1. /\ m \in Nat /\ list \in [Level -> JsonStep] /\ level = m
      /\ \A i \in 1 .. m : list[i - 1].index = path[i].index /\ list[i - 1].name = path[i].name
      /\ \A i \in Level : i >= m => list[i].index = -1
  BY DEF LevelsFit
<1>2. LevelsFit(list, level - 1, path, "separator")
  BY <1>1 DEF LevelsFit
<1>3. ASSUME NEW i \in 1 .. m PROVE list[i - 1] = path[i]
  <2>1. i - 1 \in Level
    BY <1>1, JsonAssumption DEF Level
  <2>2. list[i - 1] \in JsonStep /\ path[i] \in JsonStep
    BY <1>1, <2>1
  <2>3. list[i - 1].index = path[i].index /\ list[i - 1].name = path[i].name
    BY <1>1
  <2> QED
    BY <2>2, <2>3 DEF JsonStep
<1>4. path = [i \in 1 .. m |-> path[i]]
  OBVIOUS
<1>5. WayIn(list, level) = path
  BY <1>1, <1>3, <1>4 DEF WayIn
<1> QED
  BY <1>2, <1>5

\* The last step of the way gets its name.
LEMMA LevelOfName ==
  ASSUME NEW path \in Seq(JsonStep), NEW list, NEW level, LevelsFit(list, level, path, "name"),
         Len(path) > 0, Len(path) - 1 \in Level, NEW string \in JsonString,
         NEW onto \in Seq(JsonStep), Len(onto) = Len(path),
         onto[Len(path)].name = string, onto[Len(path)].index = path[Len(path)].index,
         \A i \in 1 .. Len(path) - 1 : onto[i] = path[i]
  PROVE  LevelsFit(LevelName(list, level, string), level, onto, "colon")
<1> DEFINE m == Len(path)
           step == [list[level] EXCEPT !.name = string]
           next == LevelName(list, level, string)
<1>1. /\ m \in Nat /\ list \in [Level -> JsonStep] /\ m - 1 \in Level /\ level = m - 1
      /\ \A i \in 1 .. m : list[i - 1].index = path[i].index
      /\ \A i \in 1 .. m : i < m => list[i - 1].name = path[i].name
      /\ \A i \in Level : i >= m => list[i].index = -1
  BY DEF LevelsFit
<1>2. step \in JsonStep /\ step.name = string /\ step.index = list[m - 1].index
  BY <1>1 DEF JsonStep
<1>3. next = [list EXCEPT ![m - 1] = step]
  BY <1>1 DEF LevelName
<1> HIDE DEF step
<1>4. /\ next \in [Level -> JsonStep] /\ next[m - 1] = step
      /\ \A i \in Level : i # m - 1 => next[i] = list[i]
  BY <1>1, <1>2, <1>3
<1> HIDE DEF next, m
<1>5. ASSUME NEW i \in 1 .. m
      PROVE  next[i - 1].index = onto[i].index /\ next[i - 1].name = onto[i].name
  <2>1. CASE i = m
    BY <1>1, <1>2, <1>4, <2>1 DEF m
  <2>2. CASE i # m
    <3>1. i \in 1 .. m - 1 /\ i - 1 \in Level /\ i - 1 # m - 1 /\ i < m
      BY <1>1, <2>2, JsonAssumption DEF Level
    <3>2. onto[i] = path[i]
      BY <3>1 DEF m
    <3> QED
      BY <1>1, <1>4, <3>1, <3>2
  <2> QED
    BY <2>1, <2>2
<1>6. ASSUME NEW i \in Level, i >= m PROVE next[i].index = -1
  <2>1. i # m - 1
    BY <1>1, <1>6 DEF Level
  <2> QED
    BY <1>1, <1>4, <1>6, <2>1
<1>7. LevelsFit(next, level, onto, "colon")
  BY <1>1, <1>4, <1>5, <1>6 DEF LevelsFit, m
<1> QED
  BY <1>7 DEF next

\* An object that ends leaves no index at the level of its names.
LEMMA LevelOfEnded ==
  ASSUME NEW path \in Seq(JsonStep), NEW list, NEW level,
         LevelsFit(list, level, path, "separator"),
         Len(path) > 0, path[Len(path)].index = -1
  PROVE  LevelsFit(list, level - 1, Up(path), "separator")
<1> DEFINE m == Len(path)
<1>1. /\ m \in Nat /\ list \in [Level -> JsonStep] /\ level = m - 1
      /\ \A i \in 1 .. m : list[i - 1].index = path[i].index /\ list[i - 1].name = path[i].name
      /\ \A i \in Level : i >= m => list[i].index = -1
      /\ path # <<>>
  BY DEF LevelsFit
<1>2. Len(Up(path)) = m - 1 /\ \A i \in 1 .. m - 1 : Up(path)[i] = path[i]
  BY <1>1, UpIs
<1>3. ASSUME NEW i \in 1 .. m - 1
      PROVE  list[i - 1].index = Up(path)[i].index /\ list[i - 1].name = Up(path)[i].name
  BY <1>1, <1>2
<1>4. ASSUME NEW i \in Level, i >= m - 1 PROVE list[i].index = -1
  <2>1. CASE i = m - 1
    <3>1. m \in 1 .. m
      BY <1>1
    <3> QED
      BY <1>1, <2>1, <3>1
  <2>2. CASE i # m - 1
    <3>1. i >= m
      BY <1>1, <1>4, <2>2 DEF Level
    <3> QED
      BY <1>1, <3>1
  <2> QED
    BY <2>1, <2>2
<1> QED
  BY <1>1, <1>2, <1>3, <1>4 DEF LevelsFit

\* The flags of a call are all there is to it.
LEMMA SameCall ==
  ASSUME NEW call \in JsonCall, NEW other \in JsonCall, call.expects = other.expects,
         call.arr <=> other.arr, call.obj <=> other.obj
  PROVE  call = other
BY DEF JsonCall

\* The calls rim_json_new() makes of a call by setting its flags.
LEMMA CallsMade ==
  /\ [NewCall EXCEPT !.expects = {"name"}, !.obj = TRUE] = OpenCall("object", "name")
  /\ [[NewCall EXCEPT !.arr = TRUE] EXCEPT !.expects = {"array"}] = OpenCall("array", "array")
  /\ \A kind \in {"object", "array"}, before, then \in {"name", "colon", "array", "object"} :
       /\ OpenCall(kind, before).expects = {before}
       /\ OpenCall(kind, before).arr <=> kind = "array"
       /\ OpenCall(kind, before).obj <=> kind = "object"
       /\ [OpenCall(kind, before) EXCEPT !.expects = {then}] = OpenCall(kind, then)
<1>1. ASSUME NEW kind \in {"object", "array"}, NEW before \in {"name", "colon", "array", "object"}
      PROVE  /\ OpenCall(kind, before) \in JsonCall
             /\ OpenCall(kind, before).expects = {before}
             /\ OpenCall(kind, before).arr <=> kind = "array"
             /\ OpenCall(kind, before).obj <=> kind = "object"
  BY DEF OpenCall, JsonCall
<1>2. [NewCall EXCEPT !.expects = {"name"}, !.obj = TRUE] = OpenCall("object", "name")
  <2> DEFINE call == [NewCall EXCEPT !.expects = {"name"}, !.obj = TRUE]
  <2>1. call \in JsonCall /\ call.expects = {"name"} /\ ~call.arr /\ call.obj
    BY DEF NewCall, JsonCall
  <2> QED
    BY <1>1, <2>1, SameCall
<1>3. [[NewCall EXCEPT !.arr = TRUE] EXCEPT !.expects = {"array"}] = OpenCall("array", "array")
  <2> DEFINE call == [[NewCall EXCEPT !.arr = TRUE] EXCEPT !.expects = {"array"}]
  <2>1. call \in JsonCall /\ call.expects = {"array"} /\ call.arr /\ ~call.obj
    BY DEF NewCall, JsonCall
  <2> QED
    BY <1>1, <2>1, SameCall
<1>4. ASSUME NEW kind \in {"object", "array"},
             NEW before \in {"name", "colon", "array", "object"},
             NEW then \in {"name", "colon", "array", "object"}
      PROVE  [OpenCall(kind, before) EXCEPT !.expects = {then}] = OpenCall(kind, then)
  <2> DEFINE old == OpenCall(kind, before)
             call == [old EXCEPT !.expects = {then}]
  <2>1. old \in JsonCall /\ (old.arr <=> kind = "array") /\ (old.obj <=> kind = "object")
    BY <1>1
  <2> HIDE DEF old
  <2>2. call \in JsonCall /\ call.expects = {then} /\ (call.arr <=> kind = "array")
        /\ (call.obj <=> kind = "object")
    BY <2>1 DEF JsonCall
  <2> HIDE DEF call
  <2>3. call = OpenCall(kind, then)
    <3>1. /\ OpenCall(kind, then) \in JsonCall /\ OpenCall(kind, then).expects = {then}
          /\ OpenCall(kind, then).arr <=> kind = "array"
          /\ OpenCall(kind, then).obj <=> kind = "object"
      BY <1>1
    <3>2. call.arr <=> OpenCall(kind, then).arr
      BY <2>2, <3>1
    <3>3. call.obj <=> OpenCall(kind, then).obj
      BY <2>2, <3>1
    <3> QED
      BY <2>2, <3>1, <3>2, <3>3, SameCall
  <2> QED
    BY <2>3 DEF call, old
<1> QED
  BY <1>1, <1>2, <1>3, <1>4

\* What is in a text whose last token was a leaf.
LEMMA TextOfLeaf ==
  ASSUME NEW open, NEW path, NEW awaits, NEW text, text = LeafText(open, path, awaits)
  PROVE  text.open = open /\ text.path = path /\ text.awaits = awaits /\ text.leaf = path
BY DEF Text, LeafText

\* What holds of the call and the level the next token is read by.
LEMMA FitsIs ==
  ASSUME JsonFits
  PROVE  /\ jText.open \in Seq({"object", "array"}) /\ jText.path \in Seq(JsonStep)
         /\ Len(jText.open) \in Nat /\ Len(jText.open) <= JsonNested - 2
         /\ Len(jText.path) \in Nat /\ Len(jText.path) <= Len(jText.open)
         /\ Len(jText.open) # JsonNested - 2 =>
              Len(jText.open) < JsonNested - 2 /\ Len(jText.path) \in Level
         /\ jText.open = <<>> <=> Len(jText.open) = 0
         /\ Len(jText.open) > 0 =>
              /\ jText.open # <<>> /\ jText.open[Len(jText.open)] \in {"object", "array"}
              /\ Len(jText.path) > 0 /\ jText.path # <<>> /\ Len(jText.path) - 1 \in Level
         /\ CallsFit(jCalls, jText.open, jText.awaits)
         /\ LevelsFit(jList, jLevel, jText.path, jText.awaits)
         /\ jState = "reading"
<1> DEFINE open == jText.open
           path == jText.path
           n == Len(open)
           m == Len(path)
<1>1. PICK d : Nested(open, path, d)
  BY DEF JsonFits
<1>2. open \in Seq({"object", "array"}) /\ path \in Seq(JsonStep)
  BY <1>1 DEF Nested
<1>3. n \in Nat /\ n <= JsonNested - 2 /\ m \in Nat /\ m <= n
  BY <1>1, NestedIs
<1>4. n > 0 => m > 0
  BY <1>1, NestedIs
<1>5. CallsFit(jCalls, open, jText.awaits) /\ LevelsFit(jList, jLevel, path, jText.awaits)
      /\ jState = "reading"
  BY DEF JsonFits
<1>6. n > 0 => open[n] \in {"object", "array"} /\ path # <<>>
  BY <1>2, <1>3, <1>4
<1>7. open = <<>> <=> n = 0
  BY <1>2
<1> HIDE DEF n, m
<1>8. n > 0 => m - 1 \in Level
  BY <1>3, <1>4, JsonAssumption DEF Level
<1>9. n # JsonNested - 2 => n < JsonNested - 2 /\ m \in Level
  BY <1>3, JsonAssumption DEF Level
<1> QED
  BY <1>2, <1>3, <1>4, <1>5, <1>6, <1>7, <1>8, <1>9 DEF n, m

\* The call the next token is read by: a new one for a value, or that of the object or
\* array the text is in.
LEMMA CurrentIs ==
  ASSUME JsonFits
  PROVE  /\ jText.awaits = "value" => Len(jCalls) = Len(jText.open) + 1 /\ Current = NewCall
         /\ jText.awaits # "value" => Len(jCalls) = Len(jText.open) /\ Len(jText.open) > 0
         /\ jText.awaits \in {"name", "colon"} =>
              /\ jText.open[Len(jText.open)] = "object"
              /\ Current = OpenCall("object", jText.awaits)
         /\ jText.awaits = "separator" =>
              Current = OpenCall(jText.open[Len(jText.open)], jText.open[Len(jText.open)])
<1> DEFINE open == jText.open
           n == Len(open)
<1>1. n \in Nat /\ CallsFit(jCalls, open, jText.awaits)
  BY FitsIs
<1>2. jText.awaits = "value" => Len(jCalls) = n + 1 /\ jCalls[n + 1] = NewCall
  BY <1>1 DEF CallsFit
<1>3. ASSUME jText.awaits # "value"
      PROVE  /\ n > 0 /\ Len(jCalls) = n
             /\ jText.awaits \in {"name", "colon"} => open[n] = "object"
             /\ jCalls[n] = OpenCall(open[n], IF jText.awaits \in {"name", "colon"}
                                              THEN jText.awaits ELSE open[n])
  <2>1. n > 0 /\ Len(jCalls) = n /\ n \in 1 .. n
    BY <1>1, <1>3 DEF CallsFit
  <2>2. jText.awaits \in {"name", "colon"} => open[n] = "object"
    BY <1>1 DEF CallsFit
  <2>3. jCalls[n] = OpenCall(open[n], IF n = n /\ jText.awaits \in {"name", "colon"}
                                      THEN jText.awaits ELSE open[n])
    BY <1>1, <2>1 DEF CallsFit
  <2> QED
    BY <2>1, <2>2, <2>3
<1> HIDE DEF n
<1> QED
  BY <1>2, <1>3 DEF Current, n

\* The level the next token is read at, which is never beyond what list[] has room for:
\* a text that nests as deep as that has room for one more call.
LEMMA LevelIs ==
  ASSUME JsonFits, jText.awaits # "value"
  PROVE  /\ jLevel = Len(jText.path) - 1 /\ jLevel # -1 /\ jLevel + 1 = Len(jText.path)
         /\ jList[Len(jText.path) - 1].index = jText.path[Len(jText.path)].index
         /\ jText.path[Len(jText.path)].index + 1 \in Int
         /\ ~(Len(jCalls) + 1 >= JsonNested \/ jLevel + 1 >= JsonNested - 1)
<1> DEFINE open == jText.open
           path == jText.path
           n == Len(open)
           m == Len(path)
<1>1. n > 0 /\ Len(jCalls) = n
  BY CurrentIs
<1>2. /\ n \in Nat /\ n <= JsonNested - 2 /\ m \in Nat /\ m > 0 /\ m <= n
      /\ path \in Seq(JsonStep) /\ LevelsFit(jList, jLevel, path, jText.awaits)
  BY <1>1, FitsIs
<1>3. m \in 1 .. m
  BY <1>2
<1>4. path[m] \in JsonStep
  BY <1>2, <1>3
<1>5. jLevel = m - 1 /\ jList[m - 1].index = path[m].index
  BY <1>2, <1>3 DEF LevelsFit
<1>6. path[m].index + 1 \in Int
  <2>1. path[m].index \in Int
    BY <1>4 DEF JsonStep
  <2> QED
    BY <2>1
<1> HIDE DEF n, m
<1>7. jLevel # -1 /\ jLevel + 1 = m
  BY <1>2, <1>5
<1>8. ~(Len(jCalls) + 1 >= JsonNested \/ jLevel + 1 >= JsonNested - 1)
  BY <1>1, <1>2, <1>7, JsonAssumption
<1> QED
  BY <1>5, <1>6, <1>7, <1>8 DEF n, m

\* What a step has to show.
LEMMA FitsNext ==
  ASSUME NEW open, NEW path, NEW awaits \in {"value", "name", "colon", "separator"},
         jText' = Text(open, path, awaits), jLeaf' = JsonNoName, jState' = "reading",
         CallsFit(jCalls', open, awaits), LevelsFit(jList', jLevel', path, awaits),
         \E d : Nested(open, path, d)
  PROVE  JsonInv'
<1>1. /\ jText'.open = open /\ jText'.path = path /\ jText'.awaits = awaits
      /\ jText'.leaf = JsonNoName
  BY DEF Text
<1> QED
  BY <1>1 DEF JsonInv, JsonFits

\* A text the reader is known to take differently is not followed any further.
LEMMA OutsideNext ==
  ASSUME jText' = Outside
  PROVE  JsonInv'
BY DEF JsonInv, Outside, Text

\* An object begins, and its first name is next.
LEMMA InvBeginObject ==
  ASSUME JsonFits, jText.awaits = "value", BeginObject, jText' = Reading(jText, "{")
  PROVE  JsonInv'
<1> DEFINE open == jText.open
           path == jText.path
           more == Append(open, "object")
           way == Append(path, [name |-> JsonNoName, index |-> -1])
<1>1. jText' = Deeper(jText, "object", way, "name")
  BY JsonAssumption DEF Reading, Marks, Leaves
<1>2. CASE Len(open) = JsonNested - 2
  BY <1>1, <1>2, OutsideNext DEF Deeper
<1>3. CASE Len(open) # JsonNested - 2
  <2>1. jText' = Text(more, way, "name")
    BY <1>1, <1>3 DEF Deeper
  <2>2. /\ open \in Seq({"object", "array"}) /\ path \in Seq(JsonStep) /\ Len(path) \in Level
        /\ CallsFit(jCalls, open, "value") /\ LevelsFit(jList, jLevel, path, "value")
        /\ Len(open) \in Nat /\ Current = NewCall /\ jState = "reading"
    BY <1>3, FitsIs, CurrentIs
  <2>3. /\ jCalls' = WithCurrent([Current EXCEPT !.expects = {"name"}, !.obj = TRUE])
        /\ jList' = jList /\ jLeaf' = JsonNoName /\ jLevel' = jLevel /\ jState' = "reading"
    BY <2>2 DEF BeginObject, GoOn, NewCall
  <2>4. jCalls' = [jCalls EXCEPT ![Len(jCalls)] = OpenCall("object", "name")]
    BY <2>2, <2>3, CallsMade DEF WithCurrent
  <2>5. CallsFit(jCalls', more, "name")
    BY <2>2, <2>4, CallReadsObject
  <2>6. LevelsFit(jList', jLevel', way, "name")
    BY <2>2, <2>3, LevelOfObject
  <2>7. \E e : Nested(more, way, e)
    BY <1>3, ObjectOpens DEF JsonFits
  <2> HIDE DEF more, way
  <2> QED
    BY <2>1, <2>3, <2>5, <2>6, <2>7, FitsNext
<1> QED
  BY <1>2, <1>3

\* An array begins as the value of a name, which gets the index of its first value.
LEMMA InvBeginArray ==
  ASSUME JsonFits, jText.awaits = "value", IsIn(jText, "object"), BeginArray,
         jText' = Reading(jText, "[")
  PROVE  JsonInv'
<1> DEFINE open == jText.open
           path == jText.path
           more == Append(open, "array")
           onto == WithIndex(path, 0)
<1>1. jText' = Deeper(jText, "array", onto, "value")
  BY JsonAssumption DEF Reading, Marks, Leaves, Onto, WithIndex
<1>2. CASE Len(open) = JsonNested - 2
  BY <1>1, <1>2, OutsideNext DEF Deeper
<1>3. CASE Len(open) # JsonNested - 2
  <2>1. jText' = Text(more, onto, "value")
    BY <1>1, <1>3 DEF Deeper
  <2>2. open # <<>> /\ open[Len(open)] = "object"
    BY DEF IsIn
  <2>3. /\ open \in Seq({"object", "array"}) /\ path \in Seq(JsonStep) /\ path # <<>>
        /\ Len(open) \in Nat /\ Len(open) > 0 /\ Len(open) <= JsonNested - 2
        /\ Len(path) \in Nat /\ Len(path) > 0 /\ Len(path) <= Len(open)
        /\ Len(path) - 1 \in Level
        /\ CallsFit(jCalls, open, "value") /\ LevelsFit(jList, jLevel, path, "value")
        /\ jState = "reading"
    BY <2>2, FitsIs
  <2>4. Current = NewCall /\ Len(jCalls) = Len(open) + 1
    BY CurrentIs
  <2>5. PICK d : Nested(open, path, d)
    BY DEF JsonFits
  <2>6. path[Len(path)].index = -1
    BY <2>2, <2>3, <2>5, ObjectCloses
  <2>7. /\ jLevel = Len(path) /\ jList[Len(path) - 1].index = path[Len(path)].index
        /\ jList \in [Level -> JsonStep]
    BY <2>3 DEF LevelsFit
  <2>8. ~(Len(jCalls) + 1 >= JsonNested \/ (jLevel - 1) + 1 >= JsonNested - 1)
    <3> DEFINE n == Len(open)
               m == Len(path)
    <3>1. n \in Nat /\ n < JsonNested - 2 /\ m \in Nat /\ m <= n /\ jLevel = m
          /\ Len(jCalls) = n + 1
      BY <1>3, <2>3, <2>4, <2>7, FitsIs
    <3> HIDE DEF n, m
    <3> QED
      BY <3>1, JsonAssumption
  <2>9. CallFor([NewCall EXCEPT !.arr = TRUE], {"array"}, NextIndex(jLevel - 1), jLevel - 1)
    BY <2>4 DEF BeginArray, NewCall
  <2>10. /\ jCalls' = Append(WithCurrent([[NewCall EXCEPT !.arr = TRUE] EXCEPT !.expects = {"array"}]),
                             NewCall)
         /\ jList' = NextIndex(jLevel - 1) /\ jLevel' = (jLevel - 1) + 1
         /\ jLeaf' = JsonNoName /\ jState' = "reading"
    BY <2>3, <2>8, <2>9 DEF CallFor
  <2>11. jList' = LevelIndex(jList, Len(path) - 1, 0)
    <3>1. jLevel - 1 # -1 /\ jLevel - 1 = Len(path) - 1
      BY <2>3, <2>7
    <3>2. jList' = [jList EXCEPT ![Len(path) - 1].index = @ + 1]
      BY <2>10, <3>1 DEF NextIndex
    <3>3. jList[Len(path) - 1].index + 1 = 0
      BY <2>6, <2>7
    <3> QED
      BY <3>2, <3>3 DEF LevelIndex
  <2>12. CallsFit(jCalls', more, "value")
    <3>1. jCalls' = Append([jCalls EXCEPT ![Len(jCalls)] = OpenCall("array", "array")], NewCall)
      BY <2>10, CallsMade DEF WithCurrent
    <3> QED
      BY <2>3, <3>1, CallReadsArray
  <2>13. /\ onto \in Seq(JsonStep) /\ Len(onto) = Len(path)
         /\ \A i \in 1 .. Len(path) - 1 : onto[i] = path[i]
         /\ onto[Len(path)].index = 0 /\ onto[Len(path)].name = path[Len(path)].name
    BY <2>3, WithIndexIs
  <2> HIDE DEF open, path, onto, more
  <2>14. LevelsFit(jList', jLevel', onto, "value")
    <3>1. LevelsFit(LevelIndex(jList, Len(path) - 1, 0), Len(path), onto, "value")
      BY <2>3, <2>13, LevelOfIndex
    <3>2. jLevel' = Len(path)
      BY <2>3, <2>7, <2>10
    <3> QED
      BY <2>11, <3>1, <3>2
  <2>15. \E e : Nested(Append(open, "array"), onto, e)
    BY <1>3, <2>2, <2>3, <2>5, <2>13, ArrayOpens
  <2>16. \E e : Nested(more, onto, e)
    BY <2>15 DEF more
  <2> QED
    BY <2>1, <2>10, <2>12, <2>14, <2>16, FitsNext
<1> QED
  BY <1>2, <1>3

\* A leaf: the call that reads it returns, and its node gets the names on the way.
LEMMA InvLeaf ==
  ASSUME JsonFits, jText.awaits = "value", AddNode, NEW token \in Leaves,
         jText' = Reading(jText, token)
  PROVE  JsonInv'
<1> DEFINE open == jText.open
           path == jText.path
           awaits == IF open # <<>> THEN "separator" ELSE IF token = "other" THEN "end" ELSE "nothing"
<1>1. /\ open \in Seq({"object", "array"}) /\ path \in Seq(JsonStep)
      /\ Len(open) \in Nat /\ Len(open) <= JsonNested - 2 /\ (open = <<>> <=> Len(open) = 0)
      /\ Len(path) \in Nat /\ Len(path) <= Len(open)
      /\ CallsFit(jCalls, open, "value") /\ LevelsFit(jList, jLevel, path, "value")
  BY FitsIs
<1>2. Len(jCalls) = Len(open) + 1
  BY CurrentIs
<1>3. jText' = LeafText(open, path, awaits)
  <2>1. token \notin Marks /\ token # "white"
    BY JsonAssumption DEF Leaves, Marks
  <2>2. jText' = [Ended(open, path, token) EXCEPT !.leaf = path]
    BY <2>1 DEF Reading, Marks
  <2> QED
    BY <2>2 DEF Ended, LeafText
<1>4. /\ jCalls' = Up(jCalls) /\ jState' = (IF Len(jCalls) = 1 THEN "done" ELSE "reading")
      /\ jList' = jList /\ jLevel' = jLevel - 1 /\ jLeaf' = FullName
  BY DEF AddNode, CallReturns
<1>5. LevelsFit(jList, jLevel - 1, path, "separator") /\ FullName = path
  <2>1. Len(path) <= JsonNested - 2
    BY <1>1, JsonAssumption
  <2>2. LevelsFit(jList, jLevel - 1, path, "separator")
        /\ WayIn(jList, jLevel) = path
    BY <1>1, <2>1, LevelsOfLeaf
  <2> QED
    BY <2>2 DEF FullName, WayIn
<1> HIDE DEF open, path, awaits
<1>6. jText'.open = open /\ jText'.path = path /\ jText'.awaits = awaits /\ jText'.leaf = path
  BY <1>3, TextOfLeaf
<1>7. CASE open = <<>>
  <2>1. jText'.awaits \in {"nothing", "end"} /\ jState' = "done" /\ jLeaf' = jText'.leaf
    BY <1>1, <1>2, <1>4, <1>5, <1>6, <1>7 DEF awaits
  <2> QED
    BY <2>1 DEF JsonInv, Complete
<1>8. CASE open # <<>>
  <2>1. jText'.awaits = "separator" /\ jState' = "reading" /\ jLeaf' = jText'.leaf
    BY <1>1, <1>2, <1>4, <1>5, <1>6, <1>8 DEF awaits
  <2>2. CallsFit(jCalls', open, "separator")
    BY <1>1, <1>4, <1>8, CallReadsLeaf
  <2>3. LevelsFit(jList', jLevel', path, "separator")
    BY <1>4, <1>5
  <2>4. \E d : Nested(open, path, d)
    BY DEF JsonFits, open, path
  <2>5. JsonFits'
    BY <1>6, <2>1, <2>2, <2>3, <2>4 DEF JsonFits
  <2> QED
    BY <2>5 DEF JsonInv
<1> QED
  BY <1>7, <1>8

\* A name goes to the last step of the way, and to the level.
LEMMA InvName ==
  ASSUME JsonFits, jText.awaits = "name", NEW string \in JsonString, String(string),
         jText' = Reading(jText, string)
  PROVE  JsonInv'
<1> DEFINE open == jText.open
           path == jText.path
           onto == WithName(path, string)
<1>1. /\ Len(open) > 0 /\ open[Len(open)] = "object" /\ Current = OpenCall("object", "name")
  BY CurrentIs
<1>2. /\ open \in Seq({"object", "array"}) /\ path \in Seq(JsonStep) /\ path # <<>>
      /\ Len(path) > 0 /\ Len(path) - 1 \in Level
      /\ CallsFit(jCalls, open, "name") /\ LevelsFit(jList, jLevel, path, "name")
      /\ jState = "reading"
  BY <1>1, FitsIs
<1>3. jText' = Text(open, onto, "colon")
  BY JsonAssumption DEF Reading, Marks, Onto, WithName
<1>4. Current.expects = {"name"} /\ [Current EXCEPT !.expects = {"colon"}] = OpenCall("object", "colon")
  BY <1>1, CallsMade
<1>5. Name(string)
  BY <1>4 DEF String, Expects
<1>6. /\ jCalls' = [jCalls EXCEPT ![Len(jCalls)] = OpenCall("object", "colon")]
      /\ jList' = LevelName(jList, jLevel, string) /\ jLeaf' = JsonNoName
      /\ jLevel' = jLevel /\ jState' = "reading"
  BY <1>2, <1>4, <1>5 DEF Name, GoOn, WithCurrent, LevelName
<1>7. CallsFit(jCalls', open, "colon")
  BY <1>1, <1>2, <1>6, CallGoesOn
<1>8. /\ onto \in Seq(JsonStep) /\ Len(onto) = Len(path)
      /\ \A i \in 1 .. Len(path) - 1 : onto[i] = path[i]
      /\ onto[Len(path)].name = string /\ onto[Len(path)].index = path[Len(path)].index
  BY <1>2, WithNameIs
<1>9. PICK d : Nested(open, path, d)
  BY DEF JsonFits
<1>10. path[Len(path)].index = -1
  BY <1>1, <1>9, ObjectCloses
<1> HIDE DEF open, path, onto
<1>11. LevelsFit(jList', jLevel', onto, "colon")
  BY <1>2, <1>6, <1>8, LevelOfName
<1>12. \E e : Nested(open, onto, e)
  BY <1>1, <1>8, <1>9, <1>10, StepOfTheWay
<1> QED
  BY <1>3, <1>6, <1>7, <1>11, <1>12, FitsNext

\* After the colon a new call reads the value.
LEMMA InvColon ==
  ASSUME JsonFits, jText.awaits = "colon", Colon, jText' = Reading(jText, ":")
  PROVE  JsonInv'
<1> DEFINE open == jText.open
           path == jText.path
<1>1. /\ Len(open) > 0 /\ open[Len(open)] = "object" /\ Current = OpenCall("object", "colon")
      /\ Len(jCalls) = Len(open)
  BY CurrentIs
<1>2. /\ open \in Seq({"object", "array"}) /\ path \in Seq(JsonStep)
      /\ Len(open) \in Nat /\ Len(open) <= JsonNested - 2
      /\ Len(path) \in Nat /\ Len(path) <= Len(open)
      /\ CallsFit(jCalls, open, "colon") /\ LevelsFit(jList, jLevel, path, "colon")
      /\ jState = "reading"
  BY FitsIs
<1>3. jText' = Text(open, path, "value")
  BY DEF Reading, Marks
<1>4. Current.expects = {"colon"} /\ [Current EXCEPT !.expects = {"object"}] = OpenCall("object", "object")
  BY <1>1, CallsMade
<1>5. jLevel = Len(path) - 1 /\ jLevel + 1 = Len(path)
  BY LevelIs
<1>6. ~(Len(jCalls) + 1 >= JsonNested \/ jLevel + 1 >= JsonNested - 1)
  BY LevelIs
<1>7. CallFor(Current, {"object"}, jList, jLevel)
  BY <1>4 DEF Colon, Expects
<1>8. /\ jCalls' = Append([jCalls EXCEPT ![Len(jCalls)] = OpenCall("object", "object")], NewCall)
      /\ jList' = jList /\ jLevel' = jLevel + 1 /\ jLeaf' = JsonNoName /\ jState' = "reading"
  BY <1>2, <1>4, <1>6, <1>7 DEF CallFor, WithCurrent
<1>9. CallsFit(jCalls', open, "value")
  BY <1>1, <1>2, <1>8, CallForValue
<1>10. LevelsFit(jList', jLevel', path, "value")
  <2>1. LevelsFit(jList, jLevel + 1, path, "value")
    BY <1>2, <1>5 DEF LevelsFit
  <2> QED
    BY <1>8, <2>1
<1>11. \E d : Nested(open, path, d)
  BY DEF JsonFits
<1> HIDE DEF open, path
<1> QED
  BY <1>3, <1>8, <1>9, <1>10, <1>11, FitsNext

\* After a comma in an object its call goes on with the next name.
LEMMA InvCommaInObject ==
  ASSUME JsonFits, jText.awaits = "separator", IsIn(jText, "object"), Comma,
         jText' = Reading(jText, ",")
  PROVE  JsonInv'
<1> DEFINE open == jText.open
           path == jText.path
<1>1. open[Len(open)] = "object"
  BY DEF IsIn
<1>2. /\ Len(open) > 0 /\ Current = OpenCall("object", "object")
  BY <1>1, CurrentIs
<1>3. /\ open \in Seq({"object", "array"}) /\ path \in Seq(JsonStep)
      /\ CallsFit(jCalls, open, "separator") /\ LevelsFit(jList, jLevel, path, "separator")
      /\ jState = "reading"
  BY FitsIs
<1>4. jText' = Text(open, path, "name")
  BY DEF Reading, Marks, IsIn
<1>5. /\ Current.expects = {"object"} /\ Current.obj
      /\ [Current EXCEPT !.expects = {"name"}] = OpenCall("object", "name")
  BY <1>2, CallsMade
<1>6. GoOn([Current EXCEPT !.expects = {"name"}], jList)
  <2>1. ~Expects({"colon", "name"})
    BY <1>5 DEF Expects
  <2> QED
    BY <1>5, <2>1 DEF Comma
<1>7. /\ jCalls' = [jCalls EXCEPT ![Len(jCalls)] = OpenCall("object", "name")]
      /\ jList' = jList /\ jLevel' = jLevel /\ jLeaf' = JsonNoName /\ jState' = "reading"
  BY <1>3, <1>5, <1>6 DEF GoOn, WithCurrent
<1>8. CallsFit(jCalls', open, "name")
  BY <1>1, <1>2, <1>3, <1>7, CallGoesOn
<1>9. LevelsFit(jList', jLevel', path, "name")
  <2>1. LevelsFit(jList, jLevel, path, "name")
    BY <1>3 DEF LevelsFit
  <2> QED
    BY <1>7, <2>1
<1>10. \E d : Nested(open, path, d)
  BY DEF JsonFits
<1> HIDE DEF open, path
<1> QED
  BY <1>4, <1>7, <1>8, <1>9, <1>10, FitsNext

\* After a comma in an array a new call reads the value of the next index.
LEMMA InvCommaInArray ==
  ASSUME JsonFits, jText.awaits = "separator", IsIn(jText, "array"), Comma,
         jText' = Reading(jText, ",")
  PROVE  JsonInv'
<1> DEFINE open == jText.open
           path == jText.path
           x == path[Len(path)].index + 1
           onto == WithIndex(path, x)
<1>1. open[Len(open)] = "array"
  BY DEF IsIn
<1>2. /\ Len(open) > 0 /\ Current = OpenCall("array", "array") /\ Len(jCalls) = Len(open)
  BY <1>1, CurrentIs
<1>3. /\ open \in Seq({"object", "array"}) /\ path \in Seq(JsonStep) /\ path # <<>>
      /\ Len(open) \in Nat /\ Len(open) <= JsonNested - 2
      /\ Len(path) \in Nat /\ Len(path) > 0 /\ Len(path) <= Len(open) /\ Len(path) - 1 \in Level
      /\ CallsFit(jCalls, open, "separator") /\ LevelsFit(jList, jLevel, path, "separator")
      /\ jState = "reading"
  BY <1>2, FitsIs
<1>4. jText' = Text(open, onto, "value")
  BY <1>1 DEF Reading, Marks, Onto, Index, IsIn, WithIndex
<1>5. /\ Current.expects = {"array"} /\ Current.arr /\ ~Current.obj
      /\ [Current EXCEPT !.expects = {"array"}] = OpenCall("array", "array")
  BY <1>2, CallsMade
<1>6. /\ jLevel = Len(path) - 1 /\ jList[Len(path) - 1].index = path[Len(path)].index
      /\ jLevel # -1 /\ jLevel + 1 = Len(path) /\ path[Len(path)].index + 1 \in Int
  BY LevelIs
<1>7. ~(Len(jCalls) + 1 >= JsonNested \/ jLevel + 1 >= JsonNested - 1)
  BY LevelIs
<1>8. CallFor(Current, {"array"}, NextIndex(jLevel), jLevel)
  <2>1. ~Expects({"colon", "name"})
    BY <1>5 DEF Expects
  <2> QED
    BY <1>5, <2>1 DEF Comma
<1>9. /\ jCalls' = Append([jCalls EXCEPT ![Len(jCalls)] = OpenCall("array", "array")], NewCall)
      /\ jList' = NextIndex(jLevel) /\ jLevel' = jLevel + 1
      /\ jLeaf' = JsonNoName /\ jState' = "reading"
  BY <1>3, <1>5, <1>7, <1>8 DEF CallFor, WithCurrent
<1>10. jList' = LevelIndex(jList, Len(path) - 1, x)
  BY <1>6, <1>9 DEF NextIndex, LevelIndex
<1>11. CallsFit(jCalls', open, "value")
  BY <1>1, <1>2, <1>3, <1>9, CallForValue
<1>12. x \in Int
  BY <1>6
<1> HIDE DEF x
<1>13. /\ onto \in Seq(JsonStep) /\ Len(onto) = Len(path)
       /\ \A i \in 1 .. Len(path) - 1 : onto[i] = path[i]
       /\ onto[Len(path)].index = x /\ onto[Len(path)].name = path[Len(path)].name
  BY <1>3, <1>12, WithIndexIs
<1>14. PICK d : Nested(open, path, d)
  BY DEF JsonFits
<1> HIDE DEF open, path, onto
<1>15. LevelsFit(jList', jLevel', onto, "value")
  <2>1. LevelsFit(LevelIndex(jList, Len(path) - 1, x), Len(path), onto, "value")
    BY <1>3, <1>12, <1>13, LevelOfIndex
  <2>2. jLevel' = Len(path)
    BY <1>6, <1>9
  <2> QED
    BY <1>10, <2>1, <2>2
<1>16. \E e : Nested(open, onto, e)
  <2>1. open[Len(open)] # "object"
    BY <1>1
  <2> QED
    BY <1>2, <1>13, <1>14, <2>1, StepOfTheWay
<1> QED
  BY <1>4, <1>9, <1>11, <1>15, <1>16, FitsNext

\* What a text says when an object or array has ended: the value has ended, and with it
\* the text, or it goes on in what is still open.
LEMMA EndedNext ==
  ASSUME NEW open, NEW path, NEW token, jText' = Ended(open, path, token), jLeaf' = JsonNoName,
         open = <<>> => jState' = "done",
         open # <<>> => /\ jState' = "reading" /\ CallsFit(jCalls', open, "separator")
                        /\ LevelsFit(jList', jLevel', path, "separator")
                        /\ \E d : Nested(open, path, d)
  PROVE  JsonInv'
<1>1. CASE open = <<>>
  <2>1. jText' = Text(open, path, IF token = "other" THEN "end" ELSE "nothing")
    BY <1>1 DEF Ended
  <2>2. jText'.awaits \in {"nothing", "end"} /\ jText'.leaf = JsonNoName
    BY <2>1 DEF Text
  <2> QED
    BY <1>1, <2>2 DEF JsonInv, Complete
<1>2. CASE open # <<>>
  <2>1. jText' = Text(open, path, "separator")
    BY <1>2 DEF Ended
  <2> QED
    BY <1>2, <2>1, FitsNext
<1> QED
  BY <1>1, <1>2

\* The call of an object that ends returns, one level up.
LEMMA InvEndObject ==
  ASSUME JsonFits, jText.awaits = "separator", IsIn(jText, "object"), EndObject,
         jText' = Reading(jText, "}")
  PROVE  JsonInv'
<1> DEFINE open == jText.open
           path == jText.path
           less == Up(open)
           way == Up(path)
<1>1. open[Len(open)] = "object"
  BY DEF IsIn
<1>2. /\ Len(open) > 0 /\ Current = OpenCall("object", "object") /\ Len(jCalls) = Len(open)
  BY <1>1, CurrentIs
<1>3. /\ open \in Seq({"object", "array"}) /\ path \in Seq(JsonStep) /\ path # <<>> /\ open # <<>>
      /\ Len(open) \in Nat /\ Len(path) \in Nat /\ Len(path) > 0
      /\ CallsFit(jCalls, open, "separator") /\ LevelsFit(jList, jLevel, path, "separator")
      /\ jState = "reading"
  BY <1>2, FitsIs
<1>4. jText' = Ended(less, way, "}")
  BY DEF Reading, Marks
<1>5. Current.expects = {"object"}
  BY <1>2, CallsMade
<1>6. /\ jCalls' = Up(jCalls) /\ jState' = (IF Len(jCalls) = 1 THEN "done" ELSE "reading")
      /\ jList' = jList /\ jLevel' = jLevel - 1 /\ jLeaf' = JsonNoName
  <2>1. ~Expects({"colon", "array", "name"})
    BY <1>5 DEF Expects
  <2> QED
    BY <2>1 DEF EndObject, CallReturns
<1>7. PICK d : Nested(open, path, d)
  BY DEF JsonFits
<1>8. path[Len(path)].index = -1 /\ \E e : Nested(less, way, e)
  BY <1>1, <1>2, <1>7, ObjectCloses
<1>9. \/ less = <<>> /\ Len(open) = 1
      \/ less # <<>> /\ Len(open) > 1 /\ Len(open) # 1
  BY <1>3, UpLeaves
<1>10. LevelsFit(jList, jLevel - 1, way, "separator")
  BY <1>3, <1>8, LevelOfEnded
<1>11. Len(open) > 1 => CallsFit(jCalls', less, "separator")
  BY <1>3, <1>6, CallOfEnded
<1> HIDE DEF open, path, less, way
<1>12. less = <<>> => jState' = "done"
  BY <1>2, <1>6, <1>9
<1>13. less # <<>> => /\ jState' = "reading" /\ CallsFit(jCalls', less, "separator")
                      /\ LevelsFit(jList', jLevel', way, "separator")
                      /\ \E e : Nested(less, way, e)
  <2> SUFFICES ASSUME less # <<>>
               PROVE  /\ jState' = "reading" /\ CallsFit(jCalls', less, "separator")
                      /\ LevelsFit(jList', jLevel', way, "separator")
                      /\ \E e : Nested(less, way, e)
    OBVIOUS
  <2>1. Len(open) > 1 /\ Len(open) # 1
    BY <1>9
  <2>2. jState' = "reading"
    BY <1>2, <1>6, <2>1
  <2>3. CallsFit(jCalls', less, "separator")
    BY <1>11, <2>1
  <2>4. LevelsFit(jList', jLevel', way, "separator")
    BY <1>6, <1>10
  <2> QED
    BY <1>8, <2>2, <2>3, <2>4
<1> QED
  BY <1>4, <1>6, <1>12, <1>13, EndedNext

\* The call of an array that ends returns, and the name has no index any more.
LEMMA InvEndArray ==
  ASSUME JsonFits, jText.awaits = "separator", IsIn(jText, "array"), EndArray,
         jText' = Reading(jText, "]")
  PROVE  JsonInv'
<1> DEFINE open == jText.open
           path == jText.path
           less == Up(open)
           onto == WithIndex(path, -1)
<1>1. open[Len(open)] = "array"
  BY DEF IsIn
<1>2. /\ Len(open) > 0 /\ Current = OpenCall("array", "array") /\ Len(jCalls) = Len(open)
  BY <1>1, CurrentIs
<1>3. /\ open \in Seq({"object", "array"}) /\ path \in Seq(JsonStep) /\ path # <<>> /\ open # <<>>
      /\ Len(open) \in Nat /\ Len(path) \in Nat /\ Len(path) > 0 /\ Len(path) - 1 \in Level
      /\ CallsFit(jCalls, open, "separator") /\ LevelsFit(jList, jLevel, path, "separator")
      /\ jState = "reading"
  BY <1>2, FitsIs
<1>4. jText' = Ended(less, onto, "]")
  BY <1>1 DEF Reading, Marks, Onto, IsIn, WithIndex
<1>5. Current.expects = {"array"}
  BY <1>2, CallsMade
<1>6. /\ jCalls' = Up(jCalls) /\ jState' = (IF Len(jCalls) = 1 THEN "done" ELSE "reading")
      /\ jList' = NoIndex(jLevel) /\ jLevel' = jLevel /\ jLeaf' = JsonNoName
  <2>1. ~Expects({"colon", "object", "name"})
    BY <1>5 DEF Expects
  <2> QED
    BY <2>1 DEF EndArray, CallReturns
<1>7. jLevel = Len(path) - 1 /\ jLevel # -1
  BY LevelIs
<1>8. jList' = LevelIndex(jList, Len(path) - 1, -1)
  BY <1>6, <1>7 DEF NoIndex, LevelIndex
<1>9. /\ onto \in Seq(JsonStep) /\ Len(onto) = Len(path)
      /\ \A i \in 1 .. Len(path) - 1 : onto[i] = path[i]
      /\ onto[Len(path)].index = -1 /\ onto[Len(path)].name = path[Len(path)].name
  <2>1. -1 \in Int
    OBVIOUS
  <2> QED
    BY <1>3, <2>1, WithIndexIs
<1>10. PICK d : Nested(open, path, d)
  BY DEF JsonFits
<1>11. Len(open) > 1 /\ \E e : Nested(less, onto, e)
  <2> HIDE DEF onto
  <2> QED
    BY <1>1, <1>2, <1>9, <1>10, ArrayCloses
<1>12. less # <<>> /\ Len(open) # 1
  BY <1>3, <1>11, UpLeavesMore
<1>13. CallsFit(jCalls', less, "separator")
  BY <1>3, <1>6, <1>11, CallOfEnded
<1> HIDE DEF open, path, less, onto
<1>14. LevelsFit(jList', jLevel', onto, "separator")
  <2>1. LevelsFit(LevelIndex(jList, Len(path) - 1, -1), Len(path) - 1, onto, "separator")
    <3>1. -1 \in Int
      OBVIOUS
    <3> QED
      BY <1>3, <1>9, <3>1, LevelOfIndex
  <2> QED
    BY <1>6, <1>7, <1>8, <2>1
<1>15. jState' = "reading"
  BY <1>2, <1>6, <1>12
<1> QED
  BY <1>4, <1>6, <1>11, <1>12, <1>13, <1>14, <1>15, EndedNext

\* White space in a text that goes on.
LEMMA InvWhite ==
  ASSUME JsonFits, Parse("white"), jText' = Reading(jText, "white")
  PROVE  JsonInv'
<1> DEFINE open == jText.open
           path == jText.path
           awaits == jText.awaits
<1>1. /\ awaits \in {"value", "name", "colon", "separator"} /\ jState = "reading"
      /\ CallsFit(jCalls, open, awaits) /\ LevelsFit(jList, jLevel, path, awaits)
  BY DEF JsonFits
<1>2. jText' = Text(open, path, awaits)
  <2>1. "white" \notin JsonString /\ "white" \notin Leaves
    BY JsonAssumption DEF Leaves
  <2> QED
    BY <1>1, <2>1 DEF Reading
<1>3. /\ jCalls' = WithCurrent(Current) /\ jList' = jList /\ jLeaf' = JsonNoName
      /\ jLevel' = jLevel /\ jState' = "reading"
  BY <1>1 DEF Parse, GoOn
<1>4. WithCurrent(Current) = jCalls
  <2>1. jCalls \in Seq(JsonCall)
    BY <1>1 DEF CallsFit
  <2> QED
    BY <2>1 DEF WithCurrent, Current
<1>5. CallsFit(jCalls', open, awaits) /\ LevelsFit(jList', jLevel', path, awaits)
  BY <1>1, <1>3, <1>4
<1>6. \E d : Nested(open, path, d)
  BY DEF JsonFits
<1> HIDE DEF open, path, awaits
<1> QED
  BY <1>1, <1>2, <1>3, <1>5, <1>6, FitsNext

\* What a token does to a text that is followed: the branch of rim_json_new() it is read
\* by is the one the text calls for.
LEMMA InvToken ==
  ASSUME JsonFits, NEW token \in Token, Parse(token), jText' = Reading(jText, token)
  PROVE  JsonInv'
<1>1. CASE jText.awaits = "value" /\ token = "{"
  <2>1. BeginObject
    BY <1>1 DEF Parse
  <2> QED
    BY <1>1, <2>1, InvBeginObject
<1>2. CASE jText.awaits = "value" /\ token = "[" /\ IsIn(jText, "object")
  <2>1. BeginArray
    BY <1>2 DEF Parse
  <2> QED
    BY <1>2, <2>1, InvBeginArray
<1>3. CASE jText.awaits = "value" /\ token \in Leaves
  <2>1. Current.expects = {}
    <3>1. Current = NewCall
      BY <1>3, CurrentIs
    <3> QED
      BY <3>1 DEF NewCall
  <2>2. CASE token = "other"
    <3>1. Other
      BY <2>2 DEF Parse
    <3>2. AddNode
      BY <2>1, <3>1 DEF Other
    <3> QED
      BY <1>3, <3>2, InvLeaf
  <2>3. CASE token # "other"
    <3>1. String(token)
      BY <1>3, <2>3, JsonAssumption DEF Parse, Marks, Leaves
    <3>2. ~Expects({"colon", "array", "object"}) /\ Current.expects # {"name"}
      BY <2>1 DEF Expects
    <3>3. AddNode
      BY <3>1, <3>2 DEF String
    <3> QED
      BY <1>3, <3>3, InvLeaf
  <2> QED
    BY <2>2, <2>3
<1>4. CASE jText.awaits = "name" /\ token \in JsonString
  <2>1. token \notin Marks /\ token # "other" /\ token # "white"
    BY <1>4, JsonAssumption
  <2>2. String(token)
    BY <2>1 DEF Parse, Marks
  <2> QED
    BY <1>4, <2>2, InvName
<1>5. CASE jText.awaits = "colon" /\ token = ":"
  <2>1. Colon
    BY <1>5 DEF Parse
  <2> QED
    BY <1>5, <2>1, InvColon
<1>6. CASE jText.awaits = "separator" /\ token = "," /\ IsIn(jText, "object")
  <2>1. Comma
    BY <1>6 DEF Parse
  <2> QED
    BY <1>6, <2>1, InvCommaInObject
<1>7. CASE jText.awaits = "separator" /\ token = "," /\ IsIn(jText, "array")
  <2>1. Comma
    BY <1>7 DEF Parse
  <2> QED
    BY <1>7, <2>1, InvCommaInArray
<1>8. CASE jText.awaits = "separator" /\ token = "}" /\ IsIn(jText, "object")
  <2>1. EndObject
    BY <1>8 DEF Parse
  <2> QED
    BY <1>8, <2>1, InvEndObject
<1>9. CASE jText.awaits = "separator" /\ token = "]" /\ IsIn(jText, "array")
  <2>1. EndArray
    BY <1>9 DEF Parse
  <2> QED
    BY <1>9, <2>1, InvEndArray
<1>10. CASE token = "white"
  BY <1>10, InvWhite
<1>11. CASE /\ ~(jText.awaits = "value" /\ token = "{")
            /\ ~(jText.awaits = "value" /\ token = "[" /\ IsIn(jText, "object"))
            /\ ~(jText.awaits = "value" /\ token \in Leaves)
            /\ ~(jText.awaits = "name" /\ token \in JsonString)
            /\ ~(jText.awaits = "colon" /\ token = ":")
            /\ ~(jText.awaits = "separator" /\ token = "," /\ IsIn(jText, "object"))
            /\ ~(jText.awaits = "separator" /\ token = "," /\ IsIn(jText, "array"))
            /\ ~(jText.awaits = "separator" /\ token = "}" /\ IsIn(jText, "object"))
            /\ ~(jText.awaits = "separator" /\ token = "]" /\ IsIn(jText, "array"))
            /\ token # "white"
  <2>1. jText' = Outside
    BY <1>11, Zenon DEF Reading
  <2> QED
    BY <2>1, OutsideNext
<1> QED
  BY <1>1, <1>2, <1>3, <1>4, <1>5, <1>6, <1>7, <1>8, <1>9, <1>10, <1>11

\* A token is read: by the call that is in progress, or behind the value.
LEMMA InvReadToken ==
  ASSUME JsonInv, NulledFits, NEW token \in Token, ReadToken(token)
  PROVE  JsonInv'
<1>1. jText' = Reading(jText, token)
  BY DEF ReadToken
<1>2. CASE jText.awaits \in {"anything", "end"}
  <2>1. jText'.awaits = "anything"
    BY <1>1, <1>2 DEF Reading, Outside, Text
  <2> QED
    BY <2>1 DEF JsonInv
<1>3. CASE jText.awaits = "nothing" /\ jState \in {"done", "accepted"}
  <2>1. jState = "done" /\ jNulled = "none" /\ BehindValue(token)
    BY <1>3 DEF ReadToken, NulledFits
  <2>2. CASE token = "white"
    <3>1. jText' = Text(jText.open, jText.path, "nothing")
      BY <1>1, <1>3, <2>2 DEF Reading
    <3>2. jText'.awaits = "nothing" /\ jText'.leaf = JsonNoName
      BY <3>1 DEF Text
    <3>3. jLeaf' = JsonNoName /\ jState' = "done"
      BY <2>1, <2>2 DEF BehindValue
    <3> QED
      BY <3>2, <3>3 DEF JsonInv, Complete
  <2>3. CASE token # "white"
    <3>1. jText' = Outside
      BY <1>1, <1>3, <2>3 DEF Reading
    <3> QED
      BY <3>1, OutsideNext
  <2> QED
    BY <2>2, <2>3
<1>4. CASE JsonFits
  <2>1. jState = "reading"
    BY <1>4, FitsIs
  <2>2. Parse(token)
    BY <2>1 DEF ReadToken
  <2> QED
    BY <1>1, <1>4, <2>2, InvToken
<1> QED
  BY <1>2, <1>3, <1>4 DEF JsonInv, Complete

\* What a token leaves in nulled is what is behind it, or nothing.
LEMMA NulledReadToken ==
  ASSUME JsonInv, NulledFits, NEW token \in Token, ReadToken(token)
  PROVE  NulledFits'
<1>1. jText' = Reading(jText, token)
  BY DEF ReadToken
<1>2. CASE jState = "reading" /\ NullBehind(token)
  <2>1. "none" \notin Token /\ "behind" \notin Token
    BY JsonAssumption DEF Token, Leaves, Marks
  <2>2. jNulled' \notin Token
    BY <1>2, <2>1 DEF NullBehind
  <2>3. ASSUME jText'.awaits = "nothing" PROVE jNulled' = "none"
    <3>1. CASE token # "other"
      BY <1>2, <3>1 DEF NullBehind
    <3>2. CASE token = "other"
      <4>1. "other" \notin JsonString /\ token \in Leaves
        BY <3>2, JsonAssumption DEF Leaves
      <4>2. CASE jText.awaits = "value"
        <5>1. jText' = [Ended(jText.open, jText.path, token) EXCEPT !.leaf = jText.path]
          BY <1>1, <3>2, <4>1, <4>2 DEF Reading
        <5>2. jText'.awaits # "nothing"
          BY <3>2, <5>1 DEF Ended, Text
        <5> QED
          BY <2>3, <5>2
      <4>3. CASE jText.awaits # "value"
        <5>1. jText' = Outside
          BY <1>1, <3>2, <4>1, <4>3 DEF Reading
        <5> QED
          BY <2>3, <5>1 DEF Outside, Text
      <4> QED
        BY <4>2, <4>3
    <3> QED
      BY <3>1, <3>2
  <2> QED
    BY <2>2, <2>3 DEF NulledFits
<1>3. CASE jState = "done" /\ BehindValue(token)
  <2>1. jState' # "reading"
    BY <1>3 DEF BehindValue, Fail
  <2>2. ASSUME jText'.awaits = "nothing" PROVE jText.awaits = "nothing"
    <3>1. ~JsonFits
      BY <1>3 DEF JsonFits
    <3>2. CASE jText.awaits \in {"anything", "end"}
      <4>1. jText'.awaits = "anything"
        BY <1>1, <3>2 DEF Reading, Outside, Text
      <4> QED
        BY <2>2, <4>1
    <3> QED
      BY <3>1, <3>2 DEF JsonInv, Complete
  <2>3. ASSUME jText.awaits = "nothing" PROVE jNulled' = "none"
    BY <1>3, <2>3 DEF BehindValue, NulledFits
  <2> QED
    BY <2>1, <2>2, <2>3 DEF NulledFits
<1> QED
  BY <1>2, <1>3 DEF ReadToken

\* What another text left is read only in a text that is not followed.
LEMMA InvReadKept ==
  ASSUME NulledFits, ReadKept
  PROVE  JsonInv' /\ NulledFits'
<1>1. jText'.awaits = "anything"
  BY DEF ReadKept, NulledFits
<1> QED
  BY <1>1 DEF JsonInv, NulledFits

\* The end of a text is no error: it makes a whole text accepted.
LEMMA InvEndOfText ==
  ASSUME EndOfText
  PROVE  JsonInv' /\ NulledFits'
<1>1. jState' = "accepted" /\ jLeaf' = JsonNoName
  BY DEF EndOfText
<1>2. CASE Complete(jText)
  <2>1. jText' = Text(jText.open, jText.path, jText.awaits)
    BY <1>2 DEF EndOfText
  <2>2. jText'.awaits \in {"nothing", "end"} /\ jText'.leaf = JsonNoName
    BY <1>2, <2>1 DEF Text, Complete
  <2> QED
    BY <1>1, <2>2 DEF JsonInv, Complete, NulledFits
<1>3. CASE ~Complete(jText)
  <2>1. jText' = Outside
    BY <1>3 DEF EndOfText
  <2> QED
    BY <1>1, <2>1, OutsideNext DEF NulledFits
<1> QED
  BY <1>2, <1>3

\* What json-doc begins with.
LEMMA NewDocument ==
  /\ CallsFit(<<NewCall>>, <<>>, "value") /\ LevelsFit(NewLevels, 0, <<>>, "value")
  /\ \E d : Nested(<<>>, <<>>, d)
<1>1. CallsFit(<<NewCall>>, <<>>, "value")
  <2>1. NewCall \in JsonCall
    BY DEF NewCall, JsonCall
  <2> QED
    BY <2>1 DEF CallsFit
<1>2. LevelsFit(NewLevels, 0, <<>>, "value")
  <2>1. NewLevels \in [Level -> JsonStep]
    BY DEF NewLevels, JsonStep
  <2>2. \A i \in Level : NewLevels[i].index = -1
    BY DEF NewLevels
  <2> QED
    BY <2>1, <2>2 DEF LevelsFit
<1>3. Nested(<<>>, <<>>, [i \in 0 .. 0 |-> 0])
  <2> DEFINE d == [i \in 0 .. 0 |-> 0]
  <2>1. d \in [0 .. 0 -> Nat] /\ d[0] = 0 /\ \A i \in 0 .. 0 : i = 0
    OBVIOUS
  <2> HIDE DEF d
  <2>2. Depths(d, <<>>)
    BY <2>1 DEF Depths
  <2>3. <<>> \in Seq({"object", "array"}) /\ <<>> \in Seq(JsonStep)
        /\ Len(<<>>) = 0 /\ 0 <= JsonNested - 2
    BY JsonAssumption
  <2>4. Nested(<<>>, <<>>, d)
    BY <2>1, <2>2, <2>3 DEF Nested
  <2> QED
    BY <2>4 DEF d
<1> QED
  BY <1>1, <1>2, <1>3

\* json-doc of a text begins at its first value, whatever the one before left, if nulled
\* is empty.
LEMMA InvJsonDoc ==
  ASSUME JsonDoc
  PROVE  JsonInv' /\ NulledFits'
<1>1. CASE jNulled = "none"
  <2>1. /\ jCalls' = <<NewCall>> /\ jList' = NewLevels /\ jLevel' = 0 /\ jNulled' = "none"
        /\ jLeaf' = JsonNoName /\ jState' = "reading" /\ jText' = Text(<<>>, <<>>, "value")
    BY <1>1 DEF JsonDoc, NewText
  <2>2. jText'.open = <<>> /\ jText'.path = <<>> /\ jText'.awaits = "value"
        /\ jText'.leaf = JsonNoName
    BY <2>1 DEF Text
  <2>3. CallsFit(jCalls', jText'.open, "value") /\ LevelsFit(jList', jLevel', jText'.path, "value")
    BY <2>1, <2>2, NewDocument
  <2>4. \E d : Nested(jText'.open, jText'.path, d)
    BY <2>2, NewDocument
  <2>5. JsonFits'
    BY <2>1, <2>2, <2>3, <2>4 DEF JsonFits
  <2>6. "none" \notin Token
    BY JsonAssumption DEF Token, Leaves, Marks
  <2> QED
    BY <2>1, <2>5, <2>6 DEF JsonInv, NulledFits
<1>2. CASE jNulled # "none"
  <2>1. jText' = Outside
    BY <1>2 DEF JsonDoc
  <2> QED
    BY <2>1, OutsideNext DEF NulledFits, Outside, Text
<1> QED
  BY <1>1, <1>2

\* The first text is read from the same state.
LEMMA InvInit ==
  ASSUME JsonInit
  PROVE  JsonInv /\ NulledFits
<1>1. /\ jCalls = <<NewCall>> /\ jList = NewLevels /\ jLevel = 0 /\ jNulled = "none"
      /\ jLeaf = JsonNoName /\ jState = "reading" /\ jText = Text(<<>>, <<>>, "value")
  BY DEF JsonInit, NewText
<1>2. jText.open = <<>> /\ jText.path = <<>> /\ jText.awaits = "value" /\ jText.leaf = JsonNoName
  BY <1>1 DEF Text
<1>3. CallsFit(jCalls, jText.open, "value") /\ LevelsFit(jList, jLevel, jText.path, "value")
  BY <1>1, <1>2, NewDocument
<1>4. \E d : Nested(jText.open, jText.path, d)
  BY <1>2, NewDocument
<1>5. JsonFits
  BY <1>1, <1>2, <1>3, <1>4 DEF JsonFits
<1>6. "none" \notin Token
  BY JsonAssumption DEF Token, Leaves, Marks
<1> QED
  BY <1>1, <1>5, <1>6 DEF JsonInv, NulledFits

\* Whatever comes next, the calls and the levels go on with what the text says.
LEMMA InvJson ==
  ASSUME JsonInv, NulledFits, [JsonNext]_jsonVars
  PROVE  JsonInv' /\ NulledFits'
<1>1. ASSUME NEW token \in Token, ReadToken(token) PROVE JsonInv' /\ NulledFits'
  BY <1>1, InvReadToken, NulledReadToken
<1>2. CASE ReadKept
  BY <1>2, InvReadKept
<1>3. CASE EndOfText
  BY <1>3, InvEndOfText
<1>4. CASE JsonDoc
  BY <1>4, InvJsonDoc
<1>5. CASE UNCHANGED jsonVars
  BY <1>5 DEF jsonVars, JsonInv, JsonFits, NulledFits, Complete
<1> QED
  BY <1>1, <1>2, <1>3, <1>4, <1>5 DEF JsonNext

\* In every text whose first character is not taken for one another text left in nulled,
\* and whatever list[] has of values deeper down, rim_json_new() gives each leaf the names
\* and indexes the text gives it, makes no other node, refuses no text of the kinds it is
\* followed for, and ends the value where the text does.
THEOREM JsonNamesLeaves == JsonSpec => []JsonReadsText
<1>1. JsonInit => JsonInv /\ NulledFits
  BY InvInit
<1>2. JsonInv /\ NulledFits /\ [JsonNext]_jsonVars => (JsonInv /\ NulledFits)'
  BY InvJson
<1>3. JsonInv => JsonReadsText
  BY DEF JsonInv, JsonFits, JsonReadsText, Complete
<1> QED
  BY <1>1, <1>2, <1>3, PTL DEF JsonSpec

=============================================================================
