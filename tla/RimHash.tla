------------------------------- MODULE RimHash -------------------------------
(***************************************************************************)
(* The hash of src/hash.c: an array of linked lists, new elements at the   *)
(* head of theirs, and the position of a traversal kept in three pointers, *)
(* dnext (the list), dcurr (the element to read next) and dprev (the one   *)
(* before it). One action per statement src/v1.c translates to calls of    *)
(* hash.c: write-hash, read-hash (by key, or traverse), resize-hash,       *)
(* purge-hash, get-hash.                                                   *)
(*                                                                         *)
(* The hash is process-scoped, so that it holds references: those on the   *)
(* values are counted here, those on the keys change at the same places.   *)
(* The statistics of get-hash (hits, reads) are left out, and the smallest *)
(* size, 256, is one of HashSizes.                                         *)
(***************************************************************************)
EXTENDS Integers, Sequences, FiniteSetsExt

CONSTANTS
  HashKey, HashVal,  \* strings used as keys, and as values
  HashSizes,         \* the sizes a hash is created with or resized to
  HashOf,            \* rim_compute_hash() before the modulo, for each key
  HashMaxRef,        \* RIM_MAX_REF
  NoItem, Freed,     \* a pointer that is NULL; one to memory that was freed
  Disturbs           \* the program changes the list around the position

ASSUME HashAssumption ==
  /\ HashSizes \subseteq Nat \ {0} /\ HashSizes # {}
  /\ HashOf \in [HashKey -> Nat]
  /\ HashMaxRef \in Nat
  /\ {NoItem, Freed} \cap HashKey = {} /\ NoItem # Freed
  /\ Disturbs \in BOOLEAN

VARIABLES
  hTable,     \* table[]: lists of elements, an element known by its key
  hData,      \* data of each element
  hTot,       \* tot
  hNext, hCurr, hPrev, \* dnext, dcurr, dprev
  hRefs,      \* references the hash and the program hold on the values
  hAnswer     \* the last statement and what it told the program

hCursor == <<hNext, hCurr, hPrev>>
hashVars == <<hTable, hData, hTot, hNext, hCurr, hPrev, hRefs, hAnswer>>

-----------------------------------------------------------------------------
(* The lists.                                                              *)

NumBuckets == Cardinality(DOMAIN hTable)
Bucket(k, n) == HashOf[k] % n
ListOf(k) == hTable[Bucket(k, NumBuckets)]

KeysOf(list) == {list[i] : i \in DOMAIN list}
PlaceOf(k, list) == CHOOSE i \in DOMAIN list : list[i] = k
After(k, list) == SubSeq(list, PlaceOf(k, list) + 1, Len(list))

\* The i-th element of a list as a pointer; table[i] and ->next of element k.
ItemAt(list, i) == IF i \in DOMAIN list THEN list[i] ELSE NoItem
First(list) == ItemAt(list, 1)
Following(k, list) == ItemAt(list, PlaceOf(k, list) + 1)

Present == UNION {KeysOf(hTable[b]) : b \in DOMAIN hTable}
Holding(v) == {k \in Present : hData[k] = v}

\* rim_del_hash_entry(): the list after "todel" is taken out behind "prev".
\* The write through a pointer to freed memory leaves the list as it is.
Unlinked(todel, prev, list) ==
  IF prev = NoItem THEN After(todel, list)
  ELSE IF prev = Freed THEN list
  ELSE SubSeq(list, 1, PlaceOf(prev, list)) \o After(todel, list)

\* Mutant: when its element is deleted the position is forgotten.
PositionForgotten(todel) == IF hCurr = todel THEN NoItem ELSE hCurr
\* dcurr after rim_del_hash_entry()
PositionAfter(todel) ==
  IF hCurr = todel THEN Following(todel, ListOf(todel)) ELSE hCurr

Taken(r, v) == [r EXCEPT ![v] = @ + 1]
Dropped(r, v) == [r EXCEPT ![v] = @ - 1]

-----------------------------------------------------------------------------
(* The statements.                                                         *)

\* write-hash of a key that is not there. A program that does not disturb a
\* traversal adds nothing in front of a first element it is about to read.
WriteNew(k, v) ==
  LET b == Bucket(k, NumBuckets) IN
  /\ k \notin Present
  /\ ~Disturbs => ~(b = hNext /\ hCurr # NoItem /\ hPrev = NoItem)
  /\ hRefs[v] < HashMaxRef
  /\ hTable' = [hTable EXCEPT ![b] = <<k>> \o @]
  /\ hData' = [hData EXCEPT ![k] = v]
  /\ hTot' = hTot + 1
  /\ hRefs' = Taken(hRefs, v)
  /\ hAnswer' = <<"write">>
  /\ UNCHANGED hCursor

\* Mutant: no reference is taken on a value that replaces another one.
RefsReplacedOnly(old, new, wantsOld) ==
  IF wantsOld THEN hRefs ELSE [hRefs EXCEPT ![old] = IF @ > 0 THEN @ - 1 ELSE 0]
\* With old-value, the reference on the replaced value goes to the program.
RefsReplaced(old, new, wantsOld) ==
  IF wantsOld THEN Taken(hRefs, new) ELSE Dropped(Taken(hRefs, new), old)

\* write-hash of a key that is there.
WriteOver(k, v, wantsOld) ==
  /\ k \in Present
  /\ hRefs[v] < HashMaxRef
  /\ hData' = [hData EXCEPT ![k] = v]
  /\ hRefs' = RefsReplaced(hData[k], v, wantsOld)
  /\ hAnswer' = IF wantsOld THEN <<"write", hData[k]>> ELSE <<"write">>
  /\ UNCHANGED <<hTable, hTot, hCursor>>

NotFound(k) ==
  /\ k \notin Present
  /\ hAnswer' = <<"read", "ERR_EXIST">>
  /\ UNCHANGED <<hTable, hData, hTot, hCursor, hRefs>>

\* read-hash by key
ReadHash(k) ==
  /\ k \in Present
  /\ hAnswer' = <<"read", hData[k]>>
  /\ UNCHANGED <<hTable, hData, hTot, hCursor, hRefs>>

\* read-hash by key with delete: rim_find_hash() knows the element in front.
\* A program that does not disturb a traversal does not delete the element in
\* front of the one to be read next.
ReadDelete(k) ==
  LET b == Bucket(k, NumBuckets)
      prev == ItemAt(hTable[b], PlaceOf(k, hTable[b]) - 1)
  IN
  /\ k \in Present
  /\ ~Disturbs => ~(hPrev = k /\ hCurr # NoItem)
  /\ hAnswer' = <<"delete", hData[k]>>
  /\ hTable' = [hTable EXCEPT ![b] = Unlinked(k, prev, @)]
  /\ hData' = [hData EXCEPT ![k] = NoItem]
  /\ hTot' = hTot - 1
  /\ hCurr' = PositionAfter(k)
  /\ hPrev' = IF hPrev = k THEN Freed ELSE hPrev
  /\ hRefs' = Dropped(hRefs, hData[k])
  /\ UNCHANGED hNext

\* read-hash traverse begin
BeginHash ==
  /\ hNext' = 0 /\ hCurr' = First(hTable[0]) /\ hPrev' = NoItem
  /\ hAnswer' = <<"begin">>
  /\ UNCHANGED <<hTable, hData, hTot, hRefs>>

\* Where rim_next_hash() finds the element to read: at dcurr, or first in the
\* next list that is not empty, or nowhere (dnext is then the number of lists).
Ahead == {i \in DOMAIN hTable : i > hNext /\ hTable[i] # <<>>}
ReadAt ==
  IF hCurr # NoItem THEN [list |-> hNext, at |-> hCurr, prev |-> hPrev]
  ELSE IF Ahead = {} THEN [list |-> NumBuckets, at |-> NoItem, prev |-> NoItem]
  ELSE [list |-> Min(Ahead), at |-> First(hTable[Min(Ahead)]), prev |-> NoItem]

\* read-hash traverse at the end. At the end already, dprev is left alone.
TraverseEnd ==
  /\ hNext = NumBuckets \/ ReadAt.at = NoItem
  /\ hNext' = NumBuckets
  /\ hPrev' = IF hNext = NumBuckets THEN hPrev ELSE NoItem
  /\ hAnswer' = <<"traverse", "ERR_EXIST">>
  /\ UNCHANGED <<hTable, hData, hTot, hCurr, hRefs>>

\* read-hash traverse
Traverse ==
  LET k == ReadAt.at IN
  /\ hNext # NumBuckets /\ k # NoItem
  /\ hAnswer' = <<"traverse", k, hData[k]>>
  /\ hNext' = ReadAt.list
  /\ hPrev' = k
  /\ hCurr' = Following(k, ListOf(k))
  /\ UNCHANGED <<hTable, hData, hTot, hRefs>>

\* read-hash traverse with delete: the references go to the program.
TraverseDelete ==
  LET k == ReadAt.at IN
  /\ hNext # NumBuckets /\ k # NoItem
  /\ hAnswer' = <<"traverse", k, hData[k]>>
  /\ hNext' = ReadAt.list
  /\ hTable' = [hTable EXCEPT ![ReadAt.list] = Unlinked(k, ReadAt.prev, @)]
  /\ hData' = [hData EXCEPT ![k] = NoItem]
  /\ hCurr' = Following(k, ListOf(k))
  /\ hPrev' = ReadAt.prev
  /\ hTot' = hTot - 1
  /\ UNCHANGED hRefs

\* What rim_create_hash() leaves: a position in front of list 0, but past
\* whatever comes to stand in it.
Rewound == hNext' = 0 /\ hCurr' = NoItem /\ hPrev' = NoItem

\* A traversal meets k before m.
Earlier(k, m) ==
  LET b == Bucket(k, NumBuckets)
      c == Bucket(m, NumBuckets)
  IN b < c \/ (b = c /\ PlaceOf(k, hTable[b]) < PlaceOf(m, hTable[b]))

\* Of "keys", the i-th from the end of a traversal.
FromEnd(i, keys) ==
  CHOOSE k \in keys : Cardinality({m \in keys : ~ Earlier(m, k)}) = i

\* The keys that go to list b of a table of n, in the order of a traversal, each to
\* the head of the list.
Moved(b, n) ==
  LET keys == {k \in Present : Bucket(k, n) = b}
  IN [i \in 1 .. Cardinality(keys) |-> FromEnd(i, keys)]

\* The references after every element was added to another table: those of
\* the old table are not dropped.
RefsAgain == [v \in HashVal |-> hRefs[v] + Cardinality(Holding(v))]

\* resize-hash
ResizeHash(n) ==
  /\ \A v \in HashVal : RefsAgain[v] <= HashMaxRef
  /\ hTable' = [b \in 0 .. n - 1 |-> Moved(b, n)]
  /\ hTot' = Cardinality(Present)
  /\ hRefs' = RefsAgain
  /\ Rewound
  /\ hAnswer' = <<"resize">>
  /\ UNCHANGED hData

\* purge-hash
PurgeHash ==
  /\ hTable' = [b \in DOMAIN hTable |-> <<>>]
  /\ hData' = [k \in HashKey |-> NoItem]
  /\ hTot' = 0
  /\ hRefs' = [v \in HashVal |-> hRefs[v] - Cardinality(Holding(v))]
  /\ Rewound
  /\ hAnswer' = <<"purge">>

\* get-hash
GetLength ==
  /\ hAnswer' = <<"length", hTot>>
  /\ UNCHANGED <<hTable, hData, hTot, hCursor, hRefs>>

\* new-hash
HashInit ==
  /\ \E n \in HashSizes : hTable = [b \in 0 .. n - 1 |-> <<>>]
  /\ hData = [k \in HashKey |-> NoItem]
  /\ hTot = 0
  /\ hNext = 0 /\ hCurr = NoItem /\ hPrev = NoItem
  /\ hRefs = [v \in HashVal |-> 0]
  /\ hAnswer = <<"new">>

HashNext ==
  \/ \E k \in HashKey, v \in HashVal :
       \/ WriteNew(k, v)
       \/ \E wantsOld \in BOOLEAN : WriteOver(k, v, wantsOld)
  \/ \E k \in HashKey : NotFound(k) \/ ReadHash(k) \/ ReadDelete(k)
  \/ BeginHash \/ TraverseEnd \/ Traverse \/ TraverseDelete
  \/ \E n \in HashSizes : ResizeHash(n)
  \/ PurgeHash \/ GetLength

HashSpec == HashInit /\ [][HashNext]_hashVars

-----------------------------------------------------------------------------
(* Properties.                                                             *)

\* The elements a traversal meets from the position on.
LeftInHash ==
  (IF hCurr = NoItem THEN {} ELSE {hCurr} \cup KeysOf(After(hCurr, ListOf(hCurr))))
    \cup UNION {KeysOf(hTable[i]) : i \in {j \in DOMAIN hTable : j > hNext}}

\* Buckets, chains and the three pointers implement a dictionary whose
\* traversal meets every element not yet met exactly once, also when elements
\* are added, replaced, searched and deleted meanwhile.
HashDictionary == INSTANCE Dictionary WITH
  Key <- HashKey, Val <- HashVal, left <- LeftInHash, answer <- hAnswer,
  dict <- [k \in Present |-> hData[k]]
HashIsDictionary == HashDictionary!Spec

\* The hash never holds a value on which fewer references are counted than
\* elements have it: a request's end would free the value under the hash.
HashHoldsValues == \A v \in HashVal : Cardinality(Holding(v)) <= hRefs[v]

\* Adding and deleting elements while a hash is traversed loses no element:
\* what the length counts can be reached.
NothingLost == hTot = Cardinality(Present)

=============================================================================
