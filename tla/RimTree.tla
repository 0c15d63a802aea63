------------------------------- MODULE RimTree -------------------------------
(***************************************************************************)
(* The tree of src/tree.c: a balanced binary tree with the heights stored  *)
(* in its nodes and, unless it is "unsorted", a list that links the nodes  *)
(* in the order of their keys. One action per statement of src/v1.c:       *)
(* write-tree, read-tree, delete-tree, use-cursor, purge-tree; the cursor  *)
(* is one that a program keeps from a "new-cursor" clause.                 *)
(*                                                                         *)
(* A node is known by the key it holds; a deletion that moves a key into   *)
(* another node renames that node. Values move with their keys and are     *)
(* left out. The height a rotation stores in the parent is measured again  *)
(* before it is read, and is left out.                                     *)
(***************************************************************************)
EXTENDS Integers, Sequences, SequencesExt

CONSTANTS
  TreeKey,   \* keys: numbers stand for strings in the order of their bytes
  NoNode     \* a pointer that is NULL, or a cursor that must not be used

ASSUME TreeAssumption == TreeKey \subseteq Int /\ NoNode \notin TreeKey

VARIABLES
  tSorted,         \* sorted
  tRoot,           \* tree->lesser_node; NoNode for a root with key_present = 0
  tPrev, tNext,    \* dlist[RIM_TREE_LESSER_LIST], dlist[RIM_TREE_GREATER_LIST]
  tMin, tMax,      \* min, max
  tCount,          \* count
  tCurrent,        \* ->current of the cursor
  tHeld            \* the keys written and not deleted, whatever became of them

tLinks == <<tPrev, tNext, tMin, tMax>>
treeVars == <<tSorted, tRoot, tLinks, tCount, tCurrent, tHeld>>

-----------------------------------------------------------------------------
(* Heights and rotations.                                                  *)

Leaf(k) == [key |-> k, height |-> 1, lesser |-> NoNode, greater |-> NoNode]

HeightOf(t) == IF t = NoNode THEN 0 ELSE t.height
Higher(a, b) == IF a > b THEN a ELSE b
\* rim_tree_height()
Measured(t) == [t EXCEPT !.height = 1 + Higher(HeightOf(t.lesser), HeightOf(t.greater))]

\* The node that comes up keeps the height it had stored.
RotateRight(t) ==
  [t.lesser EXCEPT !.greater = Measured([t EXCEPT !.lesser = t.lesser.greater])]
RotateLeft(t) ==
  [t.greater EXCEPT !.lesser = Measured([t EXCEPT !.greater = t.greater.lesser])]

LeansGreater(t) == HeightOf(t.greater) > HeightOf(t.lesser)
LeansLesser(t) == HeightOf(t.lesser) > HeightOf(t.greater)

\* Mutant: the nearer child is never rotated first.
BalanceOnce(tree) ==
  LET t == Measured(tree)
      factor == HeightOf(t.lesser) - HeightOf(t.greater)
  IN CASE factor >= 2 -> RotateRight(t)
       [] factor <= -2 -> RotateLeft(t)
       [] OTHER -> t
\* rim_tree_balance()
Balance(tree) ==
  LET t == Measured(tree)
      factor == HeightOf(t.lesser) - HeightOf(t.greater)
  IN CASE factor >= 2 ->
            RotateRight(IF LeansGreater(t.lesser) THEN [t EXCEPT !.lesser = RotateLeft(@)] ELSE t)
       [] factor <= -2 ->
            RotateLeft(IF LeansLesser(t.greater) THEN [t EXCEPT !.greater = RotateRight(@)] ELSE t)
       [] OTHER -> t

BalanceIf(t) == IF t = NoNode THEN NoNode ELSE Balance(t)

\* On the way up first the child is balanced, then the node.
LesserBalanced(t, child) == Balance([t EXCEPT !.lesser = BalanceIf(child)])
GreaterBalanced(t, child) == Balance([t EXCEPT !.greater = BalanceIf(child)])

-----------------------------------------------------------------------------
(* Insertion, deletion and search in the tree alone.                       *)

\* rim_tree_insert(): nothing is measured where a leaf was hung. A key that is
\* there stays as it is, but the way to it is balanced.
RECURSIVE Inserted(_, _)
Inserted(t, k) ==
  CASE t = NoNode -> Leaf(k)
    [] k < t.key -> IF t.lesser = NoNode THEN [t EXCEPT !.lesser = Leaf(k)]
                    ELSE LesserBalanced(t, Inserted(t.lesser, k))
    [] k > t.key -> IF t.greater = NoNode THEN [t EXCEPT !.greater = Leaf(k)]
                    ELSE GreaterBalanced(t, Inserted(t.greater, k))
    [] OTHER -> t

RECURSIVE LeastKey(_), GreatestKey(_)
LeastKey(t) == IF t.lesser = NoNode THEN t.key ELSE LeastKey(t.lesser)
GreatestKey(t) == IF t.greater = NoNode THEN t.key ELSE GreatestKey(t.greater)

\* rim_tree_find_leaf_del(): what is left of t without its least key.
RECURSIVE WithoutLeast(_)
WithoutLeast(t) ==
  IF t.lesser = NoNode THEN t.greater ELSE LesserBalanced(t, WithoutLeast(t.lesser))

\* rim_tree_delete()
RECURSIVE Deleted(_, _)
Deleted(t, k) ==
  CASE k < t.key /\ t.lesser # NoNode -> LesserBalanced(t, Deleted(t.lesser, k))
    [] k > t.key /\ t.greater # NoNode -> GreaterBalanced(t, Deleted(t.greater, k))
    [] k = t.key /\ t.greater = NoNode -> t.lesser
    [] k = t.key /\ t.greater # NoNode ->
         GreaterBalanced([t EXCEPT !.key = LeastKey(t.greater)], WithoutLeast(t.greater))
    [] OTHER -> t

RECURSIVE SubtreeOf(_, _)
SubtreeOf(t, k) ==
  IF t = NoNode \/ t.key = k THEN t
  ELSE SubtreeOf(IF k < t.key THEN t.lesser ELSE t.greater, k)
InTree(k) == SubtreeOf(tRoot, k) # NoNode

\* The node a leaf for k is hung under.
RECURSIVE ParentFor(_, _)
ParentFor(t, k) ==
  LET child == IF k < t.key THEN t.lesser ELSE t.greater
  IN IF child = NoNode THEN t.key ELSE ParentFor(child, k)

RECURSIVE SearchLesserFrom(_, _, _, _)
SearchLesserFrom(t, k, equal, best) ==
  IF t = NoNode THEN best
  ELSE IF k < t.key \/ (k = t.key /\ ~equal) THEN SearchLesserFrom(t.lesser, k, equal, best)
  ELSE IF k = t.key THEN k ELSE SearchLesserFrom(t.greater, k, equal, t.key)

\* Mutant: the last lesser key met on the way is not remembered.
SearchLesserLeaf(k, equal) ==
  LET t == SubtreeOf(tRoot, k)
  IN IF t # NoNode /\ equal THEN k
     ELSE IF t = NoNode \/ t.lesser = NoNode THEN NoNode ELSE GreatestKey(t.lesser)
\* rim_tree_search_lesser_equal(), rim_tree_search_greater_equal()
SearchLesser(k, equal) == SearchLesserFrom(tRoot, k, equal, NoNode)

RECURSIVE SearchGreaterFrom(_, _, _, _)
SearchGreaterFrom(t, k, equal, best) ==
  IF t = NoNode THEN best
  ELSE IF k < t.key THEN SearchGreaterFrom(t.lesser, k, equal, t.key)
  ELSE IF k = t.key /\ equal THEN k ELSE SearchGreaterFrom(t.greater, k, equal, best)
SearchGreater(k, equal) == SearchGreaterFrom(tRoot, k, equal, NoNode)

-----------------------------------------------------------------------------
(* The list of nodes.                                                      *)

\* f[k] = x, where k is a node
Put(f, k, x) == IF k = NoNode THEN f ELSE [f EXCEPT ![k] = x]

\* A leaf k is linked on its side of the node it is hung under.
Linked(k) ==
  LET p == ParentFor(tRoot, k)
      before == IF k < p THEN tPrev[p] ELSE p
      after == IF k < p THEN p ELSE tNext[p]
  IN
  /\ tPrev' = Put([tPrev EXCEPT ![k] = before], after, k)
  /\ tNext' = Put([tNext EXCEPT ![k] = after], before, k)
  /\ tMin' = IF before = NoNode THEN k ELSE tMin
  /\ tMax' = IF after = NoNode THEN k ELSE tMax

\* Node k is freed.
Unlink(k) ==
  /\ tPrev' = Put([tPrev EXCEPT ![k] = NoNode], tNext[k], tPrev[k])
  /\ tNext' = Put([tNext EXCEPT ![k] = NoNode], tPrev[k], tNext[k])
  /\ tMin' = IF tPrev[k] = NoNode THEN tNext[k] ELSE tMin
  /\ tMax' = IF tNext[k] = NoNode THEN tPrev[k] ELSE tMax

\* Mutant: the place of the leaf is read before the found node left the list.
TakesPlaceStale(found, leaf) ==
  LET prev == Put(tPrev, tNext[found], tPrev[found])
      next == Put(tNext, tPrev[found], tNext[found])
      Named(x) == IF x = found THEN leaf ELSE x
  IN
  /\ tPrev' = [Put(prev, next[leaf], leaf) EXCEPT ![leaf] = Named(tPrev[leaf]), ![found] = NoNode]
  /\ tNext' = [Put(next, prev[leaf], leaf) EXCEPT ![leaf] = next[leaf], ![found] = NoNode]
  /\ tMin' = IF prev[leaf] = NoNode THEN leaf ELSE tMin
  /\ tMax' = IF next[leaf] = NoNode THEN leaf ELSE tMax
\* rim_tree_find_leaf_del(): node "found" leaves its place in the list, then
\* takes that of "leaf", with whose key it goes on; the leaf is freed.
TakesPlace(found, leaf) ==
  LET prev == Put(tPrev, tNext[found], tPrev[found])
      next == Put(tNext, tPrev[found], tNext[found])
  IN
  /\ tPrev' = [Put(prev, next[leaf], leaf) EXCEPT ![leaf] = prev[leaf], ![found] = NoNode]
  /\ tNext' = [Put(next, prev[leaf], leaf) EXCEPT ![leaf] = next[leaf], ![found] = NoNode]
  /\ tMin' = IF prev[leaf] = NoNode THEN leaf ELSE tMin
  /\ tMax' = IF next[leaf] = NoNode THEN leaf ELSE tMax

-----------------------------------------------------------------------------
(* The statements.                                                         *)

\* write-tree, with new-cursor or without
WriteTree(k, newCursor) ==
  /\ ~InTree(k)
  /\ tRoot' = Inserted(tRoot, k)
  /\ IF ~tSorted THEN UNCHANGED tLinks
     ELSE IF tRoot = NoNode THEN tMin' = k /\ tMax' = k /\ UNCHANGED <<tPrev, tNext>>
     ELSE Linked(k)
  /\ tCount' = tCount + 1
  /\ tCurrent' = IF newCursor THEN k ELSE tCurrent
  /\ tHeld' = tHeld \cup {k}
  /\ UNCHANGED tSorted

\* write-tree of a key that is there: RIM_ERR_EXIST
WriteAgain(k) ==
  /\ InTree(k)
  /\ tRoot' = Inserted(tRoot, k)
  /\ UNCHANGED <<tSorted, tLinks, tCount, tCurrent, tHeld>>

\* delete-tree of a node without a greater one: the node is freed.
DeleteNode(k) ==
  /\ InTree(k) /\ SubtreeOf(tRoot, k).greater = NoNode
  /\ tRoot' = Deleted(tRoot, k)
  /\ IF tSorted THEN Unlink(k) ELSE UNCHANGED tLinks
  /\ tCurrent' = IF tCurrent = k THEN NoNode ELSE tCurrent
  /\ tCount' = tCount - 1
  /\ tHeld' = tHeld \ {k}
  /\ UNCHANGED tSorted

\* delete-tree of another node: it takes the next key over, from a leaf that
\* is freed. A cursor at the node shows that key; one at the leaf dangles.
DeleteKey(k) ==
  /\ InTree(k) /\ SubtreeOf(tRoot, k).greater # NoNode
  /\ LET leaf == LeastKey(SubtreeOf(tRoot, k).greater) IN
       /\ IF tSorted THEN TakesPlace(k, leaf) ELSE UNCHANGED tLinks
       /\ tCurrent' = CASE tCurrent = k -> leaf [] tCurrent = leaf -> NoNode [] OTHER -> tCurrent
  /\ tRoot' = Deleted(tRoot, k)
  /\ tCount' = tCount - 1
  /\ tHeld' = tHeld \ {k}
  /\ UNCHANGED tSorted

\* delete-tree of a key that is not there: RIM_ERR_EXIST
DeleteMissing(k) ==
  /\ ~InTree(k)
  /\ tRoot' = IF tRoot = NoNode THEN NoNode ELSE Deleted(tRoot, k)
  /\ UNCHANGED <<tSorted, tLinks, tCount, tCurrent, tHeld>>

\* read-tree with new-cursor: the clauses min-key, max-key, equal, lesser,
\* lesser-equal, greater, greater-equal
ReadMin == IF tSorted THEN tMin ELSE LeastKey(tRoot)
ReadMax == IF tSorted THEN tMax ELSE GreatestKey(tRoot)
ReadEqual(k) == IF InTree(k) THEN k ELSE NoNode

ReadTree(found) ==
  /\ tCount # 0
  /\ tCurrent' = found
  /\ UNCHANGED <<tSorted, tRoot, tLinks, tCount, tHeld>>

\* use-cursor get-lesser, get-greater
StepLesser == IF tSorted THEN tPrev[tCurrent] ELSE SearchLesser(tCurrent, FALSE)
StepGreater == IF tSorted THEN tNext[tCurrent] ELSE SearchGreater(tCurrent, FALSE)

UseCursor(found) ==
  /\ tCurrent' = IF found = NoNode THEN tCurrent ELSE found
  /\ UNCHANGED <<tSorted, tRoot, tLinks, tCount, tHeld>>

\* purge-tree: the least node is deleted until there is none.
PurgeTree ==
  /\ tRoot' = NoNode
  /\ tPrev' = [k \in TreeKey |-> NoNode] /\ tNext' = tPrev'
  /\ tMin' = NoNode /\ tMax' = NoNode
  /\ tCount' = 0 /\ tCurrent' = NoNode /\ tHeld' = {}
  /\ UNCHANGED tSorted

\* new-tree
TreeInit ==
  /\ tSorted \in BOOLEAN
  /\ tRoot = NoNode
  /\ tPrev = [k \in TreeKey |-> NoNode] /\ tNext = tPrev
  /\ tMin = NoNode /\ tMax = NoNode
  /\ tCount = 0 /\ tCurrent = NoNode /\ tHeld = {}

TreeNext ==
  \/ \E k \in TreeKey :
       \/ \E newCursor \in BOOLEAN : WriteTree(k, newCursor)
       \/ WriteAgain(k) \/ DeleteNode(k) \/ DeleteKey(k) \/ DeleteMissing(k)
       \/ ReadTree(ReadEqual(k))
       \/ \E equal \in BOOLEAN :
            ReadTree(SearchLesser(k, equal)) \/ ReadTree(SearchGreater(k, equal))
  \/ ReadTree(ReadMin) \/ ReadTree(ReadMax)
  \/ tCurrent # NoNode /\ (UseCursor(StepLesser) \/ UseCursor(StepGreater))
  \/ PurgeTree

TreeSpec == TreeInit /\ [][TreeNext]_treeVars

-----------------------------------------------------------------------------
(* Properties.                                                             *)

RECURSIVE NodesOf(_), KeysInOrder(_), RealHeight(_)
NodesOf(t) == IF t = NoNode THEN {} ELSE {t} \cup NodesOf(t.lesser) \cup NodesOf(t.greater)
KeysInOrder(t) ==
  IF t = NoNode THEN <<>> ELSE KeysInOrder(t.lesser) \o <<t.key>> \o KeysInOrder(t.greater)
RealHeight(t) ==
  IF t = NoNode THEN 0 ELSE 1 + Higher(RealHeight(t.lesser), RealHeight(t.greater))

\* The node a rotation brings up keeps the height it had below, and a node
\* that gets its first leaf is not measured: still, whatever is written and
\* deleted, in any order, every node below the root has its height stored, and
\* nowhere do the heights of the two sides differ by more than one.
TreeIsBalanced ==
  \A t \in NodesOf(tRoot) :
    /\ t # tRoot => t.height = RealHeight(t)
    /\ RealHeight(t.lesser) - RealHeight(t.greater) \in -1 .. 1

\* The tree, the list in both directions, its ends and the count tell the same
\* keys in the same order: those written and not deleted.
TreeHoldsKeys ==
  LET keys == KeysInOrder(tRoot) IN
  /\ ToSet(keys) = tHeld
  /\ \A i, j \in DOMAIN keys : i < j => keys[i] < keys[j]
  /\ tCount = Len(keys)
  /\ tSorted /\ keys # <<>> =>
       /\ tMin = keys[1] /\ tMax = keys[Len(keys)]
       /\ \A i \in DOMAIN keys :
            /\ tPrev[keys[i]] = IF i = 1 THEN NoNode ELSE keys[i - 1]
            /\ tNext[keys[i]] = IF i = Len(keys) THEN NoNode ELSE keys[i + 1]

Greatest(S) == IF S = {} THEN NoNode ELSE Max(S)
Least(S) == IF S = {} THEN NoNode ELSE Min(S)

\* Every search finds the neighbour of its key among those held, and so does a
\* cursor, in a sorted and in an unsorted tree: also one whose node took another
\* key over in a deletion.
NeighboursAreFound ==
  /\ \A k \in TreeKey :
       /\ SearchLesser(k, FALSE) = Greatest({j \in tHeld : j < k})
       /\ SearchLesser(k, TRUE) = Greatest({j \in tHeld : j <= k})
       /\ SearchGreater(k, FALSE) = Least({j \in tHeld : j > k})
       /\ SearchGreater(k, TRUE) = Least({j \in tHeld : j >= k})
  /\ tCurrent # NoNode =>
       /\ tCurrent \in tHeld
       /\ StepLesser = Greatest({j \in tHeld : j < tCurrent})
       /\ StepGreater = Least({j \in tHeld : j > tCurrent})

=============================================================================
