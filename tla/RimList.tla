------------------------------- MODULE RimList -------------------------------
(***************************************************************************)
(* The linked list of src/rimrtc.c: nodes linked both ways, the first, the *)
(* last and the current one. One action per statement of src/v1.c:         *)
(* write-list, read-list (with update), delete-list, position-list,        *)
(* purge-list, get-list. An element's key and value are one string.        *)
(***************************************************************************)
EXTENDS Integers, Sequences, FiniteSets, Chains

CONSTANTS ListNode, ListString, ListNull

ASSUME ListAssumption == ListNull \notin ListNode /\ IsFiniteSet(ListNode)

VARIABLES
  lNext, lPrev,   \* ->next and ->prev of every node
  lData,          \* ->data
  lUsed,          \* the nodes that are allocated
  lFirst, lLast, lCurr,  \* first, last, curr
  lNumOf,         \* num_of
  lAnswer         \* the last statement and what it told the program

lChainVars == <<lNext, lPrev, lUsed, lFirst, lLast, lNumOf>>
listVars == <<lChainVars, lCurr, lData, lAnswer>>

-----------------------------------------------------------------------------
(* The statements.                                                         *)

\* malloc() may return any node that is not in use.
NewItem(np, x) ==
  /\ np \notin lUsed
  /\ lUsed' = lUsed \cup {np}
  /\ lData' = [lData EXCEPT ![np] = x]
  /\ lCurr' = np
  /\ lNumOf' = lNumOf + 1
  /\ lAnswer' = <<"write">>

\* rim_list_store() in an empty list
WriteOnly(np, x) ==
  /\ lNumOf = 0
  /\ NewItem(np, x)
  /\ lFirst' = np /\ lLast' = np
  /\ lNext' = [lNext EXCEPT ![np] = ListNull]
  /\ lPrev' = [lPrev EXCEPT ![np] = ListNull]

\* behind the last element
WriteLast(np, x, append) ==
  /\ lNumOf # 0 /\ (append \/ lCurr = ListNull)
  /\ NewItem(np, x)
  /\ lNext' = [lNext EXCEPT ![lLast] = np, ![np] = ListNull]
  /\ lPrev' = [lPrev EXCEPT ![np] = lLast]
  /\ lLast' = np
  /\ UNCHANGED lFirst

\* in front of the first element
WriteFirst(np, x) ==
  /\ lNumOf # 0 /\ lCurr = lFirst
  /\ NewItem(np, x)
  /\ lNext' = [lNext EXCEPT ![np] = lFirst]
  /\ lPrev' = [lPrev EXCEPT ![lFirst] = np, ![np] = ListNull]
  /\ lFirst' = np
  /\ UNCHANGED lLast

\* in front of another current element
WriteBetween(np, x) ==
  /\ lNumOf # 0 /\ lCurr \notin {ListNull, lFirst}
  /\ NewItem(np, x)
  /\ lNext' = [lNext EXCEPT ![lPrev[lCurr]] = np, ![np] = lCurr]
  /\ lPrev' = [lPrev EXCEPT ![np] = lPrev[lCurr], ![lCurr] = np]
  /\ UNCHANGED <<lFirst, lLast>>

\* read-list, with update-key and update-value if x is another string.
ReadList(x) ==
  /\ lCurr # ListNull
  /\ lAnswer' = <<"read", lData[lCurr]>>
  /\ lData' = [lData EXCEPT ![lCurr] = x]
  /\ UNCHANGED <<lChainVars, lCurr>>

ReadNothing(what) ==
  /\ lCurr = ListNull
  /\ lAnswer' = <<what, "ERR_EXIST">>
  /\ UNCHANGED <<lChainVars, lCurr, lData>>

\* Mutant: behind a deleted last element there is no current one.
CurrentAfterNext(temp) == lNext[temp]
\* curr after rim_list_delete(): the next element, or the one before the last.
CurrentAfter(temp) ==
  IF lNext[temp] # ListNull \/ lPrev[temp] = ListNull THEN lNext[temp] ELSE lPrev[temp]

\* rim_list_delete()
DeleteList ==
  LET temp == lCurr
      prev == lPrev[temp]
      next == lNext[temp]
  IN
  /\ temp # ListNull
  /\ lNext' = [p \in ListNode |-> IF p = temp THEN ListNull ELSE IF p = prev THEN next ELSE lNext[p]]
  /\ lPrev' = [p \in ListNode |-> IF p = temp THEN ListNull ELSE IF p = next THEN prev ELSE lPrev[p]]
  /\ lFirst' = IF prev = ListNull THEN next ELSE lFirst
  /\ lLast' = IF next = ListNull THEN prev ELSE lLast
  /\ lCurr' = CurrentAfter(temp)
  /\ lUsed' = lUsed \ {temp}
  /\ lData' = [lData EXCEPT ![temp] = ListNull]
  /\ lNumOf' = lNumOf - 1
  /\ lAnswer' = <<"delete">>

\* position-list
Positioned(curr) ==
  /\ lCurr' = curr
  /\ lAnswer' = <<"position">>
  /\ UNCHANGED <<lChainVars, lData>>

PositionFirst == lNumOf # 0 /\ Positioned(lFirst)
PositionLast == lNumOf # 0 /\ Positioned(lLast)
PositionEnd == lNumOf # 0 /\ Positioned(ListNull)
PositionPrevious ==
  /\ lNumOf # 0 /\ lCurr # lFirst
  /\ Positioned(IF lCurr = ListNull THEN lLast ELSE lPrev[lCurr])
PositionNext == lNumOf # 0 /\ lCurr # ListNull /\ Positioned(lNext[lCurr])

NoPosition ==
  /\ \/ lNumOf = 0
     \/ lCurr = lFirst      \* previous
     \/ lCurr = ListNull    \* next
  /\ lAnswer' = <<"position", "ERR_EXIST">>
  /\ UNCHANGED <<lChainVars, lCurr, lData>>

\* The nodes from first on, in their order.
ListChain == Walk(ListNode, lNext, lFirst, {ListNull})

\* rim_list_purge(): every node from the first on is deleted, and the list is
\* made anew.
PurgeList ==
  /\ lUsed' = lUsed \ {ListChain[i] : i \in DOMAIN ListChain}
  /\ lNext' = [p \in ListNode |-> ListNull] /\ lPrev' = lNext'
  /\ lData' = lNext'
  /\ lFirst' = ListNull /\ lLast' = ListNull /\ lCurr' = ListNull
  /\ lNumOf' = 0
  /\ lAnswer' = <<"purge">>

\* get-list
CountList ==
  /\ lAnswer' = <<"count", lNumOf>>
  /\ UNCHANGED <<lChainVars, lCurr, lData>>

\* rim_list_init()
ListInit ==
  /\ lNext = [p \in ListNode |-> ListNull] /\ lPrev = lNext /\ lData = lNext
  /\ lUsed = {}
  /\ lFirst = ListNull /\ lLast = ListNull /\ lCurr = ListNull
  /\ lNumOf = 0
  /\ lAnswer = <<"new">>

ListNext ==
  \/ \E np \in ListNode, x \in ListString :
       \/ WriteOnly(np, x) \/ WriteFirst(np, x) \/ WriteBetween(np, x)
       \/ \E append \in BOOLEAN : WriteLast(np, x, append)
  \/ \E x \in ListString : ReadList(x)
  \/ ReadNothing("read") \/ ReadNothing("delete") \/ DeleteList
  \/ PositionFirst \/ PositionLast \/ PositionEnd \/ PositionPrevious \/ PositionNext
  \/ NoPosition \/ PurgeList \/ CountList

ListSpec == ListInit /\ [][ListNext]_listVars

-----------------------------------------------------------------------------
(* Properties.                                                             *)

ListAt ==
  IF lCurr = ListNull THEN 0
  ELSE IF \E i \in DOMAIN ListChain : ListChain[i] = lCurr
       THEN CHOOSE i \in DOMAIN ListChain : ListChain[i] = lCurr
       ELSE -1

ListItems == INSTANCE Items WITH
  Item <- ListString, kind <- "list", at <- ListAt, answer <- lAnswer,
  items <- [i \in DOMAIN ListChain |-> lData[ListChain[i]]]

\* Writing in front of the current element, deleting it, positioning both ways
\* and updating in place, in any order, keep the four cases of the pointers
\* consistent: the list is the sequence the program wrote, and the current
\* element is the one the manual tells, at both ends too.
ListIsSequence == ListItems!Spec

=============================================================================
