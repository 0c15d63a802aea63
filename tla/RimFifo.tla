------------------------------- MODULE RimFifo -------------------------------
(***************************************************************************)
(* Fifo and lifo of src/rimrtc.c: a chain of nodes with pointers to the    *)
(* first, the last and the one to retrieve next. One action per statement  *)
(* of src/v1.c: write-fifo or write-lifo, read-, rewind-, delete-, purge-. *)
(* Key and value of an element are one string, that of its node.           *)
(***************************************************************************)
EXTENDS Integers, Sequences, FiniteSets, Chains

CONSTANTS FifoNode, FifoNull

ASSUME FifoAssumption == FifoNull \notin FifoNode /\ IsFiniteSet(FifoNode)

VARIABLES
  fKind,    \* new-fifo or new-lifo
  fNext,    \* ->next of every node
  fUsed,    \* the nodes that are allocated
  fFirst, fLast, fRetrieve,  \* first_ptr, last_ptr, retrieve_ptr
  fNumOf,   \* num_of
  fAnswer,  \* the last statement and what it told the program
  fUnread   \* a history: elements written when all had been read

fEnds == <<fFirst, fLast>>
fifoVars == <<fKind, fNext, fUsed, fFirst, fLast, fRetrieve, fNumOf, fAnswer, fUnread>>

-----------------------------------------------------------------------------
(* The statements.                                                         *)

\* write-fifo, rim_store(). When all elements have been read, retrieve_ptr stays
\* NULL and is past the new one.
WriteFifo(np) ==
  /\ fKind = "fifo" /\ np \notin fUsed
  /\ fUsed' = fUsed \cup {np}
  /\ fNext' = IF fNumOf = 0 THEN [fNext EXCEPT ![np] = FifoNull]
                            ELSE [fNext EXCEPT ![np] = FifoNull, ![fLast] = np]
  /\ fFirst' = IF fNumOf = 0 THEN np ELSE fFirst
  /\ fLast' = np
  /\ fRetrieve' = IF fNumOf = 0 THEN np ELSE fRetrieve
  /\ fUnread' = IF fNumOf # 0 /\ fRetrieve = FifoNull THEN fUnread + 1 ELSE 0
  /\ fNumOf' = fNumOf + 1
  /\ fAnswer' = <<"write">>
  /\ UNCHANGED fKind

\* write-lifo, rim_store_l(): the new element is the next to be read.
WriteLifo(np) ==
  /\ fKind = "lifo" /\ np \notin fUsed
  /\ fUsed' = fUsed \cup {np}
  /\ fNext' = [fNext EXCEPT ![np] = IF fNumOf = 0 THEN FifoNull ELSE fFirst]
  /\ fFirst' = np
  /\ fLast' = IF fNumOf = 0 THEN np ELSE fLast
  /\ fRetrieve' = np
  /\ fNumOf' = fNumOf + 1
  /\ fAnswer' = <<"write">>
  /\ fUnread' = 0
  /\ UNCHANGED fKind

\* rim_retrieve()
ReadFifo ==
  /\ IF fRetrieve = FifoNull
     THEN fAnswer' = <<"read", "ERR_EXIST">> /\ UNCHANGED fRetrieve
     ELSE fAnswer' = <<"read", fRetrieve>> /\ fRetrieve' = fNext[fRetrieve]
  /\ UNCHANGED <<fKind, fNext, fUsed, fEnds, fNumOf, fUnread>>

\* rim_rewind()
RewindFifo ==
  /\ fRetrieve' = fFirst
  /\ fAnswer' = <<"rewind">>
  /\ fUnread' = 0
  /\ UNCHANGED <<fKind, fNext, fUsed, fEnds, fNumOf>>

\* The nodes the loop of rim_fifo_delete() takes out, in their order. The loop
\* stops at "upto", or at the last node.
Leading(upto) == Walk(FifoNode, fNext, fFirst, {upto, FifoNull})

\* Mutant: the count goes down by one, however many nodes are taken out.
CountDeletedOnce(gone) == IF gone = {} THEN fNumOf ELSE fNumOf - 1
CountDeleted(gone) == fNumOf - Cardinality(gone)

\* rim_fifo_delete() with retrieve_ptr = upto
DeleteUpTo(upto) ==
  LET gone == {Leading(upto)[i] : i \in DOMAIN Leading(upto)}
      all == fLast \in gone
  IN
  IF fFirst = FifoNull
  THEN fRetrieve' = upto /\ UNCHANGED <<fNext, fUsed, fEnds, fNumOf>>
  ELSE /\ fFirst' = IF all THEN FifoNull ELSE upto
       /\ fLast' = IF all THEN FifoNull ELSE fLast
       /\ fRetrieve' = IF all THEN FifoNull ELSE upto
       /\ fUsed' = fUsed \ gone
       /\ fNext' = [p \in FifoNode |-> IF p \in gone THEN FifoNull ELSE fNext[p]]
       /\ fNumOf' = CountDeleted(gone)

DeleteFifo ==
  /\ DeleteUpTo(fRetrieve)
  /\ fAnswer' = <<"delete">>
  /\ fUnread' = 0
  /\ UNCHANGED fKind

\* rim_purge(): all are deleted, and the structure is made anew.
PurgeFifo ==
  /\ fUsed' = fUsed \ {Leading(FifoNull)[i] : i \in DOMAIN Leading(FifoNull)}
  /\ fNext' = [p \in FifoNode |-> FifoNull]
  /\ fFirst' = FifoNull /\ fLast' = FifoNull /\ fRetrieve' = FifoNull
  /\ fNumOf' = 0
  /\ fAnswer' = <<"purge">>
  /\ fUnread' = 0
  /\ UNCHANGED fKind

\* rim_store_init()
FifoInit ==
  /\ fKind \in {"fifo", "lifo"}
  /\ fNext = [p \in FifoNode |-> FifoNull]
  /\ fUsed = {}
  /\ fFirst = FifoNull /\ fLast = FifoNull /\ fRetrieve = FifoNull
  /\ fNumOf = 0
  /\ fAnswer = <<"new">>
  /\ fUnread = 0

FifoNext ==
  \/ \E np \in FifoNode : WriteFifo(np) \/ WriteLifo(np)
  \/ ReadFifo \/ RewindFifo \/ DeleteFifo \/ PurgeFifo

FifoSpec == FifoInit /\ [][FifoNext]_fifoVars

-----------------------------------------------------------------------------
(* Properties.                                                             *)

\* The chain from first_ptr, and how many of its nodes retrieve_ptr is past
\* that were read: not those written when it was past all.
FifoChain == Leading(FifoNull)
FifoAt ==
  IF fRetrieve = FifoNull THEN Len(FifoChain) - fUnread
  ELSE IF \E i \in DOMAIN FifoChain : FifoChain[i] = fRetrieve
       THEN (CHOOSE i \in DOMAIN FifoChain : FifoChain[i] = fRetrieve) - 1
       ELSE -1

FifoItems == INSTANCE Items WITH
  Item <- FifoNode, kind <- fKind, items <- FifoChain, at <- FifoAt, answer <- fAnswer

\* When all have been read, docs/read-fifo.2rim says that an element written
\* then is the next to be read, and docs/delete-fifo.2rim that it is not deleted.
\* Unless the program rewinds first, it is not found, and it goes with the others.
PassesUnread ==
  /\ fUnread # 0 /\ UNCHANGED fKind
  /\ \/ FifoItems!Nothing("read")
     \/ FifoChain' = <<>> /\ FifoAt' = 0 /\ fAnswer' = <<"delete">>

\* Whatever statements a program mixes, with that one exception, the nodes and
\* pointers implement a sequence with a reading position: elements come out in
\* the order of their kind, delete takes those read and no others, and no node
\* is lost or used after it. After the exception, too, it is such a sequence.
FifoIsSequence ==
  FifoItems!Init /\ [][FifoItems!Next \/ PassesUnread]_(FifoItems!vars)

=============================================================================
