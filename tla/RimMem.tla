------------------------------- MODULE RimMem -------------------------------
(***************************************************************************)
(* The memory manager of RimStone, src/rimmem.c: the table vm[] of memory  *)
(* entries, the list of free entries and the list of ordinary entries that *)
(* share the field next, the index kept in the header of each block, and   *)
(* the reference counts of process-scoped memory.                          *)
(*                                                                         *)
(* An entry leaves the ordinary list by being swapped with the head of the *)
(* list, so blocks move between entries while the program holds pointers   *)
(* to them; only the index in a block's header says where its entry is.    *)
(***************************************************************************)
EXTENDS Integers, FiniteSets

CONSTANTS
  Block,      \* the addresses the C allocator hands out
  NoBlock,    \* the NULL pointer
  MaxVm,      \* bound on the number of entries of vm[]
  MaxRef,     \* RIM_MAX_REF
  ErrorsInStatements  \* whether a statement on a container may report an
                      \* error while rim_mem_process is set for it

ASSUME MemAssumption ==
  /\ NoBlock \notin Block
  /\ MaxVm \in Nat \ {0}
  /\ MaxRef \in Nat \ {0}
  /\ ErrorsInStatements \in BOOLEAN

VARIABLES
  mem,         \* the static state of rimmem.c, see Memory
  heap,        \* the blocks malloc() has handed out and free() not taken back
  memProcess,  \* rim_mem_process
  phase,       \* where the program stands, as in MemBlocks
  walk,        \* the loop variable of rim_done()
  origin,      \* history: what each block was allocated for
  fd           \* history: the descriptor kept in a block

vars == <<mem, heap, memProcess, phase, walk, origin, fd>>

Nil == -1
Slot == 0 .. MaxVm - 1
Link == Slot \cup {Nil}

\* RIM_MEM_DIR behaves as RIM_MEM_FILE and is not kept apart.
Bit == {"free", "file", "process"}

RefCount == -(MaxRef + 1) .. MaxRef
Incr(n) == IF n = MaxRef THEN -(MaxRef + 1) ELSE n + 1

Entry == [ptr : Block \cup {NoBlock}, next : Link, status : SUBSET Bit, ref : RefCount]

\* vm[], vm_curr, vm_first_free, vm_first_ord, and the header id of each block.
Memory == [vm : [Slot -> Entry], curr : 0 .. MaxVm, firstFree : Link,
           firstOrd : Link, id : [Block -> Link]]

\* "undefined": after a Stray removal, see below, nothing is modelled.
Phase == {"idle", "run", "stmt", "shut", "done", "undefined"}
InRequest == phase \in {"run", "stmt", "shut"}

\* "node": allocated by a statement on a container, never seen by the program;
\* "temp": any other memory; "kept": such memory, once a process-scoped
\* object has referred to it.
Origin == {"none", "node", "temp", "kept"}

-----------------------------------------------------------------------------
(* The functions of rimmem.c that change the table.                        *)

Live(m, r) == r < m.curr /\ "free" \notin m.vm[r].status
IsProcess(m, r) == "process" \in m.vm[r].status

\* Mutant: the list keeps its old head.
AddOrdBehind(m, r) == [m EXCEPT !.vm[r].next = m.firstOrd]

\* rim_mem_add_ord
AddOrd(m, r) == [m EXCEPT !.vm[r].next = m.firstOrd, !.firstOrd = r]

\* Mutants: the headers, or the places in the list, are not put right.
SwapHeaders(m, r, h) ==
  [m EXCEPT !.vm = [@ EXCEPT ![r] = [m.vm[h] EXCEPT !.next = m.vm[r].next],
                             ![h] = [m.vm[r] EXCEPT !.next = m.vm[h].next]]]
SwapPlaces(m, r, h) ==
  [m EXCEPT !.vm = [@ EXCEPT ![r] = m.vm[h], ![h] = m.vm[r]],
            !.id = [@ EXCEPT ![m.vm[h].ptr] = r, ![m.vm[r].ptr] = h]]

\* Entries r and h change places; the list still runs through the same
\* places, and the two headers follow their blocks.
Swap(m, r, h) ==
  [m EXCEPT
     !.vm = [@ EXCEPT ![r] = [m.vm[h] EXCEPT !.next = m.vm[r].next],
                      ![h] = [m.vm[r] EXCEPT !.next = m.vm[h].next]],
     !.id = [@ EXCEPT ![m.vm[h].ptr] = m.id[m.vm[r].ptr],
                      ![m.vm[r].ptr] = m.id[m.vm[h].ptr]]]

\* rim_mem_del_ord: afterwards the block of entry r is in entry m.firstOrd.
DelOrd(m, r) ==
  LET s == IF r = m.firstOrd THEN m ELSE Swap(m, r, m.firstOrd)
  IN [s EXCEPT !.firstOrd = m.vm[m.firstOrd].next]

\* rim_mem_release
ReleaseEntry(m, r) ==
  [m EXCEPT !.vm[r] = [@ EXCEPT !.ptr = NoBlock, !.status = {"free"}, !.next = m.firstFree],
            !.firstFree = r]

\* The entry rim_add_mem takes: a free one, or the next unused one.
NextEntry(m) == IF m.firstFree # Nil THEN m.firstFree ELSE m.curr
HasRoom(m) == NextEntry(m) \in Slot

\* rim_add_mem and rim_vmset
AddMem(m, p, isProcess) ==
  LET r == NextEntry(m)
      taken == IF m.firstFree # Nil
               THEN [m EXCEPT !.firstFree = m.vm[r].next]
               ELSE [m EXCEPT !.curr = @ + 1]
      filled == [taken EXCEPT !.vm[r] = [@ EXCEPT !.ptr = p, !.ref = 0,
                                   !.status = IF isProcess THEN {"process"} ELSE {}],
                              !.id[p] = r]
  IN IF isProcess THEN filled ELSE AddOrd(filled, r)

\* Entry r is taken off the ordinary list without being on it: vm[-1] is read
\* and written when the list is empty, the list is broken when it is not.
Stray(m, r) == m.firstOrd = Nil \/ IsProcess(m, r)

-----------------------------------------------------------------------------
(* The request loop, rim_report_error and the statements on containers.    *)

\* rim_SERVICE_Accept returns
Accept ==
  /\ phase = "idle"
  /\ phase' = "run"
  /\ UNCHANGED <<mem, heap, memProcess, walk, origin, fd>>

\* rim_mem_process = (object)->process
BeginStatement(isProcess) ==
  /\ phase = "run"
  /\ phase' = "stmt"
  /\ memProcess' = isProcess
  /\ UNCHANGED <<mem, heap, walk, origin, fd>>

\* Mutant: rim_mem_process is not reset.
EndStatementKeepsScope ==
  /\ phase = "stmt"
  /\ phase' = "run"
  /\ UNCHANGED <<mem, heap, memProcess, walk, origin, fd>>

\* rim_mem_process = 0
EndStatement ==
  /\ phase = "stmt"
  /\ phase' = "run"
  /\ memProcess' = FALSE
  /\ UNCHANGED <<mem, heap, walk, origin, fd>>

MayFail == phase = "run" \/ (ErrorsInStatements /\ phase = "stmt")

ReportError ==
  /\ MayFail
  /\ phase' = "shut"
  /\ UNCHANGED <<mem, heap, memProcess, walk, origin, fd>>

-----------------------------------------------------------------------------
(* The operations on a block.                                              *)

Header(p) == mem.id[p]
Tracked(p) == \E r \in Slot : Live(mem, r) /\ mem.vm[r].ptr = p

\* rim_malloc, rim_calloc, rim_strdup: opens says whether the block is the
\* cell of open-file or open-dir and its descriptor was opened.
Malloc(p, opens) ==
  /\ InRequest
  /\ p \notin heap
  /\ HasRoom(mem)
  /\ opens => phase = "run"
  /\ LET m == AddMem(mem, p, memProcess)
     IN mem' = IF opens THEN [m EXCEPT !.vm[m.id[p]].status = @ \cup {"file"}] ELSE m
  /\ heap' = heap \cup {p}
  /\ origin' = [origin EXCEPT ![p] = IF phase = "stmt" THEN "node" ELSE "temp"]
  /\ fd' = [fd EXCEPT ![p] = IF opens THEN "open" ELSE "none"]
  /\ UNCHANGED <<memProcess, phase, walk>>

\* rim_mem_add_ref, for an object whose scope is isProcess
AddRef(p, isProcess) ==
  LET r == Header(p)
      becomes == isProcess /\ ~ IsProcess(mem, r)
  IN
  /\ phase \in {"run", "stmt"}
  /\ Tracked(p) /\ origin[p] # "node" /\ fd[p] = "none"
  /\ ~ (isProcess /\ IsProcess(mem, r) /\ mem.vm[r].ref = MaxRef)
  /\ becomes => ~ Stray(mem, r)
  /\ mem' =
       IF becomes
       THEN [DelOrd(mem, r) EXCEPT
               !.vm[mem.firstOrd].status = @ \cup {"process"}, !.vm[mem.firstOrd].ref = 1]
       ELSE [mem EXCEPT !.vm[r].ref =
               CASE ~ IsProcess(mem, r) -> 1
                 [] isProcess /\ IsProcess(mem, r) -> Incr(@)
                 [] OTHER -> @]
  /\ origin' = [origin EXCEPT ![p] = IF isProcess THEN "kept" ELSE @]
  /\ UNCHANGED <<heap, memProcess, phase, walk, fd>>

\* rim_mem_add_ref beyond RIM_MAX_REF: the count has wrapped by then
AddRefFails(p) ==
  LET r == Header(p) IN
  /\ MayFail
  /\ Tracked(p) /\ origin[p] # "node"
  /\ IsProcess(mem, r) /\ mem.vm[r].ref = MaxRef
  /\ mem' = [mem EXCEPT !.vm[r].ref = Incr(@)]
  /\ phase' = "shut"
  /\ UNCHANGED <<heap, memProcess, walk, origin, fd>>

\* Mutant: the block is not marked as referred to when it becomes ordinary.
DecProcessForgets(p) ==
  LET r == Header(p) IN
  /\ phase \in {"run", "stmt"}
  /\ Tracked(p) /\ IsProcess(mem, r) /\ mem.vm[r].ref \in {0, 1}
  /\ mem' = AddOrd([mem EXCEPT !.vm[r].status = @ \ {"process"}, !.vm[r].ref = 0], r)
  /\ UNCHANGED <<heap, memProcess, phase, walk, origin, fd>>

\* rim_mem_dec_process
DecProcess(p) ==
  LET r == Header(p)
      left == IF mem.vm[r].ref > 0 THEN mem.vm[r].ref - 1 ELSE mem.vm[r].ref
  IN
  /\ phase \in {"run", "stmt"}
  /\ Tracked(p) /\ IsProcess(mem, r)
  /\ mem' = IF left = 0
            THEN AddOrd([mem EXCEPT !.vm[r].status = @ \ {"process"}, !.vm[r].ref = 1], r)
            ELSE [mem EXCEPT !.vm[r].ref = left]
  /\ UNCHANGED <<heap, memProcess, phase, walk, origin, fd>>

\* Block p goes back to the C allocator, its header with it.
Forget(m, p) == [m EXCEPT !.id[p] = Nil]

\* Mutant: the entry is released without free().
GiveBackEntry(p) ==
  /\ mem' = Forget(ReleaseEntry(DelOrd(mem, Header(p)), mem.firstOrd), p)
  /\ origin' = [origin EXCEPT ![p] = "none"]
  /\ fd' = [fd EXCEPT ![p] = "none"]
  /\ UNCHANGED <<heap, memProcess, phase, walk>>

\* The entry of block p leaves the ordinary list and the block is freed.
GiveBack(p) ==
  /\ mem' = Forget(ReleaseEntry(DelOrd(mem, Header(p)), mem.firstOrd), p)
  /\ heap' = heap \ {p}
  /\ origin' = [origin EXCEPT ![p] = "none"]
  /\ fd' = [fd EXCEPT ![p] = "none"]
  /\ UNCHANGED <<memProcess, phase, walk>>

\* Mutant: process-scoped memory is freed as well.
FreeProcess(p) ==
  /\ InRequest
  /\ Tracked(p) /\ IsProcess(mem, Header(p)) /\ mem.vm[Header(p)].ref <= 1
  /\ mem' = Forget(ReleaseEntry(mem, Header(p)), p)
  /\ heap' = heap \ {p}
  /\ origin' = [origin EXCEPT ![p] = "none"]
  /\ UNCHANGED <<memProcess, phase, walk, fd>>

\* rim_free (delete-string and the deletes of whole objects)
Free(p) ==
  LET r == Header(p) IN
  /\ InRequest
  /\ Tracked(p) /\ origin[p] # "node" /\ fd[p] = "none"
  /\ ~ IsProcess(mem, r) /\ mem.vm[r].ref <= 0
  /\ ~ Stray(mem, r)
  /\ GiveBack(p)

\* rim_free_int, of memory its caller allocated and gave to nobody
FreeInt(p) ==
  /\ InRequest
  /\ Tracked(p) /\ origin[p] = "temp" /\ mem.vm[Header(p)].ref = 0
  /\ ~ Stray(mem, Header(p))
  /\ GiveBack(p)

\* rim_realloc, when the allocator moves the block from p to q. Only memory
\* nothing else refers to grows: that of a container in its statements, or
\* the result a statement is building.
Realloc(p, q) ==
  LET r == Header(p)
      was == IsProcess(mem, r)
      moved == Forget([mem EXCEPT !.vm[r].ptr = q, !.id[q] = r], p)
      gone == IF was THEN ReleaseEntry(moved, r)
              ELSE ReleaseEntry(DelOrd(moved, r), moved.firstOrd)
      new == AddMem(gone, q, memProcess)
  IN
  /\ InRequest
  /\ p # q /\ Tracked(p) /\ fd[p] = "none" /\ mem.vm[r].ref = 0
  /\ CASE origin[p] = "node" -> phase = "stmt" /\ memProcess = was
       [] origin[p] = "temp" -> phase # "stmt" /\ (was => memProcess)
       [] OTHER -> FALSE
  /\ ~ was => ~ Stray(mem, r)
  /\ q \notin heap
  /\ mem' = [new EXCEPT !.vm[new.id[q]].status = IF was THEN @ \cup {"process"} ELSE @,
                        !.vm[new.id[q]].ref = mem.vm[r].ref]
  /\ heap' = (heap \ {p}) \cup {q}
  /\ origin' = [origin EXCEPT ![p] = "none", ![q] = origin[p]]
  /\ UNCHANGED <<memProcess, phase, walk, fd>>

\* rim_free_int and rim_mem_add_ref do not look whether the entry is on the
\* list they take it off, rim_realloc not whether the entry it keeps process-
\* scoped goes on the ordinary list.
StrayRemoval(p) ==
  LET r == Header(p) IN
  /\ Tracked(p) /\ Stray(mem, r)
  /\ \/ InRequest /\ origin[p] = "temp" /\ mem.vm[r].ref = 0
     \/ phase \in {"run", "stmt"} /\ ~ IsProcess(mem, r) /\ origin[p] # "node"
  /\ phase' = "undefined"
  /\ UNCHANGED <<mem, heap, memProcess, walk, origin, fd>>

-----------------------------------------------------------------------------
(* rim_done, at the end of every request.                                  *)

BeginDone ==
  /\ phase \in {"run", "shut"}
  /\ phase' = "done"
  /\ walk' = mem.firstOrd
  /\ UNCHANGED <<mem, heap, memProcess, origin, fd>>

\* Mutant: the loop looks for its next entry at the head of the list.
DoneEntryFromHead ==
  LET p == mem.vm[walk].ptr IN
  /\ phase = "done" /\ walk # Nil
  /\ mem' = Forget(ReleaseEntry(mem, walk), p)
  /\ walk' = mem.firstOrd
  /\ heap' = heap \ {p}
  /\ fd' = [fd EXCEPT ![p] = "none"]
  /\ origin' = [origin EXCEPT ![p] = "none"]
  /\ UNCHANGED <<memProcess, phase>>

\* One turn of the loop: a descriptor is closed, other memory is freed.
DoneEntry ==
  LET p == mem.vm[walk].ptr
      isFile == "file" \in mem.vm[walk].status
  IN
  /\ phase = "done" /\ walk # Nil
  /\ walk' = mem.vm[walk].next
  /\ mem' = IF isFile THEN ReleaseEntry(mem, walk) ELSE Forget(ReleaseEntry(mem, walk), p)
  /\ heap' = IF isFile THEN heap ELSE heap \ {p}
  /\ fd' = [fd EXCEPT ![p] = IF isFile THEN "closed" ELSE "none"]
  /\ origin' = [origin EXCEPT ![p] = "none"]
  /\ UNCHANGED <<memProcess, phase>>

EndDone ==
  /\ phase = "done" /\ walk = Nil
  /\ phase' = "idle"
  /\ mem' = [mem EXCEPT !.firstOrd = Nil]
  /\ UNCHANGED <<heap, memProcess, walk, origin, fd>>

-----------------------------------------------------------------------------
UnusedEntry == [ptr |-> NoBlock, next |-> Nil, status |-> {}, ref |-> 0]

Init ==
  /\ mem = [vm |-> [r \in Slot |-> UnusedEntry], curr |-> 0, firstFree |-> Nil,
            firstOrd |-> Nil, id |-> [p \in Block |-> Nil]]
  /\ heap = {}
  /\ memProcess = FALSE
  /\ phase = "idle"
  /\ walk = Nil
  /\ origin = [p \in Block |-> "none"]
  /\ fd = [p \in Block |-> "none"]

BlockStep(p) ==
  \/ \E opens \in BOOLEAN : Malloc(p, opens)
  \/ \E isProcess \in BOOLEAN : AddRef(p, isProcess)
  \/ AddRefFails(p)
  \/ DecProcess(p)
  \/ Free(p)
  \/ FreeInt(p)
  \/ \E q \in Block : Realloc(p, q)
  \/ StrayRemoval(p)

LoopStep ==
  \/ Accept
  \/ \E isProcess \in BOOLEAN : BeginStatement(isProcess)
  \/ EndStatement
  \/ ReportError
  \/ BeginDone
  \/ DoneEntry
  \/ EndDone

Next == LoopStep \/ \E p \in Block : BlockStep(p)

\* The program's loop and rim_done() go on; user code may stay in a request.
Fairness == WF_vars(DoneEntry) /\ WF_vars(EndDone)

Spec == Init /\ [][Next]_vars /\ Fairness

-----------------------------------------------------------------------------
(* Properties.                                                             *)

\* The type of every variable.
TypeOK ==
  /\ mem \in Memory
  /\ heap \subseteq Block
  /\ memProcess \in BOOLEAN
  /\ phase \in Phase
  /\ walk \in Link
  /\ origin \in [Block -> Origin]
  /\ fd \in [Block -> {"none", "open", "closed"}]

\* Swapping entries never loses track of a block: the header of every block
\* names the one entry that points to the block, whatever entries were
\* swapped under the program's pointers (rim_mem_del_ord).
HeadersFollowBlocks ==
  \A r \in Slot : Live(mem, r) =>
    /\ mem.vm[r].ptr \in heap
    /\ mem.id[mem.vm[r].ptr] = r

\* The entries on a list that starts in slot first, in at most MaxVm steps.
Chain(m, first) ==
  LET follow[n \in 0 .. MaxVm] ==
        IF n = 0 THEN {first} \ {Nil}
        ELSE follow[n - 1] \cup ({m.vm[r].next : r \in follow[n - 1]} \ {Nil})
  IN follow[MaxVm]

\* The two lists that share the field next never mix: outside rim_done() the
\* ordinary list runs through exactly the ordinary entries, the free list
\* through exactly the freed ones, and a process entry is on neither.
ListsAreExact ==
  phase # "done" =>
    /\ Chain(mem, mem.firstOrd) = {r \in Slot : Live(mem, r) /\ ~ IsProcess(mem, r)}
    /\ Chain(mem, mem.firstFree) = {r \in Slot : r < mem.curr /\ "free" \in mem.vm[r].status}

\* No call takes an entry off the ordinary list that is not on it, although
\* rim_free_int and rim_mem_add_ref do not look: on an empty list
\* rim_mem_del_ord would read and write vm[-1].
OnlyListedTaken == phase # "undefined"

\* All memory malloc() handed out has an entry, but for the cells of files
\* and directories that the end of a request has closed.
NothingForgotten ==
  \A p \in heap : Tracked(p) \/ fd[p] = "closed"

\* Between two requests the only memory left is that of process-scoped
\* objects, and every file and directory is closed.
RequestLeavesNothing ==
  phase = "idle" =>
    \A p \in Block :
      /\ Tracked(p) => IsProcess(mem, Header(p)) /\ origin[p] \in {"node", "kept"}
      /\ fd[p] # "open"

\* A process-scoped block is never freed while it is process-scoped: it can
\* only move, or lose its references first.
ProcessBlocksStay ==
  [][\A p \in Block :
       Tracked(p) /\ IsProcess(mem, Header(p)) /\ p \notin heap'
         => \E q \in Block : q \notin heap /\ q \in heap' /\ origin'[q] = "node"]_vars

\* The end of a request always comes to an end (the list has no cycle).
DoneEnds == phase = "done" ~> phase = "idle"

-----------------------------------------------------------------------------
(* The table and its lists implement the scopes of MemBlocks.              *)

ScopeOf(p) == IF ~ Tracked(p) THEN "none"
              ELSE IF IsProcess(mem, Header(p)) THEN "process" ELSE "ordinary"
RefOf(p) == IF Tracked(p) THEN mem.vm[Header(p)].ref ELSE 0

Blocks == INSTANCE MemBlocks WITH
            scope <- [p \in Block |-> ScopeOf(p)],
            ref <- [p \in Block |-> RefOf(p)]

\* Every call keeps the promises of MemBlocks: what happens to a block
\* depends on that block's scope and references alone.
ImplementsBlocks == Blocks!BlocksSpec
=============================================================================
