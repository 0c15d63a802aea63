----------------------------- MODULE MemBlocks -----------------------------
(***************************************************************************)
(* What RimStone's memory manager (src/rimmem.c) promises, without its     *)
(* table of entries, its two threaded lists and its swapping of entries.   *)
(* Every block of memory is in one of three scopes:                        *)
(*   "none"      not allocated,                                            *)
(*   "ordinary"  released at the end of the request at the latest,         *)
(*   "process"   kept across requests until its references are gone.       *)
(* A block has a reference count: of an ordinary block it only says        *)
(* whether something ever referred to it, of a process block it counts     *)
(* the process-scoped objects that refer to it.                            *)
(***************************************************************************)
EXTENDS Integers

CONSTANTS
  Block,   \* the addresses the C allocator hands out
  MaxRef,  \* RIM_MAX_REF, the largest reference count
  ErrorsInStatements  \* whether a statement on a container may report an
                      \* error while rim_mem_process is set for it

VARIABLES
  scope,       \* the scope of each block
  ref,         \* the reference count of each block
  memProcess,  \* rim_mem_process: new memory is process-scoped
  phase        \* where the program stands in its request loop

blockVars == <<scope, ref, memProcess, phase>>

Scope == {"none", "ordinary", "process"}

\* "idle"   between two requests;
\* "run"    user code, between two statements on a container;
\* "stmt"   in a statement on a list, array, hash or tree;
\* "shut"   the request has reported an error, only its shutdown is left;
\* "done"   rim_done() is releasing ordinary memory.
Phase == {"idle", "run", "stmt", "shut", "done"}

InRequest == phase \in {"run", "stmt", "shut"}

\* A reference count is a 9-bit signed field: it wraps above MaxRef.
RefCount == -(MaxRef + 1) .. MaxRef
Incr(n) == IF n = MaxRef THEN -(MaxRef + 1) ELSE n + 1

Allocated(p) == scope[p] # "none"

BlocksTypeOK ==
  /\ scope \in [Block -> Scope]
  /\ ref \in [Block -> RefCount]
  /\ memProcess \in BOOLEAN
  /\ phase \in Phase

BlocksInit ==
  /\ scope = [p \in Block |-> "none"]
  /\ ref = [p \in Block |-> 0]
  /\ memProcess = FALSE
  /\ phase = "idle"

-----------------------------------------------------------------------------
(* The request loop and the statements on containers.                      *)

Accept ==
  /\ phase = "idle"
  /\ phase' = "run"
  /\ UNCHANGED <<scope, ref, memProcess>>

BeginStatement(isProcess) ==
  /\ phase = "run"
  /\ phase' = "stmt"
  /\ memProcess' = isProcess
  /\ UNCHANGED <<scope, ref>>

EndStatement ==
  /\ phase = "stmt"
  /\ phase' = "run"
  /\ memProcess' = FALSE
  /\ UNCHANGED <<scope, ref>>

\* Where an error may be reported.
MayFail == phase = "run" \/ (ErrorsInStatements /\ phase = "stmt")

\* The error jumps to the end of the request; out of a statement it jumps
\* over the assignment that resets rim_mem_process.
ReportError ==
  /\ MayFail
  /\ phase' = "shut"
  /\ UNCHANGED <<scope, ref, memProcess>>

BeginDone ==
  /\ phase \in {"run", "shut"}
  /\ phase' = "done"
  /\ UNCHANGED <<scope, ref, memProcess>>

DoneBlock(p) ==
  /\ phase = "done"
  /\ scope[p] = "ordinary"
  /\ scope' = [scope EXCEPT ![p] = "none"]
  /\ ref' = [ref EXCEPT ![p] = 0]
  /\ UNCHANGED <<memProcess, phase>>

EndDone ==
  /\ phase = "done"
  /\ \A p \in Block : scope[p] # "ordinary"
  /\ phase' = "idle"
  /\ UNCHANGED <<scope, ref, memProcess>>

-----------------------------------------------------------------------------
(* The operations on a block.                                              *)

Alloc(p) ==
  /\ InRequest
  /\ scope[p] = "none"
  /\ scope' = [scope EXCEPT ![p] = IF memProcess THEN "process" ELSE "ordinary"]
  /\ ref' = [ref EXCEPT ![p] = 0]
  /\ UNCHANGED <<memProcess, phase>>

\* The block is assigned to a variable or stored in an object.
Refer(p, isProcess) ==
  /\ phase \in {"run", "stmt"}
  /\ Allocated(p)
  /\ ~ (isProcess /\ scope[p] = "process" /\ ref[p] = MaxRef)
  /\ scope' = [scope EXCEPT ![p] = IF isProcess THEN "process" ELSE @]
  /\ ref' = [ref EXCEPT ![p] = CASE scope[p] = "ordinary" -> 1
                                 [] scope[p] = "process" /\ isProcess -> Incr(@)
                                 [] OTHER -> @]
  /\ UNCHANGED <<memProcess, phase>>

\* One reference too many: the count has wrapped when the error is reported.
ReferFails(p) ==
  /\ MayFail
  /\ scope[p] = "process" /\ ref[p] = MaxRef
  /\ ref' = [ref EXCEPT ![p] = Incr(@)]
  /\ phase' = "shut"
  /\ UNCHANGED <<scope, memProcess>>

\* A process-scoped object no longer refers to the block. The block is never
\* freed here: at most it becomes ordinary memory.
Unrefer(p) ==
  /\ phase \in {"run", "stmt"}
  /\ scope[p] = "process"
  /\ LET left == IF ref[p] > 0 THEN ref[p] - 1 ELSE ref[p]
     IN /\ scope' = [scope EXCEPT ![p] = IF left = 0 THEN "ordinary" ELSE @]
        /\ ref' = [ref EXCEPT ![p] = IF left = 0 THEN 1 ELSE left]
  /\ UNCHANGED <<memProcess, phase>>

\* Memory is given back before the end of the request.
Release(p) ==
  /\ InRequest
  /\ scope[p] = "ordinary"
  /\ ref[p] <= 0
  /\ scope' = [scope EXCEPT ![p] = "none"]
  /\ ref' = [ref EXCEPT ![p] = 0]
  /\ UNCHANGED <<memProcess, phase>>

\* The block grows and the allocator moves it from p to q.
Move(p, q) ==
  /\ InRequest
  /\ Allocated(p) /\ ~ Allocated(q)
  /\ scope' = [scope EXCEPT ![p] = "none",
                            ![q] = IF memProcess THEN "process" ELSE scope[p]]
  /\ ref' = [ref EXCEPT ![p] = 0, ![q] = ref[p]]
  /\ UNCHANGED <<memProcess, phase>>

BlocksNext ==
  \/ Accept \/ EndStatement \/ ReportError \/ BeginDone \/ EndDone
  \/ \E b \in BOOLEAN : BeginStatement(b)
  \/ \E p \in Block :
       \/ DoneBlock(p) \/ Alloc(p) \/ ReferFails(p) \/ Unrefer(p) \/ Release(p)
       \/ \E b \in BOOLEAN : Refer(p, b)
       \/ \E q \in Block : Move(p, q)

BlocksSpec == BlocksInit /\ [][BlocksNext]_blockVars
=============================================================================
