------------------------------- MODULE RimArr --------------------------------
(***************************************************************************)
(* The array of src/arr.c: memory that grows with the largest index        *)
(* written. One action per statement of src/v1.c: write-array, read-array  *)
(* (with delete), sort-array, purge-array. The four element types differ   *)
(* in their default only.                                                  *)
(*                                                                         *)
(* An index that is refused ends the request with an error and leaves the  *)
(* array alone. A program may only delete at an index below alloc_elem:    *)
(* past it the generated code writes outside of the memory.                *)
(***************************************************************************)
EXTENDS Integers, TLC

CONSTANTS
  ArrInc,         \* RIM_ARRAY_INC
  ArrBig,         \* 65536: below it the memory doubles, from it on it is added
  ArrDefaultMax,  \* 1000000
  ArrMaxSizes,    \* what a program gives as max-size
  ArrVal,         \* values, in the order sort-array knows
  ArrDefault      \* the empty string, 0, 0.0 or false

ASSUME ArrAssumption ==
  /\ ArrInc \in Nat \ {0} /\ ArrBig \in Nat \ {0} /\ ArrDefaultMax \in Nat
  /\ ArrMaxSizes \subseteq Nat
  /\ ArrVal \subseteq Int /\ ArrDefault \in ArrVal

VARIABLES
  aMax, aAlloc, aTot,  \* max_elem, alloc_elem, tot_elem
  aMem,                \* str, num, dbl or logic
  aGiven               \* what a program would find at each index had it an
                       \* array of max_elem elements from the start

arrVars == <<aMax, aAlloc, aTot, aMem, aGiven>>

-----------------------------------------------------------------------------
Larger(a, b) == IF a > b THEN a ELSE b
Smaller(a, b) == IF a < b THEN a ELSE b

\* max_elem for a given max-size
MaxElem(size) == Larger(IF size = 0 THEN ArrDefaultMax ELSE size, ArrInc)

\* alloc_elem after rim_write_array...() of an index behind it
AllocFor(key) == Smaller(IF key < ArrBig THEN key * 2 ELSE key + ArrBig, aMax)

\* realloc: the new part is set to the default.
Enlarged(alloc) ==
  [i \in 0 .. alloc - 1 |-> IF i < aAlloc THEN aMem[i] ELSE ArrDefault]

\* Mutant: an element written behind the last one is counted, the gap is not.
TotalWritten(key) == IF key >= aTot THEN aTot + 1 ELSE aTot
\* tot_elem after an element was written
TotalWith(key) == IF key >= aTot THEN key + 1 ELSE aTot

\* write-array
WriteArray(key, v) ==
  /\ key < aMax
  /\ aAlloc' = IF key >= aAlloc THEN AllocFor(key) ELSE aAlloc
  /\ aMem' = IF key >= aAlloc THEN [Enlarged(AllocFor(key)) EXCEPT ![key] = v]
                              ELSE [aMem EXCEPT ![key] = v]
  /\ aTot' = TotalWith(key)
  /\ aGiven' = [aGiven EXCEPT ![key] = v]
  /\ UNCHANGED aMax

\* read-array: behind alloc_elem there are defaults.
ReadArray(key) == IF key >= aAlloc THEN ArrDefault ELSE aMem[key]

\* read-array with delete
DeleteArray(key) ==
  /\ key < aAlloc
  /\ aMem' = [aMem EXCEPT ![key] = ArrDefault]
  /\ aGiven' = [aGiven EXCEPT ![key] = ArrDefault]
  /\ UNCHANGED <<aMax, aAlloc, aTot>>

\* f with its first n elements in the order p.
Reordered(f, n, p) == [i \in DOMAIN f |-> IF i < n THEN f[p[i]] ELSE f[i]]

\* sort-array sorts the first tot_elem elements.
SortArray(p) ==
  /\ p \in [0 .. aTot - 1 -> 0 .. aTot - 1]
  /\ \A i, j \in 0 .. aTot - 1 : i < j => aMem[p[i]] <= aMem[p[j]]
  /\ aMem' = Reordered(aMem, aTot, p)
  /\ aGiven' = Reordered(aGiven, aTot, p)
  /\ UNCHANGED <<aMax, aAlloc, aTot>>

\* rim_init_array()
Emptied(max) ==
  /\ aMax' = max
  /\ aAlloc' = ArrInc
  /\ aTot' = 0
  /\ aMem' = [i \in 0 .. ArrInc - 1 |-> ArrDefault]
  /\ aGiven' = [i \in 0 .. max - 1 |-> ArrDefault]

\* purge-array
PurgeArray == Emptied(MaxElem(aMax))

\* new-array
ArrInit ==
  /\ \E size \in ArrMaxSizes : aMax = MaxElem(size)
  /\ aAlloc = ArrInc
  /\ aTot = 0
  /\ aMem = [i \in 0 .. ArrInc - 1 |-> ArrDefault]
  /\ aGiven = [i \in 0 .. aMax - 1 |-> ArrDefault]

ArrNext ==
  \/ \E key \in 0 .. aMax - 1 : DeleteArray(key) \/ \E v \in ArrVal : WriteArray(key, v)
  \/ \E p \in Permutations(0 .. aTot - 1) : SortArray(p)
  \/ PurgeArray

ArrSpec == ArrInit /\ [][ArrNext]_arrVars

-----------------------------------------------------------------------------
(* Properties.                                                             *)

\* Whatever the array's memory has grown to, by doubling, by a fixed addition
\* or up to its maximum, every index within max-size reads as what was written
\* there, and none of it stands behind the elements that are counted, which
\* are those sort-array sorts.
ArrayHoldsGiven ==
  /\ \A key \in 0 .. aMax - 1 : ReadArray(key) = aGiven[key]
  /\ \A key \in aTot .. aMax - 1 : aGiven[key] = ArrDefault

=============================================================================
