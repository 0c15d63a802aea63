------------------------------ MODULE Dictionary ------------------------------
(***************************************************************************)
(* What a hash promises the program: a function from keys to values, and a *)
(* traversal that gives every element not yet traversed once. An element   *)
(* added during a traversal may or may not be met by it, one deleted is    *)
(* not.                                                                    *)
(***************************************************************************)
EXTENDS FiniteSets

CONSTANTS Key, Val

VARIABLES
  dict,    \* the elements
  left,    \* the keys the traversal has not met yet
  answer   \* the last statement and what it told the program

vars == <<dict, left, answer>>

Without(k) == [x \in DOMAIN dict \ {k} |-> dict[x]]

Store(k, v, wantsOld) ==
  /\ dict' = [x \in DOMAIN dict \cup {k} |-> IF x = k THEN v ELSE dict[x]]
  /\ left' \in IF k \in DOMAIN dict THEN {left} ELSE {left, left \cup {k}}
  /\ answer' = IF k \in DOMAIN dict /\ wantsOld THEN <<"write", dict[k]>> ELSE <<"write">>

Missing(k) ==
  /\ k \notin DOMAIN dict
  /\ answer' = <<"read", "ERR_EXIST">>
  /\ UNCHANGED <<dict, left>>

Lookup(k) ==
  /\ k \in DOMAIN dict
  /\ answer' = <<"read", dict[k]>>
  /\ UNCHANGED <<dict, left>>

Delete(k) ==
  /\ k \in DOMAIN dict
  /\ answer' = <<"delete", dict[k]>>
  /\ dict' = Without(k)
  /\ left' = left \ {k}

Begin ==
  /\ left' = DOMAIN dict
  /\ answer' = <<"begin">>
  /\ UNCHANGED dict

Visit(k) ==
  /\ k \in left
  /\ answer' = <<"traverse", k, dict[k]>>
  /\ left' = left \ {k}
  /\ dict' \in {dict, Without(k)}

End ==
  /\ left = {}
  /\ answer' = <<"traverse", "ERR_EXIST">>
  /\ UNCHANGED <<dict, left>>

\* A resize says nothing about a traversal that goes on after it.
Rearrange ==
  /\ left' \in SUBSET DOMAIN dict
  /\ answer' = <<"resize">>
  /\ UNCHANGED dict

Clear ==
  /\ dict' = [x \in {} |-> x]
  /\ left' = {}
  /\ answer' = <<"purge">>

Count ==
  /\ answer' = <<"length", Cardinality(DOMAIN dict)>>
  /\ UNCHANGED <<dict, left>>

Init == dict = [x \in {} |-> x] /\ left = {} /\ answer = <<"new">>

Next ==
  \/ \E k \in Key : \/ \E v \in Val, wantsOld \in BOOLEAN : Store(k, v, wantsOld)
                    \/ Missing(k) \/ Lookup(k) \/ Delete(k) \/ Visit(k)
  \/ Begin \/ End \/ Rearrange \/ Clear \/ Count

Spec == Init /\ [][Next]_vars

=============================================================================
