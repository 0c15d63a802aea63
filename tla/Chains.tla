------------------------------- MODULE Chains --------------------------------
(* Nodes that are linked by pointers, as the fifo and the list of          *)
(* src/rimrtc.c have them.                                                 *)
EXTENDS Integers, Sequences, FiniteSets

\* The nodes that are met from "first" on, in their order, before a pointer that
\* is one of "stops". They are no more than all.
Walk(Node, next, first, stops) ==
  LET K == Cardinality(Node)
      Behind == [p \in Node \cup stops |-> IF p \in stops THEN p ELSE next[p]]
      met[i \in 1 .. K] == IF i = 1 THEN first ELSE Behind[met[i - 1]]
  IN IF first \in stops THEN <<>>
     ELSE [i \in {k \in 1 .. K : met[k] \notin stops} |-> met[i]]

=============================================================================
