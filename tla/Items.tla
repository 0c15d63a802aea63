-------------------------------- MODULE Items --------------------------------
(***************************************************************************)
(* What a fifo, a lifo and a linked list promise the program: a sequence   *)
(* of items and a position in it. A fifo and a lifo are as docs/ has them: *)
(* the position is behind the item read last, whenever others are written. *)
(***************************************************************************)
EXTENDS Integers, Sequences, SequencesExt

CONSTANT Item

VARIABLES
  kind,    \* "fifo", "lifo" or "list"
  items,
  at,      \* how many items were read since rewinding (fifo, lifo); the
           \* current item, or 0 for "past the last one" (list)
  answer   \* the last statement and what it told the program

vars == <<kind, items, at, answer>>

Told(what) == answer' = what
Stay == UNCHANGED <<items, at>>
Nothing(what) == Told(<<what, "ERR_EXIST">>) /\ Stay
Clear == items' = <<>> /\ at' = 0 /\ Told(<<"purge">>)

-----------------------------------------------------------------------------
(* Fifo and lifo.                                                          *)

Queue(x) == items' = Append(items, x) /\ UNCHANGED at /\ Told(<<"write">>)
Push(x) == items' = <<x>> \o items /\ at' = 0 /\ Told(<<"write">>)

Read ==
  /\ at # Len(items)
  /\ Told(<<"read", items[at + 1]>>)
  /\ at' = at + 1
  /\ UNCHANGED items

ReadNothing == at = Len(items) /\ Nothing("read")
Rewind == at' = 0 /\ Told(<<"rewind">>) /\ UNCHANGED items

\* The items up to the last one read, including, are dropped, no others.
DropRead ==
  /\ items' = SubSeq(items, at + 1, Len(items))
  /\ at' = 0
  /\ Told(<<"delete">>)

-----------------------------------------------------------------------------
(* List.                                                                   *)

\* The new item stands in front of the current one and becomes current.
Insert(x, append) ==
  LET place == IF append \/ at = 0 THEN Len(items) + 1 ELSE at IN
  /\ items' = InsertAt(items, place, x)
  /\ at' = place
  /\ Told(<<"write">>)

Peek == at # 0 /\ Told(<<"read", items[at]>>) /\ Stay
Update(x) ==
  /\ at # 0
  /\ Told(<<"read", items[at]>>)
  /\ items' = [items EXCEPT ![at] = x]
  /\ UNCHANGED at
PeekNothing == at = 0 /\ (Nothing("read") \/ Nothing("delete"))

\* The next item becomes current, or the previous one if there is no next.
RemoveCurrent ==
  /\ at # 0
  /\ items' = RemoveAt(items, at)
  /\ at' = IF at < Len(items) THEN at ELSE at - 1
  /\ Told(<<"delete">>)

Place(where) == CASE where = "first" -> 1
                  [] where = "last" -> Len(items)
                  [] where = "end" -> 0
                  [] where = "previous" -> IF at = 0 THEN Len(items) ELSE at - 1
                  [] where = "next" -> IF at = Len(items) THEN 0 ELSE at + 1
CanMove(where) ==
  /\ items # <<>>
  /\ where = "previous" => at # 1
  /\ where = "next" => at # 0
Move(where) == CanMove(where) /\ at' = Place(where) /\ Told(<<"position">>) /\ UNCHANGED items
MoveNot(where) == ~CanMove(where) /\ Nothing("position")

Count == Told(<<"count", Len(items)>>) /\ Stay

-----------------------------------------------------------------------------
Init == kind \in {"fifo", "lifo", "list"} /\ items = <<>> /\ at = 0 /\ answer = <<"new">>

FifoNext == Read \/ ReadNothing \/ Rewind \/ DropRead

ListNext ==
  \/ \E x \in Item : Update(x) \/ \E append \in BOOLEAN : Insert(x, append)
  \/ Peek \/ PeekNothing \/ RemoveCurrent \/ Count
  \/ \E where \in {"first", "last", "end", "previous", "next"} : Move(where) \/ MoveNot(where)

Next ==
  /\ \/ kind = "fifo" /\ (FifoNext \/ \E x \in Item : Queue(x))
     \/ kind = "lifo" /\ (FifoNext \/ \E x \in Item : Push(x))
     \/ kind = "list" /\ ListNext
     \/ Clear
  /\ kind' = kind

Spec == Init /\ [][Next]_vars

=============================================================================
