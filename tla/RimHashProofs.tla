---------------------------- MODULE RimHashProofs ----------------------------
(***************************************************************************)
(* The hash of src/hash.c, for any keys, values, sizes and hash function,  *)
(* and a program that leaves the list of the position alone (Disturbs is   *)
(* FALSE): buckets, chains and the position of a traversal implement a     *)
(* dictionary, and the hash holds a reference on each value it has.        *)
(***************************************************************************)
EXTENDS RimHash, FiniteSetTheorems, WellFoundedInduction, TLAPS

-----------------------------------------------------------------------------
(* Lists of elements.                                                      *)

Distinct(list) == \A i, j \in 1 .. Len(list) : list[i] = list[j] => i = j

\* A key stands at one place of a list: where rim_find_hash() finds it.
LEMMA PlaceIs ==
  ASSUME NEW list \in Seq(HashKey), Distinct(list), NEW i \in 1 .. Len(list)
  PROVE  PlaceOf(list[i], list) = i
<1>1. DOMAIN list = 1 .. Len(list)
  OBVIOUS
<1>2. \A j \in DOMAIN list : list[j] = list[i] <=> j = i
  BY <1>1 DEF Distinct
<1> QED
  BY <1>1, <1>2 DEF PlaceOf

\* What stands at a place of a list, or NULL behind its end.
LEMMA ItemIs ==
  ASSUME NEW list \in Seq(HashKey), NEW i \in Int
  PROVE  /\ i \in 1 .. Len(list) => ItemAt(list, i) = list[i] /\ ItemAt(list, i) # NoItem
         /\ i \notin 1 .. Len(list) => ItemAt(list, i) = NoItem
<1>1. DOMAIN list = 1 .. Len(list)
  OBVIOUS
<1>2. \A j \in 1 .. Len(list) : list[j] \in HashKey
  OBVIOUS
<1> QED
  BY <1>1, <1>2, HashAssumption DEF ItemAt

\* A list with a new element at its head (rim_add_hash()).
LEMMA PushedList ==
  ASSUME NEW list \in Seq(HashKey), Distinct(list),
         NEW k \in HashKey, k \notin KeysOf(list)
  PROVE  LET new == <<k>> \o list IN
         /\ new \in Seq(HashKey) /\ Len(new) = Len(list) + 1 /\ Distinct(new)
         /\ new[1] = k /\ \A i \in 1 .. Len(list) : new[i + 1] = list[i]
         /\ KeysOf(new) = KeysOf(list) \cup {k}
<1> DEFINE new == <<k>> \o list
<1>1. new \in Seq(HashKey) /\ Len(new) = Len(list) + 1
  OBVIOUS
<1>2. new[1] = k /\ \A i \in 1 .. Len(list) : new[i + 1] = list[i]
  OBVIOUS
<1>3. Len(list) \in Nat /\ DOMAIN list = 1 .. Len(list) /\ DOMAIN new = 1 .. Len(list) + 1
  BY <1>1
<1> HIDE DEF new
<1>4. \A i \in 2 .. Len(list) + 1 : i - 1 \in 1 .. Len(list) /\ new[i] = list[i - 1]
  <2> TAKE i \in 2 .. Len(list) + 1
  <2>1. i - 1 \in 1 .. Len(list) /\ (i - 1) + 1 = i
    BY <1>3
  <2> QED
    BY <1>2, <2>1
<1>5. Distinct(new)
  <2> SUFFICES ASSUME NEW i \in 1 .. Len(list) + 1, NEW j \in 1 .. Len(list) + 1,
                      new[i] = new[j]
               PROVE  i = j
    BY <1>1 DEF Distinct
  <2>1. \A m \in 1 .. Len(list) : list[m] # k
    BY <1>3 DEF KeysOf
  <2>2. CASE i = 1
    BY <1>2, <1>3, <1>4, <2>1, <2>2
  <2>3. CASE j = 1
    BY <1>2, <1>3, <1>4, <2>1, <2>3
  <2>4. CASE i # 1 /\ j # 1
    <3>1. i \in 2 .. Len(list) + 1 /\ j \in 2 .. Len(list) + 1
      BY <1>3, <2>4
    <3>2. i - 1 = j - 1
      BY <1>4, <3>1 DEF Distinct
    <3> QED
      BY <3>1, <3>2
  <2> QED
    BY <2>2, <2>3, <2>4
<1>6. KeysOf(new) = KeysOf(list) \cup {k}
  <2>1. \A x \in KeysOf(new) : x \in KeysOf(list) \cup {k}
    BY <1>2, <1>3, <1>4 DEF KeysOf
  <2>2. k \in KeysOf(new)
    BY <1>2, <1>3 DEF KeysOf
  <2>3. \A x \in KeysOf(list) : x \in KeysOf(new)
    <3> TAKE x \in KeysOf(list)
    <3>1. PICK i \in 1 .. Len(list) : x = list[i]
      BY <1>3 DEF KeysOf
    <3>2. new[i + 1] = x /\ i + 1 \in DOMAIN new
      BY <1>2, <1>3, <3>1
    <3> QED
      BY <3>2 DEF KeysOf
  <2> QED
    BY <2>1, <2>2, <2>3
<1> QED
  BY <1>1, <1>2, <1>5, <1>6 DEF new

\* A list without its i-th element, which rim_del_hash_entry() takes out behind
\* the one in front of it.
LEMMA UnlinkedList ==
  ASSUME NEW list \in Seq(HashKey), Distinct(list), NEW i \in 1 .. Len(list)
  PROVE  LET rest == Unlinked(list[i], ItemAt(list, i - 1), list) IN
         /\ rest \in Seq(HashKey) /\ Len(rest) = Len(list) - 1 /\ Distinct(rest)
         /\ \A j \in 1 .. i - 1 : rest[j] = list[j]
         /\ \A j \in i .. Len(list) - 1 : rest[j] = list[j + 1]
         /\ KeysOf(rest) = KeysOf(list) \ {list[i]}
<1> DEFINE rest == Unlinked(list[i], ItemAt(list, i - 1), list)
           front == SubSeq(list, 1, i - 1)
           back == SubSeq(list, i + 1, Len(list))
<1>1. Len(list) \in Nat /\ i \in Nat /\ i >= 1 /\ i <= Len(list) /\ DOMAIN list = 1 .. Len(list)
  OBVIOUS
<1>2. front \in Seq(HashKey) /\ Len(front) = i - 1 /\ \A j \in 1 .. i - 1 : front[j] = list[j]
  BY <1>1
<1>3. /\ back \in Seq(HashKey) /\ Len(back) = Len(list) - i
      /\ \A j \in 1 .. Len(list) - i : back[j] = list[i + j]
  <2>1. Len(list) \in Nat /\ i \in Nat /\ 1 <= i /\ i <= Len(list)
    OBVIOUS
  <2>2. back \in Seq(HashKey)
    BY <2>1
  <2>3. Len(back) = Len(list) - i
    BY <2>1
  <2>4. \A j \in 1 .. Len(list) - i : back[j] = list[i + j]
    BY <2>1
  <2> QED
    BY <2>2, <2>3, <2>4
<1>4. After(list[i], list) = back
  BY PlaceIs DEF After, back
<1>5. rest = front \o back
  <2>1. CASE i = 1
    <3>1. ItemAt(list, i - 1) = NoItem
      BY <1>1, <2>1, ItemIs
    <3>2. front = <<>>
      BY <1>2, <2>1
    <3> HIDE DEF back
    <3>3. <<>> \o back = back
      BY <1>3
    <3> QED
      BY <1>4, <3>1, <3>2, <3>3 DEF Unlinked, rest
  <2>2. CASE i # 1
    <3>1. i - 1 \in 1 .. Len(list)
      BY <1>1, <2>2
    <3>2. ItemAt(list, i - 1) = list[i - 1] /\ list[i - 1] # NoItem /\ list[i - 1] # Freed
      BY <3>1, ItemIs, HashAssumption
    <3>3. PlaceOf(list[i - 1], list) = i - 1
      BY <3>1, PlaceIs
    <3> QED
      BY <1>4, <3>2, <3>3 DEF Unlinked, rest, front
  <2> QED
    BY <2>1, <2>2
<1> HIDE DEF rest, front, back
<1>6. rest \in Seq(HashKey) /\ Len(rest) = Len(list) - 1
  <2>1. front \o back \in Seq(HashKey) /\ Len(front \o back) = Len(front) + Len(back)
    BY <1>2, <1>3
  <2> QED
    BY <1>1, <1>2, <1>3, <1>5, <2>1
<1>7. \A j \in 1 .. i - 1 : rest[j] = list[j]
  BY <1>1, <1>2, <1>3, <1>5
<1>8. ASSUME NEW j \in i .. Len(list) - 1 PROVE rest[j] = list[j + 1]
  <2>1. rest[j] = back[j - (i - 1)]
    BY <1>1, <1>2, <1>3, <1>5
  <2>2. j - (i - 1) \in 1 .. Len(list) - i /\ i + (j - (i - 1)) = j + 1
    BY <1>1
  <2> QED
    BY <1>3, <2>1, <2>2
<1>9. \A j \in 1 .. Len(list) - 1 : rest[j] = list[IF j < i THEN j ELSE j + 1]
  <2> TAKE j \in 1 .. Len(list) - 1
  <2>1. CASE j < i
    BY <1>1, <1>7, <2>1
  <2>2. CASE j >= i
    BY <1>1, <1>8, <2>2
  <2> QED
    BY <1>1, <2>1, <2>2
<1>10. Distinct(rest)
  <2> SUFFICES ASSUME NEW j \in 1 .. Len(list) - 1, NEW m \in 1 .. Len(list) - 1, rest[j] = rest[m]
               PROVE  j = m
    BY <1>6 DEF Distinct
  <2> DEFINE at(x) == IF x < i THEN x ELSE x + 1
  <2>1. at(j) \in 1 .. Len(list) /\ at(m) \in 1 .. Len(list) /\ (at(j) = at(m) => j = m)
    BY <1>1
  <2>2. list[at(j)] = list[at(m)]
    BY <1>9
  <2> QED
    BY <2>1, <2>2 DEF Distinct
<1>11. KeysOf(rest) = KeysOf(list) \ {list[i]}
  <2>1. DOMAIN rest = 1 .. Len(list) - 1
    BY <1>6
  <2>2. ASSUME NEW x \in KeysOf(rest) PROVE x \in KeysOf(list) \ {list[i]}
    <3>1. PICK j \in 1 .. Len(list) - 1 : x = rest[j]
      BY <2>1 DEF KeysOf
    <3> DEFINE m == IF j < i THEN j ELSE j + 1
    <3>2. m \in 1 .. Len(list) /\ m # i /\ x = list[m]
      BY <1>1, <1>9, <3>1
    <3> QED
      BY <1>1, <3>2 DEF KeysOf, Distinct
  <2>3. ASSUME NEW x \in KeysOf(list), x # list[i] PROVE x \in KeysOf(rest)
    <3>1. PICK m \in 1 .. Len(list) : x = list[m]
      BY <1>1 DEF KeysOf
    <3>2. m # i
      BY <2>3, <3>1
    <3> DEFINE j == IF m < i THEN m ELSE m - 1
    <3>3. j \in 1 .. Len(list) - 1 /\ (IF j < i THEN j ELSE j + 1) = m
      BY <1>1, <3>2
    <3>4. x = rest[j]
      BY <1>9, <3>1, <3>3
    <3> QED
      BY <2>1, <3>3, <3>4 DEF KeysOf
  <2> QED
    BY <2>2, <2>3
<1> QED
  BY <1>6, <1>7, <1>8, <1>10, <1>11 DEF rest

-----------------------------------------------------------------------------
(* The table: each element is in the list its key belongs to, once.        *)

TableHolds(n) ==
  /\ n \in Nat \ {0}
  /\ hTable \in [0 .. n - 1 -> Seq(HashKey)]
  /\ \A b \in 0 .. n - 1 :
       /\ Distinct(hTable[b])
       /\ \A i \in 1 .. Len(hTable[b]) : Bucket(hTable[b][i], n) = b

\* The list of a key is one of the table (rim_compute_hash()).
LEMMA BucketIs ==
  ASSUME NEW n \in Nat \ {0}, NEW k \in HashKey
  PROVE  Bucket(k, n) \in 0 .. n - 1
<1>1. HashOf[k] \in Nat
  BY HashAssumption
<1> QED
  BY <1>1 DEF Bucket

\* What the operators that read the table find in it.
TableReads ==
  \A n : TableHolds(n) =>
    /\ NumBuckets = n /\ DOMAIN hTable = 0 .. n - 1
    /\ Present \subseteq HashKey /\ IsFiniteSet(Present)
    /\ \A b \in 0 .. n - 1 : KeysOf(hTable[b]) = {k \in Present : Bucket(k, n) = b}
    /\ \A b \in 0 .. n - 1 : \A i \in 1 .. Len(hTable[b]) :
         hTable[b][i] \in Present /\ PlaceOf(hTable[b][i], hTable[b]) = i
    /\ \A k \in Present : \E i \in 1 .. Len(hTable[Bucket(k, n)]) :
         k = hTable[Bucket(k, n)][i] /\ PlaceOf(k, hTable[Bucket(k, n)]) = i

\* A key is found in the list rim_compute_hash() names, and there are finitely many.
LEMMA TableIsRead == TableReads
<1> SUFFICES ASSUME NEW n, TableHolds(n)
             PROVE  /\ NumBuckets = n /\ DOMAIN hTable = 0 .. n - 1
                    /\ Present \subseteq HashKey /\ IsFiniteSet(Present)
                    /\ \A b \in 0 .. n - 1 : KeysOf(hTable[b]) = {k \in Present : Bucket(k, n) = b}
                    /\ \A b \in 0 .. n - 1 : \A i \in 1 .. Len(hTable[b]) :
                         hTable[b][i] \in Present /\ PlaceOf(hTable[b][i], hTable[b]) = i
                    /\ \A k \in Present : \E i \in 1 .. Len(hTable[Bucket(k, n)]) :
                         k = hTable[Bucket(k, n)][i] /\ PlaceOf(k, hTable[Bucket(k, n)]) = i
  BY DEF TableReads
<1>1. n \in Nat /\ n > 0 /\ DOMAIN hTable = 0 .. n - 1
  BY DEF TableHolds
<1>2. NumBuckets = n
  <2>1. Cardinality(0 .. n - 1) = IF 0 > n - 1 THEN 0 ELSE (n - 1) - 0 + 1
    BY <1>1, FS_Interval
  <2> QED
    BY <1>1, <2>1 DEF NumBuckets
<1>3. ASSUME NEW b \in 0 .. n - 1
      PROVE  /\ hTable[b] \in Seq(HashKey) /\ Distinct(hTable[b])
             /\ DOMAIN hTable[b] = 1 .. Len(hTable[b])
             /\ \A i \in 1 .. Len(hTable[b]) :
                  hTable[b][i] \in HashKey /\ Bucket(hTable[b][i], n) = b
  <2>1. hTable[b] \in Seq(HashKey)
    BY DEF TableHolds
  <2> QED
    BY <2>1 DEF TableHolds
<1>4. \A b \in 0 .. n - 1 : KeysOf(hTable[b]) \subseteq HashKey
  BY <1>3 DEF KeysOf
<1>5. Present \subseteq HashKey
  BY <1>1, <1>4 DEF Present
<1>6. IsFiniteSet(Present)
  <2> DEFINE parts == {KeysOf(hTable[b]) : b \in DOMAIN hTable}
  <2>1. IsFiniteSet(0 .. n - 1)
    BY <1>1, FS_Interval
  <2>2. IsFiniteSet(parts)
    <3> DEFINE f == [b \in 0 .. n - 1 |-> KeysOf(hTable[b])]
    <3>1. f \in Surjection(0 .. n - 1, parts)
      BY <1>1 DEF Surjection
    <3> QED
      BY <2>1, <3>1, FS_Surjection
  <2>3. ASSUME NEW b \in 0 .. n - 1 PROVE IsFiniteSet(KeysOf(hTable[b]))
    <3> DEFINE c == hTable[b]
    <3>1. c \in Seq(HashKey) /\ DOMAIN c = 1 .. Len(c) /\ Len(c) \in Nat
      BY <1>3
    <3> HIDE DEF c
    <3>2. IsFiniteSet(1 .. Len(c))
      BY <3>1, FS_Interval
    <3>3. c \in Surjection(1 .. Len(c), KeysOf(c))
      BY <3>1 DEF KeysOf, Surjection
    <3>4. IsFiniteSet(KeysOf(c))
      BY <3>2, <3>3, FS_Surjection
    <3> QED
      BY <3>4 DEF c
  <2>4. \A p \in parts : IsFiniteSet(p)
    BY <1>1, <2>3
  <2>5. IsFiniteSet(UNION parts)
    BY <2>2, <2>4, FS_UNION
  <2> QED
    BY <2>5 DEF Present
<1>7. ASSUME NEW b \in 0 .. n - 1, NEW i \in 1 .. Len(hTable[b])
      PROVE  hTable[b][i] \in Present /\ PlaceOf(hTable[b][i], hTable[b]) = i
  <2>1. hTable[b][i] \in KeysOf(hTable[b])
    BY <1>3 DEF KeysOf
  <2> QED
    BY <1>1, <1>3, <2>1, PlaceIs DEF Present
<1>8. ASSUME NEW k \in Present
      PROVE  /\ Bucket(k, n) \in 0 .. n - 1 /\ k \in KeysOf(hTable[Bucket(k, n)])
             /\ \E i \in 1 .. Len(hTable[Bucket(k, n)]) :
                  k = hTable[Bucket(k, n)][i] /\ PlaceOf(k, hTable[Bucket(k, n)]) = i
  <2>1. PICK b \in 0 .. n - 1 : k \in KeysOf(hTable[b])
    BY <1>1 DEF Present
  <2>2. PICK i \in 1 .. Len(hTable[b]) : k = hTable[b][i]
    BY <1>3, <2>1 DEF KeysOf
  <2>3. Bucket(k, n) = b
    BY <1>3, <2>2
  <2>4. PlaceOf(k, hTable[b]) = i
    BY <1>7, <2>2
  <2> QED
    BY <2>1, <2>2, <2>3, <2>4
<1>9. ASSUME NEW b \in 0 .. n - 1
      PROVE  KeysOf(hTable[b]) = {k \in Present : Bucket(k, n) = b}
  <2>1. \A k \in KeysOf(hTable[b]) : k \in Present /\ Bucket(k, n) = b
    <3>1. \A k \in KeysOf(hTable[b]) : \E i \in 1 .. Len(hTable[b]) : k = hTable[b][i]
      BY <1>3 DEF KeysOf
    <3> QED
      BY <1>3, <1>7, <3>1
  <2>2. \A k \in Present : Bucket(k, n) = b => k \in KeysOf(hTable[b])
    BY <1>8
  <2> QED
    BY <2>1, <2>2
<1> QED
  BY <1>1, <1>2, <1>5, <1>6, <1>7, <1>8, <1>9

\* The same of the table a statement leaves.
LEMMA TableIsReadNext == TableReads'
BY TableIsRead, PTL

\* The place of an element in its list.
At(k, n) == PlaceOf(k, hTable[Bucket(k, n)])

\* The elements of the other lists.
Others(b, n) == {k \in Present : Bucket(k, n) # b}

\* A list is put in the place of list b.
Replaced(b, list) == hTable' = [hTable EXCEPT ![b] = list]

\* Another list in place of list b leaves a table, if its elements belong there.
LEMMA ListReplaced ==
  ASSUME NEW n, TableHolds(n), NEW b \in 0 .. n - 1, NEW list \in Seq(HashKey),
         Distinct(list), \A i \in 1 .. Len(list) : Bucket(list[i], n) = b,
         Replaced(b, list)
  PROVE  /\ TableHolds(n)'
         /\ hTable'[b] = list
         /\ \A c \in 0 .. n - 1 : c # b => hTable'[c] = hTable[c]
         /\ Present' = Others(b, n) \cup KeysOf(list)
<1>1. /\ n \in Nat \ {0} /\ hTable \in [0 .. n - 1 -> Seq(HashKey)]
      /\ \A c \in 0 .. n - 1 :
           /\ Distinct(hTable[c])
           /\ \A i \in 1 .. Len(hTable[c]) : Bucket(hTable[c][i], n) = c
  BY DEF TableHolds
<1>2. /\ hTable' \in [0 .. n - 1 -> Seq(HashKey)] /\ hTable'[b] = list
      /\ \A c \in 0 .. n - 1 : c # b => hTable'[c] = hTable[c]
  BY <1>1 DEF Replaced
<1>3. ASSUME NEW c \in 0 .. n - 1
      PROVE  /\ Distinct(hTable'[c])
             /\ \A i \in 1 .. Len(hTable'[c]) : Bucket(hTable'[c][i], n) = c
  <2>1. CASE c = b
    BY <1>2, <2>1
  <2>2. CASE c # b
    BY <1>1, <1>2, <2>2
  <2> QED
    BY <2>1, <2>2
<1>4. TableHolds(n)'
  BY <1>1, <1>2, <1>3 DEF TableHolds
<1>5. /\ \A c \in 0 .. n - 1 : KeysOf(hTable[c]) = {k \in Present : Bucket(k, n) = c}
      /\ \A k \in Present : Bucket(k, n) \in 0 .. n - 1
  <2>1. Present \subseteq HashKey
    BY TableIsRead DEF TableReads
  <2> QED
    BY <1>1, <2>1, TableIsRead, BucketIs DEF TableReads
<1>6. /\ \A c \in 0 .. n - 1 : KeysOf(hTable'[c]) = {k \in Present' : Bucket(k, n) = c}
      /\ \A k \in Present' : Bucket(k, n) \in 0 .. n - 1
  <2>1. Present' \subseteq HashKey
    BY <1>4, TableIsReadNext DEF TableReads
  <2> QED
    BY <1>1, <1>4, <2>1, TableIsReadNext, BucketIs DEF TableReads
<1>7. \A k : Bucket(k, n) # b => (k \in Present' <=> k \in Present)
  <2> SUFFICES ASSUME NEW k, Bucket(k, n) # b
               PROVE  k \in Present' <=> k \in Present
    OBVIOUS
  <2> DEFINE c == Bucket(k, n)
  <2>1. CASE c \in 0 .. n - 1
    BY <1>2, <1>5, <1>6, <2>1
  <2>2. CASE c \notin 0 .. n - 1
    BY <1>5, <1>6, <2>2
  <2> QED
    BY <2>1, <2>2
<1>8. \A k : Bucket(k, n) = b => (k \in Present' <=> k \in KeysOf(list))
  BY <1>2, <1>6
<1>9. \A k \in KeysOf(list) : Bucket(k, n) = b
  BY <1>2, <1>6
<1>10. Present' = Others(b, n) \cup KeysOf(list)
  <2>1. \A k : k \in Present' <=> (k \in Present /\ Bucket(k, n) # b) \/ k \in KeysOf(list)
    BY <1>7, <1>8, <1>9
  <2> QED
    BY <2>1 DEF Others
<1> QED
  BY <1>2, <1>4, <1>10

\* rim_add_hash(): a new element is the first of its list, the others of the list
\* move back by one place.
LEMMA ElementAdded ==
  ASSUME NEW n, TableHolds(n), NEW k \in HashKey, k \notin Present,
         hTable' = [hTable EXCEPT ![Bucket(k, n)] = <<k>> \o @]
  PROVE  /\ TableHolds(n)' /\ Present' = Present \cup {k} /\ At(k, n)' = 1
         /\ \A x \in Present :
              At(x, n)' = IF Bucket(x, n) = Bucket(k, n) THEN At(x, n) + 1 ELSE At(x, n)
         /\ \A b \in 0 .. n - 1, i \in Nat :
              i > 0 => ItemAt(hTable'[b], IF b = Bucket(k, n) THEN i + 1 ELSE i)
                         = ItemAt(hTable[b], i)
<1> DEFINE b == Bucket(k, n)
           list == hTable[b]
           new == <<k>> \o list
<1>1. n \in Nat \ {0} /\ b \in 0 .. n - 1
  BY BucketIs DEF TableHolds
<1>2. list \in Seq(HashKey) /\ Distinct(list) /\ \A i \in 1 .. Len(list) : Bucket(list[i], n) = b
  BY <1>1 DEF TableHolds
<1>3. k \notin KeysOf(list)
  BY <1>1, TableIsRead DEF TableReads
<1>4. /\ new \in Seq(HashKey) /\ Len(new) = Len(list) + 1 /\ Distinct(new)
      /\ new[1] = k /\ \A i \in 1 .. Len(list) : new[i + 1] = list[i]
      /\ KeysOf(new) = KeysOf(list) \cup {k}
  BY <1>2, <1>3, PushedList
<1>5. Len(list) \in Nat
  BY <1>2
<1>6. Replaced(b, new)
  BY <1>1 DEF TableHolds, Replaced
<1> HIDE DEF new
<1>7. \A i \in 1 .. Len(new) : Bucket(new[i], n) = b
  <2> TAKE i \in 1 .. Len(new)
  <2>1. CASE i = 1
    BY <1>4, <2>1
  <2>2. CASE i # 1
    <3>1. i - 1 \in 1 .. Len(list) /\ (i - 1) + 1 = i
      BY <1>4, <1>5, <2>2
    <3>2. new[(i - 1) + 1] = list[i - 1]
      BY <1>4, <3>1
    <3>3. Bucket(list[i - 1], n) = b
      BY <1>2, <3>1
    <3> QED
      BY <3>1, <3>2, <3>3
  <2> QED
    BY <2>1, <2>2
<1> HIDE DEF list, b
<1>8. /\ TableHolds(n)' /\ hTable'[b] = new
      /\ \A c \in 0 .. n - 1 : c # b => hTable'[c] = hTable[c]
      /\ Present' = Others(b, n) \cup KeysOf(new)
  <2>1. new \in Seq(HashKey) /\ Distinct(new)
    BY <1>4
  <2>2. TableHolds(n)' /\ hTable'[b] = new /\ Present' = Others(b, n) \cup KeysOf(new)
    BY <1>1, <1>6, <1>7, <2>1, ListReplaced
  <2>3. \A c \in 0 .. n - 1 : c # b => hTable'[c] = hTable[c]
    BY <1>1, <1>6, <1>7, <2>1, ListReplaced
  <2> QED
    BY <2>2, <2>3
<1>9. KeysOf(list) = {x \in Present : Bucket(x, n) = b}
  BY <1>1, TableIsRead DEF TableReads, list
<1>10. Present' = Present \cup {k}
  <2>1. Present' = {x \in Present : Bucket(x, n) # b} \cup ({x \in Present : Bucket(x, n) = b} \cup {k})
    BY <1>4, <1>8, <1>9 DEF Others
  <2> QED
    BY <2>1
<1>11. \A i \in 1 .. Len(new) : PlaceOf(new[i], new) = i
  BY <1>4, PlaceIs
<1>12. Bucket(k, n) = b /\ hTable[b] = list
  BY DEF b, list
<1>13. At(k, n)' = 1
  <2>1. 1 \in 1 .. Len(new)
    BY <1>4, <1>5
  <2>2. PlaceOf(k, new) = 1
    BY <1>4, <1>11, <2>1
  <2> QED
    BY <1>8, <1>12, <2>2 DEF At
<1>14. ASSUME NEW x \in Present
       PROVE  At(x, n)' = IF Bucket(x, n) = b THEN At(x, n) + 1 ELSE At(x, n)
  <2>1. CASE Bucket(x, n) = b
    <3>1. PICK i \in 1 .. Len(list) : x = list[i] /\ At(x, n) = i
      BY <1>12, <2>1, TableIsRead DEF TableReads, At
    <3>2. i + 1 \in 1 .. Len(new) /\ new[i + 1] = x
      BY <1>4, <1>5, <3>1
    <3>3. PlaceOf(x, new) = i + 1
      BY <1>11, <3>2
    <3> QED
      BY <1>8, <2>1, <3>1, <3>3 DEF At
  <2>2. CASE Bucket(x, n) # b
    <3>1. Bucket(x, n) \in 0 .. n - 1
      BY <1>1, TableIsRead, BucketIs DEF TableReads
    <3> QED
      BY <1>8, <2>2, <3>1 DEF At
  <2> QED
    BY <2>1, <2>2
<1>15. ASSUME NEW c \in 0 .. n - 1, NEW i \in Nat, i > 0
       PROVE  ItemAt(hTable'[c], IF c = b THEN i + 1 ELSE i) = ItemAt(hTable[c], i)
  <2>1. CASE c = b
    <3>1. CASE i \in 1 .. Len(list)
      <4>1. i + 1 \in 1 .. Len(new) /\ new[i + 1] = list[i]
        BY <1>4, <1>5, <3>1
      <4>2. ItemAt(new, i + 1) = new[i + 1] /\ ItemAt(list, i) = list[i]
        BY <1>2, <1>4, <3>1, <4>1, ItemIs
      <4> QED
        BY <1>8, <1>12, <2>1, <4>1, <4>2
    <3>2. CASE i \notin 1 .. Len(list)
      <4>1. i + 1 \notin 1 .. Len(new)
        BY <1>4, <1>5, <3>2, <1>15
      <4>2. ItemAt(new, i + 1) = NoItem /\ ItemAt(list, i) = NoItem
        BY <1>2, <1>4, <3>2, <4>1, ItemIs
      <4> QED
        BY <1>8, <1>12, <2>1, <4>2
    <3> QED
      BY <3>1, <3>2
  <2>2. CASE c # b
    BY <1>8, <2>2
  <2> QED
    BY <2>1, <2>2
<1> QED
  BY <1>8, <1>10, <1>12, <1>13, <1>14, <1>15

\* What is in a place: in the list of a deleted element, those behind it come one
\* place forward.
ItemsWithout(k, n) ==
  \A b \in 0 .. n - 1, i \in Nat :
    ItemAt(hTable'[b], i)
      = ItemAt(hTable[b], IF b = Bucket(k, n) /\ i >= At(k, n) THEN i + 1 ELSE i)

\* rim_del_hash_entry(): the elements behind the one that is taken out move up by
\* one place.
LEMMA ElementRemoved ==
  ASSUME NEW n, TableHolds(n), NEW k \in Present,
         hTable' = [hTable EXCEPT
           ![Bucket(k, n)] = Unlinked(k, ItemAt(hTable[Bucket(k, n)], At(k, n) - 1), @)]
  PROVE  /\ TableHolds(n)' /\ Present' = Present \ {k}
         /\ \A x \in Present \ {k} :
              At(x, n)' = IF Bucket(x, n) = Bucket(k, n) /\ At(x, n) > At(k, n)
                          THEN At(x, n) - 1 ELSE At(x, n)
         /\ ItemsWithout(k, n)
<1> DEFINE b == Bucket(k, n)
           list == hTable[b]
           p == At(k, n)
           rest == Unlinked(k, ItemAt(list, p - 1), list)
<1>1. n \in Nat \ {0} /\ k \in HashKey /\ b \in 0 .. n - 1
  <2>1. n \in Nat \ {0}
    BY DEF TableHolds
  <2>2. k \in HashKey
    BY TableIsRead DEF TableReads
  <2> QED
    BY <2>1, <2>2, BucketIs
<1>2. list \in Seq(HashKey) /\ Distinct(list) /\ \A i \in 1 .. Len(list) : Bucket(list[i], n) = b
  BY <1>1 DEF TableHolds
<1>3. p \in 1 .. Len(list) /\ k = list[p]
  BY TableIsRead DEF TableReads, At
<1>4. Replaced(b, rest)
  BY <1>1 DEF TableHolds, Replaced
<1>5. \A i \in 1 .. Len(list) : PlaceOf(list[i], list) = i
  BY <1>2, PlaceIs
<1>6. KeysOf(list) = {x \in Present : Bucket(x, n) = b}
  BY <1>1, TableIsRead DEF TableReads
<1>7. Bucket(k, n) = b /\ hTable[b] = list /\ At(k, n) = p
  OBVIOUS
<1>8. Len(list) \in Nat /\ p \in Nat /\ 1 <= p /\ p <= Len(list)
  BY <1>2, <1>3
<1>9. /\ rest \in Seq(HashKey) /\ Len(rest) = Len(list) - 1 /\ Distinct(rest)
      /\ \A j \in 1 .. p - 1 : rest[j] = list[j]
      /\ \A j \in p .. Len(list) - 1 : rest[j] = list[j + 1]
      /\ KeysOf(rest) = KeysOf(list) \ {k}
  <2> HIDE DEF list, p, b
  <2>1. rest = Unlinked(list[p], ItemAt(list, p - 1), list)
    BY <1>3
  <2>2. /\ rest \in Seq(HashKey) /\ Len(rest) = Len(list) - 1 /\ Distinct(rest)
        /\ KeysOf(rest) = KeysOf(list) \ {list[p]}
    BY <1>2, <1>3, <2>1, UnlinkedList
  <2>3. \A j \in 1 .. p - 1 : rest[j] = list[j]
    BY <1>2, <1>3, <2>1, UnlinkedList
  <2>4. \A j \in p .. Len(list) - 1 : rest[j] = list[j + 1]
    BY <1>2, <1>3, <2>1, UnlinkedList
  <2> QED
    BY <1>3, <2>2, <2>3, <2>4
<1> HIDE DEF rest, p, list, b
<1>10. \A j \in 1 .. Len(rest) : rest[j] = list[IF j < p THEN j ELSE j + 1]
  <2> TAKE j \in 1 .. Len(rest)
  <2>1. CASE j < p
    BY <1>8, <1>9, <2>1
  <2>2. CASE j >= p
    BY <1>8, <1>9, <2>2
  <2> QED
    BY <1>8, <1>9, <2>1, <2>2
<1>11. \A i \in 1 .. Len(rest) : Bucket(rest[i], n) = b
  <2> TAKE i \in 1 .. Len(rest)
  <2>1. (IF i < p THEN i ELSE i + 1) \in 1 .. Len(list)
    BY <1>8, <1>9
  <2> QED
    BY <1>2, <1>10, <2>1
<1>12. TableHolds(n)' /\ hTable'[b] = rest /\ Present' = Others(b, n) \cup KeysOf(rest)
  BY <1>1, <1>4, <1>9, <1>11, ListReplaced
<1>13. \A c \in 0 .. n - 1 : c # b => hTable'[c] = hTable[c]
  BY <1>1, <1>4, <1>9, <1>11, ListReplaced
<1>14. Present' = Present \ {k}
  <2>1. Present' = {x \in Present : Bucket(x, n) # b} \cup ({x \in Present : Bucket(x, n) = b} \ {k})
    BY <1>6, <1>9, <1>12 DEF Others
  <2> QED
    BY <1>7, <2>1
<1>15. ASSUME NEW x \in Present \ {k}
       PROVE  At(x, n)' = IF Bucket(x, n) = b /\ At(x, n) > p THEN At(x, n) - 1 ELSE At(x, n)
  <2>1. CASE Bucket(x, n) = b
    <3>1. PICK i \in 1 .. Len(list) : x = list[i] /\ At(x, n) = i
      BY <1>7, <2>1, TableIsRead DEF TableReads, At
    <3>2. i # p
      BY <1>3, <3>1
    <3> DEFINE j == IF i > p THEN i - 1 ELSE i
    <3>3. j \in 1 .. Len(rest) /\ (IF j < p THEN j ELSE j + 1) = i
      BY <1>8, <1>9, <3>2
    <3>4. rest[j] = x
      BY <1>10, <3>1, <3>3
    <3>5. PlaceOf(x, rest) = j
      BY <1>9, <3>3, <3>4, PlaceIs
    <3> QED
      BY <1>12, <2>1, <3>1, <3>5 DEF At
  <2>2. CASE Bucket(x, n) # b
    <3>1. Bucket(x, n) \in 0 .. n - 1
      BY <1>1, TableIsRead, BucketIs DEF TableReads
    <3> QED
      BY <1>13, <2>2, <3>1 DEF At
  <2> QED
    BY <2>1, <2>2
<1>16. ASSUME NEW c \in 0 .. n - 1, NEW i \in Nat
       PROVE  ItemAt(hTable'[c], i)
                = ItemAt(hTable[c], IF c = b /\ i >= p THEN i + 1 ELSE i)
  <2>1. CASE c = b
    <3> DEFINE j == IF i >= p THEN i + 1 ELSE i
    <3>1. CASE i \in 1 .. Len(rest)
      <4>1. j \in 1 .. Len(list) /\ rest[i] = list[j]
        BY <1>8, <1>9, <1>10, <3>1
      <4>2. ItemAt(rest, i) = rest[i] /\ ItemAt(list, j) = list[j]
        BY <1>2, <1>9, <3>1, <4>1, ItemIs
      <4> QED
        BY <1>7, <1>12, <2>1, <4>1, <4>2
    <3>2. CASE i \notin 1 .. Len(rest)
      <4>1. j \notin 1 .. Len(list) /\ j \in Int
        BY <1>8, <1>9, <3>2
      <4>2. ItemAt(rest, i) = NoItem /\ ItemAt(list, j) = NoItem
        BY <1>2, <1>9, <3>2, <4>1, ItemIs
      <4> QED
        BY <1>7, <1>12, <2>1, <4>2
    <3> QED
      BY <3>1, <3>2
  <2>2. CASE c # b
    BY <1>13, <2>2
  <2> QED
    BY <2>1, <2>2
<1>17. Bucket(k, n) = b /\ At(k, n) = p
  BY DEF b, p
<1>18. ItemsWithout(k, n)
  BY <1>16, <1>17 DEF ItemsWithout
<1> QED
  BY <1>12, <1>14, <1>15, <1>17, <1>18

\* The order in which rim_next_hash() meets elements: by list, then by place.
LEMMA EarlierIs ==
  ASSUME NEW n, TableHolds(n), NEW k \in Present, NEW m \in Present
  PROVE  /\ Bucket(k, n) \in Nat /\ At(k, n) \in Nat /\ At(k, n) >= 1
         /\ Earlier(k, m) <=> \/ Bucket(k, n) < Bucket(m, n)
                              \/ Bucket(k, n) = Bucket(m, n) /\ At(k, n) < At(m, n)
         /\ Bucket(k, n) = Bucket(m, n) /\ At(k, n) = At(m, n) => k = m
<1>1. n \in Nat \ {0} /\ NumBuckets = n /\ k \in HashKey
  BY TableIsRead DEF TableReads, TableHolds
<1>2. Bucket(k, n) \in 0 .. n - 1
  BY <1>1, BucketIs
<1>3. PICK i \in 1 .. Len(hTable[Bucket(k, n)]) : k = hTable[Bucket(k, n)][i] /\ At(k, n) = i
  BY TableIsRead DEF TableReads, At
<1>4. PICK j \in 1 .. Len(hTable[Bucket(m, n)]) : m = hTable[Bucket(m, n)][j] /\ At(m, n) = j
  BY TableIsRead DEF TableReads, At
<1>5. Earlier(k, m) <=> \/ Bucket(k, n) < Bucket(m, n)
                        \/ Bucket(k, n) = Bucket(m, n) /\ At(k, n) < At(m, n)
  BY <1>1 DEF Earlier, At
<1>6. Bucket(k, n) \in Nat
  BY <1>1, <1>2
<1>7. At(k, n) \in Nat /\ At(k, n) >= 1
  BY <1>3
<1> QED
  BY <1>3, <1>4, <1>5, <1>6, <1>7

\* rim_resize_hash(): list b of the new table has the elements that belong there, each
\* once.
LEMMA MovedList ==
  ASSUME NEW n, TableHolds(n), NEW new \in Nat \ {0}, NEW b \in 0 .. new - 1
  PROVE  /\ Moved(b, new) \in Seq(HashKey) /\ Distinct(Moved(b, new))
         /\ KeysOf(Moved(b, new)) = {k \in Present : Bucket(k, new) = b}
<1> DEFINE S == {k \in Present : Bucket(k, new) = b}
           c == Cardinality(S)
           Later(k) == {m \in S : ~ Earlier(m, k)}
           turn == [k \in S |-> Cardinality(Later(k))]
<1>1. S \subseteq Present /\ S \subseteq HashKey /\ IsFiniteSet(S) /\ c \in Nat
  <2>1. Present \subseteq HashKey /\ IsFiniteSet(Present)
    BY TableIsRead DEF TableReads
  <2>2. IsFiniteSet(S)
    BY <2>1, FS_Subset
  <2> QED
    BY <2>1, <2>2, FS_CardinalityType
<1>2. Moved(b, new) = [i \in 1 .. c |-> FromEnd(i, S)]
  BY DEF Moved
<1>3. \A i : FromEnd(i, S) = CHOOSE k \in S : Cardinality(Later(k)) = i
  BY DEF FromEnd
<1>4. ASSUME NEW k \in Present, NEW m \in Present
      PROVE  /\ ~ Earlier(k, k) /\ (k # m => Earlier(k, m) \/ Earlier(m, k))
             /\ ~ (Earlier(k, m) /\ Earlier(m, k))
             /\ \A x \in Present : Earlier(x, k) /\ Earlier(k, m) => Earlier(x, m)
  <2>1. ~ Earlier(k, k)
    <3>1. Bucket(k, n) \in Nat /\ At(k, n) \in Nat
      BY EarlierIs
    <3>2. Earlier(k, k) => Bucket(k, n) < Bucket(k, n) \/ At(k, n) < At(k, n)
      BY EarlierIs
    <3> QED
      BY <3>1, <3>2
  <2>2. /\ Bucket(k, n) \in Nat /\ At(k, n) \in Nat
        /\ Bucket(m, n) \in Nat /\ At(m, n) \in Nat
        /\ Bucket(k, n) = Bucket(m, n) /\ At(k, n) = At(m, n) => k = m
    BY EarlierIs
  <2>3. Earlier(k, m) <=> \/ Bucket(k, n) < Bucket(m, n)
                          \/ Bucket(k, n) = Bucket(m, n) /\ At(k, n) < At(m, n)
    BY EarlierIs
  <2>4. Earlier(m, k) <=> \/ Bucket(m, n) < Bucket(k, n)
                          \/ Bucket(m, n) = Bucket(k, n) /\ At(m, n) < At(k, n)
    BY EarlierIs
  <2>5. k # m => Earlier(k, m) \/ Earlier(m, k)
    BY <2>2, <2>3, <2>4
  <2>6. ~ (Earlier(k, m) /\ Earlier(m, k))
    BY <2>2, <2>3, <2>4
  <2>7. ASSUME NEW x \in Present PROVE Earlier(x, k) /\ Earlier(k, m) => Earlier(x, m)
    <3>1. Bucket(x, n) \in Nat /\ At(x, n) \in Nat
      BY EarlierIs
    <3>2. Earlier(x, k) <=> \/ Bucket(x, n) < Bucket(k, n)
                            \/ Bucket(x, n) = Bucket(k, n) /\ At(x, n) < At(k, n)
      BY EarlierIs
    <3>3. Earlier(x, m) <=> \/ Bucket(x, n) < Bucket(m, n)
                            \/ Bucket(x, n) = Bucket(m, n) /\ At(x, n) < At(m, n)
      BY EarlierIs
    <3> QED
      BY <2>2, <2>3, <3>1, <3>2, <3>3
  <2> QED
    BY <2>1, <2>5, <2>6, <2>7
<1> HIDE DEF S, c
<1>5. ASSUME NEW k \in S
      PROVE  /\ k \in Later(k) /\ Later(k) \subseteq S /\ IsFiniteSet(Later(k))
             /\ turn[k] = Cardinality(Later(k)) /\ turn[k] \in 1 .. c
  <2>1. k \in Later(k) /\ Later(k) \subseteq S
    BY <1>1, <1>4
  <2>2. IsFiniteSet(Later(k)) /\ Cardinality(Later(k)) <= c
    BY <1>1, <2>1, FS_Subset DEF c
  <2> HIDE DEF Later
  <2>3. Cardinality(Later(k)) \in Nat /\ Cardinality(Later(k)) # 0
    BY <2>1, <2>2, FS_CardinalityType, FS_EmptySet
  <2>4. turn[k] = Cardinality(Later(k))
    OBVIOUS
  <2> HIDE DEF turn
  <2> QED
    BY <1>1, <2>1, <2>2, <2>3, <2>4
<1>6. ASSUME NEW k \in S, NEW m \in S, Earlier(k, m) PROVE turn[k] # turn[m]
  <2>1. Later(m) \subseteq Later(k)
    <3> SUFFICES ASSUME NEW x \in S, ~ Earlier(x, m), Earlier(x, k) PROVE FALSE
      OBVIOUS
    <3> QED
      BY <1>1, <1>4, <1>6
  <2>2. k \in Later(k) /\ k \notin Later(m)
    BY <1>5, <1>6
  <2>3. Later(k) # Later(m)
    BY <2>2
  <2>4. IsFiniteSet(Later(k)) /\ turn[k] = Cardinality(Later(k)) /\ turn[m] = Cardinality(Later(m))
    BY <1>5
  <2> HIDE DEF Later, turn
  <2>5. Cardinality(Later(k)) = Cardinality(Later(m)) => Later(k) = Later(m)
    BY <2>1, <2>4, FS_Subset
  <2> QED
    BY <2>3, <2>4, <2>5
<1>7. \A k, m \in S : turn[k] = turn[m] => k = m
  BY <1>1, <1>4, <1>6
<1>8. \A i \in 1 .. c : \E k \in S : turn[k] = i
  <2>1. turn \in Injection(S, 1 .. c)
    <3>1. turn \in [S -> 1 .. c]
      <4>1. DOMAIN turn = S /\ turn = [k \in S |-> turn[k]]
        OBVIOUS
      <4> HIDE DEF turn
      <4> QED
        BY <1>5, <4>1
    <3> HIDE DEF turn
    <3> QED
      BY <1>7, <3>1 DEF Injection, IsInjective
  <2>2. IsFiniteSet(1 .. c) /\ Cardinality(1 .. c) = c
    <3>1. Cardinality(1 .. c) = IF 1 > c THEN 0 ELSE c - 1 + 1
      BY <1>1, FS_Interval
    <3>2. IsFiniteSet(1 .. c)
      BY <1>1, FS_Interval
    <3> QED
      BY <1>1, <3>1, <3>2
  <2> HIDE DEF turn
  <2>3. turn \in Surjection(S, 1 .. c)
    BY <2>1, <2>2, FS_Injection DEF c
  <2> QED
    BY <2>3 DEF Surjection
<1>9. ASSUME NEW i \in 1 .. c PROVE FromEnd(i, S) \in S /\ turn[FromEnd(i, S)] = i
  <2>1. PICK k \in S : turn[k] = i
    BY <1>8
  <2>2. Cardinality(Later(k)) = i
    BY <2>1
  <2>3. FromEnd(i, S) \in S /\ Cardinality(Later(FromEnd(i, S))) = i
    <3> HIDE DEF Later
    <3> QED
      BY <1>3, <2>2
  <2> QED
    BY <2>3
<1> DEFINE list == Moved(b, new)
<1>10. list \in Seq(HashKey) /\ Len(list) = c /\ DOMAIN list = 1 .. c
       /\ \A i \in 1 .. c : list[i] = FromEnd(i, S)
  <2> DEFINE g == [i \in 1 .. c |-> FromEnd(i, S)]
  <2>1. g \in [1 .. c -> HashKey] /\ DOMAIN g = 1 .. c
    BY <1>1, <1>9
  <2>2. \A i \in 1 .. c : g[i] = FromEnd(i, S)
    OBVIOUS
  <2> HIDE DEF g
  <2>3. g \in Seq(HashKey) /\ Len(g) = c
    BY <1>1, <2>1
  <2> QED
    BY <1>2, <2>1, <2>2, <2>3 DEF g
<1> HIDE DEF list, turn
<1>11. Distinct(list)
  BY <1>9, <1>10 DEF Distinct
<1>12. KeysOf(list) = S
  <2>1. \A k \in KeysOf(list) : k \in S
    BY <1>9, <1>10 DEF KeysOf
  <2>2. ASSUME NEW k \in S PROVE k \in KeysOf(list)
    <3>1. turn[k] \in 1 .. c
      BY <1>5
    <3>2. FromEnd(turn[k], S) = k
      BY <1>7, <1>9, <3>1
    <3> QED
      BY <1>10, <3>1, <3>2 DEF KeysOf
  <2> QED
    BY <2>1, <2>2
<1> QED
  BY <1>10, <1>11, <1>12 DEF list, S

\* rim_resize_hash() moves every element and loses none.
LEMMA TableResized ==
  ASSUME NEW n, TableHolds(n), NEW new \in Nat \ {0},
         hTable' = [b \in 0 .. new - 1 |-> Moved(b, new)]
  PROVE  TableHolds(new)' /\ Present' = Present
<1>1. DOMAIN hTable' = 0 .. new - 1 /\ \A b \in 0 .. new - 1 : hTable'[b] = Moved(b, new)
  OBVIOUS
<1>2. ASSUME NEW b \in 0 .. new - 1
      PROVE  /\ hTable'[b] \in Seq(HashKey) /\ Distinct(hTable'[b])
             /\ KeysOf(hTable'[b]) = {k \in Present : Bucket(k, new) = b}
  <2>1. Moved(b, new) \in Seq(HashKey) /\ Distinct(Moved(b, new))
    BY MovedList
  <2>2. KeysOf(Moved(b, new)) = {k \in Present : Bucket(k, new) = b}
    BY MovedList
  <2> QED
    BY <1>1, <2>1, <2>2
<1>3. ASSUME NEW b \in 0 .. new - 1, NEW i \in 1 .. Len(hTable'[b])
      PROVE  Bucket(hTable'[b][i], new) = b
  <2>1. hTable'[b][i] \in KeysOf(hTable'[b])
    BY <1>2 DEF KeysOf
  <2> QED
    BY <1>2, <2>1
<1>4. TableHolds(new)'
  <2>1. hTable' \in [0 .. new - 1 -> Seq(HashKey)]
    BY <1>1, <1>2
  <2> QED
    BY <1>2, <1>3, <2>1 DEF TableHolds
<1>5. Present' = Present
  <2>1. \A k \in Present' : \E b \in 0 .. new - 1 : k \in KeysOf(hTable'[b])
    BY <1>1 DEF Present
  <2>2. \A k \in Present' : k \in Present
    BY <1>2, <2>1
  <2>3. ASSUME NEW k \in Present PROVE k \in Present'
    <3>1. Bucket(k, new) \in 0 .. new - 1
      BY BucketIs, TableIsRead DEF TableReads
    <3>2. k \in KeysOf(hTable'[Bucket(k, new)])
      BY <1>2, <3>1
    <3> QED
      BY <1>1, <3>1, <3>2 DEF Present
  <2> QED
    BY <2>2, <2>3
<1> QED
  BY <1>4, <1>5

-----------------------------------------------------------------------------
(* Values and their references.                                            *)

HashCounts ==
  /\ hData \in [HashKey -> HashVal \cup {NoItem}]
  /\ \A k \in Present : hData[k] \in HashVal
  /\ hTot = Cardinality(Present)
  /\ hRefs \in [HashVal -> Nat]
  /\ HashHoldsValues

\* Elements of which a value is counted: as long as a key has one place, each
\* element is one reference.
HeldReads ==
  IsFiniteSet(Present) =>
    \A v : IsFiniteSet(Holding(v)) /\ Cardinality(Holding(v)) \in Nat

\* The elements that have a value can be counted, as the references on it are.
LEMMA HeldIsFinite == HeldReads
<1> SUFFICES ASSUME IsFiniteSet(Present), NEW v
             PROVE  IsFiniteSet(Holding(v)) /\ Cardinality(Holding(v)) \in Nat
  BY DEF HeldReads
<1>1. Holding(v) \subseteq Present
  BY DEF Holding
<1>2. IsFiniteSet(Holding(v))
  BY <1>1, FS_Subset
<1> QED
  BY <1>2, FS_CardinalityType

\* The same of the elements a statement leaves.
LEMMA HeldIsFiniteNext == HeldReads'
BY HeldIsFinite, PTL

\* An added element: one more is counted, and its value is referenced once more.
LEMMA CountsAdded ==
  ASSUME HashCounts, IsFiniteSet(Present), Present \subseteq HashKey,
         NEW k \in HashKey, k \notin Present, NEW v \in HashVal,
         Present' = Present \cup {k}, hData' = [hData EXCEPT ![k] = v],
         hTot' = hTot + 1, hRefs' = Taken(hRefs, v)
  PROVE  HashCounts'
<1>1. /\ hData' \in [HashKey -> HashVal \cup {NoItem}] /\ hData'[k] = v
      /\ \A x \in Present : hData'[x] = hData[x] /\ hData[x] \in HashVal
  BY DEF HashCounts
<1>2. \A x \in Present' : hData'[x] \in HashVal
  BY <1>1
<1>3. hTot' = Cardinality(Present')
  BY FS_AddElement DEF HashCounts
<1>4. /\ hRefs' \in [HashVal -> Nat] /\ hRefs'[v] = hRefs[v] + 1
      /\ \A w \in HashVal : w # v => hRefs'[w] = hRefs[w]
  BY DEF HashCounts, Taken
<1>5. ASSUME NEW w \in HashVal PROVE Cardinality(Holding(w)') <= hRefs'[w]
  <2>1. /\ IsFiniteSet(Holding(w)) /\ Cardinality(Holding(w)) \in Nat
        /\ Cardinality(Holding(w)) <= hRefs[w] /\ hRefs[w] \in Nat
    BY HeldIsFinite DEF HeldReads, HashCounts, HashHoldsValues
  <2>2. CASE w = v
    <3>1. Holding(w)' = Holding(w) \cup {k} /\ k \notin Holding(w)
      BY <1>1, <2>2 DEF Holding
    <3>2. Cardinality(Holding(w)') = Cardinality(Holding(w)) + 1
      BY <2>1, <3>1, FS_AddElement
    <3> QED
      BY <1>4, <2>1, <2>2, <3>2
  <2>3. CASE w # v
    <3>1. Holding(w)' = Holding(w)
      BY <1>1, <2>3 DEF Holding
    <3> QED
      BY <1>4, <2>1, <2>3, <3>1
  <2> QED
    BY <2>2, <2>3
<1> QED
  BY <1>1, <1>2, <1>3, <1>4, <1>5 DEF HashCounts, HashHoldsValues

\* A replaced value: the new one is referenced before the old one is let go, and
\* the reference on that may go to the program.
LEMMA CountsReplaced ==
  ASSUME HashCounts, IsFiniteSet(Present), Present \subseteq HashKey,
         NEW k \in Present, NEW v \in HashVal, NEW wantsOld \in BOOLEAN,
         Present' = Present, hData' = [hData EXCEPT ![k] = v],
         hTot' = hTot, hRefs' = RefsReplaced(hData[k], v, wantsOld)
  PROVE  HashCounts'
<1> DEFINE old == hData[k]
<1>1. /\ hData' \in [HashKey -> HashVal \cup {NoItem}] /\ hData'[k] = v /\ old \in HashVal
      /\ \A x \in Present : x # k => hData'[x] = hData[x]
      /\ \A x \in Present : hData[x] \in HashVal
  BY DEF HashCounts
<1>2. \A x \in Present' : hData'[x] \in HashVal
  BY <1>1
<1>3. hTot' = Cardinality(Present')
  BY DEF HashCounts
<1>4. /\ IsFiniteSet(Holding(old)) /\ Cardinality(Holding(old)) \in Nat
      /\ Cardinality(Holding(old)) <= hRefs[old]
      /\ Cardinality(Holding(old)) # 0
  <2>1. k \in Holding(old)
    BY DEF Holding
  <2> QED
    BY <1>1, <2>1, HeldIsFinite, FS_EmptySet DEF HeldReads, HashCounts, HashHoldsValues
<1> HIDE DEF old
<1>5. hRefs[old] \in Nat /\ hRefs[old] >= 1
  BY <1>1, <1>4 DEF HashCounts
<1>6. /\ hRefs' \in [HashVal -> Nat]
      /\ \A w \in HashVal :
           hRefs'[w] >= hRefs[w] + (IF w = v THEN 1 ELSE 0) - (IF w = old THEN 1 ELSE 0)
  <2>1. CASE wantsOld
    <3>1. hRefs' = [hRefs EXCEPT ![v] = @ + 1]
      BY <2>1 DEF RefsReplaced, Taken, old
    <3> QED
      BY <3>1 DEF HashCounts
  <2>2. CASE ~ wantsOld
    <3> DEFINE r == [hRefs EXCEPT ![v] = @ + 1]
    <3>1. hRefs' = [r EXCEPT ![old] = @ - 1]
      BY <2>2 DEF RefsReplaced, Taken, Dropped, old
    <3>2. r \in [HashVal -> Nat] /\ \A w \in HashVal : r[w] = hRefs[w] + (IF w = v THEN 1 ELSE 0)
      BY DEF HashCounts
    <3>3. \A w \in HashVal : hRefs[w] \in Nat
      BY DEF HashCounts
    <3> HIDE DEF r
    <3>4. r[old] >= 1
      BY <1>1, <1>5, <3>2, <3>3
    <3>5. hRefs' \in [HashVal -> Nat]
      BY <1>1, <3>1, <3>2, <3>4
    <3>6. \A w \in HashVal : hRefs'[w] = r[w] - (IF w = old THEN 1 ELSE 0)
      BY <1>1, <3>1, <3>2
    <3> QED
      BY <3>2, <3>3, <3>5, <3>6
  <2> QED
    BY <2>1, <2>2
<1>7. ASSUME NEW w \in HashVal PROVE Cardinality(Holding(w)') <= hRefs'[w]
  <2>1. /\ IsFiniteSet(Holding(w)) /\ Cardinality(Holding(w)) \in Nat
        /\ Cardinality(Holding(w)) <= hRefs[w] /\ hRefs[w] \in Nat /\ hRefs'[w] \in Nat
    BY <1>6, HeldIsFinite DEF HeldReads, HashCounts, HashHoldsValues
  <2>2. CASE w = v /\ w # old
    <3>1. Holding(w)' = Holding(w) \cup {k}
      BY <1>1, <2>2 DEF Holding
    <3>2. Cardinality(Holding(w)') <= Cardinality(Holding(w)) + 1
      <4>1. Cardinality(Holding(w) \cup {k})
              = IF k \in Holding(w) THEN Cardinality(Holding(w)) ELSE Cardinality(Holding(w)) + 1
        BY <2>1, FS_AddElement
      <4> QED
        BY <2>1, <3>1, <4>1
    <3>3. Cardinality(Holding(w)') \in Nat
      BY HeldIsFiniteNext DEF HeldReads
    <3> QED
      BY <1>6, <2>1, <2>2, <3>2, <3>3
  <2>3. CASE w = old /\ w # v
    <3>1. Holding(w)' = Holding(w) \ {k} /\ k \in Holding(w)
      BY <1>1, <2>3 DEF Holding, old
    <3>2. Cardinality(Holding(w)') = Cardinality(Holding(w)) - 1
      BY <2>1, <3>1, FS_RemoveElement
    <3> QED
      BY <1>6, <2>1, <2>3, <3>2
  <2>4. CASE (w = v) <=> (w = old)
    <3>1. Holding(w)' = Holding(w)
      BY <1>1, <2>4 DEF Holding, old
    <3> QED
      BY <1>6, <2>1, <2>4, <3>1
  <2> QED
    BY <2>2, <2>3, <2>4
<1> QED
  BY <1>1, <1>2, <1>3, <1>6, <1>7 DEF HashCounts, HashHoldsValues

\* A deleted element: its reference is dropped, or goes to the program.
LEMMA CountsRemoved ==
  ASSUME HashCounts, IsFiniteSet(Present), Present \subseteq HashKey, NEW k \in Present,
         Present' = Present \ {k}, hData' = [hData EXCEPT ![k] = NoItem],
         hTot' = hTot - 1, hRefs' = Dropped(hRefs, hData[k]) \/ hRefs' = hRefs
  PROVE  HashCounts'
<1> DEFINE old == hData[k]
<1>1. /\ hData' \in [HashKey -> HashVal \cup {NoItem}] /\ old \in HashVal
      /\ \A x \in Present : x # k => hData'[x] = hData[x]
      /\ \A x \in Present : hData[x] \in HashVal
  BY DEF HashCounts
<1>2. \A x \in Present' : hData'[x] \in HashVal
  BY <1>1
<1>3. hTot' = Cardinality(Present')
  BY FS_RemoveElement DEF HashCounts
<1>4. k \in Holding(old)
  BY DEF Holding
<1>5. /\ IsFiniteSet(Holding(old)) /\ Cardinality(Holding(old)) \in Nat
      /\ Cardinality(Holding(old)) <= hRefs[old]
      /\ Cardinality(Holding(old)) # 0
  BY <1>1, <1>4, HeldIsFinite, FS_EmptySet DEF HeldReads, HashCounts, HashHoldsValues
<1> HIDE DEF old
<1>6. hRefs[old] \in Nat /\ hRefs[old] >= 1 /\ hRefs \in [HashVal -> Nat]
  BY <1>1, <1>5 DEF HashCounts
<1>7. /\ hRefs' \in [HashVal -> Nat]
      /\ \A w \in HashVal : hRefs'[w] >= hRefs[w] - (IF w = old THEN 1 ELSE 0)
  <2>1. CASE hRefs' = hRefs
    BY <1>6, <2>1
  <2>2. CASE hRefs' = Dropped(hRefs, hData[k])
    <3>1. hRefs' = [hRefs EXCEPT ![old] = @ - 1]
      BY <2>2 DEF Dropped, old
    <3> QED
      BY <1>1, <1>6, <3>1
  <2> QED
    BY <2>1, <2>2
<1>8. ASSUME NEW w \in HashVal PROVE Cardinality(Holding(w)') <= hRefs'[w]
  <2>1. /\ IsFiniteSet(Holding(w)) /\ Cardinality(Holding(w)) \in Nat
        /\ Cardinality(Holding(w)) <= hRefs[w] /\ hRefs[w] \in Nat /\ hRefs'[w] \in Nat
    BY <1>7, HeldIsFinite DEF HeldReads, HashCounts, HashHoldsValues
  <2>2. CASE w = old
    <3>1. Holding(w)' = Holding(w) \ {k} /\ k \in Holding(w)
      BY <1>1, <1>4, <2>2 DEF Holding
    <3>2. Cardinality(Holding(w)') = Cardinality(Holding(w)) - 1
      BY <2>1, <3>1, FS_RemoveElement
    <3> QED
      BY <1>7, <2>1, <2>2, <3>2
  <2>3. CASE w # old
    <3>1. Holding(w)' = Holding(w)
      BY <1>1, <2>3 DEF Holding, old
    <3> QED
      BY <1>7, <2>1, <2>3, <3>1
  <2> QED
    BY <2>2, <2>3
<1> QED
  BY <1>1, <1>2, <1>3, <1>7, <1>8 DEF HashCounts, HashHoldsValues

\* A resize references every value again, and drops nothing.
LEMMA CountsAgain ==
  ASSUME HashCounts, IsFiniteSet(Present), Present' = Present, hData' = hData,
         hTot' = Cardinality(Present), hRefs' = RefsAgain
  PROVE  HashCounts'
<1>1. \A v : Holding(v)' = Holding(v)
  BY DEF Holding
<1>2. ASSUME NEW v \in HashVal
      PROVE  hRefs'[v] \in Nat /\ Cardinality(Holding(v)') <= hRefs'[v]
  <2>1. hRefs'[v] = hRefs[v] + Cardinality(Holding(v))
    BY DEF RefsAgain
  <2>2. hRefs[v] \in Nat /\ Cardinality(Holding(v)) \in Nat
    BY HeldIsFinite DEF HeldReads, HashCounts
  <2> QED
    BY <1>1, <2>1, <2>2
<1>3. hRefs' \in [HashVal -> Nat]
  <2>1. hRefs' = [v \in HashVal |-> hRefs[v] + Cardinality(Holding(v))]
    BY DEF RefsAgain
  <2>2. \A v \in HashVal : hRefs[v] + Cardinality(Holding(v)) \in Nat
    BY HeldIsFinite DEF HeldReads, HashCounts
  <2> QED
    BY <2>1, <2>2
<1> QED
  BY <1>2, <1>3 DEF HashCounts, HashHoldsValues

\* A purge drops the reference of each element.
LEMMA CountsPurged ==
  ASSUME HashCounts, IsFiniteSet(Present), Present' = {},
         hData' = [k \in HashKey |-> NoItem], hTot' = 0,
         hRefs' = [v \in HashVal |-> hRefs[v] - Cardinality(Holding(v))]
  PROVE  HashCounts'
<1>1. \A v : Holding(v)' = {}
  BY DEF Holding
<1>2. Cardinality({}) = 0
  BY FS_EmptySet
<1>3. \A v \in HashVal : hRefs[v] - Cardinality(Holding(v)) \in Nat
  <2> TAKE v \in HashVal
  <2>1. /\ hRefs[v] \in Nat /\ Cardinality(Holding(v)) \in Nat
        /\ Cardinality(Holding(v)) <= hRefs[v]
    BY HeldIsFinite DEF HeldReads, HashCounts, HashHoldsValues
  <2> QED
    BY <2>1
<1>4. hRefs' \in [HashVal -> Nat]
  BY <1>3
<1>5. \A v \in HashVal : Cardinality(Holding(v)') <= hRefs'[v]
  BY <1>1, <1>2, <1>4
<1> QED
  BY <1>2, <1>4, <1>5 DEF HashCounts, HashHoldsValues

-----------------------------------------------------------------------------
(* The position of a traversal: dcurr is an element of list dnext, and     *)
(* dprev the one in front of it.                                           *)

PositionHolds(n) ==
  /\ hNext \in 0 .. n
  /\ hCurr # NoItem =>
       /\ hCurr \in Present /\ Bucket(hCurr, n) = hNext
       /\ hPrev = ItemAt(hTable[hNext], At(hCurr, n) - 1)

\* The element is in a list the position is in front of, or not in front of it in
\* its own list.
IsLeft(k, n) ==
  \/ Bucket(k, n) > hNext
  \/ hCurr # NoItem /\ Bucket(k, n) = hNext /\ At(k, n) >= At(hCurr, n)

\* What a traversal meets from its position on.
LeftReads ==
  \A n : TableHolds(n) /\ PositionHolds(n) => LeftInHash = {k \in Present : IsLeft(k, n)}

\* read-hash traverse goes on to the rest of list dnext, then to the lists after it.
LEMMA LeftIsRead == LeftReads
<1> SUFFICES ASSUME NEW n, TableHolds(n), PositionHolds(n)
             PROVE  LeftInHash = {k \in Present : IsLeft(k, n)}
  BY DEF LeftReads
<1> DEFINE Rest == IF hCurr = NoItem THEN {} ELSE {hCurr} \cup KeysOf(After(hCurr, ListOf(hCurr)))
           Later == UNION {KeysOf(hTable[i]) : i \in {j \in DOMAIN hTable : j > hNext}}
<1>1. /\ n \in Nat \ {0} /\ NumBuckets = n /\ DOMAIN hTable = 0 .. n - 1
      /\ Present \subseteq HashKey
      /\ \A b \in 0 .. n - 1 : KeysOf(hTable[b]) = {k \in Present : Bucket(k, n) = b}
  BY TableIsRead DEF TableReads, TableHolds
<1>2. \A k \in Present : Bucket(k, n) \in 0 .. n - 1
  BY <1>1, BucketIs
<1>3. hNext \in 0 .. n
  BY DEF PositionHolds
<1>4. \A k : k \in Later <=> k \in Present /\ Bucket(k, n) > hNext
  <2>1. \A k \in Later : k \in Present /\ Bucket(k, n) > hNext
    BY <1>1
  <2>2. ASSUME NEW k \in Present, Bucket(k, n) > hNext PROVE k \in Later
    <3>1. Bucket(k, n) \in {j \in DOMAIN hTable : j > hNext}
      BY <1>1, <1>2, <2>2
    <3>2. k \in KeysOf(hTable[Bucket(k, n)])
      BY <1>1, <1>2
    <3> QED
      BY <3>1, <3>2
  <2> QED
    BY <2>1, <2>2
<1>5. \A k : k \in Rest <=> /\ k \in Present /\ hCurr # NoItem
                            /\ Bucket(k, n) = hNext /\ At(k, n) >= At(hCurr, n)
  <2>1. CASE hCurr = NoItem
    BY <2>1
  <2>2. CASE hCurr # NoItem
    <3> DEFINE list == hTable[hNext]
    <3>1. hCurr \in Present /\ Bucket(hCurr, n) = hNext /\ hNext \in 0 .. n - 1
      BY <1>2, <2>2 DEF PositionHolds
    <3>2. ListOf(hCurr) = list
      BY <1>1, <3>1 DEF ListOf
    <3>3. PICK p \in 1 .. Len(list) : hCurr = list[p] /\ At(hCurr, n) = p
      BY <3>1, TableIsRead DEF TableReads, At
    <3>4. list \in Seq(HashKey)
      BY <3>1 DEF TableHolds
    <3>5. PlaceOf(hCurr, list) = p
      BY <3>1, <3>3 DEF At
    <3>6. \A i \in 1 .. Len(list) : list[i] \in Present /\ Bucket(list[i], n) = hNext
                                    /\ At(list[i], n) = i
      <4>1. \A i \in 1 .. Len(list) : list[i] \in Present /\ Bucket(list[i], n) = hNext
        BY <3>1, TableIsRead DEF TableReads, TableHolds
      <4>2. \A i \in 1 .. Len(list) : PlaceOf(list[i], list) = i
        BY <3>1, TableIsRead DEF TableReads
      <4> QED
        BY <4>1, <4>2 DEF At
    <3>7. \A k \in Present : Bucket(k, n) = hNext => \E i \in 1 .. Len(list) : k = list[i]
      BY TableIsRead DEF TableReads
    <3> HIDE DEF list
    <3>8. KeysOf(After(hCurr, list)) = {list[i] : i \in p + 1 .. Len(list)}
      <4> DEFINE back == SubSeq(list, p + 1, Len(list))
      <4>1. Len(list) \in Nat /\ p \in Nat /\ 1 <= p /\ p <= Len(list)
        BY <3>3, <3>4
      <4>2. back \in Seq(HashKey)
        BY <3>4, <4>1
      <4>3. Len(back) = Len(list) - p
        BY <3>4, <4>1
      <4>4. \A j \in 1 .. Len(list) - p : back[j] = list[p + j]
        BY <3>4, <4>1
      <4>5. After(hCurr, list) = back
        BY <3>5 DEF After
      <4> HIDE DEF back
      <4>6. DOMAIN back = 1 .. Len(list) - p
        BY <4>2, <4>3
      <4>7. \A x \in KeysOf(back) : \E i \in p + 1 .. Len(list) : x = list[i]
        <5> TAKE x \in KeysOf(back)
        <5>1. PICK j \in 1 .. Len(list) - p : x = back[j]
          BY <4>6 DEF KeysOf
        <5>2. p + j \in p + 1 .. Len(list) /\ x = list[p + j]
          BY <4>1, <4>4, <5>1
        <5> QED
          BY <5>2
      <4>8. \A i \in p + 1 .. Len(list) : list[i] \in KeysOf(back)
        <5> TAKE i \in p + 1 .. Len(list)
        <5>1. i - p \in 1 .. Len(list) - p /\ p + (i - p) = i
          BY <4>1
        <5>2. back[i - p] = list[i]
          BY <4>4, <5>1
        <5> QED
          BY <4>6, <5>1, <5>2 DEF KeysOf
      <4> QED
        BY <4>5, <4>7, <4>8
    <3>9. Rest = {list[i] : i \in p .. Len(list)}
      <4>1. Rest = {list[p]} \cup {list[i] : i \in p + 1 .. Len(list)}
        BY <2>2, <3>2, <3>3, <3>8
      <4>2. p \in Nat /\ Len(list) \in Nat /\ p <= Len(list)
        BY <3>3, <3>4
      <4>3. \A i : i \in p .. Len(list) <=> i = p \/ i \in p + 1 .. Len(list)
        BY <4>2
      <4> QED
        BY <4>1, <4>3
    <3> HIDE DEF Rest
    <3>10. \A i \in p .. Len(list) : i \in 1 .. Len(list) /\ i >= p
      BY <3>3, <3>4
    <3>11. \A k \in Rest : k \in Present /\ Bucket(k, n) = hNext /\ At(k, n) >= p
      BY <3>6, <3>9, <3>10
    <3>12. ASSUME NEW k \in Present, Bucket(k, n) = hNext, At(k, n) >= p PROVE k \in Rest
      <4>1. PICK i \in 1 .. Len(list) : k = list[i]
        BY <3>7, <3>12
      <4>2. i >= p /\ i \in p .. Len(list)
        BY <3>3, <3>4, <3>6, <3>12, <4>1
      <4> QED
        BY <3>9, <4>1, <4>2
    <3> QED
      BY <2>2, <3>3, <3>11, <3>12
  <2> QED
    BY <2>1, <2>2
<1>6. LeftInHash = Rest \cup Later
  BY DEF LeftInHash
<1> HIDE DEF Rest, Later
<1>7. \A k : k \in LeftInHash <=> k \in Present /\ IsLeft(k, n)
  BY <1>4, <1>5, <1>6 DEF IsLeft
<1> QED
  BY <1>7

\* The same at the position a statement leaves.
LEMMA LeftIsReadNext == LeftReads'
BY LeftIsRead, PTL

\* The invariant of the hash, for as many lists as it has now.
HashHolds(n) == TableHolds(n) /\ PositionHolds(n) /\ HashCounts
HashInv == \E n : HashHolds(n)

\* What the program may see of the hash: its elements with their values.
Dict == [k \in Present |-> hData[k]]

\* What HashHolds lets a step use, here and after it.
HashFacts ==
  \A n : HashHolds(n) =>
    /\ n \in Nat \ {0} /\ NumBuckets = n /\ DOMAIN hTable = 0 .. n - 1
    /\ Present \subseteq HashKey /\ IsFiniteSet(Present)
    /\ hNext \in 0 .. n
    /\ \A k \in Present : Bucket(k, n) \in 0 .. n - 1 /\ At(k, n) \in Nat /\ At(k, n) >= 1
    /\ \A k : k \in LeftInHash <=> k \in Present /\ IsLeft(k, n)
    /\ \A k : ListOf(k) = hTable[Bucket(k, n)] /\ PlaceOf(k, ListOf(k)) = At(k, n)

\* What rim_find_hash() and rim_next_hash() rely on when they follow lists and pointers.
LEMMA HashFactsHold == HashFacts
<1> SUFFICES ASSUME NEW n, HashHolds(n)
             PROVE  /\ n \in Nat \ {0} /\ NumBuckets = n /\ DOMAIN hTable = 0 .. n - 1
                    /\ Present \subseteq HashKey /\ IsFiniteSet(Present)
                    /\ hNext \in 0 .. n
                    /\ \A k \in Present : Bucket(k, n) \in 0 .. n - 1 /\ At(k, n) \in Nat /\ At(k, n) >= 1
                    /\ \A k : k \in LeftInHash <=> k \in Present /\ IsLeft(k, n)
                    /\ \A k : ListOf(k) = hTable[Bucket(k, n)] /\ PlaceOf(k, ListOf(k)) = At(k, n)
  BY DEF HashFacts
<1>1. /\ n \in Nat \ {0} /\ NumBuckets = n /\ DOMAIN hTable = 0 .. n - 1
      /\ Present \subseteq HashKey /\ IsFiniteSet(Present)
  BY TableIsRead DEF TableReads, TableHolds, HashHolds
<1>2. hNext \in 0 .. n
  BY DEF HashHolds, PositionHolds
<1>3. \A k \in Present : Bucket(k, n) \in 0 .. n - 1
  BY <1>1, BucketIs
<1>4. \A k \in Present : At(k, n) \in Nat /\ At(k, n) >= 1
  BY EarlierIs DEF HashHolds
<1>5. LeftInHash = {k \in Present : IsLeft(k, n)}
  BY LeftIsRead DEF LeftReads, HashHolds
<1>6. \A k : ListOf(k) = hTable[Bucket(k, n)] /\ PlaceOf(k, ListOf(k)) = At(k, n)
  BY <1>1 DEF ListOf, At
<1> QED
  BY <1>1, <1>2, <1>3, <1>4, <1>5, <1>6

\* The same after a statement.
LEMMA HashFactsHoldNext == HashFacts'
BY HashFactsHold, PTL

\* ->next of an element is the next place of its list.
LEMMA FollowingIs ==
  ASSUME NEW n, HashHolds(n), NEW k \in Present
  PROVE  LET f == Following(k, ListOf(k)) IN
         /\ f = ItemAt(hTable[Bucket(k, n)], At(k, n) + 1)
         /\ f # NoItem => f \in Present /\ Bucket(f, n) = Bucket(k, n) /\ At(f, n) = At(k, n) + 1
         /\ f = NoItem => \A x \in Present : Bucket(x, n) = Bucket(k, n) => At(x, n) <= At(k, n)
<1> DEFINE b == Bucket(k, n)
           list == hTable[b]
           p == At(k, n)
           f == Following(k, ListOf(k))
<1>1. b \in 0 .. n - 1 /\ p \in Nat /\ p >= 1
  BY HashFactsHold DEF HashFacts
<1>2. f = ItemAt(list, p + 1)
  BY HashFactsHold DEF HashFacts, Following
<1>3. list \in Seq(HashKey) /\ \A i \in 1 .. Len(list) : Bucket(list[i], n) = b
  BY <1>1 DEF HashHolds, TableHolds
<1>4. \A i \in 1 .. Len(list) : list[i] \in Present /\ PlaceOf(list[i], list) = i
  BY <1>1, TableIsRead DEF TableReads, HashHolds
<1>5. \A i \in 1 .. Len(list) : At(list[i], n) = i
  BY <1>3, <1>4 DEF At
<1>6. \A x \in Present : Bucket(x, n) = b => At(x, n) \in 1 .. Len(list)
  <2> SUFFICES ASSUME NEW x \in Present, Bucket(x, n) = b
               PROVE  At(x, n) \in 1 .. Len(list)
    OBVIOUS
  <2>1. \E i \in 1 .. Len(hTable[Bucket(x, n)]) :
          x = hTable[Bucket(x, n)][i] /\ PlaceOf(x, hTable[Bucket(x, n)]) = i
    BY TableIsRead DEF TableReads, HashHolds
  <2> QED
    BY <2>1 DEF At
<1> HIDE DEF f, b, list, p
<1>7. CASE p + 1 \in 1 .. Len(list)
  <2>1. f = list[p + 1] /\ f # NoItem
    BY <1>2, <1>3, <1>7, ItemIs
  <2>2. f \in Present /\ Bucket(f, n) = b /\ At(f, n) = p + 1
    BY <1>3, <1>4, <1>5, <1>7, <2>1
  <2> QED
    BY <1>2, <2>1, <2>2 DEF f, b, list, p
<1>8. CASE p + 1 \notin 1 .. Len(list)
  <2>1. f = NoItem
    BY <1>1, <1>2, <1>3, <1>8, ItemIs
  <2>2. Len(list) \in Nat /\ Len(list) <= p
    BY <1>1, <1>3, <1>8
  <2>3. \A x \in Present : Bucket(x, n) = b => At(x, n) <= p
    <3> TAKE x \in Present
    <3> HAVE Bucket(x, n) = b
    <3>1. At(x, n) \in 1 .. Len(list)
      BY <1>6
    <3> QED
      BY <1>1, <2>2, <3>1
  <2> QED
    BY <1>2, <2>1, <2>3 DEF f, b, list, p
<1> QED
  BY <1>7, <1>8

\* The first element of a list that has one.
LEMMA FirstIs ==
  ASSUME NEW n, HashHolds(n), NEW b \in 0 .. n - 1
  PROVE  LET f == First(hTable[b]) IN
         /\ f = NoItem <=> hTable[b] = <<>>
         /\ f # NoItem => f \in Present /\ Bucket(f, n) = b /\ At(f, n) = 1
         /\ f = NoItem => \A x \in Present : Bucket(x, n) # b
<1> DEFINE list == hTable[b]
           f == First(list)
<1>1. list \in Seq(HashKey) /\ \A i \in 1 .. Len(list) : Bucket(list[i], n) = b
  BY DEF HashHolds, TableHolds
<1>2. \A i \in 1 .. Len(list) : list[i] \in Present /\ PlaceOf(list[i], list) = i
  BY TableIsRead DEF TableReads, HashHolds
<1>3. \A i \in 1 .. Len(list) : At(list[i], n) = i
  BY <1>1, <1>2 DEF At
<1>4. \A x \in Present : Bucket(x, n) = b => \E i \in 1 .. Len(list) : x = list[i]
  BY TableIsRead DEF TableReads, HashHolds
<1>5. Len(list) \in Nat /\ (list = <<>> <=> Len(list) = 0) /\ f = ItemAt(list, 1)
  BY <1>1 DEF First
<1> HIDE DEF list, f
<1>6. CASE 1 \in 1 .. Len(list)
  <2>1. f = list[1] /\ f # NoItem /\ list # <<>>
    BY <1>1, <1>5, <1>6, ItemIs
  <2>2. f \in Present /\ Bucket(f, n) = b /\ At(f, n) = 1
    BY <1>1, <1>2, <1>3, <1>6, <2>1
  <2> QED
    BY <2>1, <2>2 DEF f, list
<1>7. CASE 1 \notin 1 .. Len(list)
  <2>1. f = NoItem /\ Len(list) = 0 /\ list = <<>>
    BY <1>1, <1>5, <1>7, ItemIs
  <2>2. \A x \in Present : Bucket(x, n) # b
    BY <1>4, <2>1
  <2> QED
    BY <2>1, <2>2 DEF f, list
<1> QED
  BY <1>6, <1>7

\* A set of numbers up to n that is not empty has a least element: the list at which
\* rim_next_hash() stops looking.
LEMMA LeastList ==
  ASSUME NEW n \in Nat, NEW T \in SUBSET (0 .. n), T # {}
  PROVE  Min(T) \in T /\ \A m \in T : Min(T) <= m
<1> DEFINE F == {0 .. t : t \in T}
           R == StrictSubsetOrdering(0 .. n)
<1>1. IsFiniteSet(0 .. n)
  BY FS_Interval
<1>2. IsWellFoundedOn(R, SUBSET (0 .. n))
  BY <1>1, FS_StrictSubsetOrderingWellFounded, FS_FiniteSubsetsOfFinite
<1>3. F \subseteq SUBSET (0 .. n) /\ F # {}
  <2>1. \A t \in T : 0 .. t \subseteq 0 .. n
    OBVIOUS
  <2> QED
    BY <2>1
<1> HIDE DEF R
<1>4. PICK x \in F : \A y \in F : ~ (<<y, x>> \in R)
  BY <1>2, <1>3, WFMin
<1>5. PICK t \in T : x = 0 .. t
  BY <1>4
<1>6. ASSUME NEW m \in T, m < t PROVE FALSE
  <2>1. 0 .. m \in F /\ 0 .. m \in SUBSET (0 .. n) /\ x \in SUBSET (0 .. n)
    BY <1>3, <1>5
  <2>2. t \in 0 .. t /\ t \notin 0 .. m /\ 0 .. m \subseteq 0 .. t
    BY <1>6
  <2>3. <<0 .. m, x>> \in R
    BY <2>1, <2>2, <1>5 DEF R, StrictSubsetOrdering
  <2> QED
    BY <1>4, <2>1, <2>3
<1>7. \A m \in T : t <= m
  BY <1>6
<1> HIDE DEF F
<1> QED
  BY <1>7 DEF Min

\* rim_next_hash() that finds an element reads the first of those that are left.
LEMMA ReadAtIs ==
  ASSUME NEW n, HashHolds(n), hNext # NumBuckets, ReadAt.at # NoItem
  PROVE  LET k == ReadAt.at IN
         /\ k \in Present /\ ReadAt.list = Bucket(k, n)
         /\ ReadAt.prev = ItemAt(hTable[Bucket(k, n)], At(k, n) - 1)
         /\ \A x \in Present :
              IsLeft(x, n) <=> \/ Bucket(x, n) > Bucket(k, n)
                               \/ Bucket(x, n) = Bucket(k, n) /\ At(x, n) >= At(k, n)
<1>1. /\ n \in Nat \ {0} /\ NumBuckets = n /\ DOMAIN hTable = 0 .. n - 1
      /\ hNext \in 0 .. n
      /\ \A k \in Present : Bucket(k, n) \in 0 .. n - 1 /\ At(k, n) \in Nat /\ At(k, n) >= 1
  BY HashFactsHold DEF HashFacts
<1>2. CASE hCurr # NoItem
  <2>1. ReadAt.at = hCurr /\ ReadAt.list = hNext /\ ReadAt.prev = hPrev
    BY <1>2 DEF ReadAt
  <2>2. /\ hCurr \in Present /\ Bucket(hCurr, n) = hNext
        /\ hPrev = ItemAt(hTable[hNext], At(hCurr, n) - 1)
    BY <1>2 DEF HashHolds, PositionHolds
  <2> QED
    BY <1>2, <2>1, <2>2 DEF IsLeft
<1>3. CASE hCurr = NoItem
  <2> DEFINE m == Min(Ahead)
  <2>1. /\ ReadAt.list = m /\ ReadAt.at = First(hTable[m]) /\ ReadAt.prev = NoItem
        /\ Ahead # {}
    BY <1>3 DEF ReadAt
  <2>2. Ahead \in SUBSET (0 .. n)
    BY <1>1 DEF Ahead
  <2>3. m \in Ahead /\ \A i \in Ahead : m <= i
    BY <1>1, <2>1, <2>2, LeastList
  <2>4. m \in 0 .. n - 1 /\ m > hNext
    BY <1>1, <2>3 DEF Ahead
  <2> HIDE DEF m
  <2> DEFINE k == First(hTable[m])
  <2>5. k \in Present /\ Bucket(k, n) = m /\ At(k, n) = 1
    <3>1. k # NoItem
      BY <2>1
    <3> QED
      BY <2>4, <3>1, FirstIs
  <2> HIDE DEF k
  <2>6. ReadAt.at = k
    BY <2>1 DEF k
  <2>7. ItemAt(hTable[m], 1 - 1) = NoItem
    <3>1. hTable[m] \in Seq(HashKey)
      BY <2>4 DEF HashHolds, TableHolds
    <3> QED
      BY <3>1, ItemIs
  <2>8. \A x \in Present : Bucket(x, n) > hNext => Bucket(x, n) >= m
    <3> SUFFICES ASSUME NEW x \in Present, Bucket(x, n) > hNext
                 PROVE  Bucket(x, n) \in Ahead
      BY <2>3
    <3>1. Bucket(x, n) \in 0 .. n - 1
      BY <1>1
    <3>2. hTable[Bucket(x, n)] # <<>>
      BY <3>1, FirstIs
    <3> QED
      BY <1>1, <3>1, <3>2 DEF Ahead
  <2>9. ASSUME NEW x \in Present
        PROVE  IsLeft(x, n) <=> \/ Bucket(x, n) > Bucket(k, n)
                                \/ Bucket(x, n) = Bucket(k, n) /\ At(x, n) >= At(k, n)
    <3>1. IsLeft(x, n) <=> Bucket(x, n) > hNext
      BY <1>3 DEF IsLeft
    <3>2. Bucket(x, n) \in Nat /\ At(x, n) \in Nat /\ At(x, n) >= 1 /\ m \in Nat /\ hNext \in Nat
      BY <1>1, <2>4
    <3>3. Bucket(x, n) > hNext => Bucket(x, n) >= m
      BY <2>8
    <3> QED
      BY <2>4, <2>5, <3>1, <3>2, <3>3
  <2> QED
    BY <2>1, <2>5, <2>6, <2>7, <2>9
<1> QED
  BY <1>2, <1>3

\* rim_next_hash() that finds none has none left to find.
LEMMA NothingAt ==
  ASSUME NEW n, HashHolds(n), hNext = NumBuckets \/ ReadAt.at = NoItem
  PROVE  hCurr = NoItem /\ \A x \in Present : ~ IsLeft(x, n)
<1>1. /\ n \in Nat \ {0} /\ NumBuckets = n /\ DOMAIN hTable = 0 .. n - 1
      /\ hNext \in 0 .. n
      /\ \A k \in Present : Bucket(k, n) \in 0 .. n - 1
  BY HashFactsHold DEF HashFacts
<1>2. hCurr = NoItem
  <2>1. CASE hNext = n
    BY <1>1, <2>1 DEF HashHolds, PositionHolds
  <2>2. CASE ReadAt.at = NoItem
    BY <2>2 DEF ReadAt
  <2> QED
    BY <1>1, <2>1, <2>2
<1>3. ASSUME NEW x \in Present, Bucket(x, n) > hNext PROVE FALSE
  <2>1. Bucket(x, n) \in 0 .. n - 1
    BY <1>1
  <2>2. hNext # n
    BY <1>1, <1>3, <2>1
  <2>3. hTable[Bucket(x, n)] # <<>>
    BY <2>1, FirstIs
  <2>4. Ahead # {}
    BY <1>1, <1>3, <2>1, <2>3 DEF Ahead
  <2> DEFINE m == Min(Ahead)
  <2>5. Ahead \in SUBSET (0 .. n)
    BY <1>1 DEF Ahead
  <2>6. m \in Ahead
    BY <1>1, <2>4, <2>5, LeastList
  <2>7. m \in 0 .. n - 1 /\ hTable[m] # <<>>
    BY <1>1, <2>6 DEF Ahead
  <2>8. ReadAt.at = First(hTable[m])
    BY <1>2, <2>4 DEF ReadAt
  <2> HIDE DEF m
  <2>9. First(hTable[m]) # NoItem
    BY <2>7, FirstIs
  <2> QED
    BY <1>1, <2>2, <2>8, <2>9
<1> QED
  BY <1>2, <1>3 DEF IsLeft

-----------------------------------------------------------------------------
(* The statements: each keeps the invariant and is one of a dictionary.    *)

\* What the operators that a step may not look into have in common here.
LEMMA DictIs ==
  DOMAIN Dict = Present /\ \A k \in Present : Dict[k] = hData[k]
BY DEF Dict

\* write-hash of a new key: it comes to stand behind the position or in front of
\* it, and nothing else that is left changes.
LEMMA WriteNewHolds ==
  ASSUME NEW n, HashHolds(n), ~ Disturbs, NEW k \in HashKey, NEW v \in HashVal,
         WriteNew(k, v)
  PROVE  HashHolds(n)' /\ HashDictionary!Store(k, v, FALSE)
<1> DEFINE b == Bucket(k, n)
<1>1. /\ n \in Nat \ {0} /\ NumBuckets = n
      /\ Present \subseteq HashKey /\ IsFiniteSet(Present)
      /\ hNext \in 0 .. n
      /\ \A x \in Present : Bucket(x, n) \in 0 .. n - 1 /\ At(x, n) \in Nat /\ At(x, n) >= 1
  BY HashFactsHold DEF HashFacts
<1>2. /\ k \notin Present /\ ~ (b = hNext /\ hCurr # NoItem /\ hPrev = NoItem)
      /\ hTable' = [hTable EXCEPT ![b] = <<k>> \o @]
      /\ hData' = [hData EXCEPT ![k] = v] /\ hTot' = hTot + 1 /\ hRefs' = Taken(hRefs, v)
      /\ hAnswer' = <<"write">> /\ hNext' = hNext /\ hCurr' = hCurr /\ hPrev' = hPrev
  BY <1>1 DEF WriteNew, hCursor
<1>3. TableHolds(n)' /\ Present' = Present \cup {k} /\ At(k, n)' = 1
  BY <1>2, ElementAdded DEF HashHolds
<1>4. \A x \in Present : At(x, n)' = IF Bucket(x, n) = b THEN At(x, n) + 1 ELSE At(x, n)
  BY <1>2, ElementAdded DEF HashHolds
<1>5. \A c \in 0 .. n - 1, i \in Nat :
        i > 0 => ItemAt(hTable'[c], IF c = b THEN i + 1 ELSE i) = ItemAt(hTable[c], i)
  BY <1>2, ElementAdded DEF HashHolds
<1>6. b \in 0 .. n - 1
  BY <1>1, BucketIs
<1> HIDE DEF b
<1>7. HashCounts'
  BY <1>1, <1>2, <1>3, CountsAdded DEF HashHolds
<1>8. PositionHolds(n)'
  <2>1. CASE hCurr = NoItem
    BY <1>1, <1>2, <2>1 DEF PositionHolds
  <2>2. CASE hCurr # NoItem
    <3> DEFINE p == At(hCurr, n)
               q == At(hCurr, n)'
    <3>1. /\ hCurr \in Present /\ Bucket(hCurr, n) = hNext /\ hPrev = ItemAt(hTable[hNext], p - 1)
          /\ hNext \in 0 .. n - 1 /\ p \in Nat /\ p >= 1
      BY <1>1, <2>2 DEF HashHolds, PositionHolds
    <3>2. q = IF hNext = b THEN p + 1 ELSE p
      BY <1>2, <1>4, <3>1
    <3>3. ItemAt(hTable'[hNext], q - 1) = ItemAt(hTable[hNext], p - 1)
      <4> HIDE DEF p, q
      <4>1. CASE p - 1 > 0
        <5>1. q - 1 = IF hNext = b THEN (p - 1) + 1 ELSE p - 1
          BY <3>1, <3>2
        <5>2. p - 1 \in Nat
          BY <3>1
        <5> QED
          BY <1>5, <3>1, <4>1, <5>1, <5>2
      <4>2. CASE ~ (p - 1 > 0)
        <5>1. p - 1 = 0 /\ 0 \notin 1 .. Len(hTable[hNext]) /\ 0 \notin 1 .. Len(hTable'[hNext])
          BY <3>1, <4>2
        <5>2. hTable[hNext] \in Seq(HashKey) /\ hTable'[hNext] \in Seq(HashKey)
          BY <1>3, <3>1 DEF HashHolds, TableHolds
        <5>3. ItemAt(hTable[hNext], 0) = NoItem /\ ItemAt(hTable'[hNext], 0) = NoItem
          BY <5>1, <5>2, ItemIs
        <5>4. hNext # b
          BY <1>2, <2>2, <3>1, <5>1, <5>3
        <5> QED
          BY <3>2, <5>1, <5>3, <5>4
      <4> QED
        BY <4>1, <4>2
    <3>4. /\ hCurr' \in Present' /\ Bucket(hCurr', n) = hNext'
          /\ hPrev' = ItemAt(hTable'[hNext'], q - 1)
      BY <1>2, <1>3, <3>1, <3>3
    <3> QED
      BY <1>1, <1>2, <3>4 DEF PositionHolds
  <2> QED
    BY <2>1, <2>2
<1>9. HashHolds(n)'
  BY <1>3, <1>7, <1>8 DEF HashHolds
<1>10. \A x \in Present : IsLeft(x, n)' <=> IsLeft(x, n)
  <2> TAKE x \in Present
  <2>1. At(x, n)' = IF Bucket(x, n) = b THEN At(x, n) + 1 ELSE At(x, n)
    BY <1>4
  <2>2. hCurr # NoItem => hCurr \in Present /\ Bucket(hCurr, n) = hNext
    BY DEF HashHolds, PositionHolds
  <2>3. hCurr # NoItem => At(hCurr, n)' = IF hNext = b THEN At(hCurr, n) + 1 ELSE At(hCurr, n)
    BY <1>2, <1>4, <2>2
  <2>4. hCurr # NoItem => At(hCurr, n) \in Nat
    BY <1>1, <2>2
  <2>5. At(x, n) \in Nat
    BY <1>1
  <2>6. IsLeft(x, n)' <=> \/ Bucket(x, n) > hNext
                          \/ hCurr # NoItem /\ Bucket(x, n) = hNext /\ At(x, n)' >= At(hCurr, n)'
    BY <1>2 DEF IsLeft
  <2> QED
    BY <2>1, <2>3, <2>4, <2>5, <2>6 DEF IsLeft
<1>11. LeftInHash' \in {LeftInHash, LeftInHash \cup {k}}
  <2>1. \A x : x \in LeftInHash <=> x \in Present /\ IsLeft(x, n)
    BY HashFactsHold DEF HashFacts
  <2>2. \A x : x \in LeftInHash' <=> x \in Present' /\ IsLeft(x, n)'
    BY <1>9, HashFactsHoldNext DEF HashFacts
  <2>3. \A x : x # k => (x \in LeftInHash' <=> x \in LeftInHash)
    BY <1>3, <1>10, <2>1, <2>2
  <2>4. k \notin LeftInHash
    BY <1>2, <2>1
  <2>5. LeftInHash' = LeftInHash \/ LeftInHash' = LeftInHash \cup {k}
    BY <2>3, <2>4
  <2> QED
    BY <2>5
<1>12. Dict' = [x \in DOMAIN Dict \cup {k} |-> IF x = k THEN v ELSE Dict[x]]
  <2>1. \A x \in Present : hData'[x] = hData[x] /\ x # k
    BY <1>1, <1>2 DEF HashHolds, HashCounts
  <2>2. hData'[k] = v
    BY <1>2 DEF HashHolds, HashCounts
  <2> QED
    BY <1>3, <2>1, <2>2 DEF Dict
<1>13. DOMAIN Dict = Present
  BY DictIs
<1> QED
  BY <1>2, <1>9, <1>11, <1>12, <1>13 DEF HashDictionary!Store, Dict

\* Statements that only read leave all as it is.
LEMMA TableKept ==
  ASSUME hTable' = hTable
  PROVE  /\ Present' = Present /\ \A n : TableHolds(n) => TableHolds(n)'
         /\ \A k, n : At(k, n)' = At(k, n)
         /\ hNext' = hNext /\ hCurr' = hCurr => LeftInHash' = LeftInHash
<1>1. Present' = Present
  BY DEF Present
<1>2. \A n : TableHolds(n) => TableHolds(n)'
  BY DEF TableHolds
<1>3. \A k, n : At(k, n)' = At(k, n)
  BY DEF At
<1>4. ASSUME hNext' = hNext, hCurr' = hCurr PROVE LeftInHash' = LeftInHash
  BY <1>4 DEF LeftInHash, ListOf, NumBuckets
<1> QED
  BY <1>1, <1>2, <1>3, <1>4

\* rim_find_hash() without a delete, and get-hash, change neither elements nor position.
LEMMA HashKept ==
  ASSUME NEW n, HashHolds(n), UNCHANGED <<hTable, hData, hTot, hCursor, hRefs>>
  PROVE  HashHolds(n)' /\ LeftInHash' = LeftInHash /\ Present' = Present /\ Dict' = Dict
<1>1. /\ hTable' = hTable /\ hData' = hData /\ hTot' = hTot /\ hRefs' = hRefs
      /\ hNext' = hNext /\ hCurr' = hCurr /\ hPrev' = hPrev
  BY DEF hCursor
<1>2. Present' = Present /\ TableHolds(n)' /\ LeftInHash' = LeftInHash
  BY <1>1, TableKept DEF HashHolds
<1>3. \A v : Holding(v)' = Holding(v)
  BY <1>1, <1>2 DEF Holding
<1>4. HashCounts'
  BY <1>1, <1>2, <1>3 DEF HashHolds, HashCounts, HashHoldsValues
<1>5. PositionHolds(n)'
  <2>1. PositionHolds(n)
    BY DEF HashHolds
  <2>2. hCurr # NoItem => At(hCurr, n)' = At(hCurr, n)
    BY <1>1, TableKept
  <2> QED
    BY <1>1, <1>2, <2>1, <2>2 DEF PositionHolds
<1>6. Dict' = Dict
  BY <1>1, <1>2 DEF Dict
<1> QED
  BY <1>2, <1>4, <1>5, <1>6 DEF HashHolds

\* write-hash of a key that is there changes its value and no place.
LEMMA WriteOverHolds ==
  ASSUME NEW n, HashHolds(n), NEW k \in HashKey, NEW v \in HashVal,
         NEW wantsOld \in BOOLEAN, WriteOver(k, v, wantsOld)
  PROVE  HashHolds(n)' /\ HashDictionary!Store(k, v, wantsOld)
<1>1. /\ k \in Present /\ hData' = [hData EXCEPT ![k] = v]
      /\ hRefs' = RefsReplaced(hData[k], v, wantsOld)
      /\ hAnswer' = IF wantsOld THEN <<"write", hData[k]>> ELSE <<"write">>
      /\ hTable' = hTable /\ hTot' = hTot
      /\ hNext' = hNext /\ hCurr' = hCurr /\ hPrev' = hPrev
  BY DEF WriteOver, hCursor
<1>2. Present' = Present /\ TableHolds(n)' /\ LeftInHash' = LeftInHash
  BY <1>1, TableKept DEF HashHolds
<1>3. HashCounts'
  <2>1. IsFiniteSet(Present) /\ Present \subseteq HashKey
    BY HashFactsHold DEF HashFacts
  <2> QED
    BY <1>1, <1>2, <2>1, CountsReplaced DEF HashHolds
<1>4. PositionHolds(n)'
  <2>1. PositionHolds(n)
    BY DEF HashHolds
  <2>2. hCurr # NoItem => At(hCurr, n)' = At(hCurr, n)
    BY <1>1, TableKept
  <2> QED
    BY <1>1, <1>2, <2>1, <2>2 DEF PositionHolds
<1>5. Dict' = [x \in DOMAIN Dict \cup {k} |-> IF x = k THEN v ELSE Dict[x]]
  <2>1. hData'[k] = v /\ \A x \in Present : x # k => hData'[x] = hData[x]
    BY <1>1 DEF HashHolds, HashCounts
  <2>2. DOMAIN Dict \cup {k} = Present
    BY <1>1, DictIs
  <2> QED
    BY <1>1, <1>2, <2>1, <2>2 DEF Dict
<1>6. DOMAIN Dict = Present /\ Dict[k] = hData[k]
  BY <1>1, DictIs
<1>7. HashHolds(n)'
  BY <1>2, <1>3, <1>4 DEF HashHolds
<1> QED
  BY <1>1, <1>2, <1>5, <1>6, <1>7 DEF HashDictionary!Store, Dict

\* read-hash finds what is there.
LEMMA ReadHashHolds ==
  ASSUME NEW n, HashHolds(n), NEW k \in HashKey, ReadHash(k)
  PROVE  HashHolds(n)' /\ HashDictionary!Lookup(k)
<1>1. HashHolds(n)' /\ LeftInHash' = LeftInHash /\ Dict' = Dict
  BY HashKept DEF ReadHash
<1>2. k \in DOMAIN Dict /\ hAnswer' = <<"read", Dict[k]>>
  BY DictIs DEF ReadHash
<1> QED
  BY <1>1, <1>2 DEF HashDictionary!Lookup, Dict

\* rim_find_hash() says ERR_EXIST of a key only when no list has it.
LEMMA NotFoundHolds ==
  ASSUME NEW n, HashHolds(n), NEW k \in HashKey, NotFound(k)
  PROVE  HashHolds(n)' /\ HashDictionary!Missing(k)
<1>1. HashHolds(n)' /\ LeftInHash' = LeftInHash /\ Dict' = Dict
  BY HashKept DEF NotFound
<1>2. k \notin DOMAIN Dict /\ hAnswer' = <<"read", "ERR_EXIST">>
  BY DictIs DEF NotFound
<1> QED
  BY <1>1, <1>2 DEF HashDictionary!Missing, Dict

\* get-hash length: tot is the number of elements.
LEMMA GetLengthHolds ==
  ASSUME NEW n, HashHolds(n), GetLength
  PROVE  HashHolds(n)' /\ HashDictionary!Count
<1>1. HashHolds(n)' /\ LeftInHash' = LeftInHash /\ Dict' = Dict
  BY HashKept DEF GetLength
<1>2. hAnswer' = <<"length", Cardinality(DOMAIN Dict)>>
  BY DictIs DEF GetLength, HashHolds, HashCounts
<1>3. HashDictionary!Cardinality(DOMAIN Dict) = Cardinality(DOMAIN Dict)
  BY DEF HashDictionary!Cardinality, Cardinality, HashDictionary!IsFiniteSet, IsFiniteSet
<1> QED
  BY <1>1, <1>2, <1>3 DEF HashDictionary!Count, Dict

\* read-hash with delete: the element is gone, and what is left of a traversal is what
\* was, without it.
LEMMA ReadDeleteHolds ==
  ASSUME NEW n, HashHolds(n), ~ Disturbs, NEW k \in HashKey, ReadDelete(k)
  PROVE  HashHolds(n)' /\ HashDictionary!Delete(k)
<1> DEFINE b == Bucket(k, n)
           p == At(k, n)
<1>1. /\ n \in Nat \ {0} /\ NumBuckets = n
      /\ Present \subseteq HashKey /\ IsFiniteSet(Present)
      /\ hNext \in 0 .. n
      /\ \A x \in Present : Bucket(x, n) \in 0 .. n - 1 /\ At(x, n) \in Nat /\ At(x, n) >= 1
  BY HashFactsHold DEF HashFacts
<1>2. /\ k \in Present /\ ~ (hPrev = k /\ hCurr # NoItem)
      /\ hTable' = [hTable EXCEPT ![b] = Unlinked(k, ItemAt(hTable[b], p - 1), @)]
      /\ hData' = [hData EXCEPT ![k] = NoItem] /\ hTot' = hTot - 1
      /\ hRefs' = Dropped(hRefs, hData[k])
      /\ hAnswer' = <<"delete", hData[k]>>
      /\ hNext' = hNext /\ hPrev' = (IF hPrev = k THEN Freed ELSE hPrev)
      /\ hCurr' = IF hCurr = k THEN Following(k, ListOf(k)) ELSE hCurr
  BY <1>1 DEF ReadDelete, At, PositionAfter
<1>3. TableHolds(n)' /\ Present' = Present \ {k}
  BY <1>2, ElementRemoved DEF HashHolds
<1>4. \A x \in Present \ {k} :
        At(x, n)' = IF Bucket(x, n) = b /\ At(x, n) > p THEN At(x, n) - 1 ELSE At(x, n)
  BY <1>2, ElementRemoved DEF HashHolds
<1>5. \A c \in 0 .. n - 1, i \in Nat :
        ItemAt(hTable'[c], i) = ItemAt(hTable[c], IF c = b /\ i >= p THEN i + 1 ELSE i)
  <2>1. ItemsWithout(k, n)
    BY <1>2, ElementRemoved DEF HashHolds
  <2> QED
    BY <2>1 DEF ItemsWithout
<1>6. b \in 0 .. n - 1 /\ p \in Nat /\ p >= 1 /\ k # NoItem
  BY <1>1, <1>2, HashAssumption
<1>7. \A x \in Present : Bucket(x, n) = b /\ At(x, n) = p => x = k
  BY <1>2, EarlierIs DEF HashHolds
<1> DEFINE f == Following(k, ListOf(k))
<1>8. /\ f # NoItem => f \in Present /\ Bucket(f, n) = b /\ At(f, n) = p + 1
      /\ f = NoItem => \A x \in Present : Bucket(x, n) = b => At(x, n) <= p
  BY <1>2, FollowingIs
<1> HIDE DEF b, p, f
<1>9. HashCounts'
  BY <1>1, <1>2, <1>3, CountsRemoved DEF HashHolds
<1>10. hCurr # NoItem => /\ hCurr \in Present /\ Bucket(hCurr, n) = hNext
                         /\ hPrev = ItemAt(hTable[hNext], At(hCurr, n) - 1)
  BY DEF HashHolds, PositionHolds
<1>11. Bucket(k, n) = b /\ At(k, n) = p /\ f = Following(k, ListOf(k))
  BY DEF b, p, f
<1>12. PositionHolds(n)'
  <2>1. CASE hCurr' = NoItem
    BY <1>1, <1>2, <2>1 DEF PositionHolds
  <2>2. CASE hCurr = k /\ f # NoItem
    <3>1. hNext = b /\ hPrev = ItemAt(hTable[b], p - 1) /\ hPrev # k
      BY <1>2, <1>6, <1>10, <1>11, <2>2
    <3>2. hCurr' = f /\ f \in Present \ {k} /\ Bucket(f, n) = b /\ At(f, n) = p + 1
      <4>1. p + 1 # p
        BY <1>6
      <4> QED
        BY <1>2, <1>8, <1>11, <2>2, <4>1
    <3>3. \A x \in Present \ {k} : Bucket(x, n) = b /\ At(x, n) = p + 1 => At(x, n)' = p
      BY <1>4, <1>6
    <3>4. At(hCurr, n)' = p
      BY <3>2, <3>3
    <3>5. ItemAt(hTable'[b], p - 1) = ItemAt(hTable[b], p - 1)
      <4>1. p - 1 \in Nat /\ ~ (p - 1 >= p)
        BY <1>6
      <4> QED
        BY <1>5, <1>6, <4>1
    <3>6. hCurr' \in Present' /\ Bucket(hCurr', n) = hNext' /\ hNext' = b
          /\ hPrev' = ItemAt(hTable'[hNext'], p - 1)
      BY <1>2, <1>3, <3>1, <3>2, <3>5
    <3> QED
      BY <1>1, <1>2, <3>4, <3>6 DEF PositionHolds
  <2>3. CASE hCurr # k /\ hCurr # NoItem
    <3> DEFINE c == At(hCurr, n)
               d == At(hCurr, n)'
    <3>1. /\ hCurr \in Present \ {k} /\ Bucket(hCurr, n) = hNext /\ hNext \in 0 .. n - 1
          /\ hPrev = ItemAt(hTable[hNext], c - 1) /\ c \in Nat /\ c >= 1
          /\ hCurr' = hCurr /\ hPrev # k
      BY <1>1, <1>2, <1>10, <2>3
    <3>2. d = IF hNext = b /\ c > p THEN c - 1 ELSE c
      BY <1>4, <3>1
    <3>3. hNext = b => c # p /\ c # p + 1
      <4>1. hNext = b => c # p
        BY <1>7, <3>1
      <4>2. ASSUME hNext = b, c = p + 1 PROVE FALSE
        <5>1. hPrev = ItemAt(hTable[b], p)
          BY <1>6, <3>1, <4>2
        <5>2. ItemAt(hTable[b], p) = k
          <6>1. hTable[b] \in Seq(HashKey)
            BY <1>6 DEF HashHolds, TableHolds
          <6>2. p \in 1 .. Len(hTable[b]) /\ k = hTable[b][p]
            BY <1>2, <1>11, TableIsRead DEF TableReads, HashHolds, At
          <6> QED
            BY <6>1, <6>2, ItemIs
        <5> QED
          BY <3>1, <5>1, <5>2
      <4> QED
        BY <4>1, <4>2
    <3> HIDE DEF c, d
    <3>4. ItemAt(hTable'[hNext], d - 1) = ItemAt(hTable[hNext], c - 1)
      <4>1. d - 1 \in Nat
        BY <1>6, <3>1, <3>2
      <4>2. (IF hNext = b /\ d - 1 >= p THEN (d - 1) + 1 ELSE d - 1) = c - 1
        BY <1>6, <3>1, <3>2, <3>3
      <4>3. ItemAt(hTable'[hNext], d - 1)
              = ItemAt(hTable[hNext], IF hNext = b /\ d - 1 >= p THEN (d - 1) + 1 ELSE d - 1)
        BY <1>5, <3>1, <4>1
      <4> QED
        BY <4>2, <4>3
    <3>5. /\ hCurr' \in Present' /\ Bucket(hCurr', n) = hNext'
          /\ hPrev' = ItemAt(hTable'[hNext'], d - 1)
      BY <1>2, <1>3, <3>1, <3>4
    <3> QED
      BY <1>1, <1>2, <3>5 DEF PositionHolds, d
  <2> QED
    BY <1>2, <1>11, <2>1, <2>2, <2>3
<1>13. HashHolds(n)'
  BY <1>3, <1>9, <1>12 DEF HashHolds
<1>14. ASSUME NEW x \in Present \ {k} PROVE IsLeft(x, n)' <=> IsLeft(x, n)
  <2>1. At(x, n)' = IF Bucket(x, n) = b /\ At(x, n) > p THEN At(x, n) - 1 ELSE At(x, n)
    BY <1>4
  <2>2. At(x, n) \in Nat /\ (Bucket(x, n) = b => At(x, n) # p)
    BY <1>1, <1>7
  <2>3. IsLeft(x, n)' <=> \/ Bucket(x, n) > hNext
                          \/ /\ hCurr' # NoItem /\ Bucket(x, n) = hNext
                             /\ At(x, n)' >= At(hCurr, n)'
    BY <1>2 DEF IsLeft
  <2>4. CASE hCurr = NoItem
    <3>1. hCurr' = NoItem
      BY <1>2, <1>6, <2>4
    <3> QED
      BY <2>3, <2>4, <3>1 DEF IsLeft
  <2>5. CASE hCurr = k /\ f = NoItem
    <3>1. hCurr' = NoItem /\ hNext = b
      BY <1>2, <1>6, <1>10, <1>11, <2>5
    <3>2. Bucket(x, n) = b => At(x, n) <= p
      BY <1>8, <2>5
    <3>3. Bucket(x, n) = b => ~ (At(x, n) >= p)
      BY <1>6, <2>2, <3>2
    <3> QED
      BY <1>11, <2>3, <2>5, <3>1, <3>3 DEF IsLeft
  <2>6. CASE hCurr = k /\ f # NoItem
    <3>1. hCurr' = f /\ hNext = b /\ f \in Present \ {k} /\ Bucket(f, n) = b /\ At(f, n) = p + 1
      <4>1. p + 1 # p
        BY <1>6
      <4> QED
        BY <1>2, <1>6, <1>8, <1>10, <1>11, <2>6, <4>1
    <3>2. \A y \in Present \ {k} : Bucket(y, n) = b /\ At(y, n) = p + 1 => At(y, n)' = p
      BY <1>4, <1>6
    <3>3. At(hCurr, n)' = p
      BY <3>1, <3>2
    <3>4. Bucket(x, n) = b => (At(x, n)' >= p <=> At(x, n) >= p)
      BY <1>6, <2>1, <2>2
    <3>5. hCurr # NoItem /\ hCurr' # NoItem /\ At(hCurr, n) = p
      BY <1>6, <1>11, <2>6, <3>1
    <3> QED
      BY <2>3, <3>1, <3>3, <3>4, <3>5 DEF IsLeft
  <2>7. CASE hCurr # k /\ hCurr # NoItem
    <3> DEFINE c == At(hCurr, n)
               d == At(hCurr, n)'
    <3>1. /\ hCurr \in Present \ {k} /\ Bucket(hCurr, n) = hNext /\ c \in Nat /\ hCurr' = hCurr
      BY <1>1, <1>2, <1>10, <2>7
    <3>2. d = IF hNext = b /\ c > p THEN c - 1 ELSE c
      BY <1>4, <3>1
    <3>3. hNext = b => c # p
      BY <1>7, <3>1
    <3> HIDE DEF c, d
    <3>4. Bucket(x, n) = hNext => (At(x, n)' >= d <=> At(x, n) >= c)
      BY <1>6, <2>1, <2>2, <3>1, <3>2, <3>3
    <3> QED
      BY <2>3, <2>7, <3>1, <3>4 DEF IsLeft, c, d
  <2> QED
    BY <2>4, <2>5, <2>6, <2>7
<1>15. LeftInHash' = LeftInHash \ {k}
  <2>1. \A x : x \in LeftInHash <=> x \in Present /\ IsLeft(x, n)
    BY HashFactsHold DEF HashFacts
  <2>2. \A x : x \in LeftInHash' <=> x \in Present' /\ IsLeft(x, n)'
    BY <1>13, HashFactsHoldNext DEF HashFacts
  <2>3. \A x : x \in LeftInHash' <=> x \in LeftInHash /\ x # k
    BY <1>3, <1>14, <2>1, <2>2
  <2> QED
    BY <2>3
<1>16. Dict' = [x \in DOMAIN Dict \ {k} |-> Dict[x]]
  <2>1. \A x \in Present \ {k} : hData'[x] = hData[x]
    BY <1>2 DEF HashHolds, HashCounts
  <2> QED
    BY <1>3, <2>1 DEF Dict
<1>17. k \in DOMAIN Dict /\ Dict[k] = hData[k]
  BY <1>2, DictIs
<1> QED
  BY <1>2, <1>13, <1>15, <1>16, <1>17 DEF HashDictionary!Delete, HashDictionary!Without, Dict

\* Moving the position changes no element.
LEMMA ContentKept ==
  ASSUME NEW n, HashHolds(n), UNCHANGED <<hTable, hData, hTot, hRefs>>
  PROVE  TableHolds(n)' /\ HashCounts' /\ Present' = Present /\ Dict' = Dict
<1>1. hTable' = hTable /\ hData' = hData /\ hTot' = hTot /\ hRefs' = hRefs
  OBVIOUS
<1>2. Present' = Present /\ TableHolds(n)'
  BY <1>1, TableKept DEF HashHolds
<1>3. \A v : Holding(v)' = Holding(v)
  BY <1>1, <1>2 DEF Holding
<1>4. HashCounts'
  BY <1>1, <1>2, <1>3 DEF HashHolds, HashCounts, HashHoldsValues
<1>5. Dict' = Dict
  BY <1>1, <1>2 DEF Dict
<1> QED
  BY <1>2, <1>4, <1>5

\* read-hash traverse begin: every element is left.
LEMMA BeginHolds ==
  ASSUME NEW n, HashHolds(n), BeginHash
  PROVE  HashHolds(n)' /\ HashDictionary!Begin
<1>1. /\ n \in Nat \ {0} /\ hNext \in 0 .. n
      /\ \A x \in Present : Bucket(x, n) \in 0 .. n - 1 /\ At(x, n) \in Nat /\ At(x, n) >= 1
  BY HashFactsHold DEF HashFacts
<1>2. /\ hNext' = 0 /\ hCurr' = First(hTable[0]) /\ hPrev' = NoItem /\ hTable' = hTable
      /\ hAnswer' = <<"begin">>
  BY DEF BeginHash
<1>3. TableHolds(n)' /\ HashCounts' /\ Present' = Present /\ Dict' = Dict
  BY ContentKept DEF BeginHash
<1>4. 0 \in 0 .. n - 1 /\ 0 \in 0 .. n
  BY <1>1
<1> DEFINE f == First(hTable[0])
<1>5. /\ f # NoItem => f \in Present /\ Bucket(f, n) = 0 /\ At(f, n) = 1
      /\ f = NoItem => \A x \in Present : Bucket(x, n) # 0
  BY <1>4, FirstIs
<1> HIDE DEF f
<1>6. hCurr' = f
  BY <1>2 DEF f
<1>7. \A x : At(x, n)' = At(x, n)
  BY <1>2, TableKept
<1>8. f # NoItem => At(hCurr, n)' = 1
  <2>1. \A x \in Present : At(x, n) = 1 => At(x, n)' = 1
    BY <1>7
  <2> QED
    BY <1>5, <1>6, <2>1
<1>9. PositionHolds(n)'
  <2>1. CASE f = NoItem
    BY <1>2, <1>4, <1>6, <2>1 DEF PositionHolds
  <2>2. CASE f # NoItem
    <3>1. At(hCurr, n)' - 1 = 0
      BY <1>8, <2>2
    <3>2. ItemAt(hTable[0], 0) = NoItem
      <4>1. hTable[0] \in Seq(HashKey)
        BY <1>4 DEF HashHolds, TableHolds
      <4> QED
        BY <4>1, ItemIs
    <3>3. hCurr' \in Present' /\ Bucket(hCurr', n) = 0
      BY <1>3, <1>5, <1>6, <2>2
    <3>4. hPrev' = ItemAt(hTable'[hNext'], 0)
      BY <1>2, <3>2
    <3> QED
      BY <1>2, <1>4, <3>1, <3>3, <3>4 DEF PositionHolds
  <2> QED
    BY <2>1, <2>2
<1>10. HashHolds(n)'
  BY <1>3, <1>9 DEF HashHolds
<1>11. ASSUME NEW x \in Present PROVE IsLeft(x, n)'
  <2>1. CASE Bucket(x, n) > 0
    BY <1>2, <2>1 DEF IsLeft
  <2>2. CASE Bucket(x, n) = 0
    <3>1. f # NoItem
      BY <1>5, <2>2
    <3>2. At(x, n)' \in Nat /\ At(x, n)' >= 1
      BY <1>1, <1>7
    <3> QED
      BY <1>2, <1>6, <1>8, <2>2, <3>1, <3>2 DEF IsLeft
  <2>3. Bucket(x, n) > 0 \/ Bucket(x, n) = 0
    BY <1>1
  <2> QED
    BY <2>1, <2>2, <2>3
<1>12. LeftInHash' = DOMAIN Dict
  <2>1. \A x : x \in LeftInHash' <=> x \in Present' /\ IsLeft(x, n)'
    BY <1>10, HashFactsHoldNext DEF HashFacts
  <2>2. \A x : x \in LeftInHash' <=> x \in DOMAIN Dict
    BY <1>3, <1>11, <2>1, DictIs
  <2> QED
    BY <2>2
<1> QED
  BY <1>2, <1>3, <1>10, <1>12 DEF HashDictionary!Begin, Dict

\* read-hash traverse at the end: nothing is left.
LEMMA TraverseEndHolds ==
  ASSUME NEW n, HashHolds(n), TraverseEnd
  PROVE  HashHolds(n)' /\ HashDictionary!End
<1>1. n \in Nat \ {0} /\ NumBuckets = n
      /\ \A x \in Present : Bucket(x, n) \in 0 .. n - 1
  BY HashFactsHold DEF HashFacts
<1>2. hNext' = n /\ hCurr' = hCurr /\ hAnswer' = <<"traverse", "ERR_EXIST">>
  BY <1>1 DEF TraverseEnd
<1>3. TableHolds(n)' /\ HashCounts' /\ Present' = Present /\ Dict' = Dict
  BY ContentKept DEF TraverseEnd
<1>4. hCurr = NoItem /\ \A x \in Present : ~ IsLeft(x, n)
  BY NothingAt DEF TraverseEnd
<1>5. HashHolds(n)'
  BY <1>1, <1>2, <1>3, <1>4 DEF HashHolds, PositionHolds
<1>6. \A x \in Present : ~ IsLeft(x, n)'
  BY <1>1, <1>2, <1>4 DEF IsLeft
<1>7. LeftInHash = {} /\ LeftInHash' = {}
  <2>1. \A x : x \in LeftInHash <=> x \in Present /\ IsLeft(x, n)
    BY HashFactsHold DEF HashFacts
  <2>2. \A x : x \in LeftInHash' <=> x \in Present' /\ IsLeft(x, n)'
    BY <1>5, HashFactsHoldNext DEF HashFacts
  <2> QED
    BY <1>3, <1>4, <1>6, <2>1, <2>2
<1> QED
  BY <1>2, <1>3, <1>5, <1>7 DEF HashDictionary!End, Dict

\* read-hash traverse: of what is left it meets one element, and stands behind it.
LEMMA TraverseHolds ==
  ASSUME NEW n, HashHolds(n), NEW k, k = ReadAt.at, Traverse
  PROVE  k \in HashKey /\ HashHolds(n)' /\ HashDictionary!Visit(k)
<1> DEFINE b == Bucket(k, n)
           p == At(k, n)
           f == Following(k, ListOf(k))
<1>1. /\ n \in Nat \ {0} /\ Present \subseteq HashKey
      /\ \A x \in Present : Bucket(x, n) \in 0 .. n - 1 /\ At(x, n) \in Nat /\ At(x, n) >= 1
  BY HashFactsHold DEF HashFacts
<1>2. /\ hNext # NumBuckets /\ k # NoItem /\ hAnswer' = <<"traverse", k, hData[k]>>
      /\ hNext' = ReadAt.list /\ hPrev' = k /\ hCurr' = f /\ hTable' = hTable
  BY DEF Traverse
<1>3. TableHolds(n)' /\ HashCounts' /\ Present' = Present /\ Dict' = Dict
  BY ContentKept DEF Traverse
<1>4. k \in Present /\ ReadAt.list = b
  BY <1>2, ReadAtIs
<1>5. \A x \in Present : IsLeft(x, n) <=> \/ Bucket(x, n) > b
                                          \/ Bucket(x, n) = b /\ At(x, n) >= p
  BY <1>2, ReadAtIs
<1>6. /\ f # NoItem => f \in Present /\ Bucket(f, n) = b /\ At(f, n) = p + 1
      /\ f = NoItem => \A x \in Present : Bucket(x, n) = b => At(x, n) <= p
  BY <1>4, FollowingIs
<1>7. \A x \in Present : Bucket(x, n) = b /\ At(x, n) = p => x = k
  BY <1>4, EarlierIs DEF HashHolds
<1>8. b \in 0 .. n - 1 /\ p \in Nat /\ p >= 1
  BY <1>1, <1>4
<1>9. ItemAt(hTable[b], p) = k
  <2>1. hTable[b] \in Seq(HashKey)
    BY <1>8 DEF HashHolds, TableHolds
  <2>2. p \in 1 .. Len(hTable[b]) /\ k = hTable[b][p]
    BY <1>4, TableIsRead DEF TableReads, HashHolds, At
  <2> QED
    BY <2>1, <2>2, ItemIs
<1>10. Bucket(k, n) = b /\ At(k, n) = p
  OBVIOUS
<1> HIDE DEF b, p, f
<1>11. f # NoItem => At(hCurr, n)' = p + 1
  <2>1. \A x \in Present : At(x, n) = p + 1 => At(x, n)' = p + 1
    BY <1>2, TableKept
  <2> QED
    BY <1>2, <1>6, <2>1
<1>12. PositionHolds(n)'
  <2>1. hNext' = b /\ hNext' \in 0 .. n
    BY <1>2, <1>4, <1>8, <1>1
  <2>2. CASE f = NoItem
    BY <1>2, <2>1, <2>2 DEF PositionHolds
  <2>3. CASE f # NoItem
    <3>1. At(hCurr, n)' - 1 = p
      BY <1>8, <1>11, <2>3
    <3>2. /\ hCurr' \in Present' /\ Bucket(hCurr', n) = hNext'
          /\ hPrev' = ItemAt(hTable'[hNext'], p)
      BY <1>2, <1>3, <1>6, <1>9, <2>1, <2>3
    <3> QED
      BY <2>1, <3>1, <3>2 DEF PositionHolds
  <2> QED
    BY <2>2, <2>3
<1>13. HashHolds(n)'
  BY <1>3, <1>12 DEF HashHolds
<1>14. ASSUME NEW x \in Present PROVE IsLeft(x, n)' <=> IsLeft(x, n) /\ x # k
  <2>1. At(x, n)' = At(x, n)
    BY <1>2, TableKept
  <2>2. IsLeft(x, n)' <=> \/ Bucket(x, n) > b
                          \/ f # NoItem /\ Bucket(x, n) = b /\ At(x, n) >= p + 1
    BY <1>2, <1>4, <1>11, <2>1 DEF IsLeft
  <2>3. At(x, n) \in Nat /\ Bucket(x, n) \in Nat /\ b \in Nat
    BY <1>1, <1>8
  <2>4. x = k => Bucket(x, n) = b /\ At(x, n) = p
    BY <1>10
  <2>5. f = NoItem /\ Bucket(x, n) = b => At(x, n) <= p
    BY <1>6
  <2>6. Bucket(x, n) = b /\ At(x, n) = p => x = k
    BY <1>7
  <2>7. IsLeft(x, n) <=> Bucket(x, n) > b \/ (Bucket(x, n) = b /\ At(x, n) >= p)
    BY <1>5
  <2> QED
    BY <1>8, <2>2, <2>3, <2>4, <2>5, <2>6, <2>7
<1>15. k \in LeftInHash /\ LeftInHash' = LeftInHash \ {k}
  <2>1. \A x : x \in LeftInHash <=> x \in Present /\ IsLeft(x, n)
    BY HashFactsHold DEF HashFacts
  <2>2. \A x : x \in LeftInHash' <=> x \in Present' /\ IsLeft(x, n)'
    BY <1>13, HashFactsHoldNext DEF HashFacts
  <2>3. IsLeft(k, n)
    BY <1>4, <1>5, <1>8, <1>10
  <2>4. \A x : x \in LeftInHash' <=> x \in LeftInHash /\ x # k
    BY <1>3, <1>14, <2>1, <2>2
  <2> QED
    BY <1>4, <2>1, <2>3, <2>4
<1>16. Dict[k] = hData[k]
  BY <1>4, DictIs
<1>17. HashDictionary!Visit(k)
  BY <1>2, <1>3, <1>15, <1>16 DEF HashDictionary!Visit, Dict
<1> QED
  BY <1>1, <1>4, <1>13, <1>17

\* read-hash traverse with delete: the element met is taken out, and the position
\* stands where it stood.
LEMMA TraverseDeleteHolds ==
  ASSUME NEW n, HashHolds(n), NEW k, k = ReadAt.at, TraverseDelete
  PROVE  k \in HashKey /\ HashHolds(n)' /\ HashDictionary!Visit(k)
<1> DEFINE b == Bucket(k, n)
           p == At(k, n)
           f == Following(k, ListOf(k))
<1>1. /\ n \in Nat \ {0} /\ Present \subseteq HashKey /\ IsFiniteSet(Present)
      /\ \A x \in Present : Bucket(x, n) \in 0 .. n - 1 /\ At(x, n) \in Nat /\ At(x, n) >= 1
  BY HashFactsHold DEF HashFacts
<1>2. /\ hNext # NumBuckets /\ k # NoItem /\ hAnswer' = <<"traverse", k, hData[k]>>
      /\ hNext' = ReadAt.list /\ hPrev' = ReadAt.prev /\ hCurr' = f
      /\ hTable' = [hTable EXCEPT ![ReadAt.list] = Unlinked(k, ReadAt.prev, @)]
      /\ hData' = [hData EXCEPT ![k] = NoItem] /\ hTot' = hTot - 1 /\ hRefs' = hRefs
  BY DEF TraverseDelete
<1>3. k \in Present /\ ReadAt.list = b /\ ReadAt.prev = ItemAt(hTable[b], p - 1)
  BY <1>2, ReadAtIs
<1>4. \A x \in Present : IsLeft(x, n) <=> \/ Bucket(x, n) > b
                                          \/ Bucket(x, n) = b /\ At(x, n) >= p
  BY <1>2, ReadAtIs
<1>5. hTable' = [hTable EXCEPT ![b] = Unlinked(k, ItemAt(hTable[b], p - 1), @)]
  BY <1>2, <1>3
<1>6. TableHolds(n)' /\ Present' = Present \ {k}
  BY <1>3, <1>5, ElementRemoved DEF HashHolds
<1>7. \A x \in Present \ {k} :
        At(x, n)' = IF Bucket(x, n) = b /\ At(x, n) > p THEN At(x, n) - 1 ELSE At(x, n)
  BY <1>3, <1>5, ElementRemoved DEF HashHolds
<1>8. \A c \in 0 .. n - 1, i \in Nat :
        ItemAt(hTable'[c], i) = ItemAt(hTable[c], IF c = b /\ i >= p THEN i + 1 ELSE i)
  <2>1. ItemsWithout(k, n)
    BY <1>3, <1>5, ElementRemoved DEF HashHolds
  <2> QED
    BY <2>1 DEF ItemsWithout
<1>9. /\ f # NoItem => f \in Present /\ Bucket(f, n) = b /\ At(f, n) = p + 1
      /\ f = NoItem => \A x \in Present : Bucket(x, n) = b => At(x, n) <= p
  BY <1>3, FollowingIs
<1>10. \A x \in Present : Bucket(x, n) = b /\ At(x, n) = p => x = k
  BY <1>3, EarlierIs DEF HashHolds
<1>11. b \in 0 .. n - 1 /\ p \in Nat /\ p >= 1 /\ Bucket(k, n) = b /\ At(k, n) = p
  BY <1>1, <1>3
<1> HIDE DEF b, p, f
<1>12. HashCounts'
  BY <1>1, <1>2, <1>3, <1>6, CountsRemoved DEF HashHolds
<1>13. f # NoItem => At(hCurr, n)' = p
  <2>1. \A x \in Present \ {k} : Bucket(x, n) = b /\ At(x, n) = p + 1 => At(x, n)' = p
    BY <1>7, <1>11
  <2>2. f # NoItem => f \in Present \ {k} /\ Bucket(f, n) = b /\ At(f, n) = p + 1
    BY <1>9, <1>11
  <2> QED
    BY <1>2, <2>1, <2>2
<1>14. PositionHolds(n)'
  <2>1. hNext' = b /\ hNext' \in 0 .. n
    BY <1>1, <1>2, <1>3, <1>11
  <2>2. CASE f = NoItem
    BY <1>2, <2>1, <2>2 DEF PositionHolds
  <2>3. CASE f # NoItem
    <3>1. ItemAt(hTable'[b], p - 1) = ItemAt(hTable[b], p - 1)
      <4>1. p - 1 \in Nat /\ ~ (p - 1 >= p)
        BY <1>11
      <4> QED
        BY <1>8, <1>11, <4>1
    <3>2. hCurr' \in Present' /\ Bucket(hCurr', n) = hNext'
      <4>1. f # k
        BY <1>9, <1>11, <2>3
      <4> QED
        BY <1>2, <1>6, <1>9, <2>1, <2>3, <4>1
    <3>3. hPrev' = ItemAt(hTable'[hNext'], p - 1)
      BY <1>2, <1>3, <2>1, <3>1
    <3> QED
      BY <1>13, <2>1, <2>3, <3>2, <3>3 DEF PositionHolds
  <2> QED
    BY <2>2, <2>3
<1>15. HashHolds(n)'
  BY <1>6, <1>12, <1>14 DEF HashHolds
<1>16. ASSUME NEW x \in Present \ {k} PROVE IsLeft(x, n)' <=> IsLeft(x, n)
  <2>1. At(x, n)' = IF Bucket(x, n) = b /\ At(x, n) > p THEN At(x, n) - 1 ELSE At(x, n)
    BY <1>7
  <2>2. IsLeft(x, n)' <=> \/ Bucket(x, n) > b
                          \/ f # NoItem /\ Bucket(x, n) = b /\ At(x, n)' >= p
    BY <1>2, <1>3, <1>13 DEF IsLeft
  <2>3. At(x, n) \in Nat /\ Bucket(x, n) \in Nat /\ b \in Nat
    BY <1>1, <1>11
  <2>4. Bucket(x, n) = b => At(x, n) # p
    BY <1>10
  <2>5. f = NoItem /\ Bucket(x, n) = b => At(x, n) <= p
    BY <1>9
  <2>6. IsLeft(x, n) <=> Bucket(x, n) > b \/ (Bucket(x, n) = b /\ At(x, n) >= p)
    BY <1>4
  <2> QED
    BY <1>11, <2>1, <2>2, <2>3, <2>4, <2>5, <2>6
<1>17. k \in LeftInHash /\ LeftInHash' = LeftInHash \ {k}
  <2>1. \A x : x \in LeftInHash <=> x \in Present /\ IsLeft(x, n)
    BY HashFactsHold DEF HashFacts
  <2>2. \A x : x \in LeftInHash' <=> x \in Present' /\ IsLeft(x, n)'
    BY <1>15, HashFactsHoldNext DEF HashFacts
  <2>3. IsLeft(k, n)
    BY <1>3, <1>4, <1>11
  <2>4. \A x : x \in LeftInHash' <=> x \in LeftInHash /\ x # k
    BY <1>6, <1>16, <2>1, <2>2
  <2> QED
    BY <1>3, <2>1, <2>3, <2>4
<1>18. Dict' = [x \in DOMAIN Dict \ {k} |-> Dict[x]]
  <2>1. \A x \in Present \ {k} : hData'[x] = hData[x]
    BY <1>1, <1>2 DEF HashHolds, HashCounts
  <2> QED
    BY <1>6, <2>1 DEF Dict
<1>19. Dict[k] = hData[k]
  BY <1>3, DictIs
<1>20. HashDictionary!Visit(k)
  BY <1>2, <1>17, <1>18, <1>19 DEF HashDictionary!Visit, HashDictionary!Without, Dict
<1> QED
  BY <1>1, <1>3, <1>15, <1>20

\* A table of empty lists, as new-hash and purge-hash make it.
EmptyReads ==
  \A n \in Nat \ {0} : hTable = [b \in 0 .. n - 1 |-> <<>>] => TableHolds(n) /\ Present = {}

\* rim_create_hash() and rim_purge_hash() leave lists that keep all that lists promise.
LEMMA EmptyIsRead == EmptyReads
<1> SUFFICES ASSUME NEW n \in Nat \ {0}, hTable = [b \in 0 .. n - 1 |-> <<>>]
             PROVE  TableHolds(n) /\ Present = {}
  BY DEF EmptyReads
<1>1. \A b \in 0 .. n - 1 : hTable[b] = <<>>
  OBVIOUS
<1>2. <<>> \in Seq(HashKey) /\ Len(<<>>) = 0
  OBVIOUS
<1>3. hTable \in [0 .. n - 1 -> Seq(HashKey)]
  BY <1>2
<1>4. \A b \in 0 .. n - 1 : Len(hTable[b]) = 0
  BY <1>1, <1>2
<1>5. TableHolds(n)
  BY <1>3, <1>4 DEF TableHolds, Distinct
<1>6. DOMAIN hTable = 0 .. n - 1
  OBVIOUS
<1>7. \A b \in 0 .. n - 1 : DOMAIN hTable[b] = {}
  BY <1>3, <1>4
<1>8. \A b \in 0 .. n - 1 : KeysOf(hTable[b]) = {}
  BY <1>7 DEF KeysOf
<1>9. Present = {}
  BY <1>6, <1>8 DEF Present
<1> QED
  BY <1>5, <1>9

\* The same after purge-hash.
LEMMA EmptyIsReadNext == EmptyReads'
BY EmptyIsRead, PTL

\* resize-hash puts every element into another table once, and the traversal back.
LEMMA ResizeHashHolds ==
  ASSUME NEW n, HashHolds(n), NEW new \in HashSizes, ResizeHash(new)
  PROVE  HashHolds(new)' /\ HashDictionary!Rearrange
<1>1. /\ hTable' = [b \in 0 .. new - 1 |-> Moved(b, new)] /\ hData' = hData
      /\ hTot' = Cardinality(Present) /\ hRefs' = RefsAgain
      /\ hNext' = 0 /\ hCurr' = NoItem /\ hAnswer' = <<"resize">>
  BY DEF ResizeHash, Rewound
<1>2. new \in Nat \ {0}
  BY HashAssumption
<1>3. TableHolds(new)' /\ Present' = Present
  BY <1>1, <1>2, TableResized DEF HashHolds
<1>4. IsFiniteSet(Present)
  BY HashFactsHold DEF HashFacts
<1>5. HashCounts'
  BY <1>1, <1>3, <1>4, CountsAgain DEF HashHolds
<1>6. PositionHolds(new)'
  BY <1>1, <1>2 DEF PositionHolds
<1>7. HashHolds(new)'
  BY <1>3, <1>5, <1>6 DEF HashHolds
<1>8. Dict' = Dict
  BY <1>1, <1>3 DEF Dict
<1>9. LeftInHash' \in SUBSET DOMAIN Dict
  <2>1. \A x : x \in LeftInHash' => x \in Present'
    BY <1>7, HashFactsHoldNext DEF HashFacts
  <2> QED
    BY <1>3, <2>1, DictIs
<1> QED
  BY <1>1, <1>7, <1>8, <1>9 DEF HashDictionary!Rearrange, Dict

\* purge-hash leaves no element, and nothing to traverse.
LEMMA PurgeHashHolds ==
  ASSUME NEW n, HashHolds(n), PurgeHash
  PROVE  HashHolds(n)' /\ HashDictionary!Clear
<1>1. n \in Nat \ {0} /\ DOMAIN hTable = 0 .. n - 1 /\ IsFiniteSet(Present)
  BY HashFactsHold DEF HashFacts
<1>2. /\ hTable' = [b \in 0 .. n - 1 |-> <<>>] /\ hData' = [k \in HashKey |-> NoItem]
      /\ hTot' = 0 /\ hRefs' = [v \in HashVal |-> hRefs[v] - Cardinality(Holding(v))]
      /\ hNext' = 0 /\ hCurr' = NoItem /\ hAnswer' = <<"purge">>
  BY <1>1 DEF PurgeHash, Rewound
<1>3. TableHolds(n)' /\ Present' = {}
  BY <1>1, <1>2, EmptyIsReadNext DEF EmptyReads
<1>4. HashCounts'
  BY <1>1, <1>2, <1>3, CountsPurged DEF HashHolds
<1>5. HashHolds(n)'
  BY <1>1, <1>2, <1>3, <1>4 DEF HashHolds, PositionHolds
<1>6. LeftInHash' = {}
  BY <1>3, <1>5, HashFactsHoldNext DEF HashFacts
<1>7. Dict' = [x \in {} |-> x]
  BY <1>3 DEF Dict
<1> QED
  BY <1>2, <1>5, <1>6, <1>7 DEF HashDictionary!Clear, Dict

\* new-hash makes an empty dictionary.
LEMMA HashStarts ==
  ASSUME HashInit
  PROVE  HashInv /\ HashDictionary!Init
<1>1. PICK n \in HashSizes : hTable = [b \in 0 .. n - 1 |-> <<>>]
  BY DEF HashInit
<1>2. /\ hData = [k \in HashKey |-> NoItem] /\ hTot = 0 /\ hRefs = [v \in HashVal |-> 0]
      /\ hNext = 0 /\ hCurr = NoItem /\ hAnswer = <<"new">>
  BY DEF HashInit
<1>3. n \in Nat \ {0}
  BY HashAssumption
<1>4. TableHolds(n) /\ Present = {}
  BY <1>1, <1>3, EmptyIsRead DEF EmptyReads
<1>5. Cardinality({}) = 0
  BY FS_EmptySet
<1>6. \A v : Holding(v) = {}
  BY <1>4 DEF Holding
<1>7. HashCounts
  BY <1>2, <1>4, <1>5, <1>6 DEF HashCounts, HashHoldsValues
<1>8. HashHolds(n)
  BY <1>2, <1>3, <1>4, <1>7 DEF HashHolds, PositionHolds
<1>9. LeftInHash = {}
  BY <1>4, <1>8, HashFactsHold DEF HashFacts
<1>10. Dict = [x \in {} |-> x]
  BY <1>4 DEF Dict
<1> QED
  BY <1>2, <1>8, <1>9, <1>10 DEF HashInv, HashDictionary!Init, Dict

\* What another part of the program does leaves a hash alone.
LEMMA HashStutters ==
  ASSUME NEW n, HashHolds(n), UNCHANGED hashVars
  PROVE  HashHolds(n)' /\ UNCHANGED HashDictionary!vars
<1>1. UNCHANGED <<hTable, hData, hTot, hCursor, hRefs>> /\ hAnswer' = hAnswer
  BY DEF hashVars, hCursor
<1>2. HashHolds(n)' /\ LeftInHash' = LeftInHash /\ Dict' = Dict
  BY <1>1, HashKept
<1> QED
  BY <1>1, <1>2 DEF HashDictionary!vars, Dict

\* A program that leaves alone the list around the position keeps the invariant with
\* every statement, and every statement is one of a dictionary.
LEMMA HashStep ==
  ASSUME Disturbs = FALSE, HashInv, [HashNext]_hashVars
  PROVE  HashInv' /\ [HashDictionary!Next]_(HashDictionary!vars)
<1>1. PICK n : HashHolds(n)
  BY DEF HashInv
<1>2. ~ Disturbs
  OBVIOUS
<1>3. CASE UNCHANGED hashVars
  BY <1>1, <1>3, HashStutters DEF HashInv
<1>4. CASE \E k \in HashKey, v \in HashVal :
             \/ WriteNew(k, v)
             \/ \E wantsOld \in BOOLEAN : WriteOver(k, v, wantsOld)
  <2>1. PICK k \in HashKey, v \in HashVal :
          \/ WriteNew(k, v)
          \/ \E wantsOld \in BOOLEAN : WriteOver(k, v, wantsOld)
    BY <1>4
  <2>2. CASE WriteNew(k, v)
    <3>1. HashHolds(n)' /\ HashDictionary!Store(k, v, FALSE)
      BY <1>1, <1>2, <2>2, WriteNewHolds
    <3> QED
      BY <3>1 DEF HashInv, HashDictionary!Next
  <2>3. CASE \E wantsOld \in BOOLEAN : WriteOver(k, v, wantsOld)
    <3>1. PICK wantsOld \in BOOLEAN : WriteOver(k, v, wantsOld)
      BY <2>3
    <3>2. HashHolds(n)' /\ HashDictionary!Store(k, v, wantsOld)
      BY <1>1, <3>1, WriteOverHolds
    <3> QED
      BY <3>2 DEF HashInv, HashDictionary!Next
  <2> QED
    BY <2>1, <2>2, <2>3
<1>5. CASE \E k \in HashKey : NotFound(k) \/ ReadHash(k) \/ ReadDelete(k)
  <2>1. PICK k \in HashKey : NotFound(k) \/ ReadHash(k) \/ ReadDelete(k)
    BY <1>5
  <2>2. /\ HashHolds(n)'
        /\ HashDictionary!Missing(k) \/ HashDictionary!Lookup(k) \/ HashDictionary!Delete(k)
    <3>1. CASE NotFound(k)
      BY <1>1, <3>1, NotFoundHolds
    <3>2. CASE ReadHash(k)
      BY <1>1, <3>2, ReadHashHolds
    <3>3. CASE ReadDelete(k)
      BY <1>1, <1>2, <3>3, ReadDeleteHolds
    <3> QED
      BY <2>1, <3>1, <3>2, <3>3
  <2> QED
    BY <2>2 DEF HashInv, HashDictionary!Next
<1>6. CASE BeginHash \/ TraverseEnd
  <2>1. HashHolds(n)' /\ (HashDictionary!Begin \/ HashDictionary!End)
    BY <1>1, <1>6, BeginHolds, TraverseEndHolds
  <2> QED
    BY <2>1 DEF HashInv, HashDictionary!Next
<1>7. CASE Traverse \/ TraverseDelete
  <2>1. PICK k : k = ReadAt.at
    OBVIOUS
  <2>2. k \in HashKey /\ HashHolds(n)' /\ HashDictionary!Visit(k)
    BY <1>1, <1>7, <2>1, TraverseHolds, TraverseDeleteHolds
  <2> QED
    BY <2>2 DEF HashInv, HashDictionary!Next
<1>8. CASE \E new \in HashSizes : ResizeHash(new)
  <2>1. PICK new \in HashSizes : ResizeHash(new)
    BY <1>8
  <2>2. HashHolds(new)' /\ HashDictionary!Rearrange
    BY <1>1, <2>1, ResizeHashHolds
  <2> QED
    BY <2>2 DEF HashInv, HashDictionary!Next
<1>9. CASE PurgeHash \/ GetLength
  <2>1. HashHolds(n)' /\ (HashDictionary!Clear \/ HashDictionary!Count)
    BY <1>1, <1>9, PurgeHashHolds, GetLengthHolds
  <2> QED
    BY <2>1 DEF HashInv, HashDictionary!Next
<1> QED
  BY <1>3, <1>4, <1>5, <1>6, <1>7, <1>8, <1>9 DEF HashNext

\* For any keys, values, table sizes and whatever rim_compute_hash() gives: lists,
\* pointers and resizes implement a dictionary whose traversal meets every element
\* that is left exactly once, in a program that leaves alone the list around the position.
THEOREM HashImplementsDictionary ==
  ASSUME Disturbs = FALSE
  PROVE  HashSpec => HashIsDictionary
<1>1. HashInit => HashInv /\ HashDictionary!Init
  BY HashStarts
<1>2. HashInv /\ [HashNext]_hashVars
        => HashInv' /\ [HashDictionary!Next]_(HashDictionary!vars)
  BY HashStep
<1> QED
  BY <1>1, <1>2, PTL DEF HashSpec, HashIsDictionary, HashDictionary!Spec

\* Over writes, replacements, deletes, resizes and purges the references on a value are
\* never fewer than the elements that have it: rim_purge_hash() frees nothing in use.
THEOREM HashValuesHeld ==
  ASSUME Disturbs = FALSE
  PROVE  HashSpec => []HashHoldsValues
<1>1. HashInit => HashInv
  BY HashStarts
<1>2. HashInv /\ [HashNext]_hashVars => HashInv'
  BY HashStep
<1>3. HashInv => HashHoldsValues
  BY DEF HashInv, HashHolds, HashCounts
<1> QED
  BY <1>1, <1>2, <1>3, PTL DEF HashSpec

\* In such a program every element the length counts can be reached: the traversal
\* never goes on from an element that is freed.
THEOREM HashLosesNothing ==
  ASSUME Disturbs = FALSE
  PROVE  HashSpec => []NothingLost
<1>1. HashInit => HashInv
  BY HashStarts
<1>2. HashInv /\ [HashNext]_hashVars => HashInv'
  BY HashStep
<1>3. HashInv => NothingLost
  BY DEF HashInv, HashHolds, HashCounts, NothingLost
<1> QED
  BY <1>1, <1>2, <1>3, PTL DEF HashSpec

=============================================================================
