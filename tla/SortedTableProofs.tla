------------------------- MODULE SortedTableProofs -------------------------
(***************************************************************************)
(* Proofs about SortedTable, for every room, every set of keys and values  *)
(* and every strict total order of the keys; then about the calls that are *)
(* interrupted (TableCrash), for any number of crashes.  After one the     *)
(* table need not be sorted, nor free of duplicates: all that is left is   *)
(* that bsearch returns NULL or a record with the key.                     *)
(***************************************************************************)
EXTENDS TableCrash, FiniteSetTheorems, WellFoundedInduction, TLAPS

Unique(s, n) == \A i, j \in 1 .. n : s[i].key = s[j].key => i = j

\* The inductive invariant.  UniqueKeys needs SortedInv, because on an array
\* that is not sorted bsearch may miss the record that is there; SortedInv needs
\* the type of size, and TypeOK the range of what bsearch returns.
IInv == TypeOK /\ SortedInv /\ UniqueKeys

-----------------------------------------------------------------------------
\* A permutation moves no two records to one slot.
LEMMA PermutationInjective ==
  ASSUME NEW n \in Nat, NEW p \in Permutation(n)
  PROVE  \A i, j \in 1 .. n : p[i] = p[j] => i = j
  <1>1. IsFiniteSet(1 .. n) /\ Cardinality(1 .. n) = Cardinality(1 .. n)
    BY FS_Interval
  <1>2. p \in Surjection(1 .. n, 1 .. n)
    BY DEF Permutation, Surjection
  <1>3. p \in Injection(1 .. n, 1 .. n)
    BY <1>1, <1>2, FS_SurjSameCardinalityImpliesInj
  <1> QED BY <1>3 DEF Injection, IsInjective

\* What qsort does to the first n records: it sorts them, loses none, and keeps
\* no two of one key if there were none.
LEMMA QsortFacts ==
  ASSUME NEW s \in [1 .. Room -> Record], NEW n \in 0 .. Room, NEW t \in Qsort(s, n)
  PROVE  /\ t \in [1 .. Room -> Record]
         /\ Sorted(t, n)
         /\ \A i \in 1 .. n : \E j \in 1 .. n : t[i] = s[j]
         /\ \A j \in 1 .. n : \E i \in 1 .. n : t[i] = s[j]
         /\ Unique(s, n) => Unique(t, n)
  <1>1. PICK p \in Permutation(n) : t = Permuted(s, n, p)
    BY DEF Qsort
  <1>2. /\ p \in [1 .. n -> 1 .. n]
        /\ \A i \in 1 .. n : \E j \in 1 .. n : p[j] = i
    BY DEF Permutation
  <1>3. n \in Nat /\ Room \in Nat /\ \A i \in 1 .. n : i \in 1 .. Room
    BY RoomAssumption
  <1>4. \A i \in 1 .. n : t[i] = s[p[i]]
    BY <1>1, <1>3 DEF Permuted
  <1>5. t \in [1 .. Room -> Record]
    BY <1>1, <1>2, <1>3 DEF Permuted
  <1>6. Sorted(t, n)
    BY DEF Qsort
  <1>7. \A i, j \in 1 .. n : p[i] = p[j] => i = j
    BY <1>3, PermutationInjective
  <1>8. ASSUME Unique(s, n) PROVE Unique(t, n)
    <2> SUFFICES ASSUME NEW i \in 1 .. n, NEW j \in 1 .. n, t[i].key = t[j].key
                 PROVE  i = j
      BY DEF Unique
    <2>1. p[i] \in 1 .. n /\ p[j] \in 1 .. n /\ s[p[i]].key = s[p[j]].key
      BY <1>2, <1>4
    <2>2. p[i] = p[j]
      BY <1>8, <2>1 DEF Unique
    <2> QED BY <1>7, <2>2
  <1>9. \A i \in 1 .. n : \E j \in 1 .. n : t[i] = s[j]
    BY <1>2, <1>4
  <1>10. \A j \in 1 .. n : \E i \in 1 .. n : t[i] = s[j]
    <2> SUFFICES ASSUME NEW j \in 1 .. n PROVE \E i \in 1 .. n : t[i] = s[j]
      OBVIOUS
    <2>1. PICK i \in 1 .. n : p[i] = j
      BY <1>2
    <2> QED BY <1>4, <2>1
  <1> QED BY <1>5, <1>6, <1>8, <1>9, <1>10

\* On a sorted table bsearch returns a slot in use with this key, or 0 and
\* there is none.
LEMMA BsearchFacts ==
  ASSUME TypeOK, SortedInv, NEW k, NEW at \in Bsearch(k)
  PROVE  \/ at = 0 /\ \A i \in 1 .. size : slots[i].key # k
         \/ at # 0 /\ at \in 1 .. size /\ slots[at].key = k
  <1>1. Bsearch(k) = IF Matches(k) # {} THEN Matches(k) ELSE {0}
    BY DEF Bsearch, SortedInv
  <1>2. size \in Nat
    BY RoomAssumption DEF TypeOK
  <1>3. CASE Matches(k) # {}
    BY <1>1, <1>2, <1>3 DEF Matches
  <1>4. CASE Matches(k) = {}
    BY <1>1, <1>4 DEF Matches
  <1> QED BY <1>3, <1>4

-----------------------------------------------------------------------------
\* The arrays that Create, Update and Delete give to qsort.
LEMMA StoredFacts ==
  ASSUME IInv, NEW r \in Record, size < Room, \A i \in 1 .. size : slots[i].key # r.key
  PROVE  /\ Stored(r) \in [1 .. Room -> Record] /\ size + 1 \in 1 .. Room
         /\ Stored(r)[size + 1] = r
         /\ \A i \in 1 .. size : Stored(r)[i] = slots[i]
         /\ Unique(Stored(r), size + 1)
  <1>1. size \in 0 .. Room /\ Room \in Nat /\ slots \in [1 .. Room -> Record]
    BY RoomAssumption DEF IInv, TypeOK
  <1>2. size + 1 \in 1 .. Room /\ \A i \in 1 .. size : i \in 1 .. Room /\ i # size + 1
    BY <1>1
  <1>3. Stored(r) \in [1 .. Room -> Record] /\ Stored(r)[size + 1] = r
    BY <1>1, <1>2 DEF Stored
  <1>4. \A i \in 1 .. size : Stored(r)[i] = slots[i]
    BY <1>1, <1>2 DEF Stored
  <1>5. \A i \in 1 .. size + 1 : i \in 1 .. size \/ i = size + 1
    BY <1>1
  <1>6. Unique(Stored(r), size + 1)
    BY <1>3, <1>4, <1>5 DEF Unique, IInv, UniqueKeys
  <1> QED BY <1>2, <1>3, <1>4, <1>6

LEMMA ReplacedFacts ==
  ASSUME IInv, NEW r \in Record, NEW at \in 1 .. size, slots[at].key = r.key
  PROVE  /\ Replaced(at, r) \in [1 .. Room -> Record]
         /\ Replaced(at, r)[at] = r
         /\ \A i \in 1 .. size : i # at => Replaced(at, r)[i] = slots[i]
         /\ Unique(Replaced(at, r), size)
  <1>1. size \in 0 .. Room /\ Room \in Nat /\ slots \in [1 .. Room -> Record]
    BY RoomAssumption DEF IInv, TypeOK
  <1>2. \A i \in 1 .. size : i \in 1 .. Room
    BY <1>1
  <1>3. Replaced(at, r) \in [1 .. Room -> Record] /\ Replaced(at, r)[at] = r
    BY <1>1, <1>2 DEF Replaced
  <1>4. \A i \in 1 .. size : i # at => Replaced(at, r)[i] = slots[i]
    BY <1>1, <1>2 DEF Replaced
  <1>5. \A i \in 1 .. size : Replaced(at, r)[i].key = slots[i].key
    BY <1>3, <1>4
  <1>6. Unique(Replaced(at, r), size)
    BY <1>5 DEF Unique, IInv, UniqueKeys
  <1> QED BY <1>3, <1>4, <1>6

LEMMA ClosedFacts ==
  ASSUME IInv, NEW at \in 1 .. size
  PROVE  /\ Closed(at) \in [1 .. Room -> Record] /\ size - 1 \in 0 .. Room
         /\ \A i \in 1 .. size - 1 :
               Closed(at)[i] = slots[IF i < at THEN i ELSE i + 1]
         /\ Unique(Closed(at), size - 1)
  <1>1. size \in 0 .. Room /\ Room \in Nat /\ slots \in [1 .. Room -> Record]
    BY RoomAssumption DEF IInv, TypeOK
  <1>2. size - 1 \in 0 .. Room /\ at \in 1 .. Room
    BY <1>1
  <1>3. \A i \in at .. (size - 1) : i + 1 \in 1 .. Room
    BY <1>1
  <1>4. Closed(at) \in [1 .. Room -> Record]
    BY <1>1, <1>3 DEF Closed
  <1>5. \A i \in 1 .. size - 1 : Closed(at)[i] = slots[IF i < at THEN i ELSE i + 1]
    <2> SUFFICES ASSUME NEW i \in 1 .. size - 1
                 PROVE  Closed(at)[i] = slots[IF i < at THEN i ELSE i + 1]
      OBVIOUS
    <2>1. i \in 1 .. Room /\ (i < at <=> i \notin at .. (size - 1))
      BY <1>1, <1>2
    <2> QED BY <2>1 DEF Closed
  <1>6. Unique(Closed(at), size - 1)
    <2> DEFINE from(i) == IF i < at THEN i ELSE i + 1
    <2>1. \A i \in 1 .. size - 1 : from(i) \in 1 .. size /\ Closed(at)[i] = slots[from(i)]
      BY <1>1, <1>2, <1>5
    <2>2. \A i, j \in 1 .. size - 1 : from(i) = from(j) => i = j
      BY <1>1, <1>2
    <2> HIDE DEF from
    <2> QED BY <2>1, <2>2 DEF Unique, IInv, UniqueKeys
  <1> QED BY <1>2, <1>4, <1>5, <1>6

-----------------------------------------------------------------------------
LEMMA InitIInv == Init => IInv
  <1> SUFFICES ASSUME Init PROVE IInv
    OBVIOUS
  <1>1. slots = [i \in 1 .. Room |-> Blank] /\ size = 0 /\ ret = None
    BY DEF Init
  <1>2. TypeOK
    <2>1. Blank \in Record
      BY RecordAssumption DEF Record
    <2> QED BY <1>1, <2>1, RoomAssumption DEF TypeOK
  <1> QED BY <1>1, <1>2 DEF IInv, SortedInv, Sorted, UniqueKeys

\* A call that gives a table to qsort leaves it sorted and without a second
\* record of any key.
LEMMA QsortKeepsIInv ==
  ASSUME NEW s \in [1 .. Room -> Record], NEW n \in 0 .. Room, Unique(s, n),
         slots' \in Qsort(s, n), size' = n, ret' \in Value \cup {None}
  PROVE  IInv'
  <1>1. /\ slots' \in [1 .. Room -> Record] /\ Sorted(slots', n) /\ Unique(slots', n)
    BY QsortFacts
  <1> QED BY <1>1 DEF IInv, TypeOK, SortedInv, UniqueKeys, Unique

LEMMA CreateKeepsIInv == ASSUME IInv, NEW r \in Record, Create(r) PROVE IInv'
  <1>1. PICK at \in Bsearch(r.key) :
          \/ at # 0 /\ ret' = slots[at].val /\ UNCHANGED <<slots, size>>
          \/ at = 0 /\ size >= Room /\ ret' = None /\ UNCHANGED <<slots, size>>
          \/ /\ at = 0 /\ size < Room /\ slots' \in Qsort(Stored(r), size + 1)
             /\ size' = size + 1 /\ ret' = r.val
    BY DEF Create
  <1>2. \/ at = 0 /\ \A i \in 1 .. size : slots[i].key # r.key
        \/ at # 0 /\ at \in 1 .. size /\ slots[at].key = r.key
    BY BsearchFacts DEF IInv
  <1>3. size \in 0 .. Room /\ Room \in Nat /\ slots \in [1 .. Room -> Record]
    BY RoomAssumption DEF IInv, TypeOK
  <1>4. CASE at # 0 /\ ret' = slots[at].val /\ UNCHANGED <<slots, size>>
    <2>1. at \in 1 .. Room
      BY <1>2, <1>3, <1>4
    <2>2. slots[at] \in Record
      BY <1>3, <2>1
    <2> QED BY <1>4, <2>2 DEF IInv, TypeOK, SortedInv, UniqueKeys, Sorted, Record
  <1>5. CASE at = 0 /\ size >= Room /\ ret' = None /\ UNCHANGED <<slots, size>>
    BY <1>5 DEF IInv, TypeOK, SortedInv, UniqueKeys, Sorted
  <1>6. CASE /\ at = 0 /\ size < Room /\ slots' \in Qsort(Stored(r), size + 1)
             /\ size' = size + 1 /\ ret' = r.val
    <2>1. /\ Stored(r) \in [1 .. Room -> Record] /\ size + 1 \in 1 .. Room
          /\ Unique(Stored(r), size + 1)
      BY <1>2, <1>6, StoredFacts
    <2>2. size + 1 \in 0 .. Room /\ r.val \in Value
      BY <1>3, <2>1 DEF Record
    <2> QED BY <1>6, <2>1, <2>2, QsortKeepsIInv
  <1> QED BY <1>1, <1>4, <1>5, <1>6

LEMMA UpdateKeepsIInv == ASSUME IInv, NEW r \in Record, Update(r) PROVE IInv'
  <1>1. PICK at \in Bsearch(r.key) :
          \/ at = 0 /\ Create(r)
          \/ at # 0 /\ slots' \in Qsort(Replaced(at, r), size) /\ ret' = r.val /\ size' = size
    BY DEF Update
  <1>2. CASE Create(r)
    BY <1>2, CreateKeepsIInv
  <1>3. CASE at # 0 /\ slots' \in Qsort(Replaced(at, r), size) /\ ret' = r.val /\ size' = size
    <2>1. at \in 1 .. size /\ slots[at].key = r.key
      BY <1>3, BsearchFacts DEF IInv
    <2>2. Replaced(at, r) \in [1 .. Room -> Record] /\ Unique(Replaced(at, r), size)
      BY <2>1, ReplacedFacts
    <2>3. size \in 0 .. Room /\ r.val \in Value
      BY DEF IInv, TypeOK, Record
    <2> QED BY <1>3, <2>2, <2>3, QsortKeepsIInv
  <1> QED BY <1>1, <1>2, <1>3

LEMMA DeleteKeepsIInv == ASSUME IInv, NEW k \in Key, Delete(k) PROVE IInv'
  <1>1. PICK at \in Bsearch(k) :
          \/ at = 0 /\ UNCHANGED <<slots, size>>
          \/ at # 0 /\ slots' \in Qsort(Closed(at), size - 1) /\ size' = size - 1
    BY DEF Delete
  <1>2. ret' = None
    BY DEF Delete
  <1>3. CASE at = 0 /\ UNCHANGED <<slots, size>>
    BY <1>2, <1>3 DEF IInv, TypeOK, SortedInv, UniqueKeys, Sorted
  <1>4. CASE at # 0 /\ slots' \in Qsort(Closed(at), size - 1) /\ size' = size - 1
    <2>1. at \in 1 .. size
      BY <1>4, BsearchFacts DEF IInv
    <2>2. /\ Closed(at) \in [1 .. Room -> Record] /\ size - 1 \in 0 .. Room
          /\ Unique(Closed(at), size - 1)
      BY <2>1, ClosedFacts
    <2> QED BY <1>2, <1>4, <2>2, QsortKeepsIInv
  <1> QED BY <1>1, <1>3, <1>4

LEMMA ReadKeepsIInv == ASSUME IInv, NEW k \in Key, Read(k) PROVE IInv'
  <1>1. PICK at \in Bsearch(k) : ret' = IF at = 0 THEN None ELSE slots[at].val
    BY DEF Read
  <1>2. UNCHANGED <<slots, size>>
    BY DEF Read
  <1>3. size \in 0 .. Room /\ Room \in Nat /\ slots \in [1 .. Room -> Record]
    BY RoomAssumption DEF IInv, TypeOK
  <1>4. at = 0 \/ at \in 1 .. Room
    BY <1>3, BsearchFacts DEF IInv
  <1>5. ret' \in Value \cup {None}
    BY <1>1, <1>3, <1>4 DEF Record
  <1> QED BY <1>2, <1>5 DEF IInv, TypeOK, SortedInv, UniqueKeys, Sorted

LEMMA NextIInv == IInv /\ [Next]_vars => IInv'
  <1> SUFFICES ASSUME IInv, [Next]_vars PROVE IInv'
    OBVIOUS
  <1>1. ASSUME NEW k \in Key, Read(k) PROVE IInv'
    BY <1>1, ReadKeepsIInv
  <1>2. ASSUME NEW k \in Key, Delete(k) PROVE IInv'
    BY <1>2, DeleteKeepsIInv
  <1>3. ASSUME NEW r \in Record, Create(r) PROVE IInv'
    BY <1>3, CreateKeepsIInv
  <1>4. ASSUME NEW r \in Record, Update(r) PROVE IInv'
    BY <1>4, UpdateKeepsIInv
  <1>5. CASE UNCHANGED vars
    BY <1>5 DEF vars, IInv, TypeOK, SortedInv, UniqueKeys, Sorted
  <1> QED BY <1>1, <1>2, <1>3, <1>4, <1>5 DEF Next

\* The variables have their types.
THEOREM TypeCorrect == Spec => []TypeOK
  <1>1. IInv => TypeOK
    BY DEF IInv
  <1> QED BY <1>1, InitIInv, NextIInv, PTL DEF Spec

\* After every call the records in use are sorted, so that bsearch is defined
\* (the qsort at the end of create, update and delete in smtshm.c).
THEOREM SortedCorrect == Spec => []SortedInv
  <1>1. IInv => SortedInv
    BY DEF IInv
  <1> QED BY <1>1, InitIInv, NextIInv, PTL DEF Spec

\* No key is stored twice, whatever calls are made in whatever order.
THEOREM UniqueCorrect == Spec => []UniqueKeys
  <1>1. IInv => UniqueKeys
    BY DEF IInv
  <1> QED BY <1>1, InitIInv, NextIInv, PTL DEF Spec

-----------------------------------------------------------------------------
\* The map that the first n records of an array hold.
KeysOf(s, n) == {s[i].key : i \in 1 .. n}
MapOf(s, n) == [k \in KeysOf(s, n) |-> s[CHOOSE i \in 1 .. n : s[i].key = k].val]

LEMMA MapOfFacts ==
  ASSUME NEW s, NEW n, Unique(s, n), NEW i \in 1 .. n
  PROVE  s[i].key \in KeysOf(s, n) /\ MapOf(s, n)[s[i].key] = s[i].val
  <1> DEFINE at == CHOOSE j \in 1 .. n : s[j].key = s[i].key
  <1>1. at \in 1 .. n /\ s[at].key = s[i].key
    OBVIOUS
  <1>2. at = i
    BY <1>1 DEF Unique
  <1>3. s[i].key \in KeysOf(s, n)
    BY DEF KeysOf
  <1>4. MapOf(s, n)[s[i].key] = s[at].val
    BY <1>3 DEF MapOf
  <1> QED BY <1>2, <1>3, <1>4

LEMMA ContentsIsMapOf == Contents = MapOf(slots, size) /\ Keys = KeysOf(slots, size)
  BY DEF Contents, Keys, MapOf, KeysOf

\* There are as many keys as records, so the table is full when the map is.
LEMMA KeysCount ==
  ASSUME NEW s, NEW n \in Nat, Unique(s, n)
  PROVE  Cardinality(KeysOf(s, n)) = n
  <1> DEFINE f == [i \in 1 .. n |-> s[i].key]
  <1>1. f \in Surjection(1 .. n, KeysOf(s, n))
    BY DEF Surjection, KeysOf
  <1>2. f \in Injection(1 .. n, KeysOf(s, n))
    BY DEF Injection, IsInjective, KeysOf, Unique
  <1>3. ExistsBijection(1 .. n, KeysOf(s, n))
    BY <1>1, <1>2 DEF ExistsBijection, Bijection
  <1> QED BY <1>3, FS_CountingElements

\* qsort does not change the map.
LEMMA QsortKeepsMap ==
  ASSUME NEW s \in [1 .. Room -> Record], NEW n \in 0 .. Room, Unique(s, n),
         NEW t \in Qsort(s, n)
  PROVE  MapOf(t, n) = MapOf(s, n) /\ KeysOf(t, n) = KeysOf(s, n)
  <1>1. /\ \A i \in 1 .. n : \E j \in 1 .. n : t[i] = s[j]
        /\ \A j \in 1 .. n : \E i \in 1 .. n : t[i] = s[j]
        /\ Unique(t, n)
    BY QsortFacts
  <1>2. KeysOf(t, n) = KeysOf(s, n)
    <2>1. ASSUME NEW k \in KeysOf(t, n) PROVE k \in KeysOf(s, n)
      <3>1. PICK i \in 1 .. n : k = t[i].key
        BY DEF KeysOf
      <3>2. PICK j \in 1 .. n : t[i] = s[j]
        BY <1>1
      <3> QED BY <3>1, <3>2 DEF KeysOf
    <2>2. ASSUME NEW k \in KeysOf(s, n) PROVE k \in KeysOf(t, n)
      <3>1. PICK j \in 1 .. n : k = s[j].key
        BY DEF KeysOf
      <3>2. PICK i \in 1 .. n : t[i] = s[j]
        BY <1>1
      <3> QED BY <3>1, <3>2 DEF KeysOf
    <2> QED BY <2>1, <2>2
  <1>3. ASSUME NEW k \in KeysOf(t, n) PROVE MapOf(t, n)[k] = MapOf(s, n)[k]
    <2>1. PICK i \in 1 .. n : t[i].key = k
      BY DEF KeysOf
    <2>2. PICK j \in 1 .. n : t[i] = s[j]
      BY <1>1
    <2>3. MapOf(t, n)[t[i].key] = t[i].val
      <3>1. Unique(t, n)
        BY <1>1
      <3> QED BY <3>1, MapOfFacts
    <2>4. MapOf(s, n)[k] = s[j].val
      BY <2>1, <2>2, MapOfFacts
    <2> QED BY <2>1, <2>2, <2>3, <2>4
  <1> QED BY <1>2, <1>3 DEF MapOf

-----------------------------------------------------------------------------
\* What the three arrays mean to the map.
LEMMA StoredMap ==
  ASSUME IInv, NEW r \in Record, size < Room, \A i \in 1 .. size : slots[i].key # r.key
  PROVE  MapOf(Stored(r), size + 1)
           = [x \in Keys \cup {r.key} |-> IF x = r.key THEN r.val ELSE Contents[x]]
  <1>1. /\ Stored(r)[size + 1] = r /\ Unique(Stored(r), size + 1)
        /\ \A i \in 1 .. size : Stored(r)[i] = slots[i]
    BY StoredFacts
  <1>2. size \in Nat /\ Unique(slots, size)
    BY RoomAssumption DEF IInv, TypeOK, UniqueKeys, Unique
  <1>3. \A i : i \in 1 .. size + 1 <=> i \in 1 .. size \/ i = size + 1
    BY <1>2
  <1>4. KeysOf(Stored(r), size + 1) = Keys \cup {r.key}
    BY <1>1, <1>3 DEF KeysOf, Keys
  <1>5. ASSUME NEW x \in Keys \cup {r.key}
        PROVE  MapOf(Stored(r), size + 1)[x] = IF x = r.key THEN r.val ELSE Contents[x]
    <2>1. CASE x = r.key
      <3>1. size + 1 \in 1 .. size + 1
        BY <1>3
      <3> QED BY <1>1, <2>1, <3>1, MapOfFacts
    <2>2. CASE x # r.key
      <3>1. PICK i \in 1 .. size : slots[i].key = x
        BY <2>2 DEF Keys
      <3>2. Contents[x] = slots[i].val
        BY <1>2, <3>1, MapOfFacts, ContentsIsMapOf
      <3>3. i \in 1 .. size + 1 /\ Stored(r)[i] = slots[i]
        BY <1>1, <1>3
      <3>4. MapOf(Stored(r), size + 1)[x] = slots[i].val
        BY <1>1, <3>1, <3>3, MapOfFacts
      <3> QED BY <2>2, <3>2, <3>4
    <2> QED BY <2>1, <2>2
  <1> QED BY <1>4, <1>5 DEF MapOf

LEMMA ReplacedMap ==
  ASSUME IInv, NEW r \in Record, NEW at \in 1 .. size, slots[at].key = r.key
  PROVE  /\ r.key \in Keys
         /\ MapOf(Replaced(at, r), size)
              = [x \in Keys \cup {r.key} |-> IF x = r.key THEN r.val ELSE Contents[x]]
  <1>1. /\ Replaced(at, r)[at] = r /\ Unique(Replaced(at, r), size)
        /\ \A i \in 1 .. size : i # at => Replaced(at, r)[i] = slots[i]
    BY ReplacedFacts
  <1>2. Unique(slots, size)
    BY DEF IInv, UniqueKeys, Unique
  <1>3. r.key \in Keys
    BY DEF Keys
  <1>4. KeysOf(Replaced(at, r), size) = Keys \cup {r.key}
    <2>1. \A i \in 1 .. size : Replaced(at, r)[i].key = slots[i].key
      BY <1>1
    <2> QED BY <1>3, <2>1 DEF KeysOf, Keys
  <1>5. ASSUME NEW x \in Keys \cup {r.key}
        PROVE  MapOf(Replaced(at, r), size)[x] = IF x = r.key THEN r.val ELSE Contents[x]
    <2>1. CASE x = r.key
      BY <1>1, <2>1, MapOfFacts
    <2>2. CASE x # r.key
      <3>1. PICK i \in 1 .. size : slots[i].key = x
        BY <2>2 DEF Keys
      <3>2. Contents[x] = slots[i].val
        BY <1>2, <3>1, MapOfFacts, ContentsIsMapOf
      <3>3. Replaced(at, r)[i] = slots[i]
        BY <1>1, <2>2, <3>1
      <3>4. MapOf(Replaced(at, r), size)[x] = slots[i].val
        BY <1>1, <3>1, <3>3, MapOfFacts
      <3> QED BY <2>2, <3>2, <3>4
    <2> QED BY <2>1, <2>2
  <1>6. MapOf(Replaced(at, r), size)
          = [x \in Keys \cup {r.key} |-> MapOf(Replaced(at, r), size)[x]]
    BY <1>4 DEF MapOf
  <1> QED BY <1>3, <1>5, <1>6

LEMMA ClosedMap ==
  ASSUME IInv, NEW at \in 1 .. size
  PROVE  MapOf(Closed(at), size - 1) = [x \in Keys \ {slots[at].key} |-> Contents[x]]
  <1> DEFINE from(i) == IF i < at THEN i ELSE i + 1
  <1>1. size \in Nat /\ Unique(slots, size)
    BY RoomAssumption DEF IInv, TypeOK, UniqueKeys, Unique
  <1>2. /\ \A i \in 1 .. size - 1 : from(i) \in 1 .. size /\ from(i) # at
        /\ \A j \in 1 .. size : j # at => \E i \in 1 .. size - 1 : from(i) = j
    <2>1. \A i \in 1 .. size - 1 : from(i) \in 1 .. size /\ from(i) # at
      BY <1>1
    <2>2. ASSUME NEW j \in 1 .. size, j # at PROVE \E i \in 1 .. size - 1 : from(i) = j
      <3>1. CASE j < at
        BY <1>1, <2>2, <3>1
      <3>2. CASE j > at
        <4>1. j - 1 \in 1 .. size - 1 /\ from(j - 1) = j
          BY <1>1, <2>2, <3>2
        <4> QED BY <4>1
      <3> QED BY <1>1, <2>2, <3>1, <3>2
    <2> QED BY <2>1, <2>2
  <1>3. /\ \A i \in 1 .. size - 1 : Closed(at)[i] = slots[from(i)]
        /\ Unique(Closed(at), size - 1)
    BY ClosedFacts
  <1> HIDE DEF from
  <1>4. KeysOf(Closed(at), size - 1) = Keys \ {slots[at].key}
    <2>1. ASSUME NEW x \in KeysOf(Closed(at), size - 1) PROVE x \in Keys \ {slots[at].key}
      <3>1. PICK i \in 1 .. size - 1 : x = slots[from(i)].key
        BY <1>3 DEF KeysOf
      <3> QED BY <1>1, <1>2, <3>1 DEF Keys, Unique
    <2>2. ASSUME NEW x \in Keys, x # slots[at].key PROVE x \in KeysOf(Closed(at), size - 1)
      <3>1. PICK j \in 1 .. size : x = slots[j].key
        BY DEF Keys
      <3>2. PICK i \in 1 .. size - 1 : from(i) = j
        BY <1>2, <2>2, <3>1
      <3> QED BY <1>3, <3>1, <3>2 DEF KeysOf
    <2> QED BY <2>1, <2>2
  <1>5. ASSUME NEW x \in KeysOf(Closed(at), size - 1)
        PROVE  MapOf(Closed(at), size - 1)[x] = Contents[x]
    <2>1. PICK i \in 1 .. size - 1 : x = Closed(at)[i].key
      BY DEF KeysOf
    <2>2. MapOf(Closed(at), size - 1)[x] = Closed(at)[i].val
      BY <1>3, <2>1, MapOfFacts
    <2>3. Contents[x] = slots[from(i)].val
      BY <1>1, <1>2, <1>3, <2>1, MapOfFacts, ContentsIsMapOf
    <2> QED BY <1>3, <2>2, <2>3
  <1> QED BY <1>4, <1>5 DEF MapOf

-----------------------------------------------------------------------------
\* The initial states, and every call, of the table are those of the map.
LEMMA InitMap == Init => Map!Init
  <1> SUFFICES ASSUME Init PROVE Map!Init
    OBVIOUS
  <1>1. size = 0 /\ ret = None
    BY DEF Init
  <1>2. Keys = {}
    BY <1>1 DEF Keys
  <1>3. Contents = [k \in {} |-> None]
    BY <1>2 DEF Contents
  <1> QED BY <1>1, <1>3 DEF Map!Init

\* What a call finds in the table is what the map holds.
LEMMA FoundInMap ==
  ASSUME IInv, NEW i \in 1 .. size
  PROVE  slots[i].key \in Keys /\ Contents[slots[i].key] = slots[i].val
  <1>1. Unique(slots, size)
    BY DEF IInv, UniqueKeys, Unique
  <1>2. slots[i].key \in KeysOf(slots, size)
        /\ MapOf(slots, size)[slots[i].key] = slots[i].val
    BY <1>1, MapOfFacts
  <1> QED BY <1>2, ContentsIsMapOf

LEMMA FullIsFull == IInv => (Map!Full <=> size >= Room) /\ DOMAIN Contents = Keys
  <1> SUFFICES ASSUME IInv PROVE (Map!Full <=> size >= Room) /\ DOMAIN Contents = Keys
    OBVIOUS
  <1>1. size \in Nat /\ Unique(slots, size)
    BY RoomAssumption DEF IInv, TypeOK, UniqueKeys, Unique
  <1>2. Cardinality(KeysOf(slots, size)) = size
    BY <1>1, KeysCount
  <1>3. DOMAIN Contents = Keys /\ Keys = KeysOf(slots, size)
    BY ContentsIsMapOf DEF Contents
  <1>4. Map!Cardinality(DOMAIN Contents) = Cardinality(DOMAIN Contents)
    BY DEF Map!Cardinality, Cardinality
  <1> QED BY <1>2, <1>3, <1>4 DEF Map!Full

\* A call that gives a table to qsort leaves the map this table holds.
LEMMA QsortGivesMap ==
  ASSUME NEW s \in [1 .. Room -> Record], NEW n \in 0 .. Room, Unique(s, n),
         slots' \in Qsort(s, n), size' = n
  PROVE  Contents' = MapOf(s, n)
  <1>1. MapOf(slots', n) = MapOf(s, n)
    BY QsortKeepsMap
  <1>2. Contents' = MapOf(slots', size')
    BY DEF Contents, Keys, MapOf, KeysOf
  <1> QED BY <1>1, <1>2

LEMMA ContentsStay == UNCHANGED <<slots, size>> => Contents' = Contents
  BY DEF Contents, Keys

LEMMA ReadMap == ASSUME IInv, NEW k \in Key, Read(k) PROVE Map!Read(k)
  <1>1. PICK at \in Bsearch(k) : ret' = IF at = 0 THEN None ELSE slots[at].val
    BY DEF Read
  <1>2. Contents' = Contents
    BY ContentsStay DEF Read
  <1>3. CASE at = 0 /\ \A i \in 1 .. size : slots[i].key # k
    <2>1. k \notin Keys
      BY <1>3 DEF Keys
    <2> QED BY <1>1, <1>2, <1>3, <2>1, FullIsFull DEF Map!Read, Map!Present
  <1>4. CASE at # 0 /\ at \in 1 .. size /\ slots[at].key = k
    <2>1. k \in Keys /\ Contents[k] = slots[at].val
      BY <1>4, FoundInMap
    <2> QED BY <1>1, <1>2, <1>4, <2>1, FullIsFull DEF Map!Read, Map!Present
  <1> QED BY <1>3, <1>4, BsearchFacts DEF IInv

LEMMA CreateMap == ASSUME IInv, NEW r \in Record, Create(r) PROVE Map!Create(r.key, r.val)
  <1>1. PICK at \in Bsearch(r.key) :
          \/ at # 0 /\ ret' = slots[at].val /\ UNCHANGED <<slots, size>>
          \/ at = 0 /\ size >= Room /\ ret' = None /\ UNCHANGED <<slots, size>>
          \/ /\ at = 0 /\ size < Room /\ slots' \in Qsort(Stored(r), size + 1)
             /\ size' = size + 1 /\ ret' = r.val
    BY DEF Create
  <1>2. \/ at = 0 /\ \A i \in 1 .. size : slots[i].key # r.key
        \/ at # 0 /\ at \in 1 .. size /\ slots[at].key = r.key
    BY BsearchFacts DEF IInv
  <1>3. size \in 0 .. Room /\ Room \in Nat
    BY RoomAssumption DEF IInv, TypeOK
  <1>4. (Map!Full <=> size >= Room) /\ DOMAIN Contents = Keys
    BY FullIsFull
  <1>5. CASE at # 0 /\ ret' = slots[at].val /\ UNCHANGED <<slots, size>>
    <2>1. r.key \in Keys /\ Contents[r.key] = slots[at].val
      BY <1>2, <1>5, FoundInMap
    <2>2. Contents' = Contents
      BY <1>5, ContentsStay
    <2> QED BY <1>4, <1>5, <2>1, <2>2 DEF Map!Create, Map!Present
  <1>6. CASE at = 0 /\ size >= Room /\ ret' = None /\ UNCHANGED <<slots, size>>
    <2>1. r.key \notin Keys
      BY <1>2, <1>6 DEF Keys
    <2>2. Contents' = Contents
      BY <1>6, ContentsStay
    <2> QED BY <1>4, <1>6, <2>1, <2>2 DEF Map!Create, Map!Present
  <1>7. CASE /\ at = 0 /\ size < Room /\ slots' \in Qsort(Stored(r), size + 1)
             /\ size' = size + 1 /\ ret' = r.val
    <2>1. r.key \notin Keys
      BY <1>2, <1>7 DEF Keys
    <2>2. /\ Stored(r) \in [1 .. Room -> Record] /\ size + 1 \in 0 .. Room
          /\ Unique(Stored(r), size + 1)
      BY <1>2, <1>3, <1>7, StoredFacts
    <2>3. Contents' = [x \in Keys \cup {r.key} |-> IF x = r.key THEN r.val ELSE Contents[x]]
      BY <1>2, <1>7, <2>2, QsortGivesMap, StoredMap
    <2>4. ~Map!Full
      BY <1>3, <1>4, <1>7
    <2> QED BY <1>4, <1>7, <2>1, <2>3, <2>4 DEF Map!Create, Map!Present, Map!Put
  <1> QED BY <1>1, <1>5, <1>6, <1>7

LEMMA UpdateMap == ASSUME IInv, NEW r \in Record, Update(r) PROVE Map!Update(r.key, r.val)
  <1>1. PICK at \in Bsearch(r.key) :
          \/ at = 0 /\ Create(r)
          \/ at # 0 /\ slots' \in Qsort(Replaced(at, r), size) /\ ret' = r.val /\ size' = size
    BY DEF Update
  <1>2. \/ at = 0 /\ \A i \in 1 .. size : slots[i].key # r.key
        \/ at # 0 /\ at \in 1 .. size /\ slots[at].key = r.key
    BY BsearchFacts DEF IInv
  <1>3. DOMAIN Contents = Keys
    BY FullIsFull
  <1>4. CASE at = 0 /\ Create(r)
    <2>1. ~Map!Present(r.key)
      BY <1>2, <1>3, <1>4 DEF Keys, Map!Present
    <2>2. Map!Create(r.key, r.val)
      BY <1>4, CreateMap
    <2> QED BY <2>1, <2>2 DEF Map!Create, Map!Update
  <1>5. CASE at # 0 /\ slots' \in Qsort(Replaced(at, r), size) /\ ret' = r.val /\ size' = size
    <2>1. at \in 1 .. size /\ slots[at].key = r.key
      BY <1>2, <1>5
    <2>2. Replaced(at, r) \in [1 .. Room -> Record] /\ Unique(Replaced(at, r), size)
      BY <2>1, ReplacedFacts
    <2>3. size \in 0 .. Room
      BY DEF IInv, TypeOK
    <2>4. /\ r.key \in Keys
          /\ Contents' = [x \in Keys \cup {r.key} |-> IF x = r.key THEN r.val ELSE Contents[x]]
      BY <1>5, <2>1, <2>2, <2>3, QsortGivesMap, ReplacedMap
    <2> QED BY <1>3, <1>5, <2>4 DEF Map!Update, Map!Present, Map!Put
  <1> QED BY <1>1, <1>4, <1>5

LEMMA DeleteMap == ASSUME IInv, NEW k \in Key, Delete(k) PROVE Map!Delete(k)
  <1>1. PICK at \in Bsearch(k) :
          \/ at = 0 /\ UNCHANGED <<slots, size>>
          \/ at # 0 /\ slots' \in Qsort(Closed(at), size - 1) /\ size' = size - 1
    BY DEF Delete
  <1>2. \/ at = 0 /\ \A i \in 1 .. size : slots[i].key # k
        \/ at # 0 /\ at \in 1 .. size /\ slots[at].key = k
    BY BsearchFacts DEF IInv
  <1>3. ret' = None /\ DOMAIN Contents = Keys
    BY FullIsFull DEF Delete
  <1>4. CASE at = 0 /\ UNCHANGED <<slots, size>>
    <2>1. k \notin Keys /\ Contents' = Contents
      BY <1>2, <1>4, ContentsStay DEF Keys
    <2>2. Contents = [x \in Keys \ {k} |-> Contents[x]]
      BY <2>1 DEF Contents
    <2> QED BY <1>3, <2>1, <2>2 DEF Map!Delete
  <1>5. CASE at # 0 /\ slots' \in Qsort(Closed(at), size - 1) /\ size' = size - 1
    <2>1. at \in 1 .. size /\ slots[at].key = k
      BY <1>2, <1>5
    <2>2. /\ Closed(at) \in [1 .. Room -> Record] /\ size - 1 \in 0 .. Room
          /\ Unique(Closed(at), size - 1)
      BY <2>1, ClosedFacts
    <2>3. Contents' = [x \in Keys \ {k} |-> Contents[x]]
      BY <1>5, <2>1, <2>2, QsortGivesMap, ClosedMap
    <2> QED BY <1>3, <2>3 DEF Map!Delete
  <1> QED BY <1>1, <1>4, <1>5

LEMMA StepMap == IInv /\ [Next]_vars => [Map!Next]_(Map!vars)
  <1> SUFFICES ASSUME IInv, [Next]_vars PROVE [Map!Next]_(Map!vars)
    OBVIOUS
  <1>1. ASSUME NEW k \in Key, Read(k) PROVE Map!Next
    BY <1>1, ReadMap DEF Map!Next
  <1>2. ASSUME NEW k \in Key, Delete(k) PROVE Map!Next
    BY <1>2, DeleteMap DEF Map!Next
  <1>3. ASSUME NEW r \in Record, Create(r) PROVE Map!Next
    <2>1. r.key \in Key /\ r.val \in Value
      BY DEF Record
    <2> QED BY <1>3, <2>1, CreateMap DEF Map!Next
  <1>4. ASSUME NEW r \in Record, Update(r) PROVE Map!Next
    <2>1. r.key \in Key /\ r.val \in Value
      BY DEF Record
    <2> QED BY <1>4, <2>1, UpdateMap DEF Map!Next
  <1>5. CASE UNCHANGED vars
    BY <1>5, ContentsStay DEF vars, Map!vars
  <1> QED BY <1>1, <1>2, <1>3, <1>4, <1>5 DEF Next

\* The sorted array with its qsort, bsearch and memmove is the map of Room
\* entries that the feed handlers take it for, for every room and every order.
THEOREM TableImplementsMap == Spec => MapSpec
  BY InitMap, InitIInv, NextIInv, StepMap, PTL DEF Spec, MapSpec, Map!Spec

-----------------------------------------------------------------------------
\* Induction, from the library's fact that < is well-founded on the naturals.
\* A set of natural numbers that is not empty has a least one.
LEMMA LeastNatural ==
  ASSUME NEW T, T \subseteq Nat, T # {}
  PROVE  \E n \in T : \A m \in T : n <= m
  <1> DEFINE less == OpToRel(<, Nat)
  <1>1. IsWellFoundedOn(less, Nat)
    BY NatLessThanWellFounded, Zenon
  <1>2. \A m, n \in Nat : m < n => <<m, n>> \in less
    BY Zenon DEF OpToRel
  <1> HIDE DEF less
  <1>3. PICK n \in T : \A m \in T : ~ (<<m, n>> \in less)
    BY <1>1, WFMin
  <1>4. ASSUME NEW m \in T PROVE n <= m
    <2>1. m \in Nat /\ n \in Nat /\ ~(m < n)
      BY <1>2, <1>3
    <2> QED BY <2>1
  <1> QED BY <1>4

\* What holds of 0 and of each successor holds of every number up to a bound.
LEMMA UpTo ==
  ASSUME NEW N \in Nat, NEW S, 0 \in S, \A n \in 0 .. N : n \in S /\ n + 1 \in 0 .. N => n + 1 \in S
  PROVE  N \in S
  <1> SUFFICES ASSUME N \notin S PROVE FALSE
    OBVIOUS
  <1> DEFINE T == {n \in Nat : n <= N /\ n \notin S}
  <1>1. PICK n \in T : \A m \in T : n <= m
    <2>1. T \subseteq Nat /\ N \in T
      OBVIOUS
    <2> QED BY <2>1, LeastNatural
  <1>2. n # 0 /\ n - 1 \in 0 .. N /\ n - 1 + 1 = n /\ n \in 0 .. N
    OBVIOUS
  <1>3. n - 1 \in S
    BY <1>1, <1>2
  <1> QED BY <1>2, <1>3

\* One step of the search in a range, when f gives the results in others.
Probed(k, f, r) ==
    LET m == (r[1] + r[2]) \div 2
    IN  IF r[1] >= r[2] THEN 0
        ELSE IF Before(k, slots[m + 1].key) THEN f[<<r[1], m>>]
        ELSE IF Before(slots[m + 1].key, k) THEN f[<<m + 1, r[2]>>]
        ELSE m + 1

Ranges == (0 .. Room) \X (0 .. Room)

\* The middle divides a range into two shorter ones.
LEMMA MiddleFacts ==
  ASSUME NEW r \in Ranges, r[1] < r[2]
  PROVE  LET m == (r[1] + r[2]) \div 2
         IN  /\ r[1] \in 0 .. Room /\ r[2] \in 0 .. Room
             /\ m \in 0 .. Room /\ m + 1 \in 0 .. Room /\ r[1] <= m /\ m < r[2]
             /\ <<r[1], m>> \in Ranges /\ <<m + 1, r[2]>> \in Ranges
  <1> DEFINE m == (r[1] + r[2]) \div 2
  <1>1. r[1] \in 0 .. Room /\ r[2] \in 0 .. Room /\ Room \in Nat
    BY RoomAssumption DEF Ranges
  <1>2. m \in 0 .. Room /\ m + 1 \in 0 .. Room /\ r[1] <= m /\ m < r[2]
    BY <1>1
  <1> HIDE DEF m
  <1>3. <<r[1], m>> \in Ranges /\ <<m + 1, r[2]>> \in Ranges
    BY <1>1, <1>2 DEF Ranges
  <1> QED BY <1>1, <1>2, <1>3 DEF m

\* The step looks at f in shorter ranges only.
LEMMA ProbedShorter ==
  ASSUME NEW k, NEW f, NEW g, NEW r \in Ranges,
         \A q \in Ranges : q[2] - q[1] < r[2] - r[1] => f[q] = g[q]
  PROVE  Probed(k, f, r) = Probed(k, g, r)
  <1> DEFINE m == (r[1] + r[2]) \div 2
             q1 == <<r[1], m>>
             q2 == <<m + 1, r[2]>>
  <1>1. CASE r[1] >= r[2]
    BY <1>1 DEF Probed
  <1>2. CASE ~(r[1] >= r[2])
    <2>1. r[1] \in Nat /\ r[2] \in Nat /\ r[1] < r[2]
      BY <1>2, RoomAssumption DEF Ranges
    <2>2. /\ m \in Nat /\ r[1] <= m /\ m < r[2] /\ q1 \in Ranges /\ q2 \in Ranges
      BY <2>1, MiddleFacts, RoomAssumption
    <2>3. q1[1] = r[1] /\ q1[2] = m /\ q2[1] = m + 1 /\ q2[2] = r[2]
      OBVIOUS
    <2>4. \A h : Probed(k, h, r) = IF Before(k, slots[m + 1].key) THEN h[q1]
                                  ELSE IF Before(slots[m + 1].key, k) THEN h[q2] ELSE m + 1
      BY <1>2 DEF Probed
    <2> HIDE DEF q1, q2, m
    <2>5. f[q1] = g[q1] /\ f[q2] = g[q2]
      BY <2>1, <2>2, <2>3
    <2> QED BY <2>4, <2>5
  <1> QED BY <1>1, <1>2

\* There is a function that the recursion describes: by induction over the
\* width of the ranges in which it is right.
LEMMA ProbeExists ==
  ASSUME NEW k
  PROVE  \E f : f = [r \in Ranges |-> Probed(k, f, r)]
  <1> DEFINE Right(f, w) == \A r \in Ranges : r[2] - r[1] <= w => f[r] = Probed(k, f, r)
             S == {w \in Nat : \E f : Right(f, w)}
             next(f) == [r \in Ranges |-> Probed(k, f, r)]
  <1>1. \A r \in Ranges : r[1] \in 0 .. Room /\ r[2] \in 0 .. Room
    BY DEF Ranges
  <1>2. ASSUME NEW f, NEW w \in Int, Right(f, w)
        PROVE  Right(next(f), w + 1)
    <2> SUFFICES ASSUME NEW r \in Ranges, r[2] - r[1] <= w + 1
                 PROVE  next(f)[r] = Probed(k, next(f), r)
      OBVIOUS
    <2>1. ASSUME NEW q \in Ranges, q[2] - q[1] < r[2] - r[1]
          PROVE  f[q] = next(f)[q]
      <3>1. q[2] - q[1] <= w
        BY <1>1, <2>1, RoomAssumption
      <3> QED BY <1>2, <3>1
    <2>2. Probed(k, f, r) = Probed(k, next(f), r)
      BY <2>1, ProbedShorter
    <2> QED BY <2>2
  <1>3. 0 \in S
    <2>1. Right(next(k), 0)
      <3> SUFFICES ASSUME NEW r \in Ranges, r[2] - r[1] <= 0
                   PROVE  next(k)[r] = Probed(k, next(k), r)
        OBVIOUS
      <3>1. r[1] >= r[2]
        BY <1>1
      <3> QED BY <3>1 DEF Probed
    <2> QED BY <2>1
  <1>4. ASSUME NEW w \in 0 .. Room, w \in S PROVE w + 1 \in S
    <2>1. PICK f : Right(f, w)
      BY <1>4
    <2>2. Right(next(f), w + 1)
      BY <1>2, <2>1
    <2> HIDE DEF Right, next
    <2> QED BY <2>2
  <1>5. Room \in S
    <2> HIDE DEF S
    <2> QED BY <1>3, <1>4, UpTo, RoomAssumption
  <1>6. PICK f : Right(f, Room)
    BY <1>5
  <1>7. Right(next(f), Room + 1)
    BY <1>2, <1>6, RoomAssumption
  <1>8. \A r \in Ranges : next(f)[r] = Probed(k, next(f), r)
    BY <1>1, <1>7, RoomAssumption
  <1>9. next(f) = [r \in Ranges |-> next(f)[r]]
    OBVIOUS
  <1> HIDE DEF next
  <1>10. next(f) = [r \in Ranges |-> Probed(k, next(f), r)]
    BY <1>8, <1>9
  <1> QED BY <1>10

\* What the search returns: a slot of the key, or 0 when there is none.
LEMMA SearchRight ==
  ASSUME TypeOK, SortedInv, NEW k \in Key
  PROVE  Halving(k) \in (IF Matches(k) = {} THEN {0} ELSE Matches(k))
  <1> DEFINE probe == CHOOSE f : f = [r \in Ranges |-> Probed(k, f, r)]
  <1>1. Halving(k) = probe[<<0, size>>]
    BY DEF Halving, Probed, Ranges
  <1>2. probe = [r \in Ranges |-> Probed(k, probe, r)]
    BY ProbeExists
  <1> HIDE DEF probe
  <1>3. \A r \in Ranges : probe[r] = Probed(k, probe, r)
    BY <1>2
  <1> DEFINE In(r) == {i \in Matches(k) : r[1] < i /\ i <= r[2]}
             Good(r) == probe[r] \in (IF In(r) = {} THEN {0} ELSE In(r))
             S == {w \in Nat : \A r \in Ranges : r[2] <= size /\ r[2] - r[1] <= w => Good(r)}
  <1>4. Room \in Nat /\ size \in 0 .. Room /\ \A i \in 1 .. size : slots[i].key \in Key
    BY RoomAssumption DEF TypeOK, Record
  <1>5. 0 \in S
    <2> SUFFICES ASSUME NEW r \in Ranges, r[2] - r[1] <= 0 PROVE Good(r)
      OBVIOUS
    <2>1. r[1] \in Nat /\ r[2] \in Nat /\ r[1] >= r[2]
      BY <1>4 DEF Ranges
    <2>2. In(r) = {}
      BY <1>4, <2>1 DEF Matches
    <2>3. probe[r] = 0
      BY <1>3, <2>1 DEF Probed
    <2> QED BY <2>2, <2>3
  <1>6. ASSUME NEW w \in 0 .. Room, w \in S PROVE w + 1 \in S
    <2> SUFFICES ASSUME NEW r \in Ranges, r[2] <= size, r[2] - r[1] <= w + 1 PROVE Good(r)
      BY <1>4
    <2> DEFINE m == (r[1] + r[2]) \div 2
               q1 == <<r[1], m>>
               q2 == <<m + 1, r[2]>>
    <2>1. r[1] \in Nat /\ r[2] \in Nat
      BY <1>4 DEF Ranges
    <2>2. CASE r[1] >= r[2]
      <3>1. r[2] - r[1] <= w
        BY <1>4, <2>1, <2>2
      <3> QED BY <1>6, <3>1
    <2>3. CASE r[1] < r[2]
      <3>1. /\ m \in Nat /\ r[1] <= m /\ m < r[2] /\ q1 \in Ranges /\ q2 \in Ranges
        BY <1>4, <2>3, MiddleFacts
      <3>2. q1[1] = r[1] /\ q1[2] = m /\ q2[1] = m + 1 /\ q2[2] = r[2]
        OBVIOUS
      <3>3. probe[r] = IF Before(k, slots[m + 1].key) THEN probe[q1]
                       ELSE IF Before(slots[m + 1].key, k) THEN probe[q2] ELSE m + 1
        <4>1. ~(r[1] >= r[2])
          BY <2>1, <2>3
        <4> QED BY <1>3, <4>1 DEF Probed
      <3>4. m + 1 \in 1 .. size /\ slots[m + 1].key \in Key
        BY <1>4, <2>1, <3>1
      <3> HIDE DEF m, q1, q2
      <3>5. Good(q1) /\ Good(q2)
        <4>1. q1[2] <= size /\ q1[2] - q1[1] <= w /\ q2[2] <= size /\ q2[2] - q2[1] <= w
          BY <1>4, <2>1, <3>1, <3>2
        <4> HIDE DEF Good
        <4> QED BY <1>6, <3>1, <4>1
      <3>6. CASE Before(k, slots[m + 1].key)
        <4>1. \A i \in m + 1 .. size : slots[i].key # k
          BY <1>4, <2>1, <3>1, <3>4, <3>6, OrderAssumption DEF SortedInv, Sorted
        <4>2. In(r) = In(q1)
          BY <1>4, <2>1, <3>1, <3>2, <4>1 DEF Matches
        <4> QED BY <3>3, <3>5, <3>6, <4>2
      <3>7. CASE Before(slots[m + 1].key, k) /\ ~Before(k, slots[m + 1].key)
        <4>1. \A i \in 1 .. m + 1 : slots[i].key # k
          BY <1>4, <2>1, <3>1, <3>4, <3>7, OrderAssumption DEF SortedInv, Sorted
        <4>2. In(r) = In(q2)
          BY <1>4, <2>1, <3>1, <3>2, <4>1 DEF Matches
        <4> QED BY <3>3, <3>5, <3>7, <4>2
      <3>8. CASE ~Before(slots[m + 1].key, k) /\ ~Before(k, slots[m + 1].key)
        <4>1. slots[m + 1].key = k
          BY <3>4, <3>8, OrderAssumption
        <4>2. m + 1 \in In(r)
          BY <2>1, <3>1, <3>4, <4>1 DEF Matches
        <4> QED BY <3>3, <3>8, <4>2
      <3> QED BY <3>6, <3>7, <3>8
    <2> QED BY <2>1, <2>2, <2>3
  <1>7. Room \in S
    <2> HIDE DEF S
    <2> QED BY <1>4, <1>5, <1>6, UpTo
  <1> DEFINE all == <<0, size>>
  <1>8. all \in Ranges /\ all[1] = 0 /\ all[2] = size
    BY <1>4 DEF Ranges
  <1> HIDE DEF all
  <1>9. Good(all)
    <2>1. all[2] <= size /\ all[2] - all[1] <= Room
      BY <1>4, <1>8
    <2> HIDE DEF Good
    <2> QED BY <1>7, <1>8, <2>1
  <1>10. In(all) = Matches(k)
    BY <1>4, <1>8 DEF Matches
  <1> HIDE DEF In
  <1> QED BY <1>1, <1>9, <1>10 DEF all

\* glibc's search finds a record of the key exactly when there is one, on every
\* table the calls can build (bsearch in read, create, update and delete).
THEOREM SearchCorrect == Spec => []SearchFinds
  <1>1. IInv => SearchFinds
    BY SearchRight DEF IInv, SearchFinds
  <1> QED BY <1>1, InitIInv, NextIInv, PTL DEF Spec

-----------------------------------------------------------------------------
CrashInv == TypeOK /\ crashed \in BOOLEAN

-----------------------------------------------------------------------------
LEMMA SearchFacts ==
  ASSUME NEW k, NEW at \in Bsearch(k), at # 0
  PROVE  at \in 1 .. size /\ slots[at].key = k
  BY DEF Bsearch, Matches

\* What the statements in front of qsort make of the array.
LEMMA ArrayFacts ==
  ASSUME TypeOK
  PROVE  /\ size \in Nat /\ size \in 0 .. Room /\ \A i \in 1 .. size : slots[i] \in Record
         /\ \A r \in Record : size < Room =>
               /\ Stored(r) \in [1 .. Room -> Record] /\ size + 1 \in 0 .. Room
               /\ Stored(r)[size + 1] = r /\ \A i \in 1 .. size : Stored(r)[i] = slots[i]
         /\ \A r \in Record : \A at \in 1 .. size :
               /\ Replaced(at, r) \in [1 .. Room -> Record] /\ Replaced(at, r)[at] = r
               /\ \A i \in 1 .. size : i # at => Replaced(at, r)[i] = slots[i]
         /\ \A at \in 1 .. size :
               /\ Closed(at) \in [1 .. Room -> Record] /\ size - 1 \in 0 .. Room
               /\ \A i \in 1 .. size :
                     Closed(at)[i] = slots[IF i < at \/ i = size THEN i ELSE i + 1]
  <1>1. /\ Room \in Nat /\ size \in 0 .. Room /\ slots \in [1 .. Room -> Record]
        /\ \A i \in 1 .. size : i \in 1 .. Room
    BY RoomAssumption DEF TypeOK
  <1>2. ASSUME NEW r \in Record, size < Room
        PROVE  /\ Stored(r) \in [1 .. Room -> Record] /\ size + 1 \in 0 .. Room
               /\ Stored(r)[size + 1] = r /\ \A i \in 1 .. size : Stored(r)[i] = slots[i]
    BY <1>1, <1>2 DEF Stored
  <1>3. ASSUME NEW r \in Record, NEW at \in 1 .. size
        PROVE  /\ Replaced(at, r) \in [1 .. Room -> Record] /\ Replaced(at, r)[at] = r
               /\ \A i \in 1 .. size : i # at => Replaced(at, r)[i] = slots[i]
    BY <1>1 DEF Replaced
  <1>4. ASSUME NEW at \in 1 .. size
        PROVE  /\ Closed(at) \in [1 .. Room -> Record] /\ size - 1 \in 0 .. Room
               /\ \A i \in 1 .. size :
                     Closed(at)[i] = slots[IF i < at \/ i = size THEN i ELSE i + 1]
    <2>1. \A i \in at .. (size - 1) : i + 1 \in 1 .. Room
      BY <1>1
    <2>2. Closed(at) \in [1 .. Room -> Record] /\ size - 1 \in 0 .. Room
      BY <1>1, <2>1 DEF Closed
    <2>3. \A i \in 1 .. size : i \in 1 .. Room /\ (i \in at .. (size - 1) <=> ~(i < at \/ i = size))
      BY <1>1
    <2> QED BY <2>2, <2>3 DEF Closed
  <1>5. size \in Nat /\ size \in 0 .. Room /\ \A i \in 1 .. size : slots[i] \in Record
    BY <1>1
  <1> QED BY <1>2, <1>3, <1>4, <1>5

\* A call whose last step is qsort leaves the table typed and sorted.
LEMMA QsortStep ==
  ASSUME NEW s \in [1 .. Room -> Record], NEW n \in 0 .. Room,
         slots' \in Qsort(s, n), size' = n, ret' \in Value \cup {None}
  PROVE  TypeOK' /\ Sorted(slots', size')
  <1>1. slots' \in [1 .. Room -> Record] /\ Sorted(slots', n)
    BY QsortFacts
  <1> QED BY <1>1 DEF TypeOK

\* A call that leaves the array alone returns a value of it or NULL.
LEMMA LookupStep ==
  ASSUME TypeOK, NEW k, NEW at \in Bsearch(k), UNCHANGED <<slots, size>>,
         ret' = None \/ (at # 0 /\ ret' = slots[at].val)
  PROVE  TypeOK'
  <1>1. ret' \in Value \cup {None}
    <2>1. at # 0 => slots[at] \in Record
      BY SearchFacts, ArrayFacts
    <2> QED BY <2>1 DEF Record
  <1> QED BY <1>1 DEF TypeOK

\* A call types the variables, and leaves the table as it is or sorts it, also
\* one that an interrupted call left unsorted.
LEMMA CreateStep ==
  ASSUME TypeOK, NEW r \in Record, Create(r)
  PROVE  TypeOK' /\ (UNCHANGED <<slots, size>> \/ Sorted(slots', size'))
  <1>1. PICK at \in Bsearch(r.key) :
          \/ at # 0 /\ ret' = slots[at].val /\ UNCHANGED <<slots, size>>
          \/ at = 0 /\ size >= Room /\ ret' = None /\ UNCHANGED <<slots, size>>
          \/ /\ at = 0 /\ size < Room /\ slots' \in Qsort(Stored(r), size + 1)
             /\ size' = size + 1 /\ ret' = r.val
    BY DEF Create
  <1>2. CASE UNCHANGED <<slots, size>> /\ (ret' = None \/ (at # 0 /\ ret' = slots[at].val))
    BY <1>2, LookupStep
  <1>3. CASE /\ size < Room /\ slots' \in Qsort(Stored(r), size + 1)
             /\ size' = size + 1 /\ ret' = r.val
    <2>1. r.val \in Value
      BY DEF Record
    <2>2. Stored(r) \in [1 .. Room -> Record] /\ size + 1 \in 0 .. Room
      BY <1>3, ArrayFacts
    <2> QED BY <1>3, <2>1, <2>2, QsortStep
  <1> QED BY <1>1, <1>2, <1>3

LEMMA NextStep == TypeOK /\ Next => TypeOK' /\ (UNCHANGED <<slots, size>> \/ Sorted(slots', size'))
  <1> SUFFICES ASSUME TypeOK, Next
               PROVE  TypeOK' /\ (UNCHANGED <<slots, size>> \/ Sorted(slots', size'))
    OBVIOUS
  <1>1. ASSUME NEW k \in Key, Read(k)
        PROVE  TypeOK' /\ UNCHANGED <<slots, size>>
    <2>1. PICK at \in Bsearch(k) : ret' = IF at = 0 THEN None ELSE slots[at].val
      BY <1>1 DEF Read
    <2>2. UNCHANGED <<slots, size>>
      BY <1>1 DEF Read
    <2> QED BY <2>1, <2>2, LookupStep
  <1>2. ASSUME NEW r \in Record, Create(r)
        PROVE  TypeOK' /\ (UNCHANGED <<slots, size>> \/ Sorted(slots', size'))
    BY <1>2, CreateStep
  <1>3. ASSUME NEW r \in Record, Update(r)
        PROVE  TypeOK' /\ (UNCHANGED <<slots, size>> \/ Sorted(slots', size'))
    <2>1. PICK at \in Bsearch(r.key) :
            \/ at = 0 /\ Create(r)
            \/ at # 0 /\ slots' \in Qsort(Replaced(at, r), size) /\ ret' = r.val /\ size' = size
      BY <1>3 DEF Update
    <2>2. CASE at # 0 /\ slots' \in Qsort(Replaced(at, r), size) /\ ret' = r.val /\ size' = size
      <3>1. r.val \in Value
        BY DEF Record
      <3>2. Replaced(at, r) \in [1 .. Room -> Record] /\ size \in 0 .. Room
        BY <2>2, SearchFacts, ArrayFacts
      <3> QED BY <2>2, <3>1, <3>2, QsortStep
    <2> QED BY <2>1, <2>2, CreateStep
  <1>4. ASSUME NEW k \in Key, Delete(k)
        PROVE  TypeOK' /\ (UNCHANGED <<slots, size>> \/ Sorted(slots', size'))
    <2>1. PICK at \in Bsearch(k) :
            \/ at = 0 /\ UNCHANGED <<slots, size>>
            \/ at # 0 /\ slots' \in Qsort(Closed(at), size - 1) /\ size' = size - 1
      BY <1>4 DEF Delete
    <2>2. ret' = None
      BY <1>4 DEF Delete
    <2>3. CASE at # 0 /\ slots' \in Qsort(Closed(at), size - 1) /\ size' = size - 1
      <3>1. Closed(at) \in [1 .. Room -> Record] /\ size - 1 \in 0 .. Room
        BY <2>3, SearchFacts, ArrayFacts
      <3> QED BY <2>2, <2>3, <3>1, QsortStep
    <2> QED BY <2>1, <2>2, <2>3, LookupStep
  <1> QED BY <1>1, <1>2, <1>3, <1>4 DEF Next

-----------------------------------------------------------------------------
\* An interrupted call leaves typed records and a size within the array.
LEMMA TornFacts ==
  ASSUME NEW I, NEW s \in Torn(I)
  PROVE  s \in [1 .. Room -> Record]
  BY DEF Torn

LEMMA CrashStep ==
  ASSUME TypeOK, Interrupted
  PROVE  slots' \in [1 .. Room -> Record] /\ size' \in 0 .. Room
  <1>1. ASSUME NEW r \in Record, CrashInCreate(r)
        PROVE  slots' \in [1 .. Room -> Record] /\ size' \in 0 .. Room
    BY <1>1, ArrayFacts, TornFacts DEF CrashInCreate
  <1>2. ASSUME NEW r \in Record, CrashInUpdate(r)
        PROVE  slots' \in [1 .. Room -> Record] /\ size' \in 0 .. Room
    BY <1>2, ArrayFacts, TornFacts DEF CrashInUpdate
  <1>3. ASSUME NEW k \in Key, CrashInDelete(k)
        PROVE  slots' \in [1 .. Room -> Record] /\ size' \in 0 .. Room
    <2>1. PICK at \in Bsearch(k) \ {0} :
            \/ slots' \in Torn(at .. size - 1) /\ size' = size
            \/ slots' \in Torn(1 .. size - 1) /\ size' = size - 1
      BY <1>3 DEF CrashInDelete
    <2>2. at \in 1 .. size
      BY <2>1, SearchFacts
    <2> QED BY <2>1, <2>2, ArrayFacts, TornFacts
  <1> QED BY <1>1, <1>2, <1>3 DEF Interrupted

LEMMA InitCrash == CrashInit => CrashInv
  BY InitIInv DEF CrashInit, CrashInv, IInv

LEMMA NextCrash == CrashInv /\ [CrashNext]_crashVars => CrashInv'
  <1> SUFFICES ASSUME CrashInv, [CrashNext]_crashVars PROVE CrashInv'
    OBVIOUS
  <1>1. CASE Call
    BY <1>1, NextStep DEF Call, CrashInv
  <1>2. CASE Crash
    BY <1>2, CrashStep DEF Crash, CrashInv, TypeOK
  <1>3. CASE UNCHANGED crashVars
    BY <1>3 DEF crashVars, CrashInv, TypeOK
  <1> QED BY <1>1, <1>2, <1>3 DEF CrashNext

\* However often calls are interrupted the types hold; in particular size never
\* leaves the array (the order of memcpy, memmove and size in smtshm.c).
THEOREM CrashTypeCorrect == CrashSpec => []CrashTypeOK
  <1>1. CrashInv => CrashTypeOK
    BY DEF CrashInv, CrashTypeOK
  <1> QED BY <1>1, InitCrash, NextCrash, PTL DEF CrashSpec

\* A call that changes the table leaves it sorted, also one a crash left unsorted
\* (the qsort at the end of create, update and delete).
THEOREM RepairCorrect == CrashSpec => CallRepairsOrder
  <1> DEFINE Repairs == ~crashed' /\ slots' # slots => Sorted(slots', size')
  <1>1. CrashInv /\ [CrashNext]_crashVars => [Repairs]_crashVars
    BY NextStep DEF CrashInv, CrashNext, Call, Crash
  <1> QED BY <1>1, InitCrash, NextCrash, PTL DEF CrashSpec, CallRepairsOrder

-----------------------------------------------------------------------------
\* Duplicates.  Sorting moves every record to a slot of its own, so it makes no
\* key double.
LEMMA QsortDoubled ==
  ASSUME NEW s \in [1 .. Room -> Record], NEW n \in 0 .. Room, NEW t \in Qsort(s, n)
  PROVE  Doubled(t, n) \subseteq Doubled(s, n)
  <1>1. PICK p \in Permutation(n) : t = Permuted(s, n, p)
    BY DEF Qsort
  <1>2. n \in Nat /\ \A i \in 1 .. n : i \in 1 .. Room /\ p[i] \in 1 .. n
    BY RoomAssumption DEF Permutation
  <1>3. \A i \in 1 .. n : t[i] = s[p[i]]
    BY <1>1, <1>2 DEF Permuted
  <1>4. \A i, j \in 1 .. n : p[i] = p[j] => i = j
    BY <1>2, PermutationInjective
  <1> QED BY <1>2, <1>3, <1>4 DEF Doubled

\* Nor does storing a record of a key that has none, overwriting one of the same
\* key, or closing the gap of a deleted one.
LEMMA StoredDoubled ==
  ASSUME TypeOK, NEW r \in Record, size < Room, Matches(r.key) = {}
  PROVE  Doubled(Stored(r), size + 1) \subseteq Doubled(slots, size)
  <1>1. /\ size \in Nat /\ Stored(r)[size + 1] = r
        /\ \A i \in 1 .. size : Stored(r)[i] = slots[i] /\ slots[i].key # r.key
    BY ArrayFacts DEF Matches
  <1>2. \A i \in 1 .. size + 1 : i \in 1 .. size \/ i = size + 1
    BY <1>1
  <1> QED BY <1>1, <1>2 DEF Doubled

LEMMA ReplacedDoubled ==
  ASSUME TypeOK, NEW r \in Record, NEW at \in 1 .. size, slots[at].key = r.key
  PROVE  Doubled(Replaced(at, r), size) \subseteq Doubled(slots, size)
  <1>1. \A i \in 1 .. size : Replaced(at, r)[i].key = slots[i].key
    BY ArrayFacts
  <1> QED BY <1>1 DEF Doubled

LEMMA ClosedDoubled ==
  ASSUME TypeOK, NEW at \in 1 .. size
  PROVE  Doubled(Closed(at), size - 1) \subseteq Doubled(slots, size)
  <1> DEFINE from(i) == IF i < at THEN i ELSE i + 1
  <1>1. size \in Nat /\ \A i \in 1 .. size - 1 : Closed(at)[i] = slots[from(i)]
    <2>1. size \in Nat /\ \A i \in 1 .. size : Closed(at)[i] = slots[IF i < at \/ i = size THEN i ELSE i + 1]
      BY ArrayFacts
    <2>2. \A i \in 1 .. size - 1 : i \in 1 .. size /\ i # size
      BY <2>1
    <2> QED BY <2>1, <2>2
  <1>2. /\ \A i \in 1 .. size - 1 : from(i) \in 1 .. size
        /\ \A i, j \in 1 .. size - 1 : from(i) = from(j) => i = j
    BY <1>1
  <1> HIDE DEF from
  <1> QED BY <1>1, <1>2 DEF Doubled

LEMMA CreateDoubled ==
  ASSUME TypeOK, SortedInv, NEW r \in Record, Create(r)
  PROVE  Doubled(slots', size') \subseteq Doubled(slots, size)
  <1>1. CASE UNCHANGED <<slots, size>>
    BY <1>1
  <1>2. CASE /\ 0 \in Bsearch(r.key) /\ size < Room
             /\ slots' \in Qsort(Stored(r), size + 1) /\ size' = size + 1
    <2>1. Matches(r.key) = {}
      <3>1. 0 \notin Matches(r.key)
        BY ArrayFacts DEF Matches
      <3> QED BY <1>2, <3>1 DEF Bsearch, SortedInv
    <2>2. Stored(r) \in [1 .. Room -> Record] /\ size + 1 \in 0 .. Room
      BY <1>2, ArrayFacts
    <2> QED BY <1>2, <2>1, <2>2, StoredDoubled, QsortDoubled
  <1> QED BY <1>1, <1>2 DEF Create

LEMMA NextDoubled ==
  ASSUME TypeOK, SortedInv, Next
  PROVE  Doubled(slots', size') \subseteq Doubled(slots, size)
  <1>1. ASSUME NEW k \in Key, Read(k)
        PROVE  Doubled(slots', size') \subseteq Doubled(slots, size)
    BY <1>1 DEF Read
  <1>2. ASSUME NEW r \in Record, Update(r)
        PROVE  Doubled(slots', size') \subseteq Doubled(slots, size)
    <2>1. PICK at \in Bsearch(r.key) :
            \/ at = 0 /\ Create(r)
            \/ at # 0 /\ slots' \in Qsort(Replaced(at, r), size) /\ size' = size
      BY <1>2 DEF Update
    <2>2. CASE at # 0 /\ slots' \in Qsort(Replaced(at, r), size) /\ size' = size
      <3>1. at \in 1 .. size /\ slots[at].key = r.key
        BY <2>2, SearchFacts
      <3>2. Replaced(at, r) \in [1 .. Room -> Record] /\ size \in 0 .. Room
        BY <3>1, ArrayFacts
      <3> QED BY <2>2, <3>1, <3>2, ReplacedDoubled, QsortDoubled
    <2> QED BY <2>1, <2>2, CreateDoubled
  <1>3. ASSUME NEW k \in Key, Delete(k)
        PROVE  Doubled(slots', size') \subseteq Doubled(slots, size)
    <2>1. PICK at \in Bsearch(k) :
            \/ UNCHANGED <<slots, size>>
            \/ at # 0 /\ slots' \in Qsort(Closed(at), size - 1) /\ size' = size - 1
      BY <1>3 DEF Delete
    <2>2. CASE at # 0 /\ slots' \in Qsort(Closed(at), size - 1) /\ size' = size - 1
      <3>1. at \in 1 .. size
        BY <2>2, SearchFacts
      <3>2. Closed(at) \in [1 .. Room -> Record] /\ size - 1 \in 0 .. Room
        BY <3>1, ArrayFacts
      <3> QED BY <2>2, <3>1, <3>2, ClosedDoubled, QsortDoubled
    <2> QED BY <2>1, <2>2
  <1> QED BY <1>1, <1>2, <1>3, CreateDoubled DEF Next

\* A complete call on a sorted table gives no key a second record, also when the
\* table already holds duplicates that interrupted calls left (bsearch in front of
\* every store of smtshm.c).
THEOREM DuplicateCorrect == CrashSpec => NoDuplicateFromOrder
  <1> DEFINE Keeps == ~crashed' /\ Sorted(slots, size) =>
                        Doubled(slots', size') \subseteq Doubled(slots, size)
  <1>1. CrashInv /\ [CrashNext]_crashVars => [Keeps]_crashVars
    BY NextDoubled DEF CrashInv, CrashNext, Call, Crash, SortedInv
  <1> QED BY <1>1, InitCrash, NextCrash, PTL DEF CrashSpec, NoDuplicateFromOrder
=============================================================================
