---------------------------- MODULE SortedTable ----------------------------
(***************************************************************************)
(* One table of the shared segment (smtshm.c): an array of Room records of *)
(* which the first size are in use, kept sorted by key so that bsearch can *)
(* find one.  The four tables of the code - instruments, channel seconds,  *)
(* market centers, trades - are this one with different keys and orders;   *)
(* ShmSegment puts them together.                                          *)
(*                                                                         *)
(* bsearch and qsort are the C library's.  On a sorted array bsearch finds  *)
(* a record exactly when there is one; on an array that is not sorted it   *)
(* may miss one that is there (glibc's search halves the range).           *)
(***************************************************************************)
EXTENDS Naturals

CONSTANTS Key, Value, Room,
          Blank,            \* the record that memset leaves in a slot
          None,             \* NULL
          Before(_, _)      \* the order of the comparison function

ASSUME RoomAssumption == Room \in Nat

ASSUME RecordAssumption == Blank \in [key : Key, val : Value]

\* cmplocate, cmpcs, cmpmcl, cmptrade: a strict total order of the keys.
ASSUME OrderAssumption ==
    /\ \A a, b \in Key : Before(a, b) \in BOOLEAN
    /\ \A a \in Key : ~Before(a, a)
    /\ \A a, b \in Key : a = b \/ Before(a, b) \/ Before(b, a)
    /\ \A a, b, c \in Key : Before(a, b) /\ Before(b, c) => Before(a, c)

VARIABLES slots,        \* the array: inst_list, cs_list, mcl_list, trade_list
          size,         \* inst_size, cs_size, mcl_size, trade_size
          ret           \* what the last call returned: the value found or stored

vars == <<slots, size, ret>>

Record == [key : Key, val : Value]

Sorted(s, n) == \A i, j \in 1 .. n : i < j => ~Before(s[j].key, s[i].key)

Matches(k) == {i \in 1 .. size : slots[i].key = k}

\* The slots bsearch may return for a key, 0 for NULL.
Bsearch(k) ==
    IF Sorted(slots, size) /\ Matches(k) # {} THEN Matches(k) ELSE Matches(k) \cup {0}

Permutation(n) ==
    {p \in [1 .. n -> 1 .. n] : \A i \in 1 .. n : \E j \in 1 .. n : p[j] = i}

Permuted(s, n, p) == [i \in 1 .. Room |-> IF i \in 1 .. n THEN s[p[i]] ELSE s[i]]

\* A bug: the sort is left out.
QsortLeftOut(s, n) == {s}

\* The arrays qsort may turn the first n records of s into.
Qsort(s, n) == {t \in {Permuted(s, n, p) : p \in Permutation(n)} : Sorted(t, n)}

Init == /\ slots = [i \in 1 .. Room |-> Blank]
        /\ size = 0
        /\ ret = None

Read(k) == /\ \E at \in Bsearch(k) : ret' = IF at = 0 THEN None ELSE slots[at].val
           /\ UNCHANGED <<slots, size>>

\* The slots once a record is stored behind the last one.
Stored(r) == [slots EXCEPT ![size + 1] = r]

\* A bug: qsort comes before size += 1.
CreateSortsEarly(r) ==
    \/ \E at \in Bsearch(r.key) \ {0} : ret' = slots[at].val /\ UNCHANGED <<slots, size>>
    \/ 0 \in Bsearch(r.key) /\ size >= Room /\ ret' = None /\ UNCHANGED <<slots, size>>
    \/ /\ 0 \in Bsearch(r.key) /\ size < Room
       /\ slots' \in Qsort(Stored(r), size) /\ size' = size + 1 /\ ret' = r.val

Create(r) ==
    \E at \in Bsearch(r.key) :
      \/ /\ at # 0
         /\ ret' = slots[at].val
         /\ UNCHANGED <<slots, size>>
      \/ /\ at = 0 /\ size >= Room
         /\ ret' = None
         /\ UNCHANGED <<slots, size>>
      \/ /\ at = 0 /\ size < Room
         /\ slots' \in Qsort(Stored(r), size + 1)
         /\ size' = size + 1
         /\ ret' = r.val

\* The slots once the record at a position is overwritten.
Replaced(at, r) == [slots EXCEPT ![at] = r]

\* A bug: the record is stored without looking for the one that is there.
UpdateWithoutLookup(r) ==
    /\ size < Room
    /\ slots' \in Qsort(Stored(r), size + 1) /\ size' = size + 1 /\ ret' = r.val

Update(r) ==
    \E at \in Bsearch(r.key) :
      \/ at = 0 /\ Create(r)
      \/ /\ at # 0
         /\ slots' \in Qsort(Replaced(at, r), size)
         /\ ret' = r.val
         /\ UNCHANGED size

\* A bug: memmove is given one record too few.
ClosedTooShort(at) ==
    [i \in 1 .. Room |-> IF i \in at .. (size - 2) THEN slots[i + 1] ELSE slots[i]]

\* The slots once the records behind a position have moved over it; the last
\* one stays behind as a second copy.
Closed(at) == [i \in 1 .. Room |-> IF i \in at .. (size - 1) THEN slots[i + 1] ELSE slots[i]]

\* A bug: the size shrinks also when there is nothing to delete.
DeleteAlways(k) == ret' = None /\ size' = size - 1 /\ UNCHANGED slots

\* A bug: the size is left as it is.
DeleteKeepsSize(k) ==
    /\ ret' = None /\ UNCHANGED size
    /\ \E at \in Bsearch(k) :
         \/ at = 0 /\ UNCHANGED slots
         \/ at # 0 /\ slots' \in Qsort(Closed(at), size)

Delete(k) ==
    /\ ret' = None
    /\ \E at \in Bsearch(k) :
         \/ at = 0 /\ UNCHANGED <<slots, size>>
         \/ /\ at # 0
            /\ slots' \in Qsort(Closed(at), size - 1)
            /\ size' = size - 1

Next == \/ \E k \in Key : Read(k) \/ Delete(k)
        \/ \E r \in Record : Create(r) \/ Update(r)

Spec == Init /\ [][Next]_vars

-----------------------------------------------------------------------------
\* The variables have their types.
TypeOK == /\ slots \in [1 .. Room -> Record]
          /\ size \in 0 .. Room
          /\ ret \in Value \cup {None}

\* bsearch is only defined on a sorted array: after every call the records in
\* use are in the order of the comparison function.
SortedInv == Sorted(slots, size)

\* No key is stored twice, or a delete would uncover an old record and an
\* update would leave one behind.
UniqueKeys == \A i, j \in 1 .. size : slots[i].key = slots[j].key => i = j

\* glibc's bsearch of the slots r[1] + 1 .. r[2], which halves the range.
Halving(k) ==
    LET probe[r \in (0 .. Room) \X (0 .. Room)] ==
          LET m == (r[1] + r[2]) \div 2
          IN  IF r[1] >= r[2] THEN 0
              ELSE IF Before(k, slots[m + 1].key) THEN probe[<<r[1], m>>]
              ELSE IF Before(slots[m + 1].key, k) THEN probe[<<m + 1, r[2]>>]
              ELSE m + 1
    IN  probe[<<0, size>>]

\* glibc's search finds a record of the key exactly when there is one, on every
\* table the calls can build.
SearchFinds ==
    \A k \in Key : Halving(k) \in (IF Matches(k) = {} THEN {0} ELSE Matches(k))

\* The table is a map with room for Room entries, and every call returns what
\* the map would.
Keys == {slots[i].key : i \in 1 .. size}
Contents == [k \in Keys |-> slots[CHOOSE i \in 1 .. size : slots[i].key = k].val]
Map == INSTANCE TableMap WITH map <- Contents
MapSpec == Map!Spec
=============================================================================
