----------------------------- MODULE TableCrash -----------------------------
(***************************************************************************)
(* A table of the shared segment when smtfep is ended in the middle of a   *)
(* call: stopit calls exit from the signal handler, whatever the handler   *)
(* interrupted, and initsmt attaches the segment as it was left, because   *)
(* main passes clr = 0.  The signal may come between two statements of     *)
(* createX, updateX and deleteX, and inside memcpy, memmove and qsort:     *)
(* these may then have left in each slot they write some other record, the *)
(* same record as in another slot, or bytes of several records.            *)
(***************************************************************************)
EXTENDS SortedTable

VARIABLE crashed    \* the last step was an interrupted call

crashVars == <<slots, size, ret, crashed>>

\* What memcpy, memmove or qsort may leave of the array when it is interrupted
\* while it writes the slots I: there any record, since a record may be torn
\* anywhere, also inside its key; the other slots are as they were.
Torn(I) == {s \in [1 .. Room -> Record] : \A i \in (1 .. Room) \ I : s[i] = slots[i]}

\* A bug: memcpy comes before the check that there is room.
CrashInCreateUnchecked(r) ==
    /\ 0 \in Bsearch(r.key)
    /\ slots' = [i \in 1 .. size + 1 |-> IF i <= size THEN slots[i] ELSE r]
    /\ size' \in {size, size + 1}

\* createX inside memcpy or before size += 1; or behind that, until qsort is done.
CrashInCreate(r) ==
    /\ 0 \in Bsearch(r.key) /\ size < Room
    /\ \/ slots' \in Torn({size + 1}) /\ UNCHANGED size
       \/ slots' \in Torn(1 .. size + 1) /\ size' = size + 1

\* updateX inside memcpy, or behind it until qsort is done.
CrashInUpdate(r) ==
    /\ \E at \in Bsearch(r.key) \ {0} : slots' \in Torn({at}) \cup Torn(1 .. size)
    /\ UNCHANGED size

\* deleteX inside memmove or before size -= 1; or behind that, until qsort is done.
CrashInDelete(k) ==
    \E at \in Bsearch(k) \ {0} :
      \/ slots' \in Torn(at .. size - 1) /\ UNCHANGED size
      \/ slots' \in Torn(1 .. size - 1) /\ size' = size - 1

\* A call of the table is interrupted before it returns.
Interrupted == \/ \E r \in Record : CrashInCreate(r) \/ CrashInUpdate(r)
               \/ \E k \in Key : CrashInDelete(k)

\* The process is ended by a signal and started again on the same segment.
Crash == Interrupted /\ crashed' = TRUE /\ ret' = None

Call == Next /\ crashed' = FALSE

CrashInit == Init /\ crashed = FALSE
CrashNext == Call \/ Crash

CrashSpec == CrashInit /\ [][CrashNext]_crashVars

-----------------------------------------------------------------------------
\* The types hold however often calls are interrupted: in particular size never
\* leaves the array.
CrashTypeOK == TypeOK /\ crashed \in BOOLEAN

\* A call that changes the table leaves it sorted, also a table that a crash left
\* unsorted: the disorder lasts until the next create, update or delete of any key.
CallRepairsOrder ==
    [][~crashed' /\ slots' # slots => Sorted(slots', size')]_crashVars

\* The keys that more than one of the first n records of s have.
Doubled(s, n) == {k \in Key : \E i, j \in 1 .. n : i # j /\ s[i].key = k /\ s[j].key = k}

\* No complete call on a sorted table gives a key a second record, also when
\* interrupted calls left duplicates of other keys in it: a duplicate comes only
\* from an interrupted call, or from a create or update that meets the disorder
\* one left.
NoDuplicateFromOrder ==
    [][~crashed' /\ Sorted(slots, size) =>
         Doubled(slots', size') \subseteq Doubled(slots, size)]_crashVars
=============================================================================
