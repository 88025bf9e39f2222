------------------------------ MODULE TableMap ------------------------------
(***************************************************************************)
(* What a table of the shared segment promises its callers: it is a map of *)
(* at most Room entries.  A create does not replace an entry, an update    *)
(* does, and either is refused only when a new entry is needed and there   *)
(* are Room already.  Every call returns the value its caller may rely on. *)
(***************************************************************************)
EXTENDS Naturals, FiniteSets

CONSTANTS Key, Value, Room,
          None          \* what a call that finds or stores nothing returns

VARIABLES map,          \* a function on the keys present
          ret           \* what the last call returned

vars == <<map, ret>>

Full == Cardinality(DOMAIN map) >= Room

Present(k) == k \in DOMAIN map

Put(k, v) == map' = [x \in DOMAIN map \cup {k} |-> IF x = k THEN v ELSE map[x]]

Init == map = [k \in {} |-> None] /\ ret = None

Read(k) == /\ ret' = IF Present(k) THEN map[k] ELSE None
           /\ UNCHANGED map

Create(k, v) == \/ Present(k) /\ ret' = map[k] /\ UNCHANGED map
                \/ ~Present(k) /\ Full /\ ret' = None /\ UNCHANGED map
                \/ ~Present(k) /\ ~Full /\ ret' = v /\ Put(k, v)

Update(k, v) == \/ ~Present(k) /\ Full /\ ret' = None /\ UNCHANGED map
                \/ (Present(k) \/ ~Full) /\ ret' = v /\ Put(k, v)

Delete(k) == /\ map' = [x \in DOMAIN map \ {k} |-> map[x]]
             /\ ret' = None

Next == \E k \in Key : \/ Read(k) \/ Delete(k)
                       \/ \E v \in Value : Create(k, v) \/ Update(k, v)

Spec == Init /\ [][Next]_vars
=============================================================================
