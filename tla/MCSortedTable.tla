--------------------------- MODULE MCSortedTable ---------------------------
(***************************************************************************)
(* One table of three slots, four keys and two values: it fills up, refuses *)
(* a record, and every key is inserted, replaced and deleted at the front,  *)
(* in the middle and at the end.                                            *)
(***************************************************************************)
EXTENDS SortedTable

MCBlank == [key |-> 0, val |-> "v1"]
MCBefore(a, b) == a < b
=============================================================================
