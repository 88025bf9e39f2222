---------------------------- MODULE MCTableCrash ----------------------------
(***************************************************************************)
(* Interrupted calls on a table of three slots with three keys.            *)
(***************************************************************************)
EXTENDS TableCrash

MCBlank == [key |-> 0, val |-> "v1"]
MCBefore(a, b) == a < b
=============================================================================
