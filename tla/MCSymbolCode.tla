---------------------------- MODULE MCSymbolCode ----------------------------
(***************************************************************************)
(* The options that expire from 2019 on, with two strikes that differ in   *)
(* the third decimal and two that differ in the second, printed with two.  *)
(***************************************************************************)
EXTENDS SymbolCode

\* January 1, 2019 was a Tuesday.
From2019 == {[year |-> 2019, month |-> 1, mday |-> 1, wday |-> 2, first |-> 2]}
ThreeStrikes == <<25000, 25040, 25100>>
=============================================================================
