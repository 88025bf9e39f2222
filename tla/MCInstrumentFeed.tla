-------------------------- MODULE MCInstrumentFeed --------------------------
(***************************************************************************)
(* Two families of one equity, one root and one option; one family with    *)
(* one option or with two.  Their locate codes change from day to day.     *)
(* Lists are in the order equities, roots, options.                        *)
(***************************************************************************)
EXTENDS InstrumentFeed

MCCorise == [a |-> "fA", b |-> "fB", c |-> "fB", d |-> None]

Def(product, symbol, locate, parent) ==
    [product |-> product, symbol |-> symbol, locate |-> locate, parent |-> parent]

\* The list of a day under an assignment p of locate codes.
TwoFamilies(p) == << Def("equity", "E1", p[1], 0), Def("equity", "E2", p[2], 0),
                     Def("root", "R1", p[3], p[1]), Def("root", "R2", p[4], p[2]),
                     Def("option", "a", p[5], p[3]), Def("option", "b", p[6], p[4]) >>

OneFamily(p) == << Def("equity", "E1", p[1], 0), Def("root", "R1", p[2], p[1]),
                   Def("option", "a", p[3], p[2]), Def("option", "b", p[4], p[2]) >>

\* b and c have the same corise symbol, d has none.
Clash(p) == << Def("equity", "E1", p[1], 0), Def("root", "R1", p[2], p[1]),
               Def("option", "c", p[3], p[2]), Def("option", "d", p[4], p[2]) >>

Assignments(n) == {p \in [1 .. n -> 1 .. n] : \A i, j \in 1 .. n : p[i] = p[j] => i = j}
Id(n) == [i \in 1 .. n |-> i]
Fixing(S, n) == {p \in Assignments(n) : \A i \in S : p[i] = i}

\* One option on three days, with any three of four locate codes on the second and
\* the equity's code of the first day on the third.
OneOption(p) == SubSeq(OneFamily(p), 1, 3)
ThreeDays ==
    {<<OneOption(Id(4)), OneOption(p), OneOption(q)>> : p \in Assignments(4), q \in Fixing({1}, 4)}

\* Two days on which the equities take the codes of the roots, or of the options,
\* and these theirs.
TwoDays == {<<TwoFamilies(Id(6)), TwoFamilies(p)>> :
              p \in {x \in Fixing({5, 6}, 6) \cup Fixing({3, 4}, 6) : {x[1], x[2]} \cap {1, 2} = {}}}

\* A second day with other options of the same names.
ClashDays == {<<OneFamily(Id(4)), Clash(p)>> : p \in Assignments(4)}

\* Three days on which the options change codes.
OptionsSwap == {<<OneFamily(Id(4)), OneFamily(p), OneFamily(q)>> : p, q \in Fixing({1, 2}, 4)}

MCPlans == ThreeDays \cup TwoDays \cup ClashDays \cup OptionsSwap

AnyCsv == {{"E1"}, {"E1", "E2"}}
=============================================================================
