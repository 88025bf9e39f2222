---------------------------- MODULE MCQuoteBook ----------------------------
(***************************************************************************)
(* One option whose trades come on one channel and whose NBBO on another.  *)
(***************************************************************************)
EXTENDS QuoteBook

Trade(price, size, elig, change) ==
    [channel |-> "t", price |-> price, size |-> size, elig |-> elig, change |-> change]

Nbbo(sides, bid, ask) ==
    [channel |-> "q", sides |-> sides, bid |-> [price |-> bid, size |-> 1], ask |-> [price |-> ask, size |-> 1]]

MCTrades == {Trade(p, s, {"highlow"}, {"volume", "last"}) : p \in {1, 2}, s \in {1, 2}}
            \cup {Trade(3, 1, {}, {"last"}), Trade(2, 3, {"highlow", "close"}, {}),
                  Trade(1, 3, {"total", "open"}, {})}

MCNbbos == {Nbbo({"bid"}, b, 0) : b \in {1, 2}} \cup {Nbbo({"ask"}, 0, 3), Nbbo({"bid", "ask"}, 1, 2)}
=============================================================================
