------------------------------ MODULE MCDecode ------------------------------
(***************************************************************************)
(* Messages in the format: a few values for every column that matters,     *)
(* both sides, all forms, appendage lists in several orders.               *)
(***************************************************************************)
EXTENDS Decode, TLC

Empty == << >>
Bytes4 == <<5, 6, 7, 8>>
M(name) == <<"message", name>>

\* A message of a type: the values named by of and column, 0 for other numbers.
Filled(t, values, list) ==
    [values |-> [i \in DOMAIN Columns(t) |->
         LET c == Columns(t)[i]
             key == <<c.of, c.name>>
             number == c.kind \in {"uint", "price", "side"}
         IN  [v |-> IF key = M("msgtype") THEN t
                    ELSE IF number /\ key \in DOMAIN values THEN values[key] ELSE 0,
              bytes |-> IF ~number /\ key \in DOMAIN values THEN values[key] ELSE Empty,
              len |-> IF number THEN c.len ELSE 0]],
     list |-> list]

E(code, format, bytes, v, len) ==
    [code |-> code, format |-> format, bytes |-> bytes, v |-> v, len |-> len]

System == Filled(\h20, (M("timestamp") :> 9) @@ (M("event_code") :> Bytes4), Empty)
ChannelSeconds(p, c, s) ==
    Filled(\h22, (M("protocol_id") :> p) @@ (M("channel_index") :> c) @@ (M("seconds") :> s), Empty)
Center(l, list) == Filled(\h30, (M("locate_code") :> l) @@ (M("MIC") :> Bytes4), list)

\* The elements of a value update, in a message the decoder knows.
Prices == <<65, 66, 67, 68, 71, 73, 74, 75, 100>>
Values == [i \in DOMAIN Prices |-> E(Prices[i], 1 + (i % 2), Empty, -100 * i, 2 + (2 * (i % 2)))]
          \o << E(70, 8, Empty, 500, 2), E(72, 9, Empty, 600, 4) >>

\* An option: its appendage elements in a given order, others between them.
Elements == << E(1, 15, <<7, 8, 9>>, 0, 0), E(4, 3, <<3>>, -25, 4), E(3, 16, <<2, 14>>, 2024, 2),
               E(81, 9, Empty, 77, 4), E(2, 22, <<80>>, 0, 0), E(255, 7, <<1, 1>>, 0, 0) >>
Option(symbol, list) ==
    Filled(\h33, (M("locate_code") :> 70000) @@ (M("country_code") :> <<1, 2>>)
                 @@ (M("currency_code") :> <<3, 4, 5>>) @@ (M("MIC") :> Bytes4) @@ (M("product_type") :> 2)
                 @@ (M("symbol_length") :> Len(symbol)) @@ (M("symbol") :> symbol), list)
Orders == {o \in [1 .. 6 -> 1 .. 6] : \A i, j \in 1 .. 6 : o[i] = o[j] => i = j}

\* A value update as such, of a type the decoder does not take.
ValueUpdate == [values |-> << [v |-> \h80, bytes |-> Empty, len |-> 1],
                             [v |-> 0, bytes |-> Bytes4, len |-> 0] >>, list |-> Empty]

Depth4(of, p, d, s) == (<<of, "center">> :> 4) @@ (<<of, "price">> :> p) @@ (<<of, "size">> :> s)
                       @@ (IF d = 0 THEN Empty ELSE <<of, "denominator">> :> d)
Quoted == (M("protocol_id") :> 51) @@ (M("channel_index") :> 2) @@ (M("upstream_seqn") :> 1000)
          @@ (M("upstream_nanos") :> 5) @@ (M("instrument_locate") :> 9) @@ (M("flags") :> 1)

\* The places that the extended form sends.
Sending(t, d) == IF SentForm(t) = "extended" THEN d ELSE 0
TwoSides(t, p, q, d, s) ==
    Filled(t, Quoted @@ Depth4("bid", p, Sending(t, d), s) @@ Depth4("ask", q, Sending(t, d), s + 1), Empty)
OneSide(t, code, p, d, s) ==
    Filled(t, Quoted @@ Depth4("given", p, Sending(t, d), s) @@ (<<"given", "side">> :> code), Empty)

\* An element whose length has its top bit set, of a type the decoder copies.
LongRoot == Option(<<1>>, << E(1, 15, [i \in 1 .. 130 |-> 65], 0, 0) >>)

\* Elements of a type it does not know: 253 bytes take the cursor back to the
\* element, 247 to the one in front of it.  And a symbol of 128 bytes.
Long(n) == E(255, 15, [i \in 1 .. n |-> 65], 0, 0)
Loops == {Center(5, << Long(253) >>), Center(5, << E(255, 15, <<1, 2, 3>>, 0, 0), Long(247) >>)}
LongSymbol == Option([i \in 1 .. 128 |-> 65], Empty)

\* Numbers with their top bit set, and negative prices of eight bytes, which is
\* what shift changes.
Highs == {ChannelSeconds(51, c, 7) : c \in {128, 200, 255}}
         \cup {Center(l, Empty) : l \in {32768, 40000, 65535}}
         \cup {OneSide(t, code, 5, 2, s) : t \in {\h63, \h64}, code \in {CodeB, CodeS}, s \in {32768, 65535}}
         \cup {OneSide(\h65, code, p, 2, 9) : code \in {CodeB, CodeS}, p \in {-1, -5, -300}}

Good == Highs \cup {System, Center(300, Empty), Center(300, Values), ValueUpdate, LongRoot, LongSymbol}
        \cup Loops
        \cup {ChannelSeconds(p, c, s) : p \in {51, 52}, c \in {0, 127}, s \in {0, 86399}}
        \cup {Option(symbol, [i \in 1 .. 6 |-> Elements[o[i]]]) : symbol \in {<<1>>, <<1, 2, 3>>}, o \in Orders}
        \cup {TwoSides(t, p, q, d, s) : t \in \h60 .. \h62, p \in {1, 700}, q \in {2, 300}, d \in {2, 3},
                                        s \in {0, 400}}
        \cup {OneSide(t, code, p, d, s) : t \in \h63 .. \h65, code \in {CodeB, CodeS}, p \in {1, 700},
                                          d \in {2, 3}, s \in {0, 400}}
        \cup {OneSide(t, code, -5, 2, 1) : t \in {\h63, \h64}, code \in {CodeB, CodeS}}

\* A trade with a market center of two bytes.
Trade(t, p, s) ==
    Filled(t, Quoted @@ (M("market_center_locate") :> 4) @@ (M("trade_id") :> 1234)
              @@ (IF SentForm(t) = "extended" THEN M("denominator") :> 3 ELSE Empty)
              @@ (M("price") :> p) @@ (M("size") :> s) @@ (M("eligibility_flags") :> 40)
              @@ (M("report_flags") :> 1) @@ (M("change_flags") :> 10) @@ (M("cancel_flags") :> 10), Empty)
Trades == {Trade(t, 25, 6) : t \in \h70 .. \h73}
=============================================================================
