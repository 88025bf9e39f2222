-------------------------- MODULE QuoteBookProofs --------------------------
(***************************************************************************)
(* Proofs about QuoteBook, for every set of trade and NBBO messages, every *)
(* set of seconds and every bound of the exploration.                      *)
(***************************************************************************)
EXTENDS QuoteBook, FiniteSetTheorems, SequenceTheorems, TLAPS

\* The quote of a folder, with every field it has.
Quote == [last : Numbers, open : Numbers, high : Numbers, low : Numbers, setp : Numbers,
          tvol : Numbers, evol : Nat, seqn : Nat, tymd : 0 .. MaxDays, stamp : Nat,
          bid : Bests("bid"), ask : Bests("ask")]

Depth == [bid : Bests("bid"), ask : Bests("ask"), stamp : Nat]

TimeInv == /\ day \in 1 .. MaxDays /\ file \in 1 .. MaxFiles
           /\ second \in [Channels -> Seconds \cup {-1}]

SecsInv == /\ DOMAIN secs \subseteq Channels /\ IsFiniteSet(DOMAIN secs)
           /\ Cardinality(DOMAIN secs) <= MAX_CHANNEL
           /\ \A c \in DOMAIN secs : secs[c] \in Seconds

\* A trade adds at most one to the number within a time, so the number stays
\* within the trades applied.
BookInv == /\ quote \in Quote /\ dept \in Depth
           /\ settled \in Numbers /\ fed \subseteq {"QUOT", "DEPT", "SETT"}
           /\ trades \in Seq(Trades) /\ nbbos \in Seq(Nbbos)
           /\ Len(trades) + Len(nbbos) <= MaxHandled /\ quote.seqn <= Len(trades)

\* What was published last is what the folder holds.
PublishedInv == published = dept

TypeInv == TimeInv /\ SecsInv /\ BookInv /\ PublishedInv

LEMMA NumbersAreNat == Numbers \subseteq Nat /\ 0 \in Numbers
  BY BookAssumption DEF Numbers

LEMMA TradeNumbers ==
  ASSUME NEW t \in Trades
  PROVE  t.price \in Numbers /\ t.size \in Numbers /\ t.price \in Nat \ {0} /\ t.size \in Nat
  BY BookAssumption DEF Numbers

LEMMA InitType == Init => TypeInv
  <1> SUFFICES ASSUME Init PROVE TypeInv
    OBVIOUS
  <1>1. TimeInv
    BY BookAssumption DEF Init, TimeInv
  <1>2. SecsInv
    <2>1. secs = [c \in {} |-> 0]
      BY DEF Init
    <2>2. DOMAIN secs = {}
      BY <2>1
    <2> QED BY <2>2, FS_EmptySet, BookAssumption DEF SecsInv
  <1>3. BookInv /\ PublishedInv
    <2>1. NoBest \in Bests("bid") /\ NoBest \in Bests("ask")
      BY DEF Bests
    <2>2. 0 \in Numbers /\ 0 \in 0 .. MaxDays /\ MaxHandled \in Nat
      BY NumbersAreNat, BookAssumption
    <2>3. trades = << >> /\ nbbos = << >>
      BY DEF Init
    <2>4. trades \in Seq(Trades) /\ nbbos \in Seq(Nbbos) /\ Len(trades) = 0 /\ Len(nbbos) = 0
      BY <2>3
    <2>5. quote \in Quote /\ quote.seqn = 0
      BY <2>1, <2>2 DEF Init, Quote
    <2>6. dept \in Depth /\ published = dept /\ settled = 0 /\ fed = {}
      BY <2>1 DEF Init, Depth
    <2> QED BY <2>2, <2>4, <2>5, <2>6 DEF BookInv, PublishedInv
  <1> QED BY <1>1, <1>2, <1>3 DEF TypeInv

-----------------------------------------------------------------------------
\* Each part of a trade keeps the type of the quote and changes what it says.
LEMMA VolumeFacts ==
  ASSUME NEW t \in Trades, NEW q \in Quote, ~("volume" \in t.change /\ t.size <= q.tvol)
  PROVE  WithVolume(t, q) \in Quote /\ WithVolume(t, q).high = q.high
         /\ WithVolume(t, q).seqn = q.seqn /\ WithVolume(t, q).stamp = q.stamp
  <1>1. CASE "volume" \in t.change
    <2>1. q.tvol \in Nat /\ t.size \in Nat /\ t.size \in Numbers
      BY NumbersAreNat, TradeNumbers DEF Quote
    <2>2. t.size - q.tvol \in Nat
      BY <1>1, <2>1
    <2> QED BY <1>1, <2>1, <2>2 DEF WithVolume, Quote
  <1>2. CASE "volume" \notin t.change
    BY <1>2 DEF WithVolume
  <1> QED BY <1>1, <1>2

LEMMA LastFacts ==
  ASSUME NEW t \in Trades, NEW q \in Quote
  PROVE  WithLast(t, q) \in Quote /\ WithLast(t, q).high = q.high
         /\ WithLast(t, q).seqn = q.seqn /\ WithLast(t, q).stamp = q.stamp
  BY TradeNumbers DEF WithLast, Quote

LEMMA StampType ==
  ASSUME TimeInv, SecsInv, NEW c \in DOMAIN secs
  PROVE  Stamp(c) \in Nat
  <1>1. day \in Nat /\ secs[c] \in Nat
    <2>1. MaxDays \in Nat /\ \A s \in Seconds : s \in Nat
      BY BookAssumption
    <2> QED BY <2>1 DEF TimeInv, SecsInv
  <1> QED BY <1>1 DEF Stamp, gettime_from_mid_sec, Midnight

LEMMA TimeFacts ==
  ASSUME TimeInv, SecsInv, NEW t \in Trades, t.channel \in DOMAIN secs, NEW q \in Quote
  PROVE  WithTime(t, q) \in Quote /\ WithTime(t, q).high = q.high
         /\ WithTime(t, q).seqn <= q.seqn + 1 /\ WithTime(t, q).stamp = Stamp(t.channel)
         /\ WithTime(t, q).seqn = IF q.stamp = Stamp(t.channel) THEN q.seqn + 1 ELSE 0
  <1> DEFINE seqn == IF q.stamp = Stamp(t.channel) THEN q.seqn + 1 ELSE 0
             tymd == IF q.tymd < day THEN day ELSE q.tymd
             stamp == Stamp(t.channel)
  <1>1. stamp \in Nat
    BY StampType
  <1>2. q.seqn \in Nat /\ q.tymd \in 0 .. MaxDays /\ day \in 0 .. MaxDays
    BY BookAssumption DEF TimeInv, Quote
  <1>3. seqn \in Nat /\ seqn <= q.seqn + 1 /\ tymd \in 0 .. MaxDays
    BY <1>2
  <1>4. WithTime(t, q) = [q EXCEPT !.seqn = seqn, !.tymd = tymd, !.stamp = stamp]
    BY DEF WithTime
  <1>5. /\ WithTime(t, q) \in Quote /\ WithTime(t, q).high = q.high
        /\ WithTime(t, q).seqn = seqn /\ WithTime(t, q).stamp = stamp
    <2> HIDE DEF seqn, tymd, stamp
    <2> QED BY <1>1, <1>3, <1>4 DEF Quote
  <1> QED BY <1>3, <1>5

LEMMA PriceFacts ==
  ASSUME NEW t \in Trades, NEW q \in Quote
  PROVE  /\ WithOpen(t, q) \in Quote /\ WithOpen(t, q).high = q.high
         /\ WithOpen(t, q).seqn = q.seqn /\ WithOpen(t, q).stamp = q.stamp
         /\ WithLow(t, q) \in Quote /\ WithLow(t, q).high = q.high
         /\ WithLow(t, q).seqn = q.seqn /\ WithLow(t, q).stamp = q.stamp
         /\ WithHigh(t, q) \in Quote /\ WithHigh(t, q).seqn = q.seqn
         /\ WithHigh(t, q).stamp = q.stamp
         /\ WithHigh(t, q).high = IF q.high < t.price /\ "highlow" \in t.elig
                                  THEN t.price ELSE q.high
  <1>1. t.price \in Numbers
    BY TradeNumbers
  <1> QED BY <1>1 DEF WithOpen, WithLow, WithHigh, Quote

\* The quote that a trade leaves.
LEMMA TradedFacts ==
  ASSUME TypeInv, NEW t \in Trades, t.channel \in DOMAIN secs, ~Counted(t)
  PROVE  /\ Traded(t) \in Quote /\ Traded(t).seqn <= quote.seqn + 1
         /\ Traded(t).stamp = Stamp(t.channel)
         /\ Traded(t).seqn = IF quote.stamp = Stamp(t.channel) THEN quote.seqn + 1 ELSE 0
         /\ Traded(t).high = IF quote.high < t.price /\ "highlow" \in t.elig
                             THEN t.price ELSE quote.high
  <1> DEFINE v == WithVolume(t, quote)
             l == WithLast(t, v)
             m == WithTime(t, l)
             o == WithOpen(t, m)
             h == WithHigh(t, o)
  <1>1. v \in Quote /\ v.high = quote.high /\ v.seqn = quote.seqn /\ v.stamp = quote.stamp
    BY VolumeFacts DEF TypeInv, BookInv, Counted
  <1> HIDE DEF v
  <1>2. l \in Quote /\ l.high = quote.high /\ l.seqn = quote.seqn /\ l.stamp = quote.stamp
    BY <1>1, LastFacts
  <1> HIDE DEF l
  <1>3. /\ m \in Quote /\ m.high = quote.high /\ m.seqn <= quote.seqn + 1
        /\ m.stamp = Stamp(t.channel)
        /\ m.seqn = IF quote.stamp = Stamp(t.channel) THEN quote.seqn + 1 ELSE 0
    BY <1>2, TimeFacts DEF TypeInv
  <1> HIDE DEF m
  <1>4. o \in Quote /\ o.high = quote.high /\ o.seqn = m.seqn /\ o.stamp = m.stamp
    BY <1>3, PriceFacts
  <1> HIDE DEF o
  <1>5. h \in Quote /\ h.seqn = m.seqn /\ h.stamp = m.stamp
        /\ h.high = IF quote.high < t.price /\ "highlow" \in t.elig THEN t.price ELSE quote.high
    BY <1>4, PriceFacts
  <1> HIDE DEF h
  <1>6. /\ WithLow(t, h) \in Quote /\ WithLow(t, h).high = h.high
        /\ WithLow(t, h).seqn = h.seqn /\ WithLow(t, h).stamp = h.stamp
    BY <1>5, PriceFacts
  <1>7. Traded(t) = WithLow(t, h)
    BY DEF Traded, h, o, m, l, v
  <1> QED BY <1>3, <1>5, <1>6, <1>7

-----------------------------------------------------------------------------
\* A change of the Channel Seconds table.
LEMMA UpdateCsFacts ==
  ASSUME TypeInv, NEW c \in Channels, NEW s \in Seconds, UpdateCs(c, s)
  PROVE  SecsInv'
  <1>1. /\ DOMAIN secs \subseteq Channels /\ IsFiniteSet(DOMAIN secs)
        /\ Cardinality(DOMAIN secs) <= MAX_CHANNEL /\ MAX_CHANNEL \in Nat
        /\ \A x \in DOMAIN secs : secs[x] \in Seconds
    BY BookAssumption DEF TypeInv, SecsInv
  <1>2. CASE c \in DOMAIN secs \/ Cardinality(DOMAIN secs) < MAX_CHANNEL
    <2>1. secs' = [x \in DOMAIN secs \cup {c} |-> IF x = c THEN s ELSE secs[x]]
      BY <1>2 DEF UpdateCs
    <2>2. IsFiniteSet(DOMAIN secs \cup {c}) /\ Cardinality(DOMAIN secs) \in Nat
          /\ Cardinality(DOMAIN secs \cup {c})
               = IF c \in DOMAIN secs THEN Cardinality(DOMAIN secs) ELSE Cardinality(DOMAIN secs) + 1
      BY <1>1, FS_AddElement, FS_CardinalityType
    <2>3. Cardinality(DOMAIN secs \cup {c}) <= MAX_CHANNEL
      BY <1>1, <1>2, <2>2
    <2>4. DOMAIN secs' = DOMAIN secs \cup {c}
      BY <2>1
    <2>5. \A x \in DOMAIN secs' : secs'[x] \in Seconds
      BY <1>1, <2>1
    <2> QED BY <1>1, <2>2, <2>3, <2>4, <2>5 DEF SecsInv
  <1>3. CASE ~(c \in DOMAIN secs \/ Cardinality(DOMAIN secs) < MAX_CHANNEL)
    BY <1>1, <1>3 DEF UpdateCs, SecsInv
  <1> QED BY <1>2, <1>3

LEMMA BookStays ==
  UNCHANGED <<quote, dept, settled, published, trades, nbbos>> /\ fed' = {}
  /\ BookInv /\ PublishedInv => BookInv' /\ PublishedInv'
  BY DEF BookInv, PublishedInv

LEMMA SecondsType ==
  ASSUME TypeInv, NEW c \in Channels, NEW s \in Seconds, ChannelSeconds(c, s) \/ SecondsLost(c, s)
  PROVE  TypeInv'
  <1>1. /\ second' = [second EXCEPT ![c] = s] /\ UNCHANGED <<day, file>> /\ fed' = {}
        /\ UNCHANGED <<quote, dept, settled, published, trades, nbbos>>
        /\ UpdateCs(c, s) \/ UNCHANGED secs
    BY DEF ChannelSeconds, SecondsLost
  <1>2. TimeInv'
    BY <1>1 DEF TypeInv, TimeInv
  <1>3. SecsInv'
    BY <1>1, UpdateCsFacts DEF TypeInv, SecsInv
  <1>4. BookInv' /\ PublishedInv'
    BY <1>1, BookStays DEF TypeInv
  <1> QED BY <1>2, <1>3, <1>4 DEF TypeInv

\* A trade that is applied, published or not.
LEMMA TradeApplied ==
  ASSUME TypeInv, NEW t \in Trades, Handles(t), ~Counted(t),
         quote' \in Quote, quote'.seqn = Traded(t).seqn,
         trades' = Append(trades, t), fed' \in {{}, {"QUOT"}},
         UNCHANGED <<nbbos, settled, dept, published>>
  PROVE  TypeInv'
  <1>1. TimeInv' /\ SecsInv' /\ PublishedInv'
    BY DEF Handles, TypeInv, TimeInv, SecsInv, PublishedInv
  <1>2. /\ trades \in Seq(Trades) /\ nbbos \in Seq(Nbbos)
        /\ quote.seqn \in Nat /\ quote.seqn <= Len(trades)
        /\ Len(trades) + Len(nbbos) < MaxHandled
    BY DEF TypeInv, BookInv, Handles, Quote
  <1>3. Traded(t).seqn \in Nat /\ Traded(t).seqn <= quote.seqn + 1
    BY TradedFacts DEF Handles, Quote
  <1>4. /\ trades' \in Seq(Trades) /\ Len(trades') = Len(trades) + 1
        /\ Len(trades) \in Nat /\ Len(nbbos) \in Nat /\ MaxHandled \in Nat
    BY <1>2, BookAssumption
  <1>5. quote'.seqn <= Len(trades') /\ Len(trades') + Len(nbbos') <= MaxHandled
    BY <1>2, <1>3, <1>4
  <1> QED BY <1>1, <1>4, <1>5 DEF TypeInv, BookInv

LEMMA ClosesFacts ==
  ASSUME TypeInv, NEW t \in Trades, TradeCloses(t)
  PROVE  /\ TypeInv' /\ quote'.high = Traded(t).high
         /\ quote'.seqn = Traded(t).seqn /\ quote'.stamp = Traded(t).stamp
  <1>1. /\ Handles(t) /\ ~Counted(t) /\ trades' = Append(trades, t) /\ fed' = {}
        /\ UNCHANGED <<nbbos, settled, dept, published>>
        /\ quote' = [Traded(t) EXCEPT !.setp = t.price]
    BY DEF TradeCloses, Quietly
  <1>2. Traded(t) \in Quote
    BY <1>1, TradedFacts DEF Handles
  <1>3. /\ quote' \in Quote /\ quote'.high = Traded(t).high
        /\ quote'.seqn = Traded(t).seqn /\ quote'.stamp = Traded(t).stamp
    BY <1>1, <1>2, TradeNumbers DEF Quote
  <1> QED BY <1>1, <1>3, TradeApplied

LEMMA PublishedFacts ==
  ASSUME TypeInv, NEW t \in Trades, TradePublished(t)
  PROVE  /\ TypeInv' /\ quote'.high = Traded(t).high
         /\ quote'.seqn = Traded(t).seqn /\ quote'.stamp = Traded(t).stamp
         /\ quote'.bid = dept.bid /\ quote'.ask = dept.ask
  <1> DEFINE q == IF "total" \in t.elig THEN [Traded(t) EXCEPT !.tvol = t.size] ELSE Traded(t)
  <1>1. /\ Handles(t) /\ ~Counted(t) /\ trades' = Append(trades, t) /\ fed' = {"QUOT"}
        /\ UNCHANGED <<nbbos, settled, dept, published>>
        /\ quote' = [q EXCEPT !.bid = dept.bid, !.ask = dept.ask]
    BY DEF TradePublished, smt_push
  <1>2. Traded(t) \in Quote
    BY <1>1, TradedFacts DEF Handles
  <1>3. q \in Quote /\ q.seqn = Traded(t).seqn /\ q.high = Traded(t).high
        /\ q.stamp = Traded(t).stamp
    BY <1>2, TradeNumbers DEF Quote
  <1>4. dept.bid \in Bests("bid") /\ dept.ask \in Bests("ask")
    BY DEF TypeInv, BookInv, Depth
  <1> HIDE DEF q
  <1>5. quote' \in Quote /\ quote'.seqn = q.seqn /\ quote'.high = q.high
        /\ quote'.stamp = q.stamp
        /\ quote'.bid = dept.bid /\ quote'.ask = dept.ask
    BY <1>1, <1>3, <1>4 DEF Quote
  <1> QED BY <1>1, <1>3, <1>5, TradeApplied

LEMMA NbboFacts ==
  ASSUME TypeInv, NEW n \in Nbbos, smt_nbbo(n)
  PROVE  TypeInv' /\ published' = Shown(n) /\ UNCHANGED <<quote, trades>>
  <1>1. /\ Handles(n) /\ nbbos' = Append(nbbos, n) /\ fed' = {"DEPT"}
        /\ UNCHANGED <<trades, settled, quote>>
        /\ dept' = Shown(n) /\ published' = Shown(n)
    BY DEF smt_nbbo, smt_push
  <1>2. TimeInv' /\ SecsInv' /\ PublishedInv'
    BY <1>1 DEF Handles, TypeInv, TimeInv, SecsInv, PublishedInv
  <1>3. dept' \in Depth
    <2>1. n.bid \in Bests("bid") /\ n.ask \in Bests("ask")
      BY DEF Bests
    <2>2. dept.bid \in Bests("bid") /\ dept.ask \in Bests("ask")
      BY DEF TypeInv, BookInv, Depth
    <2>3. Stamp(n.channel) \in Nat
      BY <1>1, StampType DEF TypeInv, Handles
    <2> QED BY <1>1, <2>1, <2>2, <2>3 DEF Shown, Depth
  <1>4. /\ trades \in Seq(Trades) /\ nbbos \in Seq(Nbbos)
        /\ Len(trades) + Len(nbbos) < MaxHandled
    BY <1>1 DEF TypeInv, BookInv, Handles
  <1>5. /\ nbbos' \in Seq(Nbbos) /\ Len(nbbos') = Len(nbbos) + 1
        /\ Len(trades) \in Nat /\ Len(nbbos) \in Nat /\ MaxHandled \in Nat
    BY <1>1, <1>4, BookAssumption
  <1>6. Len(trades') + Len(nbbos') <= MaxHandled
    BY <1>1, <1>4, <1>5
  <1> QED BY <1>1, <1>2, <1>3, <1>5, <1>6 DEF TypeInv, BookInv

\* The steps that apply no message.
LEMMA OthersFacts ==
  ASSUME TypeInv,
         \/ \E c \in Channels, s \in Seconds : ChannelSeconds(c, s) \/ SecondsLost(c, s)
         \/ \E t \in Trades : TradeDropped(t)
         \/ NextDay \/ NextFile \/ UNCHANGED vars
  PROVE  TypeInv' /\ UNCHANGED <<quote, published, trades, nbbos>>
  <1>1. ASSUME NEW c \in Channels, NEW s \in Seconds, ChannelSeconds(c, s) \/ SecondsLost(c, s)
        PROVE  TypeInv' /\ UNCHANGED <<quote, published, trades, nbbos>>
    BY <1>1, SecondsType DEF ChannelSeconds, SecondsLost
  <1>2. ASSUME NEW t \in Trades, TradeDropped(t)
        PROVE  TypeInv' /\ UNCHANGED <<quote, published, trades, nbbos>>
    <2>1. /\ UNCHANGED <<quote, dept, settled, published, trades, nbbos>> /\ fed' = {}
          /\ UNCHANGED <<day, file, second, secs>>
      BY <1>2 DEF TradeDropped, Quietly, Handles
    <2> QED BY <2>1, BookStays DEF TypeInv, TimeInv, SecsInv
  <1>3. CASE NextDay
    <2>1. /\ UNCHANGED <<quote, dept, settled, published, trades, nbbos>> /\ fed' = {}
          /\ UNCHANGED <<file, second, secs>> /\ day' = day + 1 /\ day < MaxDays
      BY <1>3 DEF NextDay
    <2>2. TimeInv'
      BY <2>1, BookAssumption DEF TypeInv, TimeInv
    <2> QED BY <2>1, <2>2, BookStays DEF TypeInv, SecsInv
  <1>4. CASE NextFile
    <2>1. /\ UNCHANGED <<quote, dept, settled, published, trades, nbbos>> /\ fed' = {}
          /\ UNCHANGED <<day, secs>> /\ file' = file + 1 /\ file < MaxFiles
          /\ second' = [c \in Channels |-> -1]
      BY <1>4 DEF NextFile
    <2>2. TimeInv'
      BY <2>1, BookAssumption DEF TypeInv, TimeInv
    <2> QED BY <2>1, <2>2, BookStays DEF TypeInv, SecsInv
  <1>5. CASE UNCHANGED vars
    BY <1>5 DEF vars, TypeInv, TimeInv, SecsInv, BookInv, PublishedInv
  <1> QED BY <1>1, <1>2, <1>3, <1>4, <1>5

LEMMA NextType == TypeInv /\ [Next]_vars => TypeInv'
  BY ClosesFacts, PublishedFacts, NbboFacts, OthersFacts DEF Next

\* The variables have their types.
THEOREM TypeCorrect == Spec => []TypeOK
  <1>1. TypeInv => TypeOK
    <2> SUFFICES ASSUME TypeInv PROVE TypeOK
      OBVIOUS
    <2>1. quote.seqn \in 0 .. MaxHandled
      <3>1. /\ quote.seqn \in Nat /\ quote.seqn <= Len(trades)
            /\ Len(trades) \in Nat /\ Len(nbbos) \in Nat /\ Len(trades) + Len(nbbos) <= MaxHandled
        BY DEF TypeInv, BookInv, Quote
      <3> QED BY <3>1, BookAssumption
    <2> QED BY <2>1 DEF TypeInv, TimeInv, SecsInv, BookInv, Quote, Depth, TypeOK
  <1> QED BY <1>1, InitType, NextType, PTL DEF Spec

\* The steps of Next, as the lemmas above divide them.
LEMMA NextSteps ==
  ASSUME [Next]_vars
  PROVE  \/ \E t \in Trades : TradeCloses(t) \/ TradePublished(t)
         \/ \E n \in Nbbos : smt_nbbo(n)
         \/ \/ \E c \in Channels, s \in Seconds : ChannelSeconds(c, s) \/ SecondsLost(c, s)
            \/ \E t \in Trades : TradeDropped(t)
            \/ NextDay \/ NextFile \/ UNCHANGED vars
  BY DEF Next

\* A quote is published with the best prices of the depth published last
\* (smt_push copies them from folder->dept, and nothing else changes that).
THEOREM AgreementCorrect == Spec => QuoteAgreesWithDepth
  <1>1. TypeInv /\ [Next]_vars =>
          [fed' = {"QUOT"} => quote'.bid = published.bid /\ quote'.ask = published.ask]_vars
    <2> SUFFICES ASSUME TypeInv, Next, fed' = {"QUOT"}
                 PROVE  quote'.bid = published.bid /\ quote'.ask = published.ask
      OBVIOUS
    <2>1. \E t \in Trades : TradePublished(t)
      <3>1. {"QUOT"} # {} /\ {"QUOT"} # {"DEPT"}
        OBVIOUS
      <3> QED BY <3>1 DEF Next, ChannelSeconds, SecondsLost, TradeDropped, TradeCloses, Quietly,
                          smt_nbbo, smt_push, NextDay, NextFile
    <2>2. published = dept
      BY DEF TypeInv, PublishedInv
    <2> QED BY <2>1, <2>2, PublishedFacts
  <1> QED BY <1>1, InitType, NextType, PTL DEF Spec, QuoteAgreesWithDepth

-----------------------------------------------------------------------------
\* The high without a maximum: it is the price of one eligible trade, and no
\* other's is above it; before the first it is 0, below every price.
HighInv ==
    \/ Eligible("highlow") = {} /\ quote.high = 0
    \/ /\ \E i \in Eligible("highlow") : quote.high = trades[i].price
       /\ \A i \in Eligible("highlow") : trades[i].price <= quote.high

\* What a trade adds to the eligible ones.
LEMMA EligibleGrows ==
  ASSUME TypeInv, NEW t \in Trades, trades' = Append(trades, t)
  PROVE  /\ \A i \in DOMAIN trades : trades'[i] = trades[i] /\ trades[i].price \in Nat
         /\ trades'[Len(trades) + 1] = t
         /\ Eligible("highlow")' =
              IF "highlow" \in t.elig THEN Eligible("highlow") \cup {Len(trades) + 1}
                                       ELSE Eligible("highlow")
  <1>1. trades \in Seq(Trades) /\ Len(trades) \in Nat
    BY DEF TypeInv, BookInv
  <1>2. /\ DOMAIN trades = 1 .. Len(trades) /\ DOMAIN trades' = 1 .. Len(trades) + 1
        /\ \A i \in 1 .. Len(trades) : trades'[i] = trades[i]
        /\ trades'[Len(trades) + 1] = t
    BY <1>1
  <1>3. \A i : i \in DOMAIN trades' <=> i \in DOMAIN trades \/ i = Len(trades) + 1
    BY <1>1, <1>2
  <1>4. \A i \in DOMAIN trades : trades[i].price \in Nat
    BY <1>1, TradeNumbers
  <1> QED BY <1>2, <1>3, <1>4 DEF Eligible

LEMMA HighGrows ==
  ASSUME TypeInv, HighInv, NEW t \in Trades, trades' = Append(trades, t),
         quote'.high = IF quote.high < t.price /\ "highlow" \in t.elig
                       THEN t.price ELSE quote.high
  PROVE  HighInv'
  <1>1. /\ \A i \in DOMAIN trades : trades'[i] = trades[i] /\ trades[i].price \in Nat
        /\ trades'[Len(trades) + 1] = t
        /\ Eligible("highlow")' =
              IF "highlow" \in t.elig THEN Eligible("highlow") \cup {Len(trades) + 1}
                                       ELSE Eligible("highlow")
    BY EligibleGrows
  <1>2. quote.high \in Nat /\ t.price \in Nat \ {0} /\ Eligible("highlow") \subseteq DOMAIN trades
    BY NumbersAreNat, TradeNumbers DEF TypeInv, BookInv, Quote, Eligible
  <1>3. CASE "highlow" \notin t.elig
    <2>1. quote'.high = quote.high /\ Eligible("highlow")' = Eligible("highlow")
      BY <1>1, <1>3
    <2> QED BY <1>1, <1>2, <2>1 DEF HighInv
  <1>4. CASE "highlow" \in t.elig /\ quote.high < t.price
    <2>1. quote'.high = t.price /\ Eligible("highlow")' = Eligible("highlow") \cup {Len(trades) + 1}
      BY <1>1, <1>4
    <2>2. \A i \in Eligible("highlow") : trades[i].price <= quote.high
      BY DEF HighInv
    <2>3. \A i \in Eligible("highlow")' : trades'[i].price <= quote'.high
      BY <1>1, <1>2, <1>4, <2>1, <2>2
    <2>4. \E i \in Eligible("highlow")' : quote'.high = trades'[i].price
      BY <1>1, <2>1
    <2> QED BY <2>3, <2>4 DEF HighInv
  <1>5. CASE "highlow" \in t.elig /\ ~(quote.high < t.price)
    <2>1. quote'.high = quote.high /\ Eligible("highlow")' = Eligible("highlow") \cup {Len(trades) + 1}
      BY <1>1, <1>5
    <2>2. quote.high # 0 /\ t.price <= quote.high
      BY <1>2, <1>5
    <2>3. /\ \E i \in Eligible("highlow") : quote.high = trades[i].price
          /\ \A i \in Eligible("highlow") : trades[i].price <= quote.high
      BY <2>2 DEF HighInv
    <2>4. \A i \in Eligible("highlow")' : trades'[i].price <= quote'.high
      BY <1>1, <1>2, <2>1, <2>2, <2>3
    <2>5. \E i \in Eligible("highlow")' : quote'.high = trades'[i].price
      BY <1>1, <1>2, <2>1, <2>3
    <2> QED BY <2>4, <2>5 DEF HighInv
  <1> QED BY <1>3, <1>4, <1>5

LEMMA NextHigh == TypeInv /\ HighInv /\ [Next]_vars => HighInv'
  <1> SUFFICES ASSUME TypeInv, HighInv, [Next]_vars PROVE HighInv'
    OBVIOUS
  <1>1. ASSUME NEW t \in Trades, TradeCloses(t) \/ TradePublished(t) PROVE HighInv'
    <2>1. /\ t.channel \in DOMAIN secs /\ ~Counted(t) /\ trades' = Append(trades, t)
          /\ quote'.high = Traded(t).high
      BY <1>1, ClosesFacts, PublishedFacts DEF TradeCloses, TradePublished, Handles
    <2> QED BY <2>1, TradedFacts, HighGrows
  <1>2. ASSUME UNCHANGED <<quote, trades>> PROVE HighInv'
    BY <1>2 DEF HighInv, Eligible
  <1> QED BY <1>1, <1>2, NextSteps, NbboFacts, OthersFacts

LEMMA HighestIs ==
  ASSUME NEW S, NEW x \in S, S \subseteq Nat, \A y \in S : y <= x
  PROVE  Highest(S) = x
  <1> DEFINE h == CHOOSE z \in S : \A y \in S : y <= z
  <1>1. h \in S /\ \A y \in S : y <= h
    OBVIOUS
  <1>2. h \in Nat /\ x \in Nat /\ h <= x /\ x <= h
    BY <1>1
  <1>3. h = x
    <2> HIDE DEF h
    <2> QED BY <1>2
  <1> QED BY <1>3 DEF Highest

\* The high is the highest eligible price, over every sequence of trades
\* (_smt_trade_trade).
THEOREM HighCorrect == Spec => []HighIsHighest
  <1>1. Init => HighInv
    <2> SUFFICES ASSUME Init PROVE HighInv
      OBVIOUS
    <2>1. trades = << >> /\ quote.high = 0
      BY DEF Init
    <2>2. DOMAIN trades = {}
      BY <2>1
    <2> QED BY <2>1, <2>2 DEF HighInv, Eligible
  <1>2. TypeInv /\ HighInv => HighIsHighest
    <2> SUFFICES ASSUME TypeInv, HighInv, Eligible("highlow") # {}
                 PROVE  quote.high = Highest({trades[i].price : i \in Eligible("highlow")})
      BY DEF HighIsHighest
    <2> DEFINE prices == {trades[i].price : i \in Eligible("highlow")}
    <2>1. \A i \in Eligible("highlow") : trades[i].price \in Nat
      <3>1. trades \in Seq(Trades)
        BY DEF TypeInv, BookInv
      <3> QED BY <3>1, TradeNumbers DEF Eligible
    <2>2. prices \subseteq Nat /\ quote.high \in prices /\ \A p \in prices : p <= quote.high
      BY <2>1 DEF HighInv
    <2> QED BY <2>2, HighestIs
  <1> QED BY <1>1, <1>2, InitType, NextType, NextHigh, PTL DEF Spec

-----------------------------------------------------------------------------
\* The depth without a maximum: a side shows what some message gave, and no
\* later message gave that side.
DepthInv ==
    \A side \in {"bid", "ask"} :
        \/ LastGiven(side) = {}
        \/ \E i \in LastGiven(side) : /\ \A j \in LastGiven(side) : j <= i
                                      /\ published[side] = nbbos[i][side]

\* What a message adds to those that give a side.
LEMMA GivenGrows ==
  ASSUME TypeInv, NEW n \in Nbbos, nbbos' = Append(nbbos, n), NEW side
  PROVE  /\ \A i \in LastGiven(side) : /\ i \in Nat /\ i <= Len(nbbos)
                                      /\ nbbos'[i] = nbbos[i]
         /\ nbbos'[Len(nbbos) + 1] = n
         /\ LastGiven(side)' = IF side \in n.sides THEN LastGiven(side) \cup {Len(nbbos) + 1}
                                                   ELSE LastGiven(side)
  <1>1. nbbos \in Seq(Nbbos) /\ Len(nbbos) \in Nat
    BY DEF TypeInv, BookInv
  <1>2. /\ DOMAIN nbbos = 1 .. Len(nbbos) /\ DOMAIN nbbos' = 1 .. Len(nbbos) + 1
        /\ \A i \in 1 .. Len(nbbos) : nbbos'[i] = nbbos[i]
        /\ nbbos'[Len(nbbos) + 1] = n
    BY <1>1
  <1>3. \A i : i \in DOMAIN nbbos' <=> i \in DOMAIN nbbos \/ i = Len(nbbos) + 1
    BY <1>1, <1>2
  <1>4. LastGiven(side) \subseteq 1 .. Len(nbbos)
    BY <1>2 DEF LastGiven
  <1>5. LastGiven(side)' = {i \in DOMAIN nbbos' : side \in nbbos'[i].sides}
    BY DEF LastGiven
  <1>6. LastGiven(side)' = IF side \in n.sides THEN LastGiven(side) \cup {Len(nbbos) + 1}
                                               ELSE LastGiven(side)
    BY <1>2, <1>3, <1>5 DEF LastGiven
  <1> QED BY <1>1, <1>2, <1>4, <1>6

LEMMA NextDepth == TypeInv /\ DepthInv /\ [Next]_vars => DepthInv'
  <1> SUFFICES ASSUME TypeInv, DepthInv, [Next]_vars PROVE DepthInv'
    OBVIOUS
  <1>1. ASSUME UNCHANGED <<published, nbbos>> PROVE DepthInv'
    BY <1>1 DEF DepthInv, LastGiven
  <1>2. ASSUME NEW n \in Nbbos, smt_nbbo(n) PROVE DepthInv'
    <2> SUFFICES ASSUME NEW side \in {"bid", "ask"}
                 PROVE  \/ LastGiven(side)' = {}
                        \/ \E i \in LastGiven(side)' :
                              /\ \A j \in LastGiven(side)' : j <= i
                              /\ published'[side] = nbbos'[i][side]
      BY DEF DepthInv
    <2>1. nbbos' = Append(nbbos, n)
      BY <1>2 DEF smt_nbbo
    <2>2. /\ \A i \in LastGiven(side) : i \in Nat /\ i <= Len(nbbos) /\ nbbos'[i] = nbbos[i]
          /\ nbbos'[Len(nbbos) + 1] = n
          /\ LastGiven(side)' = IF side \in n.sides THEN LastGiven(side) \cup {Len(nbbos) + 1}
                                                    ELSE LastGiven(side)
      BY <2>1, GivenGrows
    <2>3. published' = Shown(n) /\ published = dept
      BY <1>2, NbboFacts DEF TypeInv, PublishedInv
    <2>4. published'[side] = IF side \in n.sides THEN n[side] ELSE published[side]
      BY <2>3 DEF Shown
    <2>5. Len(nbbos) \in Nat
      BY DEF TypeInv, BookInv
    <2>6. CASE side \in n.sides
      <3>1. \A j \in LastGiven(side)' : j <= Len(nbbos) + 1
        BY <2>2, <2>5, <2>6
      <3>2. Len(nbbos) + 1 \in LastGiven(side)' /\ published'[side] = nbbos'[Len(nbbos) + 1][side]
        BY <2>2, <2>4, <2>6
      <3> QED BY <3>1, <3>2
    <2>7. CASE side \notin n.sides
      <3>1. LastGiven(side)' = LastGiven(side) /\ published'[side] = published[side]
        BY <2>2, <2>4, <2>7
      <3>2. CASE LastGiven(side) = {}
        BY <3>1, <3>2
      <3>3. CASE LastGiven(side) # {}
        <4>1. PICK i \in LastGiven(side) : /\ \A j \in LastGiven(side) : j <= i
                                          /\ published[side] = nbbos[i][side]
          BY <3>3 DEF DepthInv
        <4> QED BY <2>2, <3>1, <4>1
      <3> QED BY <3>2, <3>3
    <2> QED BY <2>6, <2>7
  <1>3. ASSUME NEW t \in Trades, TradeCloses(t) \/ TradePublished(t)
        PROVE  UNCHANGED <<published, nbbos>>
    BY <1>3 DEF TradeCloses, TradePublished, Quietly, smt_push
  <1> QED BY <1>1, <1>2, <1>3, NextSteps, OthersFacts

\* Each side of the published depth is that of the last message that gave it
\* (smt_nbbo, smt_push).
THEOREM DepthCorrect == Spec => []DepthIsLatest
  <1>1. Init => DepthInv
    <2> SUFFICES ASSUME Init PROVE DepthInv
      OBVIOUS
    <2>1. nbbos = << >>
      BY DEF Init
    <2>2. DOMAIN nbbos = {}
      BY <2>1
    <2> QED BY <2>2 DEF DepthInv, LastGiven
  <1>2. TypeInv /\ DepthInv => DepthIsLatest
    <2> SUFFICES ASSUME TypeInv, DepthInv, NEW side \in {"bid", "ask"}, LastGiven(side) # {}
                 PROVE  published[side] = nbbos[Highest(LastGiven(side))][side]
      BY DEF DepthIsLatest
    <2>1. PICK i \in LastGiven(side) : /\ \A j \in LastGiven(side) : j <= i
                                      /\ published[side] = nbbos[i][side]
      BY DEF DepthInv
    <2>2. LastGiven(side) \subseteq Nat
      BY DEF LastGiven, TypeInv, BookInv
    <2>3. Highest(LastGiven(side)) = i
      BY <2>1, <2>2, HighestIs
    <2> QED BY <2>1, <2>3
  <1> QED BY <1>1, <1>2, InitType, NextType, NextDepth, PTL DEF Spec

-----------------------------------------------------------------------------
\* While the first file is replayed the table is never ahead of the source, and
\* no trade is stamped later than the table's second, on today's date.
TickInv ==
    file = 1 =>
      /\ \A c \in DOMAIN secs : secs[c] <= second[c]
      /\ \A t \in Trades : IF t.channel \in DOMAIN secs THEN quote.stamp <= Stamp(t.channel)
                                                        ELSE quote.stamp = 0

\* What has the source's second of a channel put into the table, or not.
LEMMA SecondsTick ==
  ASSUME TypeInv, TickInv, NEW c \in Channels, NEW s \in Seconds,
         ChannelSeconds(c, s) \/ SecondsLost(c, s)
  PROVE  TickInv'
  <1> SUFFICES ASSUME file = 1 PROVE TickInv'
    BY DEF ChannelSeconds, SecondsLost, TickInv
  <1>1. /\ UNCHANGED <<day, quote>> /\ s > second[c] /\ second' = [second EXCEPT ![c] = s]
        /\ UpdateCs(c, s) \/ UNCHANGED secs
    BY DEF ChannelSeconds, SecondsLost
  <1>2. /\ day \in Nat /\ s \in Nat /\ DOMAIN secs \subseteq Channels
        /\ \A x \in Channels : second[x] \in Int
        /\ \A x \in DOMAIN secs : secs[x] \in Nat /\ secs[x] <= second[x]
    <2>1. Seconds \subseteq Nat /\ MaxDays \in Nat
      BY BookAssumption
    <2>2. day \in Nat /\ s \in Nat /\ DOMAIN secs \subseteq Channels
      BY <2>1 DEF TypeInv, TimeInv, SecsInv
    <2>3. \A x \in Channels : second[x] \in Int
      <3>1. second \in [Channels -> Seconds \cup {-1}]
        BY DEF TypeInv, TimeInv
      <3>2. Seconds \cup {-1} \subseteq Int
        BY <2>1
      <3> HIDE DEF Channels
      <3>3. \A x \in Channels : second[x] \in Seconds \cup {-1}
        BY <3>1
      <3> QED BY <3>2, <3>3
    <2>4. \A x \in DOMAIN secs : secs[x] \in Nat /\ secs[x] <= second[x]
      BY <2>1 DEF TypeInv, SecsInv, TickInv
    <2> QED BY <2>2, <2>3, <2>4
  <1>3. /\ \A x \in DOMAIN secs : x \in DOMAIN secs' /\ secs'[x] >= secs[x]
        /\ \A x \in DOMAIN secs' : x \in DOMAIN secs \/ x = c
        /\ \A x \in DOMAIN secs' : secs'[x] <= second'[x] /\ secs'[x] \in Nat
    <2>1. second'[c] = s /\ \A x \in Channels : x # c => second'[x] = second[x]
      BY <1>1 DEF TypeInv, TimeInv
    <2>2. \A x \in DOMAIN secs : secs[x] <= second'[x]
      BY <1>1, <1>2, <2>1
    <2>3. CASE UNCHANGED secs
      BY <1>2, <2>2, <2>3
    <2>4. CASE secs' = [x \in DOMAIN secs \cup {c} |-> IF x = c THEN s ELSE secs[x]]
      <3>1. DOMAIN secs' = DOMAIN secs \cup {c} /\ secs'[c] = s
            /\ \A x \in DOMAIN secs : x # c => secs'[x] = secs[x]
        BY <2>4
      <3>2. c \in DOMAIN secs => secs[c] <= s
        BY <1>1, <1>2
      <3> QED BY <1>2, <2>1, <2>2, <3>1, <3>2
    <2> QED BY <1>1, <2>3, <2>4 DEF UpdateCs
  <1>4. ASSUME NEW t \in Trades
        PROVE  IF t.channel \in DOMAIN secs' THEN quote'.stamp <= Stamp(t.channel)'
                                             ELSE quote'.stamp = 0
    <2> DEFINE x == t.channel
    <2>1. quote'.stamp = quote.stamp /\ quote.stamp \in Nat
      BY <1>1 DEF TypeInv, BookInv, Quote
    <2>2. x \in DOMAIN secs => quote.stamp <= day * 86400 + secs[x]
      BY DEF TickInv, Stamp, gettime_from_mid_sec, Midnight
    <2>3. x \notin DOMAIN secs => quote.stamp = 0
      BY DEF TickInv
    <2>4. Stamp(x)' = day * 86400 + secs'[x]
      BY <1>1 DEF Stamp, gettime_from_mid_sec, Midnight
    <2> HIDE DEF x
    <2>5. CASE x \in DOMAIN secs
      <3>1. x \in DOMAIN secs' /\ secs[x] \in Nat /\ secs'[x] \in Nat /\ secs'[x] >= secs[x]
        BY <1>2, <1>3, <2>5
      <3>2. quote'.stamp <= Stamp(x)'
        BY <1>2, <2>1, <2>2, <2>4, <2>5, <3>1
      <3> QED BY <3>1, <3>2 DEF x
    <2>6. CASE x \notin DOMAIN secs
      <3>1. x \in DOMAIN secs' => secs'[x] \in Nat
        BY <1>3
      <3>2. x \in DOMAIN secs' => quote'.stamp <= Stamp(x)'
        BY <1>2, <2>1, <2>3, <2>4, <2>6, <3>1
      <3> QED BY <2>1, <2>3, <2>6, <3>2 DEF x
    <2> QED BY <2>5, <2>6
  <1> QED BY <1>3, <1>4 DEF TickInv

\* A trade is stamped with the table's second of the channel all trades have.
LEMMA TradeTick ==
  ASSUME TypeInv, TickInv, NEW t \in Trades, TradeCloses(t) \/ TradePublished(t)
  PROVE  TickInv' /\ (file = 1 => TickLess(quote, quote'))
  <1>1. /\ t.channel \in DOMAIN secs /\ ~Counted(t) /\ UNCHANGED <<day, file, second, secs>>
        /\ quote'.seqn = Traded(t).seqn /\ quote'.stamp = Traded(t).stamp
    BY ClosesFacts, PublishedFacts DEF TradeCloses, TradePublished, Handles
  <1>2. /\ quote'.stamp = Stamp(t.channel)
        /\ quote'.seqn = IF quote.stamp = Stamp(t.channel) THEN quote.seqn + 1 ELSE 0
    BY <1>1, TradedFacts
  <1>3. Stamp(t.channel) \in Nat /\ quote.stamp \in Nat /\ quote.seqn \in Nat
    BY <1>1, StampType DEF TypeInv, BookInv, Quote
  <1>4. TickInv'
    <2>1. \A u \in Trades : u.channel = t.channel
      BY TradeChannelAssumption
    <2>2. Stamp(t.channel)' = Stamp(t.channel)
      BY <1>1 DEF Stamp, gettime_from_mid_sec, Midnight
    <2>3. \A u \in Trades : u.channel \in DOMAIN secs' /\ quote'.stamp <= Stamp(u.channel)'
      BY <1>1, <1>2, <1>3, <2>1, <2>2
    <2> QED BY <1>1, <2>3 DEF TickInv
  <1>5. ASSUME file = 1 PROVE TickLess(quote, quote')
    <2>1. quote.stamp <= Stamp(t.channel)
      BY <1>1, <1>5 DEF TickInv
    <2> QED BY <1>2, <1>3, <2>1 DEF TickLess
  <1> QED BY <1>4, <1>5

LEMMA NextTick == TypeInv /\ TickInv /\ [Next]_vars => TickInv'
  <1> SUFFICES ASSUME TypeInv, TickInv, [Next]_vars PROVE TickInv'
    OBVIOUS
  <1>1. ASSUME UNCHANGED <<day, file, second, secs, quote>> PROVE TickInv'
    BY <1>1 DEF TickInv, Stamp, gettime_from_mid_sec, Midnight
  <1>2. ASSUME NEW n \in Nbbos, smt_nbbo(n) PROVE TickInv'
    BY <1>1, <1>2 DEF smt_nbbo, smt_push, Handles
  <1>3. ASSUME NEW t \in Trades, TradeDropped(t) PROVE TickInv'
    BY <1>1, <1>3 DEF TradeDropped, Quietly, Handles
  <1>4. CASE NextDay
    <2>1. UNCHANGED <<file, second, secs, quote>> /\ day' = day + 1
      BY <1>4 DEF NextDay
    <2>2. ASSUME file = 1, NEW t \in Trades, t.channel \in DOMAIN secs
          PROVE  quote.stamp <= Stamp(t.channel)'
      <3>1. Stamp(t.channel)' = (day + 1) * 86400 + secs[t.channel]
        BY <2>1 DEF Stamp, gettime_from_mid_sec, Midnight
      <3>2. quote.stamp <= day * 86400 + secs[t.channel]
        BY <2>2 DEF TickInv, Stamp, gettime_from_mid_sec, Midnight
      <3>3. day \in Nat /\ secs[t.channel] \in Nat /\ quote.stamp \in Nat
        <4>1. Seconds \subseteq Nat /\ MaxDays \in Nat
          BY BookAssumption
        <4>2. day \in Nat
          BY <4>1 DEF TypeInv, TimeInv
        <4>3. secs[t.channel] \in Nat
          BY <2>2, <4>1 DEF TypeInv, SecsInv
        <4>4. quote.stamp \in Nat
          BY DEF TypeInv, BookInv, Quote
        <4> QED BY <4>2, <4>3, <4>4
      <3> QED BY <3>1, <3>2, <3>3
    <2> QED BY <2>1, <2>2 DEF TickInv
  <1>5. CASE NextFile
    <2>1. file' = file + 1 /\ file \in Nat \ {0}
      BY <1>5, BookAssumption DEF NextFile, TypeInv, TimeInv
    <2> QED BY <2>1 DEF TickInv
  <1>6. CASE UNCHANGED vars
    BY <1>1, <1>6 DEF vars
  <1> QED BY <1>2, <1>3, <1>4, <1>5, <1>6, SecondsTick, TradeTick, NextSteps

\* While the first file is replayed the time and number of a trade are above
\* those of the trade before (seqn in _smt_trade_trade, gettime_from_mid_sec).
THEOREM TicksCorrect == Spec => TicksIncrease
  <1>1. Init => TickInv
    <2> SUFFICES ASSUME Init PROVE TickInv
      OBVIOUS
    <2>1. secs = [c \in {} |-> 0] /\ quote.stamp = 0
      BY DEF Init
    <2>2. DOMAIN secs = {}
      BY <2>1
    <2> QED BY <2>1, <2>2 DEF TickInv
  <1>2. TypeInv /\ TickInv /\ [Next]_vars =>
          [file = 1 /\ trades' # trades => TickLess(quote, quote')]_vars
    <2> SUFFICES ASSUME TypeInv, TickInv, [Next]_vars, file = 1, trades' # trades
                 PROVE  TickLess(quote, quote')
      OBVIOUS
    <2>1. PICK t \in Trades : TradeCloses(t) \/ TradePublished(t)
      BY NextSteps, OthersFacts, NbboFacts
    <2> QED BY <2>1, TradeTick
  <1> QED BY <1>1, <1>2, InitType, NextType, NextTick, PTL DEF Spec, TicksIncrease
=============================================================================
