----------------------------- MODULE QuoteBook -----------------------------
(***************************************************************************)
(* What market data does to one option's folder (smt_trade.c, smt_nbbo.c,  *)
(* smt_push and upddept of smtfep.c) and how it is stamped with a time     *)
(* (smt_0x22.c, gettime_from_mid_sec).  Messages arrive in the order of    *)
(* the replayed files; any of them may have been lost on the way.  A       *)
(* message is handled at once, on whatever day it then is here.            *)
(***************************************************************************)
EXTENDS Integers, Sequences, FiniteSets

CONSTANTS
    Trades,         \* bodies of trade messages: channel, price, size, elig, change
    Nbbos,          \* bodies of NBBO messages: channel, the sides given, bid, ask
    Seconds,        \* the seconds since midnight that occur
    MAX_CHANNEL,    \* the entries the Channel Seconds table holds
    MaxDays, MaxFiles, MaxHandled       \* bounds of the exploration

Channels == {m.channel : m \in Trades \cup Nbbos}

ASSUME BookAssumption ==
    /\ Seconds \subseteq Nat /\ MAX_CHANNEL \in Nat
    /\ MaxDays \in Nat \ {0} /\ MaxFiles \in Nat \ {0} /\ MaxHandled \in Nat
    /\ \A t \in Trades : /\ t.price \in Nat \ {0} /\ t.size \in Nat
                         /\ t.elig \subseteq {"total", "highlow", "open", "close"}
                         /\ t.change \subseteq {"volume", "last"}
    /\ \A n \in Nbbos : n.sides \subseteq {"bid", "ask"} /\ n.sides # {}

\* The source sends all trades of an option on one channel.
ASSUME TradeChannelAssumption == \A t, u \in Trades : t.channel = u.channel

VARIABLES
    day,        \* the local date, as localtime_r gives it
    file,       \* the file that is replayed
    second,     \* channel -> the second the source has reached, -1 before the first
    secs,       \* the Channel Seconds table: channel -> seconds
    quote, dept, settled,       \* folder->quot, folder->dept, folder->mstr.prev.setp
    fed,        \* what the last message made smt_push publish
    published,  \* the DEPT record published last
    trades, nbbos       \* the trades applied and the NBBO messages, as handled

vars == <<day, file, second, secs, quote, dept, settled, fed, published, trades, nbbos>>

Midnight(d) == d * 86400
NoBest == [price |-> 0, size |-> 0]

Init == /\ day = 1 /\ file = 1 /\ second = [c \in Channels |-> -1]
        /\ secs = [c \in {} |-> 0]
        /\ quote = [last |-> 0, open |-> 0, high |-> 0, low |-> 0, setp |-> 0, tvol |-> 0,
                    evol |-> 0, seqn |-> 0, tymd |-> 0, stamp |-> 0,
                    bid |-> NoBest, ask |-> NoBest]
        /\ dept = [bid |-> NoBest, ask |-> NoBest, stamp |-> 0]
        /\ settled = 0 /\ fed = {} /\ published = dept
        /\ trades = << >> /\ nbbos = << >>

UpdateCs(c, s) ==
    secs' = IF c \in DOMAIN secs \/ Cardinality(DOMAIN secs) < MAX_CHANNEL
            THEN [x \in DOMAIN secs \cup {c} |-> IF x = c THEN s ELSE secs[x]]
            ELSE secs

\* smt_0x22: the source reaches another second of a channel.
ChannelSeconds(c, s) ==
    /\ s > second[c] /\ second' = [second EXCEPT ![c] = s]
    /\ UpdateCs(c, s) /\ fed' = {}
    /\ UNCHANGED <<day, file, quote, dept, settled, published, trades, nbbos>>

\* The message that says so is lost (sendto failed).
SecondsLost(c, s) ==
    /\ s > second[c] /\ second' = [second EXCEPT ![c] = s] /\ fed' = {}
    /\ UNCHANGED <<day, file, secs, quote, dept, settled, published, trades, nbbos>>

\* gettime_from_mid_sec: the time a message of channel c is stamped with.
gettime_from_mid_sec(s) == Midnight(day) + s
Stamp(c) == gettime_from_mid_sec(secs[c])

\* A bug: the best prices are not copied into the quote.
smt_pushWithoutBest(check, q, d) ==
    /\ settled' = IF "SETT" \in check THEN q.setp ELSE settled
    /\ quote' = q /\ dept' = d
    /\ published' = IF "DEPT" \in check THEN d ELSE published
    /\ fed' = check

\* smt_push for the records named by check, given the folder's new quote and
\* dept: the settlement, the quote with the best prices of dept, and dept.
\* (Nothing sets check[MSTR] but smtsett, whose master is published with it.)
smt_push(check, q, d) ==
    /\ settled' = IF "SETT" \in check THEN q.setp ELSE settled
    /\ quote' = IF "QUOT" \in check THEN [q EXCEPT !.bid = d.bid, !.ask = d.ask] ELSE q
    /\ dept' = d
    /\ published' = IF "DEPT" \in check THEN d ELSE published
    /\ fed' = check

\* A handler that returns before smt_push leaves quote q.
Quietly(q) == quote' = q /\ fed' = {} /\ UNCHANGED <<settled, dept, published>>

WithVolume(t, q) ==
    IF "volume" \in t.change THEN [q EXCEPT !.evol = t.size - q.tvol, !.tvol = t.size] ELSE q

WithLast(t, q) == IF "last" \in t.change THEN [q EXCEPT !.last = t.price] ELSE q

\* A bug: trades of the same time are not numbered.
WithTimeOnly(t, q) ==
    [q EXCEPT !.seqn = 0, !.tymd = IF q.tymd < day THEN day ELSE q.tymd,
              !.stamp = Stamp(t.channel)]

WithTime(t, q) ==
    LET s == Stamp(t.channel)
    IN  [q EXCEPT !.seqn = IF q.stamp = s THEN q.seqn + 1 ELSE 0,
                  !.tymd = IF q.tymd < day THEN day ELSE q.tymd,
                  !.stamp = s]

WithOpen(t, q) == IF "open" \in t.elig THEN [q EXCEPT !.open = t.price] ELSE q
WithHighOfAny(t, q) ==      \* a bug: the eligibility flag is not read
    IF q.high < t.price THEN [q EXCEPT !.high = t.price] ELSE q
WithHigh(t, q) ==
    IF q.high < t.price /\ "highlow" \in t.elig THEN [q EXCEPT !.high = t.price] ELSE q
WithLow(t, q) ==
    IF q.low > t.price /\ "highlow" \in t.elig THEN [q EXCEPT !.low = t.price] ELSE q

\* The quote after everything _smt_trade_trade does before it looks at the close.
Traded(t) == WithLow(t, WithHigh(t, WithOpen(t, WithTime(t, WithLast(t, WithVolume(t, quote))))))

Handles(m) == /\ m.channel \in DOMAIN secs
              /\ Len(trades) + Len(nbbos) < MaxHandled
              /\ UNCHANGED <<day, file, second, secs>>

CountedNever(t) == FALSE        \* a bug: the early return is missing

\* A trade whose volume the quote has already counted is dropped.
Counted(t) == "volume" \in t.change /\ t.size <= quote.tvol

TradeDropped(t) ==
    /\ Handles(t) /\ Counted(t)
    /\ Quietly(quote) /\ UNCHANGED <<trades, nbbos>>

TradeCloses(t) ==
    /\ Handles(t) /\ ~Counted(t) /\ "close" \in t.elig
    /\ Quietly([Traded(t) EXCEPT !.setp = t.price])
    /\ trades' = Append(trades, t) /\ UNCHANGED nbbos

TradePublished(t) ==
    /\ Handles(t) /\ ~Counted(t) /\ "close" \notin t.elig
    /\ smt_push({"QUOT"}, IF "total" \in t.elig THEN [Traded(t) EXCEPT !.tvol = t.size]
                          ELSE Traded(t), dept)
    /\ trades' = Append(trades, t) /\ UNCHANGED nbbos

\* A bug: a side that is not given is cleared.
ShownAlone(n) == [bid |-> IF "bid" \in n.sides THEN n.bid ELSE NoBest,
                  ask |-> IF "ask" \in n.sides THEN n.ask ELSE NoBest,
                  stamp |-> Stamp(n.channel)]

\* smt_nbbo: the sides the message gives replace those of the depth.  The flag
\* of a retransmitted message is not read: it is handled like any other.
Shown(n) == [bid |-> IF "bid" \in n.sides THEN n.bid ELSE dept.bid,
             ask |-> IF "ask" \in n.sides THEN n.ask ELSE dept.ask,
             stamp |-> Stamp(n.channel)]

smt_nbbo(n) ==
    /\ Handles(n)
    /\ smt_push({"DEPT"}, quote, Shown(n))
    /\ nbbos' = Append(nbbos, n) /\ UNCHANGED trades

NextDay == /\ day < MaxDays /\ day' = day + 1 /\ fed' = {}
           /\ UNCHANGED <<file, second, secs, quote, dept, settled, published, trades, nbbos>>

\* start_analyze goes on to the file of another day.
NextFile == /\ file < MaxFiles /\ file' = file + 1 /\ fed' = {}
            /\ second' = [c \in Channels |-> -1]
            /\ UNCHANGED <<day, secs, quote, dept, settled, published, trades, nbbos>>

Next == \/ \E c \in Channels, s \in Seconds : ChannelSeconds(c, s) \/ SecondsLost(c, s)
        \/ \E t \in Trades : TradeDropped(t) \/ TradeCloses(t) \/ TradePublished(t)
        \/ \E n \in Nbbos : smt_nbbo(n)
        \/ NextDay \/ NextFile

Spec == Init /\ [][Next]_vars

-----------------------------------------------------------------------------
Numbers == {t.price : t \in Trades} \cup {t.size : t \in Trades} \cup {0}
Bests(side) == {n[side] : n \in Nbbos} \cup {NoBest}

\* The variables have their types.
TypeOK == /\ day \in 1 .. MaxDays /\ file \in 1 .. MaxFiles
          /\ second \in [Channels -> Seconds \cup {-1}]
          /\ DOMAIN secs \subseteq Channels /\ Cardinality(DOMAIN secs) <= MAX_CHANNEL
          /\ \A c \in DOMAIN secs : secs[c] \in Seconds
          /\ \A f \in {"last", "open", "high", "low", "setp", "tvol"} : quote[f] \in Numbers
          /\ quote.evol \in Nat /\ quote.seqn \in 0 .. MaxHandled /\ quote.tymd \in 0 .. MaxDays
          /\ dept.bid \in Bests("bid") /\ dept.ask \in Bests("ask")
          /\ settled \in Numbers /\ fed \subseteq {"QUOT", "DEPT", "SETT"}

Eligible(flag) == {i \in DOMAIN trades : flag \in trades[i].elig}
Highest(S) == CHOOSE x \in S : \A y \in S : y <= x

\* Over any sequence of trades the high is the highest eligible price, whatever
\* other flags they carry and whether or not they were published.
HighIsHighest ==
    Eligible("highlow") # {} => quote.high = Highest({trades[i].price : i \in Eligible("highlow")})

\* A quote is published with the best prices of the depth published last, so a
\* subscriber to both never sees them disagree (smt_push copies, upddept).
QuoteAgreesWithDepth ==
    [][fed' = {"QUOT"} => quote'.bid = published.bid /\ quote'.ask = published.ask]_vars

\* What a one-sided message does not give is kept: each side of the published
\* depth is that of the last message that gave it, however many of the other
\* side, trades, days and files are between them (smt_nbbo).
LastGiven(side) == {i \in DOMAIN nbbos : side \in nbbos[i].sides}
DepthIsLatest ==
    \A side \in {"bid", "ask"} : LastGiven(side) # {} =>
        published[side] = nbbos[Highest(LastGiven(side))][side]

\* While the first file is replayed, the time and the number within it never
\* name two trades, and grow with them, whatever Channel Seconds are lost and
\* when midnight falls (seqn in _smt_trade_trade).
TickLess(p, q) == p.stamp < q.stamp \/ (p.stamp = q.stamp /\ p.seqn < q.seqn)
TicksIncrease == [][file = 1 /\ trades' # trades => TickLess(quote, quote')]_vars

\* Eligibility flag 0x80 is the close (MESSAGE_FORMAT.md 4.3.3), and check[SETT]
\* asks for it to be published: the settlement price is the last close.
CloseIsSettled ==
    Eligible("close") # {} => settled = trades[Highest(Eligible("close"))].price
=============================================================================
