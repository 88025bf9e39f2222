----------------------------- MODULE SymbolCode -----------------------------
(***************************************************************************)
(* The Corise symbol of an option (symbcnv.c, getweek and getwday of       *)
(* smttool.c) and the folder it leads to (_init_symbol, smt_0x33.c).  A    *)
(* symbol holds no date, only a letter for the week and the weekday, a     *)
(* letter for the month and the last digit of the year.  The options of a  *)
(* root are listed in the order of their expiration dates; a folder, once  *)
(* made, is there for good.                                                *)
(***************************************************************************)
EXTENDS Naturals, Sequences

CONSTANTS
    Starts,     \* first days: year, month, mday, its weekday and that of the 1st
    LastYear,   \* the last year whose options are listed
    Strikes,    \* the strike prices of a date, in ten thousandths, in this order
    Unit        \* 10 ^ (4 - zdiv): what the last decimal of a symbol stands for

ASSUME SymbolAssumption ==
    /\ Unit \in Nat \ {0}
    /\ Strikes \in Seq(Nat)
    /\ \A s \in Starts : /\ s.year \in Nat /\ s.month \in 1 .. 12 /\ s.mday = 1
                         /\ s.wday \in 0 .. 6 /\ s.first = s.wday

VARIABLES
    date,       \* year, month, mday
    wday,       \* tm_wday of the date: what localtime says, 0 is Sunday
    first,      \* tm_wday of the 1st of its month
    listed,     \* how many of the strikes of this date are listed
    folders,    \* the folders: corise symbol, and code, the option each was made for
    refused     \* the option refused last and why

vars == <<date, wday, first, listed, folders, refused>>

Option(strike) == [year |-> date.year, month |-> date.month, mday |-> date.mday, strike |-> strike]

-----------------------------------------------------------------------------
\* A bug: a month that begins on a Saturday has a first week of one day.
SaturdayAtOnce(wday1) == 7 - wday1

\* getweek: the day of the month on which the first week ends, a Saturday.
Saturday(wday1) == IF wday1 = 6 THEN 8 ELSE 7 - wday1

\* getweek: the week of a date, 0 if it is beyond the fifth.
getweek(mday, wday1) ==
    LET sat == Saturday(wday1)
    IN  IF mday <= sat THEN 1
        ELSE IF mday <= sat + 7 THEN 2
        ELSE IF mday <= sat + 14 THEN 3
        ELSE IF mday <= sat + 21 THEN 4
        ELSE IF mday <= sat + 28 THEN 5
        ELSE 0

\* A bug: the fifth week has the letters of the fourth.
wcodeOfFour(week, days) ==
    IF days \in 1 .. 5 THEN 5 * ((IF week = 5 THEN 4 ELSE week) - 1) + days ELSE 0

\* A bug: Saturdays have letters.
wcodeToSaturday(week, days) ==
    IF week \in 1 .. 5 /\ days \in 1 .. 6 THEN 5 * (week - 1) + days ELSE 0

\* _conv_wcode: the place in the alphabet of the letter, A to Y, or 0.
_conv_wcode(week, days) ==
    IF week \in 1 .. 5 /\ days \in 1 .. 5 THEN 5 * (week - 1) + days ELSE 0

\* _conv_mcode: the letters of the months.
_conv_mcode(month) == <<"F", "G", "H", "J", "K", "M", "N", "Q", "U", "V", "X", "Z">>[month]

wcod == _conv_wcode(getweek(date.mday, first), wday)

\* The strike as "%.*f" prints it, with the decimals of the csv.
Printed(strike) == (strike + Unit \div 2) \div Unit

\* _convert_symbol, without the root and the put or call, which it copies.
\* It fails when the date has no letter.
Convertible == wcod > 0
_convert_symbol(strike) == [week |-> wcod, month |-> _conv_mcode(date.month),
                            year |-> date.year % 10, strike |-> Printed(strike)]

-----------------------------------------------------------------------------
Leap(year) == year % 4 = 0 /\ (year % 100 # 0 \/ year % 400 = 0)
DaysIn(month, year) ==
    CASE month = 2 -> IF Leap(year) THEN 29 ELSE 28
      [] month \in {4, 6, 9, 11} -> 30
      [] OTHER -> 31

NotRefused == [why |-> "none"]

Init == \E s \in Starts :
           /\ date = [year |-> s.year, month |-> s.month, mday |-> s.mday]
           /\ wday = s.wday /\ first = s.first
           /\ listed = 0 /\ folders = {} /\ refused = NotRefused

\* The next strike of this date is listed.
List(strike) == /\ listed < Len(Strikes) /\ strike = Strikes[listed + 1]
                /\ listed' = listed + 1
                /\ UNCHANGED <<date, wday, first>>

\* _convert_symbol returns -1.
NoSymbol(strike) ==
    /\ List(strike) /\ ~Convertible
    /\ refused' = [why |-> "no symbol", option |-> Option(strike)]
    /\ UNCHANGED folders

\* getfolder: the folders of a symbol.
getfolder(symbol) == {f \in folders : f.symbol = symbol}

\* No folder has this symbol: one is made.
NewFolder(strike) ==
    /\ List(strike) /\ Convertible
    /\ getfolder(_convert_symbol(strike)) = {}
    /\ folders' = folders \cup {[symbol |-> _convert_symbol(strike), code |-> Option(strike)]}
    /\ refused' = NotRefused

\* The folder of this symbol was made for another option: "Symbol Mismatch".
Mismatch(strike) ==
    /\ List(strike) /\ Convertible
    /\ \E f \in getfolder(_convert_symbol(strike)) :
          /\ f.code # Option(strike)
          /\ refused' = [why |-> "mismatch", option |-> Option(strike), other |-> f.code]
    /\ UNCHANGED folders

\* The calendar.
Tomorrow ==
    IF date.mday < DaysIn(date.month, date.year) THEN [date EXCEPT !.mday = @ + 1]
    ELSE IF date.month < 12 THEN [year |-> date.year, month |-> date.month + 1, mday |-> 1]
    ELSE [year |-> date.year + 1, month |-> 1, mday |-> 1]

NextDay == /\ listed = Len(Strikes)
           /\ Tomorrow.year <= LastYear
           /\ date' = Tomorrow /\ wday' = (wday + 1) % 7
           /\ first' = IF Tomorrow.mday = 1 THEN (wday + 1) % 7 ELSE first
           /\ listed' = 0 /\ refused' = NotRefused
           /\ UNCHANGED folders

Next == \/ \E i \in DOMAIN Strikes :
              NoSymbol(Strikes[i]) \/ NewFolder(Strikes[i]) \/ Mismatch(Strikes[i])
        \/ NextDay

Spec == Init /\ [][Next]_vars

-----------------------------------------------------------------------------
\* The variables have their types.
TypeOK == /\ date.year \in Nat /\ date.month \in 1 .. 12
          /\ date.mday \in 1 .. DaysIn(date.month, date.year)
          /\ wday \in 0 .. 6 /\ first \in 0 .. 6
          /\ listed \in 0 .. Len(Strikes)
          /\ \A f \in folders : f.symbol.week \in 1 .. 25 /\ f.symbol.year \in 0 .. 9

TradingDay == wday \in 1 .. 5

\* A trading day has the week of its Friday: the n-th Friday of a month and the
\* four days before it have the letters of the n-th row, whatever day the month
\* begins on (the Saturdays of getweek; the comment on a 1st that is one).  So
\* every trading day has a letter, also in the fifth week.
WeekOfItsFriday == TradingDay => wcod = 5 * ((date.mday + 4 - wday) \div 7) + wday

\* Two options only get the same symbol when they expire on the same date, or
\* ten years apart or a multiple of it, or when their strikes agree in the
\* decimals that are printed: no other "Symbol Mismatch" is ever reported.
SameSymbolSameDate ==
    refused.why = "mismatch" =>
        \/ refused.option.year # refused.other.year
           /\ refused.option.year % 10 = refused.other.year % 10
           /\ refused.option.month = refused.other.month
        \/ /\ [refused.option EXCEPT !.strike = 0] = [refused.other EXCEPT !.strike = 0]
           /\ Printed(refused.option.strike) = Printed(refused.other.strike)
=============================================================================
