-------------------------- MODULE SymbolCodeProofs --------------------------
(***************************************************************************)
(* Proofs about SymbolCode, for every first day, last year, list of        *)
(* strikes and number of decimals.                                         *)
(***************************************************************************)
EXTENDS SymbolCode, TLAPS

\* What the calendar keeps true: the day exists and its weekday is the one that
\* the first day of its month gives it.
DateInv == /\ date \in [year : Nat, month : 1 .. 12, mday : 1 .. 31]
           /\ first \in 0 .. 6
           /\ wday = (first + date.mday - 1) % 7

LEMMA InitDate == Init => DateInv
  <1>1. SUFFICES ASSUME NEW s \in Starts,
                        date = [year |-> s.year, month |-> s.month, mday |-> s.mday],
                        wday = s.wday, first = s.first
                 PROVE  DateInv
    BY DEF Init
  <1>2. /\ s.year \in Nat /\ s.month \in 1 .. 12 /\ s.mday = 1
        /\ s.wday \in 0 .. 6 /\ s.first = s.wday
    BY SymbolAssumption
  <1>3. (first + date.mday - 1) % 7 = wday
    BY <1>1, <1>2
  <1> QED BY <1>1, <1>2, <1>3 DEF DateInv

LEMMA DaysBound == ASSUME NEW month, NEW year PROVE DaysIn(month, year) \in 28 .. 31
  BY DEF DaysIn

LEMMA NextDate == DateInv /\ [Next]_vars => DateInv'
  <1> SUFFICES ASSUME DateInv, [Next]_vars PROVE DateInv'
    OBVIOUS
  <1>1. CASE UNCHANGED <<date, wday, first>>
    BY <1>1 DEF DateInv
  <1>2. CASE NextDay
    <2>1. date' = Tomorrow /\ wday' = (wday + 1) % 7
          /\ first' = IF Tomorrow.mday = 1 THEN (wday + 1) % 7 ELSE first
      BY <1>2 DEF NextDay
    <2>2. /\ date.year \in Nat /\ date.month \in 1 .. 12 /\ date.mday \in 1 .. 31
          /\ wday \in 0 .. 6 /\ (wday + 1) % 7 \in 0 .. 6
      BY DEF DateInv
    <2>3. DaysIn(date.month, date.year) \in 28 .. 31
      BY DaysBound
    <2>4. CASE date.mday < DaysIn(date.month, date.year)
      <3>1. Tomorrow = [date EXCEPT !.mday = @ + 1]
        BY <2>4 DEF Tomorrow
      <3>2. /\ Tomorrow \in [year : Nat, month : 1 .. 12, mday : 1 .. 31]
            /\ Tomorrow.mday = date.mday + 1 /\ Tomorrow.mday # 1
        BY <2>2, <2>3, <2>4, <3>1 DEF DateInv
      <3>3. (wday + 1) % 7 = (first + (date.mday + 1) - 1) % 7
        BY <2>2 DEF DateInv
      <3> QED BY <2>1, <3>2, <3>3 DEF DateInv
    <2>5. CASE ~(date.mday < DaysIn(date.month, date.year))
      <3>1. /\ Tomorrow \in [year : Nat, month : 1 .. 12, mday : 1 .. 31]
            /\ Tomorrow.mday = 1
        <4>1. CASE date.month < 12
          BY <2>2, <2>5, <4>1 DEF Tomorrow
        <4>2. CASE ~(date.month < 12)
          BY <2>2, <2>5, <4>2 DEF Tomorrow
        <4> QED BY <4>1, <4>2
      <3>2. (wday + 1) % 7 = (((wday + 1) % 7) + 1 - 1) % 7
        BY <2>2
      <3> QED BY <2>1, <2>2, <3>1, <3>2 DEF DateInv
    <2> QED BY <2>4, <2>5
  <1> QED BY <1>1, <1>2 DEF Next, NoSymbol, NewFolder, Mismatch, List, vars

\* The date counted up day by day stays one of the calendar, and its weekday is
\* the one which the 1st of its month gives it: the weekday of the 1st that
\* getweek is called with and that of the date never disagree (getwday).
THEOREM DateCorrect == Spec => []DateInv
  BY InitDate, NextDate, PTL DEF Spec

-----------------------------------------------------------------------------
\* The letter of a trading day.
LetterOf(mday, days) == 5 * ((mday + 4 - days) \div 7) + days

LEMMA LetterOfTheWeek ==
  ASSUME NEW mday \in 1 .. 31, NEW wday1 \in 0 .. 6, NEW days \in 1 .. 5,
         days = (wday1 + mday - 1) % 7
  PROVE  _conv_wcode(getweek(mday, wday1), days) = LetterOf(mday, days)
  <1> DEFINE row == (wday1 + mday - 1) \div 7
  <1>1. row \in 0 .. 5 /\ wday1 + mday - 1 = 7 * row + days
    OBVIOUS
  <1>2. CASE wday1 # 6
    <2>1. (mday + 4 - days) \div 7 = row
      BY <1>1, <1>2
    <2>2. row \in 0 .. 4
      BY <1>1, <1>2
    <2>3. getweek(mday, wday1) = row + 1
      BY <1>1, <1>2, <2>2 DEF getweek, Saturday
    <2> QED BY <2>1, <2>2, <2>3 DEF _conv_wcode, LetterOf
  <1>3. CASE wday1 = 6
    <2>1. row \in 1 .. 5 /\ (mday + 4 - days) \div 7 = row - 1
      BY <1>1, <1>3
    <2>2. getweek(mday, wday1) = row
      BY <1>1, <1>3, <2>1 DEF getweek, Saturday
    <2> QED BY <2>1, <2>2 DEF _conv_wcode, LetterOf
  <1> QED BY <1>2, <1>3

\* A date that has a letter is a trading day, and its letter is that of its
\* week: 1 to 25.
LEMMA LetterOfTheDay ==
  DateInv => /\ TradingDay => wcod = LetterOf(date.mday, wday)
             /\ wcod \in 0 .. 25
             /\ Convertible => TradingDay
  <1> SUFFICES ASSUME DateInv
               PROVE  /\ TradingDay => wcod = LetterOf(date.mday, wday)
                      /\ wcod \in 0 .. 25
                      /\ Convertible => TradingDay
    OBVIOUS
  <1>1. /\ date.mday \in 1 .. 31 /\ first \in 0 .. 6
        /\ wday = (first + date.mday - 1) % 7
    BY DEF DateInv
  <1>2. TradingDay => wcod = LetterOf(date.mday, wday)
    BY <1>1, LetterOfTheWeek DEF TradingDay, wcod
  <1>3. wcod \in 0 .. 25
    BY DEF wcod, _conv_wcode
  <1>4. Convertible => TradingDay
    BY DEF Convertible, wcod, _conv_wcode, TradingDay
  <1> QED BY <1>2, <1>3, <1>4

\* Every trading day has the week of its Friday, whatever weekday its month
\* begins on (getweek, _conv_wcode).
THEOREM WeekCorrect == Spec => []WeekOfItsFriday
  <1>1. DateInv => WeekOfItsFriday
    BY LetterOfTheDay DEF WeekOfItsFriday, LetterOf
  <1> QED BY <1>1, DateCorrect, PTL

\* Two trading days of a month have different letters.
LEMMA LettersDiffer ==
  ASSUME NEW m1 \in 1 .. 31, NEW m2 \in 1 .. 31, NEW wday1 \in 0 .. 6,
         NEW d1 \in 1 .. 5, NEW d2 \in 1 .. 5,
         d1 = (wday1 + m1 - 1) % 7, d2 = (wday1 + m2 - 1) % 7,
         LetterOf(m1, d1) = LetterOf(m2, d2)
  PROVE  m1 = m2
  <1>1. d1 = d2 /\ (m1 + 4 - d1) \div 7 = (m2 + 4 - d2) \div 7
    BY DEF LetterOf
  <1> QED BY <1>1

\* The letters of the months differ (_conv_mcode).
LEMMA MonthsDiffer ==
  ASSUME NEW m1 \in 1 .. 12, NEW m2 \in 1 .. 12, _conv_mcode(m1) = _conv_mcode(m2)
  PROVE  m1 = m2
  BY DEF _conv_mcode

-----------------------------------------------------------------------------
\* A folder was made for an option of the past or of this date, and in the
\* months that are over or in this one; the days of this month have their
\* letters from the same first day.
Days(code) == (first + code.mday - 1) % 7

FolderInv(f) ==
    /\ f.code \in [year : Nat, month : 1 .. 12, mday : 1 .. 31, strike : Nat]
    /\ f.symbol.month = _conv_mcode(f.code.month)
    /\ f.symbol.year = f.code.year % 10
    /\ f.symbol.strike = Printed(f.code.strike)
    /\ f.symbol.week \in 1 .. 25
    /\ \/ f.code.year < date.year
       \/ f.code.year = date.year /\ f.code.month <= date.month
    /\ f.code.year = date.year /\ f.code.month = date.month =>
          Days(f.code) \in 1 .. 5 /\ f.symbol.week = LetterOf(f.code.mday, Days(f.code))

SymbolInv == /\ DateInv
             /\ \A f \in folders : FolderInv(f)
             /\ SameSymbolSameDate

LEMMA InitSymbol == Init => SymbolInv
  BY InitDate DEF Init, SymbolInv, SameSymbolSameDate, NotRefused

\* The folder of the same symbol was made for an option that may have it.
LEMMA MismatchSound ==
  ASSUME DateInv, NEW f, FolderInv(f), Convertible, NEW strike \in Nat,
         f.symbol = _convert_symbol(strike)
  PROVE  \/ date.year # f.code.year /\ date.year % 10 = f.code.year % 10
            /\ date.month = f.code.month
         \/ /\ [Option(strike) EXCEPT !.strike = 0] = [f.code EXCEPT !.strike = 0]
            /\ Printed(strike) = Printed(f.code.strike)
  <1>1. /\ f.symbol.month = _conv_mcode(date.month) /\ f.symbol.year = date.year % 10
        /\ f.symbol.strike = Printed(strike) /\ f.symbol.week = wcod
    BY DEF _convert_symbol
  <1>2. date.month = f.code.month /\ date.year % 10 = f.code.year % 10
        /\ Printed(strike) = Printed(f.code.strike)
    <2>1. date.month \in 1 .. 12 /\ f.code.month \in 1 .. 12
      BY DEF DateInv, FolderInv
    <2> QED BY <1>1, <2>1, MonthsDiffer DEF FolderInv
  <1>3. CASE date.year # f.code.year
    BY <1>2, <1>3
  <1>4. CASE date.year = f.code.year
    <2>1. /\ Days(f.code) \in 1 .. 5 /\ wcod = LetterOf(f.code.mday, Days(f.code))
      BY <1>1, <1>2, <1>4 DEF FolderInv
    <2>2. wday \in 1 .. 5 /\ wcod = LetterOf(date.mday, wday)
      BY LetterOfTheDay DEF TradingDay
    <2>3. f.code.mday \in 1 .. 31 /\ date.mday \in 1 .. 31 /\ first \in 0 .. 6
          /\ wday = (first + date.mday - 1) % 7
      BY DEF DateInv, FolderInv
    <2>4. date.mday = f.code.mday
      BY <2>1, <2>2, <2>3, LettersDiffer DEF Days
    <2>5. [Option(strike) EXCEPT !.strike = 0] = [f.code EXCEPT !.strike = 0]
      <3>1. f.code = [year |-> f.code.year, month |-> f.code.month,
                      mday |-> f.code.mday, strike |-> f.code.strike]
        BY DEF FolderInv
      <3> QED BY <1>2, <1>4, <2>4, <3>1 DEF Option
    <2> QED BY <1>2, <2>5
  <1> QED BY <1>3, <1>4

LEMMA NextSymbol == SymbolInv /\ [Next]_vars => SymbolInv'
  <1> SUFFICES ASSUME SymbolInv, [Next]_vars PROVE SymbolInv'
    OBVIOUS
  <1>1. DateInv'
    BY NextDate DEF SymbolInv
  <1>2. ASSUME NEW i \in DOMAIN Strikes, NoSymbol(Strikes[i])
        PROVE  SymbolInv'
    BY <1>1, <1>2 DEF NoSymbol, List, SymbolInv, FolderInv, Days, SameSymbolSameDate
  <1>3. ASSUME NEW i \in DOMAIN Strikes, NewFolder(Strikes[i])
        PROVE  SymbolInv'
    <2>1. UNCHANGED <<date, wday, first>> /\ Convertible /\ refused' = NotRefused
          /\ folders' = folders \cup {[symbol |-> _convert_symbol(Strikes[i]),
                                      code |-> Option(Strikes[i])]}
      BY <1>3 DEF NewFolder, List
    <2>2. SameSymbolSameDate'
      BY <2>1 DEF SameSymbolSameDate, NotRefused
    <2>3. ASSUME NEW f \in folders' PROVE FolderInv(f)'
      <3>1. CASE f \in folders
        BY <2>1, <3>1 DEF SymbolInv, FolderInv, Days
      <3>2. CASE f = [symbol |-> _convert_symbol(Strikes[i]), code |-> Option(Strikes[i])]
        <4>1. Strikes[i] \in Nat
          BY SymbolAssumption
        <4>2. f.code = Option(Strikes[i]) /\ f.symbol = _convert_symbol(Strikes[i])
          BY <3>2
        <4>3. /\ date \in [year : Nat, month : 1 .. 12, mday : 1 .. 31]
              /\ wday = (first + date.mday - 1) % 7
          BY DEF SymbolInv, DateInv
        <4>4. wcod \in 1 .. 25 /\ wday \in 1 .. 5 /\ wcod = LetterOf(date.mday, wday)
          BY <2>1, LetterOfTheDay DEF SymbolInv, TradingDay, Convertible
        <4>5. FolderInv(f)
          BY <4>1, <4>2, <4>3, <4>4 DEF FolderInv, Days, Option, _convert_symbol
        <4> QED BY <2>1, <4>5 DEF FolderInv, Days
      <3> QED BY <2>1, <3>1, <3>2
    <2> QED BY <1>1, <2>2, <2>3 DEF SymbolInv
  <1>4. ASSUME NEW i \in DOMAIN Strikes, Mismatch(Strikes[i])
        PROVE  SymbolInv'
    <2>1. PICK f \in getfolder(_convert_symbol(Strikes[i])) :
             refused' = [why |-> "mismatch", option |-> Option(Strikes[i]), other |-> f.code]
      BY <1>4 DEF Mismatch
    <2>2. UNCHANGED <<date, wday, first, folders>> /\ Convertible
      BY <1>4 DEF Mismatch, List
    <2>3. f \in folders /\ f.symbol = _convert_symbol(Strikes[i]) /\ Strikes[i] \in Nat
      BY SymbolAssumption DEF getfolder
    <2>4. FolderInv(f)
      BY <2>3 DEF SymbolInv
    <2>5. SameSymbolSameDate'
      BY <2>1, <2>2, <2>3, <2>4, MismatchSound DEF SameSymbolSameDate, SymbolInv, Option
    <2> QED BY <1>1, <2>2, <2>5 DEF SymbolInv, FolderInv, Days
  <1>5. CASE NextDay
    <2>1. /\ folders' = folders /\ refused' = NotRefused /\ date' = Tomorrow
          /\ first' = IF Tomorrow.mday = 1 THEN (wday + 1) % 7 ELSE first
      BY <1>5 DEF NextDay
    <2>2. SameSymbolSameDate'
      BY <2>1 DEF SameSymbolSameDate, NotRefused
    <2>3. ASSUME NEW f \in folders PROVE FolderInv(f)'
      <3>1. FolderInv(f)
        BY <2>3 DEF SymbolInv
      <3>2. date.year \in Nat /\ date.month \in 1 .. 12 /\ date.mday \in 1 .. 31
        BY DEF SymbolInv, DateInv
      <3>3. CASE date.mday < DaysIn(date.month, date.year)
        <4>1. date'.year = date.year /\ date'.month = date.month /\ first' = first
          BY <2>1, <3>2, <3>3 DEF Tomorrow, SymbolInv, DateInv
        <4> QED BY <3>1, <4>1 DEF FolderInv, Days
      <3>4. CASE ~(date.mday < DaysIn(date.month, date.year))
        <4>1. \/ date'.year = date.year /\ date'.month = date.month + 1
              \/ date'.year = date.year + 1 /\ date'.month = 1
          BY <2>1, <3>2, <3>4 DEF Tomorrow
        <4> QED BY <3>1, <3>2, <4>1 DEF FolderInv
      <3> QED BY <3>3, <3>4
    <2> QED BY <1>1, <2>1, <2>2, <2>3 DEF SymbolInv
  <1>6. CASE UNCHANGED vars
    BY <1>1, <1>6 DEF vars, SymbolInv, FolderInv, Days, SameSymbolSameDate
  <1> QED BY <1>2, <1>3, <1>4, <1>5, <1>6 DEF Next

\* "Symbol Mismatch" is only ever reported for two options of one date, or of
\* years ten apart, or whose strikes print the same (_convert_symbol,
\* _init_symbol).
THEOREM SymbolCorrect == Spec => []SameSymbolSameDate
  <1>1. SymbolInv => SameSymbolSameDate
    BY DEF SymbolInv
  <1> QED BY <1>1, InitSymbol, NextSymbol, PTL DEF Spec

-----------------------------------------------------------------------------
\* The type of the state, from the two invariants above: the calendar never
\* leaves the month, and a folder has a letter and a last digit of a year.
TypeInv == /\ date.mday <= DaysIn(date.month, date.year)
           /\ listed \in 0 .. Len(Strikes)

LEMMA InitType == Init => TypeInv
  <1>1. SUFFICES ASSUME NEW s \in Starts,
                        date = [year |-> s.year, month |-> s.month, mday |-> s.mday],
                        listed = 0
                 PROVE  TypeInv
    BY DEF Init
  <1>2. s.mday = 1 /\ Strikes \in Seq(Nat)
    BY SymbolAssumption
  <1>3. DaysIn(date.month, date.year) \in 28 .. 31
    BY DaysBound
  <1> QED BY <1>1, <1>2, <1>3 DEF TypeInv

LEMMA NextType == SymbolInv /\ TypeInv /\ [Next]_vars => TypeInv'
  <1> SUFFICES ASSUME SymbolInv, TypeInv, [Next]_vars PROVE TypeInv'
    OBVIOUS
  <1> Len(Strikes) \in Nat
    BY SymbolAssumption
  <1>1. ASSUME NEW strike, List(strike) PROVE TypeInv'
    BY <1>1 DEF List, TypeInv
  <1>2. CASE NextDay
    <2>1. date' = Tomorrow /\ listed' = 0
      BY <1>2 DEF NextDay
    <2>2. date.mday \in 1 .. 31
      BY DEF SymbolInv, DateInv
    <2>3. Tomorrow.mday <= DaysIn(Tomorrow.month, Tomorrow.year)
      <3>1. CASE date.mday < DaysIn(date.month, date.year)
        <4>1. /\ Tomorrow.mday = date.mday + 1
              /\ Tomorrow.month = date.month /\ Tomorrow.year = date.year
          BY <3>1 DEF Tomorrow, SymbolInv, DateInv
        <4>2. PICK days \in 28 .. 31 : days = DaysIn(date.month, date.year)
          BY DaysBound
        <4>3. DaysIn(Tomorrow.month, Tomorrow.year) = DaysIn(date.month, date.year)
          BY <4>1
        <4>4. date.mday < days
          BY <3>1, <4>2, Zenon
        <4>5. date.mday + 1 <= days
          <5>1. \A d \in 1 .. 31 : d < days => d + 1 <= days
            OBVIOUS
          <5> QED BY <2>2, <4>4, <5>1, Zenon
        <4> QED BY <4>1, <4>2, <4>3, <4>5, Zenon
      <3>2. CASE ~(date.mday < DaysIn(date.month, date.year))
        <4>1. Tomorrow.mday = 1
          BY <3>2 DEF Tomorrow
        <4>2. DaysIn(Tomorrow.month, Tomorrow.year) \in 28 .. 31
          BY DaysBound
        <4> QED BY <4>1, <4>2
      <3> QED BY <3>1, <3>2
    <2> QED BY <2>1, <2>3 DEF TypeInv
  <1>3. CASE UNCHANGED vars
    BY <1>3 DEF vars, TypeInv
  <1> QED BY <1>1, <1>2, <1>3 DEF Next, NoSymbol, NewFolder, Mismatch

\* The variables have their types.
THEOREM TypeCorrect == Spec => []TypeOK
  <1>1. SymbolInv /\ TypeInv => TypeOK
    <2> SUFFICES ASSUME SymbolInv, TypeInv PROVE TypeOK
      OBVIOUS
    <2>1. /\ date.year \in Nat /\ date.month \in 1 .. 12 /\ date.mday \in 1 .. 31
          /\ first \in 0 .. 6 /\ wday = (first + date.mday - 1) % 7
      BY DEF SymbolInv, DateInv
    <2>2. PICK days \in 28 .. 31 : days = DaysIn(date.month, date.year)
      BY DaysBound
    <2>3. ASSUME NEW f \in folders PROVE f.symbol.week \in 1 .. 25 /\ f.symbol.year \in 0 .. 9
      BY <2>3 DEF SymbolInv, FolderInv
    <2>4. date.mday <= days
      BY <2>2, Zenon DEF TypeInv
    <2>5. date.mday \in 1 .. days
      BY <2>1, <2>4
    <2>6. date.mday \in 1 .. DaysIn(date.month, date.year)
      BY <2>2, <2>5, Zenon
    <2>7. wday \in 0 .. 6
      BY <2>1
    <2> QED BY <2>1, <2>3, <2>6, <2>7 DEF TypeInv, TypeOK
  <1> QED BY <1>1, InitSymbol, NextSymbol, InitType, NextType, PTL DEF Spec
=============================================================================
