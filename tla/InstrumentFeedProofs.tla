------------------------ MODULE InstrumentFeedProofs ------------------------
(***************************************************************************)
(* Proofs about InstrumentFeed, for every plan of days, every room of the  *)
(* table, every list of equities and every conversion of symbols.          *)
(***************************************************************************)
EXTENDS InstrumentFeed, FiniteSetTheorems, WellFoundedInduction, TLAPS

PlanInv == plan \in Plans /\ day \in 1 .. Len(plan) /\ at \in 0 .. Len(Today)

TableInv == /\ IsFiniteSet(DOMAIN inst) /\ Cardinality(DOMAIN inst) <= Room
            /\ \A l \in DOMAIN inst : Entry(l)

FolderInv == /\ \A s \in DOMAIN folders : folders[s].code \in DOMAIN Corise \cup {None}
             /\ \A l \in DOMAIN scid : scid[l] \in DOMAIN folders
             /\ cut \subseteq DOMAIN Corise

ProcessInv == /\ known \in KnownSets /\ lost \in BOOLEAN /\ spoiled \in BOOLEAN
              /\ status \in {"up", "down", "hung", "crashed"}

TypeInv == PlanInv /\ TableInv /\ FolderInv /\ ProcessInv

LEMMA PlanFacts ==
  ASSUME plan \in Plans, day \in 1 .. Len(plan)
  PROVE  /\ Len(plan) \in Nat \ {0} /\ Len(Today) \in Nat
         /\ \A j \in DOMAIN Today :
               Today[j].product = "option" => Today[j].symbol \in DOMAIN Corise
  BY InstrumentAssumption DEF Today

LEMMA InitType == Init => TypeInv
  <1> SUFFICES ASSUME Init PROVE TypeInv
    OBVIOUS
  <1>1. PlanInv
    <2>1. plan \in Plans /\ day = 1 /\ at = 0
      BY DEF Init
    <2>2. Len(plan) \in Nat \ {0}
      BY <2>1, InstrumentAssumption
    <2>3. day \in 1 .. Len(plan)
      BY <2>1, <2>2
    <2> QED BY <2>1, <2>3, PlanFacts DEF PlanInv
  <1>2. TableInv
    <2>1. DOMAIN inst = {}
      BY DEF Init
    <2> QED BY <2>1, FS_EmptySet, InstrumentAssumption DEF TableInv
  <1>3. FolderInv
    <2>1. DOMAIN folders = {} /\ DOMAIN scid = {} /\ cut = {}
      BY DEF Init
    <2> QED BY <2>1 DEF FolderInv
  <1>4. ProcessInv
    BY DEF Init, ProcessInv
  <1> QED BY <1>1, <1>2, <1>3, <1>4 DEF TypeInv

\* A definition that is received leaves the plan within its bounds.
LEMMA ReceiveFacts ==
  ASSUME PlanInv, NEW d, NEW product, Receive(d, product)
  PROVE  PlanInv' /\ (product = "option" => d.symbol \in DOMAIN Corise)
  <1>1. Len(plan) \in Nat \ {0} /\ Len(Today) \in Nat
    BY PlanFacts DEF PlanInv
  <1>2. /\ at' = at + 1 /\ at < Len(Today) /\ UNCHANGED <<plan, day>>
        /\ d = Today[at + 1] /\ d.product = product
    BY DEF Receive
  <1>3. PlanInv'
    BY <1>1, <1>2 DEF PlanInv, Today
  <1>4. at + 1 \in 1 .. Len(Today)
    BY <1>1, <1>2 DEF PlanInv
  <1>5. product = "option" => d.symbol \in DOMAIN Corise
    <2>1. plan \in Plans /\ day \in 1 .. Len(plan)
      BY DEF PlanInv
    <2>2. at + 1 \in DOMAIN Today
      BY <1>4, <2>1, InstrumentAssumption DEF Today
    <2> QED BY <1>2, <2>1, <2>2, PlanFacts
  <1> QED BY <1>3, <1>5

\* updateInst and deleteInst keep the table within its room.
LEMMA TableFacts ==
  ASSUME TableInv, NEW d, d.product \in {"equity", "root"}, UpdateInst(d) \/ DeleteInst(d)
  PROVE  TableInv'
  <1>1. /\ IsFiniteSet(DOMAIN inst) /\ Cardinality(DOMAIN inst) \in Nat /\ Room \in Nat
        /\ Cardinality(DOMAIN inst) <= Room
    BY InstrumentAssumption, FS_CardinalityType DEF TableInv
  <1>2. CASE UpdateInst(d) /\ ~spoiled /\ Storable(d)
    <2>1. inst' = [l \in DOMAIN inst \cup {d.locate} |->
                    IF l = d.locate
                    THEN [product |-> d.product, parent |-> d.parent, symbol |-> d.symbol]
                    ELSE inst[l]]
      BY <1>2 DEF UpdateInst
    <2>2. DOMAIN inst' = DOMAIN inst \cup {d.locate}
      BY <2>1
    <2>3. /\ IsFiniteSet(DOMAIN inst \cup {d.locate})
          /\ Cardinality(DOMAIN inst \cup {d.locate})
               = IF d.locate \in DOMAIN inst THEN Cardinality(DOMAIN inst)
                                            ELSE Cardinality(DOMAIN inst) + 1
      BY <1>1, FS_AddElement
    <2>4. Cardinality(DOMAIN inst \cup {d.locate}) <= Room
      BY <1>1, <1>2, <2>3 DEF Storable
    <2>5. \A l \in DOMAIN inst' : Entry(l)'
      BY <2>1 DEF TableInv, Entry
    <2> QED BY <2>2, <2>3, <2>4, <2>5 DEF TableInv
  <1>3. CASE UpdateInst(d) /\ ~(~spoiled /\ Storable(d))
    BY <1>3 DEF UpdateInst, TableInv, Entry
  <1>4. CASE DeleteInst(d)
    <2>1. inst' = [l \in DOMAIN inst \ {d.locate} |-> inst[l]]
      BY <1>4 DEF DeleteInst
    <2>2. DOMAIN inst' = DOMAIN inst \ {d.locate}
      BY <2>1
    <2>3. /\ IsFiniteSet(DOMAIN inst \ {d.locate})
          /\ Cardinality(DOMAIN inst \ {d.locate})
               = IF d.locate \in DOMAIN inst THEN Cardinality(DOMAIN inst) - 1
                                            ELSE Cardinality(DOMAIN inst)
      BY <1>1, FS_RemoveElement
    <2>4. Cardinality(DOMAIN inst \ {d.locate}) <= Room
      BY <1>1, <2>3
    <2>5. \A l \in DOMAIN inst' : Entry(l)'
      BY <2>1 DEF TableInv, Entry
    <2> QED BY <2>2, <2>3, <2>4, <2>5 DEF TableInv
  <1> QED BY <1>2, <1>3, <1>4

\* What an option's definition does to the folders, also when it is cut short: that
\* of its symbol is there afterwards, with the code it had if it was there before.
LEMMA FolderFacts ==
  ASSUME NEW d, OptionAccepted(d) \/ OptionInterrupted(d)
  PROVE  /\ DOMAIN folders' = DOMAIN folders \cup {Corise[d.symbol]}
         /\ folders'[Corise[d.symbol]].code \in {d.symbol, None}
         /\ OptionAccepted(d) => folders'[Corise[d.symbol]].code = d.symbol
         /\ \A s \in DOMAIN folders :
               /\ s # Corise[d.symbol] => folders'[s] = folders[s]
               /\ s = Corise[d.symbol] => folders[s].code = d.symbol /\ folders'[s].code = d.symbol
  <1> DEFINE c == Corise[d.symbol]
  <1>1. c \in DOMAIN folders => folders[c].code = d.symbol
    BY DEF OptionAccepted, OptionInterrupted, FolderUsable
  <1>2. PICK m : /\ Put(d, m) /\ m.code \in {d.symbol, None}
                 /\ OptionAccepted(d) \/ c \in DOMAIN folders => m.code = d.symbol
    <2>1. CASE OptionAccepted(d)
      <3>1. PICK parent : Put(d, Master(d, parent))
        BY <2>1 DEF OptionAccepted
      <3> QED BY <3>1 DEF Master
    <2>2. CASE OptionInterrupted(d)
      <3>1. PICK parent, m :
              /\ Put(d, m)
              /\ \/ \E old : m \in Written(old, Master(d, parent))
                 \/ c \notin DOMAIN folders /\ m \in {Empty(None), Empty(d.symbol)}
        BY <2>2 DEF OptionInterrupted
      <3>2. ASSUME NEW old, m \in Written(old, Master(d, parent)) PROVE m.code = d.symbol
        <4> DEFINE new == Master(d, parent)
        <4>1. new = [code |-> d.symbol, scid |-> d.locate, unid |-> parent.code, unps |-> parent.symbol]
          BY DEF Master
        <4>2. m \in {[new EXCEPT !.unid = old.unid, !.unps = old.unps], [new EXCEPT !.unps = old.unps], new}
          BY <3>2 DEF Written
        <4> HIDE DEF new
        <4>3. [new EXCEPT !.unps = old.unps].code = d.symbol /\ new.code = d.symbol
          BY <4>1
        <4>4. [new EXCEPT !.unid = old.unid, !.unps = old.unps].code = d.symbol
          BY <4>1
        <4> QED BY <4>2, <4>3, <4>4
      <3>3. ASSUME m \in {Empty(None), Empty(d.symbol)} PROVE m.code \in {d.symbol, None}
        BY <3>3 DEF Empty
      <3>4. ~OptionAccepted(d)
        <4>1. last' = Nothing
          BY <2>2 DEF OptionInterrupted
        <4>2. OptionAccepted(d) => last'.kind = d.product /\ d.product = "option"
          BY DEF OptionAccepted, Handled, Receive
        <4> QED BY <4>1, <4>2 DEF Nothing
      <3> QED BY <3>1, <3>2, <3>3, <3>4
    <2> QED BY <2>1, <2>2
  <1>3. folders' = [x \in DOMAIN folders \cup {c} |-> IF x = c THEN m ELSE folders[x]]
    BY <1>2 DEF Put
  <1> HIDE DEF c
  <1>4. /\ DOMAIN folders' = DOMAIN folders \cup {c} /\ folders'[c] = m
        /\ \A x \in DOMAIN folders : x # c => folders'[x] = folders[x]
    BY <1>3
  <1> QED BY <1>1, <1>2, <1>4 DEF c

\* What an accepted definition does to the map from locate codes to symbols.
LEMMA ScidFacts ==
  ASSUME NEW d, OptionAccepted(d)
  PROVE  \/ /\ UNCHANGED <<scid, cut>>
            /\ Corise[d.symbol] \in DOMAIN folders
            /\ folders[Corise[d.symbol]].code = d.symbol
            /\ folders[Corise[d.symbol]].scid = d.locate
         \/ /\ scid' = [l \in DOMAIN scid \cup {d.locate} |->
                           IF l = d.locate THEN Corise[d.symbol] ELSE scid[l]]
            /\ cut' = cut \ {d.symbol}
  <1>1. PICK parent : ScidUpdate(d, parent)
    BY DEF OptionAccepted
  <1>2. Master(d, parent).code = d.symbol /\ Master(d, parent).scid = d.locate
    BY DEF Master
  <1> QED BY <1>1, <1>2 DEF ScidUpdate

LEMMA OptionType ==
  ASSUME TypeInv, NEW d, OptionAccepted(d) \/ OptionInterrupted(d)
  PROVE  TypeInv'
  <1>1. Receive(d, "option") /\ UNCHANGED <<inst, spoiled>> /\ status' \in {status, "down"}
    BY DEF OptionAccepted, OptionInterrupted
  <1>2. PlanInv' /\ d.symbol \in DOMAIN Corise
    BY <1>1, ReceiveFacts DEF TypeInv
  <1>3. DOMAIN folders' = DOMAIN folders \cup {Corise[d.symbol]}
    BY FolderFacts
  <1>4. \A s \in DOMAIN folders' : folders'[s].code \in DOMAIN Corise \cup {None}
    <2>1. ASSUME NEW s \in DOMAIN folders' PROVE folders'[s].code \in DOMAIN Corise \cup {None}
      <3>1. CASE s = Corise[d.symbol]
        BY <1>2, <3>1, FolderFacts
      <3>2. CASE s # Corise[d.symbol]
        <4>1. s \in DOMAIN folders /\ folders'[s] = folders[s]
          BY <1>3, <3>2, FolderFacts
        <4> QED BY <4>1 DEF TypeInv, FolderInv
      <3> QED BY <3>1, <3>2
    <2> QED BY <2>1
  <1>5. cut' \subseteq DOMAIN Corise /\ \A l \in DOMAIN scid' : scid'[l] \in DOMAIN folders'
    <2>1. CASE UNCHANGED <<scid, cut>>
      BY <1>3, <2>1 DEF TypeInv, FolderInv
    <2>2. CASE /\ scid' = [l \in DOMAIN scid \cup {d.locate} |->
                             IF l = d.locate THEN Corise[d.symbol] ELSE scid[l]]
               /\ cut' = cut \ {d.symbol}
      BY <1>3, <2>2 DEF TypeInv, FolderInv
    <2>3. CASE OptionInterrupted(d)
      <3>1. scid' = scid /\ cut' = cut \cup {d.symbol}
        BY <2>3 DEF OptionInterrupted
      <3> QED BY <1>2, <1>3, <3>1 DEF TypeInv, FolderInv
    <2> QED BY <2>1, <2>2, <2>3, ScidFacts
  <1> QED BY <1>1, <1>2, <1>4, <1>5 DEF TypeInv, TableInv, Entry, FolderInv, ProcessInv, Receive

LEMMA NextType == TypeInv /\ [Next]_vars => TypeInv'
  <1> SUFFICES ASSUME TypeInv, [Next]_vars PROVE TypeInv'
    OBVIOUS
  <1>1. ASSUME NEW d, Equity(d) PROVE TypeInv'
    <2>1. /\ Receive(d, "equity") /\ (UpdateInst(d) \/ DeleteInst(d))
          /\ UNCHANGED <<spoiled, option, status>>
      BY <1>1 DEF Equity
    <2>2. PlanInv' /\ TableInv'
      BY <2>1, ReceiveFacts, TableFacts DEF TypeInv, Receive
    <2> QED BY <2>1, <2>2 DEF TypeInv, FolderInv, ProcessInv, Receive, option
  <1>2. ASSUME NEW d, Root(d) PROVE TypeInv'
    <2>1. /\ Receive(d, "root") /\ (UpdateInst(d) \/ DeleteInst(d))
          /\ UNCHANGED <<spoiled, option, status>>
      BY <1>2 DEF Root
    <2>2. PlanInv' /\ TableInv'
      BY <2>1, ReceiveFacts, TableFacts DEF TypeInv, Receive
    <2> QED BY <2>1, <2>2 DEF TypeInv, FolderInv, ProcessInv, Receive, option
  <1>3. ASSUME NEW d, OptionRefused(d) \/ OptionFails(d) PROVE TypeInv'
    <2>1. /\ Receive(d, "option") /\ UNCHANGED <<inst, spoiled, option>>
          /\ status' \in {status, "hung", "crashed"}
      BY <1>3 DEF OptionRefused, OptionFails
    <2>2. PlanInv'
      BY <2>1, ReceiveFacts DEF TypeInv
    <2> QED BY <2>1, <2>2 DEF TypeInv, TableInv, Entry, FolderInv, ProcessInv, Receive, option
  <1>4. ASSUME NEW d, Quote(d) PROVE TypeInv'
    BY <1>4 DEF Quote, TypeInv, PlanInv, Today, TableInv, Entry, FolderInv, ProcessInv, option
  <1>5. CASE Lose
    <2>1. /\ at' = at + 1 /\ at < Len(Today) /\ lost' = TRUE
          /\ UNCHANGED <<plan, day, inst, spoiled, option, known, status>>
      BY <1>5 DEF Lose
    <2>2. PlanInv'
      BY <2>1, PlanFacts DEF TypeInv, PlanInv, Today
    <2> QED BY <2>1, <2>2 DEF TypeInv, TableInv, Entry, FolderInv, ProcessInv, option
  <1>6. CASE NewDay
    <2>1. /\ day' = day + 1 /\ day < Len(plan) /\ at' = 0 /\ lost' = FALSE
          /\ UNCHANGED <<plan, inst, spoiled, option, known, status>>
      BY <1>6 DEF NewDay
    <2>2. PlanInv'
      <3>1. plan' \in Plans /\ day' \in 1 .. Len(plan')
        BY <2>1, PlanFacts DEF TypeInv, PlanInv
      <3>2. Len(Today') \in Nat
        BY <3>1, InstrumentAssumption DEF Today
      <3> QED BY <2>1, <3>1, <3>2 DEF PlanInv
    <2> QED BY <2>1, <2>2 DEF TypeInv, TableInv, Entry, FolderInv, ProcessInv, option
  <1>7. CASE Stop \/ Start
    <2>1. /\ UNCHANGED <<plan, day, at, inst, spoiled, option, lost>>
          /\ known' \in KnownSets /\ status' \in {"up", "down"}
      BY <1>7 DEF Stop, Start, TypeInv, ProcessInv
    <2> QED BY <2>1 DEF TypeInv, PlanInv, Today, TableInv, Entry, FolderInv, ProcessInv, option
  <1>8. CASE UNCHANGED vars
    BY <1>8 DEF vars, TypeInv, PlanInv, Today, TableInv, Entry, FolderInv, ProcessInv, option
  <1>9. ASSUME NEW d, TableInterrupted(d) PROVE TypeInv'
    <2>1. /\ Receive(d, "equity") \/ Receive(d, "root")
          /\ DOMAIN inst' = {} /\ spoiled' = TRUE /\ status' = "down" /\ UNCHANGED option
      BY <1>9 DEF TableInterrupted
    <2>2. PlanInv' /\ UNCHANGED <<known, lost>>
      BY <2>1, ReceiveFacts DEF TypeInv, Receive
    <2>3. TableInv'
      BY <2>1, FS_EmptySet, InstrumentAssumption DEF TableInv
    <2> QED BY <2>1, <2>2, <2>3 DEF TypeInv, FolderInv, ProcessInv, option
  <1> QED BY <1>1, <1>2, <1>3, <1>4, <1>5, <1>6, <1>7, <1>8, <1>9, OptionType
          DEF Next, Definition, Interrupted

\* The variables have their types: in particular options are never put into the
\* instrument table, and it never outgrows its room.
THEOREM TypeCorrect == Spec => []TypeOK
  <1>1. TypeInv => TypeOK
    BY DEF TypeInv, PlanInv, TableInv, FolderInv, ProcessInv, TypeOK
  <1> QED BY <1>1, InitType, NextType, PTL DEF Spec

\* The folder of a symbol is never given to another option, nor does it go away
\* (_init_symbol).
THEOREM CodeCorrect == Spec => CodeNeverChanges
  <1>1. [Next]_vars =>
          [\A s \in DOMAIN folders :
              s \in DOMAIN folders' /\ folders'[s].code = folders[s].code]_vars
    <2> SUFFICES ASSUME Next, NEW s \in DOMAIN folders
                 PROVE  s \in DOMAIN folders' /\ folders'[s].code = folders[s].code
      OBVIOUS
    <2>1. CASE UNCHANGED option
      BY <2>1 DEF option
    <2>2. ASSUME NEW d, OptionAccepted(d) \/ OptionInterrupted(d)
          PROVE  s \in DOMAIN folders' /\ folders'[s].code = folders[s].code
      BY <2>2, FolderFacts
    <2> QED BY <2>1, <2>2 DEF Next, Definition, Interrupted, TableInterrupted, Equity, Root,
                              OptionRefused, OptionFails, Quote, Lose, NewDay, Stop, Start
  <1> QED BY <1>1, PTL DEF Spec, CodeNeverChanges

-----------------------------------------------------------------------------
\* What is listed on a day, and the locate code a symbol has on it.
ListedOn(d) == {plan[d][i] : i \in DOMAIN plan[d]}
CodeOn(d, s) == (CHOOSE e \in ListedOn(d) : e.symbol = s).locate

\* An option that was accepted by a day, and on each day since it first was.
AcceptedBy(s, n) == \E e \in 1 .. n : <<e, s>> \in accepted
Unbroken(s, n) == AcceptedBy(s, n) /\ \A d \in 1 .. n : AcceptedBy(s, d) => <<d, s>> \in accepted

\* The folder of an option, made for it and last written under a locate code.
FolderOf(s, l) == /\ Corise[s] \in DOMAIN folders
                  /\ folders[Corise[s]].code = s /\ folders[Corise[s]].scid = l

Leads(s, l) == l \in DOMAIN scid /\ scid[l] = Corise[s]

AcceptedInv ==
    /\ \A a \in accepted : \E d \in 1 .. day : \E e \in ListedOn(d) : a = <<d, e.symbol>>
    /\ \A x \in DOMAIN folders :
          \/ folders[x].code \in cut \cup {None}
          \/ \E d \in 1 .. day : <<d, folders[x].code>> \in accepted

\* The code of today leads to the folder of an option accepted today; yesterday's
\* still leads to that of one which is not, unless another has it today.  Not so
\* for an option whose registration was interrupted.
RouteInv ==
    \A s : s \notin cut =>
      /\ Unbroken(s, day) => FolderOf(s, CodeOn(day, s)) /\ Leads(s, CodeOn(day, s))
      /\ Unbroken(s, day - 1) /\ <<day, s>> \notin accepted =>
            /\ FolderOf(s, CodeOn(day - 1, s))
            /\ \/ Leads(s, CodeOn(day - 1, s))
               \/ \E d \in Sent : d.locate = CodeOn(day - 1, s) /\ d.symbol # s

RoutingInv == PlanInv /\ AcceptedInv /\ RouteInv

\* A definition of the day is the only one with its symbol or its code.
LEMMA ListedFacts ==
  ASSUME PlanInv, NEW d \in Listed
  PROVE  /\ d.locate = CodeOn(day, d.symbol)
         /\ \A e \in Listed : e.locate = d.locate => e.symbol = d.symbol
  <1>1. plan \in Plans /\ day \in 1 .. Len(plan)
    BY DEF PlanInv
  <1>2. \A j, k \in DOMAIN Today :
          Today[j].symbol = Today[k].symbol \/ Today[j].locate = Today[k].locate => j = k
    BY <1>1, ListAssumption DEF Today
  <1>3. PICK i \in DOMAIN Today : d = Today[i]
    BY DEF Listed
  <1>4. d.locate = CodeOn(day, d.symbol)
    <2> DEFINE e == CHOOSE e \in Listed : e.symbol = d.symbol
    <2>1. e \in Listed /\ e.symbol = d.symbol
      OBVIOUS
    <2>2. PICK j \in DOMAIN Today : e = Today[j]
      BY <2>1 DEF Listed
    <2>3. e = d
      BY <1>2, <1>3, <2>1, <2>2
    <2> QED BY <2>3 DEF CodeOn, ListedOn, Listed, Today
  <1>5. ASSUME NEW e \in Listed, e.locate = d.locate PROVE e.symbol = d.symbol
    <2>1. PICK j \in DOMAIN Today : e = Today[j]
      BY DEF Listed
    <2> QED BY <1>2, <1>3, <1>5, <2>1
  <1> QED BY <1>4, <1>5

LEMMA SentListed == PlanInv => Sent \subseteq Listed
  <1> SUFFICES ASSUME PlanInv PROVE Sent \subseteq Listed
    OBVIOUS
  <1>1. plan \in Plans /\ day \in 1 .. Len(plan) /\ at \in 0 .. Len(Today)
    BY DEF PlanInv
  <1>2. Len(Today) \in Nat
    BY <1>1, PlanFacts
  <1>3. \A i \in 1 .. at : i \in DOMAIN Today
    BY <1>1, <1>2, InstrumentAssumption DEF Today
  <1> QED BY <1>3 DEF Sent, Listed

\* The definition that is received becomes one of those sent.
LEMMA ReceivedSent ==
  ASSUME PlanInv, NEW d, NEW product, Receive(d, product)
  PROVE  d \in Sent' /\ Sent \subseteq Sent' /\ d \in Listed
  <1>1. Len(Today) \in Nat /\ at \in Nat /\ plan \in Plans /\ day \in 1 .. Len(plan)
    BY PlanFacts DEF PlanInv
  <1>2. at' = at + 1 /\ at < Len(Today) /\ d = Today[at + 1] /\ Today' = Today
    BY DEF Receive, Today
  <1>3. Sent' = {Today[i] : i \in 1 .. at + 1}
    BY <1>2 DEF Sent
  <1>4. at + 1 \in 1 .. at + 1 /\ \A i \in 1 .. at : i \in 1 .. at + 1
    BY <1>1
  <1>5. at + 1 \in DOMAIN Today
    BY <1>1, <1>2, InstrumentAssumption DEF Today
  <1> QED BY <1>2, <1>3, <1>4, <1>5 DEF Sent, Listed

\* Steps that accept nothing, on the same day.
LEMMA RoutingStays ==
  ASSUME RoutingInv, UNCHANGED <<plan, day, option>>, PlanInv', Sent \subseteq Sent'
  PROVE  RoutingInv'
  <1>1. AcceptedInv'
    BY DEF RoutingInv, AcceptedInv, ListedOn, option
  <1>2. ASSUME NEW s
        PROVE  /\ Unbroken(s, day)' <=> Unbroken(s, day)
               /\ Unbroken(s, day - 1)' <=> Unbroken(s, day - 1)
               /\ FolderOf(s, CodeOn(day, s))' <=> FolderOf(s, CodeOn(day, s))
               /\ FolderOf(s, CodeOn(day - 1, s))' <=> FolderOf(s, CodeOn(day - 1, s))
               /\ Leads(s, CodeOn(day, s))' <=> Leads(s, CodeOn(day, s))
               /\ Leads(s, CodeOn(day - 1, s))' <=> Leads(s, CodeOn(day - 1, s))
               /\ CodeOn(day - 1, s)' = CodeOn(day - 1, s)
    BY DEF Unbroken, AcceptedBy, FolderOf, Leads, CodeOn, ListedOn, option
  <1>3. RouteInv'
    BY <1>2 DEF RoutingInv, RouteInv, option
  <1> QED BY <1>1, <1>3 DEF RoutingInv

\* What an accepted definition leaves in the folder and in the map.
LEMMA AcceptedWrites ==
  ASSUME NEW d, OptionAccepted(d)
  PROVE  LET c == Corise[d.symbol]
         IN  /\ c \in DOMAIN folders' /\ folders'[c].code = d.symbol /\ folders'[c].scid = d.locate
             /\ \/ /\ UNCHANGED <<scid, cut>>
                   /\ c \in DOMAIN folders /\ folders[c].code = d.symbol
                   /\ folders[c].scid = d.locate
                \/ /\ DOMAIN scid' = DOMAIN scid \cup {d.locate} /\ scid'[d.locate] = c
                   /\ \A l \in DOMAIN scid : l # d.locate => scid'[l] = scid[l]
                   /\ cut' = cut \ {d.symbol}
  <1> DEFINE c == Corise[d.symbol]
  <1>1. PICK parent : Put(d, Master(d, parent))
    BY DEF OptionAccepted
  <1>2. folders' = [x \in DOMAIN folders \cup {c} |-> IF x = c THEN Master(d, parent) ELSE folders[x]]
    BY <1>1 DEF Put
  <1>3. Master(d, parent).code = d.symbol /\ Master(d, parent).scid = d.locate
    BY DEF Master
  <1>4. c \in DOMAIN folders' /\ folders'[c] = Master(d, parent)
    BY <1>2
  <1>5. CASE /\ scid' = [l \in DOMAIN scid \cup {d.locate} |-> IF l = d.locate THEN c ELSE scid[l]]
             /\ cut' = cut \ {d.symbol}
    <2> HIDE DEF c
    <2> QED BY <1>3, <1>4, <1>5 DEF c
  <1> QED BY <1>3, <1>4, <1>5, ScidFacts

\* How a symbol's record of acceptance grows.
LEMMA AcceptedGrows ==
  ASSUME PlanInv, AcceptedInv, NEW t, t # None, accepted' = accepted \cup {<<day, t>>}, day' = day
  PROVE  /\ \A s : s # t => /\ Unbroken(s, day)' <=> Unbroken(s, day)
                            /\ Unbroken(s, day - 1)' <=> Unbroken(s, day - 1)
                            /\ <<day, s>> \in accepted' <=> <<day, s>> \in accepted
         /\ <<day, t>> \in accepted'
         /\ Unbroken(t, day)' => \/ Unbroken(t, day)
                                 \/ <<day, t>> \notin accepted /\ Unbroken(t, day - 1)
                                 \/ t \notin cut => \A x \in DOMAIN folders : folders[x].code # t
  <1>1. day \in Nat \ {0}
    BY PlanFacts DEF PlanInv
  <1>2. ASSUME NEW s, s # t
        PROVE  /\ Unbroken(s, day)' <=> Unbroken(s, day)
               /\ Unbroken(s, day - 1)' <=> Unbroken(s, day - 1)
               /\ <<day, s>> \in accepted' <=> <<day, s>> \in accepted
    <2>1. \A e : <<e, s>> \in accepted' <=> <<e, s>> \in accepted
      BY <1>2
    <2> QED BY <2>1 DEF Unbroken, AcceptedBy
  <1>3. ASSUME Unbroken(t, day)'
        PROVE  \/ Unbroken(t, day)
               \/ <<day, t>> \notin accepted /\ Unbroken(t, day - 1)
               \/ t \notin cut => \A x \in DOMAIN folders : folders[x].code # t
    <2>1. CASE <<day, t>> \in accepted
      <3>1. accepted' = accepted
        BY <2>1
      <3> QED BY <1>3, <3>1 DEF Unbroken, AcceptedBy
    <2>2. CASE <<day, t>> \notin accepted /\ AcceptedBy(t, day - 1)
      <3>1. \A e \in 1 .. day - 1 : e \in 1 .. day /\ e # day
        BY <1>1
      <3>2. \A e \in 1 .. day - 1 : <<e, t>> \in accepted' <=> <<e, t>> \in accepted
        BY <3>1
      <3>3. \A e \in 1 .. day - 1 : \A f \in 1 .. e : f \in 1 .. day - 1
        BY <1>1
      <3>4. \A e \in 1 .. day - 1 : AcceptedBy(t, e)' <=> AcceptedBy(t, e)
        BY <3>2, <3>3 DEF AcceptedBy
      <3>5. \A e \in 1 .. day - 1 : AcceptedBy(t, e) => <<e, t>> \in accepted
        BY <1>3, <3>1, <3>2, <3>4 DEF Unbroken
      <3> QED BY <2>2, <3>5 DEF Unbroken
    <2>3. CASE <<day, t>> \notin accepted /\ ~AcceptedBy(t, day - 1)
      <3>1. \A e \in 1 .. day : <<e, t>> \notin accepted
        <4>1. \A e \in 1 .. day : e = day \/ e \in 1 .. day - 1
          BY <1>1
        <4> QED BY <2>3, <4>1 DEF AcceptedBy
      <3> QED BY <3>1 DEF AcceptedInv
    <2> QED BY <2>1, <2>2, <2>3
  <1> QED BY <1>2, <1>3

LEMMA AcceptedKeepsRouting ==
  ASSUME RoutingInv, NEW d, OptionAccepted(d)
  PROVE  RoutingInv'
  <1> DEFINE t == d.symbol
             c == Corise[t]
  <1>1. /\ Receive(d, "option") /\ PlanInv /\ AcceptedInv /\ RouteInv
        /\ accepted' = accepted \cup {<<day, t>>} /\ UNCHANGED <<plan, day>>
    BY DEF OptionAccepted, Receive, RoutingInv
  <1>2. /\ PlanInv' /\ d \in Sent' /\ Sent \subseteq Sent' /\ d \in Listed
        /\ t \in DOMAIN Corise /\ t # None
    BY <1>1, ReceiveFacts, ReceivedSent, InstrumentAssumption
  <1>3. /\ d.locate = CodeOn(day, t)
        /\ \A e \in Listed : e.locate = d.locate => e.symbol = t
    BY <1>1, <1>2, ListedFacts
  <1>4. /\ c \in DOMAIN folders' /\ folders'[c].code = t /\ folders'[c].scid = d.locate
        /\ \/ /\ UNCHANGED <<scid, cut>>
              /\ c \in DOMAIN folders /\ folders[c].code = t /\ folders[c].scid = d.locate
           \/ /\ DOMAIN scid' = DOMAIN scid \cup {d.locate} /\ scid'[d.locate] = c
              /\ \A l \in DOMAIN scid : l # d.locate => scid'[l] = scid[l]
              /\ cut' = cut \ {t}
    BY AcceptedWrites
  <1>5. /\ DOMAIN folders' = DOMAIN folders \cup {c}
        /\ \A x \in DOMAIN folders : /\ x # c => folders'[x] = folders[x]
                                     /\ x = c => folders[x].code = t
    BY FolderFacts
  <1>6. AcceptedInv'
    <2>1. day \in Nat \ {0}
      BY <1>1, PlanFacts DEF PlanInv
    <2>2. day \in 1 .. day
      BY <2>1
    <2>3. d \in ListedOn(day) /\ \A e : ListedOn(e)' = ListedOn(e)
      BY <1>1, <1>2 DEF Listed, ListedOn, Today
    <2>4. \A a \in accepted' : \E e \in 1 .. day : \E f \in ListedOn(e) : a = <<e, f.symbol>>
      BY <1>1, <2>2, <2>3 DEF AcceptedInv
    <2> HIDE DEF t, c
    <2>5. <<day, t>> \in accepted' /\ accepted \subseteq accepted' /\ cut \subseteq cut' \cup {t}
      BY <1>1, <1>4
    <2>6. ASSUME NEW x \in DOMAIN folders'
          PROVE  \/ folders'[x].code \in cut' \cup {None}
                 \/ \E e \in 1 .. day : <<e, folders'[x].code>> \in accepted'
      <3>1. CASE folders'[x].code = t
        BY <2>2, <2>5, <3>1
      <3>2. CASE folders'[x].code # t
        <4>1. x \in DOMAIN folders /\ folders'[x] = folders[x]
          BY <1>4, <1>5, <3>2
        <4> QED BY <1>1, <2>5, <3>2, <4>1 DEF AcceptedInv
      <3> QED BY <3>1, <3>2
    <2> QED BY <1>1, <2>3, <2>4, <2>6 DEF AcceptedInv
  <1>7. /\ \A s : s # t => /\ Unbroken(s, day)' <=> Unbroken(s, day)
                           /\ Unbroken(s, day - 1)' <=> Unbroken(s, day - 1)
                           /\ <<day, s>> \in accepted' <=> <<day, s>> \in accepted
        /\ <<day, t>> \in accepted'
        /\ Unbroken(t, day)' => \/ Unbroken(t, day)
                                \/ <<day, t>> \notin accepted /\ Unbroken(t, day - 1)
                                \/ t \notin cut => \A x \in DOMAIN folders : folders[x].code # t
    BY <1>1, <1>2, AcceptedGrows
  <1>8. ASSUME NEW s, NEW l, s # t, FolderOf(s, l) PROVE FolderOf(s, l)'
    <2> HIDE DEF t, c
    <2> QED BY <1>5, <1>8 DEF FolderOf
  <1>9. ASSUME NEW s, NEW l, Leads(s, l), l # d.locate PROVE Leads(s, l)'
    BY <1>4, <1>9 DEF Leads
  <1>10. ASSUME Unbroken(t, day)', t \notin cut'
         PROVE  FolderOf(t, d.locate)' /\ Leads(t, d.locate)'
    <2>1. FolderOf(t, d.locate)'
      BY <1>4 DEF FolderOf
    <2>2. CASE d.locate \in DOMAIN scid' /\ scid'[d.locate] = c
      BY <2>1, <2>2 DEF Leads
    <2>3. CASE /\ UNCHANGED <<scid, cut>>
               /\ c \in DOMAIN folders /\ folders[c].code = t /\ folders[c].scid = d.locate
      <3>1. CASE Unbroken(t, day)
        <4>1. Leads(t, d.locate)
          BY <1>1, <1>3, <1>10, <2>3, <3>1 DEF RouteInv
        <4> QED BY <2>1, <2>3, <4>1 DEF Leads
      <3>2. CASE <<day, t>> \notin accepted /\ Unbroken(t, day - 1)
        <4>1. /\ FolderOf(t, CodeOn(day - 1, t))
              /\ \/ Leads(t, CodeOn(day - 1, t))
                 \/ \E e \in Sent : e.locate = CodeOn(day - 1, t) /\ e.symbol # t
          BY <1>1, <1>10, <2>3, <3>2 DEF RouteInv
        <4>2. CodeOn(day - 1, t) = d.locate
          BY <2>3, <4>1 DEF FolderOf
        <4>3. Leads(t, d.locate)
          BY <1>1, <1>3, <4>1, <4>2, SentListed
        <4> QED BY <2>1, <2>3, <4>3 DEF Leads
      <3> QED BY <1>7, <1>10, <2>3, <3>1, <3>2
    <2> QED BY <1>4, <2>2, <2>3
  <1>11. ASSUME NEW s, s # t, s \notin cut, Unbroken(s, day)
         PROVE  FolderOf(s, CodeOn(day, s))' /\ Leads(s, CodeOn(day, s))'
    <2>1. FolderOf(s, CodeOn(day, s)) /\ Leads(s, CodeOn(day, s))
      BY <1>1, <1>11 DEF RouteInv
    <2>2. CodeOn(day, s) # d.locate
      <3>1. <<day, s>> \in accepted
        <4>1. day \in Nat \ {0}
          BY <1>1, PlanFacts DEF PlanInv
        <4> QED BY <1>11, <4>1 DEF Unbroken
      <3>2. PICK e \in Listed : e.symbol = s
        <4>1. PICK n \in 1 .. day : \E e \in ListedOn(n) : <<day, s>> = <<n, e.symbol>>
          BY <1>1, <3>1 DEF AcceptedInv
        <4> QED BY <4>1 DEF ListedOn, Listed, Today
      <3>3. e.locate = CodeOn(day, s)
        BY <1>1, <3>2, ListedFacts
      <3> QED BY <1>3, <1>11, <3>2, <3>3
    <2>3. PICK l : l = CodeOn(day, s)
      OBVIOUS
    <2>4. CodeOn(day, s)' = l
      BY <1>1, <2>3 DEF CodeOn, ListedOn
    <2>5. FolderOf(s, l)' /\ Leads(s, l)'
      BY <1>8, <1>9, <1>11, <2>1, <2>2, <2>3
    <2> QED BY <2>4, <2>5 DEF FolderOf, Leads
  <1>12. ASSUME NEW s, s # t, s \notin cut, Unbroken(s, day - 1), <<day, s>> \notin accepted
         PROVE  /\ FolderOf(s, CodeOn(day - 1, s))'
                /\ \/ Leads(s, CodeOn(day - 1, s))'
                   \/ \E e \in Sent' : e.locate = CodeOn(day - 1, s)' /\ e.symbol # s
    <2>1. PICK l : l = CodeOn(day - 1, s)
      OBVIOUS
    <2>2. CodeOn(day - 1, s)' = l
      BY <1>1, <2>1 DEF CodeOn, ListedOn
    <2>3. /\ FolderOf(s, l)
          /\ Leads(s, l) \/ \E e \in Sent : e.locate = l /\ e.symbol # s
      BY <1>1, <1>12, <2>1 DEF RouteInv
    <2>4. FolderOf(s, l)'
      BY <1>8, <1>12, <2>3
    <2>5. Leads(s, l)' \/ \E e \in Sent' : e.locate = l /\ e.symbol # s
      BY <1>2, <1>9, <1>12, <2>3
    <2> QED BY <2>2, <2>4, <2>5 DEF FolderOf, Leads
  <1>13. RouteInv'
    <2>1. day' = day /\ CodeOn(day, t)' = d.locate
      BY <1>1, <1>3 DEF CodeOn, ListedOn
    <2>2. ASSUME Unbroken(t, day)', t \notin cut'
          PROVE  FolderOf(t, CodeOn(day, t))' /\ Leads(t, CodeOn(day, t))'
      BY <1>10, <2>1, <2>2 DEF FolderOf, Leads
    <2>3. \A s : s # t => (s \in cut' <=> s \in cut)
      BY <1>4
    <2> QED BY <1>7, <1>11, <1>12, <2>1, <2>2, <2>3 DEF RouteInv
  <1> QED BY <1>2, <1>6, <1>13 DEF RoutingInv

\* A definition cut short leaves the routing of every other option alone.
LEMMA InterruptedKeepsRouting ==
  ASSUME RoutingInv, NEW d, OptionInterrupted(d)
  PROVE  RoutingInv'
  <1> DEFINE t == d.symbol
             c == Corise[t]
  <1>1. /\ Receive(d, "option") /\ PlanInv /\ AcceptedInv /\ RouteInv
        /\ cut' = cut \cup {t} /\ UNCHANGED <<plan, day, scid, accepted>>
    BY DEF OptionInterrupted, Receive, RoutingInv
  <1>2. PlanInv' /\ Sent \subseteq Sent'
    BY <1>1, ReceiveFacts, ReceivedSent
  <1>3. /\ DOMAIN folders' = DOMAIN folders \cup {c} /\ folders'[c].code \in {t, None}
        /\ \A x \in DOMAIN folders : /\ x # c => folders'[x] = folders[x]
                                     /\ x = c => folders[x].code = t
    BY FolderFacts
  <1> HIDE DEF t, c
  <1>4. AcceptedInv'
    <2>1. \A e : ListedOn(e)' = ListedOn(e)
      BY <1>1 DEF ListedOn
    <2>2. ASSUME NEW x \in DOMAIN folders'
          PROVE  \/ folders'[x].code \in cut' \cup {None}
                 \/ \E e \in 1 .. day : <<e, folders'[x].code>> \in accepted
      <3>1. CASE x = c
        BY <1>1, <1>3, <3>1
      <3>2. CASE x # c
        <4>1. x \in DOMAIN folders /\ folders'[x] = folders[x]
          BY <1>3, <3>2
        <4> QED BY <1>1, <4>1 DEF AcceptedInv
      <3> QED BY <3>1, <3>2
    <2> QED BY <1>1, <2>1, <2>2 DEF AcceptedInv
  <1>5. ASSUME NEW s, s \notin cut'
        PROVE  /\ s \notin cut
               /\ Unbroken(s, day)' <=> Unbroken(s, day)
               /\ Unbroken(s, day - 1)' <=> Unbroken(s, day - 1)
               /\ FolderOf(s, CodeOn(day, s)) => FolderOf(s, CodeOn(day, s))'
               /\ FolderOf(s, CodeOn(day - 1, s)) => FolderOf(s, CodeOn(day - 1, s))'
               /\ Leads(s, CodeOn(day, s))' <=> Leads(s, CodeOn(day, s))
               /\ Leads(s, CodeOn(day - 1, s))' <=> Leads(s, CodeOn(day - 1, s))
               /\ CodeOn(day - 1, s)' = CodeOn(day - 1, s)
    <2>1. s # t /\ s \notin cut
      BY <1>1, <1>5
    <2>2. ASSUME NEW l, FolderOf(s, l) PROVE FolderOf(s, l)'
      BY <1>3, <2>1, <2>2 DEF FolderOf
    <2>3. CodeOn(day, s)' = CodeOn(day, s) /\ CodeOn(day - 1, s)' = CodeOn(day - 1, s)
      BY <1>1 DEF CodeOn, ListedOn
    <2>4. /\ FolderOf(s, CodeOn(day, s)) => FolderOf(s, CodeOn(day, s))'
          /\ FolderOf(s, CodeOn(day - 1, s)) => FolderOf(s, CodeOn(day - 1, s))'
      <3>1. PICK l, k : l = CodeOn(day, s) /\ k = CodeOn(day - 1, s)
        OBVIOUS
      <3>2. CodeOn(day, s)' = l /\ CodeOn(day - 1, s)' = k
        BY <2>3, <3>1
      <3>3. (FolderOf(s, l) => FolderOf(s, l)') /\ (FolderOf(s, k) => FolderOf(s, k)')
        BY <2>2
      <3> QED BY <3>1, <3>2, <3>3 DEF FolderOf
    <2> QED BY <1>1, <2>1, <2>3, <2>4 DEF Unbroken, AcceptedBy, Leads
  <1>6. RouteInv'
    BY <1>1, <1>2, <1>5 DEF RouteInv
  <1> QED BY <1>2, <1>4, <1>6 DEF RoutingInv

LEMMA NewDayKeepsRouting == RoutingInv /\ NewDay => RoutingInv'
  <1> SUFFICES ASSUME RoutingInv, NewDay PROVE RoutingInv'
    OBVIOUS
  <1>1. /\ PlanInv /\ AcceptedInv /\ RouteInv /\ day < Len(plan) /\ day' = day + 1 /\ at' = 0
        /\ UNCHANGED <<plan, folders, scid, accepted, cut>>
    BY DEF RoutingInv, NewDay, option
  <1>2. plan \in Plans /\ day \in 1 .. Len(plan) /\ Len(plan) \in Nat \ {0}
    BY <1>1, PlanFacts DEF PlanInv
  <1>3. PlanInv'
    <2>1. plan' \in Plans /\ day' \in 1 .. Len(plan')
      BY <1>1, <1>2
    <2>2. Len(Today') \in Nat
      BY <2>1, InstrumentAssumption DEF Today
    <2> QED BY <1>1, <2>1, <2>2 DEF PlanInv
  <1>4. day \in Nat /\ day' - 1 = day /\ \A e \in 1 .. day : e \in 1 .. day' /\ e # day'
    BY <1>1, <1>2
  <1>5. AcceptedInv'
    <2>1. \A d : ListedOn(d)' = ListedOn(d)
      BY <1>1 DEF ListedOn
    <2>2. ASSUME NEW a \in accepted'
          PROVE  \E d \in 1 .. day' : \E e \in ListedOn(d)' : a = <<d, e.symbol>>
      <3>1. PICK d \in 1 .. day : \E e \in ListedOn(d) : a = <<d, e.symbol>>
        BY <1>1 DEF AcceptedInv
      <3> QED BY <1>4, <2>1, <3>1
    <2>3. ASSUME NEW x \in DOMAIN folders'
          PROVE  \/ folders'[x].code \in cut' \cup {None}
                 \/ \E d \in 1 .. day' : <<d, folders'[x].code>> \in accepted'
      <3>1. CASE folders[x].code \in cut \cup {None}
        BY <1>1, <3>1
      <3>2. CASE \E d \in 1 .. day : <<d, folders[x].code>> \in accepted
        <4>1. PICK d \in 1 .. day : <<d, folders[x].code>> \in accepted
          BY <3>2
        <4> QED BY <1>1, <1>4, <4>1
      <3> QED BY <1>1, <3>1, <3>2 DEF AcceptedInv
    <2> QED BY <2>2, <2>3 DEF AcceptedInv
  <1>6. \A s : <<day', s>> \notin accepted
    BY <1>1, <1>4 DEF AcceptedInv
  <1>7. ASSUME NEW s PROVE ~Unbroken(s, day)'
    <2>1. day' \in 1 .. day'
      BY <1>1, <1>2
    <2> QED BY <1>1, <1>6, <2>1 DEF Unbroken
  <1>8. ASSUME NEW s, s \notin cut', Unbroken(s, day - 1)'
        PROVE  FolderOf(s, CodeOn(day - 1, s))' /\ Leads(s, CodeOn(day - 1, s))'
    <2>1. Unbroken(s, day)
      BY <1>1, <1>4, <1>8 DEF Unbroken, AcceptedBy
    <2>2. FolderOf(s, CodeOn(day, s)) /\ Leads(s, CodeOn(day, s))
      BY <1>1, <1>8, <2>1 DEF RouteInv
    <2>3. CodeOn(day - 1, s)' = CodeOn(day, s)
      BY <1>1, <1>4 DEF CodeOn, ListedOn
    <2> QED BY <1>1, <2>2, <2>3 DEF FolderOf, Leads
  <1>9. RouteInv'
    BY <1>7, <1>8 DEF RouteInv
  <1> QED BY <1>3, <1>5, <1>9 DEF RoutingInv

LEMMA InitRouting == Init => RoutingInv
  <1> SUFFICES ASSUME Init PROVE RoutingInv
    OBVIOUS
  <1>1. plan \in Plans /\ day = 1 /\ at = 0 /\ DOMAIN folders = {} /\ accepted = {}
    BY DEF Init
  <1>2. PlanInv
    BY InitType DEF TypeInv
  <1> QED BY <1>1, <1>2 DEF RoutingInv, AcceptedInv, RouteInv, Unbroken, AcceptedBy

LEMMA NextRouting == RoutingInv /\ [Next]_vars => RoutingInv'
  <1> SUFFICES ASSUME RoutingInv, [Next]_vars PROVE RoutingInv'
    OBVIOUS
  <1>1. PlanInv
    BY DEF RoutingInv
  <1>2. ASSUME NEW d, Equity(d) \/ Root(d) \/ OptionRefused(d) \/ OptionFails(d)
        PROVE  RoutingInv'
    <2>1. PICK product : Receive(d, product) /\ UNCHANGED option
      BY <1>2 DEF Equity, Root, OptionRefused, OptionFails
    <2>2. PlanInv' /\ Sent \subseteq Sent'
      BY <1>1, <2>1, ReceiveFacts, ReceivedSent
    <2> QED BY <2>1, <2>2, RoutingStays DEF Receive
  <1>3. ASSUME NEW d, OptionAccepted(d) PROVE RoutingInv'
    BY <1>3, AcceptedKeepsRouting
  <1>4. CASE (\E d \in Listed : Quote(d)) \/ Stop \/ Start \/ UNCHANGED vars
    <2>1. UNCHANGED <<plan, day, at, option>>
      BY <1>4 DEF Quote, Stop, Start, vars
    <2>2. PlanInv' /\ Sent' = Sent
      BY <1>1, <2>1 DEF PlanInv, Sent, Today
    <2> QED BY <2>1, <2>2, RoutingStays
  <1>5. CASE Lose
    <2>1. at' = at + 1 /\ at < Len(Today) /\ UNCHANGED <<plan, day, option>>
      BY <1>5 DEF Lose
    <2>2. Len(Today) \in Nat /\ at \in 0 .. Len(Today) /\ Today' = Today
      BY <1>1, <2>1, PlanFacts DEF PlanInv, Today
    <2>3. PlanInv'
      BY <1>1, <2>1, <2>2 DEF PlanInv
    <2>4. \A i \in 1 .. at : i \in 1 .. at'
      BY <2>1, <2>2
    <2>5. Sent \subseteq Sent'
      BY <2>2, <2>4 DEF Sent
    <2> QED BY <2>1, <2>3, <2>5, RoutingStays
  <1>6. CASE NewDay
    BY <1>6, NewDayKeepsRouting
  <1>7. ASSUME NEW d, TableInterrupted(d) PROVE RoutingInv'
    <2>1. PICK product : Receive(d, product) /\ UNCHANGED option
      BY <1>7 DEF TableInterrupted
    <2>2. PlanInv' /\ Sent \subseteq Sent'
      BY <1>1, <2>1, ReceiveFacts, ReceivedSent
    <2> QED BY <2>1, <2>2, RoutingStays DEF Receive
  <1> QED BY <1>2, <1>3, <1>4, <1>5, <1>6, <1>7, InterruptedKeepsRouting
          DEF Next, Definition, Interrupted

\* An option accepted on every day since it first was has its market data
\* delivered to its own folder, however the codes changed hands in between,
\* whatever was lost and whichever calls of the table were interrupted, unless its
\* own registration was (fep_scidupd after a changed master, smtfold).
THEOREM RoutedCorrect == Spec => AcceptedRouted
  <1> DEFINE Right == last'.kind = "quote" /\ last'.symbol \notin cut
                        /\ AcceptedOn(day, last'.symbol) /\ EverSince(last'.symbol)
                        => last'.to = Corise[last'.symbol]
  <1>1. RoutingInv /\ [Next]_vars => [Right]_vars
    <2> SUFFICES ASSUME RoutingInv, Next PROVE Right
      OBVIOUS
    <2>1. CASE \E d \in Listed : Quote(d)
      <3>1. PICK d \in Listed : Quote(d)
        BY <2>1
      <3>2. /\ last' = [kind |-> "quote", symbol |-> d.symbol,
                        to |-> IF d.locate \in DOMAIN scid THEN scid[d.locate] ELSE None]
            /\ accepted' = accepted
        BY <3>1 DEF Quote, option
      <3>3. last'.symbol = d.symbol
            /\ last'.to = IF d.locate \in DOMAIN scid THEN scid[d.locate] ELSE None
        BY <3>2
      <3> SUFFICES ASSUME d.symbol \notin cut, AcceptedOn(day, d.symbol), EverSince(d.symbol)
                   PROVE  last'.to = Corise[d.symbol]
        BY <3>3
      <3>4. day \in 1 .. day
        BY PlanFacts DEF RoutingInv, PlanInv
      <3>5. Unbroken(d.symbol, day)
        BY <3>2, <3>4 DEF Unbroken, AcceptedBy, AcceptedOn, EverSince
      <3>6. Leads(d.symbol, CodeOn(day, d.symbol))
        BY <3>5 DEF RoutingInv, RouteInv
      <3>7. d.locate = CodeOn(day, d.symbol)
        BY ListedFacts DEF RoutingInv
      <3> QED BY <3>3, <3>6, <3>7 DEF Leads
    <2>2. ASSUME NEW d, Definition(d) PROVE last'.kind # "quote"
      <3>1. \E to : last' = [kind |-> d.product, symbol |-> d.symbol, to |-> to]
        BY <2>2 DEF Definition, Equity, Root, OptionRefused, OptionAccepted, OptionFails, Handled
      <3>2. d.product \in {"equity", "root", "option"}
        BY <2>2 DEF Definition, Equity, Root, OptionRefused, OptionAccepted, OptionFails, Receive
      <3> QED BY <3>1, <3>2
    <2>3. CASE (\E d \in Listed : Interrupted(d)) \/ Lose \/ NewDay \/ Stop \/ Start
      BY <2>3 DEF Interrupted, TableInterrupted, OptionInterrupted, Lose, NewDay, Stop, Start, Nothing
    <2> QED BY <2>1, <2>2, <2>3 DEF Next
  <1> QED BY <1>1, InitRouting, NextRouting, PTL DEF Spec, AcceptedRouted

-----------------------------------------------------------------------------
\* A set of natural numbers that is not empty has a least one.
LEMMA LeastNatural ==
  ASSUME NEW T, T \subseteq Nat, T # {}
  PROVE  \E n \in T : \A m \in T : n <= m
  <1> DEFINE less == OpToRel(<, Nat)
  <1>1. IsWellFoundedOn(less, Nat)
    BY NatLessThanWellFounded, Zenon
  <1>2. \A m, n \in Nat : m < n => <<m, n>> \in less
    BY Zenon DEF OpToRel
  <1> HIDE DEF less
  <1>3. PICK n \in T : \A m \in T : ~ (<<m, n>> \in less)
    BY <1>1, WFMin
  <1>4. ASSUME NEW m \in T PROVE n <= m
    <2>1. m \in Nat /\ n \in Nat /\ ~(m < n)
      BY <1>2, <1>3
    <2> QED BY <2>1
  <1> QED BY <1>4

\* What holds of 0 and of each successor holds of every number up to a bound.
LEMMA UpTo ==
  ASSUME NEW N \in Nat, NEW S, 0 \in S, \A n \in 0 .. N : n \in S /\ n + 1 \in 0 .. N => n + 1 \in S
  PROVE  N \in S
  <1> SUFFICES ASSUME N \notin S PROVE FALSE
    OBVIOUS
  <1> DEFINE T == {n \in Nat : n <= N /\ n \notin S}
  <1>1. PICK n \in T : \A m \in T : n <= m
    <2>1. T \subseteq Nat /\ N \in T
      OBVIOUS
    <2> QED BY <2>1, LeastNatural
  <1>2. n # 0 /\ n - 1 \in 0 .. N /\ n - 1 + 1 = n /\ n \in 0 .. N
    OBVIOUS
  <1>3. n - 1 \in S
    BY <1>1, <1>2
  <1> QED BY <1>2, <1>3

\* Climbing from an entry that hangs under an equity ends at the equity, however
\* many steps it is given.
LEMMA ClimbsToEquity ==
  ASSUME IsFiniteSet(DOMAIN inst), NEW l \in DOMAIN inst, inst[l].product # "equity",
         inst[l].parent \in DOMAIN inst, inst[inst[l].parent].product = "equity"
  PROVE  Climb(l) = inst[l].parent
  <1> DEFINE N == Cardinality(DOMAIN inst)
             Next1(f, n) == IF n = 0 THEN l
                            ELSE IF f[n - 1] \in DOMAIN inst /\ inst[f[n - 1]].product # "equity"
                                 THEN inst[f[n - 1]].parent ELSE f[n - 1]
             climb == CHOOSE f : f = [n \in 0 .. N |-> Next1(f, n)]
             w == [n \in 0 .. N |-> IF n = 0 THEN l ELSE inst[l].parent]
  <1>1. N \in Nat
    BY FS_CardinalityType
  <1>2. N # 0
    BY FS_EmptySet, FS_CardinalityType
  <1>3. Climb(l) = climb[N]
    BY DEF Climb
  <1> HIDE DEF N
  <1>4. ASSUME NEW n \in 0 .. N PROVE w[n] = Next1(w, n)
    <2>1. CASE n = 0
      BY <2>1
    <2>2. CASE n # 0
      <3>1. n - 1 \in 0 .. N
        BY <1>1, <2>2
      <3>2. w[n - 1] \in {l, inst[l].parent}
        BY <3>1
      <3> QED BY <2>2, <3>1, <3>2
    <2> QED BY <2>1, <2>2
  <1>5. \E f : f = [n \in 0 .. N |-> Next1(f, n)]
    <2>1. w = [n \in 0 .. N |-> w[n]]
      OBVIOUS
    <2> HIDE DEF w, Next1
    <2>2. w = [n \in 0 .. N |-> Next1(w, n)]
      BY <1>4, <2>1
    <2> QED BY <2>2
  <1>6. climb = [n \in 0 .. N |-> Next1(climb, n)]
    BY <1>5
  <1> HIDE DEF climb, w
  <1> DEFINE S == {n \in Nat : n # 0 => climb[n] = inst[l].parent}
  <1>7. ASSUME NEW n \in 0 .. N, n \in S, n + 1 \in 0 .. N PROVE n + 1 \in S
    <2>1. climb[n] \in {l, inst[l].parent}
      BY <1>1, <1>6, <1>7
    <2>2. n + 1 # 0 /\ (n + 1) - 1 = n
      BY <1>1
    <2>3. climb[n + 1] = IF climb[n] \in DOMAIN inst /\ inst[climb[n]].product # "equity"
                         THEN inst[climb[n]].parent ELSE climb[n]
      BY <1>6, <1>7, <2>2
    <2> QED BY <1>1, <2>1, <2>3
  <1>8. 0 \in S
    OBVIOUS
  <1>9. N \in S
    <2> HIDE DEF S
    <2> QED BY <1>1, <1>7, <1>8, UpTo
  <1> QED BY <1>2, <1>3, <1>9

-----------------------------------------------------------------------------
\* The entry that updateInst makes of a definition.
OwnEntry(x) == inst[x.locate] = [product |-> x.product, parent |-> x.parent, symbol |-> x.symbol]

\* As long as no definition of the day is lost, and no call of the table was ever
\* interrupted, what the table holds under the
\* code of an equity or a root that was sent is what that definition said, a root
\* that is there has its equity there, and an equity that is there is known to
\* the process.  A new csv is only read when the day's list has not begun or is
\* through.
TreeInv ==
    ~lost /\ ~spoiled => \A x \in Sent : x.product # "option" /\ x.locate \in DOMAIN inst =>
       /\ OwnEntry(x)
       /\ x.product = "root" => x.parent \in DOMAIN inst
       /\ x.product = "equity" /\ at < Len(Today) => x.symbol \in known

TreeIInv == TypeInv /\ TreeInv

\* What stands before a definition in the day's list.
LEMMA ReceivedUnder ==
  ASSUME PlanInv, NEW d, NEW product, Receive(d, product)
  PROVE  /\ product = "root" => \E e \in Sent : e.product = "equity" /\ e.locate = d.parent
         /\ product = "option" => \E r \in Sent : r.product = "root" /\ r.locate = d.parent
         /\ \A x \in Sent : x.locate # d.locate
         /\ Sent' = Sent \cup {d}
         /\ at < Len(Today) /\ Today' = Today
  <1>1. Len(Today) \in Nat /\ at \in Nat /\ plan \in Plans /\ day \in 1 .. Len(plan)
    BY PlanFacts DEF PlanInv
  <1>2. at' = at + 1 /\ at < Len(Today) /\ d = Today[at + 1] /\ Today' = Today /\ d.product = product
    BY DEF Receive, Today
  <1>3. at + 1 \in DOMAIN Today /\ \A i \in 1 .. at : i \in DOMAIN Today /\ i # at + 1
    BY <1>1, <1>2, InstrumentAssumption DEF Today
  <1>4. \A i \in DOMAIN Today : i < at + 1 => i \in 1 .. at
    BY <1>1, InstrumentAssumption DEF Today
  <1>5. /\ d.product = "root" =>
              \E k \in DOMAIN Today : /\ k < at + 1 /\ Today[k].product = "equity"
                                      /\ Today[k].locate = d.parent
        /\ d.product = "option" =>
              \E k \in DOMAIN Today : /\ k < at + 1 /\ Today[k].product = "root"
                                      /\ Today[k].locate = d.parent
    BY <1>1, <1>2, <1>3, TreeAssumption DEF Today
  <1>6. \A x \in Sent : x.locate # d.locate
    BY <1>1, <1>2, <1>3, ListAssumption DEF Sent, Today
  <1>7. Sent' = Sent \cup {d}
    <2>1. Sent' = {Today[i] : i \in 1 .. at + 1}
      BY <1>2 DEF Sent
    <2>2. 1 .. at + 1 = (1 .. at) \cup {at + 1}
      BY <1>1
    <2> QED BY <1>2, <2>1, <2>2 DEF Sent
  <1> QED BY <1>2, <1>4, <1>5, <1>6, <1>7 DEF Sent

\* A root that was sent has its equity among what was sent before it.
LEMMA SentUnder ==
  ASSUME PlanInv, NEW r \in Sent, r.product = "root"
  PROVE  \E e \in Sent : e.product = "equity" /\ e.locate = r.parent
  <1>1. Len(Today) \in Nat /\ at \in 0 .. Len(Today) /\ plan \in Plans /\ day \in 1 .. Len(plan)
    BY PlanFacts DEF PlanInv
  <1>2. PICK j \in 1 .. at : r = Today[j]
    BY DEF Sent
  <1>3. j \in DOMAIN Today
    BY <1>1, InstrumentAssumption DEF Today
  <1>4. PICK k \in DOMAIN Today : k < j /\ Today[k].product = "equity" /\ Today[k].locate = r.parent
    BY <1>1, <1>2, <1>3, TreeAssumption DEF Today
  <1>5. k \in 1 .. at
    BY <1>1, <1>4, InstrumentAssumption DEF Today
  <1> QED BY <1>4, <1>5 DEF Sent

\* What updateInst and deleteInst leave of the table.
LEMMA TableSteps ==
  ASSUME ~spoiled, NEW d, UpdateInst(d) \/ DeleteInst(d)
  PROVE  /\ \A l : l # d.locate => /\ l \in DOMAIN inst' <=> l \in DOMAIN inst
                                   /\ l \in DOMAIN inst => inst'[l] = inst[l]
         /\ d.locate \in DOMAIN inst' => UpdateInst(d) /\ OwnEntry(d)'
  <1>1. CASE DeleteInst(d)
    BY <1>1 DEF DeleteInst
  <1>2. CASE UpdateInst(d) /\ ~spoiled /\ Storable(d)
    <2>1. inst' = [l \in DOMAIN inst \cup {d.locate} |->
                    IF l = d.locate
                    THEN [product |-> d.product, parent |-> d.parent, symbol |-> d.symbol]
                    ELSE inst[l]]
      BY <1>2 DEF UpdateInst
    <2> QED BY <1>2, <2>1 DEF OwnEntry
  <1>3. CASE UpdateInst(d) /\ ~(~spoiled /\ Storable(d))
    BY <1>3 DEF UpdateInst, Storable
  <1> QED BY <1>1, <1>2, <1>3

\* An equity or a root goes into the table, or is removed from it, without a
\* change to what the other definitions of the day have there.
LEMMA TableKeepsTree ==
  ASSUME TreeIInv, NEW d, Equity(d) \/ Root(d)
  PROVE  TreeInv'
  <1> SUFFICES ASSUME ~lost, ~spoiled PROVE TreeInv'
    <2>1. UNCHANGED <<lost, spoiled>>
      BY DEF Equity, Root, Receive
    <2> QED BY <2>1 DEF TreeInv
  <1>1. PICK product \in {"equity", "root"} :
          /\ Receive(d, product) /\ d.product = product
          /\ UpdateInst(d) \/ DeleteInst(d)
          /\ UpdateInst(d) => IF product = "equity" THEN d.symbol \in known \/ DeleteInst(d)
                              ELSE d.parent \in DOMAIN inst \/ DeleteInst(d)
    BY DEF Equity, Root, Receive, Holds, Lacks
  <1>2. /\ \A l : l # d.locate => /\ l \in DOMAIN inst' <=> l \in DOMAIN inst
                                  /\ l \in DOMAIN inst => inst'[l] = inst[l]
        /\ d.locate \in DOMAIN inst' => UpdateInst(d) /\ OwnEntry(d)'
    BY <1>1, TableSteps
  <1>3. /\ product = "root" => \E e \in Sent : e.product = "equity" /\ e.locate = d.parent
        /\ \A x \in Sent : x.locate # d.locate
        /\ Sent' = Sent \cup {d}
        /\ at < Len(Today)
    BY <1>1, ReceivedUnder DEF TreeIInv, TypeInv
  <1>4. UNCHANGED <<known, lost, spoiled>>
    BY <1>1 DEF Receive, Equity, Root
  <1>5. d.locate \in DOMAIN inst' => ~DeleteInst(d)
    BY DEF DeleteInst
  <1> SUFFICES ASSUME NEW x \in Sent', x.product # "option", x.locate \in DOMAIN inst'
               PROVE  /\ OwnEntry(x)'
                      /\ x.product = "root" => x.parent \in DOMAIN inst'
                      /\ x.product = "equity" => x.symbol \in known
    BY <1>4 DEF TreeInv
  <1>6. CASE x = d
    <2>1. product = "root" => d.parent \in DOMAIN inst /\ d.parent # d.locate
      BY <1>1, <1>2, <1>3, <1>5, <1>6
    <2> QED BY <1>1, <1>2, <1>5, <1>6, <2>1
  <1>7. CASE x \in Sent
    <2>1. x.locate # d.locate /\ x.locate \in DOMAIN inst /\ inst'[x.locate] = inst[x.locate]
      BY <1>2, <1>3, <1>7
    <2>2. /\ OwnEntry(x)
          /\ x.product = "root" => x.parent \in DOMAIN inst
          /\ x.product = "equity" => x.symbol \in known
      BY <1>3, <1>7, <2>1 DEF TreeIInv, TreeInv
    <2>3. x.product = "root" => x.parent # d.locate
      BY <1>3, <1>7, SentUnder DEF TreeIInv, TypeInv
    <2> QED BY <1>2, <2>1, <2>2, <2>3 DEF OwnEntry
  <1> QED BY <1>3, <1>6, <1>7

LEMMA NextTree == TreeIInv /\ [Next]_vars => TreeInv'
  <1> SUFFICES ASSUME TreeIInv, [Next]_vars PROVE TreeInv'
    OBVIOUS
  <1>1. ASSUME NEW d, OptionRefused(d) \/ OptionAccepted(d) \/ OptionFails(d) \/ OptionInterrupted(d)
        PROVE  TreeInv'
    <2>1. Receive(d, "option") /\ d.product = "option" /\ UNCHANGED <<inst, spoiled, known, lost>>
      BY <1>1 DEF OptionRefused, OptionAccepted, OptionFails, OptionInterrupted, Receive
    <2>2. Sent' = Sent \cup {d} /\ at < Len(Today)
      BY <2>1, ReceivedUnder DEF TreeIInv, TypeInv
    <2> QED BY <2>1, <2>2 DEF TreeIInv, TreeInv, OwnEntry
  <1>2. CASE (\E d \in Listed : Quote(d)) \/ Stop \/ UNCHANGED vars
    BY <1>2 DEF Quote, Stop, vars, TreeIInv, TreeInv, OwnEntry, Sent, Today
  <1>3. CASE Lose
    BY <1>3 DEF Lose, TreeInv
  <1>4. CASE NewDay
    <2>1. at' = 0
      BY <1>4 DEF NewDay
    <2>2. Sent' = {}
      BY <2>1 DEF Sent
    <2> QED BY <2>2 DEF TreeInv
  <1>5. CASE Start
    <2>1. /\ UNCHANGED <<plan, day, at, inst, spoiled, lost>>
          /\ at \notin {0, Len(Today)} => known' = known
      BY <1>5 DEF Start
    <2>2. Sent' = Sent /\ Today' = Today
      BY <2>1 DEF Sent, Today
    <2>3. CASE at = 0
      <3>1. Sent = {}
        BY <2>3 DEF Sent
      <3> QED BY <2>2, <3>1 DEF TreeInv
    <2>4. CASE at = Len(Today)
      <3>1. ~(at < Len(Today))
        BY <2>4, PlanFacts DEF TreeIInv, TypeInv, PlanInv
      <3> QED BY <2>1, <2>2, <3>1 DEF TreeIInv, TreeInv, OwnEntry
    <2>5. CASE at \notin {0, Len(Today)}
      BY <2>1, <2>2, <2>5 DEF TreeIInv, TreeInv, OwnEntry
    <2> QED BY <2>3, <2>4, <2>5
  <1>6. ASSUME NEW d, TableInterrupted(d) PROVE TreeInv'
    BY <1>6 DEF TableInterrupted, TreeInv
  <1> QED BY <1>1, <1>2, <1>3, <1>4, <1>5, <1>6, TableKeepsTree DEF Next, Definition, Interrupted

LEMMA InitTree == Init => TreeIInv
  <1> SUFFICES ASSUME Init PROVE TreeIInv
    OBVIOUS
  <1>1. TypeInv /\ at = 0
    BY InitType DEF Init
  <1>2. Sent = {}
    BY <1>1 DEF Sent
  <1> QED BY <1>1, <1>2 DEF TreeIInv, TreeInv

LEMMA NextTreeIInv == TreeIInv /\ [Next]_vars => TreeIInv'
  BY NextType, NextTree DEF TreeIInv

\* When nothing of the day was lost and no call of the table was ever interrupted,
\* an option whose root is in the table has
\* its own equity found for it, with a symbol that the process knows.
LEMMA FindsItsEquity ==
  ASSUME TreeIInv, ~lost, ~spoiled, NEW d, Receive(d, "option"), d.parent \in DOMAIN inst
  PROVE  \E r, e \in Sent : /\ r.locate = d.parent /\ e.locate = r.parent
                            /\ Climb(d.parent) = e.locate /\ OwnEntry(e)
                            /\ e.product = "equity" /\ e.locate \in DOMAIN inst
                            /\ e.symbol \in known
  <1>1. PICK r \in Sent : r.product = "root" /\ r.locate = d.parent
    BY ReceivedUnder DEF TreeIInv, TypeInv
  <1>2. PICK e \in Sent : e.product = "equity" /\ e.locate = r.parent
    BY <1>1, SentUnder DEF TreeIInv, TypeInv
  <1>3. OwnEntry(r) /\ r.parent \in DOMAIN inst
    BY <1>1 DEF TreeIInv, TreeInv
  <1>4. at < Len(Today)
    BY DEF Receive
  <1>5. OwnEntry(e) /\ e.symbol \in known
    BY <1>2, <1>3, <1>4 DEF TreeIInv, TreeInv
  <1>6. inst[d.parent].product = "root" /\ inst[d.parent].parent = e.locate
    BY <1>1, <1>2, <1>3 DEF OwnEntry
  <1>7. inst[e.locate].product = "equity"
    BY <1>2, <1>5 DEF OwnEntry
  <1>8. IsFiniteSet(DOMAIN inst)
    BY DEF TreeIInv, TypeInv, TableInv
  <1>9. Climb(d.parent) = e.locate
    BY <1>2, <1>3, <1>6, <1>7, <1>8, ClimbsToEquity
  <1> QED BY <1>1, <1>2, <1>3, <1>5, <1>9

\* It is then the one parent that findParent may return.
LEMMA OneParent ==
  ASSUME ~spoiled, NEW l, NEW e, Climb(l) = e.locate, OwnEntry(e), e.product = "equity",
         e.locate \in DOMAIN inst, e.symbol \in known
  PROVE  ~Endless(l) /\ Parents(l) = {[code |-> e.locate, symbol |-> e.symbol]}
  <1>1. inst[e.locate].product = "equity" /\ inst[e.locate].symbol = e.symbol
    BY DEF OwnEntry
  <1>2. FindsEquity(l) /\ ~Endless(l)
    BY <1>1 DEF FindsEquity, FindsNull, Endless
  <1>3. {Climb(l)} \cap DOMAIN inst = {e.locate}
    OBVIOUS
  <1>4. {[code |-> Climb(l), symbol |-> inst[x].symbol] : x \in {Climb(l)} \cap DOMAIN inst}
          = {[code |-> e.locate, symbol |-> e.symbol]}
    BY <1>1, <1>3
  <1> QED BY <1>2, <1>4 DEF Parents

\* As long as none of the day's definitions is lost, and no call of the table was
\* ever interrupted, findParent ends and gives _smt_option an equity that
\* fep_symbget knows: smtfep neither hangs in it nor uses a NULL, whatever earlier
\* days left in the table.
THEOREM FailuresCorrect == Spec => FailsOnlyWhenDamaged
  <1>1. TreeIInv /\ [Next]_vars =>
          [status = "up" /\ status' \in {"hung", "crashed"} => lost \/ spoiled]_vars
    <2> SUFFICES ASSUME TreeIInv, Next, status = "up", status' \in {"hung", "crashed"},
                        ~lost, ~spoiled
                 PROVE  FALSE
      BY DEF TreeIInv, TypeInv, ProcessInv
    <2>1. PICK d : OptionFails(d)
      BY DEF Next, Definition, Interrupted, TableInterrupted, OptionInterrupted, Equity, Root,
             OptionRefused, OptionAccepted, Quote, Lose, NewDay, Stop, Start
    <2>2. /\ Receive(d, "option") /\ d.parent \in DOMAIN inst
          /\ Endless(d.parent) \/ Parents(d.parent) = {}
      BY <2>1 DEF OptionFails, Holds
    <2>3. PICK r, e \in Sent : /\ Climb(d.parent) = e.locate /\ OwnEntry(e)
                               /\ e.product = "equity" /\ e.locate \in DOMAIN inst
                               /\ e.symbol \in known
      BY <2>2, FindsItsEquity
    <2>4. ~Endless(d.parent) /\ Parents(d.parent) # {}
      BY <2>3, OneParent
    <2> QED BY <2>2, <2>4
  <1> QED BY <1>1, InitTree, NextTreeIInv, PTL DEF Spec, FailsOnlyWhenDamaged

\* A definition of the day is the only one of its symbol and the only one of its
\* code.
LEMMA OnlyListed ==
  ASSUME PlanInv, NEW d \in Listed
  PROVE  DefinitionOf(d.symbol) = d /\ ListedAt(d.locate) = d
  <1>1. plan \in Plans /\ day \in 1 .. Len(plan)
    BY DEF PlanInv
  <1>2. ASSUME NEW x \in Listed, x.symbol = d.symbol \/ x.locate = d.locate PROVE x = d
    <2>1. PICK i, j \in DOMAIN Today : x = Today[i] /\ d = Today[j]
      BY DEF Listed
    <2> QED BY <1>1, <1>2, <2>1, ListAssumption DEF Today
  <1> QED BY <1>2 DEF DefinitionOf, ListedAt

\* When no definition of the day was lost and no call of the table was ever
\* interrupted, the master of an accepted option names the equity that today's list
\* puts it under (_smt_equity, _smt_root and findParent).
THEOREM UnderlyingCorrect == Spec => UnderlyingIsTodays
  <1> DEFINE Right == last'.kind = "option" /\ last'.to # None /\ ~lost /\ ~spoiled =>
                        folders'[last'.to].unps = ListedEquity(DefinitionOf(last'.symbol)).symbol
  <1>1. TreeIInv /\ [Next]_vars => [Right]_vars
    <2> SUFFICES ASSUME TreeIInv, Next, last'.kind = "option", last'.to # None, ~lost, ~spoiled
                 PROVE  folders'[last'.to].unps = ListedEquity(DefinitionOf(last'.symbol)).symbol
      BY DEF TreeIInv, TypeInv, ProcessInv
    <2>1. PICK d : OptionAccepted(d)
      <3>1. ASSUME NEW d, Equity(d) \/ Root(d) PROVE last'.kind # "option"
        <4>1. last' = [kind |-> d.product, symbol |-> d.symbol, to |-> None]
              /\ d.product \in {"equity", "root"}
          BY <3>1 DEF Equity, Root, Handled, Receive
        <4> QED BY <4>1
      <3>2. ASSUME NEW d, OptionRefused(d) \/ OptionFails(d) PROVE last'.to = None
        BY <3>2 DEF OptionRefused, OptionFails, Handled
      <3>3. ASSUME NEW d, Quote(d) PROVE last'.kind # "option"
        BY <3>3 DEF Quote
      <3>4. CASE (\E d \in Listed : Interrupted(d)) \/ Lose \/ NewDay \/ Stop \/ Start
        BY <3>4 DEF Interrupted, TableInterrupted, OptionInterrupted, Lose, NewDay, Stop, Start,
                    Nothing
      <3> QED BY <3>1, <3>2, <3>3, <3>4 DEF Next, Definition
    <2> DEFINE c == Corise[d.symbol]
    <2>2. /\ Receive(d, "option") /\ d.parent \in DOMAIN inst
          /\ last' = [kind |-> d.product, symbol |-> d.symbol, to |-> c]
      BY <2>1 DEF OptionAccepted, Handled, Holds
    <2>3. PICK parent \in Parents(d.parent) :
            folders' = [x \in DOMAIN folders \cup {c} |-> IF x = c THEN Master(d, parent) ELSE folders[x]]
      BY <2>1 DEF OptionAccepted, Put
    <2> HIDE DEF c
    <2>4. PICK r, e \in Sent : /\ r.locate = d.parent /\ e.locate = r.parent
                               /\ Climb(d.parent) = e.locate /\ OwnEntry(e)
                               /\ e.product = "equity" /\ e.locate \in DOMAIN inst
                               /\ e.symbol \in known
      BY <2>2, FindsItsEquity
    <2>5. PlanInv /\ d \in Listed /\ r \in Listed /\ e \in Listed
      BY <2>2, ReceivedSent, SentListed DEF TreeIInv, TypeInv
    <2>6. ListedEquity(DefinitionOf(d.symbol)) = e
      BY <2>4, <2>5, OnlyListed DEF ListedEquity
    <2>7. parent.symbol = e.symbol
      <3>1. parent = [code |-> e.locate, symbol |-> e.symbol]
        BY <2>3, <2>4, OneParent
      <3> QED BY <3>1
    <2>8. last'.to = c /\ last'.symbol = d.symbol /\ folders'[c].unps = parent.symbol
      BY <2>2, <2>3 DEF Master
    <2> QED BY <2>6, <2>7, <2>8
  <1> QED BY <1>1, InitTree, NextTreeIInv, PTL DEF Spec, UnderlyingIsTodays
=============================================================================
