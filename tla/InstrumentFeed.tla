--------------------------- MODULE InstrumentFeed ---------------------------
(***************************************************************************)
(* The handling of Instrument Locate messages (smt_0x33.c) over several    *)
(* trading days, and the routing of market data by locate code (smtfold,   *)
(* smtfep.c).  The exchange lists every instrument anew each day, parents  *)
(* before children, under locate codes of that day.  The instrument table  *)
(* is used as the map SortedTable implements, until a call of it is        *)
(* interrupted (TableCrash); it, the folders and the map from locate codes *)
(* to symbols outlive the process and the day.                             *)
(***************************************************************************)
EXTENDS Naturals, Sequences, FiniteSets

CONSTANTS
    Plans,          \* for each run the days, each a sequence of definitions
    KnownSets,      \* the equities that XXXX-symb.csv may list
    Corise,         \* the symbol _convert_symbol makes of an option's, or None
    Room,           \* fep->xchg->room
    IsOption,       \* fep->xchg->type == OPTION
    None            \* NULL

ASSUME InstrumentAssumption ==
    /\ Room \in Nat
    /\ None \notin DOMAIN Corise
    /\ IsOption \in BOOLEAN
    /\ \A p \in Plans :
          /\ Len(p) \in Nat \ {0}
          /\ \A i \in 1 .. Len(p) :
                /\ Len(p[i]) \in Nat
                /\ \A j \in DOMAIN p[i] :
                      /\ p[i][j].product \in {"equity", "root", "option"}
                      /\ p[i][j].locate \in Nat \ {0} /\ p[i][j].parent \in Nat
                      /\ p[i][j].product = "option" => p[i][j].symbol \in DOMAIN Corise

\* A list has one definition of a symbol and gives a locate code once.
ASSUME ListAssumption ==
    \A p \in Plans : \A i \in 1 .. Len(p) : \A j, k \in DOMAIN p[i] :
        p[i][j].symbol = p[i][k].symbol \/ p[i][j].locate = p[i][k].locate => j = k

\* Each day's list is "EQUITY -> OPTION ROOT -> OPTION PRODUCT" (smt_0x33.c): a
\* root comes behind the equity it is under, and an option behind its root.
ASSUME TreeAssumption ==
    LET Under(list, j, product) ==
          \E k \in DOMAIN list : /\ k < j /\ list[k].product = product
                                  /\ list[k].locate = list[j].parent
    IN  \A p \in Plans : \A i \in 1 .. Len(p) : \A j \in DOMAIN p[i] :
          /\ p[i][j].product = "root" => Under(p[i], j, "equity")
          /\ p[i][j].product = "option" => Under(p[i], j, "root")

VARIABLES
    plan,       \* the days of this run
    day, at,    \* the current one, and how many of its definitions were sent
    inst,       \* the instrument table: locate code -> product, parent, symbol
    spoiled,    \* a call of the table was interrupted: of what it holds nothing is known
    folders,    \* corise symbol -> master: code, scid, unid, unps
    scid,       \* the FEP's map: locate code -> corise symbol
    known,      \* the equities in the csv this process has read
    status,     \* smtfep: "up", "down", "hung" in findParent or "crashed"
    accepted,   \* the options whose definition was accepted, with the day
    cut,        \* history: the options whose registration was interrupted and not
                \* made up for since
    lost,       \* a definition of today was lost
    last        \* what was done last: kind, symbol meant, folder reached

option == <<folders, scid, accepted, cut>>
vars == <<plan, day, at, inst, spoiled, option, known, status, lost, last>>

Today == plan[day]
Listed == {Today[i] : i \in DOMAIN Today}
Sent == {Today[i] : i \in 1 .. at}
EverListed(product) ==
    {d \in UNION {{plan[i][j] : j \in DOMAIN plan[i]} : i \in 1 .. day} : d.product = product}
Nothing == [kind |-> "none", symbol |-> None, to |-> None]

Init == /\ plan \in Plans /\ day = 1 /\ at = 0
        /\ inst = [l \in {} |-> None] /\ spoiled = FALSE
        /\ folders = [s \in {} |-> None] /\ scid = [l \in {} |-> None]
        /\ known \in KnownSets /\ status = "up"
        /\ accepted = {} /\ cut = {} /\ lost = FALSE /\ last = Nothing

\* Two bugs: the room is not checked; an entry that is there is kept (createInst).
UpdateInstUnchecked(d) ==
    inst' = [l \in DOMAIN inst \cup {d.locate} |->
               IF l = d.locate
               THEN [product |-> d.product, parent |-> d.parent, symbol |-> d.symbol]
               ELSE inst[l]]
UpdateInstKeeps(d) ==
    IF spoiled \/ d.locate \in DOMAIN inst \/ Cardinality(DOMAIN inst) >= Room THEN UNCHANGED inst
    ELSE UpdateInstUnchecked(d)

\* updateInst finds an entry to overwrite or a free one.
Storable(d) == d.locate \in DOMAIN inst \/ Cardinality(DOMAIN inst) < Room

\* updateInst and deleteInst, on the map that the table is; a spoiled one is not
\* followed, and inst stays empty.
UpdateInst(d) ==
    inst' = IF ~spoiled /\ Storable(d)
            THEN [l \in DOMAIN inst \cup {d.locate} |->
                    IF l = d.locate
                    THEN [product |-> d.product, parent |-> d.parent, symbol |-> d.symbol]
                    ELSE inst[l]]
            ELSE inst

DeleteInstNever(d) == UNCHANGED inst       \* a bug: the old entry stays

DeleteInst(d) == inst' = [l \in DOMAIN inst \ {d.locate} |-> inst[l]]

\* findParent(EQUITY_PRODUCT) climbs from a locate code until there is no entry
\* or the entry is an equity.  After as many steps as there are entries it has
\* seen one twice.
Climb(l) ==
    LET climb[n \in 0 .. Cardinality(DOMAIN inst)] ==
          IF n = 0 THEN l
          ELSE IF climb[n - 1] \in DOMAIN inst /\ inst[climb[n - 1]].product # "equity"
               THEN inst[climb[n - 1]].parent
               ELSE climb[n - 1]
    IN  climb[Cardinality(DOMAIN inst)]

FindsNull(l) == Climb(l) \notin DOMAIN inst
Endless(l) == ~FindsNull(l) /\ inst[Climb(l)].product # "equity"
FindsEquity(l) == ~FindsNull(l) /\ ~Endless(l)

\* What readInst may find under a code.  On a spoiled table, not sorted or with
\* duplicates, bsearch may miss what is there and return what is stale or torn.
Holds(l) == spoiled \/ l \in DOMAIN inst
Lacks(l) == spoiled \/ l \notin DOMAIN inst

\* The equities findParent may return that fep_symbget knows, as code and symbol.
\* A spoiled table may yield any known symbol under the code of any equity yet.
Parents(l) ==
    IF spoiled THEN [code : {d.locate : d \in EverListed("equity")}, symbol : known]
    ELSE {e \in {[code |-> Climb(l), symbol |-> inst[x].symbol] : x \in {Climb(l)} \cap DOMAIN inst} :
             FindsEquity(l) /\ e.symbol \in known}

\* The next definition of the day, while smtfep can receive it.
Receive(d, product) ==
    /\ status = "up" /\ at < Len(Today) /\ d = Today[at + 1] /\ d.product = product
    /\ at' = at + 1
    /\ UNCHANGED <<plan, day, known, lost>>

Handled(d, to) == last' = [kind |-> d.product, symbol |-> d.symbol, to |-> to]

\* _smt_equity: only the equities of the csv are kept.
Equity(d) ==
    /\ Receive(d, "equity")
    /\ IF d.symbol \in known THEN UpdateInst(d) ELSE DeleteInst(d)
    /\ Handled(d, None)
    /\ UNCHANGED <<spoiled, option, status>>

\* _smt_root: only the roots whose parent is in the table are kept.
Root(d) ==
    /\ Receive(d, "root")
    /\ \/ Holds(d.parent) /\ UpdateInst(d)
       \/ Lacks(d.parent) /\ DeleteInst(d)
    /\ Handled(d, None)
    /\ UNCHANGED <<spoiled, option, status>>

\* smtfep is ended inside an updateInst or a deleteInst that writes to the table.
TableInterrupted(d) ==
    /\ Receive(d, "equity") \/ Receive(d, "root")
    /\ ~spoiled
    /\ \/ d.locate \in DOMAIN inst
       \/ /\ Storable(d)
          /\ IF d.product = "equity" THEN d.symbol \in known ELSE d.parent \in DOMAIN inst
    /\ inst' = [l \in {} |-> None] /\ spoiled' = TRUE
    /\ status' = "down" /\ last' = Nothing
    /\ UNCHANGED option

\* The master of an option's folder once its definition is applied.
Master(d, parent) == [code |-> d.symbol, scid |-> d.locate,
                      unid |-> parent.code, unps |-> parent.symbol]

\* The masters there may be while a new one is written over an old one of the same
\* code: the locate code comes first, unid and unps later.
Written(old, new) ==
    {[new EXCEPT !.unid = old.unid, !.unps = old.unps], [new EXCEPT !.unps = old.unps], new}

\* What newfolder makes, before and behind the strcpy of the code.
Empty(code) == [code |-> code, scid |-> None, unid |-> None, unps |-> None]

\* A bug: whose folder it is is not checked.
FolderUsableByAny(d) == Corise[d.symbol] # None

\* _init_symbol finds or makes the folder.
FolderUsable(d) ==
    /\ Corise[d.symbol] # None
    /\ Corise[d.symbol] \in DOMAIN folders => folders[Corise[d.symbol]].code = d.symbol

\* A bug: only codes that are not in the map are entered.
ScidUpdateOnce(d, parent) ==
    /\ scid' = IF d.locate \in DOMAIN scid THEN scid
               ELSE [l \in DOMAIN scid \cup {d.locate} |->
                       IF l = d.locate THEN Corise[d.symbol] ELSE scid[l]]
    /\ cut' = cut \ {d.symbol}

\* fep_scidupd, called when the master changed.
ScidUpdate(d, parent) ==
    LET s == Corise[d.symbol]
    IN  IF s \in DOMAIN folders /\ folders[s] = Master(d, parent) THEN UNCHANGED <<scid, cut>>
        ELSE /\ scid' = [l \in DOMAIN scid \cup {d.locate} |->
                           IF l = d.locate THEN s ELSE scid[l]]
             /\ cut' = cut \ {d.symbol}

\* _smt_option, when it leaves without a folder: on another exchange, without a
\* parent, or when _init_symbol returns NULL.
OptionRefused(d) ==
    /\ Receive(d, "option")
    /\ \/ ~IsOption \/ Lacks(d.parent)
       \/ Parents(d.parent) # {} /\ ~FolderUsable(d)
    /\ Handled(d, None)
    /\ UNCHANGED <<inst, spoiled, option, status>>

\* The definition goes into the folder m.
Put(d, m) == folders' = [x \in DOMAIN folders \cup {Corise[d.symbol]} |->
                           IF x = Corise[d.symbol] THEN m ELSE folders[x]]

\* _smt_option, when the definition goes into the folder.
OptionAccepted(d) ==
    /\ Receive(d, "option") /\ IsOption
    /\ Holds(d.parent) /\ FolderUsable(d)
    /\ \E parent \in Parents(d.parent) : Put(d, Master(d, parent)) /\ ScidUpdate(d, parent)
    /\ Handled(d, Corise[d.symbol])
    /\ accepted' = accepted \cup {<<day, d.symbol>>}
    /\ UNCHANGED <<inst, spoiled, status>>

\* smtfep is ended in _init_symbol or _smt_option once a folder was made or a part
\* of the master written, but before fep_scidupd.
OptionInterrupted(d) ==
    /\ Receive(d, "option") /\ IsOption
    /\ Holds(d.parent) /\ FolderUsable(d)
    /\ \E parent \in Parents(d.parent) :
         IF Corise[d.symbol] \in DOMAIN folders
         THEN LET old == folders[Corise[d.symbol]]
              IN  \E m \in Written(old, Master(d, parent)) \ {old} : Put(d, m)
         ELSE \E m \in Written(Empty(d.symbol), Master(d, parent))
                        \cup {Empty(None), Empty(d.symbol)} : Put(d, m)
    /\ cut' = cut \cup {d.symbol}
    /\ status' = "down" /\ last' = Nothing
    /\ UNCHANGED <<inst, spoiled, scid, accepted>>

\* _smt_option, when findParent does not return, or when it or fep_symbget
\* returns NULL and the result is used all the same.
OptionFails(d) ==
    /\ Receive(d, "option") /\ IsOption
    /\ Holds(d.parent)
    /\ \/ (spoiled \/ Endless(d.parent)) /\ status' = "hung"
       \/ (spoiled \/ (~Endless(d.parent) /\ Parents(d.parent) = {})) /\ status' = "crashed"
    /\ Handled(d, None)
    /\ UNCHANGED <<inst, spoiled, option>>

\* smtfold: market data for an option the exchange has listed today goes to the
\* folder its locate code leads to.
Quote(d) ==
    /\ status = "up" /\ d \in Sent /\ d.product = "option"
    /\ last' = [kind |-> "quote", symbol |-> d.symbol,
                to |-> IF d.locate \in DOMAIN scid THEN scid[d.locate] ELSE None]
    /\ UNCHANGED <<plan, day, at, inst, spoiled, option, known, status, lost>>

\* While nobody receives, sendto fails and the definition is lost.
Lose == /\ status # "up" /\ at < Len(Today)
        /\ at' = at + 1 /\ lost' = TRUE /\ last' = Nothing
        /\ UNCHANGED <<plan, day, inst, spoiled, option, known, status>>

NewDay == /\ at = Len(Today) /\ day < Len(plan)
          /\ day' = day + 1 /\ at' = 0 /\ lost' = FALSE /\ last' = Nothing
          /\ UNCHANGED <<plan, inst, spoiled, option, known, status>>

\* smtfep is ended by a signal between two messages, or in one that has changed
\* nothing yet and is then lost.
Stop == /\ status \in {"up", "hung"}
        /\ status' = "down" /\ last' = Nothing
        /\ UNCHANGED <<plan, day, at, inst, spoiled, option, known, lost>>

\* It starts again: the csv, taken to change between two days only, is read
\* anew, initsmt attaches the table as it is and fep_scidinit the map.
Start == /\ status \in {"down", "crashed"}
         /\ known' \in IF at \in {0, Len(Today)} THEN KnownSets ELSE {known}
         /\ status' = "up" /\ last' = Nothing
         /\ UNCHANGED <<plan, day, at, inst, spoiled, option, lost>>

Definition(d) == Equity(d) \/ Root(d) \/ OptionRefused(d) \/ OptionAccepted(d) \/ OptionFails(d)
Interrupted(d) == TableInterrupted(d) \/ OptionInterrupted(d)

Next == \/ \E d \in Listed : Definition(d) \/ Interrupted(d) \/ Quote(d)
        \/ Lose \/ NewDay \/ Stop \/ Start

Spec == Init /\ [][Next]_vars

-----------------------------------------------------------------------------
\* What today's list says of a symbol and of an option's equity.
DefinitionOf(symbol) == CHOOSE d \in Listed : d.symbol = symbol
ListedAt(l) == CHOOSE d \in Listed : d.locate = l
ListedEquity(o) == ListedAt(ListedAt(o.parent).parent)

Entry(l) == inst[l].product \in {"equity", "root"}

\* The variables have their types; options are never put in the table.
TypeOK == /\ plan \in Plans /\ day \in 1 .. Len(plan) /\ at \in 0 .. Len(Today)
          /\ Cardinality(DOMAIN inst) <= Room /\ \A l \in DOMAIN inst : Entry(l)
          /\ \A s \in DOMAIN folders : folders[s].code \in DOMAIN Corise \cup {None}
          /\ \A l \in DOMAIN scid : scid[l] \in DOMAIN folders
          /\ cut \subseteq DOMAIN Corise
          /\ known \in KnownSets /\ lost \in BOOLEAN /\ spoiled \in BOOLEAN
          /\ status \in {"up", "down", "hung", "crashed"}

\* An option that has been accepted on every day since it first was has its
\* market data delivered to its own folder, whatever its locate codes stood for
\* before, whatever was lost and whatever an interrupted call left of the table
\* (fep_scidupd after a changed master, smtfold).  Not so one whose registration
\* was interrupted, until a definition changes its master again.
AcceptedOn(d, symbol) == <<d, symbol>> \in accepted'
EverSince(symbol) ==
    \A d \in 1 .. day : (\E e \in 1 .. d : AcceptedOn(e, symbol)) => AcceptedOn(d, symbol)
AcceptedRouted ==
    [][last'.kind = "quote" /\ last'.symbol \notin cut
          /\ AcceptedOn(day, last'.symbol) /\ EverSince(last'.symbol)
          => last'.to = Corise[last'.symbol]]_vars

\* When no definition of the day was lost and no call of the table was ever
\* interrupted, the master of an accepted option names the equity that today's
\* list puts it under, not one that an entry left from an earlier day leads to
\* (_smt_equity, _smt_root and findParent).
UnderlyingIsTodays ==
    [][last'.kind = "option" /\ last'.to # None /\ ~lost /\ ~spoiled =>
          folders'[last'.to].unps = ListedEquity(DefinitionOf(last'.symbol)).symbol]_vars

\* Whatever earlier days and their lost messages, stops and interrupted
\* registrations left, findParent ends and gives _smt_option an equity that
\* fep_symbget knows, unless one of today's definitions was lost or a call of the
\* table was interrupted.
FailsOnlyWhenDamaged ==
    [][status = "up" /\ status' \in {"hung", "crashed"} => lost \/ spoiled]_vars

\* A folder is never given to two options of the exchange: the code it was made
\* for stays (_init_symbol), also one that was cut short.
CodeNeverChanges ==
    [][\A s \in DOMAIN folders : s \in DOMAIN folders' /\ folders'[s].code = folders[s].code]_vars

\* "It is safe to map only the data of the day" (MESSAGE_FORMAT.md 3.1): a code
\* leads to what today's definitions make of it, so that the data of an option
\* accepted today reaches its folder, also when no call was ever interrupted.
RoutedToday ==
    [][last'.kind = "quote" /\ AcceptedOn(day, last'.symbol) /\ cut = {} /\ ~spoiled
          => last'.to = Corise[last'.symbol]]_vars
=============================================================================
