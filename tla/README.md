# Verification of NASDAQ_SMT

TLA+ models, TLC runs and TLAPS proofs for the programs of this repository:
`smtrecv`, which replays recorded Smart Option files (MoldUDP64 framing) onto a
local datagram socket, and `smtfep`, which receives the messages, decodes them,
keeps the instruments of the day in shared memory, logs them to csv files and
publishes quotes.

Everything is translated from the sources in `src/`. Line numbers below refer
to them. `PROJECT.json` holds the machine-readable side: the runs, the lines
each definition stands for, the hazards, and for every property a mutation of
the code model that the property catches.

## 1. The system

```
 recorded files ──fread──> smtrecv ──sendto──> datagram socket ──> smtfep
                           MSGBUFF                                   │ smtrcv (per message)
                           block parser                              │   initialize_smart, smt_decode
                                                                     │   nas_smt_csv ──> csv per weekday
                                                                     ▼
             shared segment (instruments, channel seconds,      handlers: smt_0x22, smt_0x30,
             market centers, trades) <── createX/readX/... ──   smt_0x33, smt_nbbo, smt_trade
                                                                     │ smt_push
                                                                     ▼
                              FEP library: folders, locate-code map, fep_push
```

Both programs are single-threaded. What makes them hard is not threads but:

- **input cut at arbitrary places**: a block may be split anywhere by the end of
  the 16 KB buffer (`MAX_BUFFER_SIZE`), also between its two length bytes;
- **state that outlives the process**: the shared segment, the folders and the
  map from locate codes to symbols; `stopit` calls `exit` from a signal handler,
  between any two statements of any function, and inside the `memcpy`, `memmove` or
  `qsort` that is writing a table;
- **state that outlives its meaning**: locate codes are new every day, and
  entries of earlier days stay in the table and in the map;
- **messages that are lost**: `sendto` waits while the socket is full but fails
  while `smtfep` is down, a stop loses what is in the socket and in hand, and
  nobody checks sequence numbers;
- **time that passes between steps**: midnight may come between the choice of a
  csv file and its truncation, or between two messages of one second;
- **arithmetic on the wire**: every conversion sign-extends, also the one to
  unsigned.

### Components

| Component | Source | State | Operations | What makes it correct | Model |
|---|---|---|---|---|---|
| Replay | `smtrecv.c`, `moldudp64.c`, `smttool.c:257-337` | `MSGBUFF` (buffer, offset, rest_size), stream position, sequence number | open, fread, parse a block, restore a length, send | every whole block of every file is handed on once, in order, numbered; it ends | `MoldFraming`, `FrameStream`, `MoldBuffer` |
| Shared-memory tables | `smtshm.c` | four arrays with their sizes | create, read, update, delete; `initsmt` | a table is a bounded map; it stays sorted, so `bsearch` works; no duplicates; the calls that follow an interrupted one repair what it left | `TableMap`, `SortedTable`, `TableCrash`, `ShmSegment` |
| Instruments and routing | `smt_0x33.c`, `smtshm.c:232-248`, `smtfep.c:247-260` | instrument table, folders, locate-code map | equity, root, option definition; routing of a quote | an option's data reaches its folder; its master names today's underlying; `findParent` ends | `InstrumentFeed` |
| Trades and quotes | `smt_trade.c`, `smt_nbbo.c`, `smt_0x22.c`, `smt_push` | one folder: quote, depth, settlement; channel seconds | trade, NBBO, channel seconds, publish | high, depth sides, copies of the best prices, order of the time stamps | `QuoteBook` |
| Decoding | `smartoption.c`, `smttool.c:12-246, 348-383` | the record `smt_table`, the offset | dispatch, fixed fields, appendage list | values arrive as they were sent or off by their sign only, the cursor ends at the end, decoding ends | `MessageFormat`, `Decode` |
| Process and dispatch | `smtfep.c` | the socket, the message in hand, the attached segment | `main`, `stopit`, `smtrcv` | messages come in order, none twice, none missed while it runs; a restart finds usable tables | `Pipeline`, `LossyFeed`; parts in `ShmSegment`, `InstrumentFeed` |
| Symbol conversion | `symbcnv.c`, `getweek`, `getwday`, `_init_symbol` | the folders by symbol | `_convert_symbol`, find or make a folder | every trading day has the letter of its week; different options, different symbols | `SymbolCode` |
| CSV logs | `smttool.c:485-560` | a file per name and weekday | choose, truncate, head, append | a file holds one day under one header; the day's rows stay | `CsvLog` in `Pipeline`; the text of a row is left out |
| Settlement statistics | `smtsett`, `smtfep.c` | - | never called in any execution | - | not modelled |
| Live reception, request packets, packet headers | `smtrecv.c:178-185`, `moldudp64.c` | - | `start_receive` is empty, the other functions are not called | - | not modelled: there is no behaviour |
| Arguments, directory listing, progress bar | `smtrecv.c` | - | start-up, terminal output | - | not modelled; the list of files is the input of `MoldBuffer` |
| SoupBinTCP | `nassmt.h` | - | declarations only | - | not modelled |
| FEP library | not in the repository | folders, locate-code map | `getfolder`, `newfolder`, `fep_scidupd`, `fep_symbget`, `fep_push`, `fep_time` | - | external, see section 5 |

`PROJECT.json` lists the hazards of each, at the line where it bites.

## 2. Modules

**`MoldFraming`** - what a message block is, with the length as
`convert_big_endian_to_uint64_t` returns it: a first byte with its top bit set
sign-extends to nearly 2^64. Bytes have `Base` values and words `SizeMod`, so that
small instances have the same shape as 256 and 2^64.

**`FrameStream`** - the abstract promise of the replay, without a buffer: take the
whole blocks of at most `Cap` bytes one after the other, number them, hand each
to a socket that may refuse it, leave the file when none follows.

**`MoldBuffer`** - `start_analyze` with `read_msg_buff`, `restore_msg_buff`,
`finish_msg_buff` and the block parser. `mb` is `MSGBUFF`, `fpos` the position of the
stream, `pc` where the function is. One action per way through the loop:
`Fread`/`CloseFile` (fread returned something or nothing), `ParseNoLength`,
`ParseNoData`, `ParseBlock` (the three outcomes of the parser), `Send`/`SendFails`,
`OpenFile`/`OpenFails`/`Return`. That fread stores at `rest_size` and ignores `offset`
is modelled as it is. `MoldBufferProofs` has its proofs.

**`TableMap`** - the abstract promise of a table: a map of at most `Room` entries.

**`SortedTable`** - one table: `slots`, `size`, and the actions `Create`, `Read`, `Update`,
`Delete` as `createInst`, `readInst`, `updateInst`, `deleteInst` and their nine siblings
perform them, the trailing `qsort` included. `qsort` may give any sorted
permutation; `bsearch` may return any matching record of a sorted array, and on an
unsorted one any matching record or NULL. `SearchFinds` says that glibc's halving
search (`Halving`) finds every record of the table; `ShmSegment` checks it.

**`TableCrash`** - the same calls, any of which may be ended by the signal handler, after
which a new process attaches the segment as it is. An interrupted call stops between two
statements, or inside `memcpy`, `memmove` or `qsort`: of the slots that these write (`Torn`)
nothing is known then, each may hold any record, whether it was moved, lost, copied or
put together from two. `crashed` says that the last step was such a call. The complete calls
run on whatever tables crashes leave: unsorted ones, with duplicates, with records nobody
stored.

**`ShmSegment`** - four tables (instances of `TableCrash`) with the four comparison functions
in one segment, with `initsmt` (clr = 0), the removal of the segment, `stopit` between two
calls and `stopitInCall` inside one. The history variable `spoiled` has the tables whose last
change was interrupted.

**`InstrumentFeed`** - `smt_0x33` and its handlers over trading days. A run has a plan:
for each day the list of definitions with that day's locate codes. `inst` is the
instrument table, `folders` the masters, `scid` the map from locate codes. Messages are lost
while nobody receives; `smtfep` may be stopped, and started again, at three kinds of
places: between two messages (`Stop`); inside a call of the table (`TableInterrupted`); and
inside the registration of an option, between the first change of its folder or master and
`fep_scidupd` (`OptionInterrupted`), with the master as far as it was written (`Written`) or the
new folder without its code (`Empty`).
The table is the map that `SortedTable` implements until a call of it is interrupted. From
then on (`spoiled`) the model knows nothing of it: a search may find what is not there and
miss what is (`Holds`, `Lacks`), `findParent` may give any equity that was ever listed
(`Parents`), give NULL or follow a cycle. This covers all that `TableCrash` shows an interrupted
call to leave, the record that is stored twice included. `OptionFails` is what the
C code does with a NULL it does not check, or a cycle of parents. The history
variables `accepted`, `cut` (the options whose registration was interrupted and not made
up for since), `lost` and `last` only serve the properties.

**`SymbolCode`** - `_convert_symbol`, `getweek` and `getwday` on every day of a calendar,
and `_init_symbol`: the options of a date are listed one after the other, and each
gets no symbol, a new folder, or the one of another option ("Symbol Mismatch").
The root and the put or call, which are copied, are left out: one root.

**`QuoteBook`** - `_smt_trade_trade`, `smt_nbbo`, `smt_0x22`, `smt_push` and `upddept` on one
folder. A trade is one of three actions, for the three ways out of
`_smt_trade_trade`: dropped, closing (returns before `smt_push`), published. Messages
come in any order and number; the local day may change between any two.

**`MessageFormat`** - the sender's side, external in the map: a message is a value for each
column of its type (`Columns`, `Fills`) and a list of appendage elements (`IsElement`), and
`Wire` makes the bytes of both. Written from `docs/MESSAGE_FORMAT.md` and
`docs/DATA_TYPE.md`; for the NBBO and trade messages, whose tables these leave to the
exchange's document, from the lengths named at `smartoption.c:7-53`. Nothing in it is taken
from the functions that decode, so that "as it was sent" does not mean "as it was read".

**`Decode`** - one message: `Dispatch` (the switch of `smt_decode`), `ReadField` for each field
of the layout, `FieldsRead`, `DecodeElement` for each appendage element, `EndOfList`.
`Int64` is `convert_big_endian_to_int64_t`; for eight bytes the code shifts -1 by 64,
which C leaves undefined, and `shift` is what the build makes of it. `Messages` may be any
messages in the format (`MessagesAssumption`). `Meant` asks for a number only where it fits
the signed word it is read as; `OffBySignOnly` says what becomes of the others.
A length is a byte read as a signed number. Below 0, a string that is copied takes the
process with it (`crashed`: memcpy of nearly 2^64 bytes), and an element that is not known
takes the cursor back. The room of the strings in `smt_table` is not modelled (section 6).

**`CsvLog`** - `nas_smt_csv` in three steps, with the clock going on between them: the
choice of the path and of the mode by the time the file was last written, `fopen`
with the header for an empty file, `fclose`. `Cut` is `exit` in the middle: some of
stdio's buffer is written, the last row perhaps not whole.

**`LossyFeed`** - the abstract promise of the way from the files to `smtfep`: in order,
none twice, none left out unless it was away in between.

**`Pipeline`** - the composition: `FrameStream` for the replay (which `MoldBuffer`
implements), the socket, `smtrcv` with decoding reduced to the type, `CsvLog`, and a
handler that returns or hangs. Stop, start, a replay started again and the clock
come at any moment. What the handlers do is in the modules above, one message at
a time.

A module `XProofs` holds the theorems about `X` (section 4).

The `MC*` modules give the constants their values.

Operators commented "A bug:" are plausible mistakes in the code next to them.
They are used by no specification; each shows that a property fails when the
code is wrong in that way.

## 3. Runs

| Run | Question | Properties | States |
|---|---|---|---|
| `mold_buffer` | Does the replay with its buffer do what the stream promises? | `TypeOK` `WindowInv` `ReadyToRead` `StreamSpec` `Terminates` | 15 k |
| `sorted_table` | Is a table a bounded map, sorted and without duplicates? | `TypeOK` `SortedInv` `UniqueKeys` `MapSpec` | 1 k |
| `table_crash` | What do complete calls make of a table that interrupted ones left? | `CrashTypeOK` `CallRepairsOrder` `NoDuplicateFromOrder` | 3 k |
| `shm_segment` | Do all four comparison functions keep their tables searchable, over restarts and interrupted calls? | `TypeOK` `EveryKeyFound` | 348 k |
| `instrument_feed` | Where does data go, and which underlying is named, when codes change hands and processes end anywhere? | `TypeOK` `AcceptedRouted` `UnderlyingIsTodays` `CodeNeverChanges` `FailsOnlyWhenDamaged` | 2.5 M |
| `symbol_code` | Has every trading day a letter, and which options share a symbol? | `TypeOK` `WeekOfItsFriday` `SameSymbolSameDate` | 16 k |
| `quote_book` | What do trades and quotes in any order do to a folder? | `TypeOK` `HighIsHighest` `DepthIsLatest` `QuoteAgreesWithDepth` `TicksIncrease` | 851 k |
| `decode_good` | Do messages decode to what was sent? | `TypeOK` `Meant` `OffBySignOnly` `WholeMessageRead` `Ends` | 55 k |
| `pipeline` | What reaches `smtfep` and its csv when programs stop, start and hang while days pass? | `TypeOK` `OneDayPerFile` `HeaderFirst` `LogKeepsDay` `FeedSpec` `ReplayEnds` `AllHandled` | 491 k |

and three that show a disagreement between the code and what its comments or
documents say: `instrument_stale_code`, `quote_close`, `decode_trade` (section 6).

### Bounds, and why they are enough

- `mold_buffer`: files of up to three blocks of 0 to 3 bytes with a buffer of four
  bytes, followed by nothing, half a length, a truncated block or a length
  with its top bit set; and lists of two and three files. A block is split at
  every place by the end of the buffer, a block of 2 bytes fills it, one of 3
  does not fit. `Base = 4` and `SizeMod = 64` keep the assumption that a
  sign-extended length exceeds any buffer. The proofs do not depend on any of
  these.
- `sorted_table`: three slots and four keys, so that a fourth key is refused and
  every record is first, middle, last or only one when it is deleted.
- `table_crash`: three slots, three keys, two values; any number of interrupted
  calls, each of which may leave any records in the slots it was writing.
- `shm_segment`: two instruments of which one fits, two market centers of which one fits,
  the four pairs of two protocols and two channels of which two fit, so that both
  fields are compared, and four trades of which one fits. One value: what a search finds is
  told apart by its key. Any number of stops, between calls and inside them.
- `instrument_feed`: three days for one option, with every assignment of four codes on the
  second and the equity back under its first code on the third (an entry can survive a
  day unnoticed); two days for two families, on which the equities' codes are
  those that roots or options had; options with the same Corise symbol or none;
  and three days on which two options swap codes. The table has four entries: with two
  families it is full when the codes change. On an exchange of another type than `OPTION`,
  options return at once; the run takes `OPTION`.
- `symbol_code`: every day of the eleven years from Tuesday 1 January 2019 to the end
  of 2029, so that months begin on every weekday, February has 28 and 29 days, and
  2019 and 2029 have the same last digit. Strikes 2.5000, 2.5040 and 2.5100
  printed with two decimals (`Unit` = 100): the first two collide. The proofs hold
  for every first day, number of years and set of strikes.
- `quote_book`: three handled messages, two local days, two files, two seconds. The
  properties compare a message with the one before it or with one further back.
  Seven kinds of trades and four of quotes, with every flag that is read. Both
  channels fit in the table of channel seconds; that a full table refuses one
  is checked in `sorted_table`.
- `decode_good`: the types 0x20, 0x22, 0x30, 0x33 and 0x60 to 0x65, and 0x80 for the types
  that the sign-extended type byte makes unknown. An option carries an appendage list of
  six elements in each of the 720 orders; another message has each kind of
  `value_update` element. Four messages have a length of 128 or more: a root and a
  symbol, which end the process, and two unknown elements, of 253 and of 247 bytes, on which the
  cursor comes back for ever. Unknown elements of other such lengths take the
  cursor in front of the list or of the message and are left out (section 6). Fields with
  their top bit set are sent in one and two bytes, because TLC's integers have 32 bits; a
  wider field is converted by the same function. 0x90, 0xB0, 0xB2, 0xC0 and 0xC3 are not
  sent: their layouts are in the model, but their type byte makes them unknown as 0x80 is. Trades are sent in `decode_trade`.
- `pipeline`: two lists of two files each, a definition and then a trade in front of
  a truncated block, or a quote with an empty block and then an unknown type; a
  socket of one datagram; the replay started twice, `smtfep` stopped once at any
  step. The clock goes from 0 to 4 by half days (`DayLength` = 2), from the middle of the
  first day into the third; with a week of two days (`Week` = 2) a file's name
  returns on the third. `Year` = 5 is longer than the run (`YearAssumption`); a csv
  that is next written on the same weekday and the same day of the year, years
  later, would be appended to (section 5). `e2lt` = 1 puts the exchange's midnight
  elsewhere than the clock's. One type hangs (`Risky`), one is not logged (`Quiet`).

### Fairness and deadlock

`mold_buffer` and `decode_good` check that something ends (`Ends`: or that the cursor comes
back to an element of 128 bytes or more for ever), under `WF_vars(Next)`: both
are sequential functions that wait for nobody (`sendto` failing is a step, and the
code goes on after it), so the only assumption is that a running process takes
its next step.

`pipeline` has weak fairness of `SmtRecv` and of `SmtFep`, each as a whole: a program
that can go on does. There is none for stopping, starting, the clock or a replay
that is started again: nobody has to do any of it. So `ReplayEnds` has to hold
when `smtfep` stays down (`sendto` then fails) and when it is up (`sendto` waits, and
`smtfep` makes room); its premise leaves out a message in which `smtfep` hangs for
good. `AllHandled` has the premise that `smtfep` is up from some moment on.

No other property needs fairness. Deadlock is checked for the tables and for the
segment; the others really stop: the replay returns, a message is decoded, the
last day or the bound on messages is reached.

## 4. What is proved

Each theorem holds for every value of the constants that meets the named
assumptions, so for any number of messages, days, keys, stops or files. Every
module's proof has the same shape: `Init` establishes the inductive invariant, one
lemma per action (or per kind of it) keeps it, a `Next...` lemma combines them, and
the theorem is the temporal step.

Some of the models compute with recursive functions (`Halving`, `Climb`, `Counter`; `Word`,
`Shifted` and `SentUpTo` in the decoding). The library's induction rules take the induction
hypothesis as an operator, which the installed provers cannot instantiate; so what such a
function gives is proved from the set of arguments for which it is wrong: if it is not empty
it has a least member (`LeastNatural`, from `WFMin` and `NatLessThanWellFounded`, which are about
sets), and the function's own equation contradicts that. `UpTo` makes a rule of it: a set that
has 0 and with each number the next one has them all, up to N. That the equations of such a
function have a solution at all is `Iteration`, or `ProbeExists` for the halving.

**`MoldBufferProofs`** - `TypeCorrect`, `WindowCorrect` (the unread part of the buffer is
exactly the bytes of the file in front of the stream position), `ReadsWhenReady` (at
every fread the unread bytes are at the front and hold no whole block), and
`ReplayImplementsStream`: `Spec => StreamSpec`, the replay implements `FrameStream` under the
refinement `pos <- fpos - mb.rest`. From `FramingAssumption` (a byte has at least two
values, the buffer has room, a sign-extended length is larger than any buffer -
true of 256, 16384 and 2^64) and `FilesAssumption` (files are sequences of bytes).

The inductive invariant is `IInv == TypeOK /\ WindowInv /\ ReadyToRead`. None of the three
is inductive alone: fread stores at `rest_size`, which is behind the unread bytes
only if `offset = 0` (`ReadyToRead`); that holds because both ways out of the parser
compact the buffer, which keeps the bytes (`FinishKeepsUnread`, `RestoreUndoesRead`)
only if they lie within it (`WindowInv`); and the types need both bounds. One
lemma per action (`FreadStep`, `ScarceStep`, `ParseBlockStep`, `OpenFileStep`, `QuietStep`) makes
`NextIInv`. For the refinement, `ParserSeesFile` says that the length and the data
the parser reads in the buffer are those of the file at `pos`, and
`StepSimulation` maps each step to one of `FrameStream` or a stutter.

**`SortedTableProofs`** - `TypeCorrect`, `SortedCorrect`, `UniqueCorrect`, and
`SearchCorrect`, `TableImplementsMap`: `Spec => MapSpec`. From `RoomAssumption`, `RecordAssumption` and
`OrderAssumption` (the comparison function is a strict total order). The invariant is
`TypeOK /\ SortedInv /\ UniqueKeys`: that no key is stored twice depends on `bsearch`
missing none, which depends on the order; and the order after `qsort` does not
depend on anything before it (`QsortFacts`). The map of the array does not depend on
where a record is (`QsortKeepsMap`), and storing, replacing and closing a gap each do
one thing to it (`StoredMap`, `ReplacedMap`, `ClosedMap`).
`SearchCorrect` is `Spec => []SearchFinds`: glibc's halving, run on the array as it is,
ends and gives a record of the key or, if there is none, NULL - what the other theorems take
`bsearch` to do on a sorted table. The interval gets shorter with each probe (`ProbedShorter`,
so that the recursion has values: `ProbeExists`), and a record outside it is never one of the
key, because the table is sorted (`SearchRight`).

The same module proves of `TableCrash` that `CrashTypeCorrect`, `RepairCorrect` (`CallRepairsOrder`)
and `DuplicateCorrect` (`NoDuplicateFromOrder`) hold, from the same assumptions. Order and
uniqueness are lost with the first crash, so the invariant `CrashInv` is only the types; the
first two use no more of `bsearch` than that it returns NULL or a record with the key it was
given. `NoDuplicateFromOrder` looks at one call on a sorted table, where NULL means that there
is none. Such a table may have duplicates of other keys, so each way of changing the
array is followed by what it does to the keys that are there twice (`QsortDoubled`,
`StoredDoubled`, `ReplacedDoubled`, `ClosedDoubled`).

**`ShmSegmentProofs`** - `SearchCorrect`: `Spec => []EveryKeyFound`, from `SegmentAssumption`. The
module instantiates `SortedTableProofs` four times, shows that the four comparison
functions meet `OrderAssumption` (the two lexicographic ones included), that a complete call
of a table leaves it as it was or sorted, that an interrupted one keeps its types, and that
neither touches the other three. The invariant is `TypeOK /\ TablesSorted`: each
table that is not in `spoiled` is sorted. That is enough for the search (`SearchRight`), also
with records of one key in it twice, as interrupted calls may have left them.

**`InstrumentFeedProofs`** - `TypeCorrect`, `CodeCorrect` (`CodeNeverChanges`), `RoutedCorrect`
(`Spec => AcceptedRouted`), `FailuresCorrect` (`FailsOnlyWhenDamaged`) and `UnderlyingCorrect`
(`UnderlyingIsTodays`), from `InstrumentAssumption`, `ListAssumption` (a day's list has one
definition per symbol and gives a locate code once) and, for the last two, `TreeAssumption`
(a root comes behind the equity it is under, an option behind its root). `AcceptedRouted`
speaks of options accepted on every day since their first, which is not inductive: between
midnight and its definition an option has not been accepted today. `RouteInv` says
what holds meanwhile: the code of today leads to the folder of an option accepted today;
yesterday's still leads to that of one that is not yet, unless a definition
of today gave the code to another. It leaves out the options in `cut`, whose master may name a
code that was never registered; one leaves `cut` when a definition finds its master changed.
An interrupted call of the table needs no exception: it may lead to another master or to a
refusal, not to another folder. `AcceptedInv` ties the acceptances to the
lists and the folders.

The table is never cleared: instruments of other days stay in it, under codes that today may
belong to others, with parents that no longer exist or that lead in a circle. `TreeInv` says why
`findParent` meets none of them as long as nothing was lost and the table is not `spoiled`: every definition of today up to
now that has an entry has its own (later ones cannot overwrite it, codes being given once a
day), a root's parent has one too, and an equity is known until the day's list is complete, when
the csv may change. That an entry has no other parent is not inductive alone, it needs the types
(`TreeIInv`). Then the climb from an option is two steps long (`ClimbsToEquity`): from the
option to its root of today, from there to its equity of today.

**`SymbolCodeProofs`** - `TypeCorrect`, `DateCorrect`, `WeekCorrect`, `SymbolCorrect`, from
`SymbolAssumption`. `DateInv` says that the weekday of the day is the one which the
1st of its month gives it, `(first + mday - 1) % 7`; with it `WeekOfItsFriday` is
arithmetic (`LetterOfTheWeek`, `LetterOfTheDay`). A letter then determines the day of
the month (the n-th Friday's row and the weekday), for months that begin on the
same weekday; those of one month and year do (`LettersDiffer`). `SymbolInv`
says that each folder has the symbol of its option.

**`QuoteBookProofs`** - `TypeCorrect`, `AgreementCorrect` (`QuoteAgreesWithDepth`), `HighCorrect`,
`DepthCorrect`, `TicksCorrect` (`TicksIncrease`), from `BookAssumption` (prices are positive)
and, for the last, `TradeChannelAssumption`. `PublishedInv` (what was
published last is what the folder holds) carries the agreement; `HighInv` and
`DepthInv` give the two properties with a witness among the messages handled
instead of a maximum chosen from them. `TickInv` holds while the first file is
replayed: the table of channel seconds is never ahead of the source, which only goes
forward, so no quote is stamped later than the next trade will be; lost seconds
leave the table behind and midnight adds a day to it, neither takes it back.

**`DecodeProofs`** - `TypeCorrect`, `WholeMessageReadCorrect`, `MeantCorrect` and
`OffBySignOnlyCorrect`, from `MessagesAssumption` alone: whatever set of messages in the format may be
sent, of any length, with any values and with any appendage list. Each says
`Spec => [](Regular(sent) => P)`. `Regular` leaves out what the code does not read as it was sent
(section 6), and only that: trades, whose market center is read too long, and messages with a
symbol or an element of 128 bytes or more, a length which is read as a negative number. `MeantCorrect`
also needs `ListRegular`: no value types from 128 on, which the code skips, and no
decimal of eight bytes in the long form, which has ten places. For the cursor, and for
the fields in front of the list, these make no difference. What becomes of the messages that
are not regular the runs show: `decode_good` has a root of 130 bytes, a symbol of 128 and two
elements on which decoding does not end, `decode_trade` the trades.

The argument has three layers. *Numbers*: the word that `Int64` makes of the bytes of a number is
the number if it fits (`WordOfBytes`, `ReadNumber`), and its bytes are the ones sent if it does
not (`BytesOfWord`). *Layouts*: for each type, the fields `smt_decode` goes through stand at the
columns the exchange sends, with their lengths (`LaidAll`, from `Laid20` to `TwoSidedLaid`), a
side of an NBBO message is stored when its four values have been read, and the bytes of a
part are found at the sum of the lengths of those before it (`Placed`). *Reading*: `FieldRead` says what
one field does to a record that holds the columns before it, `ElementStep` the same of an element.
`Meant` speaks of the end, and cannot be inductive. `DecodeInv` says what holds on the way: the
cursor is at the end of the k columns, or the n elements, that have been read (`Doing`), what is
left to do are the fields behind them, and the record holds what was read (`ReadUpTo`, `ListedUpTo`)
- unless a later value has taken its place: the second side of a quote replaces
the center, price and size of the first in the record, which is why a side must be put
away in between (`Kept`), and an element whose code comes twice replaces itself (`Single`, of
the value types that are read at all).
That an element's names are not those of a column (`Listable`) keeps the list from
overwriting the fields.

**`PipelineProofs`** - `TypeCorrect`, `HeaderCorrect` (`HeaderFirst`), `DaysCorrect` (`OneDayPerFile`),
`LogCorrect` (`LogKeepsDay`), from `PipelineAssumption` and `YearAssumption`, and `FeedCorrect`:
`Spec => FeedSpec`, the two programs implement `LossyFeed`.
`CsvInv` adds what is in stdio's buffer to what is in the file: the header is there
if and only if the file is empty, which holds because nobody else writes the file
between `fopen` and `fclose`; then any part of the buffer that `exit` writes leaves the
header first. `HeaderCorrect` needs no assumption. `ClockInv` says that no file was
written later than now and that a call began today or yesterday. `DayInv` ties a
file to a day: its rows are of one day, of the file's weekday, and it was last
written on that day or, when midnight came in between, on the next; the file a call
has open is of the call's day unless the call is about to truncate it. That the
code may compare days of the year instead of days is arithmetic (`DayOfYear`), for a
clock that ends within a year; and midnight during a call does no harm because
two days in a row have different files (`WeekdaysDiffer`, `Week` > 1). `LogInv` follows
each row that was written: it is in its file, or the file was begun anew on a later
day; the row the property speaks of is then one of a day that is over.

`FeedCorrect` takes two invariants. `ScanInv`: the number of blocks of the file which the replay
reads is the number it has sent plus what `Counter` finds behind its position, so that the
message it is about to send is one of the feed, and there is none of that file left when it
leaves it. `FeedInv` speaks of the whole way of a message (`Cursor` is where the replay is,
`Ahead(i)` the i-th in the socket, `Ahead(0)` the one in hand): these are messages of the
files, each before the next and none ahead of the cursor; in the socket no message
is left out between two neighbours; in front of the socket, and behind it, only if `smtfep` was
stopped and has received nothing since. Neither order nor completeness at the moment of
`recvfrom` is inductive without it. A failed send is then harmless because it happens only
while `smtfep` is down and the socket is gone (`DropKeeps`), a new file or a new replay
because what is left in the one before is nothing (`LeaveKeeps`, `AgainKeeps`), and
receiving maps to `LossyFeed`'s `Handle`, stopping to `Away`, all else to stuttering (`StepFeed`).

Only model-checked:

- liveness (`Terminates`, `Ends`, `ReplayEnds`, `AllHandled`), which is beyond the prover;
- the decoding of messages that are not `Regular`, about which the theorems of `DecodeProofs` say
  nothing: `decode_good` checks its properties with lengths of 128 and more in four of its
  messages, `decode_trade` shows what happens to a trade;
- `TypeOK` of `ShmSegment` as a property of its own: it is proved as part of the invariant
  of `SearchCorrect`, and for one table by `CrashTypeCorrect`;
- the three properties the code does not have (section 6).

## 5. What is assumed of the environment

- The map behind `fep_scidupd`/`fep_scid2symb` and the folders survive a restart (`main` calls
  `fep_scidinit` and nothing that clears them), and a new folder is zeroed.
- The exchange lists equities, then roots, then options, each day anew, with
  distinct symbols and codes (`ListAssumption`); a root follows the equity and an option the
  root it names as its parent (`TreeAssumption`: `docs/DATA_TYPE.md:61-67`, and the comment
  `smt_0x33.c:16`).
- What arrives at the decoder is in the exchange's format (`InFormat`): a value of the column's size
  for each column, an alpha of the length sent before it, an appendage list of elements whose
  format fits their type. UDP keeps or loses a message as a whole. Nothing in the
  code checks this, and of a truncated message the properties do not hold.
- The source sends all trades of an option on one channel (`TradeChannelAssumption`): the
  table of a second channel may be behind, and a trade stamped with it before one
  that is already in the folder.
- The csv of equities changes only between two days.
- `fread` on a regular file returns less than it was asked for only at the end of
  the file.
- The datagram socket is `smtfep`'s, local and blocking, and keeps the order:
  `sendto` waits while it is full and fails when nobody has it.
- `bsearch` on a sorted table finds a record if there is one; on an unsorted one it
  returns NULL or a record with the key. `qsort` sorts.
- A call of `nas_smt_csv` takes less than a day, and no csv is next written years
  later, when its weekday and its day of the year have returned together.
- `smtfep` handles a message within the local day in which it asks for the time.
- The FEP library's `newfolder` and `fep_scidupd`, and each store, `strcpy` or `sprintf` into a
  master, are not interrupted half-way: a text is there or not yet.
- How `printf` rounds a strike that lies exactly between two decimals depends on its
  binary form; `SymbolCode` rounds up, and its run has no such strike.

## 6. Divergences

Shown by a run:

| Run | Property | What the code does |
|---|---|---|
| `instrument_stale_code` | `RoutedToday` | An option that misses a day and comes back with the master it had is not registered (`smt_0x33.c:189`); its code still leads to the option that had it in between. `RoutedToday` leaves out interrupted calls and registrations, which are not its point. `AcceptedRouted` is the strongest form that holds: accepted on every day since it first was. |
| `quote_close` | `CloseIsSettled` | A closing trade returns before `smt_push` (`smt_trade.c:121`), so the settlement is never published and `smtsett` never called. |
| `decode_trade` | `TradeInPlace` | The market center of a trade is read as four bytes (`smartoption.c:528`); all that follows is shifted by two. |

Met while modelling, in the models as the code has them, without a run:

- `findParent` on a day whose definitions were partly lost returns NULL, an equity
  the csv does not list, or follows a cycle for ever; `_smt_option` uses the result
  unchecked (`smtshm.c:239`, `smt_0x33.c:103-111`). `FailsOnlyWhenDamaged` bounds this: only
  on such a day, or once a call of the table was interrupted.
- A block larger than the buffer fills it; fread is then asked for 0 bytes, and
  the rest of the file is left as at its end (`smtrecv.c:133`). MoldUDP64 allows
  64 KB (`docs/MOLDUDP64.md:40`).
- A signal inside `createX`, `updateX` or `deleteX` leaves a table in which records of any key
  may be lost, torn or there twice, because `memmove` and `qsort` move all of them
  (`smtshm.c:113-132`, `212-222`), and which may be unsorted. The next process searches it as it
  is, may miss a record that is there and store its key again. The next call that changes the
  table repairs the order (`CallRepairsOrder`, `EveryKeyFound`), not the rest: a duplicate stays
  until each of its records is deleted, and `bsearch` may find the stale one. No complete
  call on a sorted table adds to the duplicates (`NoDuplicateFromOrder`).
- A signal between the first change of an option's master and `fep_scidupd`
  (`smt_0x33.c:123-193`) leaves a master with a locate code that was never registered. The
  same definition, sent again or listed again the next day, then finds the master
  unchanged and skips the registration (`smt_0x33.c:189`): the option is accepted and its data
  not routed. `AcceptedRouted` excepts these options until their master changes.
- A signal between `newfolder` and the copy of the code (`smt_0x33.c:230-237`) leaves a folder
  with an empty code. `_init_symbol` then refuses the option it was made for with "Symbol
  Mismatch" on every later day; nothing mends it (`CodeNeverChanges`).
- The low starts at 0 and is only ever lowered (`smt_trade.c:108`).
- A trade whose total volume is not above the known one is dropped with its last
  sale price (`smt_trade.c:55`).
- The retransmission flag of a quote is not read (`smt_nbbo.c:53`): an old quote
  replaces a newer one.
- NBBO type 0x60 is decoded and reaches no handler (`smartoption.c:729`).
- The type byte is sign-extended (`smttool.c:350`): types from 0x80 on are unknown.
- Unsigned fields with the first bit set become huge (`smttool.c:40`).
- An eight-byte strike price gets four decimal places instead of ten
  (`smartoption.c:187`, `docs/DATA_TYPE.md:43`).
- Value types from 128 on (143, 145 and 146, the ones of trades) are sign-extended too, so that no
  case of the switch takes them and their elements are skipped (`smartoption.c:168`, `359-367`).
- A negative price of eight bytes is undefined behaviour (`smttool.c:29`).
- Decoding need not end, although the list goes to the end of the message
  (`docs/MESSAGE_FORMAT.md:71-72`): the length of an element is read as a signed number
  (`smartoption.c:297`, `369`), so that an unknown one of 253 bytes moves the cursor by 0, and one of
  another length from 128 on moves it back. `Ends` says that nothing else keeps the loop
  going; two messages of `decode_good` take the second way out. If the cursor
  comes back in front of the list, what it finds there is decoded as elements; in front of
  the message, what is there may be a 0 that ends the list with the rest unread. These
  messages are in no run.
- A symbol, or an element that is copied, of 128 bytes or more is copied with a length of
  nearly 2^64 (`smttool.c:204`), which ends the process (`ReadField`, `DecodeElement`: `crashed`).
- An element is copied with the length sent for it into a field of fixed size (`put_or_call`
  has two bytes, `nassmt.h:267`). The format has one character there; a longer one would
  overwrite the field behind it.
- The csv row of a message has three characters for each byte in a buffer of 8 KB
  (`smttool.c:494-495`, `543-548`): a message of more than about 2.7 KB is written beyond it.
- `TicksIncrease` holds within a file; the next file is stamped with the day of its
  replay, so its trades may be numbered before those of the file before.
- A symbol holds the last digit of the year: options ten years apart get the same
  one, and the later is refused with "Symbol Mismatch" (`symbcnv.c:75`, `SameSymbolSameDate`).
- A row that `exit` cut off has no line end; the next process's row continues
  its line (`smttool.c:559`).

## 7. Plan

Done, in this order: `MoldBuffer` (all that `smtfep` sees depends on it), the tables
(all handlers depend on them), `InstrumentFeed`, `QuoteBook`, `Decode`; `SymbolCode`; `Pipeline`
with `CsvLog` and `LossyFeed`; the proofs about each of them, `Decode` last.

Every safety property of the passing runs is proved, those of `Decode` for `Regular` messages
and `TypeOK` of `ShmSegment` inside the proof of another; section 4 lists what stays with TLC and why. Next would come, in the models, the settlement
statistics (`smtsett`), once an execution reaches them, and a theorem about trades, once
their market center is read with its own length.

### Not modelled, and why

- `smtrecv`'s arguments, directory listing and progress bar: start-up and terminal
  output. That nothing counts the files against the rows of `NASDAQ_EMI_FILENAME`
  (`smtrecv.c:222`) is a bound of an array which the list of files stands for.
- `start_receive`, `parser_moldudp64_header`, `set_moldudp64_req_packet`: empty, or called
  by nobody.
- `smtsett` and what it alone calls: no execution reaches it (`quote_close` shows why).
- `nas_smt_log` and the text of a csv row: no caller, and formatting.
- The second process that attaches the segment and overwrites the pointers in it
  (`smtshm.c:48`): no program of the repository other than `smtfep` attaches it.
- The retransmission flag of a quote (`smt_nbbo.c:53`): no handler reads it, so there
  is no behaviour of the code a property could describe; `QuoteBook` takes messages in any
  order, and `DepthIsLatest` is about the order of arrival.
- The FEP library, SoupBinTCP, notebooks and reference data: not in the repository,
  declarations only, or not programs.
