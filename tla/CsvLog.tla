------------------------------- MODULE CsvLog -------------------------------
(***************************************************************************)
(* nas_smt_csv (smttool.c): one row per message in a file per kind of      *)
(* message and weekday.  A file that was last written on another day is    *)
(* begun anew, an empty one gets a header.  The clock goes on between the  *)
(* steps of a call, and the process may be stopped between them: exit      *)
(* writes what stdio holds, perhaps with its last row cut off.  Pipeline   *)
(* makes these steps part of smtfep's.                                     *)
(***************************************************************************)
EXTENDS Naturals, Sequences

CONSTANTS
    Week,       \* days of a week, 7: there is a file for each
    Year,       \* days of a year: tm_yday starts again after it
    DayLength,  \* clock ticks of a day
    e2lt,       \* fep->e2lt, from the clock's time to the exchange's
    MaxTime,    \* bound: the last tick of the clock
    Names       \* what a file can be named for: NBBO, TRADE, a type

VARIABLES
    now,        \* the clock
    disk,       \* path -> rows, and mtime, the time it was last written
    csv         \* the call: its step, and what it has determined

tm_day(t) == (t + e2lt) \div DayLength
tm_wday(t) == tm_day(t) % Week
tm_yday(t) == tm_day(t) % Year

Paths == Names \X (0 .. Week - 1)
Header == [kind |-> "header", whole |-> TRUE]
Row(id, day) == [kind |-> "row", id |-> id, day |-> day, whole |-> TRUE]
NoCall == [step |-> "out"]

Init == /\ now = 0 /\ disk = [p \in {} |-> 0] /\ csv = NoCall

\* Two bugs: another weekday is asked for instead of another day; the time of
\* the file is not the exchange's.
OutdatedByWeekday(path) == tm_wday(disk[path].mtime) # tm_wday(now)
OutdatedByClock(path) == disk[path].mtime \div DayLength # tm_day(now)

\* The file was last written on another day of the year.
Outdated(path) == tm_yday(disk[path].mtime) # tm_yday(now)

\* The call looks at the clock, chooses the file and how to open it.
Begin(name, id) ==
    /\ csv.step = "out"
    /\ LET path == <<name, tm_wday(now)>>
       IN  csv' = [step |-> "begun", path |-> path, row |-> Row(id, tm_day(now)),
                   mode |-> IF path \in DOMAIN disk /\ Outdated(path) THEN "wb" ELSE "ab"]
    /\ UNCHANGED <<now, disk>>

Written(path, rows) == disk' = [p \in DOMAIN disk \cup {path} |->
                                  IF p = path THEN [rows |-> rows, mtime |-> now] ELSE disk[p]]

\* A bug: the header is written when the file is truncated, not when it is empty.
HeadedWhenTruncated(rows, mode) == IF mode = "wb" THEN << Header >> ELSE << >>

\* ftell(logF) == 0
Headed(rows, mode) == IF rows = << >> THEN << Header >> ELSE << >>

\* fopen makes or truncates the file; what is to be written is in stdio's buffer.
Open ==
    /\ csv.step = "begun"
    /\ LET new == csv.path \notin DOMAIN disk \/ csv.mode = "wb"
           rows == IF new THEN << >> ELSE disk[csv.path].rows
       IN  /\ csv' = [step |-> "open", path |-> csv.path, row |-> csv.row,
                      buffer |-> Headed(rows, csv.mode) \o << csv.row >>]
           /\ IF new THEN Written(csv.path, << >>) ELSE UNCHANGED disk
    /\ UNCHANGED now

\* A bug: the stream is not checked.
OpenFailsUnchecked ==
    /\ csv.step = "begun"
    /\ csv' = [step |-> "open", path |-> csv.path, row |-> csv.row, buffer |-> << csv.row >>]
    /\ UNCHANGED <<now, disk>>

\* createDirectory fails or fopen returns NULL: nothing is written.
OpenFails == csv.step = "begun" /\ csv' = NoCall /\ UNCHANGED <<now, disk>>

\* fclose writes the buffer.
Close == /\ csv.step = "open"
         /\ Written(csv.path, disk[csv.path].rows \o csv.buffer)
         /\ csv' = NoCall /\ UNCHANGED now

\* What exit may write of a buffer: some rows, the last of them perhaps cut off.
Cuts(buffer) ==
    {SubSeq(buffer, 1, n) : n \in 0 .. Len(buffer)}
    \cup {SubSeq(buffer, 1, n - 1) \o << [buffer[n] EXCEPT !.whole = FALSE] >> : n \in 1 .. Len(buffer)}

\* The process ends.
Cut == /\ csv' = NoCall /\ UNCHANGED now
       /\ IF csv.step = "open"
          THEN \E rows \in Cuts(csv.buffer) :
                  IF rows = << >> THEN UNCHANGED disk
                  ELSE Written(csv.path, disk[csv.path].rows \o rows)
          ELSE UNCHANGED disk

\* Time passes, but not so much of it that a call takes more than a day.
Prompt == csv.step # "out" => tm_day(now + 1) <= csv.row.day + 1
Tick == /\ now < MaxTime /\ Prompt
        /\ now' = now + 1 /\ UNCHANGED <<disk, csv>>

-----------------------------------------------------------------------------
\* The variables have their types.
TypeOK == /\ now \in 0 .. MaxTime /\ DOMAIN disk \subseteq Paths
          /\ \A p \in DOMAIN disk : disk[p].mtime <= now
          /\ csv.step \in {"out", "begun", "open"}
          /\ csv.step = "open" => csv.path \in DOMAIN disk

RowsOf(path) == {i \in DOMAIN disk[path].rows : disk[path].rows[i].kind = "row"}

\* The rows of a file are of one day, though its name only tells the weekday,
\* and midnight may come between the choice of the file and the writing.
OneDayPerFile ==
    \A p \in DOMAIN disk : \A i, j \in RowsOf(p) :
        disk[p].rows[i].day = disk[p].rows[j].day

\* A file that holds anything begins with the header, and has no other, however
\* often the process was stopped while it wrote.
HeaderFirst ==
    \A p \in DOMAIN disk : \A i \in DOMAIN disk[p].rows :
        disk[p].rows[i].kind = "header" <=> i = 1
=============================================================================
