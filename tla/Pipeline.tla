------------------------------ MODULE Pipeline ------------------------------
(***************************************************************************)
(* The two programs together: smtrecv replays files (FrameStream, which    *)
(* MoldBuffer implements) onto a datagram socket; smtfep takes a message   *)
(* after the other from it, decodes it, writes a row of a csv (CsvLog) and *)
(* calls a handler (smtrcv, smtfep.c).  Either may be stopped and started  *)
(* again at any moment; smtfep may also hang in a message.                 *)
(***************************************************************************)
EXTENDS MoldFraming

CONSTANTS
    FileLists,      \* the lists of files a replay may be given
    QueueLen,       \* how many datagrams the socket holds
    FileNames,      \* known type -> what its csv is named for (class and type)
    Quiet,          \* the types whose loglevel is above fep->llog
    Risky,          \* the types in which smtfep may hang
    Week, Year, DayLength, e2lt, MaxTime,   \* see CsvLog
    MaxRuns,        \* bound: how often the replay is started
    MaxStops        \* bound: how often smtfep is stopped

ASSUME PipelineAssumption ==
    /\ FileLists \subseteq Seq(Seq(Byte))
    /\ QueueLen \in Nat \ {0} /\ MaxRuns \in Nat \ {0} /\ MaxStops \in Nat
    /\ DayLength \in Nat \ {0} /\ Week \in Nat \ {0} /\ Year \in Nat /\ Year > Week
    /\ MaxTime \in Nat /\ e2lt \in Nat
    /\ Risky \subseteq DOMAIN FileNames /\ Quiet \subseteq DOMAIN FileNames

\* The clock ends within a year, so that a day of the year tells the day.
ASSUME YearAssumption ==
    /\ Week > 1
    /\ \A t \in 0 .. MaxTime : (t + e2lt) \div DayLength < Year

VARIABLES
    files, ii, pos, data, seqn, phase, out,     \* smtrecv, see FrameStream
    now, disk, csv,                             \* the clock and the csv, see CsvLog
    run,        \* how often the replay was started
    inbox,      \* the datagrams in the socket
    status,     \* smtfep: "up", "down" or "hung"
    hand,       \* the message it received last
    stage,      \* what was done with it: "decoded", "logging", "logged", "idle"
    away,       \* smtfep was stopped since it received that message
    logged,     \* the rows whose writing was completed, with their files
    stops       \* how often smtfep was stopped

Replay == INSTANCE FrameStream
Csv == INSTANCE CsvLog WITH Names <- {FileNames[t] : t \in DOMAIN FileNames}

recvVars == <<files, ii, pos, data, seqn, phase, out>>
fepVars == <<now, disk, csv, status, hand, stage, away, logged, stops>>
vars == <<recvVars, fepVars, run, inbox>>

\* header.type: allocate_tr_packet converts the first byte with its sign.  An
\* empty block leaves the zeroed data of the packet.
Type(d) == CASE d = << >> -> 0
             [] d # << >> /\ d[1] * 2 < Base -> d[1]
             [] OTHER -> SizeMod - Base + d[1]

Message == [run |-> run, file |-> ii, seqn |-> seqn, type |-> Type(data)]
Id(m) == [run |-> m.run, file |-> m.file, seqn |-> m.seqn]

Init == /\ Replay!Init /\ Csv!Init
        /\ run = 1 /\ inbox = << >> /\ status = "up"
        /\ hand = [run |-> 1, file |-> 0, seqn |-> 0, type |-> 0]
        /\ stage = "idle" /\ away = FALSE /\ logged = {} /\ stops = 0

-----------------------------------------------------------------------------
\* start_analyze, between two sends.
Read == /\ Replay!Open \/ Replay!Take \/ Replay!Leave \/ Replay!Stop
        /\ UNCHANGED <<fepVars, run, inbox>>

\* sendto returns: the socket has room.  It waits while it has none.
Deliver == /\ Replay!Deliver /\ status # "down" /\ Len(inbox) < QueueLen
           /\ inbox' = Append(inbox, Message)
           /\ UNCHANGED <<fepVars, run>>

\* Two bugs: sendto does not wait for room; a failed send is tried again.
DropWhenFull == /\ Replay!Drop /\ (status = "down" \/ Len(inbox) = QueueLen)
                /\ UNCHANGED <<fepVars, run, inbox>>
DropRetries == phase = "send" /\ status = "down" /\ UNCHANGED vars

\* sendto fails: nobody has the socket.
Drop == /\ Replay!Drop /\ status = "down"
        /\ UNCHANGED <<fepVars, run, inbox>>

\* smtrecv ends, or stopit ends it wherever it is, and it is started again.
ReplayAgain == /\ run < MaxRuns /\ run' = run + 1
               /\ ii' = 1 /\ pos' = 0 /\ data' = << >> /\ seqn' = 0
               /\ phase' = "open" /\ out' = << >>
               /\ UNCHANGED <<files, fepVars, inbox>>

-----------------------------------------------------------------------------
\* smtrcv is called with the next message; smt_decode fills smt_table.
Receive == /\ status = "up" /\ stage = "idle" /\ inbox # << >>
           /\ hand' = Head(inbox) /\ inbox' = Tail(inbox)
           /\ stage' = "decoded" /\ away' = FALSE
           /\ UNCHANGED <<recvVars, run, now, disk, csv, status, logged, stops>>

Known == hand.type \in DOMAIN FileNames

\* A step of smtfep with the message in hand.
Step(from, to) == /\ status = "up" /\ stage = from /\ stage' = to
                  /\ UNCHANGED <<recvVars, run, inbox, status, hand, away, stops>>

\* nas_smt_csv returns at once: the level is too high, or an unknown type was
\* given no class.
NotLogged == /\ Step("decoded", "logged")
             /\ ~Known \/ hand.type \in Quiet
             /\ UNCHANGED <<now, disk, csv, logged>>

BeginLog == /\ Step("decoded", "logging")
            /\ Known /\ hand.type \notin Quiet
            /\ Csv!Begin(FileNames[hand.type], Id(hand))
            /\ UNCHANGED logged

OpenLog == Step("logging", "logging") /\ Csv!Open /\ UNCHANGED logged

\* A bug: the file is tried again until it can be opened.
LogFailsRetries == Step("logging", "decoded") /\ Csv!OpenFails /\ UNCHANGED logged

LogFails == Step("logging", "logged") /\ Csv!OpenFails /\ UNCHANGED logged

CloseLog == /\ Step("logging", "logged") /\ Csv!Close
            /\ logged' = logged \cup {[path |-> csv.path, row |-> csv.row]}

\* The handler returns, or there is none.
Handle == Step("logged", "idle") /\ UNCHANGED <<now, disk, csv, logged>>

\* It does not return: the appendage loop of smt_decode, or findParent.
Hang == /\ status = "up" /\ stage \in {"decoded", "logged"} /\ hand.type \in Risky
        /\ status' = "hung"
        /\ UNCHANGED <<recvVars, run, inbox, now, disk, csv, hand, stage, away, logged, stops>>

\* stopit, also from signal_handler when a handler fails: what is in the socket
\* and the message in hand are lost, exit closes the csv.
Stop == /\ status # "down" /\ stops < MaxStops
        /\ status' = "down" /\ stops' = stops + 1
        /\ inbox' = << >> /\ stage' = "idle" /\ away' = TRUE
        /\ Csv!Cut
        /\ UNCHANGED <<recvVars, run, hand, logged>>

\* main.
Start == /\ status = "down" /\ status' = "up"
         /\ UNCHANGED <<recvVars, run, inbox, now, disk, csv, hand, stage, away, logged, stops>>

Tick == /\ Csv!Tick
        /\ UNCHANGED <<recvVars, run, inbox, status, hand, stage, away, logged, stops>>

SmtRecv == Read \/ Deliver \/ Drop
SmtFep == \/ Receive \/ NotLogged \/ BeginLog \/ OpenLog \/ LogFails \/ CloseLog
          \/ Handle \/ Hang

Next == SmtRecv \/ SmtFep \/ ReplayAgain \/ Stop \/ Start \/ Tick

Spec == Init /\ [][Next]_vars

\* Each program goes on when it can; nobody has to stop or start one.
FairSpec == Spec /\ WF_vars(SmtRecv) /\ WF_vars(SmtFep)

-----------------------------------------------------------------------------
\* The variables have their types; smtfep writes a csv only while it logs.
TypeOK == /\ Csv!TypeOK
          /\ files \in FileLists /\ run \in 1 .. MaxRuns /\ Len(inbox) <= QueueLen
          /\ status \in {"up", "down", "hung"} /\ stops \in 0 .. MaxStops
          /\ stage \in {"idle", "decoded", "logging", "logged"}
          /\ stage = "logging" <=> csv.step # "out"
          /\ status = "down" => inbox = << >> /\ stage = "idle"

\* The blocks of a file that the replay takes.
BlockCount(f) ==
    LET count[p \in 0 .. Len(f)] ==
          IF Whole(f, p) /\ LengthBytes + LengthAt(f, p) <= Cap
          THEN 1 + count[p + LengthBytes + LengthAt(f, p)] ELSE 0
    IN  count[0]

\* Messages reach smtfep in the order of the files, none twice in a replay and
\* none left out unless it was stopped in between: it never looks at their
\* numbers, only the waiting sendto and the order of the socket see to it.
Feed == INSTANCE LossyFeed WITH
            counts <- [f \in DOMAIN files |-> BlockCount(files[f])],
            last <- Id(hand), missed <- away
FeedSpec == Feed!Spec

\* The replay ends, whether smtfep is running, stopped or started in the
\* meantime (sendto waits or fails); only a message in which smtfep hangs for
\* good holds it up for good.
ReplayEnds == <>[](status # "hung") => []<>(phase \in {"done", "exited"})

\* When smtfep is not stopped or held up any more it gets to the end of what is
\* in the socket, whatever becomes of the csv.
AllHandled == <>[](status = "up") => <>[](inbox = << >> /\ stage = "idle")

\* See CsvLog: the rows of a file are of one day, under the header.
OneDayPerFile == Csv!OneDayPerFile
HeaderFirst == Csv!HeaderFirst

\* A row that was written stays in its file until the file is begun anew on a
\* later day: no restart and no midnight makes nas_smt_csv truncate the file of
\* the day.
LogKeepsDay ==
    \A l \in logged :
        \/ \E i \in DOMAIN disk[l.path].rows : disk[l.path].rows[i] = l.row
        \/ \A i \in Csv!RowsOf(l.path) : disk[l.path].rows[i].day > l.row.day
=============================================================================
