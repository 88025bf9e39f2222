---------------------------- MODULE FrameStream ----------------------------
(***************************************************************************)
(* What smtrecv promises about the files it replays, without a buffer: it  *)
(* takes the message blocks of each file one after the other, from the     *)
(* start of the file and with nothing skipped, numbers them from 1 in each *)
(* file, and hands each to the socket, which may refuse it.  It leaves a   *)
(* file when no whole block of at most Cap bytes follows.  MoldBuffer      *)
(* implements this specification.                                          *)
(***************************************************************************)
EXTENDS MoldFraming

CONSTANT FileLists      \* the lists of files a run may be given

VARIABLES
    files,      \* the files of this run
    ii,         \* the file being replayed
    pos,        \* bytes of it already taken
    data,       \* the message taken last
    seqn,       \* its number in the file
    phase,      \* "open", "scan", "send", "done" or "exited"
    out         \* what the socket accepted: file, number and data

vars == <<files, ii, pos, data, seqn, phase, out>>

Init ==
    /\ files \in FileLists
    /\ ii = 1 /\ pos = 0 /\ data = <<>> /\ seqn = 0
    /\ phase = "open" /\ out = <<>>

\* The block at pos can be taken: it is whole and fits in the buffer.
Takeable == /\ Whole(files[ii], pos)
            /\ LengthBytes + LengthAt(files[ii], pos) <= Cap

Open == /\ phase = "open" /\ ii <= Len(files)
        /\ phase' = "scan" /\ pos' = 0 /\ seqn' = 0
        /\ UNCHANGED <<files, ii, data, out>>

Take == /\ phase = "scan" /\ Takeable
        /\ data' = DataAt(files[ii], pos)
        /\ pos' = pos + LengthBytes + LengthAt(files[ii], pos)
        /\ seqn' = seqn + 1
        /\ phase' = "send"
        /\ UNCHANGED <<files, ii, out>>

Deliver == /\ phase = "send"
           /\ out' = Append(out, [file |-> ii, seqn |-> seqn, data |-> data])
           /\ phase' = "scan"
           /\ UNCHANGED <<files, ii, pos, data, seqn>>

Drop == /\ phase = "send" /\ phase' = "scan"
        /\ UNCHANGED <<files, ii, pos, data, seqn, out>>

Leave == /\ phase = "scan" /\ ~Takeable
         /\ ii' = ii + 1 /\ phase' = "open"
         /\ UNCHANGED <<files, pos, data, seqn, out>>

Stop == /\ phase = "open"
        /\ phase' \in {"done", "exited"}
        /\ phase' = "done" <=> ii > Len(files)
        /\ UNCHANGED <<files, ii, pos, data, seqn, out>>

Next == Open \/ Take \/ Deliver \/ Drop \/ Leave \/ Stop

Spec == Init /\ [][Next]_vars
=============================================================================
