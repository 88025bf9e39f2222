----------------------------- MODULE MoldBuffer -----------------------------
(***************************************************************************)
(* smtrecv's replay of recorded files: start_analyze (smtrecv.c) with the  *)
(* message buffer of smttool.c and the block parser of moldudp64.c.  The   *)
(* buffer is an array of Cap bytes of which [offset, offset + rest_size)   *)
(* is unread; fread fills it from rest_size on, whatever offset is.        *)
(***************************************************************************)
EXTENDS MoldFraming

CONSTANT FileLists      \* the lists of files a run may be given

ASSUME FilesAssumption == FileLists \subseteq Seq(Seq(Byte))

VARIABLES
    files,      \* the files of this run, NASDAQ_EMI_FILENAME
    ii,         \* index of the file being read
    fpos,       \* position of the stream, after the last byte fread returned
    mb,         \* MSGBUFF: buffer, offset, rest_size
    data,       \* dwn_packet.msg_block.data, up to msgl; zeroed before each parse
    seqn,       \* tr_packet->header.seqn
    pc,         \* where start_analyze is: "open", "read", "parse", "send",
                \* "done" (returned) or "exited"
    out         \* the packets sendto delivered

vars == <<files, ii, fpos, mb, data, seqn, pc, out>>

file == files[ii]

MsgBuff == [buffer : [0 .. Cap - 1 -> Byte], offset : 0 .. Cap, rest : 0 .. Cap]

\* initialize_msg_buff: the buffer is cleared for every file.
EmptyMsgBuff == [buffer |-> [i \in 0 .. Cap - 1 |-> 0], offset |-> 0, rest |-> 0]

\* Two bugs: the bytes stay where they are; nothing is done at all.
FinishMsgBuffUnmoved(m) == [m EXCEPT !.offset = 0]
FinishMsgBuffForgotten(m) == m

\* finish_msg_buff: the unread bytes move to the front.
FinishMsgBuff(m) ==
    [m EXCEPT !.buffer = [i \in 0 .. Cap - 1 |-> IF i < m.rest THEN m.buffer[m.offset + i]
                                                               ELSE m.buffer[i]],
              !.offset = 0]

\* read_msg_buff of a field of n bytes, once there are that many.
ReadField(m, n) == [m EXCEPT !.offset = m.offset + n, !.rest = m.rest - n]

\* A bug: what was read is not put back.
RestoreMsgBuffNothing(m, n) == FinishMsgBuff(m)

\* restore_msg_buff: the last n bytes read become unread again.
RestoreMsgBuff(m, n) ==
    IF n > m.offset THEN m
    ELSE FinishMsgBuff([m EXCEPT !.offset = m.offset - n, !.rest = m.rest + n])

\* The next message length, when its two bytes are in the buffer.
NextLength == LengthField(mb.buffer[mb.offset], mb.buffer[mb.offset + 1])

LengthScarce == mb.rest < LengthBytes
DataScarce == ~LengthScarce /\ mb.rest - LengthBytes < NextLength

\* A bug: the whole buffer is asked for, sizeof(buffer) without - rest_size.
FreadSizeOverRest == IF Cap < Len(file) - fpos THEN Cap ELSE Len(file) - fpos

\* How much fread returns: it fills the free part of the buffer or reaches
\* the end of the file.
FreadSize == IF Cap - mb.rest < Len(file) - fpos THEN Cap - mb.rest ELSE Len(file) - fpos

Init == /\ files \in FileLists
        /\ ii = 1 /\ fpos = 0 /\ mb = EmptyMsgBuff
        /\ data = <<>> /\ seqn = 0 /\ pc = "open" /\ out = <<>>

\* The next file is opened, the buffer and the packet are initialised.
OpenFile == /\ pc = "open" /\ ii <= Len(files)
            /\ pc' = "read" /\ fpos' = 0 /\ mb' = EmptyMsgBuff /\ seqn' = 0
            /\ UNCHANGED <<files, ii, data, out>>

\* fopen or socket() fails: the process exits.
OpenFails == /\ pc = "open" /\ ii <= Len(files)
             /\ pc' = "exited"
             /\ UNCHANGED <<files, ii, fpos, mb, data, seqn, out>>

\* The list of files is exhausted: start_analyze returns.
Return == /\ pc = "open" /\ ii > Len(files)
          /\ pc' = "done"
          /\ UNCHANGED <<files, ii, fpos, mb, data, seqn, out>>

\* fread returned something: it goes behind the rest_size bytes in front.
Fread == /\ pc = "read" /\ FreadSize > 0
         /\ mb' = [mb EXCEPT
                     !.buffer = [i \in 0 .. Cap - 1 |->
                                   IF i \in mb.rest .. (mb.rest + FreadSize - 1)
                                   THEN file[fpos + (i - mb.rest) + 1] ELSE mb.buffer[i]],
                     !.rest = mb.rest + FreadSize]
         /\ fpos' = fpos + FreadSize
         /\ pc' = "parse"
         /\ UNCHANGED <<files, ii, data, seqn, out>>

\* fread returned nothing, at the end of the file or with no room left.
CloseFile == /\ pc = "read" /\ FreadSize = 0
             /\ ii' = ii + 1 /\ pc' = "open"
             /\ UNCHANGED <<files, fpos, mb, data, seqn, out>>

\* A bug: the parser is tried again instead of reading on.
ParseNoLengthAgain == /\ pc = "parse" /\ LengthScarce
                      /\ mb' = FinishMsgBuff(mb)
                      /\ UNCHANGED <<files, ii, fpos, data, seqn, pc, out>>

\* The buffer does not hold the length of the next block.
ParseNoLength == /\ pc = "parse" /\ LengthScarce
                 /\ mb' = FinishMsgBuff(mb)
                 /\ pc' = "read"
                 /\ UNCHANGED <<files, ii, fpos, data, seqn, out>>

\* It holds the length but not the data: the length is put back.
ParseNoData == /\ pc = "parse" /\ DataScarce
               /\ mb' = FinishMsgBuff(RestoreMsgBuff(ReadField(mb, LengthBytes), LengthBytes))
               /\ pc' = "read"
               /\ UNCHANGED <<files, ii, fpos, data, seqn, out>>

\* A whole block: it is taken out and put in the packet to send.
ParseBlock == /\ pc = "parse" /\ ~LengthScarce /\ ~DataScarce
              /\ data' = [i \in 1 .. NextLength |->
                            mb.buffer[mb.offset + LengthBytes + i - 1]]
              /\ mb' = ReadField(ReadField(mb, LengthBytes), NextLength)
              /\ seqn' = seqn + 1
              /\ pc' = "send"
              /\ UNCHANGED <<files, ii, fpos, out>>

Send == /\ pc = "send"
        /\ out' = Append(out, [file |-> ii, seqn |-> seqn, data |-> data])
        /\ pc' = "parse"
        /\ UNCHANGED <<files, ii, fpos, mb, data, seqn>>

\* sendto fails: the code sleeps and goes on with the next block.
SendFails == /\ pc = "send"
             /\ pc' = "parse"
             /\ UNCHANGED <<files, ii, fpos, mb, data, seqn, out>>

Next == \/ OpenFile \/ OpenFails \/ Return
        \/ Fread \/ CloseFile
        \/ ParseNoLength \/ ParseNoData \/ ParseBlock
        \/ Send \/ SendFails

Spec == Init /\ [][Next]_vars

\* A sequential program that nothing blocks keeps taking steps.
FairSpec == Spec /\ WF_vars(Next)

-----------------------------------------------------------------------------
\* The variables have their types.
TypeOK == /\ files \in FileLists
          /\ ii \in 1 .. Len(files) + 1
          /\ fpos \in Nat
          /\ mb \in MsgBuff
          /\ data \in Seq(Byte)
          /\ seqn \in Nat
          /\ pc \in {"open", "read", "parse", "send", "done", "exited"}
          /\ out \in Seq([file : Nat, seqn : Nat, data : Seq(Byte)])

Reading == pc \in {"read", "parse", "send"}

\* The unread part of the buffer is exactly the bytes of the file in front of
\* the stream position: moving, restoring and refilling it (finish_msg_buff,
\* restore_msg_buff, fread) neither loses, repeats nor reorders a byte.
WindowInv ==
    Reading =>
        /\ ii <= Len(files)
        /\ mb.offset + mb.rest <= Cap
        /\ mb.rest <= fpos /\ fpos <= Len(file)
        /\ \A i \in 0 .. Cap - 1 :
              i < mb.rest => mb.buffer[mb.offset + i] = file[fpos - mb.rest + i + 1]

\* fread stores at rest_size, so the unread bytes must be at the front then;
\* and it is only called once no whole block is left in the buffer.
ReadyToRead ==
    pc = "read" => mb.offset = 0 /\ (LengthScarce \/ DataScarce)

\* The blocks are those of the file, in order, numbered, none skipped, and a
\* file is left only when no whole block that fits in the buffer follows.
Stream == INSTANCE FrameStream WITH
             pos <- fpos - mb.rest,
             phase <- IF pc \in {"read", "parse"} THEN "scan" ELSE pc
StreamSpec == Stream!Spec

\* Whatever the files hold, the replay ends: the parser cannot spin on a
\* block it never completes.
Terminates == <>(pc \in {"done", "exited"})
=============================================================================
