-------------------------- MODULE MoldBufferProofs --------------------------
(***************************************************************************)
(* Proofs about MoldBuffer, for every buffer size, every byte size and     *)
(* every list of files.                                                    *)
(***************************************************************************)
EXTENDS MoldBuffer, SequenceTheorems, TLAPS

\* The inductive invariant.  WindowInv needs ReadyToRead, because fread stores
\* at rest_size, which is behind the unread bytes only when offset is 0; the
\* types need WindowInv, because offset + rest bounds every index.
IInv == TypeOK /\ WindowInv /\ ReadyToRead

\* A decoded length is a natural number, also when it is sign-extended.
LEMMA LengthFieldType ==
    ASSUME NEW hi \in Byte, NEW lo \in Byte
    PROVE  LengthField(hi, lo) \in Nat
<1> DEFINE bb == Base * Base
           hb == hi * Base
<1>1. Base \in Nat /\ hi \in Nat /\ lo \in Nat /\ Cap \in Nat /\ SizeMod \in Nat
      BY FramingAssumption DEF Byte
<1>2. bb \in Nat /\ hb \in Nat
      BY <1>1
<1>3. SizeMod > bb + Cap
      BY FramingAssumption
<1> HIDE DEF bb, hb
<1>4. hb + lo \in Nat /\ (SizeMod - bb) + (hb + lo) \in Nat
      BY <1>1, <1>2, <1>3
<1> QED BY <1>4 DEF LengthField, bb, hb

\* The only fact about the size of the buffer the proofs below need.
LEMMA CapType == Cap \in Nat /\ Cap > 0
BY FramingAssumption

\* Reading a field of n bytes out of a buffer that has them.
LEMMA ReadFieldFacts ==
    ASSUME NEW m \in MsgBuff, m.offset + m.rest <= Cap,
           NEW n \in Nat, n <= m.rest
    PROVE  /\ ReadField(m, n) \in MsgBuff
           /\ ReadField(m, n).offset = m.offset + n
           /\ ReadField(m, n).rest = m.rest - n
           /\ ReadField(m, n).buffer = m.buffer
<1> DEFINE o == m.offset + n
           k == m.rest - n
<1>1. o \in 0 .. Cap /\ k \in 0 .. Cap
      BY CapType DEF MsgBuff
<1>2. ReadField(m, n) = [m EXCEPT !.offset = o, !.rest = k]
      BY DEF ReadField
<1> HIDE DEF o, k
<1>3. /\ ReadField(m, n) \in MsgBuff
      /\ ReadField(m, n).offset = o
      /\ ReadField(m, n).rest = k
      /\ ReadField(m, n).buffer = m.buffer
      BY <1>1, <1>2 DEF MsgBuff
<1> QED BY <1>3 DEF o, k

\* finish_msg_buff keeps the unread bytes, in order, and moves them to the front.
LEMMA FinishKeepsUnread ==
    ASSUME NEW m \in MsgBuff, m.offset + m.rest <= Cap
    PROVE  /\ FinishMsgBuff(m) \in MsgBuff
           /\ FinishMsgBuff(m).offset = 0
           /\ FinishMsgBuff(m).rest = m.rest
           /\ \A i \in 0 .. Cap - 1 :
                 i < m.rest => FinishMsgBuff(m).buffer[i] = m.buffer[m.offset + i]
<1> DEFINE r == FinishMsgBuff(m)
           front == [i \in 0 .. Cap - 1 |-> IF i < m.rest THEN m.buffer[m.offset + i]
                                                         ELSE m.buffer[i]]
<1>1. m.buffer \in [0 .. Cap - 1 -> Byte] /\ m.offset \in Nat /\ m.rest \in 0 .. Cap
      BY CapType DEF MsgBuff
<1>2. front \in [0 .. Cap - 1 -> Byte]
      BY <1>1, CapType
<1>3. r = [m EXCEPT !.buffer = front, !.offset = 0]
      BY DEF FinishMsgBuff
<1> HIDE DEF front, r
<1>4. 0 \in 0 .. Cap
      BY CapType
<1>5. r \in MsgBuff /\ r.offset = 0 /\ r.rest = m.rest /\ r.buffer = front
      BY <1>2, <1>3, <1>4 DEF MsgBuff
<1> QED BY <1>5 DEF r, front

\* restore_msg_buff undoes a read: the buffer that proc_msg_buff leaves after a
\* scarce field has the unread bytes it had before it tried.
LEMMA RestoreUndoesRead ==
    ASSUME NEW m \in MsgBuff, m.offset + m.rest <= Cap,
           NEW n \in Nat, n <= m.rest
    PROVE  LET r == FinishMsgBuff(RestoreMsgBuff(ReadField(m, n), n))
           IN  /\ r \in MsgBuff
               /\ r.offset = 0
               /\ r.rest = m.rest
               /\ \A i \in 0 .. Cap - 1 :
                     i < m.rest => r.buffer[i] = m.buffer[m.offset + i]
<1> DEFINE a == ReadField(m, n)
           b == [a EXCEPT !.offset = a.offset - n, !.rest = a.rest + n]
           c == FinishMsgBuff(b)
<1>1. /\ a \in MsgBuff /\ a.offset = m.offset + n /\ a.rest = m.rest - n
      /\ a.buffer = m.buffer
      BY ReadFieldFacts
<1> HIDE DEF a
<1>2. b \in MsgBuff /\ b.offset = m.offset /\ b.rest = m.rest /\ b.buffer = m.buffer
  <2> DEFINE o == a.offset - n
             k == a.rest + n
  <2>1. o = m.offset /\ k = m.rest
        BY <1>1, CapType DEF MsgBuff
  <2>2. o \in 0 .. Cap /\ k \in 0 .. Cap
        BY <2>1 DEF MsgBuff
  <2>3. b = [a EXCEPT !.offset = o, !.rest = k]
        OBVIOUS
  <2> HIDE DEF o, k, b
  <2>4. b \in MsgBuff /\ b.offset = o /\ b.rest = k /\ b.buffer = a.buffer
        BY <1>1, <2>2, <2>3 DEF MsgBuff
  <2> QED BY <1>1, <2>1, <2>4
<1>3. RestoreMsgBuff(a, n) = c
  <2>1. ~(n > a.offset)
        BY <1>1, CapType DEF MsgBuff
  <2> QED BY <2>1 DEF RestoreMsgBuff
<1>4. /\ c \in MsgBuff /\ c.offset = 0 /\ c.rest = m.rest
      /\ \A i \in 0 .. Cap - 1 : i < m.rest => c.buffer[i] = m.buffer[m.offset + i]
  <2> HIDE DEF b
  <2> QED BY <1>2, FinishKeepsUnread
<1>5. /\ FinishMsgBuff(c) \in MsgBuff
      /\ FinishMsgBuff(c).offset = 0
      /\ FinishMsgBuff(c).rest = m.rest
      /\ \A i \in 0 .. Cap - 1 :
            i < m.rest => FinishMsgBuff(c).buffer[i] = c.buffer[i]
  <2> HIDE DEF c
  <2>1. c.offset + c.rest <= Cap
        BY <1>4, CapType DEF MsgBuff
  <2>2. /\ FinishMsgBuff(c) \in MsgBuff
        /\ FinishMsgBuff(c).offset = 0
        /\ FinishMsgBuff(c).rest = c.rest
        /\ \A i \in 0 .. Cap - 1 :
              i < c.rest => FinishMsgBuff(c).buffer[i] = c.buffer[c.offset + i]
        BY <1>4, <2>1, FinishKeepsUnread
  <2>3. \A i \in 0 .. Cap - 1 : c.offset + i = i
        BY <1>4, CapType
  <2> QED BY <1>4, <2>2, <2>3
<1> QED BY <1>3, <1>4, <1>5 DEF a

\* The file being read is a sequence of bytes.
LEMMA FileType ==
    ASSUME TypeOK, ii <= Len(files)
    PROVE  /\ file \in Seq(Byte)
           /\ Len(file) \in Nat
           /\ \A i \in 1 .. Len(file) : file[i] \in Byte
           /\ files \in Seq(Seq(Byte))
BY FilesAssumption DEF TypeOK, file

\* How much fread returns is at most the room and at most what the file has left.
LEMMA FreadSizeBounds ==
    ASSUME TypeOK, WindowInv, pc = "read"
    PROVE  /\ FreadSize \in Nat
           /\ mb.rest + FreadSize <= Cap
           /\ fpos + FreadSize <= Len(file)
           /\ FreadSize = 0 => mb.rest = Cap \/ fpos = Len(file)
<1>1. Len(file) \in Nat /\ fpos <= Len(file)
      BY FileType DEF WindowInv, Reading
<1> QED BY <1>1, CapType DEF FreadSize, TypeOK, MsgBuff

LEMMA InitIInv == Init => IInv
<1> SUFFICES ASSUME Init PROVE IInv
    OBVIOUS
<1>1. files \in Seq(Seq(Byte)) /\ Len(files) \in Nat
      BY FilesAssumption DEF Init
<1>2. EmptyMsgBuff \in MsgBuff
      BY FramingAssumption DEF EmptyMsgBuff, MsgBuff, Byte
<1>3. TypeOK
      BY <1>1, <1>2 DEF Init, TypeOK
<1> QED BY <1>3 DEF IInv, Init, WindowInv, ReadyToRead, Reading

\* The length of the next block is a natural number whenever it can be read.
LEMMA NextLengthType ==
    ASSUME TypeOK, WindowInv, Reading, ~LengthScarce
    PROVE  NextLength \in Nat
<1>1. mb.offset \in 0 .. Cap - 1 /\ mb.offset + 1 \in 0 .. Cap - 1
      BY CapType DEF TypeOK, WindowInv, MsgBuff, LengthScarce, LengthBytes
<1>2. mb.buffer[mb.offset] \in Byte /\ mb.buffer[mb.offset + 1] \in Byte
      BY <1>1 DEF TypeOK, MsgBuff
<1> QED BY <1>2, LengthFieldType DEF NextLength

\* What fread leaves in the buffer: the unread bytes followed by the next bytes
\* of the file.
LEMMA FreadStep == IInv /\ Fread => IInv'
<1> SUFFICES ASSUME IInv, Fread PROVE IInv'
    OBVIOUS
<1> DEFINE n == FreadSize
           filled == [i \in 0 .. Cap - 1 |->
                        IF i \in mb.rest .. (mb.rest + n - 1)
                        THEN file[fpos + (i - mb.rest) + 1] ELSE mb.buffer[i]]
<1>1. /\ TypeOK /\ WindowInv /\ ReadyToRead /\ pc = "read" /\ Reading
      /\ ii <= Len(files) /\ n > 0
      BY DEF IInv, Fread, WindowInv, Reading
<1>2. /\ n \in Nat /\ mb.rest + n <= Cap /\ fpos + n <= Len(file)
      BY <1>1, FreadSizeBounds
<1>3. /\ file \in Seq(Byte) /\ Len(file) \in Nat
      /\ \A i \in 1 .. Len(file) : file[i] \in Byte
      BY <1>1, FileType
<1>4. /\ mb \in MsgBuff /\ mb.rest \in Nat /\ mb.rest <= Cap /\ mb.offset = 0
      /\ mb.buffer \in [0 .. Cap - 1 -> Byte] /\ fpos \in Nat /\ mb.rest <= fpos
      BY <1>1, CapType DEF TypeOK, MsgBuff, ReadyToRead, WindowInv
<1>5. filled \in [0 .. Cap - 1 -> Byte]
  <2> SUFFICES ASSUME NEW i \in 0 .. Cap - 1,
                      i \in mb.rest .. (mb.rest + n - 1)
               PROVE  file[fpos + (i - mb.rest) + 1] \in Byte
      BY <1>4
  <2>1. fpos + (i - mb.rest) + 1 \in 1 .. Len(file)
        BY <1>2, <1>3, <1>4, CapType, SMTT(30)
  <2> QED BY <1>3, <2>1
<1>6. mb' = [mb EXCEPT !.buffer = filled, !.rest = mb.rest + n]
      BY DEF Fread
<1>7. fpos' = fpos + n /\ pc' = "parse"
      BY DEF Fread
<1>8. files' = files /\ ii' = ii /\ file' = file
      BY DEF Fread, file
<1>9. mb.rest + n \in 0 .. Cap
      BY <1>2, <1>4, CapType
<1>10. /\ mb' \in MsgBuff /\ mb'.offset = 0 /\ mb'.rest = mb.rest + n
       /\ mb'.buffer = filled
  <2> HIDE DEF filled, n
  <2> QED BY <1>4, <1>5, <1>6, <1>9 DEF MsgBuff
<1>11. TypeOK'
      BY <1>1, <1>2, <1>4, <1>7, <1>8, <1>10 DEF TypeOK, Fread
<1>12. WindowInv'
  <2>1. /\ mb'.offset + mb'.rest <= Cap
        /\ mb'.rest <= fpos' /\ fpos' <= Len(file)
        BY <1>2, <1>4, <1>7, <1>10
  <2>2. ASSUME NEW i \in 0 .. Cap - 1, i < mb'.rest
        PROVE  mb'.buffer[mb'.offset + i] = file[fpos' - mb'.rest + i + 1]
    <3>1. /\ i \in Nat /\ mb'.offset + i = i
          /\ fpos' - mb'.rest = fpos - mb.rest
          BY <1>2, <1>4, <1>7, <1>10, CapType
    <3>2. mb'.buffer[i] = filled[i]
          BY <1>10
    <3>3. CASE i < mb.rest
      <4>1. filled[i] = mb.buffer[i]
            BY <1>2, <1>4, <3>3, CapType
      <4>2. mb.offset + i = i
            BY <1>4, <3>1
      <4>3. mb.buffer[i] = file[fpos - mb.rest + i + 1]
            BY <1>1, <3>3, <4>2 DEF WindowInv
      <4> QED BY <3>1, <3>2, <4>1, <4>3
    <3>4. CASE ~(i < mb.rest)
      <4>1. i \in mb.rest .. (mb.rest + n - 1)
            BY <1>2, <1>4, <1>10, <2>2, <3>1, <3>4
      <4>2. filled[i] = file[fpos + (i - mb.rest) + 1]
            BY <4>1
      <4>3. fpos + (i - mb.rest) + 1 = fpos - mb.rest + i + 1
            BY <1>4, <3>1
      <4> QED BY <3>1, <3>2, <4>2, <4>3
    <3> QED BY <3>3, <3>4
  <2> QED BY <1>1, <1>8, <2>1, <2>2 DEF WindowInv
<1>13. ReadyToRead'
      BY <1>7 DEF ReadyToRead
<1> QED BY <1>11, <1>12, <1>13 DEF IInv

\* Both scarce exits of the parser leave the unread bytes at the front, and
\* the same shortage as before.
LEMMA ScarceStep == IInv /\ (ParseNoLength \/ ParseNoData) => IInv'
<1> SUFFICES ASSUME IInv, ParseNoLength \/ ParseNoData PROVE IInv'
    OBVIOUS
<1>1. /\ TypeOK /\ WindowInv /\ pc = "parse" /\ Reading /\ ii <= Len(files)
      BY DEF IInv, ParseNoLength, ParseNoData, WindowInv, Reading
<1>2. /\ mb \in MsgBuff /\ mb.rest \in Nat /\ mb.offset \in Nat
      /\ mb.offset + mb.rest <= Cap /\ fpos \in Nat
      BY <1>1, CapType DEF TypeOK, MsgBuff, WindowInv
<1>3. /\ mb' \in MsgBuff /\ mb'.offset = 0 /\ mb'.rest = mb.rest
      /\ \A i \in 0 .. Cap - 1 :
            i < mb.rest => mb'.buffer[i] = mb.buffer[mb.offset + i]
  <2>1. CASE ParseNoLength
        BY <1>2, <2>1, FinishKeepsUnread DEF ParseNoLength
  <2>2. CASE ParseNoData
    <3>1. LengthBytes \in Nat /\ LengthBytes <= mb.rest
          BY <1>2, <2>2 DEF ParseNoData, DataScarce, LengthScarce, LengthBytes
    <3> QED BY <1>2, <2>2, <3>1, RestoreUndoesRead DEF ParseNoData
  <2> QED BY <2>1, <2>2
<1>4. /\ files' = files /\ ii' = ii /\ file' = file /\ fpos' = fpos
      /\ data' = data /\ seqn' = seqn /\ out' = out /\ pc' = "read"
      BY DEF ParseNoLength, ParseNoData, file
<1>5. TypeOK'
      BY <1>1, <1>3, <1>4 DEF TypeOK
<1>6. WindowInv'
  <2>1. mb'.offset + mb'.rest <= Cap
        BY <1>3, <1>2 DEF MsgBuff
  <2>2. ASSUME NEW i \in 0 .. Cap - 1, i < mb'.rest
        PROVE  mb'.buffer[mb'.offset + i] = file[fpos' - mb'.rest + i + 1]
    <3>1. mb'.offset + i = i
          BY <1>3, CapType
    <3>2. mb'.buffer[i] = mb.buffer[mb.offset + i]
          BY <1>3, <2>2
    <3>3. mb.buffer[mb.offset + i] = file[fpos - mb.rest + i + 1]
          BY <1>1, <1>3, <2>2 DEF WindowInv
    <3> QED BY <1>3, <1>4, <3>1, <3>2, <3>3
  <2> QED BY <1>1, <1>3, <1>4, <2>1, <2>2 DEF WindowInv
<1>7. ReadyToRead'
  <2>1. CASE LengthScarce
        BY <1>3, <2>1 DEF ReadyToRead, LengthScarce
  <2>2. CASE DataScarce
    <3>1. mb.rest >= 2
          BY <1>2, <2>2 DEF DataScarce, LengthScarce, LengthBytes
    <3>2. 0 \in 0 .. Cap - 1 /\ 1 \in 0 .. Cap - 1 /\ 0 < mb.rest /\ 1 < mb.rest
          BY <1>2, <3>1, CapType
    <3>3. mb'.buffer[0] = mb.buffer[mb.offset + 0] /\ mb'.buffer[1] = mb.buffer[mb.offset + 1]
          BY <1>3, <3>2
    <3>4. mb'.buffer[mb'.offset] = mb.buffer[mb.offset]
          BY <1>2, <1>3, <3>3
    <3>5. mb'.buffer[mb'.offset + 1] = mb.buffer[mb.offset + 1]
          BY <1>3, <3>3
    <3>6. NextLength' = NextLength
          BY <3>4, <3>5 DEF NextLength
    <3> QED BY <1>3, <2>2, <3>6 DEF ReadyToRead, DataScarce, LengthScarce
  <2> QED BY <2>1, <2>2 DEF ParseNoLength, ParseNoData
<1> QED BY <1>5, <1>6, <1>7 DEF IInv

\* What the parser sees is what the file holds at the position it has reached:
\* the length, and, when the block is complete, its data.
LEMMA ParserSeesFile ==
    ASSUME IInv, Reading, ~LengthScarce
    PROVE  /\ NextLength \in Nat
           /\ fpos - mb.rest \in Nat
           /\ fpos - mb.rest + LengthBytes <= Len(file)
           /\ NextLength = LengthAt(file, fpos - mb.rest)
           /\ ~DataScarce =>
                 fpos - mb.rest + LengthBytes + NextLength <= Len(file)
<1>1. /\ TypeOK /\ WindowInv /\ ii <= Len(files)
      BY DEF IInv, WindowInv
<1>2. /\ mb.rest \in Nat /\ mb.rest >= 2 /\ mb.offset \in Nat /\ fpos \in Nat
      /\ mb.offset + mb.rest <= Cap /\ mb.rest <= fpos /\ fpos <= Len(file)
      BY <1>1, CapType DEF TypeOK, MsgBuff, WindowInv, LengthScarce, LengthBytes
<1>3. NextLength \in Nat /\ Len(file) \in Nat
      BY <1>1, NextLengthType, FileType
<1>4. 0 \in 0 .. Cap - 1 /\ 1 \in 0 .. Cap - 1 /\ 0 < mb.rest /\ 1 < mb.rest
      BY <1>2, CapType
<1>5. /\ mb.buffer[mb.offset + 0] = file[fpos - mb.rest + 0 + 1]
      /\ mb.buffer[mb.offset + 1] = file[fpos - mb.rest + 1 + 1]
      BY <1>1, <1>4 DEF WindowInv
<1>6. /\ mb.buffer[mb.offset] = file[fpos - mb.rest + 1]
      /\ mb.buffer[mb.offset + 1] = file[fpos - mb.rest + 2]
  <2>1. /\ mb.offset + 0 = mb.offset /\ fpos - mb.rest + 0 + 1 = fpos - mb.rest + 1
        /\ fpos - mb.rest + 1 + 1 = fpos - mb.rest + 2
        BY <1>2
  <2> QED BY <1>5, <2>1
<1>7. NextLength = LengthAt(file, fpos - mb.rest)
      BY <1>6 DEF NextLength, LengthAt
<1>8. ASSUME ~DataScarce
      PROVE  fpos - mb.rest + LengthBytes + NextLength <= Len(file)
      BY <1>2, <1>3, <1>8 DEF DataScarce, LengthBytes
<1> QED BY <1>2, <1>3, <1>7, <1>8 DEF LengthBytes

\* Taking a block out of the buffer advances the window by the whole block.
LEMMA ParseBlockFacts ==
    ASSUME IInv, ParseBlock
    PROVE  /\ mb' \in MsgBuff
           /\ mb'.buffer = mb.buffer
           /\ mb'.offset = mb.offset + LengthBytes + NextLength
           /\ mb'.rest = mb.rest - LengthBytes - NextLength
           /\ mb'.rest \in Nat
           /\ data' \in Seq(Byte)
           /\ data' = DataAt(file, fpos - mb.rest)
<1> DEFINE k == NextLength
           a == ReadField(mb, LengthBytes)
<1>1. /\ TypeOK /\ WindowInv /\ Reading /\ ii <= Len(files)
      /\ ~LengthScarce /\ ~DataScarce
      BY DEF IInv, ParseBlock, WindowInv, Reading
<1>2. /\ mb \in MsgBuff /\ mb.rest \in Nat /\ mb.rest >= 2 /\ mb.offset \in Nat
      /\ mb.offset + mb.rest <= Cap /\ fpos \in Nat
      /\ mb.buffer \in [0 .. Cap - 1 -> Byte]
      BY <1>1, CapType DEF TypeOK, MsgBuff, WindowInv, LengthScarce, LengthBytes
<1>3. k \in Nat /\ k <= mb.rest - 2
      BY <1>1, <1>2, NextLengthType DEF DataScarce, LengthBytes
<1>4. /\ LengthBytes \in Nat /\ LengthBytes <= mb.rest
      BY <1>2 DEF LengthBytes
<1>5. /\ a \in MsgBuff /\ a.offset = mb.offset + LengthBytes
      /\ a.rest = mb.rest - LengthBytes /\ a.buffer = mb.buffer
      BY <1>2, <1>4, ReadFieldFacts
<1>6. mb' = ReadField(a, k)
      BY DEF ParseBlock
<1>7. k <= a.rest /\ a.offset + a.rest <= Cap
      BY <1>2, <1>3, <1>5 DEF LengthBytes
<1> HIDE DEF k, a
<1>8. /\ ReadField(a, k) \in MsgBuff
      /\ ReadField(a, k).offset = a.offset + k
      /\ ReadField(a, k).rest = a.rest - k
      /\ ReadField(a, k).buffer = a.buffer
      BY <1>3, <1>5, <1>7, ReadFieldFacts
<1>9. data' = [i \in 1 .. k |-> mb.buffer[mb.offset + LengthBytes + i - 1]]
      BY DEF ParseBlock, k
<1>10. data' \in Seq(Byte)
  <2>1. \A i \in 1 .. k : mb.offset + LengthBytes + i - 1 \in 0 .. Cap - 1
        BY <1>2, <1>3, CapType DEF LengthBytes
  <2>2. \A i \in 1 .. k : mb.buffer[mb.offset + LengthBytes + i - 1] \in Byte
        BY <1>2, <2>1
  <2>3. data' \in [1 .. k -> Byte]
        BY <1>9, <2>2
  <2> QED BY <1>3, <2>3
<1>11. data' = DataAt(file, fpos - mb.rest)
  <2> DEFINE p == fpos - mb.rest
             d == SubSeq(file, p + 2 + 1, p + 2 + k)
  <2>1. /\ p \in Nat /\ p + 2 + k <= Len(file) /\ k = LengthAt(file, p)
        /\ file \in Seq(Byte) /\ Len(file) \in Nat
        BY <1>1, ParserSeesFile, FileType DEF k, LengthBytes
  <2>2. DataAt(file, p) = d
        BY <2>1 DEF DataAt, LengthBytes
  <2>3. d = [i \in 1 .. k |-> file[p + 2 + i]]
    <3>1. Len(d) = k /\ d \in Seq(Byte)
          BY <1>3, <2>1
    <3>2. \A i \in 1 .. k : d[i] = file[p + 2 + i]
          BY <1>3, <2>1
    <3> HIDE DEF d
    <3>3. d \in [1 .. Len(d) -> Byte]
          BY <3>1, LenProperties
    <3> QED BY <3>1, <3>2, <3>3
  <2>4. ASSUME NEW i \in 1 .. k
        PROVE  mb.buffer[mb.offset + LengthBytes + i - 1] = file[p + 2 + i]
    <3>1. i + 1 \in 0 .. Cap - 1 /\ i + 1 < mb.rest
          BY <1>2, <1>3, CapType
    <3>2. mb.buffer[mb.offset + (i + 1)] = file[fpos - mb.rest + (i + 1) + 1]
          BY <1>1, <3>1 DEF WindowInv
    <3>3. /\ mb.offset + (i + 1) = mb.offset + LengthBytes + i - 1
          /\ fpos - mb.rest + (i + 1) + 1 = p + 2 + i
      <4> i \in Nat /\ p \in Nat /\ mb.offset \in Nat
          BY <1>2, <1>3, <2>1
      <4> HIDE DEF p, d
      <4>1. mb.offset + (i + 1) = mb.offset + LengthBytes + i - 1
            BY <1>2 DEF LengthBytes
      <4>2. p + (i + 1) + 1 = p + 2 + i
            OBVIOUS
      <4> QED BY <4>1, <4>2 DEF p
    <3> QED BY <3>2, <3>3
  <2> HIDE DEF p, d
  <2>5. data' = [i \in 1 .. k |-> file[p + 2 + i]]
        BY <1>9, <2>4
  <2> QED BY <2>2, <2>3, <2>5 DEF p
<1> QED BY <1>2, <1>3, <1>5, <1>6, <1>8, <1>10, <1>11, <1>7 DEF k, LengthBytes

LEMMA ParseBlockStep == IInv /\ ParseBlock => IInv'
<1> SUFFICES ASSUME IInv, ParseBlock PROVE IInv'
    OBVIOUS
<1>1. /\ TypeOK /\ WindowInv /\ Reading /\ ii <= Len(files)
      /\ ~LengthScarce /\ ~DataScarce
      BY DEF IInv, ParseBlock, WindowInv, Reading
<1>2. /\ mb.rest \in Nat /\ mb.offset \in Nat /\ mb.offset + mb.rest <= Cap
      /\ fpos \in Nat /\ mb.rest <= fpos /\ fpos <= Len(file)
      BY <1>1, CapType DEF TypeOK, MsgBuff, WindowInv
<1> DEFINE k == LengthBytes + NextLength
<1>3. k \in Nat /\ k <= mb.rest
      BY <1>1, <1>2, NextLengthType DEF DataScarce, LengthScarce, LengthBytes
<1>4. /\ mb' \in MsgBuff /\ mb'.buffer = mb.buffer /\ data' \in Seq(Byte)
      /\ mb'.offset = mb.offset + k /\ mb'.rest = mb.rest - k
  <2>1. NextLength \in Nat
        BY <1>1, NextLengthType
  <2>2. /\ mb.offset + k = mb.offset + LengthBytes + NextLength
        /\ mb.rest - k = mb.rest - LengthBytes - NextLength
        BY <1>2, <2>1 DEF LengthBytes
  <2> QED BY <2>2, ParseBlockFacts
<1> HIDE DEF k
<1>5. /\ files' = files /\ ii' = ii /\ file' = file /\ fpos' = fpos
      /\ seqn' = seqn + 1 /\ out' = out /\ pc' = "send"
      BY DEF ParseBlock, file
<1>6. TypeOK'
      BY <1>1, <1>4, <1>5 DEF TypeOK
<1>7. WindowInv'
  <2>1. /\ mb'.offset + mb'.rest <= Cap /\ mb'.rest <= fpos' /\ fpos' <= Len(file)
        BY <1>2, <1>3, <1>4, <1>5
  <2>2. ASSUME NEW i \in 0 .. Cap - 1, i < mb'.rest
        PROVE  mb'.buffer[mb'.offset + i] = file[fpos' - mb'.rest + i + 1]
    <3>1. k + i \in 0 .. Cap - 1 /\ k + i < mb.rest
          BY <1>2, <1>3, <1>4, <2>2, CapType, SMTT(30)
    <3>2. mb.buffer[mb.offset + (k + i)] = file[fpos - mb.rest + (k + i) + 1]
          BY <1>1, <3>1 DEF WindowInv
    <3>3. /\ mb'.offset + i = mb.offset + (k + i)
          /\ fpos' - mb'.rest + i + 1 = fpos - mb.rest + (k + i) + 1
          BY <1>2, <1>3, <1>4, <1>5, CapType, SMTT(30)
    <3> QED BY <1>4, <3>2, <3>3
  <2> QED BY <1>1, <1>5, <2>1, <2>2 DEF WindowInv
<1>8. ReadyToRead'
      BY <1>5 DEF ReadyToRead
<1> QED BY <1>6, <1>7, <1>8 DEF IInv

\* Opening a file starts with an empty window at its beginning.
LEMMA OpenFileStep == IInv /\ OpenFile => IInv'
<1> SUFFICES ASSUME IInv, OpenFile PROVE IInv'
    OBVIOUS
<1>1. /\ TypeOK /\ files' = files /\ ii' = ii /\ ii <= Len(files) /\ fpos' = 0
      /\ mb' = EmptyMsgBuff /\ seqn' = 0 /\ data' = data /\ out' = out /\ pc' = "read"
      BY DEF IInv, OpenFile
<1>2. EmptyMsgBuff \in MsgBuff /\ EmptyMsgBuff.offset = 0 /\ EmptyMsgBuff.rest = 0
      BY FramingAssumption DEF EmptyMsgBuff, MsgBuff, Byte
<1>3. TypeOK'
      BY <1>1, <1>2 DEF TypeOK
<1>4. WindowInv'
  <2>1. Len(file') \in Nat
        BY <1>1, FileType DEF file
  <2> QED BY <1>1, <1>2, <2>1, CapType DEF WindowInv
<1>5. ReadyToRead'
      BY <1>1, <1>2 DEF ReadyToRead, LengthScarce, LengthBytes
<1> QED BY <1>3, <1>4, <1>5 DEF IInv

\* The actions that leave the buffer and the file position alone.
LEMMA QuietStep ==
    IInv /\ (OpenFails \/ Return \/ CloseFile \/ Send \/ SendFails) => IInv'
<1> SUFFICES ASSUME IInv, OpenFails \/ Return \/ CloseFile \/ Send \/ SendFails
             PROVE  IInv'
    OBVIOUS
<1>1. /\ TypeOK /\ WindowInv /\ mb' = mb /\ fpos' = fpos /\ files' = files
      /\ data' = data /\ seqn' = seqn
      BY DEF IInv, OpenFails, Return, CloseFile, Send, SendFails
<1>2. Len(files) \in Nat
      BY <1>1, FilesAssumption DEF TypeOK
<1>3. CASE OpenFails \/ Return
      BY <1>1, <1>3 DEF IInv, OpenFails, Return, TypeOK, WindowInv, ReadyToRead, Reading
<1>4. CASE CloseFile
  <2>1. ii \in Nat /\ ii <= Len(files) /\ ii' = ii + 1 /\ ii' \in 1 .. Len(files) + 1
        BY <1>1, <1>2, <1>4 DEF CloseFile, WindowInv, Reading, TypeOK
  <2> QED BY <1>1, <1>4, <2>1
          DEF IInv, CloseFile, TypeOK, WindowInv, ReadyToRead, Reading
<1>5. CASE Send \/ SendFails
  <2>1. pc = "send" /\ pc' = "parse" /\ ii' = ii /\ file' = file /\ Reading
        BY <1>1, <1>5 DEF Send, SendFails, file, Reading
  <2>2. out' \in Seq([file : Nat, seqn : Nat, data : Seq(Byte)])
    <3> DEFINE packet == [file |-> ii, seqn |-> seqn, data |-> data]
    <3>1. packet \in [file : Nat, seqn : Nat, data : Seq(Byte)]
          BY <1>1, <1>2 DEF TypeOK
    <3>2. CASE Send
      <4>1. out' = Append(out, packet)
            BY <3>2 DEF Send
      <4> HIDE DEF packet
      <4> QED BY <1>1, <3>1, <4>1, AppendProperties DEF TypeOK
    <3>3. CASE SendFails
          BY <1>1, <3>3 DEF SendFails, TypeOK
    <3> QED BY <1>5, <3>2, <3>3
  <2>3. TypeOK'
        BY <1>1, <2>1, <2>2 DEF TypeOK
  <2>4. WindowInv'
        BY <1>1, <2>1 DEF WindowInv
  <2>5. ReadyToRead'
        BY <2>1 DEF ReadyToRead
  <2> QED BY <2>3, <2>4, <2>5 DEF IInv
<1> QED BY <1>3, <1>4, <1>5

LEMMA NextIInv == IInv /\ [Next]_vars => IInv'
<1>1. IInv /\ UNCHANGED vars => IInv'
      BY DEF vars, IInv, TypeOK, WindowInv, ReadyToRead, Reading, file, LengthScarce,
             DataScarce, NextLength
<1> QED BY <1>1, FreadStep, ScarceStep, ParseBlockStep, OpenFileStep, QuietStep DEF Next

\* In every run, for every buffer size and every list of files, the unread part
\* of the buffer is the part of the file in front of the stream position.
THEOREM WindowCorrect == Spec => []WindowInv
<1>1. IInv => WindowInv
      BY DEF IInv
<1> QED BY InitIInv, NextIInv, <1>1, PTL DEF Spec

\* In every run the variables keep their types: offset and rest_size stay within
\* the buffer, and every byte in it is one.
THEOREM TypeCorrect == Spec => []TypeOK
<1>1. IInv => TypeOK
      BY DEF IInv
<1> QED BY InitIInv, NextIInv, <1>1, PTL DEF Spec

\* In every run the buffer is compacted and holds no whole block when fread is
\* called.
THEOREM ReadsWhenReady == Spec => []ReadyToRead
<1>1. IInv => ReadyToRead
      BY DEF IInv
<1> QED BY InitIInv, NextIInv, <1>1, PTL DEF Spec

\* The variables of FrameStream that are not those of MoldBuffer.
spos == fpos - mb.rest

\* FrameStream's guard, in MoldBuffer's terms.
LEMMA TakeableMeaning ==
    Stream!Takeable <=> /\ Whole(file, spos)
                        /\ LengthBytes + LengthAt(file, spos) <= Cap
BY DEF Stream!Takeable, Stream!Whole, Stream!LengthAt, Stream!LengthField,
       Stream!LengthBytes, Whole, LengthAt, LengthField, LengthBytes, spos, file

\* A block the parser completes is one that FrameStream may take, and its data
\* and end are FrameStream's.
LEMMA ParseIsTake == IInv /\ ParseBlock => Stream!Take
<1> SUFFICES ASSUME IInv, ParseBlock PROVE Stream!Take
    OBVIOUS
<1>1. /\ TypeOK /\ Reading /\ pc = "parse" /\ ~LengthScarce /\ ~DataScarce
      BY DEF IInv, ParseBlock, Reading
<1>2. /\ NextLength \in Nat /\ spos \in Nat
      /\ NextLength = LengthAt(file, spos)
      /\ spos + LengthBytes <= Len(file)
      /\ spos + LengthBytes + NextLength <= Len(file)
      BY <1>1, ParserSeesFile DEF spos
<1>3. mb.rest \in Nat /\ mb.rest <= Cap /\ fpos \in Nat
      BY <1>1, CapType DEF TypeOK, MsgBuff
<1>4. LengthBytes + LengthAt(file, spos) <= Cap
  <2>1. ~(mb.rest - 2 < NextLength)
        BY <1>1 DEF DataScarce, LengthBytes
  <2> QED BY <1>2, <1>3, <2>1, CapType DEF LengthBytes
<1>5. Stream!Takeable
      BY <1>2, <1>4, TakeableMeaning DEF Whole
<1>6. data' = DataAt(file, spos)
      BY ParseBlockFacts DEF spos
<1>7. fpos' - mb'.rest = fpos - mb.rest + LengthBytes + LengthAt(file, fpos - mb.rest)
  <2>1. mb'.rest = mb.rest - LengthBytes - NextLength /\ fpos' = fpos
        BY ParseBlockFacts DEF ParseBlock
  <2> QED BY <1>2, <1>3, <2>1 DEF LengthBytes, spos
<1>8. /\ pc = "parse" /\ pc' = "send" /\ seqn' = seqn + 1
      /\ UNCHANGED <<files, ii, out>>
      BY DEF ParseBlock
<1> QED BY <1>5, <1>6, <1>7, <1>8
        DEF Stream!Take, Stream!DataAt, Stream!LengthAt, Stream!LengthField,
            Stream!LengthBytes, DataAt, LengthAt, LengthField, LengthBytes, spos, file

\* When fread returns nothing, either the file has ended or the buffer is full
\* of a block that does not fit: in both cases FrameStream may leave the file.
LEMMA CloseIsLeave == IInv /\ CloseFile => Stream!Leave
<1> SUFFICES ASSUME IInv, CloseFile PROVE Stream!Leave
    OBVIOUS
<1>1. /\ TypeOK /\ WindowInv /\ pc = "read" /\ Reading /\ ii <= Len(files)
      /\ LengthScarce \/ DataScarce
      /\ mb.rest = Cap \/ fpos = Len(file)
      BY FreadSizeBounds DEF IInv, CloseFile, Reading, WindowInv, ReadyToRead
<1>2. /\ mb.rest \in Nat /\ mb.rest <= Cap /\ fpos \in Nat /\ mb.rest <= fpos
      /\ fpos <= Len(file) /\ Len(file) \in Nat /\ spos \in Nat
      BY <1>1, FileType, CapType DEF TypeOK, MsgBuff, WindowInv, spos
<1>3. ASSUME Whole(file, spos), LengthBytes + LengthAt(file, spos) <= Cap
      PROVE  FALSE
  <2>1. LengthAt(file, spos) \in Nat
    <3>1. spos + 1 \in 1 .. Len(file) /\ spos + 2 \in 1 .. Len(file)
          BY <1>2, <1>3 DEF Whole, LengthBytes
    <3> QED BY <1>1, <3>1, FileType, LengthFieldType DEF LengthAt
  <2>2. spos + 2 <= Len(file) /\ spos + 2 + LengthAt(file, spos) <= Len(file)
        BY <1>3 DEF Whole, LengthBytes
  <2>3. 2 + LengthAt(file, spos) <= Cap
        BY <1>3 DEF LengthBytes
  <2>4. CASE LengthScarce
    <3>1. mb.rest < 2
          BY <2>4 DEF LengthScarce, LengthBytes
    <3> QED BY <1>1, <1>2, <2>1, <2>2, <2>3, <3>1, CapType DEF spos
  <2>5. CASE ~LengthScarce /\ DataScarce
    <3>1. mb.rest - 2 < NextLength /\ NextLength = LengthAt(file, spos)
          BY <1>1, <2>5, ParserSeesFile DEF DataScarce, LengthBytes, IInv, spos
    <3> QED BY <1>1, <1>2, <2>1, <2>2, <2>3, <3>1, CapType DEF spos
  <2> QED BY <1>1, <2>4, <2>5
<1>4. ~Stream!Takeable
      BY <1>3, TakeableMeaning
<1> QED BY <1>1, <1>4 DEF CloseFile, Stream!Leave

\* Every step of the replay is a step of FrameStream or leaves it unchanged.
LEMMA StepSimulation == IInv /\ IInv' /\ [Next]_vars => [Stream!Next]_(Stream!vars)
<1> SUFFICES ASSUME IInv, IInv', [Next]_vars PROVE [Stream!Next]_(Stream!vars)
    OBVIOUS
<1>1. /\ mb.rest \in Nat /\ fpos \in Nat /\ mb \in MsgBuff
      BY CapType DEF IInv, TypeOK, MsgBuff
<1>2. CASE OpenFile
  <2>1. fpos' - mb'.rest = 0
        BY <1>2 DEF OpenFile, EmptyMsgBuff
  <2> QED BY <1>2, <2>1 DEF OpenFile, Stream!Next, Stream!Open
<1>3. CASE OpenFails \/ Return
  <2>1. IInv => (ii > Len(files) <=> ~(ii <= Len(files)))
        BY FilesAssumption DEF IInv, TypeOK
  <2> QED BY <1>3, <2>1 DEF OpenFails, Return, Stream!Next, Stream!Stop
<1>4. CASE Fread
  <2>1. mb'.rest = mb.rest + FreadSize /\ fpos' = fpos + FreadSize
        BY <1>1, <1>4 DEF Fread, MsgBuff
  <2>2. FreadSize \in Nat
        BY <1>4, FreadSizeBounds DEF IInv, Fread
  <2>3. fpos' - mb'.rest = fpos - mb.rest
        BY <1>1, <2>1, <2>2
  <2> QED BY <1>4, <2>3 DEF Fread, Stream!vars
<1>5. CASE CloseFile
      BY <1>5, CloseIsLeave DEF Stream!Next
<1>6. CASE ParseNoLength \/ ParseNoData
  <2>1. mb'.rest = mb.rest
    <3>1. mb.offset + mb.rest <= Cap
          BY <1>6 DEF IInv, WindowInv, Reading, ParseNoLength, ParseNoData
    <3>2. CASE ParseNoLength
          BY <1>1, <3>1, <3>2, FinishKeepsUnread DEF ParseNoLength
    <3>3. CASE ParseNoData
      <4>1. LengthBytes \in Nat /\ LengthBytes <= mb.rest
            BY <1>1, <3>3 DEF ParseNoData, DataScarce, LengthScarce, LengthBytes
      <4> QED BY <1>1, <3>1, <3>3, <4>1, RestoreUndoesRead DEF ParseNoData
    <3> QED BY <1>6, <3>2, <3>3
  <2> QED BY <1>6, <2>1 DEF ParseNoLength, ParseNoData, Stream!vars
<1>7. CASE ParseBlock
      BY <1>7, ParseIsTake DEF Stream!Next
<1>8. CASE Send
      BY <1>8 DEF Send, Stream!Next, Stream!Deliver
<1>9. CASE SendFails
      BY <1>9 DEF SendFails, Stream!Next, Stream!Drop
<1>10. CASE UNCHANGED vars
      BY <1>10 DEF vars, Stream!vars
<1> QED BY <1>2, <1>3, <1>4, <1>5, <1>6, <1>7, <1>8, <1>9, <1>10 DEF Next

\* The buffered replay implements FrameStream: whatever the block boundaries are
\* relative to the buffer's, the blocks delivered or refused are the file's, whole,
\* in order and numbered without a gap, and a file is left only when no block
\* that fits in the buffer follows.
THEOREM ReplayImplementsStream == Spec => StreamSpec
<1>1. Init => Stream!Init
      BY DEF Init, Stream!Init, EmptyMsgBuff
<1> QED BY <1>1, InitIInv, NextIInv, StepSimulation, PTL DEF Spec, StreamSpec, Stream!Spec
=============================================================================
