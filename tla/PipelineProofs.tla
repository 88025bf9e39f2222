--------------------------- MODULE PipelineProofs ---------------------------
(***************************************************************************)
(* Proofs about Pipeline and its csv files, for every list of files, clock *)
(* of less than a year, week, set of message types and number of restarts. *)
(***************************************************************************)
EXTENDS Pipeline, Integers, SequenceTheorems, WellFoundedInduction, TLAPS

IsSeq(s) == \E S : s \in Seq(S)

\* The header is the first entry, and only the first.
Headed(rows) == \A i \in 1 .. Len(rows) : rows[i].kind = "header" <=> i = 1

\* What stdio holds while a file is open fits to what the file holds, which
\* nobody else changes: only smtfep writes the file, and it writes one at a time.
CsvInv ==
    /\ \A p \in DOMAIN disk : IsSeq(disk[p].rows) /\ Headed(disk[p].rows)
    /\ csv.step # "out" => \E id, d : csv.row = Csv!Row(id, d)
    /\ csv.step = "open" =>
          /\ csv.path \in DOMAIN disk
          /\ csv.buffer = IF disk[csv.path].rows = << >> THEN << Csv!Header, csv.row >>
                                                         ELSE << csv.row >>

LEMMA ConcatFacts ==
  ASSUME NEW s, NEW t, IsSeq(s), IsSeq(t)
  PROVE  /\ IsSeq(s \o t) /\ Len(s) \in Nat /\ Len(t) \in Nat /\ Len(s \o t) = Len(s) + Len(t)
         /\ \A i \in 1 .. Len(s) : (s \o t)[i] = s[i]
         /\ \A i \in 1 .. Len(t) : (s \o t)[Len(s) + i] = t[i]
         /\ s = << >> => s \o t = t
         /\ Len(s) = 0 => s = << >>
  <1>1. PICK S : s \in Seq(S)
    BY DEF IsSeq
  <1>2. PICK T : t \in Seq(T)
    BY DEF IsSeq
  <1>3. s \in Seq(S \cup T) /\ t \in Seq(S \cup T)
    BY <1>1, <1>2
  <1>4. s \o t \in Seq(S \cup T)
    BY <1>3
  <1>5. /\ Len(s) \in Nat /\ Len(t) \in Nat /\ Len(s \o t) = Len(s) + Len(t)
        /\ \A i \in 1 .. Len(s) : (s \o t)[i] = s[i]
        /\ \A i \in 1 .. Len(t) : (s \o t)[Len(s) + i] = t[i]
    BY <1>3
  <1>6. s = << >> => s \o t = t
    BY <1>3
  <1>7. Len(s) = 0 => s = << >>
    BY <1>3
  <1> QED BY <1>4, <1>5, <1>6, <1>7 DEF IsSeq

\* The buffer of a file with these rows.
Buffer(rows, row) == IF rows = << >> THEN << Csv!Header, row >> ELSE << row >>

LEMMA BufferFacts ==
  ASSUME NEW rows, NEW id, NEW d
  PROVE  LET b == Buffer(rows, Csv!Row(id, d))
         IN  /\ IsSeq(b) /\ Len(b) = IF rows = << >> THEN 2 ELSE 1
             /\ \A i \in 1 .. Len(b) :
                   /\ b[i] \in {Csv!Header, Csv!Row(id, d)}
                   /\ b[i].kind = "header" <=> rows = << >> /\ i = 1
  <1> DEFINE row == Csv!Row(id, d)
  <1>1. Csv!Header.kind = "header" /\ row.kind = "row"
    BY DEF Csv!Header, Csv!Row
  <1> HIDE DEF row
  <1>2. CASE rows = << >>
    <2> DEFINE b == << Csv!Header, row >>
    <2>1. Buffer(rows, row) = b
      BY <1>2 DEF Buffer
    <2>2. b \in Seq({Csv!Header, row}) /\ Len(b) = 2 /\ b[1] = Csv!Header /\ b[2] = row
      OBVIOUS
    <2> HIDE DEF b
    <2>3. \A i \in 1 .. Len(b) : i = 1 \/ i = 2
      BY <2>2
    <2> QED BY <1>1, <1>2, <2>1, <2>2, <2>3 DEF IsSeq, row
  <1>3. CASE rows # << >>
    <2> DEFINE b == << row >>
    <2>1. Buffer(rows, row) = b
      BY <1>3 DEF Buffer
    <2>2. b \in Seq({row}) /\ Len(b) = 1 /\ b[1] = row
      OBVIOUS
    <2> HIDE DEF b
    <2>3. \A i \in 1 .. Len(b) : i = 1
      BY <2>2
    <2> QED BY <1>1, <1>3, <2>1, <2>2, <2>3 DEF IsSeq, row
  <1> QED BY <1>2, <1>3

\* Writing the buffer, or what exit writes of it, keeps a file headed.
LEMMA CutFacts ==
  ASSUME NEW rows, NEW id, NEW d, NEW c \in Csv!Cuts(Buffer(rows, Csv!Row(id, d)))
  PROVE  /\ IsSeq(c) /\ Len(c) <= Len(Buffer(rows, Csv!Row(id, d)))
         /\ \A i \in 1 .. Len(c) : c[i].kind = Buffer(rows, Csv!Row(id, d))[i].kind
         /\ \A i \in 1 .. Len(c) : c[i].kind = "row" => c[i].day = d
  <1> DEFINE b == Buffer(rows, Csv!Row(id, d))
             S == {Csv!Header, Csv!Row(id, d)}
             cut(n) == [b[n] EXCEPT !.whole = FALSE]
             T == S \cup {cut(n) : n \in 1 .. Len(b)}
  <1>1. b \in Seq(S) /\ Len(b) \in Nat
    <2>1. /\ IsSeq(b) /\ Len(b) \in Nat
          /\ \A i \in 1 .. Len(b) : b[i] \in S
      BY BufferFacts
    <2>2. PICK U : b \in Seq(U)
      BY <2>1 DEF IsSeq
    <2>3. b \in [1 .. Len(b) -> S]
      BY <2>1, <2>2
    <2> QED BY <2>1, <2>3
  <1>2. ASSUME NEW n \in 1 .. Len(b)
        PROVE  /\ cut(n).kind = b[n].kind
               /\ cut(n).kind = "row" => cut(n).day = d
               /\ b[n].kind = "row" => b[n].day = d
    <2>1. b[n] \in S
      BY <1>1
    <2> HIDE DEF b
    <2>2. CASE b[n] = Csv!Header
      BY <2>2 DEF Csv!Header
    <2>3. CASE b[n] = Csv!Row(id, d)
      BY <2>3 DEF Csv!Row
    <2> QED BY <2>1, <2>2, <2>3
  <1> HIDE DEF b, S, T
  <1>3. \/ \E n \in 0 .. Len(b) : c = SubSeq(b, 1, n)
        \/ \E n \in 1 .. Len(b) : c = SubSeq(b, 1, n - 1) \o << cut(n) >>
    BY DEF Csv!Cuts, b
  <1> DEFINE Kept(i) == c[i].kind = b[i].kind /\ (c[i].kind = "row" => c[i].day = d)
  <1>4. ASSUME NEW n \in 0 .. Len(b), c = SubSeq(b, 1, n)
        PROVE  IsSeq(c) /\ Len(c) <= Len(b) /\ \A i \in 1 .. Len(c) : Kept(i)
    <2>1. SubSeq(b, 1, n) \in Seq(S) /\ Len(SubSeq(b, 1, n)) = n
          /\ \A i \in 1 .. n : SubSeq(b, 1, n)[i] = b[i]
      BY <1>1
    <2>2. IsSeq(c) /\ Len(c) = n /\ \A i \in 1 .. n : c[i] = b[i]
      BY <1>4, <2>1 DEF IsSeq
    <2>3. n <= Len(b) /\ \A i \in 1 .. n : i \in 1 .. Len(b)
      BY <1>1
    <2>4. ASSUME NEW i \in 1 .. n PROVE Kept(i)
      <3>1. b[i].kind = "row" => b[i].day = d
        BY <1>2, <2>3
      <3>2. c[i] = b[i]
        BY <2>2
      <3> QED BY <3>1, <3>2
    <2> HIDE DEF Kept
    <2> QED BY <2>2, <2>3, <2>4
  <1>5. ASSUME NEW n \in 1 .. Len(b), c = SubSeq(b, 1, n - 1) \o << cut(n) >>
        PROVE  IsSeq(c) /\ Len(c) <= Len(b) /\ \A i \in 1 .. Len(c) : Kept(i)
    <2>1. n - 1 \in 0 .. Len(b)
      BY <1>1
    <2> DEFINE front == SubSeq(b, 1, n - 1)
               end == << cut(n) >>
    <2>2. front \in Seq(S) /\ Len(front) = n - 1 /\ \A i \in 1 .. n - 1 : front[i] = b[i]
      BY <1>1, <2>1
    <2>3. IsSeq(front) /\ IsSeq(end) /\ Len(end) = 1 /\ end[1] = cut(n)
      <3>1. end \in Seq({cut(n)})
        OBVIOUS
      <3> QED BY <2>2, <3>1 DEF IsSeq
    <2> HIDE DEF cut, front, end
    <2>4. /\ IsSeq(c) /\ Len(c) = (n - 1) + 1
          /\ \A i \in 1 .. n - 1 : c[i] = b[i]
          /\ c[(n - 1) + 1] = cut(n)
      <3>1. /\ IsSeq(c) /\ Len(c) = Len(front) + Len(end)
            /\ \A i \in 1 .. Len(front) : c[i] = front[i]
            /\ \A i \in 1 .. Len(end) : c[Len(front) + i] = end[i]
        BY <1>5, <2>3, ConcatFacts DEF front, end
      <3> QED BY <2>2, <2>3, <3>1
    <2>5. Len(c) = n /\ c[n] = cut(n) /\ n <= Len(b)
      BY <1>1, <2>4
    <2>6. ASSUME NEW i \in 1 .. n
          PROVE  Kept(i)
      <3>1. i \in 1 .. n - 1 \/ i = n
        BY <1>1
      <3>2. i \in 1 .. Len(b)
        BY <1>1, <2>5
      <3>3. CASE i \in 1 .. n - 1
        <4>1. b[i].kind = "row" => b[i].day = d
          BY <1>2, <3>2
        <4>2. c[i] = b[i]
          BY <2>4, <3>3
        <4> QED BY <4>1, <4>2
      <3>4. CASE i = n
        <4>1. cut(n).kind = b[n].kind /\ (cut(n).kind = "row" => cut(n).day = d)
          BY <1>2
        <4>2. c[i] = cut(n)
          BY <2>5, <3>4
        <4> QED BY <3>4, <4>1, <4>2
      <3> QED BY <3>1, <3>3, <3>4
    <2> HIDE DEF Kept
    <2> QED BY <2>4, <2>5, <2>6
  <1> QED BY <1>3, <1>4, <1>5 DEF b

\* A file stays headed when any of what a buffer made for it holds is added.
LEMMA WriteFacts ==
  ASSUME NEW rows, IsSeq(rows), Headed(rows), NEW id, NEW d, NEW c, IsSeq(c),
         Len(c) <= Len(Buffer(rows, Csv!Row(id, d))),
         \A i \in 1 .. Len(c) : c[i].kind = Buffer(rows, Csv!Row(id, d))[i].kind
  PROVE  IsSeq(rows \o c) /\ Headed(rows \o c)
  <1> DEFINE b == Buffer(rows, Csv!Row(id, d))
             all == rows \o c
  <1>1. /\ IsSeq(all) /\ Len(rows) \in Nat /\ Len(c) \in Nat /\ Len(all) = Len(rows) + Len(c)
        /\ \A i \in 1 .. Len(rows) : all[i] = rows[i]
        /\ \A i \in 1 .. Len(c) : all[Len(rows) + i] = c[i]
        /\ Len(rows) = 0 <=> rows = << >>
    BY ConcatFacts
  <1>2. /\ Len(b) \in Nat
        /\ \A i \in 1 .. Len(b) : b[i].kind = "header" <=> rows = << >> /\ i = 1
    BY BufferFacts
  <1>3. Len(c) <= Len(b) /\ \A i \in 1 .. Len(c) : c[i].kind = b[i].kind
    OBVIOUS
  <1> HIDE DEF b, all
  <1>4. ASSUME NEW i \in 1 .. Len(all) PROVE all[i].kind = "header" <=> i = 1
    <2>1. CASE i <= Len(rows)
      <3>1. i \in 1 .. Len(rows) /\ all[i] = rows[i]
        BY <1>1, <2>1
      <3> QED BY <3>1 DEF Headed
    <2>2. CASE ~(i <= Len(rows))
      <3> DEFINE j == i - Len(rows)
      <3>1. j \in 1 .. Len(c) /\ j \in 1 .. Len(b) /\ i = Len(rows) + j
        BY <1>1, <1>2, <1>3, <2>2
      <3>2. i = 1 <=> rows = << >> /\ j = 1
        BY <1>1, <2>2, <3>1
      <3> HIDE DEF j
      <3>3. all[i] = c[j]
        BY <1>1, <3>1
      <3> QED BY <1>2, <1>3, <3>1, <3>2, <3>3
    <2> QED BY <2>1, <2>2
  <1> QED BY <1>1, <1>4 DEF Headed, all

-----------------------------------------------------------------------------
LEMMA InitCsv == Init => CsvInv
  <1> SUFFICES ASSUME Init PROVE CsvInv
    OBVIOUS
  <1>1. disk = [p \in {} |-> 0] /\ csv = [step |-> "out"]
    BY DEF Init, Csv!Init, Csv!NoCall
  <1>2. DOMAIN disk = {} /\ csv.step = "out"
    BY <1>1
  <1> QED BY <1>2 DEF CsvInv

LEMMA CsvStays == CsvInv /\ UNCHANGED <<disk, csv>> => CsvInv'
  BY DEF CsvInv

\* A file is written to, and the call is over.
LEMMA WrittenKeeps ==
  ASSUME CsvInv, NEW path, NEW rows, IsSeq(rows), Headed(rows),
         Csv!Written(path, rows), csv' = Csv!NoCall
  PROVE  CsvInv'
  <1>1. disk' = [p \in DOMAIN disk \cup {path} |->
                   IF p = path THEN [rows |-> rows, mtime |-> now] ELSE disk[p]]
    BY DEF Csv!Written
  <1>2. \A p \in DOMAIN disk' : IsSeq(disk'[p].rows) /\ Headed(disk'[p].rows)
    BY <1>1 DEF CsvInv
  <1>3. csv'.step = "out"
    BY DEF Csv!NoCall
  <1> QED BY <1>2, <1>3 DEF CsvInv

\* What an open file and its buffer look like.
LEMMA OpenFacts ==
  ASSUME CsvInv, csv.step = "open"
  PROVE  \E id, d : /\ IsSeq(disk[csv.path].rows) /\ Headed(disk[csv.path].rows)
                    /\ csv.buffer = Buffer(disk[csv.path].rows, Csv!Row(id, d))
  <1>1. PICK id, d : csv.row = Csv!Row(id, d)
    BY DEF CsvInv
  <1> QED BY <1>1 DEF CsvInv, Buffer

LEMMA BeginKeeps ==
  ASSUME CsvInv, NEW name, NEW id, Csv!Begin(name, id)
  PROVE  CsvInv'
  <1>1. disk' = disk /\ csv'.step = "begun" /\ csv'.row = Csv!Row(id, Csv!tm_day(now))
    BY DEF Csv!Begin
  <1> QED BY <1>1 DEF CsvInv

LEMMA PairFacts == ASSUME NEW a, NEW b PROVE << a >> \o << b >> = << a, b >>
  <1> DEFINE s == << a >>
             t == << b >>
             st == s \o t
             u == << a, b >>
  <1>1. s \in Seq({a, b}) /\ t \in Seq({a, b}) /\ u \in Seq({a, b})
    OBVIOUS
  <1>2. Len(s) = 1 /\ Len(t) = 1 /\ Len(u) = 2
    OBVIOUS
  <1>3. s[1] = a /\ t[1] = b /\ u[1] = a /\ u[2] = b
    OBVIOUS
  <1>4. IsSeq(s) /\ IsSeq(t)
    BY <1>1 DEF IsSeq
  <1> HIDE DEF s, t, u
  <1>5. /\ Len(st) = Len(s) + Len(t)
        /\ \A i \in 1 .. Len(s) : st[i] = s[i]
        /\ \A i \in 1 .. Len(t) : st[Len(s) + i] = t[i]
    BY <1>4, ConcatFacts
  <1>6. st \in Seq({a, b})
    BY <1>1, ConcatProperties
  <1> HIDE DEF st
  <1>7. Len(st) = 2 /\ st[1] = a /\ st[1 + 1] = b
    BY <1>2, <1>3, <1>5
  <1>8. \A i \in 1 .. Len(st) : st[i] = u[i]
    <2>1. \A i \in 1 .. 2 : i = 1 \/ i = 2
      OBVIOUS
    <2> QED BY <1>3, <1>7, <2>1
  <1>9. Len(st) = Len(u)
    BY <1>2, <1>7
  <1>10. st = u
    BY <1>1, <1>6, <1>8, <1>9, SeqEqual
  <1> QED BY <1>10 DEF s, t, u, st

LEMMA OpenKeeps == CsvInv /\ Csv!Open => CsvInv'
  <1> SUFFICES ASSUME CsvInv, Csv!Open PROVE CsvInv'
    OBVIOUS
  <1> DEFINE new == csv.path \notin DOMAIN disk \/ csv.mode = "wb"
             rows == IF new THEN << >> ELSE disk[csv.path].rows
  <1>1. /\ csv.step = "begun"
        /\ csv' = [step |-> "open", path |-> csv.path, row |-> csv.row,
                   buffer |-> Csv!Headed(rows, csv.mode) \o << csv.row >>]
        /\ IF new THEN Csv!Written(csv.path, << >>) ELSE disk' = disk
    BY DEF Csv!Open
  <1>2. PICK id, d : csv.row = Csv!Row(id, d)
    BY <1>1 DEF CsvInv
  <1>3. csv'.step = "open" /\ csv'.path = csv.path /\ csv'.row = csv.row
        /\ csv'.buffer = Csv!Headed(rows, csv.mode) \o << csv.row >>
    BY <1>1
  <1>4. csv'.buffer = Buffer(rows, csv.row)
    <2>1. << Csv!Header >> \o << csv.row >> = << Csv!Header, csv.row >>
      BY PairFacts
    <2>2. << >> \o << csv.row >> = << csv.row >>
      <3>1. IsSeq(<< >>) /\ IsSeq(<< csv.row >>)
        <4>1. << >> \in Seq({}) /\ << csv.row >> \in Seq({csv.row})
          OBVIOUS
        <4> QED BY <4>1 DEF IsSeq
      <3> QED BY <3>1, ConcatFacts
    <2> HIDE DEF rows
    <2> QED BY <1>3, <2>1, <2>2 DEF Csv!Headed, Buffer
  <1>5. /\ csv.path \in DOMAIN disk' /\ disk'[csv.path].rows = rows
        /\ \A p \in DOMAIN disk' : IsSeq(disk'[p].rows) /\ Headed(disk'[p].rows)
    <2>1. CASE new
      <3>1. disk' = [p \in DOMAIN disk \cup {csv.path} |->
                       IF p = csv.path THEN [rows |-> << >>, mtime |-> now] ELSE disk[p]]
        BY <1>1, <2>1 DEF Csv!Written
      <3>2. IsSeq(<< >>) /\ Headed(<< >>)
        <4>1. << >> \in Seq({}) /\ Len(<< >>) = 0
          OBVIOUS
        <4> QED BY <4>1 DEF IsSeq, Headed
      <3> QED BY <2>1, <3>1, <3>2 DEF CsvInv
    <2>2. CASE ~new
      BY <1>1, <2>2 DEF CsvInv
    <2> QED BY <2>1, <2>2
  <1> QED BY <1>2, <1>3, <1>4, <1>5 DEF CsvInv, Buffer

LEMMA CloseKeeps == CsvInv /\ Csv!Close => CsvInv'
  <1> SUFFICES ASSUME CsvInv, Csv!Close PROVE CsvInv'
    OBVIOUS
  <1> DEFINE rows == disk[csv.path].rows
  <1>1. /\ csv.step = "open" /\ Csv!Written(csv.path, rows \o csv.buffer)
        /\ csv' = Csv!NoCall
    BY DEF Csv!Close
  <1>2. PICK id, d : /\ IsSeq(rows) /\ Headed(rows)
                     /\ csv.buffer = Buffer(rows, Csv!Row(id, d))
    BY <1>1, OpenFacts
  <1> HIDE DEF rows
  <1>3. IsSeq(csv.buffer) /\ Len(csv.buffer) \in Nat
    BY <1>2, BufferFacts
  <1>4. Len(csv.buffer) <= Len(Buffer(rows, Csv!Row(id, d)))
    BY <1>2, <1>3
  <1>5. IsSeq(rows \o csv.buffer) /\ Headed(rows \o csv.buffer)
    BY <1>2, <1>3, <1>4, WriteFacts
  <1> QED BY <1>1, <1>5, WrittenKeeps

LEMMA CutKeeps == CsvInv /\ Csv!Cut => CsvInv'
  <1> SUFFICES ASSUME CsvInv, Csv!Cut PROVE CsvInv'
    OBVIOUS
  <1>1. csv' = Csv!NoCall
    BY DEF Csv!Cut
  <1>2. CASE disk' = disk
    <2>1. csv'.step = "out"
      BY <1>1 DEF Csv!NoCall
    <2> QED BY <1>2, <2>1 DEF CsvInv
  <1>3. CASE disk' # disk
    <2> DEFINE rows == disk[csv.path].rows
    <2>1. /\ csv.step = "open"
          /\ \E c \in Csv!Cuts(csv.buffer) : Csv!Written(csv.path, rows \o c)
      BY <1>3 DEF Csv!Cut
    <2>2. PICK c \in Csv!Cuts(csv.buffer) : Csv!Written(csv.path, rows \o c)
      BY <2>1
    <2>3. PICK id, d : /\ IsSeq(rows) /\ Headed(rows)
                       /\ csv.buffer = Buffer(rows, Csv!Row(id, d))
      BY <2>1, OpenFacts
    <2> HIDE DEF rows
    <2>4. /\ IsSeq(c) /\ Len(c) <= Len(Buffer(rows, Csv!Row(id, d)))
          /\ \A i \in 1 .. Len(c) : c[i].kind = Buffer(rows, Csv!Row(id, d))[i].kind
      BY <2>3, CutFacts
    <2>5. IsSeq(rows \o c) /\ Headed(rows \o c)
      BY <2>3, <2>4, WriteFacts
    <2> QED BY <1>1, <2>2, <2>5, WrittenKeeps
  <1> QED BY <1>2, <1>3

LEMMA NextCsv == CsvInv /\ [Next]_vars => CsvInv'
  <1> SUFFICES ASSUME CsvInv, [Next]_vars PROVE CsvInv'
    OBVIOUS
  <1>1. CASE SmtRecv \/ ReplayAgain \/ Start \/ Tick \/ UNCHANGED vars
    <2>1. UNCHANGED <<disk, csv>>
      BY <1>1 DEF SmtRecv, Read, Deliver, Drop, ReplayAgain, Start, Tick, Csv!Tick, vars, fepVars
    <2> QED BY <2>1, CsvStays
  <1>2. CASE Receive \/ NotLogged \/ Handle \/ Hang
    <2>1. UNCHANGED <<disk, csv>>
      BY <1>2 DEF Receive, NotLogged, Handle, Hang
    <2> QED BY <2>1, CsvStays
  <1>3. CASE BeginLog
    BY <1>3, BeginKeeps DEF BeginLog
  <1>4. CASE OpenLog
    BY <1>4, OpenKeeps DEF OpenLog
  <1>5. CASE LogFails
    <2>1. disk' = disk /\ csv' = Csv!NoCall
      BY <1>5 DEF LogFails, Csv!OpenFails
    <2>2. csv'.step = "out"
      BY <2>1 DEF Csv!NoCall
    <2> QED BY <2>1, <2>2 DEF CsvInv
  <1>6. CASE CloseLog
    BY <1>6, CloseKeeps DEF CloseLog
  <1>7. CASE Stop
    BY <1>7, CutKeeps DEF Stop
  <1> QED BY <1>1, <1>2, <1>3, <1>4, <1>5, <1>6, <1>7 DEF Next, SmtFep

\* A csv that holds anything begins with its header and has no other, whenever
\* smtfep was stopped and whatever of its buffer exit wrote (nas_smt_csv).
THEOREM HeaderCorrect == Spec => []HeaderFirst
  <1>1. CsvInv => HeaderFirst
    <2> SUFFICES ASSUME CsvInv, NEW p \in DOMAIN disk, NEW i \in DOMAIN disk[p].rows
                 PROVE  disk[p].rows[i].kind = "header" <=> i = 1
      BY DEF HeaderFirst, Csv!HeaderFirst
    <2>1. IsSeq(disk[p].rows) /\ Headed(disk[p].rows)
      BY DEF CsvInv
    <2>2. PICK S : disk[p].rows \in Seq(S)
      BY <2>1 DEF IsSeq
    <2>3. i \in 1 .. Len(disk[p].rows)
      BY <2>2
    <2> QED BY <2>1, <2>3 DEF Headed
  <1> QED BY <1>1, InitCsv, NextCsv, PTL DEF Spec

-----------------------------------------------------------------------------
\* Days and weekdays of the clock.

LEMMA DayFacts ==
  ASSUME NEW t \in Nat
  PROVE  /\ Csv!tm_day(t) \in Nat
         /\ Csv!tm_wday(t) = Csv!tm_day(t) % Week /\ Csv!tm_wday(t) \in 0 .. (Week - 1)
  <1>1. /\ t + e2lt \in Nat /\ DayLength \in Nat \ {0} /\ Week \in Nat \ {0}
    BY PipelineAssumption
  <1>2. Csv!tm_day(t) \in Nat
    BY <1>1 DEF Csv!tm_day
  <1> QED BY <1>1, <1>2 DEF Csv!tm_wday

LEMMA DayGrows ==
  ASSUME NEW s \in Nat, NEW t \in Nat, s <= t
  PROVE  Csv!tm_day(s) <= Csv!tm_day(t)
  <1>1. /\ s + e2lt \in Nat /\ t + e2lt \in Nat /\ s + e2lt <= t + e2lt
        /\ DayLength \in Nat \ {0}
    BY PipelineAssumption
  <1>2. ASSUME NEW a \in Nat, NEW b \in Nat, NEW w \in Nat \ {0}, a <= b
        PROVE  a \div w <= b \div w
    BY <1>2
  <1> QED BY <1>1, <1>2 DEF Csv!tm_day

LEMMA DayOfYear ==
  ASSUME NEW t \in 0 .. MaxTime
  PROVE  Csv!tm_yday(t) = Csv!tm_day(t)
  <1>1. Csv!tm_day(t) \in Nat /\ Csv!tm_day(t) < Year /\ Year \in Nat
    BY DayFacts, YearAssumption, PipelineAssumption DEF Csv!tm_day
  <1>2. ASSUME NEW a \in Nat, NEW w \in Nat, a < w PROVE a % w = a
    BY <1>2
  <1> QED BY <1>1, <1>2 DEF Csv!tm_yday

\* Two days in a row are not on one weekday.
LEMMA WeekdaysDiffer ==
  ASSUME NEW d \in Nat
  PROVE  (d + 1) % Week # d % Week
  <1>1. ASSUME NEW w \in Nat, w >= 2 PROVE (d + 1) % w # d % w
    <2>1. d \div w <= (d + 1) \div w /\ d \div w \in Nat /\ (d + 1) \div w \in Nat
      <3>1. ASSUME NEW a \in Nat, NEW b \in Nat, NEW v \in Nat \ {0}, a <= b
            PROVE  a \div v <= b \div v
        BY <3>1
      <3> QED BY <1>1, <3>1
    <2>2. CASE (d + 1) \div w = d \div w
      BY <1>1, <2>2, SMTT(30)
    <2>3. CASE (d + 1) \div w > d \div w
      BY <1>1, <2>3, SMTT(30)
    <2> QED BY <2>1, <2>2, <2>3
  <1>2. Week \in Nat /\ Week >= 2
    BY PipelineAssumption, YearAssumption
  <1> QED BY <1>1, <1>2

-----------------------------------------------------------------------------
\* How the csv changes in a step.

\* The end of a call, however it comes about, adds to the file nothing but
\* headers and rows of the call's day.
LEMMA EndFacts ==
  ASSUME CsvInv, Csv!Close \/ Csv!Cut
  PROVE  /\ csv' = Csv!NoCall /\ now' = now
         /\ \/ disk' = disk
            \/ /\ csv.step = "open"
               /\ \E c : /\ IsSeq(c) /\ Csv!Written(csv.path, disk[csv.path].rows \o c)
                         /\ \A i \in 1 .. Len(c) : c[i].kind = "row" => c[i].day = csv.row.day
  <1>1. /\ csv' = Csv!NoCall /\ now' = now
        /\ csv.step = "open" \/ disk' = disk
    BY DEF Csv!Close, Csv!Cut
  <1>2. SUFFICES ASSUME csv.step = "open", disk' # disk
                 PROVE  \E c : /\ IsSeq(c) /\ Csv!Written(csv.path, disk[csv.path].rows \o c)
                               /\ \A i \in 1 .. Len(c) : c[i].kind = "row" => c[i].day = csv.row.day
    BY <1>1
  <1> DEFINE rows == disk[csv.path].rows
  <1>3. PICK id, d : csv.row = Csv!Row(id, d)
    BY <1>2 DEF CsvInv
  <1>4. csv.buffer = Buffer(rows, Csv!Row(id, d)) /\ csv.row.day = d
    <2>1. csv.buffer = Buffer(rows, Csv!Row(id, d))
      BY <1>2, <1>3 DEF CsvInv, Buffer
    <2> QED BY <1>3, <2>1 DEF Csv!Row
  <1>5. CASE Csv!Close
    <2>1. Csv!Written(csv.path, rows \o csv.buffer)
      BY <1>5 DEF Csv!Close
    <2> HIDE DEF rows
    <2>2. /\ IsSeq(csv.buffer)
          /\ \A i \in 1 .. Len(csv.buffer) : csv.buffer[i] \in {Csv!Header, Csv!Row(id, d)}
      BY <1>4, BufferFacts
    <2>3. Csv!Header.kind = "header" /\ Csv!Row(id, d).day = d
      BY DEF Csv!Header, Csv!Row
    <2>4. \A i \in 1 .. Len(csv.buffer) :
             csv.buffer[i].kind = "row" => csv.buffer[i].day = csv.row.day
      BY <1>4, <2>2, <2>3
    <2> QED BY <2>1, <2>2, <2>4 DEF rows
  <1>6. CASE Csv!Cut
    <2>1. PICK c \in Csv!Cuts(csv.buffer) : Csv!Written(csv.path, rows \o c)
      BY <1>2, <1>6 DEF Csv!Cut
    <2> HIDE DEF rows
    <2>2. /\ IsSeq(c)
          /\ \A i \in 1 .. Len(c) : c[i].kind = "row" => c[i].day = d
      BY <1>4, CutFacts
    <2> QED BY <1>4, <2>1, <2>2 DEF rows
  <1> QED BY <1>5, <1>6

\* What Written does to each file.
LEMMA WrittenFacts ==
  ASSUME NEW path, NEW rows, Csv!Written(path, rows)
  PROVE  /\ DOMAIN disk' = DOMAIN disk \cup {path}
         /\ disk'[path] = [rows |-> rows, mtime |-> now]
         /\ disk'[path].rows = rows /\ disk'[path].mtime = now
         /\ \A p \in DOMAIN disk : p # path => disk'[p] = disk[p]
  <1>1. disk' = [p \in DOMAIN disk \cup {path} |->
                   IF p = path THEN [rows |-> rows, mtime |-> now] ELSE disk[p]]
    BY DEF Csv!Written
  <1> QED BY <1>1

\* A step is one of the call's, the clock's, or leaves the csv alone.
LEMMA StepKinds ==
  ASSUME [Next]_vars
  PROVE  \/ UNCHANGED <<now, disk, csv, logged>>
         \/ Csv!Tick /\ logged' = logged
         \/ (\E t \in DOMAIN FileNames : Csv!Begin(FileNames[t], Id(hand))) /\ logged' = logged
         \/ Csv!Open /\ logged' = logged
         \/ Csv!OpenFails /\ logged' = logged
         \/ Csv!Close /\ logged' = logged \cup {[path |-> csv.path, row |-> csv.row]}
         \/ Csv!Cut /\ logged' = logged
  <1>1. CASE SmtRecv \/ ReplayAgain \/ Start \/ UNCHANGED vars
    BY <1>1 DEF SmtRecv, Read, Deliver, Drop, ReplayAgain, Start, vars, fepVars
  <1>2. CASE Receive \/ NotLogged \/ Handle \/ Hang
    BY <1>2 DEF Receive, NotLogged, Handle, Hang
  <1>3. CASE Tick \/ Stop
    BY <1>3 DEF Tick, Stop
  <1>4. CASE BeginLog
    BY <1>4 DEF BeginLog, Known
  <1>5. CASE OpenLog \/ LogFails \/ CloseLog
    BY <1>5 DEF OpenLog, LogFails, CloseLog
  <1> QED BY <1>1, <1>2, <1>3, <1>4, <1>5 DEF Next, SmtFep

-----------------------------------------------------------------------------
\* Types.

\* The clock, the files and the call: a file was written at the latest now, and
\* a call is at most a day old.
ClockInv ==
    /\ now \in 0 .. MaxTime
    /\ \A p \in DOMAIN disk : p \in Csv!Paths /\ disk[p].mtime \in 0 .. now
    /\ csv.step \in {"out", "begun", "open"}
    /\ csv.step # "out" =>
          /\ csv.path \in Csv!Paths /\ csv.row.day \in Nat
          /\ csv.row.day <= Csv!tm_day(now) /\ Csv!tm_day(now) <= csv.row.day + 1
          /\ csv.path[2] = csv.row.day % Week
    /\ csv.step = "open" => csv.path \in DOMAIN disk

LEMMA InitClock == Init => ClockInv
  <1> SUFFICES ASSUME Init PROVE ClockInv
    OBVIOUS
  <1>1. now = 0 /\ disk = [p \in {} |-> 0] /\ csv = [step |-> "out"]
    BY DEF Init, Csv!Init, Csv!NoCall
  <1>2. DOMAIN disk = {} /\ csv.step = "out"
    BY <1>1
  <1> QED BY <1>1, <1>2, PipelineAssumption DEF ClockInv

LEMMA TickClock == ClockInv /\ Csv!Tick => ClockInv'
  <1> SUFFICES ASSUME ClockInv, Csv!Tick PROVE ClockInv'
    OBVIOUS
  <1>1. /\ now < MaxTime /\ now' = now + 1 /\ UNCHANGED <<disk, csv>>
        /\ csv.step # "out" => Csv!tm_day(now + 1) <= csv.row.day + 1
    BY DEF Csv!Tick, Csv!Prompt
  <1>2. now \in Nat /\ now' \in Nat /\ now <= now' /\ now' \in 0 .. MaxTime
    BY <1>1, PipelineAssumption DEF ClockInv
  <1>3. /\ Csv!tm_day(now) \in Nat /\ Csv!tm_day(now') \in Nat
        /\ Csv!tm_day(now) <= Csv!tm_day(now')
    BY <1>2, DayFacts, DayGrows
  <1>4. ASSUME NEW p \in DOMAIN disk' PROVE p \in Csv!Paths /\ disk'[p].mtime \in 0 .. now'
    BY <1>1, <1>2 DEF ClockInv
  <1>5. ASSUME csv'.step # "out"
        PROVE  /\ csv'.row.day <= Csv!tm_day(now')
               /\ Csv!tm_day(now') <= csv'.row.day + 1
    <2>1. csv.row.day \in Nat /\ csv.row.day <= Csv!tm_day(now)
      BY <1>1, <1>5 DEF ClockInv
    <2>2. Csv!tm_day(now') <= csv.row.day + 1
      BY <1>1, <1>5
    <2> QED BY <1>1, <1>3, <2>1, <2>2
  <1>6. Csv!tm_day(now)' = Csv!tm_day(now')
    BY DEF Csv!tm_day
  <1> QED BY <1>1, <1>2, <1>4, <1>5, <1>6 DEF ClockInv, Csv!Paths

LEMMA BeginClock ==
  ASSUME ClockInv, NEW t \in DOMAIN FileNames, NEW id, Csv!Begin(FileNames[t], id)
  PROVE  /\ ClockInv' /\ disk' = disk /\ now' = now /\ csv.step = "out"
         /\ csv'.step = "begun" /\ csv'.row.day = Csv!tm_day(now)
         /\ csv'.path[2] = Csv!tm_day(now) % Week
         /\ csv'.mode = IF csv'.path \in DOMAIN disk /\ Csv!Outdated(csv'.path) THEN "wb" ELSE "ab"
  <1> DEFINE path == <<FileNames[t], Csv!tm_wday(now)>>
  <1>1. /\ csv.step = "out" /\ UNCHANGED <<now, disk>>
        /\ csv' = [step |-> "begun", path |-> path, row |-> Csv!Row(id, Csv!tm_day(now)),
                   mode |-> IF path \in DOMAIN disk /\ Csv!Outdated(path) THEN "wb" ELSE "ab"]
    BY DEF Csv!Begin
  <1>2. now \in Nat /\ Csv!tm_day(now) \in Nat
        /\ Csv!tm_wday(now) = Csv!tm_day(now) % Week /\ Csv!tm_wday(now) \in 0 .. (Week - 1)
    BY DayFacts, PipelineAssumption DEF ClockInv
  <1>3. path \in Csv!Paths /\ path[2] = Csv!tm_wday(now)
    BY <1>2 DEF Csv!Paths
  <1> HIDE DEF path
  <1>4. /\ csv'.step = "begun" /\ csv'.path = path
        /\ csv'.row = Csv!Row(id, Csv!tm_day(now))
        /\ csv'.mode = IF path \in DOMAIN disk /\ Csv!Outdated(path) THEN "wb" ELSE "ab"
    BY <1>1
  <1>5. csv'.row.day = Csv!tm_day(now)
    BY <1>4 DEF Csv!Row
  <1>6. Csv!tm_day(now)' = Csv!tm_day(now) /\ (Csv!Paths)' = Csv!Paths
    BY <1>1 DEF Csv!tm_day, Csv!Paths
  <1>7. ClockInv'
    BY <1>1, <1>2, <1>3, <1>4, <1>5, <1>6 DEF ClockInv
  <1> QED BY <1>1, <1>2, <1>3, <1>4, <1>5, <1>7

\* What is known of the call behind fopen.
LEMMA OpenStep ==
  ASSUME CsvInv, Csv!Open
  PROVE  /\ csv.step = "begun" /\ csv'.step = "open" /\ now' = now
         /\ csv'.path = csv.path /\ csv'.row = csv.row
         /\ \/ /\ csv.path \in DOMAIN disk /\ csv.mode # "wb" /\ disk' = disk
            \/ /\ csv.path \notin DOMAIN disk \/ csv.mode = "wb"
               /\ Csv!Written(csv.path, << >>)
  BY DEF Csv!Open

LEMMA WrittenClock ==
  ASSUME ClockInv, csv.step # "out", NEW rows, Csv!Written(csv.path, rows)
  PROVE  /\ csv.path \in DOMAIN disk'
         /\ \A p \in DOMAIN disk' : p \in Csv!Paths /\ disk'[p].mtime \in 0 .. now
  <1>1. /\ DOMAIN disk' = DOMAIN disk \cup {csv.path}
        /\ disk'[csv.path].mtime = now
        /\ \A q \in DOMAIN disk : q # csv.path => disk'[q] = disk[q]
    BY WrittenFacts
  <1>2. now \in 0 .. now /\ csv.path \in Csv!Paths
    BY PipelineAssumption DEF ClockInv
  <1>3. ASSUME NEW p \in DOMAIN disk', p = csv.path
        PROVE  p \in Csv!Paths /\ disk'[p].mtime \in 0 .. now
    <2>1. disk'[p].mtime = now
      BY <1>3, <1>1
    <2> QED BY <1>2, <1>3, <2>1
  <1>4. ASSUME NEW p \in DOMAIN disk', p # csv.path
        PROVE  p \in Csv!Paths /\ disk'[p].mtime \in 0 .. now
    <2>1. p \in DOMAIN disk /\ disk'[p] = disk[p]
      BY <1>4, <1>1
    <2>2. p \in Csv!Paths /\ disk[p].mtime \in 0 .. now
      BY <2>1 DEF ClockInv
    <2> QED BY <2>1, <2>2
  <1> QED BY <1>1, <1>3, <1>4

LEMMA OpenClock == ClockInv /\ CsvInv /\ Csv!Open => ClockInv'
  <1> SUFFICES ASSUME ClockInv, CsvInv, Csv!Open PROVE ClockInv'
    OBVIOUS
  <1>1. /\ csv.step = "begun" /\ csv'.step = "open" /\ now' = now
        /\ csv'.path = csv.path /\ csv'.row = csv.row
        /\ csv.path \in Csv!Paths /\ now \in Nat
    BY OpenStep, PipelineAssumption DEF ClockInv
  <1>2. Csv!tm_day(now)' = Csv!tm_day(now) /\ (Csv!Paths)' = Csv!Paths
    BY <1>1 DEF Csv!tm_day, Csv!Paths
  <1>3. /\ csv.path \in DOMAIN disk'
        /\ \A p \in DOMAIN disk' : p \in Csv!Paths /\ disk'[p].mtime \in 0 .. now
    <2>1. CASE disk' = disk /\ csv.path \in DOMAIN disk
      BY <2>1 DEF ClockInv
    <2>2. CASE Csv!Written(csv.path, << >>)
      <3>1. PICK rows : Csv!Written(csv.path, rows)
        BY <2>2
      <3>2. csv.step # "out"
        BY <1>1
      <3> QED BY <3>1, <3>2, WrittenClock
    <2> QED BY <2>1, <2>2, OpenStep
  <1> QED BY <1>1, <1>2, <1>3 DEF ClockInv

LEMMA EndClock ==
  ASSUME ClockInv, now' = now, csv' = Csv!NoCall,
         disk' = disk \/ \E rows : csv.step = "open" /\ Csv!Written(csv.path, rows)
  PROVE  ClockInv'
  <1>1. csv'.step = "out" /\ (Csv!Paths)' = Csv!Paths /\ now \in Nat
    BY PipelineAssumption DEF Csv!NoCall, Csv!Paths, ClockInv
  <1>2. \A p \in DOMAIN disk' : p \in Csv!Paths /\ disk'[p].mtime \in 0 .. now
    <2>1. CASE disk' = disk
      BY <2>1 DEF ClockInv
    <2>2. ASSUME NEW rows, csv.step = "open", Csv!Written(csv.path, rows)
          PROVE  \A p \in DOMAIN disk' : p \in Csv!Paths /\ disk'[p].mtime \in 0 .. now
      BY <2>2, WrittenClock
    <2> QED BY <2>1, <2>2
  <1> QED BY <1>1, <1>2 DEF ClockInv

LEMMA NextClock == ClockInv /\ CsvInv /\ [Next]_vars => ClockInv'
  <1> SUFFICES ASSUME ClockInv, CsvInv, [Next]_vars PROVE ClockInv'
    OBVIOUS
  <1>1. CASE UNCHANGED <<now, disk, csv, logged>>
    BY <1>1 DEF ClockInv, Csv!Paths, Csv!tm_day
  <1>2. CASE Csv!Tick
    BY <1>2, TickClock
  <1>3. CASE \E t \in DOMAIN FileNames : Csv!Begin(FileNames[t], Id(hand))
    BY <1>3, BeginClock
  <1>4. CASE Csv!Open
    BY <1>4, OpenClock
  <1>5. CASE Csv!OpenFails
    BY <1>5, EndClock DEF Csv!OpenFails
  <1>6. CASE Csv!Close \/ Csv!Cut
    BY <1>6, EndFacts, EndClock
  <1> QED BY <1>1, <1>2, <1>3, <1>4, <1>5, <1>6, StepKinds

\* The programs, the socket between them and where smtfep is with its message.
ProcessInv ==
    /\ files \in FileLists /\ run \in 1 .. MaxRuns
    /\ IsSeq(inbox) /\ Len(inbox) <= QueueLen
    /\ status \in {"up", "down", "hung"} /\ stops \in 0 .. MaxStops
    /\ stage \in {"idle", "decoded", "logging", "logged"}
    /\ stage = "logging" <=> csv.step # "out"
    /\ status = "down" => inbox = << >> /\ stage = "idle"

LEMMA QueueFacts ==
  ASSUME NEW s, IsSeq(s), NEW e
  PROVE  /\ IsSeq(Append(s, e)) /\ Len(s) \in Nat /\ Len(Append(s, e)) = Len(s) + 1
         /\ s # << >> => IsSeq(Tail(s)) /\ Len(Tail(s)) = Len(s) - 1
  <1>1. PICK S : s \in Seq(S)
    BY DEF IsSeq
  <1>2. s \in Seq(S \cup {e})
    <2>1. s \in [1 .. Len(s) -> S] /\ Len(s) \in Nat
      BY <1>1
    <2> QED BY <2>1
  <1>3. Append(s, e) \in Seq(S \cup {e}) /\ Len(s) \in Nat /\ Len(Append(s, e)) = Len(s) + 1
    BY <1>2
  <1>4. s # << >> => Tail(s) \in Seq(S) /\ Len(Tail(s)) = Len(s) - 1
    BY <1>1
  <1> QED BY <1>3, <1>4 DEF IsSeq

LEMMA InitProcess == Init => ProcessInv
  <1> SUFFICES ASSUME Init PROVE ProcessInv
    OBVIOUS
  <1>1. /\ files \in FileLists /\ run = 1 /\ inbox = << >> /\ status = "up" /\ stops = 0
        /\ stage = "idle" /\ csv = [step |-> "out"]
    BY DEF Init, Csv!Init, Csv!NoCall, Replay!Init
  <1>2. csv.step = "out" /\ << >> \in Seq({}) /\ Len(<< >>) = 0
    BY <1>1
  <1>3. 1 \in 1 .. MaxRuns /\ 0 \in 0 .. MaxStops /\ 0 <= QueueLen
    BY PipelineAssumption
  <1> QED BY <1>1, <1>2, <1>3 DEF ProcessInv, IsSeq

LEMMA NextProcess == ProcessInv /\ [Next]_vars => ProcessInv'
  <1> SUFFICES ASSUME ProcessInv, [Next]_vars PROVE ProcessInv'
    OBVIOUS
  <1> USE DEF ProcessInv
  <1>1. CASE Read \/ Drop \/ UNCHANGED vars
    BY <1>1 DEF Read, Drop, Replay!Open, Replay!Take, Replay!Leave, Replay!Stop, Replay!Drop,
                fepVars, vars, recvVars
  <1>2. CASE Deliver
    <2>1. /\ inbox' = Append(inbox, Message) /\ Len(inbox) < QueueLen /\ status # "down"
          /\ files' = files /\ UNCHANGED <<fepVars, run>>
      BY <1>2 DEF Deliver, Replay!Deliver
    <2>2. IsSeq(inbox') /\ Len(inbox') <= QueueLen
      BY <2>1, QueueFacts, PipelineAssumption
    <2> QED BY <2>1, <2>2 DEF fepVars
  <1>3. CASE ReplayAgain
    <2>1. run \in Nat /\ run < MaxRuns /\ run' = run + 1 /\ UNCHANGED <<files, fepVars, inbox>>
      BY <1>3 DEF ReplayAgain
    <2>2. run' \in 1 .. MaxRuns
      BY <2>1, PipelineAssumption
    <2> QED BY <2>1, <2>2 DEF fepVars
  <1>4. CASE Receive
    <2>1. /\ status = "up" /\ stage = "idle" /\ inbox # << >> /\ inbox' = Tail(inbox)
          /\ stage' = "decoded" /\ UNCHANGED <<recvVars, run, csv, status, stops>>
      BY <1>4 DEF Receive
    <2>2. IsSeq(inbox') /\ Len(inbox') <= QueueLen
      <3>1. IsSeq(inbox) /\ Len(inbox) <= QueueLen
        OBVIOUS
      <3>2. IsSeq(Tail(inbox)) /\ Len(Tail(inbox)) = Len(inbox) - 1 /\ Len(inbox) \in Nat
        BY <2>1, <3>1, QueueFacts
      <3> QED BY <2>1, <3>1, <3>2, PipelineAssumption
    <2> QED BY <2>1, <2>2 DEF recvVars
  <1>5. CASE BeginLog
    <2>1. csv'.step = "begun"
      BY <1>5 DEF BeginLog, Csv!Begin
    <2> QED BY <1>5, <2>1 DEF BeginLog, Step, recvVars
  <1>6. CASE OpenLog
    <2>1. csv'.step = "open"
      BY <1>6 DEF OpenLog, Csv!Open
    <2> QED BY <1>6, <2>1 DEF OpenLog, Step, recvVars
  <1>7. CASE LogFails \/ CloseLog
    <2>1. csv'.step = "out"
      BY <1>7 DEF LogFails, CloseLog, Csv!OpenFails, Csv!Close, Csv!NoCall
    <2> QED BY <1>7, <2>1 DEF LogFails, CloseLog, Step, recvVars
  <1>8. CASE NotLogged \/ Handle
    BY <1>8 DEF NotLogged, Handle, Step, recvVars
  <1>9. CASE Hang \/ Start \/ Tick
    BY <1>9 DEF Hang, Start, Tick, Csv!Tick, recvVars
  <1>10. CASE Stop
    <2>1. /\ status' = "down" /\ stops' = stops + 1 /\ stops < MaxStops
          /\ inbox' = << >> /\ stage' = "idle" /\ UNCHANGED <<recvVars, run>>
      BY <1>10 DEF Stop
    <2>2. csv'.step = "out"
      BY <1>10 DEF Stop, Csv!Cut, Csv!NoCall
    <2>3. stops' \in 0 .. MaxStops /\ 0 <= QueueLen
      BY <2>1, PipelineAssumption
    <2>4. IsSeq(<< >>) /\ Len(<< >>) = 0
      <3>1. << >> \in Seq({}) /\ Len(<< >>) = 0
        OBVIOUS
      <3> QED BY <3>1 DEF IsSeq
    <2> QED BY <2>1, <2>2, <2>3, <2>4 DEF recvVars
  <1> QED BY <1>1, <1>2, <1>3, <1>4, <1>5, <1>6, <1>7, <1>8, <1>9, <1>10
          DEF Next, SmtRecv, SmtFep

TypeInv == CsvInv /\ ClockInv /\ ProcessInv

LEMMA NextType == TypeInv /\ [Next]_vars => TypeInv'
  BY NextCsv, NextClock, NextProcess DEF TypeInv

\* The types hold for any number of replays and stops: the socket is never
\* fuller than it can be, a stopped smtfep has nothing in hand, and it writes a
\* csv, which is there, only while it logs.
THEOREM TypeCorrect == Spec => []TypeOK
  <1>1. Init => TypeInv
    BY InitCsv, InitClock, InitProcess DEF TypeInv
  <1>2. TypeInv => TypeOK
    BY DEF TypeInv, ClockInv, ProcessInv, TypeOK, Csv!TypeOK
  <1> QED BY <1>1, <1>2, NextType, PTL DEF Spec

-----------------------------------------------------------------------------
\* One day per file.

\* The rows of a file are those of a day, one of the file's weekday, and the
\* last was written on it or, when midnight came in between, on the next.
OfDay(p, d) ==
    /\ d \in Nat /\ d % Week = p[2]
    /\ d <= Csv!tm_day(disk[p].mtime) /\ Csv!tm_day(disk[p].mtime) <= d + 1
    /\ \A i \in 1 .. Len(disk[p].rows) : disk[p].rows[i].kind = "row" => disk[p].rows[i].day = d

\* The file of a call is of the call's day, unless the call is to truncate it.
DayInv ==
    /\ \A p \in DOMAIN disk : \E d : OfDay(p, d)
    /\ csv.step = "begun" /\ csv.path \in DOMAIN disk /\ csv.mode # "wb" =>
          OfDay(csv.path, csv.row.day)
    /\ csv.step = "open" => OfDay(csv.path, csv.row.day)

LEMMA OfDayStays ==
  ASSUME NEW p, NEW d, disk'[p] = disk[p], OfDay(p, d)
  PROVE  OfDay(p, d)'
  BY DEF OfDay, Csv!tm_day

LEMMA BeginDay ==
  ASSUME ClockInv, DayInv, NEW t \in DOMAIN FileNames, NEW id, Csv!Begin(FileNames[t], id)
  PROVE  DayInv'
  <1>1. /\ disk' = disk /\ csv'.step = "begun" /\ csv'.row.day = Csv!tm_day(now)
        /\ csv'.path[2] = Csv!tm_day(now) % Week
        /\ csv'.mode = IF csv'.path \in DOMAIN disk /\ Csv!Outdated(csv'.path) THEN "wb" ELSE "ab"
    BY BeginClock
  <1>2. ASSUME csv'.path \in DOMAIN disk, csv'.mode # "wb"
        PROVE  OfDay(csv'.path, csv'.row.day)
    <2> DEFINE path == csv'.path
               today == Csv!tm_day(now)
    <2>1. Csv!tm_yday(disk[path].mtime) = Csv!tm_yday(now)
      BY <1>1, <1>2 DEF Csv!Outdated
    <2>2. now \in 0 .. MaxTime /\ disk[path].mtime \in 0 .. MaxTime /\ now \in Nat
      BY <1>2, PipelineAssumption DEF ClockInv
    <2>3. Csv!tm_day(disk[path].mtime) = today /\ today \in Nat
      BY <2>1, <2>2, DayOfYear, DayFacts
    <2>4. PICK d : OfDay(path, d)
      BY <1>2 DEF DayInv
    <2>5. d \in Nat /\ d % Week = today % Week /\ d <= today /\ today <= d + 1
      BY <1>1, <2>3, <2>4 DEF OfDay
    <2>6. d = today
      <3>1. d = today \/ today = d + 1
        BY <2>3, <2>5
      <3>2. (d + 1) % Week # d % Week
        BY <2>5, WeekdaysDiffer
      <3> QED BY <2>5, <3>1, <3>2
    <2> QED BY <1>1, <2>4, <2>6
  <1>3. \A p \in DOMAIN disk' : \E d : OfDay(p, d)'
    BY <1>1 DEF DayInv, OfDay, Csv!tm_day
  <1>4. PICK path, day : path = csv'.path /\ day = csv'.row.day
    OBVIOUS
  <1>5. path \in DOMAIN disk' /\ csv'.mode # "wb" => OfDay(path, day)'
    <2>1. path \in DOMAIN disk /\ csv'.mode # "wb" => OfDay(path, day)
      BY <1>1, <1>2, <1>4
    <2> QED BY <1>1, <2>1 DEF OfDay, Csv!tm_day
  <1>6. csv'.step = "begun"
    BY <1>1
  <1> QED BY <1>3, <1>4, <1>5, <1>6 DEF DayInv, OfDay

\* What is written into the file of a call leaves it of the call's day, and the
\* others alone.
LEMMA WrittenDay ==
  ASSUME ClockInv, DayInv, csv.step # "out", NEW path, path = csv.path, NEW day, day = csv.row.day,
         NEW rows, Csv!Written(path, rows),
         \A i \in 1 .. Len(rows) : rows[i].kind = "row" => rows[i].day = day
  PROVE  OfDay(path, day)' /\ \A p \in DOMAIN disk' : \E d : OfDay(p, d)'
  <1>1. /\ DOMAIN disk' = DOMAIN disk \cup {path}
        /\ disk'[path].rows = rows /\ disk'[path].mtime = now
        /\ \A p \in DOMAIN disk : p # path => disk'[p] = disk[p]
    BY WrittenFacts
  <1>2. /\ day \in Nat /\ path[2] = day % Week
        /\ day <= Csv!tm_day(now) /\ Csv!tm_day(now) <= day + 1
    BY DEF ClockInv
  <1>3. OfDay(path, day)'
    BY <1>1, <1>2 DEF OfDay, Csv!tm_day
  <1>4. ASSUME NEW p \in DOMAIN disk', p # path PROVE \E d : OfDay(p, d)'
    <2>1. p \in DOMAIN disk /\ disk'[p] = disk[p]
      BY <1>1, <1>4
    <2>2. PICK d : OfDay(p, d)
      BY <2>1 DEF DayInv
    <2> QED BY <2>1, <2>2, OfDayStays
  <1> QED BY <1>3, <1>4

LEMMA OpenDay == ClockInv /\ CsvInv /\ DayInv /\ Csv!Open => DayInv'
  <1> SUFFICES ASSUME ClockInv, CsvInv, DayInv, Csv!Open PROVE DayInv'
    OBVIOUS
  <1>1. PICK path, day : path = csv.path /\ day = csv.row.day
    OBVIOUS
  <1>2. /\ csv.step = "begun" /\ csv'.step = "open" /\ csv'.path = path /\ csv'.row.day = day
        /\ \/ path \in DOMAIN disk /\ csv.mode # "wb" /\ disk' = disk
           \/ Csv!Written(path, << >>)
    BY <1>1, OpenStep
  <1>3. OfDay(path, day)' /\ \A p \in DOMAIN disk' : \E d : OfDay(p, d)'
    <2>1. CASE path \in DOMAIN disk /\ csv.mode # "wb" /\ disk' = disk
      <3>1. OfDay(path, day)
        BY <1>1, <1>2, <2>1 DEF DayInv
      <3>2. \A p \in DOMAIN disk : \E d : OfDay(p, d)
        BY DEF DayInv
      <3> QED BY <2>1, <3>1, <3>2 DEF OfDay, Csv!tm_day
    <2>2. CASE Csv!Written(path, << >>)
      <3>1. \A i \in 1 .. Len(<< >>) : << >>[i].kind = "row" => << >>[i].day = day
        OBVIOUS
      <3> QED BY <1>1, <1>2, <2>2, <3>1, WrittenDay
    <2> QED BY <1>2, <2>1, <2>2
  <1>4. OfDay(csv.path, csv.row.day)'
    BY <1>2, <1>3 DEF OfDay
  <1> QED BY <1>2, <1>3, <1>4 DEF DayInv

LEMMA EndDay == ClockInv /\ CsvInv /\ DayInv /\ (Csv!Close \/ Csv!Cut) => DayInv'
  <1> SUFFICES ASSUME ClockInv, CsvInv, DayInv, Csv!Close \/ Csv!Cut PROVE DayInv'
    OBVIOUS
  <1>1. csv'.step = "out"
    BY EndFacts DEF Csv!NoCall
  <1>2. \A p \in DOMAIN disk' : \E d : OfDay(p, d)'
    <2>1. CASE disk' = disk
      BY <2>1 DEF DayInv, OfDay, Csv!tm_day
    <2>2. ASSUME csv.step = "open", NEW c, IsSeq(c), Csv!Written(csv.path, disk[csv.path].rows \o c),
                 \A i \in 1 .. Len(c) : c[i].kind = "row" => c[i].day = csv.row.day
          PROVE  \A p \in DOMAIN disk' : \E d : OfDay(p, d)'
      <3>1. PICK path, day : path = csv.path /\ day = csv.row.day
        OBVIOUS
      <3> DEFINE rows == disk[path].rows
                 all == rows \o c
      <3>2. /\ IsSeq(rows)
            /\ \A i \in 1 .. Len(rows) : rows[i].kind = "row" => rows[i].day = day
        BY <2>2, <3>1 DEF DayInv, OfDay, CsvInv
      <3>3. Csv!Written(path, all)
        BY <2>2, <3>1
      <3> HIDE DEF rows
      <3>4. /\ Len(rows) \in Nat /\ Len(c) \in Nat /\ Len(all) = Len(rows) + Len(c)
            /\ \A i \in 1 .. Len(rows) : all[i] = rows[i]
            /\ \A i \in 1 .. Len(c) : all[Len(rows) + i] = c[i]
        BY <2>2, <3>2, ConcatFacts
      <3> HIDE DEF all
      <3>5. ASSUME NEW i \in 1 .. Len(all) PROVE all[i].kind = "row" => all[i].day = day
        <4>1. CASE i \in 1 .. Len(rows)
          BY <3>2, <3>4, <4>1
        <4>2. CASE ~(i \in 1 .. Len(rows))
          <5>1. PICK j \in 1 .. Len(c) : i = Len(rows) + j
            <6>1. i - Len(rows) \in 1 .. Len(c) /\ i = Len(rows) + (i - Len(rows))
              BY <3>4, <4>2
            <6> QED BY <6>1
          <5> QED BY <2>2, <3>1, <3>4, <5>1
        <4> QED BY <4>1, <4>2
      <3> QED BY <2>2, <3>1, <3>3, <3>5, WrittenDay
    <2> QED BY <2>1, <2>2, EndFacts
  <1> QED BY <1>1, <1>2 DEF DayInv

LEMMA NextDay == ClockInv /\ CsvInv /\ DayInv /\ [Next]_vars => DayInv'
  <1> SUFFICES ASSUME ClockInv, CsvInv, DayInv, [Next]_vars PROVE DayInv'
    OBVIOUS
  <1>1. CASE UNCHANGED <<disk, csv>>
    BY <1>1 DEF DayInv, OfDay, Csv!tm_day
  <1>2. CASE \E t \in DOMAIN FileNames : Csv!Begin(FileNames[t], Id(hand))
    BY <1>2, BeginDay
  <1>3. CASE Csv!Open
    BY <1>3, OpenDay
  <1>4. CASE Csv!OpenFails
    <2>1. disk' = disk /\ csv'.step = "out"
      BY <1>4 DEF Csv!OpenFails, Csv!NoCall
    <2> QED BY <2>1 DEF DayInv, OfDay, Csv!tm_day
  <1>5. CASE Csv!Close \/ Csv!Cut
    BY <1>5, EndDay
  <1> QED BY <1>1, <1>2, <1>3, <1>4, <1>5, StepKinds DEF Csv!Tick

\* No csv holds rows of two days, though its name only tells the weekday, the
\* process may be stopped at any moment, and midnight may come between the
\* choice of the file, its truncation and the writing (nas_smt_csv).
THEOREM DaysCorrect == Spec => []OneDayPerFile
  <1> DEFINE Inv == TypeInv /\ DayInv
  <1>1. Init => Inv
    <2>1. ASSUME Init PROVE DayInv
      <3>1. disk = [p \in {} |-> 0] /\ csv = [step |-> "out"]
        BY <2>1 DEF Init, Csv!Init, Csv!NoCall
      <3>2. DOMAIN disk = {} /\ csv.step = "out"
        BY <3>1
      <3> QED BY <3>2 DEF DayInv
    <2> QED BY <2>1, InitCsv, InitClock, InitProcess DEF TypeInv
  <1>2. Inv /\ [Next]_vars => Inv'
    BY NextType, NextDay DEF TypeInv
  <1>3. Inv => OneDayPerFile
    <2> SUFFICES ASSUME CsvInv, DayInv, NEW p \in DOMAIN disk,
                        NEW i \in Csv!RowsOf(p), NEW j \in Csv!RowsOf(p)
                 PROVE  disk[p].rows[i].day = disk[p].rows[j].day
      BY DEF TypeInv, OneDayPerFile, Csv!OneDayPerFile
    <2>1. PICK S : disk[p].rows \in Seq(S)
      BY DEF CsvInv, IsSeq
    <2>2. DOMAIN disk[p].rows = 1 .. Len(disk[p].rows)
      BY <2>1
    <2>3. PICK d : OfDay(p, d)
      BY DEF DayInv
    <2> QED BY <2>2, <2>3 DEF OfDay, Csv!RowsOf
  <1> HIDE DEF Inv
  <1> QED BY <1>1, <1>2, <1>3, PTL DEF Spec

-----------------------------------------------------------------------------
\* No row is lost on its day.

InFile(p, row) == \E i \in 1 .. Len(disk[p].rows) : disk[p].rows[i] = row
OnlyLater(p, d) ==
    /\ d < Csv!tm_day(disk[p].mtime)
    /\ \A i \in 1 .. Len(disk[p].rows) : disk[p].rows[i].kind = "row" => disk[p].rows[i].day > d

\* A row that was written is in its file, or the file was begun anew on a later
\* day, and has only rows of later days.
Safe(p, row) ==
    /\ p \in DOMAIN disk /\ row.day \in Nat
    /\ row.day <= Csv!tm_day(disk[p].mtime)
    /\ InFile(p, row) \/ OnlyLater(p, row.day)

\* When a call is to truncate its file, or has done so, no row of the file that
\* goes or is gone is of the call's day.
LogInv ==
    /\ \A l \in logged : Safe(l.path, l.row)
    /\ csv.step # "out" => \A l \in logged :
          l.path = csv.path /\ (~InFile(l.path, l.row) \/ (csv.step = "begun" /\ csv.mode = "wb"))
          => l.row.day < csv.row.day

LEMMA SafeStays ==
  ASSUME NEW p, NEW row, Safe(p, row), p \in DOMAIN disk', disk'[p] = disk[p]
  PROVE  Safe(p, row)' /\ (InFile(p, row) <=> InFile(p, row)')
  BY DEF Safe, InFile, OnlyLater, Csv!tm_day

LEMMA QuietLog ==
  ASSUME LogInv, UNCHANGED <<disk, logged>>, csv' = csv \/ csv'.step = "out"
  PROVE  LogInv'
  BY DEF LogInv, Safe, InFile, OnlyLater, Csv!tm_day

LEMMA BeginLogInv ==
  ASSUME ClockInv, LogInv, logged' = logged,
         NEW t \in DOMAIN FileNames, NEW id, Csv!Begin(FileNames[t], id)
  PROVE  LogInv'
  <1> DEFINE today == Csv!tm_day(now)
  <1>1. /\ disk' = disk /\ csv'.step = "begun" /\ csv'.row.day = today
        /\ csv'.mode = IF csv'.path \in DOMAIN disk /\ Csv!Outdated(csv'.path) THEN "wb" ELSE "ab"
    BY BeginClock
  <1>2. PICK path, mode : path = csv'.path /\ mode = csv'.mode
    OBVIOUS
  <1>3. \A l \in logged : Safe(l.path, l.row)' /\ Safe(l.path, l.row)
    BY <1>1 DEF LogInv, Safe, InFile, OnlyLater, Csv!tm_day
  <1>4. ASSUME NEW l \in logged, l.path = path, ~InFile(l.path, l.row) \/ mode = "wb"
        PROVE  l.row.day < today
    <2> DEFINE last == Csv!tm_day(disk[path].mtime)
    <2>1. /\ path \in DOMAIN disk /\ l.row.day \in Nat /\ l.row.day <= last
          /\ InFile(l.path, l.row) \/ l.row.day < last
      BY <1>3, <1>4 DEF Safe, OnlyLater
    <2>2. /\ now \in Nat /\ disk[path].mtime \in Nat /\ disk[path].mtime <= now
          /\ now \in 0 .. MaxTime /\ disk[path].mtime \in 0 .. MaxTime
      BY <2>1, PipelineAssumption DEF ClockInv
    <2>3. last \in Nat /\ today \in Nat /\ last <= today
      BY <2>2, DayFacts, DayGrows
    <2>4. CASE mode = "wb"
      <3>1. Csv!tm_yday(disk[path].mtime) # Csv!tm_yday(now)
        BY <1>1, <1>2, <2>4 DEF Csv!Outdated
      <3>2. last # today
        BY <3>1 DEF Csv!tm_yday
      <3> QED BY <2>1, <2>3, <3>2
    <2>5. CASE ~InFile(l.path, l.row)
      BY <2>1, <2>3, <2>5
    <2> QED BY <1>4, <2>4, <2>5
  <1> HIDE DEF today
  <1>5. ASSUME NEW l \in logged', l.path = path, ~InFile(l.path, l.row)' \/ mode = "wb"
        PROVE  l.row.day < today
    BY <1>1, <1>4, <1>5 DEF InFile
  <1> QED BY <1>1, <1>2, <1>3, <1>5 DEF LogInv

LEMMA OpenLogInv ==
  ASSUME ClockInv, CsvInv, LogInv, logged' = logged, Csv!Open
  PROVE  LogInv'
  <1>1. PICK path, day, mode : path = csv.path /\ day = csv.row.day /\ mode = csv.mode
    OBVIOUS
  <1>2. /\ csv.step = "begun" /\ csv'.step = "open" /\ csv'.path = path /\ csv'.row.day = day
        /\ \/ path \in DOMAIN disk /\ mode # "wb" /\ disk' = disk
           \/ (path \notin DOMAIN disk \/ mode = "wb") /\ Csv!Written(path, << >>)
    BY <1>1, OpenStep
  <1>3. /\ day \in Nat /\ Csv!tm_day(now) \in Nat /\ day <= Csv!tm_day(now)
    <2>1. now \in Nat /\ day \in Nat /\ day <= Csv!tm_day(now)
      BY <1>1, <1>2, PipelineAssumption DEF ClockInv
    <2> QED BY <2>1, DayFacts
  <1>4. ASSUME NEW l \in logged
        PROVE  /\ Safe(l.path, l.row)'
               /\ l.path = path /\ ~InFile(l.path, l.row)' => l.row.day < day
    <2>1. /\ Safe(l.path, l.row)
          /\ l.path = path /\ (~InFile(l.path, l.row) \/ mode = "wb") => l.row.day < day
      <3>1. Safe(l.path, l.row)
        BY DEF LogInv
      <3>2. ASSUME l.path = path, ~InFile(l.path, l.row) \/ mode = "wb" PROVE l.row.day < day
        <4>1. csv.step # "out" /\ l.path = csv.path
              /\ (~InFile(l.path, l.row) \/ (csv.step = "begun" /\ csv.mode = "wb"))
          BY <1>1, <1>2, <3>2
        <4>2. l.row.day < csv.row.day
          BY <4>1 DEF LogInv
        <4> QED BY <1>1, <4>2
      <3> QED BY <3>1, <3>2
    <2>2. CASE disk' = disk
      BY <2>1, <2>2 DEF Safe, InFile, OnlyLater, Csv!tm_day
    <2>3. CASE (path \notin DOMAIN disk \/ mode = "wb") /\ Csv!Written(path, << >>)
      <3>1. /\ DOMAIN disk' = DOMAIN disk \cup {path}
            /\ disk'[path].rows = << >> /\ disk'[path].mtime = now
            /\ \A p \in DOMAIN disk : p # path => disk'[p] = disk[p]
        BY <2>3, WrittenFacts
      <3>2. l.path \in DOMAIN disk /\ l.path \in DOMAIN disk'
        BY <2>1, <3>1 DEF Safe
      <3>3. CASE l.path = path
        <4>1. l.row.day < day /\ l.row.day \in Nat
          BY <2>1, <2>3, <3>2, <3>3 DEF Safe
        <4>2. OnlyLater(l.path, l.row.day)'
          BY <1>3, <3>1, <3>3, <4>1 DEF OnlyLater, Csv!tm_day
        <4>3. l.row.day <= Csv!tm_day(disk[l.path].mtime)'
          BY <1>3, <3>1, <3>3, <4>1 DEF Csv!tm_day
        <4> QED BY <3>2, <4>1, <4>2, <4>3 DEF Safe
      <3>4. CASE l.path # path
        BY <2>1, <3>1, <3>2, <3>4, SafeStays
      <3> QED BY <3>3, <3>4
    <2> QED BY <1>2, <2>2, <2>3
  <1> QED BY <1>2, <1>4 DEF LogInv

\* A call adds to its file, now, only rows of its day.
LEMMA AddedLog ==
  ASSUME ClockInv, CsvInv, LogInv, csv.step = "open",
         NEW path, path = csv.path, NEW day, day = csv.row.day,
         NEW c, IsSeq(c), Csv!Written(path, disk[path].rows \o c),
         \A i \in 1 .. Len(c) : c[i].kind = "row" => c[i].day = day,
         NEW l \in logged
  PROVE  Safe(l.path, l.row)'
  <1> DEFINE rows == disk[path].rows
             all == rows \o c
             today == Csv!tm_day(now)
  <1>1. /\ DOMAIN disk' = DOMAIN disk \cup {path}
        /\ disk'[path].rows = all /\ disk'[path].mtime = now
        /\ \A p \in DOMAIN disk : p # path => disk'[p] = disk[p]
    BY WrittenFacts
  <1>2. Safe(l.path, l.row)
    BY DEF LogInv
  <1>3. l.path \in DOMAIN disk /\ l.path \in DOMAIN disk'
    BY <1>1, <1>2 DEF Safe
  <1>4. CASE l.path # path
    BY <1>1, <1>2, <1>3, <1>4, SafeStays
  <1>5. CASE l.path = path
    <2>1. IsSeq(rows)
      BY <1>3, <1>5 DEF CsvInv
    <2> HIDE DEF rows
    <2>2. /\ Len(rows) \in Nat /\ Len(c) \in Nat /\ Len(all) = Len(rows) + Len(c)
          /\ \A i \in 1 .. Len(rows) : all[i] = rows[i]
          /\ \A i \in 1 .. Len(c) : all[Len(rows) + i] = c[i]
      BY <2>1, ConcatFacts
    <2> HIDE DEF all
    <2>3. /\ disk[path].mtime \in Nat /\ now \in Nat /\ disk[path].mtime <= now
      BY <1>3, <1>5, PipelineAssumption DEF ClockInv
    <2>4. /\ Csv!tm_day(disk[path].mtime) \in Nat /\ today \in Nat
          /\ Csv!tm_day(disk[path].mtime) <= today
      BY <2>3, DayFacts, DayGrows
    <2>5. l.row.day \in Nat /\ l.row.day <= Csv!tm_day(disk[path].mtime)
      BY <1>2, <1>5 DEF Safe
    <2>6. l.row.day <= Csv!tm_day(disk[l.path].mtime)'
      BY <1>1, <1>5, <2>4, <2>5 DEF Csv!tm_day
    <2>7. CASE InFile(l.path, l.row)
      <3>1. PICK i \in 1 .. Len(rows) : rows[i] = l.row
        BY <1>5, <2>7 DEF InFile, rows
      <3>2. i \in 1 .. Len(all) /\ all[i] = l.row
        BY <2>2, <3>1
      <3>3. InFile(l.path, l.row)'
        BY <1>1, <1>5, <3>2 DEF InFile, all
      <3> QED BY <1>3, <2>5, <2>6, <3>3 DEF Safe
    <2>8. CASE ~InFile(l.path, l.row)
      <3>1. /\ l.row.day < Csv!tm_day(disk[path].mtime)
            /\ \A i \in 1 .. Len(rows) : rows[i].kind = "row" => rows[i].day > l.row.day
        BY <1>2, <1>5, <2>8 DEF Safe, OnlyLater, rows
      <3>2. l.row.day < day /\ day \in Nat
        <4>1. l.path = csv.path /\ csv.step # "out"
          BY <1>5
        <4>2. l.row.day < csv.row.day
          BY <2>8, <4>1 DEF LogInv
        <4> QED BY <4>2 DEF ClockInv
      <3>3. ASSUME NEW i \in 1 .. Len(all), all[i].kind = "row" PROVE all[i].day > l.row.day
        <4>1. CASE i \in 1 .. Len(rows)
          BY <2>2, <3>1, <3>3, <4>1
        <4>2. CASE ~(i \in 1 .. Len(rows))
          <5>1. PICK j \in 1 .. Len(c) : i = Len(rows) + j
            <6>1. i - Len(rows) \in 1 .. Len(c) /\ i = Len(rows) + (i - Len(rows))
              BY <2>2, <4>2
            <6> QED BY <6>1
          <5>2. all[i] = c[j]
            BY <2>2, <5>1
          <5>3. all[i].day = day
            BY <3>3, <5>2
          <5> QED BY <2>5, <3>2, <5>3
        <4> QED BY <4>1, <4>2
      <3>4. l.row.day < today
        BY <2>4, <2>5, <3>1
      <3>5. OnlyLater(l.path, l.row.day)'
        BY <1>1, <1>5, <3>3, <3>4 DEF OnlyLater, Csv!tm_day, all
      <3> QED BY <1>3, <2>5, <2>6, <3>5 DEF Safe
    <2> QED BY <2>7, <2>8
  <1> QED BY <1>4, <1>5

\* The row of a call that ends is in its file.
LEMMA RowAdded ==
  ASSUME ClockInv, CsvInv, Csv!Close, NEW path, path = csv.path, NEW row, row = csv.row
  PROVE  Safe(path, row)'
  <1> DEFINE rows == disk[path].rows
             buffer == csv.buffer
             all == rows \o buffer
  <1>1. csv.step = "open" /\ Csv!Written(path, all)
    BY DEF Csv!Close
  <1>2. /\ path \in DOMAIN disk /\ IsSeq(rows)
        /\ rows = << >> => buffer = << Csv!Header, row >>
        /\ rows # << >> => buffer = << row >>
    <2>1. path \in DOMAIN disk /\ buffer = IF rows = << >> THEN << Csv!Header, row >> ELSE << row >>
      BY <1>1 DEF CsvInv
    <2>2. IsSeq(rows)
      BY <2>1 DEF CsvInv
    <2> HIDE DEF rows, buffer
    <2> QED BY <2>1, <2>2
  <1>3. /\ path \in DOMAIN disk' /\ disk'[path].rows = all /\ disk'[path].mtime = now
    <2>1. Csv!Written(path, all)
      BY <1>1
    <2> HIDE DEF all
    <2>2. DOMAIN disk' = DOMAIN disk \cup {path}
      BY <2>1, WrittenFacts
    <2>3. disk'[path].rows = all /\ disk'[path].mtime = now
      BY <2>1, WrittenFacts
    <2> QED BY <2>2, <2>3
  <1>4. now \in Nat /\ row.day \in Nat /\ row.day <= Csv!tm_day(now)
    BY <1>1, PipelineAssumption DEF ClockInv
  <1>5. /\ IsSeq(buffer) /\ Len(buffer) \in Nat /\ Len(buffer) >= 1
        /\ buffer[Len(buffer)] = row
    <2> HIDE DEF rows, buffer
    <2>1. CASE rows = << >>
      <3> DEFINE b == << Csv!Header, row >>
      <3>1. b \in Seq({Csv!Header, row}) /\ Len(b) = 2 /\ b[2] = row
        OBVIOUS
      <3>2. buffer = b
        BY <1>2, <2>1
      <3> HIDE DEF b
      <3>3. IsSeq(buffer)
        BY <3>1, <3>2 DEF IsSeq
      <3>4. Len(buffer) = 2 /\ buffer[2] = row
        BY <3>1, <3>2
      <3> QED BY <3>3, <3>4
    <2>2. CASE rows # << >>
      <3> DEFINE b == << row >>
      <3>1. b \in Seq({row}) /\ Len(b) = 1 /\ b[1] = row
        OBVIOUS
      <3>2. buffer = b
        BY <1>2, <2>2
      <3> HIDE DEF b
      <3>3. IsSeq(buffer)
        BY <3>1, <3>2 DEF IsSeq
      <3>4. Len(buffer) = 1 /\ buffer[1] = row
        BY <3>1, <3>2
      <3> QED BY <3>3, <3>4
    <2> QED BY <2>1, <2>2
  <1> HIDE DEF rows, buffer
  <1>6. /\ Len(rows) \in Nat /\ Len(all) = Len(rows) + Len(buffer)
        /\ \A i \in 1 .. Len(buffer) : all[Len(rows) + i] = buffer[i]
    BY <1>2, <1>5, ConcatFacts
  <1> HIDE DEF all
  <1>7. Len(all) \in 1 .. Len(all) /\ all[Len(all)] = row
    <2>1. Len(buffer) \in 1 .. Len(buffer)
      BY <1>5
    <2> QED BY <1>5, <1>6, <2>1
  <1>8. InFile(path, row)'
    BY <1>3, <1>7 DEF InFile
  <1> QED BY <1>3, <1>4, <1>8 DEF Safe, Csv!tm_day

LEMMA EndLogInv ==
  ASSUME ClockInv, CsvInv, LogInv,
         \/ Csv!Close /\ logged' = logged \cup {[path |-> csv.path, row |-> csv.row]}
         \/ Csv!Cut /\ logged' = logged
  PROVE  LogInv'
  <1>1. csv'.step = "out"
    BY EndFacts DEF Csv!NoCall
  <1>2. ASSUME NEW l \in logged PROVE Safe(l.path, l.row)'
    <2>1. CASE disk' = disk
      BY <2>1 DEF LogInv, Safe, InFile, OnlyLater, Csv!tm_day
    <2>2. CASE disk' # disk
      <3>1. PICK path, day : path = csv.path /\ day = csv.row.day
        OBVIOUS
      <3>2. csv.step = "open" /\ \E c : /\ IsSeq(c) /\ Csv!Written(path, disk[path].rows \o c)
                                        /\ \A i \in 1 .. Len(c) : c[i].kind = "row" => c[i].day = day
        BY <2>2, <3>1, EndFacts
      <3> QED BY <3>1, <3>2, AddedLog
    <2> QED BY <2>1, <2>2
  <1>3. ASSUME NEW l \in logged' PROVE Safe(l.path, l.row)'
    <2>1. CASE l \in logged
      BY <1>2, <2>1
    <2>2. CASE l \notin logged
      <3>1. PICK path, row : path = csv.path /\ row = csv.row
        OBVIOUS
      <3>2. Csv!Close /\ l = [path |-> path, row |-> row]
        BY <1>3, <2>2, <3>1
      <3> QED BY <3>1, <3>2, RowAdded
    <2> QED BY <2>1, <2>2
  <1> QED BY <1>1, <1>3 DEF LogInv

LEMMA NextLog == ClockInv /\ CsvInv /\ LogInv /\ [Next]_vars => LogInv'
  <1> SUFFICES ASSUME ClockInv, CsvInv, LogInv, [Next]_vars PROVE LogInv'
    OBVIOUS
  <1>1. CASE UNCHANGED <<disk, csv, logged>>
    BY <1>1, QuietLog
  <1>2. CASE (\E t \in DOMAIN FileNames : Csv!Begin(FileNames[t], Id(hand))) /\ logged' = logged
    BY <1>2, BeginLogInv
  <1>3. CASE Csv!Open /\ logged' = logged
    BY <1>3, OpenLogInv
  <1>4. CASE Csv!OpenFails /\ logged' = logged
    <2>1. disk' = disk /\ csv'.step = "out"
      BY <1>4 DEF Csv!OpenFails, Csv!NoCall
    <2> QED BY <1>4, <2>1, QuietLog
  <1>5. CASE \/ Csv!Close /\ logged' = logged \cup {[path |-> csv.path, row |-> csv.row]}
             \/ Csv!Cut /\ logged' = logged
    BY <1>5, EndLogInv
  <1> QED BY <1>1, <1>2, <1>3, <1>4, <1>5, StepKinds DEF Csv!Tick

\* No restart and no midnight makes nas_smt_csv truncate the file of the day: a
\* row that was written is there until a later day takes the file.
THEOREM LogCorrect == Spec => []LogKeepsDay
  <1> DEFINE Inv == TypeInv /\ LogInv
  <1>1. Init => Inv
    <2>1. ASSUME Init PROVE LogInv
      <3>1. logged = {} /\ csv = [step |-> "out"]
        BY <2>1 DEF Init, Csv!Init, Csv!NoCall
      <3>2. csv.step = "out"
        BY <3>1
      <3> QED BY <3>1, <3>2 DEF LogInv
    <2> QED BY <2>1, InitCsv, InitClock, InitProcess DEF TypeInv
  <1>2. Inv /\ [Next]_vars => Inv'
    BY NextType, NextLog DEF TypeInv
  <1>3. Inv => LogKeepsDay
    <2> SUFFICES ASSUME CsvInv, LogInv, NEW l \in logged
                 PROVE  \/ \E i \in DOMAIN disk[l.path].rows : disk[l.path].rows[i] = l.row
                        \/ \A i \in Csv!RowsOf(l.path) : disk[l.path].rows[i].day > l.row.day
      BY DEF TypeInv, LogKeepsDay
    <2>1. Safe(l.path, l.row)
      BY DEF LogInv
    <2>2. PICK S : disk[l.path].rows \in Seq(S)
      BY <2>1 DEF Safe, CsvInv, IsSeq
    <2>3. DOMAIN disk[l.path].rows = 1 .. Len(disk[l.path].rows)
      BY <2>2
    <2> QED BY <2>1, <2>3 DEF Safe, InFile, OnlyLater, Csv!RowsOf
  <1> HIDE DEF Inv
  <1> QED BY <1>1, <1>2, <1>3, PTL DEF Spec

-----------------------------------------------------------------------------
\* Induction, from the library's fact that < is well-founded on the naturals.
\* A set of natural numbers that is not empty has a least one.
LEMMA LeastNatural ==
  ASSUME NEW T, T \subseteq Nat, T # {}
  PROVE  \E n \in T : \A m \in T : n <= m
  <1> DEFINE less == OpToRel(<, Nat)
  <1>1. IsWellFoundedOn(less, Nat)
    BY NatLessThanWellFounded, Zenon
  <1>2. \A m, n \in Nat : m < n => <<m, n>> \in less
    BY Zenon DEF OpToRel
  <1> HIDE DEF less
  <1>3. PICK n \in T : \A m \in T : ~ (<<m, n>> \in less)
    BY <1>1, WFMin
  <1>4. ASSUME NEW m \in T PROVE n <= m
    <2>1. m \in Nat /\ n \in Nat /\ ~(m < n)
      BY <1>2, <1>3
    <2> QED BY <2>1
  <1> QED BY <1>4

\* What holds of 0 and of each successor holds of every number up to a bound.
LEMMA UpTo ==
  ASSUME NEW N \in Nat, NEW S, 0 \in S, \A n \in 0 .. N : n \in S /\ n + 1 \in 0 .. N => n + 1 \in S
  PROVE  N \in S
  <1> SUFFICES ASSUME N \notin S PROVE FALSE
    OBVIOUS
  <1> DEFINE T == {n \in Nat : n <= N /\ n \notin S}
  <1>1. PICK n \in T : \A m \in T : n <= m
    <2>1. T \subseteq Nat /\ N \in T
      OBVIOUS
    <2> QED BY <2>1, LeastNatural
  <1>2. n # 0 /\ n - 1 \in 0 .. N /\ n - 1 + 1 = n /\ n \in 0 .. N
    OBVIOUS
  <1>3. n - 1 \in S
    BY <1>1, <1>2
  <1> QED BY <1>2, <1>3

-----------------------------------------------------------------------------
\* The number of blocks of a file.

\* The position behind the block at p, and whether the replay takes that block.
Behind(f, p) == p + LengthBytes + LengthAt(f, p)
Taken(f, p) == Whole(f, p) /\ LengthBytes + LengthAt(f, p) <= Cap

\* One step of the count, when g gives it at other positions.
Counted(f, g, p) == IF Taken(f, p) THEN 1 + g[Behind(f, p)] ELSE 0

\* The count from each position of a file.
Counter(f) == CHOOSE g : g = [p \in 0 .. Len(f) |-> Counted(f, g, p)]

LEMMA CountIsCounter == \A f : BlockCount(f) = Counter(f)[0]
  BY DEF BlockCount, Counter, Counted, Taken, Behind

\* A block that is taken ends behind its start, within the file.
LEMMA BehindFacts ==
  ASSUME NEW f \in Seq(Byte), NEW p \in 0 .. Len(f), Taken(f, p)
  PROVE  Behind(f, p) \in 0 .. Len(f) /\ p < Behind(f, p)
  <1>1. Len(f) \in Nat /\ p + 2 <= Len(f) /\ Behind(f, p) <= Len(f)
    BY DEF Taken, Whole, Behind, LengthBytes
  <1>2. f[p + 1] \in Byte /\ f[p + 2] \in Byte
    BY <1>1
  <1>3. LengthAt(f, p) \in Nat
    <2> DEFINE hi == f[p + 1]
               lo == f[p + 2]
               bb == Base * Base
               hb == hi * Base
    <2>1. Base \in Nat /\ hi \in Nat /\ lo \in Nat /\ Cap \in Nat /\ SizeMod \in Nat
      BY <1>2, FramingAssumption DEF Byte
    <2>2. SizeMod > bb + Cap
      BY FramingAssumption
    <2>3. LengthAt(f, p) = IF hi * 2 < Base THEN hb + lo ELSE (SizeMod - bb) + (hb + lo)
      BY DEF LengthAt, LengthField
    <2> HIDE DEF hi, lo
    <2>4. bb \in Nat /\ hb \in Nat
      BY <2>1
    <2> HIDE DEF bb, hb
    <2> QED BY <2>1, <2>2, <2>3, <2>4
  <1> QED BY <1>1, <1>3 DEF Behind, LengthBytes

\* The step looks at g behind p only.
LEMMA CountedBehind ==
  ASSUME NEW f \in Seq(Byte), NEW p \in 0 .. Len(f), NEW g, NEW h,
         \A q \in 0 .. Len(f) : p < q => g[q] = h[q]
  PROVE  Counted(f, g, p) = Counted(f, h, p)
  BY BehindFacts DEF Counted

\* Nothing is taken at the end of a file.
LEMMA NoneAtEnd == ASSUME NEW f \in Seq(Byte) PROVE ~Taken(f, Len(f))
  BY DEF Taken, Whole, LengthBytes

\* There is a function that the recursion describes: by induction over how far
\* from the end it is right.
LEMMA CounterExists ==
  ASSUME NEW f \in Seq(Byte)
  PROVE  \E g : g = [p \in 0 .. Len(f) |-> Counted(f, g, p)]
  <1> DEFINE N == Len(f)
             Right(g, w) == \A p \in 0 .. N : N - p <= w => g[p] = Counted(f, g, p)
             S == {w \in Nat : \E g : Right(g, w)}
             next(g) == [p \in 0 .. N |-> Counted(f, g, p)]
  <1>1. N \in Nat
    OBVIOUS
  <1>2. ASSUME NEW g, NEW w \in Nat, Right(g, w)
        PROVE  Right(next(g), w + 1)
    <2> SUFFICES ASSUME NEW p \in 0 .. N, N - p <= w + 1
                 PROVE  next(g)[p] = Counted(f, next(g), p)
      OBVIOUS
    <2>1. ASSUME NEW q \in 0 .. N, p < q PROVE g[q] = next(g)[q]
      <3>1. N - q <= w
        BY <1>1, <2>1
      <3> QED BY <1>2, <3>1
    <2>2. Counted(f, g, p) = Counted(f, next(g), p)
      BY <2>1, CountedBehind
    <2> QED BY <2>2
  <1>3. 0 \in S
    <2>1. Right(next(f), 0)
      <3> SUFFICES ASSUME NEW p \in 0 .. N, N - p <= 0
                   PROVE  next(f)[p] = Counted(f, next(f), p)
        OBVIOUS
      <3>1. p = N
        BY <1>1
      <3> QED BY <3>1, NoneAtEnd DEF Counted
    <2> QED BY <2>1
  <1>4. ASSUME NEW w \in 0 .. N, w \in S PROVE w + 1 \in S
    <2>1. PICK g : Right(g, w)
      BY <1>4
    <2>2. Right(next(g), w + 1)
      BY <1>2, <2>1
    <2> HIDE DEF Right, next
    <2> QED BY <2>2
  <1>5. N \in S
    <2> HIDE DEF S, N
    <2> QED BY <1>1, <1>3, <1>4, UpTo
  <1>6. PICK g : Right(g, N)
    BY <1>5
  <1>7. Right(next(g), N + 1)
    BY <1>1, <1>2, <1>6
  <1>8. \A p \in 0 .. N : next(g)[p] = Counted(f, next(g), p)
    BY <1>1, <1>7
  <1>9. next(g) = [p \in 0 .. N |-> next(g)[p]]
    OBVIOUS
  <1> HIDE DEF next
  <1>10. next(g) = [p \in 0 .. N |-> Counted(f, next(g), p)]
    BY <1>8, <1>9
  <1> QED BY <1>10

\* The count from each position: one more than from behind the block there.
LEMMA CounterFacts ==
  ASSUME NEW f \in Seq(Byte)
  PROVE  \A p \in 0 .. Len(f) : /\ Counter(f)[p] \in Nat
                                /\ Counter(f)[p] = Counted(f, Counter(f), p)
  <1> DEFINE N == Len(f)
             g == Counter(f)
             S == {w \in Nat : \A p \in 0 .. N : N - p <= w => g[p] \in Nat}
  <1>1. g = [p \in 0 .. N |-> Counted(f, g, p)]
    BY CounterExists DEF Counter
  <1> HIDE DEF g
  <1>2. \A p \in 0 .. N : g[p] = Counted(f, g, p)
    BY <1>1
  <1>3. N \in Nat
    OBVIOUS
  <1>4. 0 \in S
    <2> SUFFICES ASSUME NEW p \in 0 .. N, N - p <= 0 PROVE g[p] \in Nat
      OBVIOUS
    <2>1. p = N
      BY <1>3
    <2> QED BY <1>2, <2>1, NoneAtEnd DEF Counted
  <1>5. ASSUME NEW w \in 0 .. N, w \in S PROVE w + 1 \in S
    <2> SUFFICES ASSUME NEW p \in 0 .. N, N - p <= w + 1 PROVE g[p] \in Nat
      BY <1>3
    <2>1. CASE Taken(f, p)
      <3> DEFINE q == Behind(f, p)
      <3>1. q \in 0 .. N /\ p < q
        BY <2>1, BehindFacts
      <3>2. g[p] = 1 + g[q]
        BY <1>2, <2>1 DEF Counted
      <3> HIDE DEF q
      <3>3. N - q <= w
        BY <1>3, <3>1
      <3>4. g[q] \in Nat
        BY <1>5, <3>1, <3>3
      <3> QED BY <3>2, <3>4
    <2>2. CASE ~Taken(f, p)
      BY <1>2, <2>2 DEF Counted
    <2> QED BY <2>1, <2>2
  <1>6. N \in S
    <2> HIDE DEF S, N
    <2> QED BY <1>3, <1>4, <1>5, UpTo
  <1>7. \A p \in 0 .. N : g[p] \in Nat
    BY <1>3, <1>6
  <1> QED BY <1>2, <1>7 DEF g

-----------------------------------------------------------------------------
\* Where the replay is in the files.

\* Once the replay scans a file, the blocks it has taken and those that are still
\* to come make up the count of the file.
ScanInv ==
    /\ ii \in 1 .. Len(files) + 1 /\ seqn \in Nat
    /\ phase \in {"open", "scan", "send", "done", "exited"}
    /\ phase \in {"scan", "send"} =>
          /\ ii \in 1 .. Len(files) /\ pos \in 0 .. Len(files[ii])
          /\ BlockCount(files[ii]) = seqn + Counter(files[ii])[pos]
    /\ phase = "send" => seqn > 0

LEMMA FilesFacts ==
  ASSUME ProcessInv
  PROVE  /\ files \in Seq(Seq(Byte)) /\ Len(files) \in Nat /\ DOMAIN files = 1 .. Len(files)
         /\ \A f \in 1 .. Len(files) : files[f] \in Seq(Byte) /\ BlockCount(files[f]) \in Nat
  <1>1. files \in Seq(Seq(Byte))
    BY PipelineAssumption DEF ProcessInv
  <1>2. Len(files) \in Nat /\ DOMAIN files = 1 .. Len(files)
    BY <1>1
  <1>3. ASSUME NEW f \in 1 .. Len(files)
        PROVE  files[f] \in Seq(Byte) /\ BlockCount(files[f]) \in Nat
    <2>1. files[f] \in Seq(Byte)
      BY <1>1
    <2>2. Len(files[f]) \in Nat
      BY <2>1
    <2>3. 0 \in 0 .. Len(files[f])
      BY <2>2
    <2> QED BY <2>1, <2>3, CounterFacts, CountIsCounter
  <1> QED BY <1>1, <1>2, <1>3

\* The replay takes the blocks that are counted.
LEMMA TakesCounted ==
  /\ Replay!Takeable <=> Taken(files[ii], pos)
  /\ Replay!Take => pos' = Behind(files[ii], pos)
  BY DEF Replay!Takeable, Replay!Take, Replay!Whole, Replay!LengthAt, Replay!LengthField,
         Replay!LengthBytes, Taken, Behind, Whole, LengthAt, LengthField, LengthBytes

LEMMA InitScan == Init => ScanInv
  <1> SUFFICES ASSUME Init PROVE ScanInv
    OBVIOUS
  <1>1. ii = 1 /\ seqn = 0 /\ phase = "open"
    BY DEF Init, Replay!Init
  <1>2. Len(files) \in Nat
    BY InitProcess, FilesFacts
  <1> QED BY <1>1, <1>2 DEF ScanInv

LEMMA TakeScan ==
  ASSUME ProcessInv, ScanInv, Replay!Take
  PROVE  ScanInv'
  <1> DEFINE f == files[ii]
  <1>1. /\ phase = "scan" /\ phase' = "send" /\ seqn' = seqn + 1
        /\ UNCHANGED <<files, ii>> /\ Taken(f, pos) /\ pos' = Behind(f, pos)
    BY TakesCounted DEF Replay!Take
  <1>2. /\ ii \in 1 .. Len(files) /\ pos \in 0 .. Len(f) /\ seqn \in Nat
        /\ BlockCount(f) = seqn + Counter(f)[pos]
    BY <1>1 DEF ScanInv
  <1>3. f \in Seq(Byte) /\ Len(files) \in Nat
    BY <1>2, FilesFacts
  <1>4. Behind(f, pos) \in 0 .. Len(f)
    BY <1>1, <1>2, <1>3, BehindFacts
  <1>5. Counter(f)[pos] = 1 + Counter(f)[Behind(f, pos)] /\ Counter(f)[Behind(f, pos)] \in Nat
    BY <1>1, <1>2, <1>3, <1>4, CounterFacts DEF Counted
  <1> HIDE DEF f
  <1>6. BlockCount(f) = seqn' + Counter(f)[pos']
    <2> DEFINE c == Counter(f)[Behind(f, pos)]
    <2>1. Counter(f)[pos'] = c /\ seqn' = seqn + 1
      BY <1>1
    <2>2. BlockCount(f) = seqn + (1 + c) /\ c \in Nat /\ seqn \in Nat
      BY <1>2, <1>5
    <2> HIDE DEF c
    <2>3. BlockCount(f) = (seqn + 1) + c
      BY <2>2
    <2> QED BY <2>1, <2>3
  <1>7. f' = f
    BY <1>1 DEF f
  <1>8. ii \in 1 .. Len(files) + 1
    BY <1>2, <1>3
  <1> QED BY <1>1, <1>2, <1>4, <1>6, <1>7, <1>8 DEF ScanInv, f

LEMMA NextScan == ProcessInv /\ ScanInv /\ [Next]_vars => ScanInv'
  <1> SUFFICES ASSUME ProcessInv, ScanInv, [Next]_vars PROVE ScanInv'
    OBVIOUS
  <1>1. Len(files) \in Nat
    BY FilesFacts
  <1>2. CASE UNCHANGED <<files, ii, pos, seqn, phase>>
    BY <1>2 DEF ScanInv
  <1>3. CASE Replay!Open
    <2>1. /\ ii <= Len(files) /\ phase' = "scan" /\ pos' = 0 /\ seqn' = 0 /\ UNCHANGED <<files, ii>>
      BY <1>3 DEF Replay!Open
    <2>2. ii \in 1 .. Len(files)
      BY <1>1, <2>1 DEF ScanInv
    <2>3. files[ii] \in Seq(Byte) /\ BlockCount(files[ii]) \in Nat
      BY <2>2, FilesFacts
    <2>4. 0 \in 0 .. Len(files[ii]) /\ BlockCount(files[ii]) = 0 + Counter(files[ii])[0]
      BY <2>3, CountIsCounter
    <2> QED BY <2>1, <2>2, <2>4 DEF ScanInv
  <1>4. CASE Replay!Take
    BY <1>4, TakeScan
  <1>5. CASE Replay!Deliver \/ Replay!Drop
    BY <1>5 DEF Replay!Deliver, Replay!Drop, ScanInv
  <1>6. CASE Replay!Leave
    <2>1. /\ phase = "scan" /\ ii' = ii + 1 /\ phase' = "open" /\ UNCHANGED <<files, seqn>>
      BY <1>6 DEF Replay!Leave
    <2>2. ii' \in 1 .. Len(files) + 1
      BY <1>1, <2>1 DEF ScanInv
    <2> QED BY <2>1, <2>2 DEF ScanInv
  <1>7. CASE Replay!Stop
    BY <1>7 DEF Replay!Stop, ScanInv
  <1>8. CASE ReplayAgain
    <2>1. ii' = 1 /\ seqn' = 0 /\ phase' = "open" /\ files' = files
      BY <1>8 DEF ReplayAgain
    <2> QED BY <1>1, <2>1 DEF ScanInv
  <1>9. \/ UNCHANGED <<files, ii, pos, seqn, phase>> \/ Replay!Open \/ Replay!Take
        \/ Replay!Deliver \/ Replay!Drop \/ Replay!Leave \/ Replay!Stop \/ ReplayAgain
    BY DEF Next, SmtRecv, SmtFep, Read, Deliver, Drop, Receive, NotLogged, BeginLog, OpenLog,
           LogFails, CloseLog, Handle, Hang, Stop, Start, Tick, Step, recvVars, vars
  <1> QED BY <1>2, <1>3, <1>4, <1>5, <1>6, <1>7, <1>8, <1>9

-----------------------------------------------------------------------------
\* The messages on their way to smtfep.

Ids == [run : Nat, file : Nat, seqn : Nat]

\* The last message of the replay that was sent or lost.
Cursor == [run |-> run, file |-> ii,
           seqn |-> IF phase = "scan" THEN seqn ELSE IF phase = "send" THEN seqn - 1 ELSE 0]

\* The message in hand, and those in the socket behind it.
Ahead(i) == IF i = 0 THEN Id(hand) ELSE Id(inbox[i])

\* Nothing of b's replay is between a and b.
Adjacent(a, b) == ~ \E x \in Feed!MessagesOf(b.run) : Feed!Before(a, x) /\ Feed!Before(x, b)

\* What is in hand and in the socket is in the order of the files and not ahead
\* of the replay.  In the socket nothing is left out; in front of it, or between
\* smtfep and the replay, only when smtfep was away and has not got on since.
FeedInv ==
    /\ Id(hand) \in Ids
    /\ \A i \in 1 .. Len(inbox) :
          /\ Ahead(i).run \in 1 .. run /\ Ahead(i) \in Feed!MessagesOf(Ahead(i).run)
          /\ Feed!Before(Ahead(i - 1), Ahead(i))
          /\ i # 1 \/ ~away => Adjacent(Ahead(i - 1), Ahead(i))
    /\ \A i \in 0 .. Len(inbox) : Ahead(i) = Cursor \/ Feed!Before(Ahead(i), Cursor)
    /\ inbox # << >> \/ ~away =>
          \A x \in Feed!MessagesOf(run) : Feed!Before(Ahead(Len(inbox)), x) => Feed!Before(Cursor, x)
    /\ status = "down" => inbox = << >> /\ away

\* The messages of a replay.
LEMMA MessageFacts ==
  ASSUME ProcessInv, NEW r \in Nat
  PROVE  /\ \A x \in Feed!MessagesOf(r) :
              /\ x \in Ids /\ x.run = r /\ x.file \in 1 .. Len(files)
              /\ x.seqn \in 1 .. BlockCount(files[x.file])
         /\ \A f \in 1 .. Len(files) : \A n \in 1 .. BlockCount(files[f]) :
              [run |-> r, file |-> f, seqn |-> n] \in Feed!MessagesOf(r)
  <1> DEFINE counts == [f \in DOMAIN files |-> BlockCount(files[f])]
  <1>1. Feed!MessagesOf(r) = UNION {{[run |-> r, file |-> f, seqn |-> n] : n \in 1 .. counts[f]} :
                                      f \in DOMAIN counts}
    BY DEF Feed!MessagesOf
  <1>2. DOMAIN counts = 1 .. Len(files) /\ \A f \in 1 .. Len(files) : counts[f] = BlockCount(files[f])
    BY FilesFacts
  <1>3. \A f \in 1 .. Len(files) : BlockCount(files[f]) \in Nat
    BY FilesFacts
  <1> HIDE DEF counts
  <1>4. ASSUME NEW x \in Feed!MessagesOf(r)
        PROVE  /\ x \in Ids /\ x.run = r /\ x.file \in 1 .. Len(files)
               /\ x.seqn \in 1 .. BlockCount(files[x.file])
    <2>0. PICK f \in 1 .. Len(files) : \E n \in 1 .. BlockCount(files[f]) :
                                         x = [run |-> r, file |-> f, seqn |-> n]
      BY <1>1, <1>2
    <2>1. PICK n \in 1 .. BlockCount(files[f]) : x = [run |-> r, file |-> f, seqn |-> n]
      BY <2>0
    <2>2. x.run = r /\ x.file = f /\ x.seqn = n /\ f \in Nat /\ n \in Nat
      BY <1>3, <2>1
    <2>3. x \in Ids
      BY <2>1, <2>2 DEF Ids
    <2> QED BY <2>2, <2>3
  <1>5. ASSUME NEW f \in 1 .. Len(files), NEW n \in 1 .. BlockCount(files[f])
        PROVE  [run |-> r, file |-> f, seqn |-> n] \in Feed!MessagesOf(r)
    BY <1>1, <1>2
  <1> QED BY <1>4, <1>5

LEMMA BeforeFacts ==
  /\ \A a \in Ids : ~Feed!Before(a, a)
  /\ \A a, b, c \in Ids : Feed!Before(a, b) /\ Feed!Before(b, c) => Feed!Before(a, c)
  BY DEF Feed!Before, Ids

LEMMA CursorTyped ==
  ASSUME ProcessInv, ScanInv
  PROVE  Cursor \in Ids /\ run \in Nat
  <1>1. run \in Nat /\ ii \in Nat /\ seqn \in Nat /\ (phase = "send" => seqn - 1 \in Nat)
    BY FilesFacts, PipelineAssumption DEF ProcessInv, ScanInv
  <1> QED BY <1>1 DEF Cursor, Ids

\* What is in the socket are messages, and of this replay or an earlier one.
LEMMA AheadTyped ==
  ASSUME ProcessInv, FeedInv, NEW i \in 0 .. Len(inbox)
  PROVE  Ahead(i) \in Ids
  <1>1. CASE i = 0
    BY <1>1 DEF FeedInv, Ahead
  <1>2. CASE i # 0
    <2>1. i \in 1 .. Len(inbox)
      BY <1>2
    <2>2. Ahead(i).run \in 1 .. run /\ Ahead(i) \in Feed!MessagesOf(Ahead(i).run)
      BY <2>1 DEF FeedInv
    <2>3. Ahead(i).run \in Nat
      BY <2>2
    <2> QED BY <2>2, <2>3, MessageFacts
  <1> QED BY <1>1, <1>2

\* A step of the replay that puts nothing into the socket: the cursor stays or
\* goes on, over nothing that smtfep would miss.
LEMMA CursorMoves ==
  ASSUME ProcessInv, ScanInv, FeedInv, Cursor' \in Ids,
         UNCHANGED <<files, hand, inbox, away, status>>, run' \in Nat, run <= run',
         Cursor' = Cursor \/ Feed!Before(Cursor, Cursor'),
         inbox # << >> \/ ~away =>
            \A x \in Feed!MessagesOf(run') :
               Feed!Before(Ahead(Len(inbox)), x) => Feed!Before(Cursor', x)
  PROVE  FeedInv'
  <1>1. /\ \A i : Ahead(i)' = Ahead(i)
        /\ \A r : Feed!MessagesOf(r)' = Feed!MessagesOf(r)
        /\ Len(inbox)' = Len(inbox) /\ Len(inbox) \in Nat
    BY QueueFacts DEF Ahead, Id, Feed!MessagesOf, ProcessInv
  <1>2. Cursor \in Ids /\ run \in Nat
    BY CursorTyped
  <1>3. ASSUME NEW i \in 0 .. Len(inbox)
        PROVE  Ahead(i) = Cursor' \/ Feed!Before(Ahead(i), Cursor')
    <2>1. Ahead(i) \in Ids /\ (Ahead(i) = Cursor \/ Feed!Before(Ahead(i), Cursor))
      BY AheadTyped DEF FeedInv
    <2> QED BY <1>2, <2>1, BeforeFacts
  <1>4. \A i \in 1 .. Len(inbox) : Ahead(i).run \in 1 .. run'
    BY <1>2 DEF FeedInv
  <1>5. \A i \in 1 .. Len(inbox) :
          /\ Ahead(i) \in Feed!MessagesOf(Ahead(i).run)
          /\ Feed!Before(Ahead(i - 1), Ahead(i))
          /\ i # 1 \/ ~away => Adjacent(Ahead(i - 1), Ahead(i))
    BY DEF FeedInv
  <1>6. Id(hand)' = Id(hand) /\ Id(hand) \in Ids /\ (status = "down" => inbox = << >> /\ away)
    BY DEF FeedInv, Id
  <1>7. \A i \in 1 .. Len(inbox) : (Adjacent(Ahead(i - 1), Ahead(i)))' <=> Adjacent(Ahead(i - 1), Ahead(i))
    BY <1>1 DEF Adjacent, Feed!Before
  <1>8. \A i \in 1 .. Len(inbox) : (Feed!Before(Ahead(i - 1), Ahead(i)))' <=> Feed!Before(Ahead(i - 1), Ahead(i))
    BY <1>1 DEF Feed!Before
  <1>9. /\ \A i : (Ahead(i) = Cursor)' <=> Ahead(i) = Cursor'
        /\ \A i : (Feed!Before(Ahead(i), Cursor))' <=> Feed!Before(Ahead(i), Cursor')
        /\ \A x : (Feed!Before(Ahead(Len(inbox)), x))' <=> Feed!Before(Ahead(Len(inbox)), x)
        /\ \A x : (Feed!Before(Cursor, x))' <=> Feed!Before(Cursor', x)
    BY <1>1 DEF Feed!Before
  <1> QED BY <1>1, <1>3, <1>4, <1>5, <1>6, <1>7, <1>8, <1>9 DEF FeedInv

LEMMA CursorStays ==
  ASSUME ProcessInv, ScanInv, FeedInv, UNCHANGED <<files, run, hand, inbox, away>>,
         Cursor' = Cursor, status' = "down" => status = "down"
  PROVE  FeedInv'
  <1>1. /\ \A i : Ahead(i)' = Ahead(i)
        /\ \A r : Feed!MessagesOf(r)' = Feed!MessagesOf(r)
    BY DEF Ahead, Id, Feed!MessagesOf
  <1>2. Id(hand)' = Id(hand)
    BY DEF Id
  <1>3. \A i : /\ (Adjacent(Ahead(i - 1), Ahead(i)))' <=> Adjacent(Ahead(i - 1), Ahead(i))
               /\ (Feed!Before(Ahead(i - 1), Ahead(i)))' <=> Feed!Before(Ahead(i - 1), Ahead(i))
               /\ (Feed!Before(Ahead(i), Cursor))' <=> Feed!Before(Ahead(i), Cursor)
    BY <1>1 DEF Adjacent, Feed!Before
  <1>4. \A x : /\ (Feed!Before(Ahead(Len(inbox)), x))' <=> Feed!Before(Ahead(Len(inbox)), x)
               /\ (Feed!Before(Cursor, x))' <=> Feed!Before(Cursor, x)
    BY <1>1 DEF Feed!Before
  <1> QED BY <1>1, <1>2, <1>3, <1>4 DEF FeedInv

\* The socket as a queue.
LEMMA QueueItems ==
  ASSUME NEW s, IsSeq(s), NEW e
  PROVE  /\ \A i \in 1 .. Len(s) : Append(s, e)[i] = s[i]
         /\ Append(s, e)[Len(s) + 1] = e
         /\ s # << >> => Head(s) = s[1] /\ \A i \in 1 .. Len(s) - 1 : Tail(s)[i] = s[i + 1]
  <1>1. PICK S : s \in Seq(S)
    BY DEF IsSeq
  <1>2. s \in Seq(S \cup {e})
    <2>1. s \in [1 .. Len(s) -> S] /\ Len(s) \in Nat
      BY <1>1
    <2> QED BY <2>1
  <1>3. /\ \A i \in 1 .. Len(s) : Append(s, e)[i] = s[i]
        /\ Append(s, e)[Len(s) + 1] = e
    BY <1>2
  <1>4. s # << >> => Head(s) = s[1] /\ \A i \in 1 .. Len(s) - 1 : Tail(s)[i] = s[i + 1]
    BY <1>1
  <1> QED BY <1>3, <1>4

\* The message that is sent is the next of the replay, right behind the cursor.
LEMMA SentFacts ==
  ASSUME ProcessInv, ScanInv, phase = "send", phase' = "scan", UNCHANGED <<run, ii, seqn>>
  PROVE  /\ Cursor' = Id(Message) /\ Cursor' \in Feed!MessagesOf(run) /\ Cursor' \in Ids
         /\ Cursor'.run = run /\ Feed!Before(Cursor, Cursor')
         /\ \A x \in Feed!MessagesOf(run) : Feed!Before(Cursor, x) => ~Feed!Before(x, Cursor')
  <1>1. Cursor' = [run |-> run, file |-> ii, seqn |-> seqn]
    BY DEF Cursor
  <1>2. Id(Message) = [run |-> run, file |-> ii, seqn |-> seqn]
    BY DEF Id, Message
  <1>3. Cursor = [run |-> run, file |-> ii, seqn |-> seqn - 1]
    BY DEF Cursor
  <1>4. /\ run \in Nat /\ ii \in 1 .. Len(files) /\ seqn \in Nat \ {0}
        /\ pos \in 0 .. Len(files[ii]) /\ BlockCount(files[ii]) = seqn + Counter(files[ii])[pos]
    BY CursorTyped DEF ScanInv
  <1>5. Counter(files[ii])[pos] \in Nat /\ ii \in Nat
    BY <1>4, FilesFacts, CounterFacts
  <1>6. seqn \in 1 .. BlockCount(files[ii])
    BY <1>4, <1>5
  <1>7. Cursor' \in Feed!MessagesOf(run)
    BY <1>1, <1>4, <1>6, MessageFacts
  <1>8. /\ Cursor'.run = run /\ Cursor'.file = ii /\ Cursor'.seqn = seqn
        /\ Cursor.run = run /\ Cursor.file = ii /\ Cursor.seqn = seqn - 1
    BY <1>1, <1>3
  <1>9. Feed!Before(Cursor, Cursor')
    BY <1>4, <1>8 DEF Feed!Before
  <1>10. ASSUME NEW x \in Feed!MessagesOf(run), Feed!Before(Cursor, x) PROVE ~Feed!Before(x, Cursor')
    <2>1. x \in Ids
      BY <1>4, MessageFacts
    <2>2. x.run \in Nat /\ x.file \in Nat /\ x.seqn \in Nat
      BY <2>1 DEF Ids
    <2>3. \/ run < x.run
          \/ run = x.run /\ ii < x.file
          \/ run = x.run /\ ii = x.file /\ seqn - 1 < x.seqn
      BY <1>8, <1>10 DEF Feed!Before
    <2>4. Feed!Before(x, Cursor') =>
             \/ x.run < run
             \/ x.run = run /\ x.file < ii
             \/ x.run = run /\ x.file = ii /\ x.seqn < seqn
      BY <1>8 DEF Feed!Before
    <2> QED BY <1>4, <1>5, <2>2, <2>3, <2>4
  <1> QED BY <1>1, <1>2, <1>4, <1>7, <1>8, <1>9, <1>10, MessageFacts

LEMMA DeliverKeeps ==
  ASSUME ProcessInv, ScanInv, FeedInv, Deliver
  PROVE  FeedInv'
  <1>0. PICK N, m : N = Len(inbox) /\ m = Cursor'
    OBVIOUS
  <1>1. /\ phase = "send" /\ phase' = "scan" /\ status # "down"
        /\ UNCHANGED <<run, files, ii, seqn, hand, away, status>>
        /\ inbox' = Append(inbox, Message)
    BY DEF Deliver, Replay!Deliver, fepVars
  <1>2. /\ m = Id(Message) /\ m \in Feed!MessagesOf(run) /\ m \in Ids
        /\ m.run = run /\ Feed!Before(Cursor, m)
        /\ \A x \in Feed!MessagesOf(run) : Feed!Before(Cursor, x) => ~Feed!Before(x, m)
    BY <1>0, <1>1, SentFacts
  <1>3. N \in Nat /\ Len(inbox') = N + 1 /\ IsSeq(inbox)
    BY <1>0, <1>1, QueueFacts DEF ProcessInv
  <1>4. \A i \in 0 .. N : Ahead(i)' = Ahead(i)
    <2>1. \A i \in 1 .. N : inbox'[i] = inbox[i]
      BY <1>0, <1>1, <1>3, QueueItems
    <2>2. \A i \in 0 .. N : i = 0 \/ i \in 1 .. N
      BY <1>0, <1>3
    <2> QED BY <1>0, <1>1, <2>1, <2>2 DEF Ahead, Id
  <1>5. Ahead(N + 1)' = m
    <2>1. inbox'[N + 1] = Message /\ N + 1 # 0
      BY <1>0, <1>1, <1>3, QueueItems
    <2>2. Ahead(N + 1)' = Id(inbox'[N + 1])
      BY <2>1 DEF Ahead, Id
    <2> QED BY <1>0, <1>2, <2>1, <2>2
  <1>6. \A r : Feed!MessagesOf(r)' = Feed!MessagesOf(r)
    BY <1>0, <1>1 DEF Feed!MessagesOf
  <1>7. Cursor \in Ids /\ run \in 1 .. run
    <2>1. Cursor \in Ids /\ run \in 1 .. MaxRuns
      BY CursorTyped DEF ProcessInv
    <2> QED BY <2>1, PipelineAssumption
  <1>8. \A i \in 0 .. N : Feed!Before(Ahead(i), m)
    <2> SUFFICES ASSUME NEW i \in 0 .. N PROVE Feed!Before(Ahead(i), m)
      OBVIOUS
    <2>1. Ahead(i) \in Ids /\ (Ahead(i) = Cursor \/ Feed!Before(Ahead(i), Cursor))
      BY <1>0, AheadTyped DEF FeedInv
    <2> QED BY <1>0, <1>2, <1>7, <2>1, BeforeFacts
  <1>9. N + 1 # 1 \/ ~away => Adjacent(Ahead(N), m)
    <2> SUFFICES ASSUME N + 1 # 1 \/ ~away PROVE Adjacent(Ahead(N), m)
      OBVIOUS
    <2>1. inbox # << >> \/ ~away
      <3>1. inbox = << >> => Len(inbox) = 0
        OBVIOUS
      <3> QED BY <1>0, <1>3, <3>1
    <2>2. \A x \in Feed!MessagesOf(run) : Feed!Before(Ahead(N), x) => Feed!Before(Cursor, x)
      BY <1>0, <2>1 DEF FeedInv
    <2> QED BY <1>0, <1>2, <2>2 DEF Adjacent
  <1>10. ASSUME NEW i \in 1 .. N + 1
         PROVE  /\ Ahead(i)'.run \in 1 .. run /\ Ahead(i)' \in Feed!MessagesOf(Ahead(i)'.run)
                /\ Feed!Before(Ahead(i - 1)', Ahead(i)')
                /\ i # 1 \/ ~away => Adjacent(Ahead(i - 1)', Ahead(i)')
    <2>1. CASE i \in 1 .. N
      <3>1. i \in 0 .. N /\ i - 1 \in 0 .. N
        BY <1>0, <1>3, <2>1
      <3>2. Ahead(i)' = Ahead(i) /\ Ahead(i - 1)' = Ahead(i - 1)
        BY <1>0, <1>4, <3>1
      <3> QED BY <1>0, <2>1, <3>2 DEF FeedInv
    <2>2. CASE i = N + 1
      <3>1. i - 1 = N /\ N \in 0 .. N
        BY <1>0, <1>3, <2>2
      <3>2. Ahead(i)' = m /\ Ahead(i - 1)' = Ahead(N)
        BY <1>0, <1>4, <1>5, <2>2, <3>1
      <3> QED BY <1>0, <1>2, <1>7, <1>8, <1>9, <2>2, <3>1, <3>2
    <2> QED BY <1>0, <1>3, <2>1, <2>2
  <1>11. \A i \in 0 .. N + 1 : Ahead(i)' = m \/ Feed!Before(Ahead(i)', m)
    <2>1. \A i \in 0 .. N + 1 : i \in 0 .. N \/ i = N + 1
      BY <1>0, <1>3
    <2> QED BY <1>0, <1>4, <1>5, <1>8, <2>1
  <1>12. Ahead(Len(inbox))' = m
    <2>1. Ahead(Len(inbox))' = IF Len(inbox') = 0 THEN Id(hand') ELSE Id(inbox'[Len(inbox')])
      BY DEF Ahead, Id
    <2>2. Ahead(N + 1)' = IF N + 1 = 0 THEN Id(hand') ELSE Id(inbox'[N + 1])
      BY DEF Ahead, Id
    <2> QED BY <1>0, <1>3, <1>5, <2>1, <2>2
  <1>13. /\ \A i : /\ (Adjacent(Ahead(i - 1), Ahead(i)))' <=> Adjacent(Ahead(i - 1)', Ahead(i)')
                   /\ (Feed!Before(Ahead(i - 1), Ahead(i)))' <=> Feed!Before(Ahead(i - 1)', Ahead(i)')
                   /\ (Feed!Before(Ahead(i), Cursor))' <=> Feed!Before(Ahead(i)', m)
         /\ \A x : /\ (Feed!Before(Ahead(Len(inbox)), x))' <=> Feed!Before(Ahead(Len(inbox))', x)
                   /\ (Feed!Before(Cursor, x))' <=> Feed!Before(m, x)
    BY <1>0, <1>6 DEF Adjacent, Feed!Before
  <1>14. Id(hand)' \in Ids /\ status' # "down"
    BY <1>0, <1>1 DEF FeedInv, Id
  <1> QED BY <1>0, <1>1, <1>3, <1>6, <1>10, <1>11, <1>12, <1>13, <1>14 DEF FeedInv

LEMMA DropKeeps ==
  ASSUME ProcessInv, ScanInv, FeedInv, Drop
  PROVE  FeedInv'
  <1>1. /\ phase = "send" /\ phase' = "scan" /\ status = "down"
        /\ UNCHANGED <<run, files, ii, seqn, hand, inbox, away, status>>
    BY DEF Drop, Replay!Drop, fepVars
  <1>2. Cursor' \in Ids /\ Feed!Before(Cursor, Cursor')
    BY <1>1, SentFacts
  <1>3. inbox = << >> /\ away
    BY <1>1 DEF FeedInv
  <1>4. run' \in Nat /\ run <= run'
    BY <1>1, CursorTyped
  <1> QED BY <1>1, <1>2, <1>3, <1>4, CursorMoves

\* A file is left when all its messages are through.
LEMMA LeaveKeeps ==
  ASSUME ProcessInv, ScanInv, FeedInv, Replay!Leave, UNCHANGED <<fepVars, run, inbox>>
  PROVE  FeedInv'
  <1>1. /\ phase = "scan" /\ phase' = "open" /\ ii' = ii + 1 /\ ~Taken(files[ii], pos)
        /\ UNCHANGED <<run, files, hand, inbox, away, status>>
    BY TakesCounted DEF Replay!Leave, fepVars
  <1>2. /\ run \in Nat /\ ii \in 1 .. Len(files) /\ seqn \in Nat
        /\ pos \in 0 .. Len(files[ii]) /\ BlockCount(files[ii]) = seqn + Counter(files[ii])[pos]
    BY <1>1, CursorTyped DEF ScanInv
  <1>3. Counter(files[ii])[pos] = 0 /\ ii \in Nat
    BY <1>1, <1>2, FilesFacts, CounterFacts DEF Counted
  <1>4. BlockCount(files[ii]) = seqn
    BY <1>2, <1>3
  <1>5. /\ Cursor = [run |-> run, file |-> ii, seqn |-> seqn]
        /\ Cursor' = [run |-> run, file |-> ii + 1, seqn |-> 0]
    BY <1>1 DEF Cursor
  <1>6. Cursor' \in Ids
    BY <1>2, <1>3, <1>5 DEF Ids
  <1>7. Feed!Before(Cursor, Cursor')
    BY <1>2, <1>3, <1>5 DEF Feed!Before
  <1>8. ASSUME NEW x \in Feed!MessagesOf(run), Feed!Before(Cursor, x) PROVE Feed!Before(Cursor', x)
    <2>1. /\ x \in Ids /\ x.run = run /\ x.file \in 1 .. Len(files)
          /\ x.seqn \in 1 .. BlockCount(files[x.file])
      BY <1>2, MessageFacts
    <2>2. x.file \in Nat /\ x.seqn \in Nat /\ x.seqn > 0
      BY <2>1 DEF Ids
    <2>3. \/ x.file > ii
          \/ x.file = ii /\ x.seqn > seqn
      BY <1>2, <1>3, <1>5, <1>8, <2>1, <2>2 DEF Feed!Before
    <2>4. x.file > ii
      <3>1. CASE x.file = ii
        <4>1. x.seqn <= seqn
          BY <1>4, <2>1, <3>1
        <4> QED BY <1>2, <2>2, <2>3, <3>1, <4>1
      <3> QED BY <2>3, <3>1
    <2>5. x.file > ii + 1 \/ (x.file = ii + 1 /\ x.seqn > 0)
      BY <1>3, <2>2, <2>4
    <2> QED BY <1>5, <2>1, <2>5 DEF Feed!Before
  <1>9. run' \in Nat /\ run <= run' /\ Feed!MessagesOf(run') = Feed!MessagesOf(run)
    BY <1>1, <1>2
  <1>10. inbox # << >> \/ ~away =>
           \A x \in Feed!MessagesOf(run') :
              Feed!Before(Ahead(Len(inbox)), x) => Feed!Before(Cursor', x)
    BY <1>8, <1>9 DEF FeedInv
  <1> QED BY <1>1, <1>6, <1>7, <1>9, <1>10, CursorMoves

\* A new replay begins in front of all its messages.
LEMMA AgainKeeps ==
  ASSUME ProcessInv, ScanInv, FeedInv, ReplayAgain
  PROVE  FeedInv'
  <1>1. /\ run' = run + 1 /\ ii' = 1 /\ seqn' = 0 /\ phase' = "open"
        /\ UNCHANGED <<files, hand, inbox, away, status>>
    BY DEF ReplayAgain, fepVars
  <1>2. Cursor \in Ids /\ Cursor.run = run /\ run \in Nat
    BY CursorTyped DEF Cursor
  <1>3. Cursor' = [run |-> run + 1, file |-> 1, seqn |-> 0]
    BY <1>1 DEF Cursor
  <1>4. Cursor' \in Ids
    BY <1>2, <1>3 DEF Ids
  <1>5. Feed!Before(Cursor, Cursor')
    BY <1>2, <1>3 DEF Feed!Before
  <1>6. run' \in Nat /\ run <= run'
    BY <1>1, <1>2
  <1>7. ASSUME NEW x \in Feed!MessagesOf(run') PROVE Feed!Before(Cursor', x)
    <2>1. /\ x \in Ids /\ x.run = run + 1 /\ x.file \in 1 .. Len(files)
          /\ x.seqn \in 1 .. BlockCount(files[x.file])
      BY <1>1, <1>6, MessageFacts
    <2>2. x.file \in Nat /\ x.file >= 1 /\ x.seqn \in Nat /\ x.seqn > 0
      BY <2>1 DEF Ids
    <2>3. x.file > 1 \/ (x.file = 1 /\ x.seqn > 0)
      BY <2>2
    <2> QED BY <1>3, <2>1, <2>3 DEF Feed!Before
  <1> QED BY <1>1, <1>4, <1>5, <1>6, <1>7, CursorMoves

\* The first message in the socket becomes the one in hand.
LEMMA ReceiveKeeps ==
  ASSUME ProcessInv, ScanInv, FeedInv, Receive
  PROVE  FeedInv'
  <1>0. PICK N : N = Len(inbox)
    OBVIOUS
  <1>1. /\ status = "up" /\ inbox # << >> /\ hand' = Head(inbox) /\ inbox' = Tail(inbox)
        /\ away' = FALSE /\ UNCHANGED <<files, run, ii, phase, seqn, status>>
    BY DEF Receive, recvVars
  <1>2. N \in Nat \ {0} /\ Len(inbox') = N - 1 /\ IsSeq(inbox)
    <2>1. IsSeq(inbox)
      BY DEF ProcessInv
    <2>2. PICK S : inbox \in Seq(S)
      BY <2>1 DEF IsSeq
    <2>3. Len(inbox) # 0
      BY <1>1, <2>2
    <2> QED BY <1>0, <1>1, <2>1, <2>3, QueueFacts
  <1>3. \A i \in 0 .. N - 1 : Ahead(i)' = Ahead(i + 1)
    <2>1. Head(inbox) = inbox[1] /\ \A i \in 1 .. N - 1 : Tail(inbox)[i] = inbox[i + 1]
      BY <1>0, <1>1, <1>2, QueueItems
    <2>2. Ahead(0)' = Ahead(0 + 1)
      BY <1>1, <2>1 DEF Ahead, Id
    <2>3. ASSUME NEW i \in 1 .. N - 1 PROVE Ahead(i)' = Ahead(i + 1)
      <3>1. i # 0 /\ i + 1 # 0
        BY <1>2
      <3> QED BY <1>1, <2>1, <3>1 DEF Ahead, Id
    <2>4. \A i \in 0 .. N - 1 : i = 0 \/ i \in 1 .. N - 1
      BY <1>2
    <2> QED BY <2>2, <2>3, <2>4
  <1>4. Ahead(Len(inbox))' = Ahead(N)
    <2>1. Ahead(Len(inbox))' = IF Len(inbox') = 0 THEN Id(hand') ELSE Id(inbox'[Len(inbox')])
      BY DEF Ahead, Id
    <2>2. Ahead(N - 1)' = IF N - 1 = 0 THEN Id(hand') ELSE Id(inbox'[N - 1])
      BY DEF Ahead, Id
    <2>3. N - 1 \in 0 .. N - 1 /\ N - 1 + 1 = N
      BY <1>2
    <2>4. Ahead(N - 1)' = Ahead(N - 1 + 1)
      BY <1>3, <2>3
    <2> QED BY <1>2, <2>1, <2>2, <2>3, <2>4
  <1>5. \A r : Feed!MessagesOf(r)' = Feed!MessagesOf(r)
    BY <1>1 DEF Feed!MessagesOf
  <1>6. Cursor' = Cursor
    BY <1>1 DEF Cursor
  <1>7. ASSUME NEW i \in 1 .. N - 1
        PROVE  /\ Ahead(i)'.run \in 1 .. run /\ Ahead(i)' \in Feed!MessagesOf(Ahead(i)'.run)
               /\ Feed!Before(Ahead(i - 1)', Ahead(i)') /\ Adjacent(Ahead(i - 1)', Ahead(i)')
    <2>1. /\ i \in 0 .. N - 1 /\ i - 1 \in 0 .. N - 1 /\ i + 1 \in 1 .. N /\ i + 1 # 1
          /\ i - 1 + 1 = i /\ i + 1 - 1 = i
      BY <1>2
    <2>2. Ahead(i)' = Ahead(i + 1) /\ Ahead(i - 1)' = Ahead(i)
      BY <1>3, <2>1
    <2>3. /\ Ahead(i + 1).run \in 1 .. run /\ Ahead(i + 1) \in Feed!MessagesOf(Ahead(i + 1).run)
          /\ Feed!Before(Ahead(i), Ahead(i + 1)) /\ Adjacent(Ahead(i), Ahead(i + 1))
      BY <1>0, <2>1 DEF FeedInv
    <2> QED BY <2>2, <2>3
  <1>8. \A i \in 0 .. N - 1 : Ahead(i)' = Cursor \/ Feed!Before(Ahead(i)', Cursor)
    <2>1. \A i \in 0 .. N - 1 : i + 1 \in 0 .. N
      BY <1>2
    <2> QED BY <1>0, <1>3, <2>1 DEF FeedInv
  <1>9. \A x \in Feed!MessagesOf(run) : Feed!Before(Ahead(N), x) => Feed!Before(Cursor, x)
    BY <1>0, <1>1 DEF FeedInv
  <1>10. Id(hand)' \in Ids
    <2>1. Id(hand)' = Ahead(0)'
      BY DEF Ahead, Id
    <2>2. Ahead(0)' = Ahead(1) /\ 1 \in 0 .. Len(inbox)
      BY <1>0, <1>2, <1>3
    <2> QED BY <2>1, <2>2, AheadTyped
  <1>11. /\ \A i : /\ (Adjacent(Ahead(i - 1), Ahead(i)))' <=> Adjacent(Ahead(i - 1)', Ahead(i)')
                   /\ (Feed!Before(Ahead(i - 1), Ahead(i)))' <=> Feed!Before(Ahead(i - 1)', Ahead(i)')
                   /\ (Feed!Before(Ahead(i), Cursor))' <=> Feed!Before(Ahead(i)', Cursor)
         /\ \A x : /\ (Feed!Before(Ahead(Len(inbox)), x))' <=> Feed!Before(Ahead(N), x)
                   /\ (Feed!Before(Cursor, x))' <=> Feed!Before(Cursor, x)
    BY <1>4, <1>5, <1>6 DEF Adjacent, Feed!Before
  <1> QED BY <1>1, <1>2, <1>5, <1>6, <1>7, <1>8, <1>9, <1>10, <1>11 DEF FeedInv

LEMMA StopKeeps ==
  ASSUME ProcessInv, ScanInv, FeedInv, Stop
  PROVE  FeedInv'
  <1>1. /\ inbox' = << >> /\ away' = TRUE
        /\ UNCHANGED <<files, run, ii, phase, seqn, hand>>
    BY DEF Stop, recvVars
  <1>2. Len(inbox') = 0
    BY <1>1
  <1>3. Ahead(0)' = Ahead(0) /\ Id(hand)' = Id(hand) /\ Cursor' = Cursor
    BY <1>1 DEF Ahead, Id, Cursor
  <1>4. Ahead(0) = Cursor \/ Feed!Before(Ahead(0), Cursor)
    <2>1. Len(inbox) \in Nat
      BY QueueFacts DEF ProcessInv
    <2>2. 0 \in 0 .. Len(inbox)
      BY <2>1
    <2> QED BY <2>2 DEF FeedInv
  <1>5. (Feed!Before(Ahead(0), Cursor))' <=> Feed!Before(Ahead(0), Cursor)
    BY <1>3 DEF Feed!Before
  <1>6. \A i \in 0 .. 0 : i = 0
    OBVIOUS
  <1>7. Id(hand) \in Ids
    BY DEF FeedInv
  <1> QED BY <1>1, <1>2, <1>3, <1>4, <1>5, <1>6, <1>7 DEF FeedInv

LEMMA InitFeed == Init => FeedInv
  <1> SUFFICES ASSUME Init PROVE FeedInv
    OBVIOUS
  <1>1. /\ run = 1 /\ ii = 1 /\ phase = "open" /\ inbox = << >> /\ status = "up" /\ away = FALSE
        /\ hand = [run |-> 1, file |-> 0, seqn |-> 0, type |-> 0]
    BY DEF Init, Replay!Init
  <1>2. Len(inbox) = 0 /\ ProcessInv
    BY <1>1, InitProcess
  <1>3. /\ Id(hand) = [run |-> 1, file |-> 0, seqn |-> 0] /\ Ahead(0) = Id(hand)
        /\ Cursor = [run |-> 1, file |-> 1, seqn |-> 0]
    BY <1>1 DEF Id, Ahead, Cursor
  <1>4. Id(hand) \in Ids /\ Feed!Before(Ahead(0), Cursor)
    BY <1>3 DEF Ids, Feed!Before
  <1>5. ASSUME NEW x \in Feed!MessagesOf(run) PROVE Feed!Before(Cursor, x)
    <2>1. x \in Ids /\ x.run = 1 /\ x.file \in 1 .. Len(files) /\ x.seqn \in 1 .. BlockCount(files[x.file])
      BY <1>1, <1>2, MessageFacts
    <2>2. x.file \in Nat /\ x.file >= 1 /\ x.seqn \in Nat /\ x.seqn > 0
      BY <2>1 DEF Ids
    <2>3. x.file > 1 \/ (x.file = 1 /\ x.seqn > 0)
      BY <2>2
    <2> QED BY <1>3, <2>1, <2>3 DEF Feed!Before
  <1>6. \A i \in 0 .. 0 : i = 0
    OBVIOUS
  <1> QED BY <1>1, <1>2, <1>4, <1>5, <1>6 DEF FeedInv

LEMMA NextFeed == ProcessInv /\ ScanInv /\ FeedInv /\ [Next]_vars => FeedInv'
  <1> SUFFICES ASSUME ProcessInv, ScanInv, FeedInv, [Next]_vars PROVE FeedInv'
    OBVIOUS
  <1>1. CASE (SmtFep /\ ~Receive) \/ Start \/ Tick \/ UNCHANGED vars
    <2>1. /\ UNCHANGED <<files, run, ii, phase, seqn, hand, inbox, away>>
          /\ status' = "down" => status = "down"
      BY <1>1 DEF SmtFep, NotLogged, BeginLog, OpenLog, LogFails, CloseLog, Handle, Step, Hang,
                  Start, Tick, recvVars, vars, fepVars
    <2>2. Cursor' = Cursor
      BY <2>1 DEF Cursor
    <2> QED BY <2>1, <2>2, CursorStays
  <1>2. CASE Read /\ ~Replay!Leave
    <2>1. /\ UNCHANGED <<files, run, ii, hand, inbox, away, status>>
          /\ \/ phase = "open" /\ phase' = "scan" /\ seqn' = 0
             \/ phase = "scan" /\ phase' = "send" /\ seqn' = seqn + 1
             \/ phase = "open" /\ phase' \in {"done", "exited"}
      BY <1>2 DEF Read, Replay!Open, Replay!Take, Replay!Stop, fepVars
    <2>2. seqn \in Nat
      BY DEF ScanInv
    <2>3. Cursor' = Cursor
      BY <2>1, <2>2 DEF Cursor
    <2> QED BY <2>1, <2>3, CursorStays
  <1>3. CASE Read /\ Replay!Leave
    BY <1>3, LeaveKeeps DEF Read
  <1> QED BY <1>1, <1>2, <1>3, DeliverKeeps, DropKeeps, AgainKeeps, ReceiveKeeps, StopKeeps
          DEF Next, SmtRecv, SmtFep

-----------------------------------------------------------------------------
WayInv == ProcessInv /\ ScanInv /\ FeedInv

LEMMA InitWay == Init => WayInv /\ Feed!Init
  <1> SUFFICES ASSUME Init PROVE WayInv /\ Feed!Init
    OBVIOUS
  <1>1. WayInv
    BY InitProcess, InitScan, InitFeed DEF WayInv
  <1>2. Id(hand) = [run |-> 1, file |-> 0, seqn |-> 0] /\ away \in BOOLEAN
    BY DEF Init, Id
  <1>3. [f \in DOMAIN files |-> BlockCount(files[f])] \in Seq(Nat)
    <2> DEFINE counts == [f \in DOMAIN files |-> BlockCount(files[f])]
    <2>1. DOMAIN files = 1 .. Len(files) /\ Len(files) \in Nat
          /\ \A f \in 1 .. Len(files) : BlockCount(files[f]) \in Nat
      BY <1>1, FilesFacts DEF WayInv
    <2>2. counts \in [1 .. Len(files) -> Nat]
      BY <2>1
    <2> HIDE DEF counts
    <2>3. counts \in Seq(Nat)
      BY <2>1, <2>2
    <2> QED BY <2>3 DEF counts
  <1> QED BY <1>1, <1>2, <1>3 DEF Feed!Init

LEMMA NextWay == WayInv /\ [Next]_vars => WayInv'
  BY NextProcess, NextScan, NextFeed DEF WayInv

\* Receiving a message is handling one of the feed; being stopped is being away.
LEMMA StepFeed == WayInv /\ [Next]_vars => [Feed!Next]_(Feed!feedVars)
  <1> SUFFICES ASSUME WayInv, [Next]_vars PROVE [Feed!Next]_(Feed!feedVars)
    OBVIOUS
  <1> DEFINE counts == [f \in DOMAIN files |-> BlockCount(files[f])]
  <1>1. files' = files /\ counts' = counts
    BY DEF Next, SmtRecv, SmtFep, Read, Deliver, Drop, Receive, NotLogged, BeginLog, OpenLog,
           LogFails, CloseLog, Handle, Hang, Stop, Start, Tick, ReplayAgain, Step, recvVars, vars,
           Replay!Open, Replay!Take, Replay!Leave, Replay!Stop, Replay!Deliver, Replay!Drop
  <1>2. CASE Receive
    <2>1. /\ inbox # << >> /\ hand' = Head(inbox) /\ away' = FALSE
      BY <1>2 DEF Receive
    <2>2. Len(inbox) \in Nat \ {0} /\ IsSeq(inbox)
      <3>1. IsSeq(inbox)
        BY DEF WayInv, ProcessInv
      <3>2. PICK S : inbox \in Seq(S)
        BY <3>1 DEF IsSeq
      <3> QED BY <2>1, <3>1, <3>2
    <2>3. Id(hand)' = Ahead(1) /\ Id(hand) = Ahead(0) /\ 1 \in 1 .. Len(inbox)
      BY <2>1, <2>2, QueueItems DEF Ahead, Id
    <2> DEFINE m == Ahead(1)
               r == Ahead(1).run
    <2>4. /\ r \in 1 .. run /\ m \in Feed!MessagesOf(r)
          /\ Feed!Before(Ahead(0), m) /\ (~away => Adjacent(Ahead(0), m))
      BY <2>3 DEF WayInv, FeedInv
    <2>5. r \in 1 .. MaxRuns
      <3>1. run \in 1 .. MaxRuns
        BY DEF WayInv, ProcessInv
      <3> QED BY <2>4, <3>1, PipelineAssumption
    <2>6. /\ Feed!Before(Id(hand), m)
          /\ away \/ ~ \E x \in Feed!MessagesOf(r) : Feed!Before(Id(hand), x) /\ Feed!Before(x, m)
      BY <2>3, <2>4 DEF Adjacent
    <2> HIDE DEF m, r, counts
    <2>7. Id(hand)' = m
      BY <2>3 DEF m
    <2>8. Feed!Handle
      BY <1>1, <2>1, <2>4, <2>5, <2>6, <2>7 DEF Feed!Handle, counts
    <2> QED BY <2>8 DEF Feed!Next
  <1>3. CASE Stop
    <2>1. away' = TRUE /\ Id(hand)' = Id(hand)
      BY <1>3 DEF Stop, Id
    <2> QED BY <1>1, <2>1 DEF Feed!Next, Feed!Away
  <1>4. CASE UNCHANGED <<hand, away>>
    <2>1. Id(hand)' = Id(hand) /\ away' = away
      BY <1>4 DEF Id
    <2> QED BY <1>1, <2>1 DEF Feed!feedVars
  <1>5. Receive \/ Stop \/ UNCHANGED <<hand, away>>
    BY DEF Next, SmtRecv, SmtFep, Read, Deliver, Drop, NotLogged, BeginLog, OpenLog,
           LogFails, CloseLog, Handle, Hang, Start, Tick, ReplayAgain, Step, fepVars, vars
  <1> QED BY <1>2, <1>3, <1>4, <1>5

\* Although nobody numbers them for it, smtfep is given the messages in the order
\* of the files, none twice in a replay and none left out unless it was stopped in
\* between (the waiting sendto of start_analyze, the socket, and smtrcv).
THEOREM FeedCorrect == Spec => FeedSpec
  BY InitWay, NextWay, StepFeed, PTL DEF Spec, FeedSpec, Feed!Spec
=============================================================================
