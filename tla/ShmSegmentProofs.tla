-------------------------- MODULE ShmSegmentProofs --------------------------
(***************************************************************************)
(* Proofs about the shared segment, for every number of codes, channels    *)
(* and trades and every room of the tables.  The comparison functions      *)
(* order their keys, so that what SortedTableProofs says of complete and   *)
(* of interrupted calls holds of each table; what is left are the steps    *)
(* that concern all four, and that a call on one table leaves the others   *)
(* alone.                                                                  *)
(***************************************************************************)
EXTENDS ShmSegment, TLAPS

-----------------------------------------------------------------------------
\* Instruments, by locate code (cmplocate).
InstP == INSTANCE SortedTableProofs
            WITH crashed <- FALSE, Key <- Locate, Room <- InstRoom, Blank <- ZeroLocate,
                 Before <- cmplocate, slots <- instList, size <- instSize

LEMMA InstAssumptions == InstP!RoomAssumption /\ InstP!RecordAssumption /\ InstP!OrderAssumption
  <1>1. InstP!RoomAssumption /\ InstP!RecordAssumption
    BY SegmentAssumption DEF InstP!RoomAssumption, InstP!RecordAssumption, ZeroLocate
  <1>2. \A a \in Locate : a \in Nat
    BY SegmentAssumption
  <1>3. InstP!OrderAssumption
    BY <1>2 DEF InstP!OrderAssumption, cmplocate
  <1> QED BY <1>1, <1>3

LEMMA InstSame ==
  /\ Inst!Record = InstP!Record
  /\ (Inst!TypeOK <=> InstP!TypeOK) /\ (Inst!TypeOK' <=> InstP!TypeOK')
  /\ (Inst!SortedInv <=> InstP!SortedInv) /\ (Inst!SortedInv' <=> InstP!SortedInv')
  BY DEF Inst!Record, InstP!Record, Inst!TypeOK, InstP!TypeOK, Inst!SortedInv, InstP!SortedInv,
         Inst!Sorted, InstP!Sorted

LEMMA InstCallIsStep == InstCall => InstP!Next
  <1>1. \A r : (Inst!Create(r) <=> InstP!Create(r)) /\ (Inst!Update(r) <=> InstP!Update(r))
    BY DEF Inst!Create, InstP!Create, Inst!Update, InstP!Update, Inst!Bsearch, InstP!Bsearch,
           Inst!Matches, InstP!Matches, Inst!Stored, InstP!Stored, Inst!Replaced,
           InstP!Replaced, Inst!Qsort, InstP!Qsort, Inst!Permuted, InstP!Permuted,
           Inst!Permutation, InstP!Permutation, Inst!Sorted, InstP!Sorted, Inst!Record,
           InstP!Record
  <1>2. \A k : (Inst!Read(k) <=> InstP!Read(k)) /\ (Inst!Delete(k) <=> InstP!Delete(k))
    BY DEF Inst!Read, InstP!Read, Inst!Delete, InstP!Delete, Inst!Bsearch, InstP!Bsearch,
           Inst!Matches, InstP!Matches, Inst!Closed, InstP!Closed, Inst!Qsort, InstP!Qsort,
           Inst!Permuted, InstP!Permuted, Inst!Permutation, InstP!Permutation, Inst!Sorted,
           InstP!Sorted
  <1> QED BY <1>1, <1>2, InstSame DEF InstCall, createInst, readInst, updateInst, deleteInst, InstP!Next

LEMMA InstCutIsCut == Inst!Interrupted <=> InstP!Interrupted
  BY DEF Inst!Interrupted, InstP!Interrupted, Inst!CrashInCreate, InstP!CrashInCreate,
         Inst!CrashInUpdate, InstP!CrashInUpdate, Inst!CrashInDelete, InstP!CrashInDelete,
         Inst!Torn, InstP!Torn, Inst!Bsearch, InstP!Bsearch, Inst!Matches, InstP!Matches,
         Inst!Sorted, InstP!Sorted, Inst!Record, InstP!Record

LEMMA InstCallKeeps ==
  Inst!TypeOK /\ InstCall => Inst!TypeOK' /\ (UNCHANGED inst \/ Inst!SortedInv')
  <1> SUFFICES ASSUME Inst!TypeOK, InstCall
               PROVE  Inst!TypeOK' /\ (UNCHANGED inst \/ Inst!SortedInv')
    OBVIOUS
  <1>1. InstP!TypeOK' /\ (UNCHANGED <<instList, instSize>> \/ InstP!Sorted(instList', instSize'))
    BY InstAssumptions, InstSame, InstCallIsStep, InstP!NextStep
  <1> QED BY <1>1, InstSame DEF inst, InstP!SortedInv

LEMMA InstCutKeeps == Inst!TypeOK /\ Inst!Interrupted /\ ret' = None => Inst!TypeOK'
  <1> SUFFICES ASSUME Inst!TypeOK, Inst!Interrupted, ret' = None PROVE Inst!TypeOK'
    OBVIOUS
  <1>1. instList' \in [1 .. InstRoom -> InstP!Record] /\ instSize' \in 0 .. InstRoom
    BY InstAssumptions, InstSame, InstCutIsCut, InstP!CrashStep
  <1> QED BY <1>1, InstSame DEF Inst!TypeOK

LEMMA InstCleared ==
  ASSUME instList' = [i \in 1 .. InstRoom |-> ZeroLocate], instSize' = 0, ret' \in Value \cup {None}
  PROVE  Inst!TypeOK' /\ Inst!SortedInv'
  <1>1. ZeroLocate \in Inst!Record /\ InstRoom \in Nat
    BY InstAssumptions DEF InstP!RecordAssumption, InstP!RoomAssumption, Inst!Record
  <1> QED BY <1>1 DEF Inst!TypeOK, Inst!SortedInv, Inst!Sorted, Inst!Record

LEMMA InstStays ==
  UNCHANGED inst /\ ret' \in Value \cup {None} =>
    (Inst!TypeOK => Inst!TypeOK') /\ (Inst!SortedInv => Inst!SortedInv')
  BY DEF inst, Inst!TypeOK, Inst!SortedInv, Inst!Sorted, Inst!Record

\* On a sorted table the search finds every key's record (SortedTableProofs).
LEMMA InstFound == Inst!TypeOK /\ Inst!SortedInv => Inst!SearchFinds
  <1> SUFFICES ASSUME Inst!TypeOK, Inst!SortedInv PROVE Inst!SearchFinds
    OBVIOUS
  <1>1. \A k \in Locate : InstP!Halving(k) \in (IF InstP!Matches(k) = {} THEN {0} ELSE InstP!Matches(k))
    BY InstSame, InstAssumptions, InstP!SearchRight
  <1>2. \A k : Inst!Halving(k) = InstP!Halving(k) /\ Inst!Matches(k) = InstP!Matches(k)
    BY DEF Inst!Halving, InstP!Halving, Inst!Matches, InstP!Matches
  <1> QED BY <1>1, <1>2 DEF Inst!SearchFinds

-----------------------------------------------------------------------------
\* Market centers, by locate code (cmpmcl).
MclP == INSTANCE SortedTableProofs
            WITH crashed <- FALSE, Key <- Locate, Room <- MaxMarketCenter, Blank <- ZeroLocate,
                 Before <- cmpmcl, slots <- mclList, size <- mclSize

LEMMA MclAssumptions == MclP!RoomAssumption /\ MclP!RecordAssumption /\ MclP!OrderAssumption
  <1>1. MclP!RoomAssumption /\ MclP!RecordAssumption
    BY SegmentAssumption DEF MclP!RoomAssumption, MclP!RecordAssumption, ZeroLocate
  <1>2. \A a \in Locate : a \in Nat
    BY SegmentAssumption
  <1>3. MclP!OrderAssumption
    BY <1>2 DEF MclP!OrderAssumption, cmpmcl
  <1> QED BY <1>1, <1>3

LEMMA MclSame ==
  /\ Mcl!Record = MclP!Record
  /\ (Mcl!TypeOK <=> MclP!TypeOK) /\ (Mcl!TypeOK' <=> MclP!TypeOK')
  /\ (Mcl!SortedInv <=> MclP!SortedInv) /\ (Mcl!SortedInv' <=> MclP!SortedInv')
  BY DEF Mcl!Record, MclP!Record, Mcl!TypeOK, MclP!TypeOK, Mcl!SortedInv, MclP!SortedInv,
         Mcl!Sorted, MclP!Sorted

LEMMA MclCallIsStep == MclCall => MclP!Next
  <1>1. \A r : (Mcl!Create(r) <=> MclP!Create(r)) /\ (Mcl!Update(r) <=> MclP!Update(r))
    BY DEF Mcl!Create, MclP!Create, Mcl!Update, MclP!Update, Mcl!Bsearch, MclP!Bsearch,
           Mcl!Matches, MclP!Matches, Mcl!Stored, MclP!Stored, Mcl!Replaced, MclP!Replaced,
           Mcl!Qsort, MclP!Qsort, Mcl!Permuted, MclP!Permuted, Mcl!Permutation,
           MclP!Permutation, Mcl!Sorted, MclP!Sorted, Mcl!Record, MclP!Record
  <1>2. \A k : (Mcl!Read(k) <=> MclP!Read(k)) /\ (Mcl!Delete(k) <=> MclP!Delete(k))
    BY DEF Mcl!Read, MclP!Read, Mcl!Delete, MclP!Delete, Mcl!Bsearch, MclP!Bsearch,
           Mcl!Matches, MclP!Matches, Mcl!Closed, MclP!Closed, Mcl!Qsort, MclP!Qsort,
           Mcl!Permuted, MclP!Permuted, Mcl!Permutation, MclP!Permutation, Mcl!Sorted,
           MclP!Sorted
  <1> QED BY <1>1, <1>2, MclSame DEF MclCall, createMcl, readMcl, updateMcl, deleteMcl, MclP!Next

LEMMA MclCutIsCut == Mcl!Interrupted <=> MclP!Interrupted
  BY DEF Mcl!Interrupted, MclP!Interrupted, Mcl!CrashInCreate, MclP!CrashInCreate,
         Mcl!CrashInUpdate, MclP!CrashInUpdate, Mcl!CrashInDelete, MclP!CrashInDelete,
         Mcl!Torn, MclP!Torn, Mcl!Bsearch, MclP!Bsearch, Mcl!Matches, MclP!Matches, Mcl!Sorted,
         MclP!Sorted, Mcl!Record, MclP!Record

LEMMA MclCallKeeps ==
  Mcl!TypeOK /\ MclCall => Mcl!TypeOK' /\ (UNCHANGED mcl \/ Mcl!SortedInv')
  <1> SUFFICES ASSUME Mcl!TypeOK, MclCall
               PROVE  Mcl!TypeOK' /\ (UNCHANGED mcl \/ Mcl!SortedInv')
    OBVIOUS
  <1>1. MclP!TypeOK' /\ (UNCHANGED <<mclList, mclSize>> \/ MclP!Sorted(mclList', mclSize'))
    BY MclAssumptions, MclSame, MclCallIsStep, MclP!NextStep
  <1> QED BY <1>1, MclSame DEF mcl, MclP!SortedInv

LEMMA MclCutKeeps == Mcl!TypeOK /\ Mcl!Interrupted /\ ret' = None => Mcl!TypeOK'
  <1> SUFFICES ASSUME Mcl!TypeOK, Mcl!Interrupted, ret' = None PROVE Mcl!TypeOK'
    OBVIOUS
  <1>1. mclList' \in [1 .. MaxMarketCenter -> MclP!Record] /\ mclSize' \in 0 .. MaxMarketCenter
    BY MclAssumptions, MclSame, MclCutIsCut, MclP!CrashStep
  <1> QED BY <1>1, MclSame DEF Mcl!TypeOK

LEMMA MclCleared ==
  ASSUME mclList' = [i \in 1 .. MaxMarketCenter |-> ZeroLocate], mclSize' = 0, ret' \in Value \cup {None}
  PROVE  Mcl!TypeOK' /\ Mcl!SortedInv'
  <1>1. ZeroLocate \in Mcl!Record /\ MaxMarketCenter \in Nat
    BY MclAssumptions DEF MclP!RecordAssumption, MclP!RoomAssumption, Mcl!Record
  <1> QED BY <1>1 DEF Mcl!TypeOK, Mcl!SortedInv, Mcl!Sorted, Mcl!Record

LEMMA MclStays ==
  UNCHANGED mcl /\ ret' \in Value \cup {None} =>
    (Mcl!TypeOK => Mcl!TypeOK') /\ (Mcl!SortedInv => Mcl!SortedInv')
  BY DEF mcl, Mcl!TypeOK, Mcl!SortedInv, Mcl!Sorted, Mcl!Record

\* On a sorted table the search finds every key's record (SortedTableProofs).
LEMMA MclFound == Mcl!TypeOK /\ Mcl!SortedInv => Mcl!SearchFinds
  <1> SUFFICES ASSUME Mcl!TypeOK, Mcl!SortedInv PROVE Mcl!SearchFinds
    OBVIOUS
  <1>1. \A k \in Locate : MclP!Halving(k) \in (IF MclP!Matches(k) = {} THEN {0} ELSE MclP!Matches(k))
    BY MclSame, MclAssumptions, MclP!SearchRight
  <1>2. \A k : Mcl!Halving(k) = MclP!Halving(k) /\ Mcl!Matches(k) = MclP!Matches(k)
    BY DEF Mcl!Halving, MclP!Halving, Mcl!Matches, MclP!Matches
  <1> QED BY <1>1, <1>2 DEF Mcl!SearchFinds

-----------------------------------------------------------------------------
\* Channel seconds, by protocol and channel (cmpcs).
CsP == INSTANCE SortedTableProofs
            WITH crashed <- FALSE, Key <- ChannelKey, Room <- MaxChannel, Blank <- ZeroChannel,
                 Before <- cmpcs, slots <- csList, size <- csSize

LEMMA CsAssumptions == CsP!RoomAssumption /\ CsP!RecordAssumption /\ CsP!OrderAssumption
  <1>1. CsP!RoomAssumption /\ CsP!RecordAssumption
    BY SegmentAssumption DEF CsP!RoomAssumption, CsP!RecordAssumption, ZeroChannel, ChannelKey
  <1>2. \A a \in ChannelKey : a.protocol \in Nat /\ a.channel \in Nat
    BY SegmentAssumption DEF ChannelKey
  <1>3. \A a, b \in ChannelKey : a.protocol = b.protocol /\ a.channel = b.channel => a = b
    BY DEF ChannelKey
  <1>4. \A a, b \in ChannelKey : a = b \/ cmpcs(a, b) \/ cmpcs(b, a)
    BY <1>2, <1>3 DEF cmpcs
  <1>5. \A a, b, c \in ChannelKey : cmpcs(a, b) /\ cmpcs(b, c) => cmpcs(a, c)
    BY <1>2 DEF cmpcs
  <1>6. \A a \in ChannelKey : ~cmpcs(a, a)
    BY <1>2 DEF cmpcs
  <1>7. \A a, b \in ChannelKey : cmpcs(a, b) \in BOOLEAN
    BY DEF cmpcs
  <1> QED BY <1>1, <1>4, <1>5, <1>6, <1>7 DEF CsP!OrderAssumption

LEMMA CsSame ==
  /\ Cs!Record = CsP!Record
  /\ (Cs!TypeOK <=> CsP!TypeOK) /\ (Cs!TypeOK' <=> CsP!TypeOK')
  /\ (Cs!SortedInv <=> CsP!SortedInv) /\ (Cs!SortedInv' <=> CsP!SortedInv')
  BY DEF Cs!Record, CsP!Record, Cs!TypeOK, CsP!TypeOK, Cs!SortedInv, CsP!SortedInv, Cs!Sorted,
         CsP!Sorted

LEMMA CsCallIsStep == CsCall => CsP!Next
  <1>1. \A r : (Cs!Create(r) <=> CsP!Create(r)) /\ (Cs!Update(r) <=> CsP!Update(r))
    BY DEF Cs!Create, CsP!Create, Cs!Update, CsP!Update, Cs!Bsearch, CsP!Bsearch, Cs!Matches,
           CsP!Matches, Cs!Stored, CsP!Stored, Cs!Replaced, CsP!Replaced, Cs!Qsort, CsP!Qsort,
           Cs!Permuted, CsP!Permuted, Cs!Permutation, CsP!Permutation, Cs!Sorted, CsP!Sorted,
           Cs!Record, CsP!Record
  <1>2. \A k : (Cs!Read(k) <=> CsP!Read(k)) /\ (Cs!Delete(k) <=> CsP!Delete(k))
    BY DEF Cs!Read, CsP!Read, Cs!Delete, CsP!Delete, Cs!Bsearch, CsP!Bsearch, Cs!Matches,
           CsP!Matches, Cs!Closed, CsP!Closed, Cs!Qsort, CsP!Qsort, Cs!Permuted, CsP!Permuted,
           Cs!Permutation, CsP!Permutation, Cs!Sorted, CsP!Sorted
  <1> QED BY <1>1, <1>2, CsSame DEF CsCall, createCs, readCs, updateCs, deleteCs, CsP!Next

LEMMA CsCutIsCut == Cs!Interrupted <=> CsP!Interrupted
  BY DEF Cs!Interrupted, CsP!Interrupted, Cs!CrashInCreate, CsP!CrashInCreate,
         Cs!CrashInUpdate, CsP!CrashInUpdate, Cs!CrashInDelete, CsP!CrashInDelete, Cs!Torn,
         CsP!Torn, Cs!Bsearch, CsP!Bsearch, Cs!Matches, CsP!Matches, Cs!Sorted, CsP!Sorted,
         Cs!Record, CsP!Record

LEMMA CsCallKeeps ==
  Cs!TypeOK /\ CsCall => Cs!TypeOK' /\ (UNCHANGED cs \/ Cs!SortedInv')
  <1> SUFFICES ASSUME Cs!TypeOK, CsCall
               PROVE  Cs!TypeOK' /\ (UNCHANGED cs \/ Cs!SortedInv')
    OBVIOUS
  <1>1. CsP!TypeOK' /\ (UNCHANGED <<csList, csSize>> \/ CsP!Sorted(csList', csSize'))
    BY CsAssumptions, CsSame, CsCallIsStep, CsP!NextStep
  <1> QED BY <1>1, CsSame DEF cs, CsP!SortedInv

LEMMA CsCutKeeps == Cs!TypeOK /\ Cs!Interrupted /\ ret' = None => Cs!TypeOK'
  <1> SUFFICES ASSUME Cs!TypeOK, Cs!Interrupted, ret' = None PROVE Cs!TypeOK'
    OBVIOUS
  <1>1. csList' \in [1 .. MaxChannel -> CsP!Record] /\ csSize' \in 0 .. MaxChannel
    BY CsAssumptions, CsSame, CsCutIsCut, CsP!CrashStep
  <1> QED BY <1>1, CsSame DEF Cs!TypeOK

LEMMA CsCleared ==
  ASSUME csList' = [i \in 1 .. MaxChannel |-> ZeroChannel], csSize' = 0, ret' \in Value \cup {None}
  PROVE  Cs!TypeOK' /\ Cs!SortedInv'
  <1>1. ZeroChannel \in Cs!Record /\ MaxChannel \in Nat
    BY CsAssumptions DEF CsP!RecordAssumption, CsP!RoomAssumption, Cs!Record
  <1> QED BY <1>1 DEF Cs!TypeOK, Cs!SortedInv, Cs!Sorted, Cs!Record

LEMMA CsStays ==
  UNCHANGED cs /\ ret' \in Value \cup {None} =>
    (Cs!TypeOK => Cs!TypeOK') /\ (Cs!SortedInv => Cs!SortedInv')
  BY DEF cs, Cs!TypeOK, Cs!SortedInv, Cs!Sorted, Cs!Record

\* On a sorted table the search finds every key's record (SortedTableProofs).
LEMMA CsFound == Cs!TypeOK /\ Cs!SortedInv => Cs!SearchFinds
  <1> SUFFICES ASSUME Cs!TypeOK, Cs!SortedInv PROVE Cs!SearchFinds
    OBVIOUS
  <1>1. \A k \in ChannelKey : CsP!Halving(k) \in (IF CsP!Matches(k) = {} THEN {0} ELSE CsP!Matches(k))
    BY CsSame, CsAssumptions, CsP!SearchRight
  <1>2. \A k : Cs!Halving(k) = CsP!Halving(k) /\ Cs!Matches(k) = CsP!Matches(k)
    BY DEF Cs!Halving, CsP!Halving, Cs!Matches, CsP!Matches
  <1> QED BY <1>1, <1>2 DEF Cs!SearchFinds

-----------------------------------------------------------------------------
\* Trades, by instrument and trade id (cmptrade).
TradeP == INSTANCE SortedTableProofs
            WITH crashed <- FALSE, Key <- TradeKey, Room <- MaxTradeId, Blank <- ZeroTrade,
                 Before <- cmptrade, slots <- tradeList, size <- tradeSize

LEMMA TradeAssumptions == TradeP!RoomAssumption /\ TradeP!RecordAssumption /\ TradeP!OrderAssumption
  <1>1. TradeP!RoomAssumption /\ TradeP!RecordAssumption
    BY SegmentAssumption DEF TradeP!RoomAssumption, TradeP!RecordAssumption, ZeroTrade, TradeKey
  <1>2. \A a \in TradeKey : a.instrument \in Nat /\ a.id \in Nat
    BY SegmentAssumption DEF TradeKey
  <1>3. \A a, b \in TradeKey : a.instrument = b.instrument /\ a.id = b.id => a = b
    BY DEF TradeKey
  <1>4. \A a, b \in TradeKey : a = b \/ cmptrade(a, b) \/ cmptrade(b, a)
    BY <1>2, <1>3 DEF cmptrade
  <1>5. \A a, b, c \in TradeKey : cmptrade(a, b) /\ cmptrade(b, c) => cmptrade(a, c)
    BY <1>2 DEF cmptrade
  <1>6. \A a \in TradeKey : ~cmptrade(a, a)
    BY <1>2 DEF cmptrade
  <1>7. \A a, b \in TradeKey : cmptrade(a, b) \in BOOLEAN
    BY DEF cmptrade
  <1> QED BY <1>1, <1>4, <1>5, <1>6, <1>7 DEF TradeP!OrderAssumption

LEMMA TradeSame ==
  /\ Trade!Record = TradeP!Record
  /\ (Trade!TypeOK <=> TradeP!TypeOK) /\ (Trade!TypeOK' <=> TradeP!TypeOK')
  /\ (Trade!SortedInv <=> TradeP!SortedInv) /\ (Trade!SortedInv' <=> TradeP!SortedInv')
  BY DEF Trade!Record, TradeP!Record, Trade!TypeOK, TradeP!TypeOK, Trade!SortedInv,
         TradeP!SortedInv, Trade!Sorted, TradeP!Sorted

LEMMA TradeCallIsStep == TradeCall => TradeP!Next
  <1>1. \A r : (Trade!Create(r) <=> TradeP!Create(r)) /\ (Trade!Update(r) <=> TradeP!Update(r))
    BY DEF Trade!Create, TradeP!Create, Trade!Update, TradeP!Update, Trade!Bsearch,
           TradeP!Bsearch, Trade!Matches, TradeP!Matches, Trade!Stored, TradeP!Stored,
           Trade!Replaced, TradeP!Replaced, Trade!Qsort, TradeP!Qsort, Trade!Permuted,
           TradeP!Permuted, Trade!Permutation, TradeP!Permutation, Trade!Sorted, TradeP!Sorted,
           Trade!Record, TradeP!Record
  <1>2. \A k : (Trade!Read(k) <=> TradeP!Read(k)) /\ (Trade!Delete(k) <=> TradeP!Delete(k))
    BY DEF Trade!Read, TradeP!Read, Trade!Delete, TradeP!Delete, Trade!Bsearch, TradeP!Bsearch,
           Trade!Matches, TradeP!Matches, Trade!Closed, TradeP!Closed, Trade!Qsort,
           TradeP!Qsort, Trade!Permuted, TradeP!Permuted, Trade!Permutation,
           TradeP!Permutation, Trade!Sorted, TradeP!Sorted
  <1> QED BY <1>1, <1>2, TradeSame DEF TradeCall, createTrade, readTrade, updateTrade, deleteTrade, TradeP!Next

LEMMA TradeCutIsCut == Trade!Interrupted <=> TradeP!Interrupted
  BY DEF Trade!Interrupted, TradeP!Interrupted, Trade!CrashInCreate, TradeP!CrashInCreate,
         Trade!CrashInUpdate, TradeP!CrashInUpdate, Trade!CrashInDelete, TradeP!CrashInDelete,
         Trade!Torn, TradeP!Torn, Trade!Bsearch, TradeP!Bsearch, Trade!Matches, TradeP!Matches,
         Trade!Sorted, TradeP!Sorted, Trade!Record, TradeP!Record

LEMMA TradeCallKeeps ==
  Trade!TypeOK /\ TradeCall => Trade!TypeOK' /\ (UNCHANGED trade \/ Trade!SortedInv')
  <1> SUFFICES ASSUME Trade!TypeOK, TradeCall
               PROVE  Trade!TypeOK' /\ (UNCHANGED trade \/ Trade!SortedInv')
    OBVIOUS
  <1>1. TradeP!TypeOK' /\ (UNCHANGED <<tradeList, tradeSize>> \/ TradeP!Sorted(tradeList', tradeSize'))
    BY TradeAssumptions, TradeSame, TradeCallIsStep, TradeP!NextStep
  <1> QED BY <1>1, TradeSame DEF trade, TradeP!SortedInv

LEMMA TradeCutKeeps == Trade!TypeOK /\ Trade!Interrupted /\ ret' = None => Trade!TypeOK'
  <1> SUFFICES ASSUME Trade!TypeOK, Trade!Interrupted, ret' = None PROVE Trade!TypeOK'
    OBVIOUS
  <1>1. tradeList' \in [1 .. MaxTradeId -> TradeP!Record] /\ tradeSize' \in 0 .. MaxTradeId
    BY TradeAssumptions, TradeSame, TradeCutIsCut, TradeP!CrashStep
  <1> QED BY <1>1, TradeSame DEF Trade!TypeOK

LEMMA TradeCleared ==
  ASSUME tradeList' = [i \in 1 .. MaxTradeId |-> ZeroTrade], tradeSize' = 0, ret' \in Value \cup {None}
  PROVE  Trade!TypeOK' /\ Trade!SortedInv'
  <1>1. ZeroTrade \in Trade!Record /\ MaxTradeId \in Nat
    BY TradeAssumptions DEF TradeP!RecordAssumption, TradeP!RoomAssumption, Trade!Record
  <1> QED BY <1>1 DEF Trade!TypeOK, Trade!SortedInv, Trade!Sorted, Trade!Record

LEMMA TradeStays ==
  UNCHANGED trade /\ ret' \in Value \cup {None} =>
    (Trade!TypeOK => Trade!TypeOK') /\ (Trade!SortedInv => Trade!SortedInv')
  BY DEF trade, Trade!TypeOK, Trade!SortedInv, Trade!Sorted, Trade!Record

\* On a sorted table the search finds every key's record (SortedTableProofs).
LEMMA TradeFound == Trade!TypeOK /\ Trade!SortedInv => Trade!SearchFinds
  <1> SUFFICES ASSUME Trade!TypeOK, Trade!SortedInv PROVE Trade!SearchFinds
    OBVIOUS
  <1>1. \A k \in TradeKey : TradeP!Halving(k) \in (IF TradeP!Matches(k) = {} THEN {0} ELSE TradeP!Matches(k))
    BY TradeSame, TradeAssumptions, TradeP!SearchRight
  <1>2. \A k : Trade!Halving(k) = TradeP!Halving(k) /\ Trade!Matches(k) = TradeP!Matches(k)
    BY DEF Trade!Halving, TradeP!Halving, Trade!Matches, TradeP!Matches
  <1> QED BY <1>1, <1>2 DEF Trade!SearchFinds

-----------------------------------------------------------------------------
\* The inductive invariant: the types, and order in every table but those whose
\* last change was interrupted.
TablesSorted == /\ "inst" \notin spoiled => Inst!SortedInv
                /\ "cs" \notin spoiled => Cs!SortedInv
                /\ "mcl" \notin spoiled => Mcl!SortedInv
                /\ "trade" \notin spoiled => Trade!SortedInv
IInv == TypeOK /\ TablesSorted

\* Every table's type invariant types what the last call returned.
LEMMA ReturnTyped ==
  /\ TypeOK => ret \in Value \cup {None}
  /\ Inst!TypeOK' \/ Cs!TypeOK' \/ Mcl!TypeOK' \/ Trade!TypeOK' => ret' \in Value \cup {None}
  BY DEF TypeOK, Inst!TypeOK, Cs!TypeOK, Mcl!TypeOK, Trade!TypeOK

\* A table that does not change stays typed and sorted.
LEMMA Untouched ==
  ASSUME ret' \in Value \cup {None}
  PROVE  /\ UNCHANGED inst => (Inst!TypeOK => Inst!TypeOK') /\ (Inst!SortedInv => Inst!SortedInv')
         /\ UNCHANGED cs => (Cs!TypeOK => Cs!TypeOK') /\ (Cs!SortedInv => Cs!SortedInv')
         /\ UNCHANGED mcl => (Mcl!TypeOK => Mcl!TypeOK') /\ (Mcl!SortedInv => Mcl!SortedInv')
         /\ UNCHANGED trade => (Trade!TypeOK => Trade!TypeOK') /\ (Trade!SortedInv => Trade!SortedInv')
  BY InstStays, CsStays, MclStays, TradeStays

LEMMA InitIInv == Init => IInv
  <1> SUFFICES ASSUME Init PROVE IInv
    OBVIOUS
  <1>1. InstP!Init /\ CsP!Init /\ MclP!Init /\ TradeP!Init
    BY DEF Init, InstP!Init, CsP!Init, MclP!Init, TradeP!Init
  <1>2. Inst!TypeOK /\ Inst!SortedInv
    BY <1>1, InstAssumptions, InstSame, InstP!InitIInv DEF InstP!IInv
  <1>3. Cs!TypeOK /\ Cs!SortedInv
    BY <1>1, CsAssumptions, CsSame, CsP!InitIInv DEF CsP!IInv
  <1>4. Mcl!TypeOK /\ Mcl!SortedInv
    BY <1>1, MclAssumptions, MclSame, MclP!InitIInv DEF MclP!IInv
  <1>5. Trade!TypeOK /\ Trade!SortedInv
    BY <1>1, TradeAssumptions, TradeSame, TradeP!InitIInv DEF TradeP!IInv
  <1> QED BY <1>2, <1>3, <1>4, <1>5 DEF Init, IInv, TypeOK, TablesSorted

LEMMA CallKeepsIInv == IInv /\ Call => IInv'
  <1> SUFFICES ASSUME IInv, Call PROVE IInv'
    OBVIOUS
  <1>1. /\ exists' \in BOOLEAN /\ attached' \in BOOLEAN /\ spoiled' \subseteq Tables
        /\ spoiled' = Repaired
    BY DEF IInv, TypeOK, Call, Repaired
  <1>2. CASE InstCall
    <2>1. Inst!TypeOK' /\ (UNCHANGED inst \/ Inst!SortedInv')
      BY <1>2, InstCallKeeps DEF IInv, TypeOK
    <2>2. UNCHANGED <<cs, mcl, trade>>
      BY <1>2 DEF InstCall, createInst, readInst, updateInst, deleteInst
    <2>3. spoiled' = IF UNCHANGED inst THEN spoiled ELSE spoiled \ {"inst"}
      BY <1>1, <2>2 DEF Repaired
    <2>4. ret' \in Value \cup {None}
      BY <2>1, ReturnTyped
    <2> QED BY <1>1, <2>1, <2>2, <2>3, <2>4, Untouched DEF IInv, TypeOK, TablesSorted
  <1>3. CASE CsCall
    <2>1. Cs!TypeOK' /\ (UNCHANGED cs \/ Cs!SortedInv')
      BY <1>3, CsCallKeeps DEF IInv, TypeOK
    <2>2. UNCHANGED <<inst, mcl, trade>>
      BY <1>3 DEF CsCall, createCs, readCs, updateCs, deleteCs
    <2>3. spoiled' = IF UNCHANGED cs THEN spoiled ELSE spoiled \ {"cs"}
      BY <1>1, <2>2 DEF Repaired
    <2>4. ret' \in Value \cup {None}
      BY <2>1, ReturnTyped
    <2> QED BY <1>1, <2>1, <2>2, <2>3, <2>4, Untouched DEF IInv, TypeOK, TablesSorted
  <1>4. CASE MclCall
    <2>1. Mcl!TypeOK' /\ (UNCHANGED mcl \/ Mcl!SortedInv')
      BY <1>4, MclCallKeeps DEF IInv, TypeOK
    <2>2. UNCHANGED <<inst, cs, trade>>
      BY <1>4 DEF MclCall, createMcl, readMcl, updateMcl, deleteMcl
    <2>3. spoiled' = IF UNCHANGED mcl THEN spoiled ELSE spoiled \ {"mcl"}
      BY <1>1, <2>2 DEF Repaired
    <2>4. ret' \in Value \cup {None}
      BY <2>1, ReturnTyped
    <2> QED BY <1>1, <2>1, <2>2, <2>3, <2>4, Untouched DEF IInv, TypeOK, TablesSorted
  <1>5. CASE TradeCall
    <2>1. Trade!TypeOK' /\ (UNCHANGED trade \/ Trade!SortedInv')
      BY <1>5, TradeCallKeeps DEF IInv, TypeOK
    <2>2. UNCHANGED <<inst, cs, mcl>>
      BY <1>5 DEF TradeCall, createTrade, readTrade, updateTrade, deleteTrade
    <2>3. spoiled' = IF UNCHANGED trade THEN spoiled ELSE spoiled \ {"trade"}
      BY <1>1, <2>2 DEF Repaired
    <2>4. ret' \in Value \cup {None}
      BY <2>1, ReturnTyped
    <2> QED BY <1>1, <2>1, <2>2, <2>3, <2>4, Untouched DEF IInv, TypeOK, TablesSorted
  <1> QED BY <1>2, <1>3, <1>4, <1>5 DEF Call

LEMMA CutKeepsIInv == IInv /\ stopitInCall => IInv'
  <1> SUFFICES ASSUME IInv, stopitInCall PROVE IInv'
    OBVIOUS
  <1>1. /\ exists' \in BOOLEAN /\ attached' \in BOOLEAN
        /\ ret' = None /\ ret' \in Value \cup {None}
    BY DEF IInv, TypeOK, stopitInCall
  <1>2. CASE InstCut
    <2>1. Inst!TypeOK'
      BY <1>1, <1>2, InstCutKeeps DEF InstCut, IInv, TypeOK
    <2>2. UNCHANGED <<cs, mcl, trade>> /\ spoiled' = spoiled \cup {"inst"}
      BY <1>2 DEF InstCut
    <2> QED BY <1>1, <2>1, <2>2, Untouched DEF IInv, TypeOK, TablesSorted, Tables
  <1>3. CASE CsCut
    <2>1. Cs!TypeOK'
      BY <1>1, <1>3, CsCutKeeps DEF CsCut, IInv, TypeOK
    <2>2. UNCHANGED <<inst, mcl, trade>> /\ spoiled' = spoiled \cup {"cs"}
      BY <1>3 DEF CsCut
    <2> QED BY <1>1, <2>1, <2>2, Untouched DEF IInv, TypeOK, TablesSorted, Tables
  <1>4. CASE MclCut
    <2>1. Mcl!TypeOK'
      BY <1>1, <1>4, MclCutKeeps DEF MclCut, IInv, TypeOK
    <2>2. UNCHANGED <<inst, cs, trade>> /\ spoiled' = spoiled \cup {"mcl"}
      BY <1>4 DEF MclCut
    <2> QED BY <1>1, <2>1, <2>2, Untouched DEF IInv, TypeOK, TablesSorted, Tables
  <1>5. CASE TradeCut
    <2>1. Trade!TypeOK'
      BY <1>1, <1>5, TradeCutKeeps DEF TradeCut, IInv, TypeOK
    <2>2. UNCHANGED <<inst, cs, mcl>> /\ spoiled' = spoiled \cup {"trade"}
      BY <1>5 DEF TradeCut
    <2> QED BY <1>1, <2>1, <2>2, Untouched DEF IInv, TypeOK, TablesSorted, Tables
  <1> QED BY <1>2, <1>3, <1>4, <1>5 DEF stopitInCall

LEMMA AttachKeepsIInv == IInv /\ initsmt => IInv'
  <1> SUFFICES ASSUME IInv, initsmt PROVE IInv'
    OBVIOUS
  <1>1. /\ ret' \in Value \cup {None} /\ exists' \in BOOLEAN /\ attached' \in BOOLEAN
    BY ReturnTyped DEF IInv, initsmt
  <1>2. CASE exists
    <2>1. UNCHANGED <<inst, cs, mcl, trade, spoiled>>
      BY <1>2 DEF initsmt
    <2> QED BY <1>1, <2>1, Untouched DEF IInv, TypeOK, TablesSorted
  <1>3. CASE ~exists
    <2>1. Cleared /\ spoiled' = {}
      BY <1>3 DEF initsmt, IInv, TypeOK
    <2> QED BY <1>1, <2>1, InstCleared, CsCleared, MclCleared, TradeCleared
            DEF Cleared, IInv, TypeOK, TablesSorted
  <1> QED BY <1>2, <1>3

LEMMA NextIInv == IInv /\ [Next]_vars => IInv'
  <1> SUFFICES ASSUME IInv, [Next]_vars PROVE IInv'
    OBVIOUS
  <1>1. CASE stopit \/ Remove \/ UNCHANGED vars
    <2>1. /\ UNCHANGED <<inst, cs, mcl, trade, spoiled>>
          /\ ret' \in Value \cup {None} /\ exists' \in BOOLEAN /\ attached' \in BOOLEAN
      BY <1>1, ReturnTyped DEF stopit, Remove, vars, IInv, TypeOK
    <2> QED BY <2>1, Untouched DEF IInv, TypeOK, TablesSorted
  <1> QED BY <1>1, CallKeepsIInv, CutKeepsIInv, AttachKeepsIInv DEF Next

\* Through any calls, complete or interrupted, restarts and removals of the
\* segment, the search of every table finds a key's record exactly when there is
\* one, but for a table whose last change was interrupted (bsearch and the qsort at
\* the end of create, update and delete in smtshm.c, and the four comparison
\* functions).
THEOREM SearchCorrect == Spec => []EveryKeyFound
  <1>1. IInv => EveryKeyFound
    BY InstFound, MclFound, CsFound, TradeFound DEF IInv, TypeOK, TablesSorted, EveryKeyFound
  <1> QED BY <1>1, InitIInv, NextIInv, PTL DEF Spec
=============================================================================
