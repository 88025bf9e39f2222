----------------------------- MODULE ShmSegment -----------------------------
(***************************************************************************)
(* The shared segment of smtfep (SHM_SMART): four tables laid out one      *)
(* behind the other, which outlive the process.  initsmt attaches the      *)
(* segment, and clears it only when it has just created it.  Each table is *)
(* a SortedTable with the order of its own comparison function, and a call *)
(* of it may be interrupted (TableCrash).                                  *)
(***************************************************************************)
EXTENDS Naturals

CONSTANTS Locate,           \* locate codes of instruments and market centers
          Index,            \* protocol ids and channel indexes
          TradeId,
          InstRoom,         \* fep->xchg->room
          MaxChannel,       \* MAX_CHANNEL
          MaxMarketCenter,  \* MAX_MARKET_CENTER
          MaxTradeId,       \* MAX_TRADE_ID
          Value, Zero,      \* payloads, and the one memset leaves
          None

ASSUME SegmentAssumption ==
    /\ Locate \subseteq Nat /\ 0 \in Locate
    /\ Index \subseteq Nat /\ 0 \in Index
    /\ TradeId \subseteq Nat /\ 0 \in TradeId
    /\ {InstRoom, MaxChannel, MaxMarketCenter, MaxTradeId} \subseteq Nat
    /\ Zero \in Value

VARIABLES
    instList, instSize,     \* inst_list, *inst_size
    csList, csSize,         \* cs_list, *cs_size
    mclList, mclSize,       \* mcl_list, *mcl_size
    tradeList, tradeSize,   \* trade_list, *trade_size
    ret,                    \* what the last call returned
    exists,                 \* the segment is known to the system
    attached,               \* smtfep runs, with the segment mapped
    spoiled                 \* history: the tables whose last change was interrupted

inst == <<instList, instSize>>
cs == <<csList, csSize>>
mcl == <<mclList, mclSize>>
trade == <<tradeList, tradeSize>>
vars == <<inst, cs, mcl, trade, ret, exists, attached, spoiled>>

Tables == {"inst", "cs", "mcl", "trade"}

ChannelKey == [protocol : Index, channel : Index]
TradeKey == [instrument : Locate, id : TradeId]

\* The four comparison functions.
cmplocate(a, b) == a < b
cmpcsByProtocol(a, b) == a.protocol < b.protocol        \* a bug: the index is not compared
cmpmcl(a, b) == a < b
cmpcs(a, b) == \/ a.protocol < b.protocol
               \/ a.protocol = b.protocol /\ a.channel < b.channel
cmptrade(a, b) == \/ a.instrument < b.instrument
                  \/ a.instrument = b.instrument /\ a.id < b.id

ZeroLocate == [key |-> 0, val |-> Zero]
ZeroChannel == [key |-> [protocol |-> 0, channel |-> 0], val |-> Zero]
ZeroTrade == [key |-> [instrument |-> 0, id |-> 0], val |-> Zero]

Inst == INSTANCE TableCrash
            WITH crashed <- FALSE, Key <- Locate, Room <- InstRoom, Blank <- ZeroLocate,
                 Before <- cmplocate, slots <- instList, size <- instSize
Cs == INSTANCE TableCrash
            WITH crashed <- FALSE, Key <- ChannelKey, Room <- MaxChannel, Blank <- ZeroChannel,
                 Before <- cmpcs, slots <- csList, size <- csSize
Mcl == INSTANCE TableCrash
            WITH crashed <- FALSE, Key <- Locate, Room <- MaxMarketCenter, Blank <- ZeroLocate,
                 Before <- cmpmcl, slots <- mclList, size <- mclSize
Trade == INSTANCE TableCrash
            WITH crashed <- FALSE, Key <- TradeKey, Room <- MaxTradeId, Blank <- ZeroTrade,
                 Before <- cmptrade, slots <- tradeList, size <- tradeSize

\* What memset leaves: every size 0, every slot zero.
Cleared ==
    /\ instList' = [i \in 1 .. InstRoom |-> ZeroLocate] /\ instSize' = 0
    /\ csList' = [i \in 1 .. MaxChannel |-> ZeroChannel] /\ csSize' = 0
    /\ mclList' = [i \in 1 .. MaxMarketCenter |-> ZeroLocate] /\ mclSize' = 0
    /\ tradeList' = [i \in 1 .. MaxTradeId |-> ZeroTrade] /\ tradeSize' = 0

Init == /\ instList = [i \in 1 .. InstRoom |-> ZeroLocate] /\ instSize = 0
        /\ csList = [i \in 1 .. MaxChannel |-> ZeroChannel] /\ csSize = 0
        /\ mclList = [i \in 1 .. MaxMarketCenter |-> ZeroLocate] /\ mclSize = 0
        /\ tradeList = [i \in 1 .. MaxTradeId |-> ZeroTrade] /\ tradeSize = 0
        /\ ret = None /\ exists = FALSE /\ attached = FALSE /\ spoiled = {}

\* initsmt with clr = 0, as main calls it: a segment that is there is taken as
\* it is, a new one is cleared.
initsmt ==
    /\ ~attached
    /\ IF exists THEN UNCHANGED <<inst, cs, mcl, trade, spoiled>> ELSE Cleared /\ spoiled' = {}
    /\ exists' = TRUE /\ attached' = TRUE
    /\ UNCHANGED ret

\* The process ends between two calls; the segment stays.
stopit == /\ attached /\ attached' = FALSE
          /\ ret' = None
          /\ UNCHANGED <<inst, cs, mcl, trade, exists, spoiled>>

\* The segment is removed while no process has it, as a reboot does.
Remove == /\ ~attached /\ exists /\ exists' = FALSE
          /\ UNCHANGED <<inst, cs, mcl, trade, ret, attached, spoiled>>

createInst(r) == Inst!Create(r) /\ UNCHANGED <<cs, mcl, trade>>
readInst(k) == Inst!Read(k) /\ UNCHANGED <<cs, mcl, trade>>
updateInst(r) == Inst!Update(r) /\ UNCHANGED <<cs, mcl, trade>>
deleteInst(k) == Inst!Delete(k) /\ UNCHANGED <<cs, mcl, trade>>

createCs(r) == Cs!Create(r) /\ UNCHANGED <<inst, mcl, trade>>
readCs(k) == Cs!Read(k) /\ UNCHANGED <<inst, mcl, trade>>
updateCs(r) == Cs!Update(r) /\ UNCHANGED <<inst, mcl, trade>>
deleteCs(k) == Cs!Delete(k) /\ UNCHANGED <<inst, mcl, trade>>

\* A bug: the check for room lets one record too many in.
createMclOneMore(r) ==
    /\ UNCHANGED <<inst, cs, trade>>
    /\ \/ Mcl!Create(r)
       \/ /\ 0 \in Mcl!Bsearch(r.key) /\ mclSize = MaxMarketCenter
          /\ mclSize' = mclSize + 1 /\ ret' = r.val /\ UNCHANGED mclList

createMcl(r) == Mcl!Create(r) /\ UNCHANGED <<inst, cs, trade>>
readMcl(k) == Mcl!Read(k) /\ UNCHANGED <<inst, cs, trade>>
updateMcl(r) == Mcl!Update(r) /\ UNCHANGED <<inst, cs, trade>>
deleteMcl(k) == Mcl!Delete(k) /\ UNCHANGED <<inst, cs, trade>>

createTrade(r) == Trade!Create(r) /\ UNCHANGED <<inst, cs, mcl>>
readTrade(k) == Trade!Read(k) /\ UNCHANGED <<inst, cs, mcl>>
updateTrade(r) == Trade!Update(r) /\ UNCHANGED <<inst, cs, mcl>>
deleteTrade(k) == Trade!Delete(k) /\ UNCHANGED <<inst, cs, mcl>>

InstCall == \/ \E r \in Inst!Record : createInst(r) \/ updateInst(r)
            \/ \E k \in Locate : readInst(k) \/ deleteInst(k)
CsCall == \/ \E r \in Cs!Record : createCs(r) \/ updateCs(r)
          \/ \E k \in ChannelKey : readCs(k) \/ deleteCs(k)
MclCall == \/ \E r \in Mcl!Record : createMcl(r) \/ updateMcl(r)
           \/ \E k \in Locate : readMcl(k) \/ deleteMcl(k)
TradeCall == \/ \E r \in Trade!Record : createTrade(r) \/ updateTrade(r)
             \/ \E k \in TradeKey : readTrade(k) \/ deleteTrade(k)

\* What is left of spoiled once a call of a table has returned: qsort is the
\* last step of every call that changes one.
Repaired == spoiled \ ((IF UNCHANGED inst THEN {} ELSE {"inst"})
                       \cup (IF UNCHANGED cs THEN {} ELSE {"cs"})
                       \cup (IF UNCHANGED mcl THEN {} ELSE {"mcl"})
                       \cup (IF UNCHANGED trade THEN {} ELSE {"trade"}))

Call == /\ attached
        /\ InstCall \/ CsCall \/ MclCall \/ TradeCall
        /\ spoiled' = Repaired
        /\ UNCHANGED <<exists, attached>>

InstCut == Inst!Interrupted /\ spoiled' = spoiled \cup {"inst"} /\ UNCHANGED <<cs, mcl, trade>>
CsCut == Cs!Interrupted /\ spoiled' = spoiled \cup {"cs"} /\ UNCHANGED <<inst, mcl, trade>>
MclCut == Mcl!Interrupted /\ spoiled' = spoiled \cup {"mcl"} /\ UNCHANGED <<inst, cs, trade>>
TradeCut == Trade!Interrupted /\ spoiled' = spoiled \cup {"trade"} /\ UNCHANGED <<inst, cs, mcl>>

\* The process ends inside a call of a table; the segment stays as it is then.
stopitInCall == /\ attached /\ attached' = FALSE
                /\ InstCut \/ CsCut \/ MclCut \/ TradeCut
                /\ ret' = None
                /\ UNCHANGED exists

Next == initsmt \/ stopit \/ stopitInCall \/ Remove \/ Call

Spec == Init /\ [][Next]_vars

-----------------------------------------------------------------------------
\* The variables have their types: in particular each table stays in the part of
\* the segment that its own room gives it, also when calls are interrupted.
TypeOK == /\ Inst!TypeOK /\ Cs!TypeOK /\ Mcl!TypeOK /\ Trade!TypeOK
          /\ exists \in BOOLEAN /\ attached \in BOOLEAN /\ spoiled \subseteq Tables

\* bsearch works on every table that initsmt finds or creates, but for one whose
\* last change was interrupted: its search of every key, single or a pair, finds a
\* record exactly when there is one.  An interrupted call spoils no table but its
\* own, and the next call that changes the table ends the disorder, duplicates or not.
EveryKeyFound ==
    /\ "inst" \notin spoiled => Inst!SearchFinds /\ Inst!SortedInv
    /\ "cs" \notin spoiled => Cs!SearchFinds /\ Cs!SortedInv
    /\ "mcl" \notin spoiled => Mcl!SearchFinds /\ Mcl!SortedInv
    /\ "trade" \notin spoiled => Trade!SearchFinds /\ Trade!SortedInv
=============================================================================
