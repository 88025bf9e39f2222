------------------------------- MODULE Decode -------------------------------
(***************************************************************************)
(* The decoding of one message (smartoption.c and the conversions of       *)
(* smttool.c): the type makes smt_decode choose a layout, the fields of    *)
(* the layout are read one after another, and the appendage list element   *)
(* by element up to the end.  A 64-bit word, signed or unsigned, is        *)
(* written as the signed integer with the same bits.                       *)
(***************************************************************************)
EXTENDS MessageFormat

CONSTANT Messages   \* what may be sent

ASSUME MessagesAssumption == \A m \in Messages : InFormat(m)

VARIABLES
    sent,       \* the message
    raw_data,   \* its bytes
    shift,      \* what this build makes of INT64_C(-1) << 64: -1 or 0
    todo,       \* the fields of the layout still to be read
    rec,        \* the fields of smt_table read so far: name -> value
    offset,     \* how many bytes have been read
    proc,       \* smt_table->proc, "none" for NULL
    pc          \* "start", "fields", "list", "done" or "crashed"

vars == <<sent, raw_data, shift, todo, rec, offset, proc, pc>>

\* raw_data is 0 after the end of the message (initialize_smart).
Bytes(from, n) ==
    [i \in 1 .. n |-> IF from + i \in DOMAIN raw_data THEN raw_data[from + i] ELSE 0]

\* A bug: the sign is extended over the first byte, as if the shift were one
\* byte less.
Int64OverFirst(bytes) ==
    LET bits[i \in 0 .. Len(bytes)] ==
            IF i = 0 THEN 0
            ELSE IF i = 1 /\ bytes[1] >= 128 THEN -1 ELSE 256 * bits[i - 1] + bytes[i]
    IN  bits[Len(bytes)]

\* The word after each byte; before the first it is the sign.
Word(bytes) ==
    LET bits[i \in 0 .. Len(bytes)] ==
            IF i = 0 THEN (IF bytes[1] >= 128 THEN -1 ELSE 0) ELSE 256 * bits[i - 1] + bytes[i]
    IN  bits

\* convert_big_endian_to_int64_t, and to_uint64_t, which calls it: the sign of
\* the first byte is extended.  Eight bytes shift -1 by 64 places.
Int64(bytes) ==
    LET bits == Word(bytes)[Len(bytes)]
    IN  IF Len(bytes) = 8 /\ bits < 0 /\ shift = -1 THEN -1 ELSE bits

\* The number of len bytes at a place.  Without a byte its sign is that of the
\* byte that is there all the same.
Numeric(from, len) == IF len = 0 THEN Word(Bytes(from, 1))[0] ELSE Int64(Bytes(from, len))

-----------------------------------------------------------------------------
\* Fields: [name, kind, len].  A string of length 0 is as long as SizeOf says.
Field(name, kind, len) == [name |-> name, kind |-> kind, len |-> len]
UInt(name, len) == Field(name, "uint", len)
String(name, len) == Field(name, "string", len)
Decimal(name, len) == Field(name, "decimal", len)
SizeOf == [symbol |-> "symbol_length", reason_detail |-> "reason_detail_length", text |-> "text_length"]

\* Steps between fields: the denominator of a form without one; a depth that is
\* complete goes to its side, which a one-sided message gives in a byte.
Fix(places) == Field("denominator", "fix", places)
ToSide(side) == Field(side, "side", IF side = "given" THEN 1 ELSE 0)

\* The standard header of market data.
MarketHeader == << UInt("msgtype", 1), UInt("protocol_id", 1), UInt("channel_index", 1),
                   UInt("message_flag", 1), UInt("upstream_seqn", 4), UInt("upstream_nanos", 4) >>

MarketTypes == {\h80, \h90, \hB0, \hB2}

\* The tables of smt_decode for the types smt_default_decode reads.
Fixed(type) ==
    CASE type = \h20 -> << UInt("msgtype", 1), UInt("timestamp", 8), String("event_code", 4) >>
      [] type = \h22 -> << UInt("msgtype", 1), UInt("protocol_id", 1), UInt("channel_index", 1),
                           UInt("seconds", 4) >>
      [] type = \h30 -> << UInt("msgtype", 1), UInt("locate_code", 2), String("MIC", 4) >>
      [] type = \h33 -> << UInt("msgtype", 1), UInt("locate_code", 4), String("country_code", 2),
                           String("currency_code", 3), String("MIC", 4), UInt("product_type", 1),
                           UInt("symbol_length", 1), String("symbol", 0) >>
      [] type = \h80 -> << UInt("instrument_locate", 4), UInt("market_center_locate", 2),
                           UInt("value_update_flags", 4) >>
      [] type = \h90 -> << UInt("instrument_locate", 4), UInt("market_center_locate", 2),
                           UInt("status_type", 1), UInt("status_code", 1), UInt("reason_code", 1),
                           UInt("status_flags", 1), UInt("reason_detail_length", 1),
                           String("reason_detail", 0) >>
      [] type = \hB0 -> << String("event_code", 4), UInt("market_center_locate", 2) >>
      [] type = \hB2 -> << UInt("text_length", 2), String("text", 0) >>
      [] type = \hC0 -> << UInt("msgtype", 1), UInt("locate_code", 4) >>
      [] type = \hC3 -> << UInt("msgtype", 1), UInt("root_code_locate", 4), UInt("component_index", 4),
                           UInt("component_total", 4), UInt("deliverable_units", 4),
                           UInt("settlement_method", 1), UInt("fixed_amount_denominator", 1),
                           UInt("fixed_amount_numerator", 8), String("currency_code", 3),
                           Decimal("strike_percent", 2), UInt("component_symbol_locate", 4) >>

DefaultTypes == {\h20, \h22, \h30, \h33, \h80, \h90, \hB0, \hB2, \hC0, \hC3}
DefaultFields(type) == (IF type \in MarketTypes THEN MarketHeader ELSE << >>) \o Fixed(type)

\* NBBO: two sides in 0x60 to 0x62, one in 0x63 to 0x65; short, long, extended.
NbboTypes == \h60 .. \h65
TwoSided(type) == type <= \h62
Form(type) == IF type \in {\h60, \h63, \h70} THEN "short"
              ELSE IF type \in {\h61, \h64, \h71} THEN "long" ELSE "extended"
PlacesTwo(form) == 2            \* a bug: the short form's places for every form
Places(form) == IF form = "short" THEN 2 ELSE 4
Denominator(form) == IF form = "extended" THEN UInt("denominator", 1) ELSE Fix(Places(form))
PriceSizeLong(form) == IF form = "extended" THEN 8 ELSE 4       \* a bug: short read as long
PriceSize(form) == CASE form = "short" -> 2 [] form = "long" -> 4 [] form = "extended" -> 8

Depth(form) == << UInt("center", 2), Denominator(form), Decimal("price", PriceSize(form)),
                  UInt("size", IF form = "extended" THEN 4 ELSE 2) >>

\* The layout that smt_nbbo_decode follows.
NbboFields(type) ==
    LET depth == Depth(Form(type))
    IN  MarketHeader \o << UInt("instrument_locate", 4) >>
        \o (IF TwoSided(type) THEN depth \o << ToSide("bid") >> \o depth \o << ToSide("ask") >>
            ELSE depth \o << ToSide("given") >>)
        \o << UInt("condition", 1), UInt("flags", 1) >>

\* Trades 0x70 to 0x72 and the cancellation of one, 0x73.
TradeTypes == \h70 .. \h73
TradeFields(type) ==
    LET form == Form(type)
    IN  MarketHeader
        \o << UInt("instrument_locate", 4), UInt("market_center_locate", 4), UInt("trade_id", 4) >>
        \o << Denominator(form), Decimal("price", PriceSize(form)),
              UInt("size", IF form = "extended" THEN 8 ELSE 2),
              UInt("price_flags", 1), UInt("eligibility_flags", 1), UInt("report_flags", 2),
              UInt(IF type = \h73 THEN "cancel_flags" ELSE "change_flags", 1) >>

-----------------------------------------------------------------------------
\* decode_fixedfld and msg2fixedfld: what one field does to the record.  The room a
\* string has there is not modelled: two bytes for put_or_call, 256 for root.
DepthNames == {"center", "denominator", "price", "size"}
Length(f) == IF f.kind = "string" /\ f.len = 0 THEN rec[SizeOf[f.name]]
             ELSE IF f.kind = "fix" THEN 0 ELSE f.len

Put(r, name, value) == [n \in DOMAIN r \cup {name} |-> IF n = name THEN value ELSE r[n]]
Moved(side) == Put([n \in DOMAIN rec \ DepthNames |-> rec[n]], side, [n \in DepthNames |-> rec[n]])

With(f) ==
    LET bytes == Bytes(offset, Length(f))
        side == IF f.name # "given" THEN f.name
                ELSE CASE bytes[1] = CodeB -> "bid" [] bytes[1] = CodeS -> "ask" [] OTHER -> "lost"
    IN  CASE f.kind = "uint" -> Put(rec, f.name, Int64(bytes))
          [] f.kind = "string" -> Put(rec, f.name, bytes)
          [] f.kind = "decimal" ->
               Put(rec, f.name, [num |-> Int64(bytes),
                                 den |-> IF "denominator" \in DOMAIN rec THEN rec.denominator ELSE 0])
          [] f.kind = "fix" -> Put(rec, f.name, f.len)
          [] f.kind = "side" -> Moved(side)

-----------------------------------------------------------------------------
\* An element of the appendage list: what its value type code stands for.
Element(code) ==
    CASE code = 1 -> String("root", 0)
      [] code = 2 -> String("put_or_call", 0)
      [] code = 3 -> Field("expiration_date", "date", 4)
      [] code = 4 -> Decimal("strike", 0)
      [] code \in 65 .. 68 -> Decimal(<<"high", "low", "last", "open">>[code - 64], 0)
      [] code = 70 -> UInt("total_volume", 0)
      [] code = 71 -> Decimal("net_change", 0)
      [] code = 72 -> UInt("open_interest", 0)
      [] code \in 73 .. 75 -> Decimal(<<"tick", "value_bid", "value_ask">>[code - 72], 0)
      [] code = 81 -> UInt("parent_locate_code", 0)
      [] code = 100 -> Decimal("underlying_price", 0)
      [] code = 143 -> String("upstream_condition_detail", 0)
      [] code = 145 -> UInt("trade_report_detail", 0)
      [] code = 146 -> UInt("extended_report_flags", 0)
ElementCodes == 1 .. 4 \cup 65 .. 68 \cup 70 .. 75 \cup {81, 100, 143, 145, 146}

\* The format codes the getter of a kind accepts.
Formats(kind) == CASE kind = "string" -> {15, 22} [] kind = "uint" -> 7 .. 10
                   [] kind = "date" -> {16} [] kind = "decimal" -> 1 .. 3

\* get_append_string, _numeric, _date and _decimal at a place in the message.
ElementValue(kind, format, from, len) ==
    CASE kind = "string" -> Bytes(from, len)
      [] kind = "uint" -> Numeric(from, len)
      [] kind = "date" -> 10000 * Int64(Bytes(from + 2, 2)) + 100 * Int64(Bytes(from, 1))
                          + Int64(Bytes(from + 1, 1))
      [] kind = "decimal" ->
            IF format = 3 THEN [num |-> Numeric(from + 1, len - 1), den |-> Int64(Bytes(from, 1))]
            ELSE [num |-> Numeric(from, len), den |-> 2 * format]

-----------------------------------------------------------------------------
Init == /\ sent \in Messages /\ raw_data = Wire(sent) /\ shift \in {-1, 0}
        /\ todo = << >> /\ rec = << >> /\ offset = 0 /\ proc = "none" /\ pc = "start"

\* allocate_tr_packet: the type that smt_decode switches on.
type == Int64(Bytes(0, 1))

Handler(t) == CASE t = \h22 -> "smt_0x22" [] t = \h30 -> "smt_0x30" [] t = \h33 -> "smt_0x33"
                [] t \in \h61 .. \h65 -> "smt_nbbo" [] t \in TradeTypes -> "smt_trade"
                [] OTHER -> "none"

\* smt_decode chooses the layout.
Layout(t) == CASE t \in DefaultTypes -> DefaultFields(t)
               [] t \in NbboTypes -> NbboFields(t)
               [] t \in TradeTypes -> TradeFields(t)

Dispatch == /\ pc = "start" /\ type \in DefaultTypes \cup NbboTypes \cup TradeTypes
            /\ todo' = Layout(type) /\ pc' = "fields"
            /\ UNCHANGED <<sent, raw_data, shift, rec, offset, proc>>

Unknown == /\ pc = "start" /\ type \notin DefaultTypes \cup NbboTypes \cup TradeTypes
           /\ pc' = "done"
           /\ UNCHANGED <<sent, raw_data, shift, todo, rec, offset, proc>>

\* A length below 0 is that of 2^64 bytes less to the copy of a string.
ReadField == /\ pc = "fields" /\ todo # << >> /\ todo' = Tail(todo)
             /\ \/ /\ Length(Head(todo)) < 0
                   /\ pc' = "crashed" /\ UNCHANGED <<rec, offset>>
                \/ /\ Length(Head(todo)) >= 0
                   /\ rec' = With(Head(todo)) /\ offset' = offset + Length(Head(todo))
                   /\ UNCHANGED pc
             /\ UNCHANGED <<sent, raw_data, shift, proc>>

\* An NBBO message has no appendage list.
FieldsRead == /\ pc = "fields" /\ todo = << >>
              /\ IF type \in NbboTypes THEN pc' = "done" /\ proc' = Handler(type)
                 ELSE pc' = "list" /\ UNCHANGED proc
              /\ UNCHANGED <<sent, raw_data, shift, todo, rec, offset>>

\* A bug: an element with one byte of data is not looked for at the end.
InListShort == pc = "list" /\ offset \in 0 .. Len(raw_data) - 5

\* smt_appendage_decode goes on while offset < raw_data_l - 1, compared without sign.
InList == pc = "list" /\ offset \in 0 .. Len(raw_data) - 2

\* How far an element of a length reaches, and a bug: it is not skipped.
NotPast(len) == offset
Past(len) == offset + 3 + len

\* One element; its length is added as an unsigned word.  A date has its own size;
\* another value of a size below 0 is copied or converted out of bounds.
DecodeElement ==
    /\ InList
    /\ LET header == [i \in 1 .. 3 |-> Int64(Bytes(offset + i - 1, 1))]
           len == header[1]
           f == Element(header[3])
           reads == header[3] \in ElementCodes /\ header[2] \in Formats(f.kind)
           size == IF f.kind = "date" THEN 4
                   ELSE IF f.kind = "decimal" /\ header[2] = 3 THEN len - 1 ELSE len
       IN  \/ /\ reads /\ size < 0
              /\ pc' = "crashed" /\ UNCHANGED <<rec, offset>>
           \/ /\ reads /\ size >= 0
              /\ rec' = Put(rec, f.name, ElementValue(f.kind, header[2], offset + 3, len))
              /\ offset' = Past(len) /\ UNCHANGED pc
           \/ /\ ~reads
              /\ offset' = Past(len) /\ UNCHANGED <<rec, pc>>
    /\ UNCHANGED <<sent, raw_data, shift, todo, proc>>

EndOfList == /\ pc = "list" /\ ~InList
             /\ pc' = "done" /\ proc' = Handler(type)
             /\ UNCHANGED <<sent, raw_data, shift, todo, rec, offset>>

Next == Dispatch \/ Unknown \/ ReadField \/ FieldsRead \/ DecodeElement \/ EndOfList

Spec == Init /\ [][Next]_vars
FairSpec == Spec /\ WF_vars(Next)

-----------------------------------------------------------------------------
\* The variables have their types.
TypeOK == /\ shift \in {-1, 0} /\ offset \in 0 .. Len(raw_data)
          /\ \A i \in DOMAIN raw_data : raw_data[i] \in 0 .. 255
          /\ todo # << >> => pc = "fields"
          /\ proc \in {"none", "smt_0x22", "smt_0x30", "smt_0x33", "smt_nbbo", "smt_trade"}
          /\ pc \in {"start", "fields", "list", "done", "crashed"}

\* The place of a column's value: the message or the side it is of.
SideGiven == IF \E i \in DOMAIN sent.values :
                   Columns(TypeSent(sent))[i].kind = "side" /\ sent.values[i].v = CodeB
             THEN "bid" ELSE "ask"
Side(of) == IF of = "given" THEN SideGiven ELSE of
Arrived(c) == /\ c.of # "message" => Side(c.of) \in DOMAIN rec
              /\ c.name \in (IF c.of = "message" THEN DOMAIN rec ELSE DOMAIN rec[Side(c.of)])
Got(c) == IF c.of = "message" THEN rec[c.name] ELSE rec[Side(c.of)][c.name]

\* A value as it was meant: every byte, every number that fits the signed word,
\* but for a negative price of eight bytes, which the shift by 64 may spoil.
Same(got, x, c) ==
    CASE c.kind = "alpha" -> got = x.bytes
      [] c.kind = "uint" -> Fits(x.v, x.len) => got = x.v
      [] c.kind = "price" -> x.len < 8 \/ x.v >= 0 => got.num = x.v
      [] c.kind = "implied" -> got = c.len

\* The decimal places of a price are in the column before it.
PlacesMeant(x, c) == IF c.kind = "implied" THEN c.len ELSE x.v

FieldsMeant ==
    \A i \in DOMAIN sent.values :
        LET c == Columns(TypeSent(sent))[i]
        IN  c.name # "side" =>
              /\ Arrived(c) /\ Same(Got(c), sent.values[i], c)
              /\ c.kind = "price" /\ Fits(PlacesMeant(sent.values[i - 1], Columns(TypeSent(sent))[i - 1]), 1)
                    => Got(c).den = PlacesMeant(sent.values[i - 1], Columns(TypeSent(sent))[i - 1])

\* An element the list holds once of its code.
Once(j) == /\ sent.list[j].code \in ValueTypes
           /\ \A k \in DOMAIN sent.list \ {j} : sent.list[k].code # sent.list[j].code

\* The decimal places of an element; a strike of eight bytes has ten.
PlacesOf(e) == IF e.format = 3 THEN e.bytes[1] ELSE IF e.len = 8 THEN 10 ELSE 2 * e.format
Means(got, e) ==
    CASE ValueKind(e.code) = "alpha" -> got = e.bytes
      [] ValueKind(e.code) = "uint" -> Fits(e.v, e.len) => got = e.v
      [] ValueKind(e.code) = "date" ->
           Fits(e.v, 2) => got = 10000 * e.v + 100 * e.bytes[1] + e.bytes[2]
      [] ValueKind(e.code) = "price" ->
           /\ e.len < 8 \/ e.v >= 0 => got.num = e.v
           /\ PlacesOf(e) < 128 => got.den = PlacesOf(e)

ListMeant == \A j \in DOMAIN sent.list : Once(j) =>
    LET name == Element(sent.list[j].code).name
    IN  name \in DOMAIN rec /\ Means(rec[name], sent.list[j])

\* What a handler is given is what the exchange meant: fields, sides and
\* appendage elements in the layouts of MESSAGE_FORMAT.md, whatever came first.
Meant == pc = "done" /\ proc # "none" => FieldsMeant /\ ListMeant

\* A value the conversion does not give as it was meant is off by its sign only:
\* an unsigned field with its top bit set keeps all its bytes, and a negative
\* price of eight bytes is what was meant or, where the shift by 64 gives -1, -1
\* (convert_big_endian_to_uint64_t).
OffBySignOnly == pc = "done" /\ proc # "none" =>
    \A i \in DOMAIN sent.values :
        LET c == Columns(TypeSent(sent))[i]
            x == sent.values[i]
        IN  /\ c.kind = "uint" /\ x.len < 8 => BigEndian(Got(c), x.len) = BigEndian(x.v, x.len)
            /\ c.kind = "price" => Got(c).num \in {x.v, -1}

\* A handler is only called when the whole message has been read: the cursor is
\* at its end, not before and not beyond (smt_appendage_decode, decode_fixedfld),
\* as long as no element takes it in front of the message.
WholeMessageRead == pc = "done" /\ proc # "none" => offset = Len(raw_data)

\* The cursor is at an element whose length has its top bit set, which is added as
\* a negative number.
Returns == InList /\ Bytes(offset, 1)[1] >= 128

\* The list does not always go "on to the end of the message" (MESSAGE_FORMAT.md 1):
\* a known type of such a length crashes, an unknown one takes the cursor back, of
\* 253 bytes to itself.  The decoding of a message ends unless the cursor comes
\* back to an element like that for ever (smt_appendage_decode).
Ends == <>(pc \in {"done", "crashed"}) \/ []<>Returns

\* The market center of a trade takes two bytes (TRADE_MARKET_CENTER_LOCATE_LEN),
\* and the trade id, price and size follow it.
TradeInPlace == Head(raw_data) \in TradeTypes => Meant
=============================================================================
