--------------------------- MODULE MessageFormat ---------------------------
(***************************************************************************)
(* What the exchange sends: the columns of a message, its appendage list   *)
(* and how both become bytes (docs/MESSAGE_FORMAT.md, docs/DATA_TYPE.md;   *)
(* for the NBBO and trade messages, whose tables they leave to the         *)
(* exchange's document, the lengths that smartoption.c names at its top).  *)
(* Nothing here is taken from the functions that decode.                   *)
(***************************************************************************)
EXTENDS Integers, Sequences

Byte == 0 .. 255

\* Numbers are big-endian: what is left of v without its last k bytes.
Shifted(v, len) ==
    LET left[k \in 0 .. len] == IF k = 0 THEN v ELSE left[k - 1] \div 256
    IN  left
BigEndian(v, len) == [i \in 1 .. len |-> Shifted(v, len)[len - i] % 256]

\* v as a signed and as an unsigned number of len bytes.
Fits(v, len) == v \in Int /\ Shifted(v, len)[len - 1] \in -128 .. 127
Unsigned(v, len) == v \in Int /\ Shifted(v, len)[len] = 0

-----------------------------------------------------------------------------
\* A column belongs to the message or to a side of it.  An alpha of length 0 is as
\* long as the column before it says.  An implied column is not sent: the decimal
\* places of a form, or which side the columns in front of it are.
Column(of, name, kind, len) == [of |-> of, name |-> name, kind |-> kind, len |-> len]
Number(name, len) == Column("message", name, "uint", len)
Alpha(name, len) == Column("message", name, "alpha", len)

StandardHeader == << Number("msgtype", 1), Number("protocol_id", 1), Number("channel_index", 1),
                     Number("message_flag", 1), Number("upstream_seqn", 4), Number("upstream_nanos", 4),
                     Number("instrument_locate", 4) >>

SentForm(t) == CASE t \in {\h60, \h63, \h70} -> "short" [] t \in {\h61, \h64, \h71} -> "long"
                 [] OTHER -> "extended"
DenominatorColumn(of, form) ==
    IF form = "extended" THEN Column(of, "denominator", "uint", 1)
    ELSE Column(of, "denominator", "implied", IF form = "short" THEN 2 ELSE 4)
PriceColumn(of, form) ==
    Column(of, "price", "price", CASE form = "short" -> 2 [] form = "long" -> 4 [] form = "extended" -> 8)

SideColumn(of) == IF of = "given" THEN Column(of, "side", "side", 1)
                  ELSE Column(of, "side", "implied", 0)

SideColumns(of, form) ==
    << Column(of, "center", "uint", 2), DenominatorColumn(of, form), PriceColumn(of, form),
       Column(of, "size", "uint", IF form = "extended" THEN 4 ELSE 2),
       SideColumn(of) >>

QuoteColumns(t) == StandardHeader
    \o (IF t <= \h62 THEN SideColumns("bid", SentForm(t)) \o SideColumns("ask", SentForm(t))
        ELSE SideColumns("given", SentForm(t)))
    \o << Number("condition", 1), Number("flags", 1) >>

TradeColumns(t) == StandardHeader
    \o << Number("market_center_locate", 2), Number("trade_id", 4),
          DenominatorColumn("message", SentForm(t)), PriceColumn("message", SentForm(t)),
          Number("size", IF SentForm(t) = "extended" THEN 8 ELSE 2),
          Number("price_flags", 1), Number("eligibility_flags", 1), Number("report_flags", 2),
          Number(IF t = \h73 THEN "cancel_flags" ELSE "change_flags", 1) >>

QuoteTypes == \h60 .. \h65
SentTypes == {\h20, \h22, \h30, \h33} \cup QuoteTypes \cup \h70 .. \h73

Columns(t) ==
    CASE t = \h20 -> << Number("msgtype", 1), Number("timestamp", 8), Alpha("event_code", 4) >>
      [] t = \h22 -> << Number("msgtype", 1), Number("protocol_id", 1), Number("channel_index", 1),
                        Number("seconds", 4) >>
      [] t = \h30 -> << Number("msgtype", 1), Number("locate_code", 2), Alpha("MIC", 4) >>
      [] t = \h33 -> << Number("msgtype", 1), Number("locate_code", 4), Alpha("country_code", 2),
                        Alpha("currency_code", 3), Alpha("MIC", 4), Number("product_type", 1),
                        Number("symbol_length", 1), Alpha("symbol", 0) >>
      [] t \in QuoteTypes -> QuoteColumns(t)
      [] t \in \h70 .. \h73 -> TradeColumns(t)

-----------------------------------------------------------------------------
\* A message has a value for each column: a number v of len bytes or, where len is
\* 0, bytes.
CodeB == 66
CodeS == 83
Value(x) == x.bytes \in Seq(Byte) /\ x.len \in 0 .. 8 /\ x.v \in Int
WireValue(x) == IF x.len = 0 THEN x.bytes ELSE BigEndian(x.v, x.len)

TypeSent(m) == m.values[1].v

Fills(x, c, before) ==
    CASE c.kind = "uint" -> x.len = c.len /\ Unsigned(x.v, x.len)
      [] c.kind = "price" -> x.len = c.len /\ Fits(x.v, x.len)
      [] c.kind = "alpha" -> x.len = 0 /\ Len(x.bytes) = (IF c.len = 0 THEN before.v ELSE c.len)
      [] c.kind = "side" -> x.len = c.len /\ x.v \in {CodeB, CodeS}
      [] c.kind = "implied" -> x.len = 0 /\ x.bytes = << >>

\* The data of an element are bytes, a number, or both: a date is month and day in
\* front of the year, a decimal of the extended form its places in front of it.
ValueKind(code) == CASE code \in {1, 2, 143} -> "alpha" [] code = 3 -> "date"
                     [] code \in {70, 72, 81, 145, 146} -> "uint"
                     [] code \in {4, 71, 100} \cup 65 .. 68 \cup 73 .. 75 -> "price"
ValueTypes == {1, 2, 3, 4, 70, 71, 72, 81, 100, 143, 145, 146} \cup 65 .. 68 \cup 73 .. 75

Data(e) == e.bytes \o BigEndian(e.v, e.len)
WireElement(e) == << Len(Data(e)), e.format, e.code >> \o Data(e)

IsElement(e) ==
    /\ e.code \in Byte /\ e.format \in Byte /\ Value(e) /\ Len(e.bytes) + e.len \in 1 .. 255
    /\ e.code \in ValueTypes =>
         CASE e.code = 2 -> e.format = 22 /\ e.len = 0 /\ Len(e.bytes) = 1
           [] e.code \in {1, 143} -> e.format = 15 /\ e.len = 0
           [] ValueKind(e.code) = "uint" ->
                /\ e.format \in 7 .. 10 /\ e.bytes = << >>
                /\ e.len = <<1, 2, 4, 8>>[e.format - 6] /\ Unsigned(e.v, e.len)
           [] ValueKind(e.code) = "date" ->
                /\ e.format = 16 /\ Len(e.bytes) = 2 /\ e.bytes[1] \in 1 .. 12 /\ e.bytes[2] \in 1 .. 31
                /\ e.len = 2 /\ Unsigned(e.v, 2)
           [] ValueKind(e.code) = "price" ->
                /\ e.len # 0 /\ Fits(e.v, e.len)
                /\ \/ e.format = 1 /\ e.bytes = << >> /\ e.len = 2
                   \/ e.format = 2 /\ e.bytes = << >> /\ e.len \in {4, 8} /\ (e.len = 8 => e.code = 4)
                   \/ e.format = 3 /\ Len(e.bytes) = 1

InFormat(m) ==
    /\ Len(m.values) \in Nat \ {0} /\ DOMAIN m.values = 1 .. Len(m.values)
    /\ \A i \in DOMAIN m.values : Value(m.values[i])
    /\ m.values[1].len = 1 /\ Unsigned(TypeSent(m), 1)
    /\ Len(m.list) \in Nat /\ DOMAIN m.list = 1 .. Len(m.list)
    /\ \A j \in DOMAIN m.list : IsElement(m.list[j])
    /\ TypeSent(m) \in SentTypes =>
         /\ Len(m.values) = Len(Columns(TypeSent(m)))
         /\ \A i \in DOMAIN m.values :
              Fills(m.values[i], Columns(TypeSent(m))[i], m.values[IF i = 1 THEN 1 ELSE i - 1])
    /\ TypeSent(m) \in QuoteTypes => m.list = << >>

\* The parts of a message in the order in which they are sent, and the bytes of
\* the first p of them.
Pieces(m) == [p \in 1 .. Len(m.values) + Len(m.list) |->
                IF p <= Len(m.values) THEN WireValue(m.values[p])
                ELSE WireElement(m.list[p - Len(m.values)])]
SentUpTo(m) ==
    LET bytes[p \in 0 .. Len(Pieces(m))] == IF p = 0 THEN << >> ELSE bytes[p - 1] \o Pieces(m)[p]
    IN  bytes
Wire(m) == SentUpTo(m)[Len(Pieces(m))]
=============================================================================
