----------------------------- MODULE Transforms -----------------------------
(***************************************************************************)
(* src/transforms.py: the rules one CSV row goes through, from the text    *)
(* the reader hands over to a row of events or of events_quarantine.       *)
(*                                                                         *)
(* A row is a record with every column any stage adds; a column that no    *)
(* stage has written yet holds NULL, and withColumn is EXCEPT.  The text   *)
(* of a numeric or time field is abstracted to what the casts tell apart:  *)
(* NULL, Garbage (parses as nothing), or the number it denotes.  A price   *)
(* text denotes mills (a tenth of a cent) because the cast rounds to       *)
(* cents; an instant is a number of seconds.                               *)
(***************************************************************************)
EXTENDS Integers

CONSTANTS
    NULL,           \* SQL NULL, Python None
    Garbage,        \* a text no cast accepts, such as not-a-timestamp
    Texts,          \* the values of the text columns
    EmptyText,      \* ""
    TrimLower,      \* trim(lower(_)) on Texts
    EVENT_TYPES,    \* view, add_to_cart, purchase
    Purchase,
    PriceLimit,     \* the first magnitude decimal(10,2) cannot hold, in cents
    QuantityLimit,  \* the first magnitude an int cannot hold
    RevenueLimit    \* the first magnitude decimal(12,2) cannot hold, in cents

\* trim(lower(_)) is idempotent, and the vocabulary is already in that form.
ASSUME TextAssumption ==
    /\ EmptyText \in Texts
    /\ Purchase \in EVENT_TYPES
    /\ EVENT_TYPES \subseteq Texts
    /\ EmptyText \notin EVENT_TYPES
    /\ TrimLower \in [Texts -> Texts]
    /\ \A t \in Texts : TrimLower[TrimLower[t]] = TrimLower[t]
    /\ \A t \in EVENT_TYPES \union {EmptyText} : TrimLower[t] = t

ASSUME LimitAssumption ==
    /\ PriceLimit \in Nat \ {0}
    /\ QuantityLimit \in Nat \ {0}
    /\ RevenueLimit \in Nat \ {0}

OrNull(S) == S \union {NULL}
NumberText == Int \union {NULL, Garbage}

(***************************************************************************)
(* One line of a file as the reader of streaming.build_source yields it:   *)
(* every column a string or NULL, an empty field read as NULL, and in      *)
(* corrupt the whole text of a line with a wrong number of fields.         *)
(***************************************************************************)
Lines ==
    [corrupt : OrNull({Garbage}),
     event_id : OrNull(Texts), user_id : OrNull(Texts),
     product_id : OrNull(Texts), category : OrNull(Texts),
     event_type : OrNull(Texts),
     event_time : NumberText, generated_at : NumberText,
     price : NumberText, quantity : NumberText]

Reasons ==
    {"structurally_corrupt_line", "missing_event_id", "missing_user_id",
     "unknown_event_type", "missing_product_id", "unparseable_event_time",
     "unparseable_generated_at", "invalid_price", "invalid_quantity"}

\* NULL and Garbage are no number, text, truth value or reason.
ASSUME NullAssumption ==
    /\ NULL \notin Int \union Texts \union BOOLEAN \union Reasons \union {Garbage}
    /\ Garbage \notin Int \union Texts

RowsOfBatch ==
    [corrupt : OrNull({Garbage}),
     event_id : OrNull(Texts), user_id : OrNull(Texts),
     product_id : OrNull(Texts), category : OrNull(Texts),
     event_type : OrNull(Texts),
     event_time : NumberText, generated_at : NumberText,
     price : NumberText, quantity : NumberText,
     price_num : OrNull(Int), quantity_num : OrNull(Int),
     event_time_ts : OrNull(Int), generated_at_ts : OrNull(Int),
     ingested_at : OrNull(Int), revenue : OrNull(Int),
     latency_ms : OrNull(Int), rejection_reason : OrNull(Reasons)]

\* The row of batch_df before any stage has added its columns.
ReadLine(line) ==
    [corrupt |-> line.corrupt,
     event_id |-> line.event_id, user_id |-> line.user_id,
     product_id |-> line.product_id, category |-> line.category,
     event_type |-> line.event_type,
     event_time |-> line.event_time, generated_at |-> line.generated_at,
     price |-> line.price, quantity |-> line.quantity,
     price_num |-> NULL, quantity_num |-> NULL,
     event_time_ts |-> NULL, generated_at_ts |-> NULL,
     ingested_at |-> NULL, revenue |-> NULL,
     latency_ms |-> NULL, rejection_reason |-> NULL]

-----------------------------------------------------------------------------
(* cast_types: try_cast yields NULL where an ANSI cast would raise. *)

Magnitude(n) == IF n < 0 THEN -n ELSE n

\* Mills to cents, half away from zero, as a cast to a decimal of scale 2 does.
RoundToCents(mills) ==
    IF mills < 0 THEN -((5 - mills) \div 10) ELSE (mills + 5) \div 10

Fit(n, limit) == IF Magnitude(n) < limit THEN n ELSE NULL

TryCastPrice(text) ==
    IF text \in {NULL, Garbage} THEN NULL
                                ELSE Fit(RoundToCents(text), PriceLimit)

TryCastInt(text) ==
    IF text \in {NULL, Garbage} THEN NULL ELSE Fit(text, QuantityLimit)

\* Fault: the column keeps whatever the field said.
UncastTimestamp(text) == text

TryCastTimestamp(text) == IF text \in {NULL, Garbage} THEN NULL ELSE text

\* Fault: the typed value replaces the text, which the docstring warns of.
CastInPlace(row) ==
    [row EXCEPT !.price_num = TryCastPrice(row.price),
                !.price = TryCastPrice(row.price),
                !.quantity_num = TryCastInt(row.quantity),
                !.quantity = TryCastInt(row.quantity),
                !.event_time_ts = TryCastTimestamp(row.event_time),
                !.generated_at_ts = TryCastTimestamp(row.generated_at)]

cast_types(row) ==
    [row EXCEPT !.price_num = TryCastPrice(row.price),
                !.quantity_num = TryCastInt(row.quantity),
                !.event_time_ts = TryCastTimestamp(row.event_time),
                !.generated_at_ts = TryCastTimestamp(row.generated_at)]

NormaliseText(text) == IF text = NULL THEN NULL ELSE TrimLower[text]

\* normalise overwrites the two columns in place.
normalise(row) ==
    [row EXCEPT !.event_type = NormaliseText(row.event_type),
                !.category = NormaliseText(row.category)]

-----------------------------------------------------------------------------
(* derive: the product is decimal(21,2), wide enough for any factors; the  *)
(* plain cast to decimal(12,2) that follows raises when it does not fit.   *)

HasProduct(row) ==
    /\ row.event_type = Purchase
    /\ row.price_num # NULL
    /\ row.quantity_num # NULL

derive_raises(row) ==
    /\ HasProduct(row)
    /\ Magnitude(row.price_num * row.quantity_num) >= RevenueLimit

derive(row, now) ==
    [row EXCEPT
        !.ingested_at = now,
        !.revenue = IF HasProduct(row) THEN row.price_num * row.quantity_num
                                       ELSE NULL,
        !.latency_ms = IF row.generated_at_ts = NULL
                       THEN NULL ELSE now - row.generated_at_ts]

-----------------------------------------------------------------------------
(* add_rejection_reason, with SQL's three-valued logic: a condition on     *)
(* NULL is NULL, and a when() on NULL does not fire.                       *)

IsNull(x) == x = NULL
Equals(x, y) == IF x = NULL THEN NULL ELSE x = y
\* Fault: the bound itself is rejected.
AtMost(x, y) == IF x = NULL THEN NULL ELSE x <= y
\* Fault: both number rules compare with 0.
BelowZero(x, y) == IF x = NULL THEN NULL ELSE x < 0
LessThan(x, y) == IF x = NULL THEN NULL ELSE x < y
NotIn(x, S) == IF x = NULL THEN NULL ELSE x \notin S
\* Fault: the rules lack their isNull half.
ComparisonOnly(a, b) == b
Or(a, b) ==
    IF TRUE \in {a, b} THEN TRUE ELSE IF NULL \in {a, b} THEN NULL ELSE FALSE

Missing(x) == Or(IsNull(x), Equals(x, EmptyText))

Rule(condition, reason) == [condition |-> condition, reason |-> reason]

RejectionRules(row) ==
    << Rule(~IsNull(row.corrupt), "structurally_corrupt_line"),
       Rule(Missing(row.event_id), "missing_event_id"),
       Rule(Missing(row.user_id), "missing_user_id"),
       Rule(Or(IsNull(row.event_type), NotIn(row.event_type, EVENT_TYPES)),
            "unknown_event_type"),
       Rule(Missing(row.product_id), "missing_product_id"),
       Rule(IsNull(row.event_time_ts), "unparseable_event_time"),
       Rule(IsNull(row.generated_at_ts), "unparseable_generated_at"),
       Rule(Or(IsNull(row.price_num), LessThan(row.price_num, 0)),
            "invalid_price"),
       Rule(Or(IsNull(row.quantity_num), LessThan(row.quantity_num, 1)),
            "invalid_quantity") >>

\* First match wins; no match leaves NULL.
RejectionReason(row) ==
    LET fired == {i \in 1..9 : RejectionRules(row)[i].condition = TRUE}
    IN  IF fired = {} THEN NULL
        ELSE LET first == CHOOSE i \in fired : \A j \in fired : i <= j
             IN  RejectionRules(row)[first].reason

add_rejection_reason(row) ==
    [row EXCEPT !.rejection_reason = RejectionReason(row)]

-----------------------------------------------------------------------------
(* The split and the shapes of the two tables. *)

IsValid(row) == row.rejection_reason = NULL

finalize_events(row) ==
    [event_id |-> row.event_id, event_time |-> row.event_time_ts,
     generated_at |-> row.generated_at_ts, user_id |-> row.user_id,
     product_id |-> row.product_id, category |-> row.category,
     event_type |-> row.event_type, price |-> row.price_num,
     quantity |-> row.quantity_num, revenue |-> row.revenue,
     ingested_at |-> row.ingested_at, latency_ms |-> row.latency_ms]

finalize_quarantine(row) ==
    [event_id |-> row.event_id, event_time |-> row.event_time,
     generated_at |-> row.generated_at, user_id |-> row.user_id,
     product_id |-> row.product_id, category |-> row.category,
     event_type |-> row.event_type, price |-> row.price,
     quantity |-> row.quantity, rejection_reason |-> row.rejection_reason,
     raw_line |-> row.corrupt, quarantined_at |-> row.ingested_at]

\* The columns and constraints of CREATE TABLE events.
EventsTable ==
    [event_id : Texts, event_time : Int, generated_at : Int,
     user_id : Texts, product_id : Texts, category : OrNull(Texts),
     event_type : EVENT_TYPES,
     price : {p \in Int : 0 <= p /\ p < PriceLimit},
     quantity : {q \in Int : 0 < q /\ q < QuantityLimit},
     revenue : OrNull({x \in Int : Magnitude(x) < RevenueLimit}),
     ingested_at : Int, latency_ms : Int]

\* The columns and constraints of CREATE TABLE events_quarantine; the text
\* columns hold whatever was received, the four cast ones included.
QuarantineTable ==
    [event_id : OrNull(Texts), event_time : NumberText,
     generated_at : NumberText, user_id : OrNull(Texts),
     product_id : OrNull(Texts), category : OrNull(Texts),
     event_type : OrNull(Texts), price : NumberText, quantity : NumberText,
     rejection_reason : Reasons, raw_line : OrNull({Garbage}),
     quarantined_at : Int]

\* The expression of process_batch, streaming.py line 177.
process(line, now) ==
    add_rejection_reason(derive(normalise(cast_types(ReadLine(line))), now))

\* What derive sees of a line: whether evaluating the batch raises on it.
process_raises(line) == derive_raises(normalise(cast_types(ReadLine(line))))
=============================================================================
