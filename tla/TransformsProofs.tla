-------------------------- MODULE TransformsProofs --------------------------
(* What the row rules guarantee of an accepted row, for every line. *)
EXTENDS Transforms, WellFoundedInduction, TLAPS

(***************************************************************************)
(* The casts return NULL or a value their column can hold.                 *)
(***************************************************************************)
PriceRange == OrNull({p \in Int : Magnitude(p) < PriceLimit})
QuantityRange == OrNull({q \in Int : Magnitude(q) < QuantityLimit})

LEMMA CastRanges ==
    ASSUME NEW text \in NumberText
    PROVE  /\ TryCastPrice(text) \in PriceRange
           /\ TryCastInt(text) \in QuantityRange
           /\ TryCastTimestamp(text) \in OrNull(Int)
<1>1. CASE text \in {NULL, Garbage}
  BY <1>1 DEF TryCastPrice, TryCastInt, TryCastTimestamp, PriceRange,
              QuantityRange, OrNull
<1>2. CASE text \notin {NULL, Garbage}
  <2>1. text \in Int
    BY <1>2 DEF NumberText
  <2>2. RoundToCents(text) \in Int
    BY <2>1 DEF RoundToCents
  <2>3. TryCastPrice(text) \in PriceRange
    BY <1>2, <2>2 DEF TryCastPrice, Fit, PriceRange, OrNull
  <2> QED
    BY <1>2, <2>1, <2>3
       DEF TryCastInt, TryCastTimestamp, Fit, QuantityRange, OrNull
<1> QED
  BY <1>1, <1>2

(***************************************************************************)
(* A set of natural numbers has a least member.                            *)
(***************************************************************************)
LEMMA Least ==
    ASSUME NEW T, T \subseteq Nat, T # {}
    PROVE  \E n \in T : \A m \in T : n <= m
<1>1. PICK n \in T : \A m \in T : ~ (<<m, n>> \in OpToRel(<, Nat))
  BY NatLessThanWellFounded, WFMin
<1>2. \A m \in T : ~ (m < n)
  BY <1>1 DEF OpToRel
<1> QED
  BY <1>2

(***************************************************************************)
(* A rule fires only with its own reason, so a row without a reason fired  *)
(* none of the nine.                                                       *)
(***************************************************************************)
LEMMA NoRuleFired ==
    ASSUME NEW row, RejectionReason(row) = NULL
    PROVE  \A i \in 1 .. 9 : RejectionRules(row)[i].condition # TRUE
<1> DEFINE fired == {i \in 1 .. 9 : RejectionRules(row)[i].condition = TRUE}
           first == CHOOSE i \in fired : \A j \in fired : i <= j
<1> SUFFICES ASSUME fired # {} PROVE FALSE
  OBVIOUS
<1>1. \E i \in fired : \A j \in fired : i <= j
  <2>1. fired \subseteq Nat
    OBVIOUS
  <2> HIDE DEF fired
  <2> QED
    BY <2>1, Least
<1>2. first \in 1 .. 9
  BY <1>1
<1>3. \A i \in 1 .. 9 : RejectionRules(row)[i].reason \in Reasons
  BY DEF RejectionRules, Rule, Reasons
<1>4. RejectionReason(row) = RejectionRules(row)[first].reason
  BY DEF RejectionReason
<1> QED
  BY <1>2, <1>3, <1>4, NullAssumption

(***************************************************************************)
(* So each column a rule looks at is neither NULL nor out of bounds.       *)
(***************************************************************************)
LEMMA AcceptedColumns ==
    ASSUME NEW row, RejectionReason(row) = NULL
    PROVE  /\ row.event_id \notin {NULL, EmptyText}
           /\ row.user_id \notin {NULL, EmptyText}
           /\ row.product_id \notin {NULL, EmptyText}
           /\ row.event_type # NULL /\ row.event_type \in EVENT_TYPES
           /\ row.event_time_ts # NULL /\ row.generated_at_ts # NULL
           /\ row.price_num # NULL /\ ~(row.price_num < 0)
           /\ row.quantity_num # NULL /\ ~(row.quantity_num < 1)
<1>1. \A i \in 1 .. 9 : RejectionRules(row)[i].condition # TRUE
  BY NoRuleFired
<1>2. /\ RejectionRules(row)[2].condition = Missing(row.event_id)
      /\ RejectionRules(row)[3].condition = Missing(row.user_id)
      /\ RejectionRules(row)[4].condition
           = Or(IsNull(row.event_type), NotIn(row.event_type, EVENT_TYPES))
      /\ RejectionRules(row)[5].condition = Missing(row.product_id)
      /\ RejectionRules(row)[6].condition = IsNull(row.event_time_ts)
      /\ RejectionRules(row)[7].condition = IsNull(row.generated_at_ts)
      /\ RejectionRules(row)[8].condition
           = Or(IsNull(row.price_num), LessThan(row.price_num, 0))
      /\ RejectionRules(row)[9].condition
           = Or(IsNull(row.quantity_num), LessThan(row.quantity_num, 1))
  BY DEF RejectionRules, Rule
<1>3. \A a, b : Or(a, b) # TRUE => a # TRUE /\ b # TRUE
  BY DEF Or
<1>4. \A text : Missing(text) # TRUE => text \notin {NULL, EmptyText}
  BY <1>3 DEF Missing, IsNull, Equals
<1>5. /\ Missing(row.event_id) # TRUE
      /\ Missing(row.user_id) # TRUE
      /\ Or(IsNull(row.event_type), NotIn(row.event_type, EVENT_TYPES)) # TRUE
      /\ Missing(row.product_id) # TRUE
      /\ IsNull(row.event_time_ts) # TRUE
      /\ IsNull(row.generated_at_ts) # TRUE
      /\ Or(IsNull(row.price_num), LessThan(row.price_num, 0)) # TRUE
      /\ Or(IsNull(row.quantity_num), LessThan(row.quantity_num, 1)) # TRUE
  <2>1. {2, 3, 4, 5, 6, 7, 8, 9} \subseteq 1 .. 9
    OBVIOUS
  <2> QED
    BY <1>1, <1>2, <2>1, Zenon
<1>6. \A x : IsNull(x) # TRUE => x # NULL
  BY DEF IsNull
<1>7. \A x, S : x # NULL /\ NotIn(x, S) # TRUE => x \in S
  BY DEF NotIn
<1>8. \A x, y : x # NULL /\ LessThan(x, y) # TRUE => ~(x < y)
  BY DEF LessThan
<1>9. /\ row.event_type # NULL
      /\ row.price_num # NULL
      /\ row.quantity_num # NULL
      /\ row.event_time_ts # NULL
      /\ row.generated_at_ts # NULL
  BY <1>3, <1>5, <1>6, Zenon
<1>10. row.event_type \in EVENT_TYPES
  BY <1>3, <1>5, <1>7, <1>9, Zenon
<1>11. ~(row.price_num < 0) /\ ~(row.quantity_num < 1)
  BY <1>3, <1>5, <1>8, <1>9, Zenon
<1> QED
  BY <1>4, <1>5, <1>9, <1>10, <1>11

(***************************************************************************)
(* What the stages before the rules put into each column.                  *)
(***************************************************************************)
Derived(line, now) == derive(normalise(cast_types(ReadLine(line))), now)

LEMMA DerivedColumns ==
    ASSUME NEW line, NEW now
    PROVE  /\ \A c \in {"corrupt", "event_id", "user_id", "product_id",
                        "event_time", "generated_at", "price", "quantity"} :
                 Derived(line, now)[c] = line[c]
           /\ Derived(line, now).event_type = NormaliseText(line.event_type)
           /\ Derived(line, now).category = NormaliseText(line.category)
           /\ Derived(line, now).price_num = TryCastPrice(line.price)
           /\ Derived(line, now).quantity_num = TryCastInt(line.quantity)
           /\ Derived(line, now).event_time_ts = TryCastTimestamp(line.event_time)
           /\ Derived(line, now).generated_at_ts
                = TryCastTimestamp(line.generated_at)
           /\ Derived(line, now).ingested_at = now
  BY DEF Derived, derive, normalise, cast_types, ReadLine

(***************************************************************************)
(* The revenue of a row on which derive does not raise fits its column and *)
(* is the product exactly for a purchase whose factors were cast.          *)
(***************************************************************************)
LEMMA DerivedRevenue ==
    ASSUME NEW line \in Lines, NEW now, ~process_raises(line)
    PROVE  /\ Derived(line, now).revenue
                \in OrNull({x \in Int : Magnitude(x) < RevenueLimit})
           /\ Derived(line, now).price_num # NULL
              /\ Derived(line, now).quantity_num # NULL =>
                Derived(line, now).revenue =
                  IF Derived(line, now).event_type = Purchase
                  THEN Derived(line, now).price_num * Derived(line, now).quantity_num
                  ELSE NULL
<1> DEFINE n == normalise(cast_types(ReadLine(line)))
           d == Derived(line, now)
<1>1. /\ n.price_num = TryCastPrice(line.price)
      /\ n.quantity_num = TryCastInt(line.quantity)
      /\ "revenue" \in DOMAIN n
  BY DEF normalise, cast_types, ReadLine
<1>2. n.price_num \in OrNull(Int) /\ n.quantity_num \in OrNull(Int)
  BY <1>1, CastRanges DEF Lines, PriceRange, QuantityRange, OrNull
<1>3. /\ d.revenue = IF HasProduct(n) THEN n.price_num * n.quantity_num ELSE NULL
      /\ d.price_num = n.price_num
      /\ d.quantity_num = n.quantity_num
      /\ d.event_type = n.event_type
  BY DEF Derived, derive, normalise, cast_types, ReadLine
<1>4. HasProduct(n) => Magnitude(n.price_num * n.quantity_num) < RevenueLimit
  <2>1. ~derive_raises(n)
    BY DEF process_raises
  <2> SUFFICES ASSUME HasProduct(n)
               PROVE  Magnitude(n.price_num * n.quantity_num) < RevenueLimit
    OBVIOUS
  <2>2. n.price_num \in Int /\ n.quantity_num \in Int
    BY <1>2 DEF HasProduct, OrNull
  <2>3. n.price_num * n.quantity_num \in Int
    BY <2>2
  <2>4. Magnitude(n.price_num * n.quantity_num) \in Int
    BY <2>3 DEF Magnitude
  <2> HIDE DEF n
  <2> QED
    BY <2>1, <2>4, LimitAssumption DEF derive_raises
<1> HIDE DEF n, d
<1>5. HasProduct(n) => n.price_num * n.quantity_num \in Int
  BY <1>2 DEF HasProduct, OrNull
<1>6. d.revenue \in OrNull({x \in Int : Magnitude(x) < RevenueLimit})
  BY <1>3, <1>4, <1>5 DEF OrNull
<1>7. d.price_num # NULL /\ d.quantity_num # NULL =>
        d.revenue = IF d.event_type = Purchase
                    THEN d.price_num * d.quantity_num ELSE NULL
  BY <1>3 DEF HasProduct
<1> QED
  BY <1>6, <1>7 DEF d

(***************************************************************************)
(* Judging a row adds its reason and changes nothing events has a column   *)
(* for.                                                                    *)
(***************************************************************************)
LEMMA JudgedColumns ==
    ASSUME NEW line, NEW now
    PROVE  /\ process(line, now).rejection_reason
                = RejectionReason(Derived(line, now))
           /\ finalize_events(process(line, now))
                = finalize_events(Derived(line, now))
<1> DEFINE d == Derived(line, now)
<1>1. process(line, now) = add_rejection_reason(d)
  BY DEF process, Derived
<1>2. {"rejection_reason", "event_id", "event_time_ts", "generated_at_ts", "user_id",
        "product_id", "category", "event_type", "price_num", "quantity_num", "revenue",
        "ingested_at", "latency_ms"} \subseteq DOMAIN d
  <2>1. {"rejection_reason", "event_id", "event_time_ts", "generated_at_ts", "user_id",
         "product_id", "category", "event_type", "price_num", "quantity_num", "revenue",
         "ingested_at", "latency_ms"} \subseteq DOMAIN ReadLine(line)
    BY DEF ReadLine
  <2>2. \A row : /\ DOMAIN cast_types(row) = DOMAIN row
                /\ DOMAIN normalise(row) = DOMAIN row
                /\ DOMAIN derive(row, now) = DOMAIN row
    BY DEF cast_types, normalise, derive
  <2>3. DOMAIN d = DOMAIN ReadLine(line)
    BY <2>2 DEF Derived
  <2> QED
    BY <2>1, <2>3
<1> HIDE DEF d
<1>3. add_rejection_reason(d).rejection_reason = RejectionReason(d)
  BY <1>2 DEF add_rejection_reason
<1>4. finalize_events(add_rejection_reason(d)) = finalize_events(d)
  BY <1>2 DEF add_rejection_reason, finalize_events
<1> QED
  BY <1>1, <1>3, <1>4 DEF d

(***************************************************************************)
(* Every row the rules accept, whatever line it came from, is a row of     *)
(* CREATE TABLE events.                                                    *)
(***************************************************************************)
LEMMA AcceptedRowsMeetTheDDL ==
    ASSUME NEW line \in Lines, NEW now \in Int, ~process_raises(line),
           IsValid(process(line, now))
    PROVE  finalize_events(process(line, now)) \in EventsTable
<1> DEFINE d == Derived(line, now)
<1>1. RejectionReason(d) = NULL
  BY JudgedColumns DEF IsValid
<1>2. /\ d.event_id \in Texts /\ d.user_id \in Texts /\ d.product_id \in Texts
      /\ d.category \in OrNull(Texts)
  <2>1. d.event_id \in OrNull(Texts) /\ d.user_id \in OrNull(Texts)
        /\ d.product_id \in OrNull(Texts) /\ line.category \in OrNull(Texts)
    BY DerivedColumns DEF Lines
  <2>2. d.category = NormaliseText(line.category)
    BY DerivedColumns
  <2>3. d.category \in OrNull(Texts)
    BY <2>1, <2>2, TextAssumption DEF NormaliseText, OrNull
  <2> HIDE DEF d
  <2> QED
    BY <1>1, <2>1, <2>3, AcceptedColumns DEF OrNull
<1>3. /\ d.price_num \in PriceRange /\ d.quantity_num \in QuantityRange
      /\ d.event_time_ts \in OrNull(Int) /\ d.generated_at_ts \in OrNull(Int)
  BY DerivedColumns, CastRanges DEF Lines
<1>4. d.ingested_at \in Int
  BY DerivedColumns
<1>5. d.revenue \in OrNull({x \in Int : Magnitude(x) < RevenueLimit})
  BY DerivedRevenue
<1>6. d.latency_ms = IF d.generated_at_ts = NULL
                     THEN NULL ELSE d.ingested_at - d.generated_at_ts
  BY DEF Derived, derive, normalise, cast_types, ReadLine
<1> HIDE DEF d
<1>7. /\ d.price_num \in {p \in Int : 0 <= p /\ p < PriceLimit}
      /\ d.quantity_num \in {q \in Int : 0 < q /\ q < QuantityLimit}
      /\ d.event_time_ts \in Int /\ d.generated_at_ts \in Int
  BY <1>1, <1>3, AcceptedColumns, LimitAssumption
     DEF PriceRange, QuantityRange, OrNull, Magnitude
<1>8. d.latency_ms \in Int
  BY <1>4, <1>6, <1>7, NullAssumption
<1>9. d.event_type \in EVENT_TYPES
  BY <1>1, AcceptedColumns
<1>10. finalize_events(d) \in EventsTable
  BY <1>2, <1>4, <1>5, <1>7, <1>8, <1>9 DEF finalize_events, EventsTable
<1> QED
  BY <1>10, JudgedColumns DEF d
(***************************************************************************)
(* The columns have their types after every stage.                         *)
(***************************************************************************)
LEMMA ReadTypes ==
    ASSUME NEW line \in Lines
    PROVE  ReadLine(line) \in RowsOfBatch
  BY DEF ReadLine, Lines, RowsOfBatch, OrNull

LEMMA CastTypes ==
    ASSUME NEW row \in RowsOfBatch
    PROVE  cast_types(row) \in RowsOfBatch
<1>1. /\ TryCastPrice(row.price) \in OrNull(Int)
      /\ TryCastInt(row.quantity) \in OrNull(Int)
      /\ TryCastTimestamp(row.event_time) \in OrNull(Int)
      /\ TryCastTimestamp(row.generated_at) \in OrNull(Int)
  <2>1. PriceRange \subseteq OrNull(Int) /\ QuantityRange \subseteq OrNull(Int)
    BY DEF PriceRange, QuantityRange, OrNull
  <2>2. row.price \in NumberText /\ row.quantity \in NumberText
        /\ row.event_time \in NumberText /\ row.generated_at \in NumberText
    BY DEF RowsOfBatch
  <2> QED
    BY <2>1, <2>2, CastRanges
<1> QED
  BY <1>1 DEF cast_types, RowsOfBatch

LEMMA NormaliseTypes ==
    ASSUME NEW row \in RowsOfBatch
    PROVE  normalise(row) \in RowsOfBatch
<1>1. row.event_type \in OrNull(Texts) /\ row.category \in OrNull(Texts)
  BY DEF RowsOfBatch
<1>2. /\ NormaliseText(row.event_type) \in OrNull(Texts)
      /\ NormaliseText(row.category) \in OrNull(Texts)
  BY <1>1, TextAssumption DEF NormaliseText, OrNull
<1> QED
  BY <1>2 DEF normalise, RowsOfBatch

LEMMA DeriveTypes ==
    ASSUME NEW row \in RowsOfBatch, NEW now \in Int
    PROVE  derive(row, now) \in RowsOfBatch
<1>1. /\ row.price_num \in OrNull(Int) /\ row.quantity_num \in OrNull(Int)
      /\ row.generated_at_ts \in OrNull(Int)
  BY DEF RowsOfBatch
<1>2. (IF HasProduct(row) THEN row.price_num * row.quantity_num ELSE NULL)
        \in OrNull(Int)
  BY <1>1 DEF HasProduct, OrNull
<1>3. (IF row.generated_at_ts = NULL THEN NULL ELSE now - row.generated_at_ts)
        \in OrNull(Int)
  BY <1>1 DEF OrNull
<1>4. now \in OrNull(Int)
  BY DEF OrNull
<1> QED
  BY <1>2, <1>3, <1>4 DEF derive, RowsOfBatch

(***************************************************************************)
(* The reason of a row is that of the first rule that fires.               *)
(***************************************************************************)
LEMMA FirstRule ==
    ASSUME NEW row, NEW i \in 1 .. 9,
           RejectionRules(row)[i].condition = TRUE,
           \A j \in 1 .. 9 : j < i => RejectionRules(row)[j].condition # TRUE
    PROVE  RejectionReason(row) = RejectionRules(row)[i].reason
<1> DEFINE fired == {j \in 1 .. 9 : RejectionRules(row)[j].condition = TRUE}
           first == CHOOSE j \in fired : \A k \in fired : j <= k
<1>1. i \in fired /\ fired \subseteq 1 .. 9
  OBVIOUS
<1>2. \A k \in fired : i <= k
  <2>1. \A k \in fired : k \in 1 .. 9 /\ ~(k < i)
    BY Zenon
  <2> HIDE DEF fired
  <2> QED
    BY <2>1
<1>3. RejectionReason(row) = RejectionRules(row)[first].reason
  BY <1>1 DEF RejectionReason
<1> HIDE DEF fired
<1>4. first = i
  <2>1. first \in fired /\ \A k \in fired : first <= k
    BY <1>1, <1>2
  <2>2. first <= i /\ i <= first
    BY <1>1, <1>2, <2>1
  <2>3. first \in 1 .. 9
    BY <1>1, <2>1
  <2> HIDE DEF first
  <2> QED
    BY <2>2, <2>3
<1> QED
  BY <1>3, <1>4

\* A reason is one of the nine, or NULL.
LEMMA ReasonTypes ==
    ASSUME NEW row
    PROVE  RejectionReason(row) \in OrNull(Reasons)
<1> SUFFICES ASSUME RejectionReason(row) # NULL
             PROVE  RejectionReason(row) \in Reasons
  BY DEF OrNull
<1> DEFINE fired == {j \in 1 .. 9 : RejectionRules(row)[j].condition = TRUE}
<1>1. fired # {}
  BY DEF RejectionReason
<1>2. PICK i \in fired : \A j \in fired : i <= j
  <2>1. fired \subseteq Nat
    OBVIOUS
  <2> HIDE DEF fired
  <2> QED
    BY <1>1, <2>1, Least
<1>3. i \in 1 .. 9 /\ RejectionRules(row)[i].condition = TRUE
  BY <1>2
<1>4. \A j \in 1 .. 9 : j < i => RejectionRules(row)[j].condition # TRUE
  <2> SUFFICES ASSUME NEW j \in 1 .. 9, j < i, j \in fired PROVE FALSE
    BY Zenon
  <2> HIDE DEF fired
  <2> QED
    BY <1>2, <1>3
<1>5. RejectionReason(row) = RejectionRules(row)[i].reason
  BY <1>3, <1>4, FirstRule
<1>6. \A j \in 1 .. 9 : RejectionRules(row)[j].reason \in Reasons
  BY DEF RejectionRules, Rule, Reasons
<1> QED
  BY <1>3, <1>5, <1>6

LEMMA JudgeTypes ==
    ASSUME NEW row \in RowsOfBatch
    PROVE  add_rejection_reason(row) \in RowsOfBatch
  BY ReasonTypes DEF add_rejection_reason, RowsOfBatch

(***************************************************************************)
(* Every row the rules refuse is a row of CREATE TABLE events_quarantine   *)
(* with the texts received in the four cast columns.                       *)
(***************************************************************************)
LEMMA RefusedRowsMeetTheDDL ==
    ASSUME NEW line \in Lines, NEW now \in Int, ~IsValid(process(line, now))
    PROVE  /\ finalize_quarantine(process(line, now)) \in QuarantineTable
           /\ finalize_quarantine(process(line, now)).rejection_reason
                = RejectionReason(Derived(line, now))
           /\ \A c \in {"event_time", "generated_at", "price", "quantity"} :
                 finalize_quarantine(process(line, now))[c] = line[c]
<1> DEFINE p == process(line, now)
           q == finalize_quarantine(p)
<1>1. p \in RowsOfBatch
  BY ReadTypes, CastTypes, NormaliseTypes, DeriveTypes, JudgeTypes DEF process
<1>2. p.rejection_reason \in Reasons /\ p.rejection_reason = RejectionReason(Derived(line, now))
  <2>1. p.rejection_reason # NULL
    BY DEF IsValid
  <2> QED
    BY <2>1, JudgedColumns, ReasonTypes DEF OrNull
<1>3. p.ingested_at = now /\ \A c \in {"event_time", "generated_at", "price", "quantity"} :
         p[c] = line[c]
  <2>1. Derived(line, now) \in RowsOfBatch
    BY ReadTypes, CastTypes, NormaliseTypes, DeriveTypes DEF Derived
  <2>2. p = [Derived(line, now) EXCEPT !.rejection_reason = RejectionReason(Derived(line, now))]
    BY DEF process, Derived, add_rejection_reason
  <2>3. /\ p.ingested_at = Derived(line, now).ingested_at
        /\ p.event_time = Derived(line, now).event_time
        /\ p.generated_at = Derived(line, now).generated_at
        /\ p.price = Derived(line, now).price
        /\ p.quantity = Derived(line, now).quantity
    <3> HIDE DEF p
    <3> QED
      BY <2>1, <2>2 DEF RowsOfBatch
  <2> QED
    BY <2>3, DerivedColumns
<1> HIDE DEF p
<1>4. q \in QuarantineTable
  BY <1>1, <1>2, <1>3 DEF finalize_quarantine, QuarantineTable, RowsOfBatch
<1>5. q.rejection_reason = p.rejection_reason
  BY DEF finalize_quarantine
<1>6. \A c \in {"event_time", "generated_at", "price", "quantity"} : q[c] = p[c]
  BY DEF finalize_quarantine
<1> QED
  BY <1>2, <1>3, <1>4, <1>5, <1>6 DEF p
(***************************************************************************)
(* When each rule fires and when it does not, over the columns it reads.   *)
(***************************************************************************)
LEMMA Conditions ==
    ASSUME NEW a, NEW b
    PROVE  /\ Or(TRUE, b) = TRUE
           /\ Or(a, TRUE) = TRUE
           /\ Or(FALSE, FALSE) = FALSE
<1>1. NULL # TRUE /\ NULL # FALSE
  BY NullAssumption
<1> QED
  BY <1>1 DEF Or

\* A column in order keeps its rule quiet.
LEMMA QuietRules ==
    ASSUME NEW row
    PROVE  /\ row.corrupt = NULL => RejectionRules(row)[1].condition # TRUE
           /\ row.event_id \notin {NULL, EmptyText} =>
                RejectionRules(row)[2].condition # TRUE
           /\ row.user_id \notin {NULL, EmptyText} =>
                RejectionRules(row)[3].condition # TRUE
           /\ row.event_type # NULL /\ row.event_type \in EVENT_TYPES =>
                RejectionRules(row)[4].condition # TRUE
           /\ row.product_id \notin {NULL, EmptyText} =>
                RejectionRules(row)[5].condition # TRUE
           /\ row.event_time_ts # NULL => RejectionRules(row)[6].condition # TRUE
           /\ row.generated_at_ts # NULL =>
                RejectionRules(row)[7].condition # TRUE
           /\ row.price_num # NULL /\ row.price_num \in Int /\ row.price_num >= 0 =>
                RejectionRules(row)[8].condition # TRUE
           /\ row.quantity_num # NULL /\ row.quantity_num \in Int
              /\ row.quantity_num >= 1 =>
                RejectionRules(row)[9].condition # TRUE
<1>1. \A x : x \notin {NULL, EmptyText} => Missing(x) # TRUE
  <2>1. \A x : x \notin {NULL, EmptyText} => IsNull(x) = FALSE /\ Equals(x, EmptyText) = FALSE
    BY DEF IsNull, Equals
  <2> QED
    BY <2>1, Conditions DEF Missing
<1>2. \A x : x # NULL => IsNull(x) = FALSE
  BY DEF IsNull
<1>3. \A x, S : x # NULL /\ x \in S => NotIn(x, S) = FALSE
  BY DEF NotIn
<1>4. \A x \in Int : \A k \in {0, 1} : x # NULL /\ x >= k => LessThan(x, k) = FALSE
  <2> SUFFICES ASSUME NEW x \in Int, NEW k \in {0, 1}, x # NULL, x >= k
               PROVE  LessThan(x, k) = FALSE
    OBVIOUS
  <2>1. LessThan(x, k) = (x < k)
    BY DEF LessThan
  <2>2. (x < k) = FALSE
    OBVIOUS
  <2> QED
    BY <2>1, <2>2
<1>5. (~IsNull(NULL)) = FALSE
  BY DEF IsNull
<1>6. /\ RejectionRules(row)[1].condition = ~IsNull(row.corrupt)
      /\ RejectionRules(row)[2].condition = Missing(row.event_id)
      /\ RejectionRules(row)[3].condition = Missing(row.user_id)
      /\ RejectionRules(row)[4].condition
           = Or(IsNull(row.event_type), NotIn(row.event_type, EVENT_TYPES))
      /\ RejectionRules(row)[5].condition = Missing(row.product_id)
      /\ RejectionRules(row)[6].condition = IsNull(row.event_time_ts)
      /\ RejectionRules(row)[7].condition = IsNull(row.generated_at_ts)
      /\ RejectionRules(row)[8].condition
           = Or(IsNull(row.price_num), LessThan(row.price_num, 0))
      /\ RejectionRules(row)[9].condition
           = Or(IsNull(row.quantity_num), LessThan(row.quantity_num, 1))
  BY DEF RejectionRules, Rule
<1>7. row.corrupt = NULL => RejectionRules(row)[1].condition # TRUE
  BY <1>5, <1>6, Zenon
<1>8. /\ row.event_id \notin {NULL, EmptyText} =>
           RejectionRules(row)[2].condition # TRUE
      /\ row.user_id \notin {NULL, EmptyText} =>
           RejectionRules(row)[3].condition # TRUE
      /\ row.product_id \notin {NULL, EmptyText} =>
           RejectionRules(row)[5].condition # TRUE
  BY <1>1, <1>6, Zenon
<1>9. row.event_type # NULL /\ row.event_type \in EVENT_TYPES =>
        RejectionRules(row)[4].condition # TRUE
  BY <1>2, <1>3, <1>6, Conditions, Zenon
<1>10. /\ row.event_time_ts # NULL => RejectionRules(row)[6].condition # TRUE
       /\ row.generated_at_ts # NULL => RejectionRules(row)[7].condition # TRUE
  BY <1>2, <1>6, Zenon
<1>11. row.price_num # NULL /\ row.price_num \in Int /\ row.price_num >= 0 =>
         RejectionRules(row)[8].condition # TRUE
  BY <1>2, <1>4, <1>6, Conditions, Zenon
<1>12. row.quantity_num # NULL /\ row.quantity_num \in Int /\ row.quantity_num >= 1 =>
         RejectionRules(row)[9].condition # TRUE
  BY <1>2, <1>4, <1>6, Conditions, Zenon
<1> QED
  BY <1>7, <1>8, <1>9, <1>10, <1>11, <1>12, Zenon

\* The four defects make their rules fire.
LEMMA FiringRules ==
    ASSUME NEW row
    PROVE  /\ row.product_id = NULL => RejectionRules(row)[5].condition = TRUE
           /\ row.event_time_ts = NULL => RejectionRules(row)[6].condition = TRUE
           /\ row.price_num = NULL \/ (row.price_num \in Int /\ row.price_num < 0) =>
                RejectionRules(row)[8].condition = TRUE
           /\ row.quantity_num = NULL
              \/ (row.quantity_num \in Int /\ row.quantity_num < 1) =>
                RejectionRules(row)[9].condition = TRUE
<1>1. IsNull(NULL) = TRUE
  BY DEF IsNull
<1>2. \A x \in Int : \A k \in {0, 1} : x # NULL /\ x < k => LessThan(x, k) = TRUE
  <2> SUFFICES ASSUME NEW x \in Int, NEW k \in {0, 1}, x # NULL, x < k
               PROVE  LessThan(x, k) = TRUE
    OBVIOUS
  <2>1. LessThan(x, k) = (x < k)
    BY DEF LessThan
  <2>2. (x < k) = TRUE
    OBVIOUS
  <2> QED
    BY <2>1, <2>2
<1>3. /\ RejectionRules(row)[5].condition
           = Or(IsNull(row.product_id), Equals(row.product_id, EmptyText))
      /\ RejectionRules(row)[6].condition = IsNull(row.event_time_ts)
      /\ RejectionRules(row)[8].condition
           = Or(IsNull(row.price_num), LessThan(row.price_num, 0))
      /\ RejectionRules(row)[9].condition
           = Or(IsNull(row.quantity_num), LessThan(row.quantity_num, 1))
  BY DEF RejectionRules, Rule, Missing
<1>4. row.product_id = NULL => RejectionRules(row)[5].condition = TRUE
  BY <1>1, <1>3, Conditions, Zenon
<1>5. row.event_time_ts = NULL => RejectionRules(row)[6].condition = TRUE
  BY <1>1, <1>3, Zenon
<1>6. row.price_num = NULL \/ (row.price_num \in Int /\ row.price_num < 0) =>
        RejectionRules(row)[8].condition = TRUE
  BY <1>1, <1>2, <1>3, Conditions, Zenon
<1>7. row.quantity_num = NULL \/ (row.quantity_num \in Int /\ row.quantity_num < 1) =>
        RejectionRules(row)[9].condition = TRUE
  BY <1>1, <1>2, <1>3, Conditions, Zenon
<1> QED
  BY <1>4, <1>5, <1>6, <1>7, Zenon
=============================================================================
