--------------------------- MODULE RowFlowProofs ----------------------------
(* The theorems about the way of one event. *)
EXTENDS RowFlow, TransformsProofs

Stages ==
    {"made", "written", "read", "cast", "normalised", "derived", "judged",
     "routed", "raised"}

\* A line that reached the file: one of Inputs, with one field corrupted if the
\* generator made it and chose a defect.
Written(e, d) == IF d = NULL THEN e ELSE make_malformed_event(e, d)

Origin(e, d) == e \in Inputs /\ (d # NULL => make_event(e))

\* What each stage holds is what the stages so far make of the line read, and
\* the rows written at the end are the shapes of process's result.
RowInv ==
    /\ line \in Lines
    /\ stage \in Stages
    /\ stage = "read" => row = ReadLine(line)
    /\ stage = "cast" => row = cast_types(ReadLine(line))
    /\ stage = "normalised" => row = normalise(cast_types(ReadLine(line)))
    /\ stage = "derived" => row = Derived(line, Now) /\ ~process_raises(line)
    /\ stage = "judged" => row = process(line, Now) /\ ~process_raises(line)
    /\ event # NULL => /\ ~process_raises(line)
                       /\ IsValid(process(line, Now))
                       /\ event = finalize_events(process(line, Now))
    /\ event # NULL => stage = "routed"
    /\ stage \notin {"judged", "routed"} => quarantined = NULL
    /\ stage = "judged" => event = NULL /\ quarantined = NULL
    /\ stage = "routed" =>
         IF IsValid(process(line, Now))
         THEN event = finalize_events(process(line, Now)) /\ quarantined = NULL
              /\ ~process_raises(line)
         ELSE event = NULL /\ quarantined = finalize_quarantine(process(line, Now))
    /\ defect \in OrNull(DEFECT_TYPES)
    /\ stage = "made" => defect = NULL /\ line \in Inputs /\ row = NULL
    /\ stage = "written" =>
         row = NULL /\ \E e \in Inputs : Origin(e, defect) /\ line = Written(e, defect)
    /\ stage \notin {"made", "written"} =>
         /\ row \in RowsOfBatch
         /\ \E e \in Inputs : Origin(e, defect) /\ line = ReadCsv(Written(e, defect))

(***************************************************************************)
(* Corrupting a field and reading the line back keep it a line.            *)
(***************************************************************************)
LEMMA MalformedLine ==
    ASSUME NEW e \in Lines, NEW d \in DEFECT_TYPES, e.price \in Int
    PROVE  make_malformed_event(e, d) \in Lines
<1>1. /\ EmptyText \in OrNull(Texts) /\ Garbage \in NumberText
      /\ 0 \in NumberText /\ -e.price \in NumberText
  BY TextAssumption DEF OrNull, NumberText
<1> QED
  BY <1>1 DEF make_malformed_event, Lines

\* The reader yields lines.
LEMMA ReadLineOfCsv ==
    ASSUME NEW e \in Lines
    PROVE  ReadCsv(e) \in Lines
<1>1. \A text \in OrNull(Texts) : ReadField(text) \in OrNull(Texts)
  BY DEF ReadField, OrNull
<1> QED
  BY <1>1 DEF ReadCsv, Lines

(***************************************************************************)
(* RowInv holds initially, and each stage keeps it.                        *)
(***************************************************************************)
LEMMA InitRowInv == Init => RowInv
  BY InputAssumption DEF Init, RowInv, Stages, OrNull

LEMMA NextRowInv == RowInv /\ [Next]_vars => RowInv'
<1> SUFFICES ASSUME RowInv, [Next]_vars PROVE RowInv'
  OBVIOUS
<1> USE DEF RowInv, Stages
<1>1. CASE Generate
  <2>1. line' \in Lines
    BY <1>1, MalformedLine DEF Generate, make_event
  <2>2. /\ stage' = "written" /\ stage = "made" /\ event' = event
        /\ quarantined' = quarantined /\ row' = row
    BY <1>1 DEF Generate
  <2>3. line \in Inputs /\ defect = NULL /\ event = NULL /\ quarantined = NULL /\ row = NULL
    BY <2>2
  <2>4. /\ defect' \in OrNull(DEFECT_TYPES)
        /\ Origin(line, defect') /\ line' = Written(line, defect')
    <3>1. CASE make_event(line) /\ \E d \in DEFECT_TYPES :
                 defect' = d /\ line' = make_malformed_event(line, d)
      <4>1. PICK d \in DEFECT_TYPES : defect' = d /\ line' = make_malformed_event(line, d)
        BY <3>1
      <4>2. d # NULL
        BY NoRowAssumption
      <4> QED
        BY <2>3, <3>1, <4>1, <4>2 DEF Origin, Written, OrNull
    <3>2. CASE UNCHANGED <<line, defect>>
      BY <2>3, <3>2 DEF Origin, Written, OrNull
    <3> QED
      BY <1>1, <3>1, <3>2 DEF Generate
  <2> QED
    BY <2>1, <2>2, <2>3, <2>4
<1>2. CASE Read
  <2>1. /\ stage = "written" /\ stage' = "read"
        /\ line' = ReadCsv(line) /\ row' = ReadLine(line')
        /\ UNCHANGED <<defect, event, quarantined>>
    BY <1>2 DEF Read
  <2>2. line' \in Lines
    BY <2>1, ReadLineOfCsv
  <2>3. row' \in RowsOfBatch
    BY <2>1, <2>2, ReadTypes
  <2> QED
    BY <2>1, <2>2, <2>3
<1>3. CASE Cast
  BY <1>3, CastTypes DEF Cast, Step
<1>4. CASE Normalise
  BY <1>4, NormaliseTypes DEF Normalise, Step
<1>5. CASE Derive
  BY <1>5, DeriveTypes, InputAssumption DEF Derive, Step, Derived, process_raises
<1>6. CASE DeriveRaises
  BY <1>6 DEF DeriveRaises, Step
<1>7. CASE Judge
  BY <1>7, JudgeTypes DEF Judge, Step, Derived, process
<1>8. CASE Route
  BY <1>8 DEF Route
<1>9. CASE Done \/ UNCHANGED vars
  BY <1>9 DEF Done, vars
<1> QED
  BY <1>1, <1>2, <1>3, <1>4, <1>5, <1>6, <1>7, <1>8, <1>9 DEF Next

(***************************************************************************)
(* What each stage holds, for every line.                                  *)
(***************************************************************************)
THEOREM StagesCompose == Spec => []RowInv
  BY InitRowInv, NextRowInv, PTL DEF Spec

(***************************************************************************)
(* No row that write_events_batch inserts can be refused by a constraint   *)
(* of events, whatever the vocabulary and the widths of the columns.       *)
(***************************************************************************)
THEOREM TheDDLNeverRefuses == Spec => []StoredRowsMeetTheDDL
<1>1. RowInv => StoredRowsMeetTheDDL
  BY AcceptedRowsMeetTheDDL, InputAssumption DEF RowInv, StoredRowsMeetTheDDL
<1> QED
  BY <1>1, StagesCompose, PTL

(***************************************************************************)
(* A stored row has revenue, its price times its quantity, exactly when    *)
(* some spelling of purchase was received.                                 *)
(***************************************************************************)
THEOREM PurchasesHaveRevenue == Spec => []RevenueExactlyForPurchases
<1>1. RowInv => RevenueExactlyForPurchases
  <2> SUFFICES ASSUME RowInv, event # NULL
               PROVE  event.revenue = IF TrimLower[line.event_type] = Purchase
                                      THEN event.price * event.quantity ELSE NULL
    BY DEF RevenueExactlyForPurchases
  <2> DEFINE d == Derived(line, Now)
  <2>1. /\ line \in Lines
        /\ ~process_raises(line)
        /\ IsValid(process(line, Now))
        /\ event = finalize_events(process(line, Now))
    BY DEF RowInv
  <2>2. /\ process(line, Now).rejection_reason = RejectionReason(d)
        /\ event = finalize_events(d)
    BY <2>1, JudgedColumns
  <2>3. RejectionReason(d) = NULL
    BY <2>1, <2>2 DEF IsValid
  <2>4. d.event_type = NormaliseText(line.event_type)
    BY DerivedColumns
  <2>5. d.price_num # NULL /\ d.quantity_num # NULL =>
          d.revenue = IF d.event_type = Purchase
                      THEN d.price_num * d.quantity_num ELSE NULL
    BY <2>1, DerivedRevenue
  <2> HIDE DEF d
  <2>6. /\ d.event_type # NULL
        /\ d.price_num # NULL /\ d.quantity_num # NULL
    BY <2>3, AcceptedColumns
  <2>7. /\ event.revenue = d.revenue
        /\ event.price = d.price_num
        /\ event.quantity = d.quantity_num
    BY <2>2 DEF finalize_events
  <2>8. d.event_type = TrimLower[line.event_type]
    BY <2>4, <2>6 DEF NormaliseText
  <2> QED
    BY <2>5, <2>6, <2>7, <2>8
<1> QED
  BY <1>1, StagesCompose, PTL

(***************************************************************************)
(* After every stage the row has the columns the next one reads, and what  *)
(* is quarantined is a row of CREATE TABLE events_quarantine.              *)
(***************************************************************************)
LEMMA QuarantinedRow ==
    ASSUME RowInv, quarantined # NULL
    PROVE  /\ stage = "routed" /\ line \in Lines /\ ~IsValid(process(line, Now))
           /\ quarantined = finalize_quarantine(process(line, Now))
  BY DEF RowInv

THEOREM TypeCorrect == Spec => []TypeOK
<1>1. RowInv => TypeOK
  <2> SUFFICES ASSUME RowInv PROVE TypeOK
    OBVIOUS
  <2>1. row \in OrNull(RowsOfBatch)
    BY DEF RowInv, OrNull
  <2>2. quarantined \in OrNull(QuarantineTable)
    BY QuarantinedRow, RefusedRowsMeetTheDDL, InputAssumption DEF OrNull
  <2> QED
    BY <2>1, <2>2 DEF RowInv, Stages, TypeOK
<1> QED
  BY <1>1, StagesCompose, PTL

(***************************************************************************)
(* Every line routed goes to one of the two tables and not to both, and a  *)
(* quarantined row shows the four cast columns as received.                *)
(***************************************************************************)
THEOREM TextsAreKept == Spec => []QuarantineKeepsTheCastTexts
<1>1. RowInv => QuarantineKeepsTheCastTexts
  <2> SUFFICES ASSUME RowInv PROVE QuarantineKeepsTheCastTexts
    OBVIOUS
  <2>1. ASSUME stage = "routed" PROVE (event = NULL) # (quarantined = NULL)
    <3> DEFINE p == process(line, Now)
    <3>1. CASE IsValid(p)
      <4>1. event = finalize_events(p) /\ quarantined = NULL /\ ~process_raises(line)
            /\ line \in Lines
        BY <2>1, <3>1 DEF RowInv
      <4>2. event # NULL
        BY <3>1, <4>1, AcceptedRowsMeetTheDDL, InputAssumption, NoRowAssumption
      <4> QED
        BY <4>1, <4>2
    <3>2. CASE ~IsValid(p)
      <4>1. event = NULL /\ quarantined = finalize_quarantine(p) /\ line \in Lines
        BY <2>1, <3>2 DEF RowInv
      <4>2. quarantined # NULL
        BY <3>2, <4>1, RefusedRowsMeetTheDDL, InputAssumption, NoRowAssumption
      <4> QED
        BY <4>1, <4>2
    <3> QED
      BY <3>1, <3>2
  <2>2. ASSUME quarantined # NULL
        PROVE  \A c \in {"event_time", "generated_at", "price", "quantity"} :
                  quarantined[c] = line[c]
    BY <2>2, QuarantinedRow, RefusedRowsMeetTheDDL, InputAssumption
  <2> QED
    BY <2>1, <2>2 DEF QuarantineKeepsTheCastTexts
<1> QED
  BY <1>1, StagesCompose, PTL

(***************************************************************************)
(* An event of the generator, corrupted or not, written and read back, as  *)
(* the rules see it.                                                       *)
(***************************************************************************)
LEMMA PricesOfTheGenerator ==
    ASSUME NEW mills \in Int, 1000 <= mills
    PROVE  /\ RoundToCents(mills) \in Int /\ RoundToCents(mills) >= 0
           /\ RoundToCents(-mills) \in Int /\ RoundToCents(-mills) < 0
  BY DEF RoundToCents

\* What make_event guarantees of each column.
LEMMA MadeEvent ==
    ASSUME NEW e, make_event(e)
    PROVE  /\ e.corrupt = NULL
           /\ e.event_id \notin {NULL, EmptyText}
           /\ e.user_id \notin {NULL, EmptyText}
           /\ e.product_id \notin {NULL, EmptyText}
           /\ e.category \in CATEGORIES
           /\ e.event_type \in EVENT_TYPES
           /\ e.event_time \in Int /\ e.generated_at \in Int
           /\ e.price \in Int /\ 1000 <= e.price
           /\ e.quantity \in 1 .. 5
<1>1. /\ {e.event_id, e.user_id, e.product_id} \intersect {NULL, EmptyText} = {}
      /\ e.corrupt = NULL
      /\ e.category \in CATEGORIES
      /\ e.event_type \in EVENT_TYPES
      /\ e.event_time \in Int /\ e.generated_at \in Int
      /\ e.price \in Int /\ 1000 <= e.price
      /\ e.quantity \in 1 .. 5
  BY SMT DEF make_event
<1>2. /\ e.event_id \notin {NULL, EmptyText}
      /\ e.user_id \notin {NULL, EmptyText}
      /\ e.product_id \notin {NULL, EmptyText}
  BY <1>1
<1> QED
  BY <1>1, <1>2

\* What the rules read of a line that agrees with an event of the generator on
\* the fields no defect touches.
LEMMA MadeColumns ==
    ASSUME NEW e \in Lines, make_event(e), TryCastPrice(e.price) # NULL,
           TryCastInt(e.quantity) # NULL, NEW l,
           \A c \in {"corrupt", "event_id", "user_id", "event_type", "generated_at"} :
              l[c] = e[c]
    PROVE  LET r == Derived(l, Now)
           IN  /\ r.corrupt = NULL
               /\ r.event_id \notin {NULL, EmptyText}
               /\ r.user_id \notin {NULL, EmptyText}
               /\ r.event_type # NULL /\ r.event_type \in EVENT_TYPES
               /\ r.generated_at_ts # NULL
               /\ r.product_id = l.product_id
               /\ l.event_time = e.event_time => r.event_time_ts # NULL
               /\ l.event_time = Garbage => r.event_time_ts = NULL
               /\ l.price = e.price =>
                    r.price_num # NULL /\ r.price_num \in Int /\ r.price_num >= 0
               /\ l.price = -e.price =>
                    r.price_num = NULL \/ (r.price_num \in Int /\ r.price_num < 0)
               /\ l.quantity = e.quantity =>
                    /\ r.quantity_num # NULL
                    /\ r.quantity_num \in Int /\ r.quantity_num >= 1
               /\ l.quantity = 0 =>
                    r.quantity_num = NULL
                    \/ (r.quantity_num \in Int /\ r.quantity_num < 1)
<1> DEFINE r == Derived(l, Now)
<1>1. /\ r.corrupt = l.corrupt /\ r.event_id = l.event_id /\ r.user_id = l.user_id
      /\ r.product_id = l.product_id
      /\ r.event_type = NormaliseText(l.event_type)
      /\ r.price_num = TryCastPrice(l.price)
      /\ r.quantity_num = TryCastInt(l.quantity)
      /\ r.event_time_ts = TryCastTimestamp(l.event_time)
      /\ r.generated_at_ts = TryCastTimestamp(l.generated_at)
  BY DerivedColumns
<1> HIDE DEF r
<1>2. \A n \in Int : n \notin {NULL, Garbage}
  BY NullAssumption
<1>3. /\ e.corrupt = NULL
      /\ e.event_id \notin {NULL, EmptyText}
      /\ e.user_id \notin {NULL, EmptyText}
      /\ e.event_type \in EVENT_TYPES
      /\ e.event_time \in Int /\ e.generated_at \in Int
      /\ e.price \in Int /\ 1000 <= e.price
      /\ e.quantity \in 1 .. 5
  BY MadeEvent
<1>4. r.event_type # NULL /\ r.event_type \in EVENT_TYPES
  <2>1. e.event_type # NULL /\ TrimLower[e.event_type] = e.event_type
    BY <1>3, TextAssumption, NullAssumption
  <2> QED
    BY <1>1, <1>3, <2>1 DEF NormaliseText
<1>5. r.generated_at_ts # NULL
  BY <1>1, <1>2, <1>3 DEF TryCastTimestamp
<1>6. /\ l.event_time = e.event_time => r.event_time_ts # NULL
      /\ l.event_time = Garbage => r.event_time_ts = NULL
  BY <1>1, <1>2, <1>3 DEF TryCastTimestamp
<1>7. TryCastPrice(e.price) = RoundToCents(e.price)
  BY <1>2, <1>3 DEF TryCastPrice, Fit
<1>8. TryCastPrice(-e.price) \in {NULL, RoundToCents(-e.price)}
  <2>1. -e.price \in Int
    BY <1>3
  <2> QED
    BY <1>2, <2>1 DEF TryCastPrice, Fit
<1>9. l.price = e.price =>
        r.price_num # NULL /\ r.price_num \in Int /\ r.price_num >= 0
  BY <1>1, <1>3, <1>7, PricesOfTheGenerator
<1>10. l.price = -e.price =>
         r.price_num = NULL \/ (r.price_num \in Int /\ r.price_num < 0)
  BY <1>1, <1>3, <1>8, PricesOfTheGenerator
<1>11. TryCastInt(e.quantity) = e.quantity
  BY <1>2, <1>3 DEF TryCastInt, Fit
<1>12. TryCastInt(0) \in {NULL, 0}
  BY <1>2 DEF TryCastInt, Fit
<1>13. l.quantity = e.quantity =>
         r.quantity_num # NULL /\ r.quantity_num \in Int /\ r.quantity_num >= 1
  BY <1>1, <1>3, <1>11
<1>14. l.quantity = 0 =>
         r.quantity_num = NULL \/ (r.quantity_num \in Int /\ r.quantity_num < 1)
  BY <1>1, <1>12
<1> QED
  BY <1>1, <1>3, <1>4, <1>5, <1>6, <1>9, <1>10, <1>13, <1>14 DEF r

\* One field is corrupted, and the reader gives the others back as written.
LEMMA CsvOfAnEvent ==
    ASSUME NEW e \in Lines, make_event(e), NEW d \in DEFECT_TYPES
    PROVE  LET l == ReadCsv(make_malformed_event(e, d))
           IN  /\ \A c \in {"corrupt", "event_id", "user_id", "event_type",
                              "generated_at"} : l[c] = e[c]
               /\ l.product_id = IF d = "null_product_id" THEN NULL ELSE e.product_id
               /\ l.price = IF d = "negative_price" THEN -e.price ELSE e.price
               /\ l.event_time =
                    IF d = "unparseable_event_time" THEN Garbage ELSE e.event_time
               /\ l.quantity = IF d = "zero_quantity" THEN 0 ELSE e.quantity
<1> DEFINE m == make_malformed_event(e, d)
           l == ReadCsv(m)
<1>1. {"corrupt", "event_id", "user_id", "event_type", "generated_at", "product_id",
       "price", "event_time", "quantity", "category"} = DOMAIN e
  BY DEF Lines
<1>2. /\ \A c \in {"corrupt", "event_id", "user_id", "event_type", "generated_at",
                   "category"} : m[c] = e[c]
      /\ m.product_id = IF d = "null_product_id" THEN EmptyText ELSE e.product_id
      /\ m.price = IF d = "negative_price" THEN -e.price ELSE e.price
      /\ m.event_time = IF d = "unparseable_event_time" THEN Garbage ELSE e.event_time
      /\ m.quantity = IF d = "zero_quantity" THEN 0 ELSE e.quantity
      /\ DOMAIN m = DOMAIN e
  BY <1>1 DEF make_malformed_event
<1> HIDE DEF m
<1>3. /\ \A c \in {"event_id", "user_id", "event_type", "product_id"} :
           l[c] = ReadField(m[c])
      /\ \A c \in {"corrupt", "generated_at", "price", "event_time", "quantity"} :
           l[c] = m[c]
  BY <1>1, <1>2 DEF ReadCsv
<1>4. /\ e.event_id # EmptyText /\ e.user_id # EmptyText /\ e.product_id # EmptyText
      /\ e.event_type # EmptyText
  BY MadeEvent, TextAssumption
<1> HIDE DEF l
<1>5. l.product_id = IF d = "null_product_id" THEN NULL ELSE e.product_id
  BY <1>2, <1>3, <1>4 DEF ReadField
<1>6. \A c \in {"corrupt", "event_id", "user_id", "event_type", "generated_at"} :
         l[c] = e[c]
  BY <1>2, <1>3, <1>4 DEF ReadField
<1> QED
  BY <1>2, <1>3, <1>5, <1>6 DEF l, m

(***************************************************************************)
(* One corrupted field makes one rule fire first: the one it stands for.   *)
(***************************************************************************)
LEMMA CorruptedEvent ==
    ASSUME NEW e \in Lines, make_event(e), TryCastPrice(e.price) # NULL,
           TryCastInt(e.quantity) # NULL, NEW d \in DEFECT_TYPES
    PROVE  RejectionReason(Derived(ReadCsv(make_malformed_event(e, d)), Now))
             = IntendedReason[d]
<1> DEFINE l == ReadCsv(make_malformed_event(e, d))
           r == Derived(l, Now)
           C(i) == RejectionRules(r)[i].condition
<1>1. /\ \A c \in {"corrupt", "event_id", "user_id", "event_type", "generated_at"} :
            l[c] = e[c]
      /\ l.product_id = IF d = "null_product_id" THEN NULL ELSE e.product_id
      /\ l.price = IF d = "negative_price" THEN -e.price ELSE e.price
      /\ l.event_time =
            IF d = "unparseable_event_time" THEN Garbage ELSE e.event_time
      /\ l.quantity = IF d = "zero_quantity" THEN 0 ELSE e.quantity
  BY CsvOfAnEvent
<1>2. /\ RejectionRules(r)[5].reason = "missing_product_id"
      /\ RejectionRules(r)[6].reason = "unparseable_event_time"
      /\ RejectionRules(r)[8].reason = "invalid_price"
      /\ RejectionRules(r)[9].reason = "invalid_quantity"
  BY DEF RejectionRules, Rule
<1> HIDE DEF l
<1>3. /\ r.corrupt = NULL
      /\ r.event_id \notin {NULL, EmptyText}
      /\ r.user_id \notin {NULL, EmptyText}
      /\ r.event_type # NULL /\ r.event_type \in EVENT_TYPES
      /\ r.generated_at_ts # NULL
      /\ r.product_id = l.product_id
      /\ l.event_time = e.event_time => r.event_time_ts # NULL
      /\ l.event_time = Garbage => r.event_time_ts = NULL
      /\ l.price = e.price =>
           r.price_num # NULL /\ r.price_num \in Int /\ r.price_num >= 0
      /\ l.price = -e.price =>
           r.price_num = NULL \/ (r.price_num \in Int /\ r.price_num < 0)
      /\ l.quantity = e.quantity =>
           r.quantity_num # NULL /\ r.quantity_num \in Int /\ r.quantity_num >= 1
      /\ l.quantity = 0 =>
           r.quantity_num = NULL \/ (r.quantity_num \in Int /\ r.quantity_num < 1)
  BY <1>1, MadeColumns
<1>4. e.product_id \notin {NULL, EmptyText}
  BY MadeEvent
<1> HIDE DEF r
<1>5. C(1) # TRUE /\ C(2) # TRUE /\ C(3) # TRUE /\ C(4) # TRUE /\ C(7) # TRUE
  BY <1>3, QuietRules
<1>6. d # "null_product_id" => C(5) # TRUE
  BY <1>1, <1>3, <1>4, QuietRules
<1>7. d # "unparseable_event_time" => C(6) # TRUE
  BY <1>1, <1>3, QuietRules
<1>8. d # "negative_price" => C(8) # TRUE
  BY <1>1, <1>3, QuietRules
<1>9. CASE d = "null_product_id"
  <2>1. C(5) = TRUE
    BY <1>1, <1>3, <1>9, FiringRules
  <2>2. \A j \in 1 .. 9 : j < 5 => j \in {1, 2, 3, 4}
    OBVIOUS
  <2>3. \A j \in 1 .. 9 : j < 5 => C(j) # TRUE
    BY <1>5, <2>2, Zenon
  <2>4. 5 \in 1 .. 9 /\ RejectionReason(r) = RejectionRules(r)[5].reason
    <3>1. 5 \in 1 .. 9
      OBVIOUS
    <3> QED
      BY <2>1, <2>3, <3>1, FirstRule, Zenon
  <2>5. RejectionReason(r) = "missing_product_id"
    BY <1>2, <2>4
  <2> QED
    BY <1>9, <2>5 DEF IntendedReason, r, l
<1>10. CASE d = "unparseable_event_time"
  <2>1. C(6) = TRUE
    BY <1>1, <1>3, <1>10, FiringRules
  <2>2. \A j \in 1 .. 9 : j < 6 => j \in {1, 2, 3, 4, 5}
    OBVIOUS
  <2>3. C(5) # TRUE
    BY <1>6, <1>10
  <2>4. \A j \in 1 .. 9 : j < 6 => C(j) # TRUE
    BY <1>5, <2>2, <2>3, Zenon
  <2>5. 6 \in 1 .. 9 /\ RejectionReason(r) = RejectionRules(r)[6].reason
    <3>1. 6 \in 1 .. 9
      OBVIOUS
    <3> QED
      BY <2>1, <2>4, <3>1, FirstRule, Zenon
  <2>6. RejectionReason(r) = "unparseable_event_time"
    BY <1>2, <2>5
  <2> QED
    BY <1>10, <2>6 DEF IntendedReason, r, l
<1>11. CASE d = "negative_price"
  <2>1. C(8) = TRUE
    BY <1>1, <1>3, <1>11, FiringRules
  <2>2. \A j \in 1 .. 9 : j < 8 => j \in {1, 2, 3, 4, 5, 6, 7}
    OBVIOUS
  <2>3. C(5) # TRUE /\ C(6) # TRUE
    BY <1>6, <1>7, <1>11
  <2>4. \A j \in 1 .. 9 : j < 8 => C(j) # TRUE
    BY <1>5, <2>2, <2>3, Zenon
  <2>5. 8 \in 1 .. 9 /\ RejectionReason(r) = RejectionRules(r)[8].reason
    <3>1. 8 \in 1 .. 9
      OBVIOUS
    <3> QED
      BY <2>1, <2>4, <3>1, FirstRule, Zenon
  <2>6. RejectionReason(r) = "invalid_price"
    BY <1>2, <2>5
  <2> QED
    BY <1>11, <2>6 DEF IntendedReason, r, l
<1>12. CASE d = "zero_quantity"
  <2>1. C(9) = TRUE
    BY <1>1, <1>3, <1>12, FiringRules
  <2>2. \A j \in 1 .. 9 : j < 9 => j \in {1, 2, 3, 4, 5, 6, 7, 8}
    OBVIOUS
  <2>3. C(5) # TRUE /\ C(6) # TRUE /\ C(8) # TRUE
    BY <1>6, <1>7, <1>8, <1>12
  <2>4. \A j \in 1 .. 9 : j < 9 => C(j) # TRUE
    BY <1>5, <2>2, <2>3, Zenon
  <2>5. 9 \in 1 .. 9 /\ RejectionReason(r) = RejectionRules(r)[9].reason
    <3>1. 9 \in 1 .. 9
      OBVIOUS
    <3> QED
      BY <2>1, <2>4, <3>1, FirstRule, Zenon
  <2>6. RejectionReason(r) = "invalid_quantity"
    BY <1>2, <2>5
  <2> QED
    BY <1>12, <2>6 DEF IntendedReason, r, l
<1> QED
  BY <1>9, <1>10, <1>11, <1>12 DEF DEFECT_TYPES

(***************************************************************************)
(* A defect the generator injects ends in quarantine under the reason it   *)
(* stands for (make_malformed_event, add_rejection_reason), through        *)
(* writing, reading and the order of the rules.                            *)
(***************************************************************************)
THEOREM DefectsAreAttributed == Spec => []DefectsAreNamed
<1>1. RowInv => DefectsAreNamed
  <2> SUFFICES ASSUME RowInv, stage = "routed", defect # NULL
               PROVE  /\ quarantined # NULL
                      /\ quarantined.rejection_reason = IntendedReason[defect]
    BY DEF DefectsAreNamed
  <2>1. defect \in DEFECT_TYPES /\ line \in Lines
    BY DEF RowInv, OrNull
  <2>2. PICK e \in Inputs : Origin(e, defect) /\ line = ReadCsv(Written(e, defect))
    BY DEF RowInv
  <2>3. /\ e \in Lines /\ make_event(e)
        /\ TryCastPrice(e.price) # NULL /\ TryCastInt(e.quantity) # NULL
        /\ line = ReadCsv(make_malformed_event(e, defect))
    BY <2>2, InputAssumption, FitAssumption DEF Origin, Written
  <2>4. RejectionReason(Derived(line, Now)) = IntendedReason[defect]
    BY <2>1, <2>3, CorruptedEvent
  <2>5. IntendedReason[defect] \in Reasons
    BY <2>1 DEF IntendedReason, DEFECT_TYPES, Reasons
  <2>6. ~IsValid(process(line, Now))
    BY <2>4, <2>5, JudgedColumns, NullAssumption DEF IsValid
  <2>7. quarantined = finalize_quarantine(process(line, Now))
    BY <2>6 DEF RowInv
  <2> QED
    BY <2>1, <2>4, <2>6, <2>7, RefusedRowsMeetTheDDL, InputAssumption,
       NoRowAssumption
<1> QED
  BY <1>1, StagesCompose, PTL

(***************************************************************************)
(* No rule refuses an event the generator made and left alone.             *)
(***************************************************************************)
THEOREM CleanEventsPass == Spec => []CleanEventsAreStored
<1>1. RowInv => CleanEventsAreStored
  <2> SUFFICES ASSUME RowInv, stage = "routed", defect = NULL, make_event(line)
               PROVE  event # NULL
    BY DEF CleanEventsAreStored
  <2> DEFINE r == Derived(line, Now)
  <2>1. line \in Lines
    BY DEF RowInv
  <2>2. PICK e \in Inputs : line = ReadCsv(e)
    BY DEF RowInv, Written
  <2>3. make_event(e) /\ e.price = line.price /\ e.quantity = line.quantity
    <3>1. e \in Lines
      BY InputAssumption
    <3>2. /\ \A c \in {"event_id", "user_id", "product_id", "category", "event_type"} :
               line[c] = ReadField(e[c])
          /\ \A c \in {"corrupt", "event_time", "generated_at", "price", "quantity"} :
               line[c] = e[c]
      BY <2>2, <3>1 DEF ReadCsv, Lines
    <3>3. \A c \in {"event_id", "user_id", "product_id", "category", "event_type"} :
             line[c] # NULL
      <4>1. NULL \notin EVENT_TYPES /\ NULL \notin CATEGORIES
        BY TextAssumption, InputAssumption, NullAssumption
      <4> QED
        BY <4>1, MadeEvent
    <3>4. \A c \in {"event_id", "user_id", "product_id", "category", "event_type"} :
             line[c] = e[c]
      BY <3>2, <3>3 DEF ReadField
    <3>5. /\ e.event_id = line.event_id /\ e.user_id = line.user_id
          /\ e.product_id = line.product_id /\ e.category = line.category
          /\ e.event_type = line.event_type /\ e.corrupt = line.corrupt
          /\ e.event_time = line.event_time /\ e.generated_at = line.generated_at
          /\ e.price = line.price /\ e.quantity = line.quantity
      BY <3>2, <3>4
    <3> QED
      BY <3>5, SMT DEF make_event
  <2>4. TryCastPrice(line.price) # NULL /\ TryCastInt(line.quantity) # NULL
    BY <2>3, FitAssumption
  <2>5. line.product_id \notin {NULL, EmptyText}
    BY MadeEvent
  <2>6. \A i \in 1 .. 9 : RejectionRules(r)[i].condition # TRUE
    <3>1. /\ r.corrupt = NULL
          /\ r.event_id \notin {NULL, EmptyText}
          /\ r.user_id \notin {NULL, EmptyText}
          /\ r.product_id \notin {NULL, EmptyText}
          /\ r.event_type # NULL /\ r.event_type \in EVENT_TYPES
          /\ r.event_time_ts # NULL /\ r.generated_at_ts # NULL
          /\ r.price_num # NULL /\ r.price_num \in Int /\ r.price_num >= 0
          /\ r.quantity_num # NULL /\ r.quantity_num \in Int /\ r.quantity_num >= 1
      BY <2>1, <2>4, <2>5, MadeColumns
    <3> HIDE DEF r
    <3> DEFINE C(i) == RejectionRules(r)[i].condition
    <3>2. /\ C(1) # TRUE /\ C(2) # TRUE /\ C(3) # TRUE /\ C(4) # TRUE /\ C(5) # TRUE
          /\ C(6) # TRUE /\ C(7) # TRUE /\ C(8) # TRUE /\ C(9) # TRUE
      BY <3>1, QuietRules
    <3>3. \A i \in 1 .. 9 : i \in {1, 2, 3, 4, 5, 6, 7, 8, 9}
      OBVIOUS
    <3> QED
      BY <3>2, <3>3, Zenon
  <2>7. RejectionReason(r) = NULL
    BY <2>6, Zenon DEF RejectionReason
  <2>8. IsValid(process(line, Now))
    BY <2>7, JudgedColumns DEF IsValid
  <2>9. event = finalize_events(process(line, Now)) /\ ~process_raises(line)
    BY <2>8 DEF RowInv
  <2> QED
    BY <2>1, <2>8, <2>9, AcceptedRowsMeetTheDDL, InputAssumption, NoRowAssumption
<1> QED
  BY <1>1, StagesCompose, PTL
=============================================================================
