------------------------------ MODULE RowFlow -------------------------------
(***************************************************************************)
(* The way of one event: the generator makes it, perhaps corrupts one      *)
(* field, writes it to a CSV file; the reader yields a line; the stages    *)
(* process_batch chains route it to events or to events_quarantine, or     *)
(* raise.  Lines that no generator made (any file dropped into             *)
(* incoming_dir) enter at the reader.                                      *)
(***************************************************************************)
EXTENDS Transforms

CONSTANTS
    Inputs,      \* the lines considered, a subset of Lines
    CATEGORIES,  \* the generator's categories
    Now          \* the wall clock when the batch runs

DEFECT_TYPES ==
    {"null_product_id", "negative_price", "unparseable_event_time",
     "zero_quantity"}

ASSUME InputAssumption ==
    /\ Inputs \subseteq Lines
    /\ CATEGORIES \subseteq Texts
    /\ \A t \in CATEGORIES : TrimLower[t] = t
    /\ Now \in Int

\* NULL is neither a row of a table nor the name of a defect.
ASSUME NoRowAssumption ==
    NULL \notin EventsTable /\ NULL \notin QuarantineTable /\ NULL \notin DEFECT_TYPES

VARIABLES
    line,         \* the event as made, then as written, then as read
    defect,       \* the defect the generator chose, or NULL
    row,          \* the row of the DataFrame
    stage,        \* the last stage applied
    event,        \* the row written to events, or NULL
    quarantined   \* the row written to events_quarantine, or NULL

vars == <<line, defect, row, stage, event, quarantined>>

\* What make_event can return: prices of 1 to 500 in cents, one to five items,
\* an event that happened at most two seconds before it was generated.
make_event(e) ==
    /\ e.corrupt = NULL
    /\ {e.event_id, e.user_id, e.product_id}
         \intersect {NULL, EmptyText} = {}
    /\ e.category \in CATEGORIES
    /\ e.event_type \in EVENT_TYPES
    /\ e.event_time \in Int /\ e.generated_at \in Int
    /\ e.event_time \in (e.generated_at - 2) .. e.generated_at
    /\ e.price \in Int /\ e.price % 10 = 0
    /\ 1000 <= e.price /\ e.price <= 500000
    /\ e.quantity \in 1 .. 5

\* A price of at most 500.00 and a quantity of at most five fit decimal(10,2)
\* and int.
ASSUME FitAssumption ==
    \A e \in Inputs : make_event(e) => /\ TryCastPrice(e.price) # NULL
                                      /\ TryCastInt(e.quantity) # NULL

make_malformed_event(e, d) ==
    [e EXCEPT
        !.product_id = IF d = "null_product_id" THEN EmptyText ELSE @,
        !.price = IF d = "negative_price" THEN -@ ELSE @,
        !.event_time = IF d = "unparseable_event_time" THEN Garbage ELSE @,
        !.quantity = IF d = "zero_quantity" THEN 0 ELSE @]

\* Spark's CSV reader yields NULL for an empty field.
ReadField(text) == IF text = EmptyText THEN NULL ELSE text

ReadCsv(e) ==
    [e EXCEPT !.event_id = ReadField(@), !.user_id = ReadField(@),
              !.product_id = ReadField(@), !.category = ReadField(@),
              !.event_type = ReadField(@)]

-----------------------------------------------------------------------------
\* What each stage hands over has the columns and types the next one reads.
TypeOK ==
    /\ line \in Lines
    /\ defect \in OrNull(DEFECT_TYPES)
    /\ row \in OrNull(RowsOfBatch)
    /\ stage \in {"made", "written", "read", "cast", "normalised", "derived",
                  "judged", "routed", "raised"}
    /\ quarantined \in OrNull(QuarantineTable)

Init ==
    /\ line \in Inputs
    /\ defect = NULL
    /\ row = NULL
    /\ stage = "made"
    /\ event = NULL
    /\ quarantined = NULL

\* generate_batch decides whether to corrupt an event the generator made.
Generate ==
    /\ stage = "made"
    /\ \/ /\ make_event(line)
          /\ \E d \in DEFECT_TYPES :
                /\ defect' = d
                /\ line' = make_malformed_event(line, d)
       \/ UNCHANGED <<line, defect>>
    /\ stage' = "written"
    /\ UNCHANGED <<row, event, quarantined>>

Read ==
    /\ stage = "written"
    /\ line' = ReadCsv(line)
    /\ row' = ReadLine(line')
    /\ stage' = "read"
    /\ UNCHANGED <<defect, event, quarantined>>

Step(to, next) ==
    /\ stage' = to
    /\ row' = next
    /\ UNCHANGED <<line, defect, event, quarantined>>

Cast == stage = "read" /\ Step("cast", cast_types(row))

Normalise == stage = "cast" /\ Step("normalised", normalise(row))

\* Fault: derive runs before normalise.
DeriveFirst ==
    /\ stage = "normalised"
    /\ ~derive_raises(row)
    /\ LET early == derive([row EXCEPT !.event_type = line.event_type], Now)
       IN  Step("derived", [early EXCEPT !.event_type = row.event_type])

Derive ==
    /\ stage = "normalised"
    /\ ~derive_raises(row)
    /\ Step("derived", derive(row, Now))

DeriveRaises ==
    /\ stage = "normalised"
    /\ derive_raises(row)
    /\ Step("raised", row)

Judge == stage = "derived" /\ Step("judged", add_rejection_reason(row))

Route ==
    /\ stage = "judged"
    /\ stage' = "routed"
    /\ event' = IF IsValid(row) THEN finalize_events(row) ELSE NULL
    /\ quarantined' = IF ~IsValid(row) THEN finalize_quarantine(row) ELSE NULL
    /\ UNCHANGED <<line, defect, row>>

Done == stage \in {"routed", "raised"} /\ UNCHANGED vars

Next ==
    \/ Generate \/ Read \/ Cast \/ Normalise
    \/ Derive \/ DeriveRaises \/ Judge \/ Route \/ Done

Spec == Init /\ [][Next]_vars

-----------------------------------------------------------------------------
(* Safety *)

\* Every row the rules accept satisfies every constraint of CREATE TABLE
\* events, so the INSERT of write_events_batch cannot be refused by one
\* (postgres_setup.sql lines 1-10: "structurally guaranteed").
StoredRowsMeetTheDDL == event # NULL => event \in EventsTable

IntendedReason ==
    [null_product_id |-> "missing_product_id",
     negative_price |-> "invalid_price",
     unparseable_event_time |-> "unparseable_event_time",
     zero_quantity |-> "invalid_quantity"]

\* A defect of the generator ends in quarantine under the one reason it
\* stands for, through writing, reading and the order of the rules
\* (generator.py lines 42-44: "unambiguous").
DefectsAreNamed ==
    stage = "routed" /\ defect # NULL =>
        /\ quarantined # NULL
        /\ quarantined.rejection_reason = IntendedReason[defect]

\* An event the generator made and did not corrupt is stored.
CleanEventsAreStored ==
    stage = "routed" /\ defect = NULL /\ make_event(line) => event # NULL

\* A stored row carries revenue, its price times its quantity, exactly when
\* the text received was some spelling of purchase: normalise has to run
\* before derive looks at event_type.
RevenueExactlyForPurchases ==
    event # NULL =>
        event.revenue = IF TrimLower[line.event_type] = Purchase
                        THEN event.price * event.quantity ELSE NULL

\* The four cast columns of a quarantined row are the texts received
\* (finalize_quarantine: "keeps the ORIGINAL STRING columns"), and no line is
\* in both tables or, once routed, in neither.
QuarantineKeepsTheCastTexts ==
    /\ stage = "routed" => (event = NULL) # (quarantined = NULL)
    /\ quarantined # NULL =>
         \A c \in {"event_time", "generated_at", "price", "quantity"} :
             quarantined[c] = line[c]

-----------------------------------------------------------------------------
(* What the documentation says and the code does not do *)

\* cast_types, transforms.py lines 42-49: a bad value in one row must not
\* take the whole batch down.
NoLineCrashesTheBatch == stage # "raised"

\* finalize_quarantine, transforms.py lines 190-192: the table shows what was
\* actually received.
QuarantineShowsWhatWasReceived ==
    quarantined # NULL =>
        \A c \in {"category", "event_type"} : quarantined[c] = line[c]
=============================================================================
