---------------------------- MODULE MCStreaming -----------------------------
(* Small datasets for Streaming. *)
EXTENDS StreamingInvariant, AggregateLoop

MCEventTypes == {"view", "purchase"}
MCTexts == MCEventTypes \union {"", "e1", "e2", "e3", "e4", "e5", "e6", "u", "p", "books", "toys"}
MCTrimLower == [t \in MCTexts |-> t]

\* A line of the generator with the given fields.
Event(id, second, category, type, mills, quantity) ==
    [corrupt |-> NULL, event_id |-> id, user_id |-> "u", product_id |-> "p",
     category |-> category, event_type |-> type,
     event_time |-> second, generated_at |-> 62,
     price |-> mills, quantity |-> quantity]

\* Three files. Ids repeat within f1 (as two purchases that differ in revenue)
\* and between f1 and f2; f3 has no valid row; two events share a bucket.
MCFiles == {"f1", "f2", "f3"}
MCFileOf ==
    [r \in 1 .. 7 |-> IF r <= 3 THEN "f1" ELSE IF r <= 5 THEN "f2" ELSE "f3"]
MCLine ==
    << Event("e1", 59, "books", "purchase", 10, 2),
       Event("e1", 59, "books", "purchase", 10, 1),
       Event("e2", 0, "books", "view", 30, 1),
       Event("e1", 61, "toys", "purchase", 10, 3),
       Event("e3", 58, "books", "purchase", 20, 1),
       Event("e4", 1, "toys", "purchase", -10, 1),
       Event("e4", Garbage, "toys", "view", 10, 1) >>

\* Five files with the rows that are refused: f3 has an event in a minute that
\* ends after LastInstant, f4 one without a category, f5 one whose revenue does
\* not fit. With TotalLimit = 4 the revenue of f1 and f2 together fits or not,
\* by which row keeps id e1.
RefusedFiles == {"f1", "f2", "f3", "f4", "f5"}
RefusedFileOf ==
    <<"f1", "f1", "f1", "f2", "f2", "f3", "f3", "f4", "f5">>
RefusedLine ==
    [MCLine EXCEPT ![7].event_time = 121]
        \o << Event("e5", 59, NULL, "view", 10, 1),
              Event("e6", 59, "books", "purchase", 90, 9) >>

\* No fault but the missing category.
UncategorisedLine == [MCLine EXCEPT ![5].category = NULL]
=============================================================================
