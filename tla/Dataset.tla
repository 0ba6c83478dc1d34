------------------------------ MODULE Dataset -------------------------------
(***************************************************************************)
(* The rows and files of one deployment, and what event_metrics should say *)
(* of a set of rows.                                                       *)
(*                                                                         *)
(* A member of Rows is one physical CSV row, Line[r] its text.  Two rows   *)
(* may carry the same event_id.  What the stages make of a row depends on  *)
(* the row alone (the wall clock only reaches ingested_at and latency_ms), *)
(* so a replayed batch yields the same rows, and the tables of the other   *)
(* modules hold members of Rows.                                           *)
(***************************************************************************)
EXTENDS Transforms, FiniteSets

CONSTANTS
    Rows,        \* the CSV rows ever written, a finite set
    Line,        \* the text of each
    Files,       \* the names of the files the generator publishes
    FileOf,      \* the file a row is in
    LastInstant, \* the last instant Python's datetime can represent
    TotalLimit   \* the first total NUMERIC(14,2) cannot hold, in cents

ASSUME RowAssumption ==
    /\ IsFiniteSet(Rows)
    /\ Line \in [Rows -> Lines]
    /\ IsFiniteSet(Files)
    /\ FileOf \in [Rows -> Files]
    /\ LastInstant \in Int
    /\ TotalLimit \in Nat

Processed == [r \in Rows |-> process(Line[r], 0)]

Valid == {r \in Rows : IsValid(Processed[r])}
Invalid == Rows \ Valid

\* Rows on which evaluating the DataFrame raises, valid or not.
Overflowing == {r \in Rows : process_raises(Line[r])}

RowsIn(F) == {r \in Rows : FileOf[r] \in F}

event_id(r) == Processed[r].event_id
ids(S) == {event_id(r) : r \in S}

\* S holds one row for each of its event ids.
DistinctIds(S) == \A r, s \in S : event_id(r) = event_id(s) => r = s

\* row["revenue"] or Decimal("0.00")
revenue(r) == IF Processed[r].revenue = NULL THEN 0 ELSE Processed[r].revenue

-----------------------------------------------------------------------------
(* aggregate_by_window: one bucket per minute of event time and category. *)

window_start(t) == t - (t % 60)
window_end(t) == window_start(t) + 60

Bucket(r) == <<window_start(Processed[r].event_time_ts), Processed[r].category>>
Buckets == {Bucket(r) : r \in Valid}

InBucket(S, b) == {r \in S : Bucket(r) = b}

\* The total revenue of S, as the number of its cents.
Cents(S) == {rc \in S \X (1 .. RevenueLimit) : rc[2] <= revenue(rc[1])}

\* A bucket with no rows is one the function does not return.
aggregate_by_window(S) ==
    [b \in Buckets |->
        [total_revenue |-> Cardinality(Cents(InBucket(S, b))),
         event_count |-> Cardinality(InBucket(S, b))]]

\* datetime arithmetic raises when the window would end after datetime.max.
aggregate_raises(S) ==
    \E r \in S : window_end(Processed[r].event_time_ts) > LastInstant

NoMetrics == [b \in Buckets |-> [total_revenue |-> 0, event_count |-> 0]]
MetricsTable == [Buckets -> [total_revenue : Nat, event_count : Nat]]

-----------------------------------------------------------------------------
(* The statements of write_metrics_batch and of its transaction. *)

\* The uncommitted effects of pg_transaction: rows of events, whether the
\* staging table is dropped, the upserted delta.
NoTransaction == [rows |-> {}, drop |-> FALSE, metrics |-> NoMetrics]

Accumulate(metrics, delta) ==
    [b \in Buckets |->
        [total_revenue |-> metrics[b].total_revenue + delta[b].total_revenue,
         event_count |-> metrics[b].event_count + delta[b].event_count]]

\* The upsert is refused for a NULL category or a total that is too wide, and
\* datetime raises for a window past its last instant.
Refused(metrics, S) ==
    \/ aggregate_raises(S)
    \/ \E r \in S :
          \/ Processed[r].category = NULL
          \/ Accumulate(metrics, aggregate_by_window(S))[Bucket(r)]
               .total_revenue >= TotalLimit
=============================================================================
