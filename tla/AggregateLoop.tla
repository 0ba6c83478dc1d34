--------------------------- MODULE AggregateLoop ----------------------------
(***************************************************************************)
(* aggregate_by_window as it computes: a loop over the list of rows that   *)
(* RETURNING gave, in whatever order, with a dict of buckets. Dataset      *)
(* defines the same without an order.                                      *)
(***************************************************************************)
EXTENDS Streaming

\* key
Key(r) == <<window_start(Processed[r].event_time_ts),
            window_end(Processed[r].event_time_ts), Processed[r].category>>

\* Fault: a bucket is made anew for each of its rows.
MakeBucket(buckets, r) ==
    [k \in DOMAIN buckets \union {Key(r)} |->
        IF k = Key(r) THEN [total_revenue |-> revenue(r), event_count |-> 1]
                      ELSE buckets[k]]

\* setdefault, then += on both fields.
Bump(buckets, r) ==
    LET bucket == IF Key(r) \in DOMAIN buckets THEN buckets[Key(r)]
                  ELSE [total_revenue |-> 0, event_count |-> 0]
    IN [k \in DOMAIN buckets \union {Key(r)} |->
           IF k = Key(r)
           THEN [total_revenue |-> bucket.total_revenue + revenue(r),
                 event_count |-> bucket.event_count + 1]
           ELSE buckets[k]]

\* The dict after each of the rows.
buckets_after(rows) ==
    LET after[n \in 0 .. Len(rows)] ==
            IF n = 0 THEN <<>> ELSE Bump(after[n - 1], rows[n])
    IN after

aggregate_loop(rows) == buckets_after(rows)[Len(rows)]

\* The orders in which RETURNING may give the rows of S.
Orders(S) ==
    {rows \in [1 .. Cardinality(S) -> S] :
        \A i, j \in DOMAIN rows : rows[i] = rows[j] => i = j}

\* In whatever order the INSERT returned its rows, the loop yields the
\* aggregate of their set, with one bucket for each row of event_metrics that
\* the upsert may meet only once.
AggregateIsOrderFree ==
    pc = "metrics" =>
        \A rows \in Orders(inserted_rows) :
            LET result == aggregate_loop(rows)
                KeysOf(b) == {k \in DOMAIN result : <<k[1], k[3]>> = b}
            IN \A b \in Buckets :
                  /\ Cardinality(KeysOf(b)) <= 1
                  /\ aggregate_by_window(inserted_rows)[b] =
                        IF KeysOf(b) = {} THEN NoMetrics[b]
                        ELSE result[CHOOSE k \in KeysOf(b) : TRUE]
=============================================================================
