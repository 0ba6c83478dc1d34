---------------------------- MODULE RefusalProofs ----------------------------
(* Theorems about batches that raise, in whatever way, and about the loop    *)
(* that aggregates those that do not.                                        *)
EXTENDS StreamingProofs, TransformsProofs, AggregateLoop, SequenceTheorems

-----------------------------------------------------------------------------
(* The strengthening *)

\* A batch past its count has no row that overflows, and one that is about to
\* commit was not refused.
PassedInv ==
    /\ pc \in Steps \ {"evaluate"} => BatchRows \intersect Overflowing = {}
    /\ pc = "commit" => ~MetricsRefused(inserted_rows)

LEMMA NextPassed ==
    ASSUME IInv, TypeInv, PassedInv, [Next]_vars
    PROVE  PassedInv'
<1> USE DEF PassedInv, Steps
<1>1. ASSUME NEW f \in Files, Publish(f) PROVE PassedInv'
  BY <1>1, SameBatch DEF Publish, job, tables, MetricsRefused
<1>2. CASE Restart \/ Crash \/ PlanBatch \/ ReplayBatch \/ AcknowledgeBatch
  BY <1>2 DEF Restart, Crash, GoDown, PlanBatch, ReplayBatch, AcknowledgeBatch
<1>3. CASE IdleTrigger \/ UNCHANGED vars
  BY <1>3, SameBatch DEF IdleTrigger, vars, source, job, tables, MetricsRefused
<1>4. CASE EvaluateRaises \/ WriteMetricsRaises
  BY <1>4 DEF EvaluateRaises, WriteMetricsRaises, GoDown
<1>5. CASE \/ NothingValid \/ OverwriteStaging \/ WriteStagingPartition
           \/ InsertEvents \/ CommitTransaction \/ AppendQuarantinePartition
  BY <1>5, SameBatch
     DEF NothingValid, OverwriteStaging, WriteStagingPartition, InsertEvents,
         CommitTransaction, AppendQuarantinePartition, source
<1>6. CASE WriteMetrics
  BY <1>6, SameBatch DEF WriteMetrics, source, tables, MetricsRefused
<1> QED
  BY <1>1, <1>2, <1>3, <1>4, <1>5, <1>6 DEF Next, Trigger, ProcessBatch

-----------------------------------------------------------------------------
(* What a batch that raises leaves behind *)

\* The part of RaisingBatchesLeaveNothing that is about batch i.
Untouched(i) ==
    /\ i > committed
    /\ RowsIn(planned[i]) \intersect events = {}
    /\ \A r \in RowsIn(planned[i]) : quarantine[r] = 0

Raises(i) == RowsIn(planned[i]) \intersect Overflowing # {}

\* The batch that runs is none that raises, once its count has returned, and
\* shares no row with one.
LEMMA RunningBatch ==
    ASSUME IInv, TypeInv, PassedInv, pc \in Steps \ {"evaluate"}
    PROVE  \A i \in 1 .. Len(planned) :
              Raises(i) => i # batch_id /\ RowsIn(planned[i]) \intersect BatchRows = {}
<1>1. batch_id \in 1 .. Len(planned)
  BY DEF IInv, CheckpointInv, batch_id, TypeInv, TypeOK
<1>2. BatchRows = RowsIn(planned[batch_id])
  BY DEF BatchRows
<1>3. \A i \in 1 .. Len(planned) : Raises(i) => i # batch_id
  BY <1>2 DEF PassedInv, Raises
<1> QED
  BY <1>1, <1>2, <1>3 DEF IInv, CheckpointInv, RowsIn

LEMMA NextUntouched ==
    ASSUME IInv, TypeInv, PassedInv, [Next]_vars,
           \A i \in 1 .. Len(planned) : Raises(i) => Untouched(i)
    PROVE  (\A i \in 1 .. Len(planned) : Raises(i) => Untouched(i))'
<1> USE DEF TypeInv, TypeOK, Raises, Untouched
<1>1. CASE PlanBatch
  <2>1. PICK F \in SUBSET (published \ SeenFiles) : planned' = Append(planned, F)
    BY <1>1 DEF PlanBatch
  <2>2. /\ Len(planned') = Len(planned) + 1
        /\ planned'[Len(planned) + 1] = F
        /\ \A i \in 1 .. Len(planned) : planned'[i] = planned[i]
        /\ committed' = committed /\ committed = Len(planned)
        /\ events' = events /\ quarantine' = quarantine
    BY <1>1, <2>1 DEF PlanBatch, tables
  <2>3. RowsIn(F) \intersect events = {}
    BY <2>1 DEF IInv, EachIdStoredOnce, RowsIn
  <2>4. \A r \in RowsIn(F) : quarantine[r] = 0
    BY <2>1 DEF IInv, QuarantineInv, RowsIn
  <2> QED
    BY <2>2, <2>3, <2>4
<1>2. CASE AcknowledgeBatch
  <2>1. /\ planned' = planned /\ committed' = batch_id
        /\ events' = events /\ quarantine' = quarantine
        /\ pc = "quarantine"
    BY <1>2 DEF AcknowledgeBatch, tables, batch_id
  <2>2. \A i \in 1 .. Len(planned) : Raises(i) => i # batch_id
    BY <2>1, RunningBatch DEF Steps
  <2> QED
    BY <2>1, <2>2 DEF batch_id
<1>3. CASE CommitTransaction
  <2>1. /\ planned' = planned /\ committed' = committed
        /\ quarantine' = quarantine
        /\ pc = "commit"
    BY <1>3 DEF CommitTransaction, source
  <2>2. events' \subseteq events \union BatchRows
    BY <1>3, CommitStep DEF valid
  <2>3. \A i \in 1 .. Len(planned) :
           Raises(i) => RowsIn(planned[i]) \intersect BatchRows = {}
    BY <2>1, RunningBatch DEF Steps
  <2> QED
    BY <2>1, <2>2, <2>3
<1>4. CASE AppendQuarantinePartition
  <2>1. PICK part \in SUBSET todo :
           quarantine' = [r \in Rows |-> IF r \in part THEN quarantine[r] + 1
                                                       ELSE quarantine[r]]
    BY <1>4 DEF AppendQuarantinePartition
  <2>2. /\ planned' = planned /\ committed' = committed /\ events' = events
        /\ pc = "quarantine"
    BY <1>4 DEF AppendQuarantinePartition, source
  <2>3. part \subseteq BatchRows
    BY <2>1, <2>2 DEF IInv, WriterInv, invalid
  <2>4. \A i \in 1 .. Len(planned) :
           Raises(i) => RowsIn(planned[i]) \intersect BatchRows = {}
    BY <2>2, RunningBatch DEF Steps
  <2>5. \A i \in 1 .. Len(planned) : RowsIn(planned[i]) \subseteq Rows
    BY DEF RowsIn
  <2> QED
    BY <2>1, <2>2, <2>3, <2>4, <2>5
<1>5. CASE ~(PlanBatch \/ AcknowledgeBatch \/ CommitTransaction
             \/ AppendQuarantinePartition)
  <2>1. planned' = planned /\ committed' = committed
    BY <1>5
       DEF Next, Trigger, ProcessBatch, Publish, Restart, Crash, ReplayBatch,
           IdleTrigger, EvaluateRaises, NothingValid, OverwriteStaging,
           WriteStagingPartition, InsertEvents, WriteMetrics,
           WriteMetricsRaises, source, vars
  <2>2. events' = events /\ quarantine' = quarantine
    BY <1>5
       DEF Next, Trigger, ProcessBatch, Publish, Restart, Crash, ReplayBatch,
           IdleTrigger, EvaluateRaises, NothingValid, OverwriteStaging,
           WriteStagingPartition, InsertEvents, WriteMetrics,
           WriteMetricsRaises, tables, vars
  <2> QED
    BY <2>1, <2>2
<1> QED
  BY <1>1, <1>2, <1>3, <1>4, <1>5

-----------------------------------------------------------------------------
(* What the upsert accepts *)

\* Every accepted row has an event time, which is a number.
LEMMA ValidTime ==
    ASSUME NEW r \in Valid
    PROVE  Processed[r].event_time_ts \in Int
<1> DEFINE d == Derived(Line[r], 0)
<1>1. r \in Rows /\ Line[r] \in Lines /\ Processed[r] = process(Line[r], 0)
  BY RowAssumption DEF Valid, Processed
<1>2. RejectionReason(d) = NULL
  BY <1>1, JudgedColumns DEF Valid, IsValid
<1>3. d.event_time_ts \in OrNull(Int)
  BY <1>1, DerivedColumns, CastRanges DEF Lines
<1>4. process(Line[r], 0).event_time_ts = d.event_time_ts
  BY DEF process, Derived, add_rejection_reason, derive, normalise, cast_types,
         ReadLine
<1> HIDE DEF d
<1> QED
  BY <1>1, <1>2, <1>3, <1>4, AcceptedColumns DEF OrNull

\* The last part of RaisingBatchesLeaveNothing: event_metrics has taken the
\* delta of each stored event.
Taken(stored) ==
    \A r \in stored :
        /\ Processed[r].category # NULL
        /\ window_end(Processed[r].event_time_ts) <= LastInstant
        /\ aggregate_by_window(stored)[Bucket(r)].total_revenue < TotalLimit

\* A delta that is not refused leaves each row with a category, a window that
\* datetime can represent, and totals that fit in every bucket that changes.
LEMMA AcceptedDelta ==
    ASSUME NEW m \in MetricsTable, NEW S \in SUBSET Valid, ~Refused(m, S),
           NEW r \in S
    PROVE  /\ Processed[r].category # NULL
           /\ window_end(Processed[r].event_time_ts) <= LastInstant
           /\ Accumulate(m, aggregate_by_window(S))[Bucket(r)].total_revenue
                < TotalLimit
<1> DEFINE sum == Accumulate(m, aggregate_by_window(S))
<1>1. /\ Processed[r].category # NULL
      /\ ~(window_end(Processed[r].event_time_ts) > LastInstant)
      /\ ~(sum[Bucket(r)].total_revenue >= TotalLimit)
  BY DEF Refused, aggregate_raises
<1>2. window_end(Processed[r].event_time_ts) <= LastInstant
  <2>1. Processed[r].event_time_ts \in Int
    BY ValidTime
  <2>2. window_end(Processed[r].event_time_ts) \in Int
    BY <2>1 DEF window_end, window_start
  <2> QED
    BY <1>1, <2>2, RowAssumption
<1>3. sum[Bucket(r)].total_revenue < TotalLimit
  <2>1. S \in SUBSET Rows
    BY DEF Valid
  <2>2. sum \in MetricsTable
    BY <2>1, AggregateType, AccumulateType
  <2>3. Bucket(r) \in Buckets
    BY <2>1 DEF Buckets
  <2>4. sum[Bucket(r)].total_revenue \in Nat
    BY <2>2, <2>3 DEF MetricsTable
  <2> HIDE DEF sum
  <2> QED
    BY <1>1, <2>4, RowAssumption
<1> QED
  BY <1>1, <1>2, <1>3

\* A bucket of which S has no row is left as it was.
LEMMA OtherBucketsStay ==
    ASSUME NEW m \in MetricsTable, NEW S \in SUBSET Rows,
           NEW b \in Buckets, InBucket(S, b) = {}
    PROVE  Accumulate(m, aggregate_by_window(S))[b] = m[b]
<1> DEFINE delta == aggregate_by_window(S)
<1>1. delta[b] = [total_revenue |-> 0, event_count |-> 0]
  BY FS_EmptySet DEF aggregate_by_window, Cents
<1>2. delta \in MetricsTable /\ Accumulate(m, delta) \in MetricsTable
  BY AggregateType, AccumulateType
<1> HIDE DEF delta
<1> QED
  BY <1>1, <1>2 DEF Accumulate, MetricsTable, delta

LEMMA NextTaken ==
    ASSUME IInv, TypeInv, PassedInv, [Next]_vars, Taken(events)
    PROVE  Taken(events')
<1>1. CASE CommitTransaction
  <2> DEFINE S == inserted_rows
             sum == Accumulate(event_metrics, aggregate_by_window(S))
  <2>1. /\ event_metrics' = Accumulate(event_metrics, tx.metrics)
        /\ pc = "commit"
    BY <1>1 DEF CommitTransaction
  <2>2. event_metrics' = sum
    BY <2>1 DEF IInv, TransactionInv
  <2>3. /\ events' = events \union S
        /\ S \in SUBSET Valid
        /\ sum = aggregate_by_window(events')
    BY <1>1, <2>2, CommitStep DEF valid
  <2>4. ~Refused(event_metrics, S) /\ event_metrics \in MetricsTable
    BY <2>1 DEF PassedInv, MetricsRefused, TypeInv, TypeOK
  <2>5. event_metrics = aggregate_by_window(events) /\ events \in SUBSET Valid
    BY DEF IInv, MetricsMatchEvents, EachIdStoredOnce
  <2> HIDE DEF S, sum
  <2>6. ASSUME NEW r \in S
        PROVE  /\ Processed[r].category # NULL
               /\ window_end(Processed[r].event_time_ts) <= LastInstant
               /\ sum[Bucket(r)].total_revenue < TotalLimit
    BY <2>3, <2>4, AcceptedDelta DEF sum
  <2>7. ASSUME NEW r \in events
        PROVE  sum[Bucket(r)].total_revenue < TotalLimit
    <3>1. Bucket(r) \in Buckets
      BY <2>5 DEF Buckets
    <3>2. CASE InBucket(S, Bucket(r)) = {}
      <4>1. sum[Bucket(r)] = event_metrics[Bucket(r)]
        BY <2>3, <2>4, <3>1, <3>2, OtherBucketsStay DEF sum, Valid
      <4> QED
        BY <2>5, <4>1 DEF Taken
    <3>3. CASE InBucket(S, Bucket(r)) # {}
      <4>1. PICK q \in S : Bucket(q) = Bucket(r)
        BY <3>3 DEF InBucket
      <4> QED
        BY <2>6, <4>1
    <3> QED
      BY <3>2, <3>3
  <2> QED
    BY <2>3, <2>6, <2>7 DEF Taken
<1>2. CASE ~CommitTransaction
  BY <1>2, OnlyCommitWrites
<1> QED
  BY <1>1, <1>2

-----------------------------------------------------------------------------
(* The loop of aggregate_by_window *)

\* f is the dict after each of the first n rows.
IsLoop(f, rows, n) ==
    f = [i \in 0 .. n |-> IF i = 0 THEN <<>> ELSE Bump(f[i - 1], rows[i])]

LEMMA LoopExists ==
    ASSUME NEW rows, NEW n \in Nat
    PROVE  \E f : IsLoop(f, rows, n)
<1> DEFINE T == {m \in Nat : ~ \E f : IsLoop(f, rows, m)}
<1> SUFFICES ASSUME T # {} PROVE FALSE
  OBVIOUS
<1>1. PICK m \in T : \A k \in T : m <= k
  BY Least
<1>2. CASE m = 0
  <2>1. IsLoop([i \in 0 .. 0 |-> <<>>], rows, 0)
    BY DEF IsLoop
  <2> QED
    BY <1>2, <2>1
<1>3. CASE m # 0
  <2>1. m - 1 \in Nat /\ m - 1 \notin T
    BY <1>1, <1>3
  <2>2. PICK f : IsLoop(f, rows, m - 1)
    BY <2>1
  <2> DEFINE on == [i \in 0 .. m |-> IF i < m THEN f[i] ELSE Bump(f[m - 1], rows[m])]
  <2>3. \A i \in 0 .. m - 1 : f[i] = IF i = 0 THEN <<>> ELSE Bump(f[i - 1], rows[i])
    BY <2>2 DEF IsLoop
  <2>4. \A i \in 0 .. m : on[i] = IF i = 0 THEN <<>> ELSE Bump(on[i - 1], rows[i])
    BY <1>3, <2>1, <2>3
  <2>5. IsLoop(on, rows, m)
    BY <2>4 DEF IsLoop
  <2> QED
    BY <2>5
<1> QED
  BY <1>2, <1>3

\* The loop begins with an empty dict and does one row after the other.
LEMMA LoopEquation ==
    ASSUME NEW rows, Len(rows) \in Nat
    PROVE  \A i \in 0 .. Len(rows) :
              buckets_after(rows)[i] =
                 IF i = 0 THEN <<>> ELSE Bump(buckets_after(rows)[i - 1], rows[i])
<1>1. buckets_after(rows) = CHOOSE f : IsLoop(f, rows, Len(rows))
  BY DEF buckets_after, IsLoop
<1>2. IsLoop(buckets_after(rows), rows, Len(rows))
  BY <1>1, LoopExists
<1> QED
  BY <1>2 DEF IsLoop

\* Two rows have one key exactly if they are of one bucket.
LEMMA KeysAreBuckets ==
    ASSUME NEW r, NEW q
    PROVE  /\ Key(r) = Key(q) <=> Bucket(r) = Bucket(q)
           /\ <<Key(r)[1], Key(r)[3]>> = Bucket(r)
BY DEF Key, Bucket, window_end

\* The revenue of an accepted row fits its column, and is not negative.
LEMMA AcceptedRevenue ==
    ASSUME NEW r \in Valid \ Overflowing
    PROVE  revenue(r) \in 0 .. RevenueLimit
<1> DEFINE d == Derived(Line[r], 0)
<1>1. /\ r \in Rows /\ Line[r] \in Lines
      /\ Processed[r] = process(Line[r], 0)
      /\ ~process_raises(Line[r])
  BY RowAssumption DEF Valid, Processed, Overflowing
<1>2. RejectionReason(d) = NULL
  BY <1>1, JudgedColumns DEF Valid, IsValid
<1>3. process(Line[r], 0).revenue = d.revenue
  BY DEF process, Derived, add_rejection_reason, derive, normalise, cast_types, ReadLine
<1>4. d.price_num \in PriceRange /\ d.quantity_num \in QuantityRange
  BY <1>1, DerivedColumns, CastRanges DEF Lines
<1>5. /\ d.revenue \in OrNull({x \in Int : Magnitude(x) < RevenueLimit})
      /\ d.price_num # NULL /\ d.quantity_num # NULL =>
            d.revenue = IF d.event_type = Purchase THEN d.price_num * d.quantity_num
                                                   ELSE NULL
  BY <1>1, DerivedRevenue
<1> HIDE DEF d
<1>6. d.price_num \in Nat /\ d.quantity_num \in Nat
  BY <1>2, <1>4, AcceptedColumns DEF PriceRange, QuantityRange, OrNull
<1>7. d.revenue = NULL \/ d.revenue \in Nat
  <2>1. d.price_num * d.quantity_num \in Nat
    BY <1>6
  <2>2. d.price_num # NULL /\ d.quantity_num # NULL
    BY <1>6, NullAssumption
  <2> QED
    BY <1>5, <2>1, <2>2
<1>8. d.revenue = NULL \/ d.revenue \in 0 .. RevenueLimit
  BY <1>5, <1>7, LimitAssumption DEF OrNull, Magnitude
<1> QED
  BY <1>1, <1>3, <1>8, LimitAssumption DEF revenue

\* What one row adds.
LEMMA AggregateOfOne ==
    ASSUME NEW r \in Valid \ Overflowing, NEW b \in Buckets
    PROVE  aggregate_by_window({r})[b] =
             IF b = Bucket(r) THEN [total_revenue |-> revenue(r), event_count |-> 1]
                              ELSE [total_revenue |-> 0, event_count |-> 0]
<1>1. CASE b # Bucket(r)
  <2>1. InBucket({r}, b) = {} /\ Cents({}) = {}
    BY <1>1 DEF InBucket, Cents
  <2> QED
    BY <1>1, <2>1, FS_EmptySet DEF aggregate_by_window
<1>2. CASE b = Bucket(r)
  <2>1. InBucket({r}, b) = {r}
    BY <1>2 DEF InBucket
  <2>2. revenue(r) \in Nat /\ revenue(r) <= RevenueLimit /\ RevenueLimit \in Nat
    BY AcceptedRevenue, LimitAssumption
  <2> DEFINE cent == [c \in 1 .. revenue(r) |-> <<r, c>>]
  <2>3. Cents({r}) = {<<r, c>> : c \in 1 .. revenue(r)}
    BY <2>2 DEF Cents
  <2>4. cent \in Bijection(1 .. revenue(r), Cents({r}))
    <3>1. cent \in [1 .. revenue(r) -> Cents({r})]
      BY <2>3
    <3>2. IsInjective(cent)
      BY DEF IsInjective
    <3>3. \A t \in Cents({r}) : \E c \in 1 .. revenue(r) : cent[c] = t
      BY <2>3
    <3> QED
      BY <3>1, <3>2, <3>3 DEF Bijection, Injection, Surjection
  <2>5. Cardinality(Cents({r})) = revenue(r)
    BY <2>2, <2>4, FS_CountingElements DEF ExistsBijection
  <2>6. Cardinality({r}) = 1
    BY FS_Singleton
  <2> QED
    BY <1>2, <2>1, <2>5, <2>6 DEF aggregate_by_window
<1> QED
  BY <1>1, <1>2

\* The dict buckets holds the aggregate of the rows S.
Holds(buckets, S) ==
    /\ DOMAIN buckets = {Key(r) : r \in S}
    /\ \A r \in S : buckets[Key(r)] = aggregate_by_window(S)[Bucket(r)]

\* One turn of the loop adds its row to the aggregate.
LEMMA LoopTurn ==
    ASSUME NEW S \in SUBSET Valid, NEW r \in Valid \ Overflowing, r \notin S,
           NEW buckets, Holds(buckets, S)
    PROVE  Holds(Bump(buckets, r), S \union {r})
<1> DEFINE T == S \union {r}
           agg(U) == aggregate_by_window(U)
<1>0. S \in SUBSET Rows /\ {r} \in SUBSET Rows /\ S \intersect {r} = {}
  BY DEF Valid
<1>1. \A b \in Buckets :
         /\ agg(S)[b].total_revenue \in Nat /\ agg(S)[b].event_count \in Nat
         /\ agg(S)[b] = [total_revenue |-> agg(S)[b].total_revenue,
                         event_count |-> agg(S)[b].event_count]
  <2>1. agg(S) \in MetricsTable
    BY <1>0, AggregateType
  <2> QED
    BY <2>1 DEF MetricsTable
<1>2. \A b \in Buckets :
         agg(T)[b] = [total_revenue |-> agg(S)[b].total_revenue + agg({r})[b].total_revenue,
                      event_count |-> agg(S)[b].event_count + agg({r})[b].event_count]
  BY <1>0, AggregateAdditive
<1>3. \A q \in T : Bucket(q) \in Buckets
  BY DEF Buckets
<1>4. agg({r})[Bucket(r)] = [total_revenue |-> revenue(r), event_count |-> 1]
  BY <1>3, AggregateOfOne
<1>5. \A b \in Buckets \ {Bucket(r)} :
         agg({r})[b] = [total_revenue |-> 0, event_count |-> 0]
  BY AggregateOfOne
<1>6. DOMAIN Bump(buckets, r) = {Key(q) : q \in T}
  BY DEF Bump, Holds
<1>7. ASSUME NEW q \in T PROVE Bump(buckets, r)[Key(q)] = agg(T)[Bucket(q)]
  <2>1. CASE Key(q) # Key(r)
    <3>1. q \in S /\ Key(q) \in DOMAIN buckets
      BY <2>1 DEF Holds
    <3>2. Bump(buckets, r)[Key(q)] = agg(S)[Bucket(q)]
      BY <2>1, <3>1 DEF Bump, Holds
    <3>3. Bucket(q) \in Buckets \ {Bucket(r)}
      BY <1>3, <2>1, KeysAreBuckets
    <3>4. agg(T)[Bucket(q)] = agg(S)[Bucket(q)]
      <4> HIDE DEF agg, T
      <4>1. /\ agg({r})[Bucket(q)].total_revenue = 0
            /\ agg({r})[Bucket(q)].event_count = 0
        BY <1>5, <3>3
      <4>2. agg(T)[Bucket(q)] = [total_revenue |-> agg(S)[Bucket(q)].total_revenue + 0,
                                 event_count |-> agg(S)[Bucket(q)].event_count + 0]
        BY <1>2, <3>3, <4>1
      <4> DEFINE x == agg(S)[Bucket(q)].total_revenue
                 y == agg(S)[Bucket(q)].event_count
      <4>3. /\ x \in Nat /\ y \in Nat
            /\ agg(S)[Bucket(q)] = [total_revenue |-> x, event_count |-> y]
        BY <1>1, <3>3
      <4>4. agg(T)[Bucket(q)] = [total_revenue |-> x + 0, event_count |-> y + 0]
        BY <4>2
      <4> HIDE DEF x, y
      <4>5. x + 0 = x /\ y + 0 = y
        BY <4>3
      <4> QED
        BY <4>3, <4>4, <4>5
    <3> QED
      BY <3>2, <3>4
  <2>2. CASE Key(q) = Key(r)
    <3>1. Bucket(q) = Bucket(r) /\ Bucket(r) \in Buckets
      BY <1>3, <2>2, KeysAreBuckets
    <3> DEFINE old == IF Key(r) \in DOMAIN buckets THEN buckets[Key(r)]
                      ELSE [total_revenue |-> 0, event_count |-> 0]
    <3>2. Bump(buckets, r)[Key(r)] = [total_revenue |-> old.total_revenue + revenue(r),
                                      event_count |-> old.event_count + 1]
      BY DEF Bump
    <3>3. old = agg(S)[Bucket(r)]
      <4>1. CASE Key(r) \in DOMAIN buckets
        <5>1. PICK s \in S : Key(s) = Key(r)
          BY <4>1 DEF Holds
        <5>2. Bucket(s) = Bucket(r)
          BY <5>1, KeysAreBuckets
        <5> QED
          BY <4>1, <5>1, <5>2 DEF Holds
      <4>2. CASE Key(r) \notin DOMAIN buckets
        <5>1. \A s \in S : Bucket(s) # Bucket(r)
          BY <4>2, KeysAreBuckets DEF Holds
        <5>2. InBucket(S, Bucket(r)) = {} /\ Cents({}) = {}
          BY <5>1 DEF InBucket, Cents
        <5> QED
          BY <3>1, <4>2, <5>2, FS_EmptySet DEF aggregate_by_window
      <4> QED
        BY <4>1, <4>2
    <3> HIDE DEF old, agg, T
    <3>4. agg(T)[Bucket(r)] = [total_revenue |-> old.total_revenue + revenue(r),
                               event_count |-> old.event_count + 1]
      BY <1>2, <1>4, <3>1, <3>3
    <3> QED
      BY <2>2, <3>1, <3>2, <3>4
  <2> QED
    BY <2>1, <2>2
<1> QED
  BY <1>6, <1>7 DEF Holds

\* The loop, in whatever order it is given the rows.
LEMMA LoopAggregates ==
    ASSUME NEW S \in SUBSET (Valid \ Overflowing), NEW rows \in Orders(S)
    PROVE  Holds(aggregate_loop(rows), S)
<1> DEFINE n == Cardinality(S)
           upto(i) == {rows[j] : j \in 1 .. i}
           after == buckets_after(rows)
<1>1. IsFiniteSet(S) /\ n \in Nat
  BY RowAssumption, FS_Subset, FS_CardinalityType DEF Valid
<1>2. /\ rows \in [1 .. n -> S]
      /\ \A i, j \in 1 .. n : rows[i] = rows[j] => i = j
      /\ Len(rows) = n
  <2>1. rows \in [1 .. n -> S] /\ \A i, j \in 1 .. n : rows[i] = rows[j] => i = j
    BY DEF Orders
  <2>2. rows \in Seq(S) /\ DOMAIN rows = 1 .. n
    BY <1>1, <2>1
  <2> QED
    BY <1>1, <2>1, <2>2, LenProperties
<1>3. upto(n) = S
  <2>1. rows \in Injection(1 .. n, S)
    BY <1>2 DEF Injection, IsInjective
  <2>2. Cardinality(1 .. n) = n
    BY <1>1, FS_Interval
  <2>3. rows \in Surjection(1 .. n, S)
    BY <1>1, <2>1, <2>2, FS_Injection
  <2> QED
    BY <1>2, <2>3 DEF Surjection
<1>4. \A i \in 0 .. n : Holds(after[i], upto(i))
  <2> DEFINE T == {i \in 0 .. n : ~Holds(after[i], upto(i))}
  <2> SUFFICES ASSUME T # {} PROVE FALSE
    OBVIOUS
  <2>1. PICK i \in T : \A j \in T : i <= j
    <3>1. T \subseteq Nat
      BY <1>1
    <3> HIDE DEF T
    <3> QED
      BY <3>1, Least
  <2>2. CASE i = 0
    <3>1. after[0] = <<>> /\ upto(0) = {}
      BY <1>1, <1>2, LoopEquation
    <3>2. Holds(<<>>, {})
      BY DEF Holds
    <3> QED
      BY <2>1, <2>2, <3>1, <3>2
  <2>3. CASE i # 0
    <3>0. i \in 0 .. n
      OBVIOUS
    <3>1. i - 1 \in 0 .. n /\ i - 1 \notin T /\ i \in 1 .. n
      <4> HIDE DEF T, n
      <4>1. i - 1 \in 0 .. n /\ i \in 1 .. n /\ ~(i <= i - 1)
        BY <1>1, <2>3, <3>0
      <4> QED
        BY <2>1, <4>1
    <3>2. Holds(after[i - 1], upto(i - 1))
      BY <3>1
    <3>3. after[i] = Bump(after[i - 1], rows[i])
      BY <1>2, <2>1, <2>3, LoopEquation
    <3>4. rows[i] \in Valid \ Overflowing /\ rows[i] \notin upto(i - 1)
      BY <1>1, <1>2, <3>1
    <3>5. upto(i - 1) \in SUBSET Valid /\ upto(i) = upto(i - 1) \union {rows[i]}
      BY <1>1, <1>2, <3>1
    <3> HIDE DEF upto, after
    <3>6. Holds(after[i], upto(i))
      BY <3>2, <3>3, <3>4, <3>5, LoopTurn
    <3> QED
      BY <2>1, <3>6
  <2> QED
    BY <2>2, <2>3
<1> HIDE DEF after, upto
<1>5. Holds(after[n], S)
  BY <1>1, <1>3, <1>4
<1> QED
  BY <1>2, <1>5 DEF aggregate_loop, after

-----------------------------------------------------------------------------
(* The theorems *)

RefusalInv ==
    /\ IInv
    /\ TypeInv
    /\ PassedInv
    /\ RaisingBatchesLeaveNothing

LEMMA InitRefusal == Init => RefusalInv
<1> SUFFICES ASSUME Init PROVE RefusalInv
  OBVIOUS
<1>1. IInv /\ TypeInv
  BY InitInv, InitType
<1>2. PassedInv /\ RaisingBatchesLeaveNothing
  BY DEF Init, PassedInv, Steps, RaisingBatchesLeaveNothing
<1> QED
  BY <1>1, <1>2 DEF RefusalInv

LEMMA NextRefusal == RefusalInv /\ [Next]_vars => RefusalInv'
<1> SUFFICES ASSUME RefusalInv, [Next]_vars PROVE RefusalInv'
  OBVIOUS
<1>1. IInv' /\ TypeInv' /\ PassedInv'
  BY NextInv, NextType, NextPassed DEF RefusalInv
<1>2. (\A i \in 1 .. Len(planned) : Raises(i) => Untouched(i))'
  BY NextUntouched DEF RefusalInv, RaisingBatchesLeaveNothing, Raises, Untouched
<1>3. Taken(events')
  BY NextTaken DEF RefusalInv, RaisingBatchesLeaveNothing, Taken
<1>4. RaisingBatchesLeaveNothing'
  BY <1>2, <1>3 DEF RaisingBatchesLeaveNothing, Raises, Untouched, Taken
<1> QED
  BY <1>1, <1>4 DEF RefusalInv

\* A batch with a row that derive cannot compute is never acknowledged and
\* leaves no row in events or in events_quarantine, whatever crashes and
\* however often it runs again; and no event is stored that the upsert of its
\* delta, or datetime, would have refused (process_batch, pg_transaction).
THEOREM RaisingIsHarmless == Spec => []RaisingBatchesLeaveNothing
<1>1. RefusalInv => RaisingBatchesLeaveNothing
  BY DEF RefusalInv
<1> QED
  BY <1>1, InitRefusal, NextRefusal, PTL DEF Spec

\* In whatever order RETURNING gives the inserted rows, the loop yields the
\* aggregate of their set, one bucket for each row of event_metrics: the upsert
\* meets no row twice, and the delta depends on the rows alone
\* (aggregate_by_window, write_metrics_batch).
THEOREM OrderIsIrrelevant == Spec => []AggregateIsOrderFree
<1>1. RefusalInv => AggregateIsOrderFree
  <2> DEFINE S == inserted_rows
  <2> SUFFICES ASSUME RefusalInv, pc = "metrics",
                      NEW rows \in Orders(S), NEW b \in Buckets
               PROVE  LET result == aggregate_loop(rows)
                          KeysOf(c) == {k \in DOMAIN result : <<k[1], k[3]>> = c}
                      IN /\ Cardinality(KeysOf(b)) <= 1
                         /\ aggregate_by_window(S)[b] =
                               IF KeysOf(b) = {} THEN NoMetrics[b]
                               ELSE result[CHOOSE k \in KeysOf(b) : TRUE]
    BY DEF AggregateIsOrderFree
  <2> DEFINE result == aggregate_loop(rows)
             keys == {k \in DOMAIN result : <<k[1], k[3]>> = b}
  <2>1. S \in SUBSET (Valid \ Overflowing)
    BY DEF RefusalInv, IInv, TransactionInv, PassedInv, Steps, valid
  <2>2. Holds(result, S)
    BY <2>1, LoopAggregates
  <2> HIDE DEF result
  <2>3. \A k \in keys : \E r \in S : k = Key(r) /\ Bucket(r) = b
    BY <2>2, KeysAreBuckets DEF Holds
  <2>4. CASE keys = {}
    <3>1. \A r \in S : Bucket(r) # b
      BY <2>2, <2>4, KeysAreBuckets DEF Holds
    <3>2. InBucket(S, b) = {} /\ Cents({}) = {}
      BY <3>1 DEF InBucket, Cents
    <3>3. aggregate_by_window(S)[b] = NoMetrics[b]
      BY <3>2, FS_EmptySet DEF aggregate_by_window, NoMetrics
    <3>4. Cardinality(keys) <= 1
      BY <2>4, FS_EmptySet
    <3> QED
      BY <2>4, <3>3, <3>4 DEF result
  <2>5. CASE keys # {}
    <3>1. PICK r \in S : Key(r) \in keys /\ Bucket(r) = b
      BY <2>3, <2>5
    <3>2. keys = {Key(r)}
      BY <2>3, <3>1, KeysAreBuckets
    <3>3. result[Key(r)] = aggregate_by_window(S)[b]
      BY <2>2, <3>1 DEF Holds
    <3>4. Cardinality(keys) = 1
      BY <3>2, FS_Singleton
    <3>5. (CHOOSE k \in keys : TRUE) = Key(r)
      BY <3>2
    <3>6. Cardinality(keys) <= 1
      BY <3>4
    <3>7. aggregate_by_window(S)[b] =
             IF keys = {} THEN NoMetrics[b] ELSE result[CHOOSE k \in keys : TRUE]
      <4> HIDE DEF keys
      <4> QED
        BY <2>5, <3>3, <3>5
    <3> QED
      BY <3>6, <3>7 DEF keys, result
  <2> QED
    BY <2>4, <2>5
<1> QED
  BY <1>1, InitRefusal, NextRefusal, PTL DEF Spec
=============================================================================
