--------------------------- MODULE DatasetProofs ----------------------------
(* What aggregate_by_window returns: its type, and that it is additive. *)
EXTENDS Dataset, FiniteSetTheorems, TLAPS

(***************************************************************************)
(* The cents of a set of rows are a subset of a finite product, whatever   *)
(* revenue the rows carry.                                                 *)
(***************************************************************************)
LEMMA CentsFinite ==
    ASSUME NEW S \in SUBSET Rows
    PROVE  /\ IsFiniteSet(S)
           /\ IsFiniteSet(Cents(S))
<1>1. IsFiniteSet(S)
  BY RowAssumption, FS_Subset
<1>2. IsFiniteSet(1 .. RevenueLimit)
  BY LimitAssumption, FS_Interval
<1>3. IsFiniteSet(S \X (1 .. RevenueLimit))
  BY <1>1, <1>2, FS_Product
<1>4. Cents(S) \subseteq S \X (1 .. RevenueLimit)
  BY DEF Cents
<1> QED
  BY <1>1, <1>3, <1>4, FS_Subset

(***************************************************************************)
(* aggregate_by_window returns counts and totals that are natural numbers. *)
(***************************************************************************)
LEMMA AggregateType ==
    ASSUME NEW S \in SUBSET Rows
    PROVE  aggregate_by_window(S) \in MetricsTable
<1>1. ASSUME NEW b \in Buckets
      PROVE  /\ Cardinality(InBucket(S, b)) \in Nat
             /\ Cardinality(Cents(InBucket(S, b))) \in Nat
  <2>1. InBucket(S, b) \in SUBSET Rows
    BY DEF InBucket
  <2> QED
    BY <2>1, CentsFinite, FS_CardinalityType
<1> QED
  BY <1>1 DEF aggregate_by_window, MetricsTable

(***************************************************************************)
(* Aggregating no rows gives the empty table.                              *)
(***************************************************************************)
LEMMA AggregateEmpty == aggregate_by_window({}) = NoMetrics
<1>1. \A b \in Buckets : InBucket({}, b) = {} /\ Cents(InBucket({}, b)) = {}
  BY DEF InBucket, Cents
<1> QED
  BY <1>1, FS_EmptySet DEF aggregate_by_window, NoMetrics

(***************************************************************************)
(* Two disjoint finite sets have as many members as both have together.    *)
(***************************************************************************)
LEMMA DisjointUnion ==
    ASSUME NEW A, NEW B, IsFiniteSet(A), IsFiniteSet(B), A \intersect B = {}
    PROVE  Cardinality(A \union B) = Cardinality(A) + Cardinality(B)
<1>1. Cardinality(A \union B)
        = Cardinality(A) + Cardinality(B) - Cardinality(A \intersect B)
  BY FS_Union
<1>2. Cardinality(A \intersect B) = 0
  BY FS_EmptySet
<1>3. Cardinality(A) \in Nat /\ Cardinality(B) \in Nat
  BY FS_CardinalityType
<1> QED
  BY <1>1, <1>2, <1>3

(***************************************************************************)
(* aggregate_by_window is additive over disjoint sets of rows, which is    *)
(* what lets write_metrics_batch accumulate deltas instead of recomputing. *)
(***************************************************************************)
LEMMA AggregateAdditive ==
    ASSUME NEW S \in SUBSET Rows, NEW T \in SUBSET Rows, S \intersect T = {},
           NEW b \in Buckets
    PROVE  aggregate_by_window(S \union T)[b] =
             [total_revenue |-> aggregate_by_window(S)[b].total_revenue
                                  + aggregate_by_window(T)[b].total_revenue,
              event_count |-> aggregate_by_window(S)[b].event_count
                                  + aggregate_by_window(T)[b].event_count]
<1> DEFINE SB == InBucket(S, b)
           TB == InBucket(T, b)
<1>1. InBucket(S \union T, b) = SB \union TB /\ SB \intersect TB = {}
  BY DEF InBucket
<1>2. SB \in SUBSET Rows /\ TB \in SUBSET Rows
  BY DEF InBucket
<1>3. Cents(SB \union TB) = Cents(SB) \union Cents(TB)
  BY DEF Cents
<1>4. Cents(SB) \intersect Cents(TB) = {}
  BY <1>1 DEF Cents
<1>5. /\ IsFiniteSet(SB) /\ IsFiniteSet(Cents(SB))
      /\ IsFiniteSet(TB) /\ IsFiniteSet(Cents(TB))
  BY <1>2, CentsFinite
<1>6. Cardinality(SB \union TB) = Cardinality(SB) + Cardinality(TB)
  BY <1>1, <1>5, DisjointUnion
<1>7. Cardinality(Cents(SB \union TB))
        = Cardinality(Cents(SB)) + Cardinality(Cents(TB))
  BY <1>3, <1>4, <1>5, DisjointUnion
<1> QED
  BY <1>1, <1>6, <1>7 DEF aggregate_by_window
=============================================================================
