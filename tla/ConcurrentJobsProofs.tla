------------------------ MODULE ConcurrentJobsProofs ------------------------
(***************************************************************************)
(* Theorems about jobs that share a checkpoint and a database, for any     *)
(* number of jobs, any rows and any batch size.                            *)
(***************************************************************************)
EXTENDS ConcurrentJobs, DatasetProofs

-----------------------------------------------------------------------------
(* Type correctness *)

Transactions == [rows : SUBSET Valid, drop : BOOLEAN, metrics : MetricsTable]

\* TypeOK; a job that runs has a batch that is planned, what it stages
\* and inserts are rows that passed validation, and what it appends to the
\* quarantine are rows that did not.
TypeInv ==
    /\ planned \in Seq(SUBSET Files)
    /\ committed \in 0 .. Len(planned)
    /\ pc \in [Jobs -> {"down", "idle"} \union Running]
    /\ batch \in [Jobs -> 0 .. Len(planned)]
    /\ todo \in [Jobs -> SUBSET Rows]
    /\ tx \in [Jobs -> Transactions]
    /\ staging \in [DOMAIN staging -> SUBSET Valid]
    /\ DOMAIN staging \subseteq Planned
    /\ events \subseteq Valid
    /\ event_metrics \in MetricsTable
    /\ rejected \subseteq Invalid
    /\ overlapped \subseteq Planned
    /\ \A j \in Jobs :
          /\ pc[j] \in Running => batch[j] \in Planned
          /\ pc[j] \in {"stage", "insert"} => todo[j] \subseteq Valid
          /\ pc[j] = "quarantine" => todo[j] \subseteq Invalid

\* What the steps that assign a part of a transaction do to all of them.
LEMMA Assigned ==
    ASSUME NEW T \in [Jobs -> Transactions], NEW j \in Jobs
    PROVE  /\ \A S \in SUBSET Valid :
                 /\ [T EXCEPT ![j].rows = S] \in [Jobs -> Transactions]
                 /\ [T EXCEPT ![j].rows = S][j].rows = S
                 /\ [T EXCEPT ![j].rows = S][j].drop = T[j].drop
                 /\ \A k \in Jobs \ {j} : [T EXCEPT ![j].rows = S][k] = T[k]
           /\ \A m \in MetricsTable :
                 /\ [T EXCEPT ![j].metrics = m] \in [Jobs -> Transactions]
                 /\ [T EXCEPT ![j].metrics = m][j].metrics = m
                 /\ [T EXCEPT ![j].metrics = m][j].rows = T[j].rows
                 /\ [T EXCEPT ![j].metrics = m][j].drop = T[j].drop
                 /\ \A k \in Jobs \ {j} : [T EXCEPT ![j].metrics = m][k] = T[k]
           /\ /\ [T EXCEPT ![j].drop = TRUE] \in [Jobs -> Transactions]
              /\ [T EXCEPT ![j].drop = TRUE][j].rows = T[j].rows
              /\ [T EXCEPT ![j].drop = TRUE][j].drop = TRUE
              /\ \A k \in Jobs \ {j} : [T EXCEPT ![j].drop = TRUE][k] = T[k]
           /\ /\ [T EXCEPT ![j] = NoTransaction] \in [Jobs -> Transactions]
              /\ [T EXCEPT ![j] = NoTransaction][j] = NoTransaction
              /\ \A k \in Jobs \ {j} : [T EXCEPT ![j] = NoTransaction][k] = T[k]
<1>1. NoTransaction \in Transactions
  BY DEF NoTransaction, Transactions, NoMetrics, MetricsTable
<1>2. ASSUME NEW S \in SUBSET Valid
      PROVE  /\ [T EXCEPT ![j].rows = S] \in [Jobs -> Transactions]
             /\ [T EXCEPT ![j].rows = S][j].rows = S
             /\ [T EXCEPT ![j].rows = S][j].drop = T[j].drop
             /\ \A k \in Jobs \ {j} : [T EXCEPT ![j].rows = S][k] = T[k]
  BY DEF Transactions
<1>3. ASSUME NEW m \in MetricsTable
      PROVE  /\ [T EXCEPT ![j].metrics = m] \in [Jobs -> Transactions]
             /\ [T EXCEPT ![j].metrics = m][j].metrics = m
             /\ [T EXCEPT ![j].metrics = m][j].rows = T[j].rows
             /\ [T EXCEPT ![j].metrics = m][j].drop = T[j].drop
             /\ \A k \in Jobs \ {j} : [T EXCEPT ![j].metrics = m][k] = T[k]
  BY DEF Transactions
<1>4. /\ [T EXCEPT ![j].drop = TRUE] \in [Jobs -> Transactions]
      /\ [T EXCEPT ![j].drop = TRUE][j].rows = T[j].rows
      /\ [T EXCEPT ![j].drop = TRUE][j].drop = TRUE
      /\ \A k \in Jobs \ {j} : [T EXCEPT ![j].drop = TRUE][k] = T[k]
  BY DEF Transactions
<1>5. /\ [T EXCEPT ![j] = NoTransaction] \in [Jobs -> Transactions]
      /\ [T EXCEPT ![j] = NoTransaction][j] = NoTransaction
      /\ \A k \in Jobs \ {j} : [T EXCEPT ![j] = NoTransaction][k] = T[k]
  BY <1>1
<1> QED
  BY <1>2, <1>3, <1>4, <1>5

\* The first state, with no job running.
LEMMA InitType == Init => TypeInv
<1> SUFFICES ASSUME Init PROVE TypeInv
  OBVIOUS
<1>1. NoTransaction \in Transactions /\ NoMetrics \in MetricsTable
  BY DEF NoTransaction, Transactions, NoMetrics, MetricsTable
<1> QED
  BY <1>1 DEF Init, TypeInv, Running, Planned

\* The upsert of a delta leaves a table of metrics.
LEMMA AccumulateType ==
    ASSUME NEW m \in MetricsTable, NEW d \in MetricsTable
    PROVE  Accumulate(m, d) \in MetricsTable
BY DEF Accumulate, MetricsTable

\* Each step of each job keeps the types.
LEMMA NextType == TypeInv /\ [Next]_vars => TypeInv'
<1> SUFFICES ASSUME TypeInv, [Next]_vars PROVE TypeInv'
  OBVIOUS
<1> USE DEF TypeInv, Planned, Running, At, GoTo, checkpoint, local, tables
<1>1. ASSUME NEW j \in Jobs, Start(j) PROVE TypeInv'
  <2>1. CASE committed < Len(planned)
    <3>1. committed + 1 \in Planned
      BY <2>1
    <3>2. /\ pc' = [pc EXCEPT ![j] = "evaluate"]
          /\ batch' = [batch EXCEPT ![j] = committed + 1]
          /\ overlapped' \subseteq overlapped \union {committed + 1}
          /\ UNCHANGED <<planned, committed, todo, tx, staging, events,
                         event_metrics, rejected>>
      BY <1>1, <2>1 DEF Start
    <3> QED
      BY <3>1, <3>2
  <2>2. CASE ~(committed < Len(planned))
    BY <1>1, <2>2 DEF Start
  <2> QED
    BY <2>1, <2>2
<1>2. ASSUME NEW j \in Jobs, End(j) PROVE TypeInv'
  <2>1. tx' \in [Jobs -> Transactions]
    BY <1>2, Assigned DEF End
  <2> QED
    BY <1>2, <2>1 DEF End
<1>3. ASSUME NEW j \in Jobs, PlanBatch(j) PROVE TypeInv'
  BY <1>3 DEF PlanBatch
<1>4. ASSUME NEW j \in Jobs, AcknowledgeBatch(j) PROVE TypeInv'
  BY <1>4 DEF AcknowledgeBatch
<1>5. ASSUME NEW j \in Jobs, Evaluate(j) PROVE TypeInv'
  BY <1>5 DEF Evaluate
<1>6. ASSUME NEW j \in Jobs, DropStaleTable(j) PROVE TypeInv'
  BY <1>6 DEF DropStaleTable
<1>7. ASSUME NEW j \in Jobs, CreateTable(j) PROVE TypeInv'
  BY <1>7 DEF CreateTable, valid, Valid, table, StagingTable
<1>8. ASSUME NEW j \in Jobs, WritePartition(j) PROVE TypeInv'
  BY <1>8 DEF WritePartition
<1>9. ASSUME NEW j \in Jobs, BeginInsert(j) PROVE TypeInv'
  BY <1>9 DEF BeginInsert, Valid
<1>10. ASSUME NEW j \in Jobs, EndInsert(j) PROVE TypeInv'
  <2>1. PICK S \in Insertable(todo[j]) : tx' = [tx EXCEPT ![j].rows = S]
    BY <1>10 DEF EndInsert
  <2>2. S \in SUBSET Valid
    BY <1>10, <2>1 DEF EndInsert, Insertable
  <2>3. tx' \in [Jobs -> Transactions]
    BY <2>1, <2>2, Assigned
  <2> QED
    BY <1>10, <2>3 DEF EndInsert
<1>11. ASSUME NEW j \in Jobs, DropTable(j) PROVE TypeInv'
  <2>1. tx' \in [Jobs -> Transactions]
    BY <1>11, Assigned DEF DropTable
  <2> QED
    BY <1>11, <2>1 DEF DropTable
<1>12. ASSUME NEW j \in Jobs, WriteMetrics(j) PROVE TypeInv'
  <2>1. tx[j].rows \in SUBSET Rows
    BY DEF Transactions, Valid
  <2>2. tx' \in [Jobs -> Transactions]
    BY <1>12, <2>1, Assigned, AggregateType DEF WriteMetrics
  <2> QED
    BY <1>12, <2>2 DEF WriteMetrics
<1>13. ASSUME NEW j \in Jobs, CommitTransaction(j) PROVE TypeInv'
  <2>1. tx' \in [Jobs -> Transactions]
    BY <1>13, Assigned DEF CommitTransaction
  <2>2. event_metrics' \in MetricsTable
    BY <1>13, AccumulateType DEF CommitTransaction, Transactions
  <2>3. invalid(j) \subseteq Invalid /\ Invalid \subseteq Rows
    BY DEF invalid, Invalid
  <2>4. tx[j].rows \subseteq Valid
    BY DEF Transactions
  <2>5. events' \subseteq Valid
    BY <1>13, <2>4 DEF CommitTransaction
  <2>6. /\ staging' \in [DOMAIN staging' -> SUBSET Valid]
        /\ DOMAIN staging' \subseteq Planned
    BY <1>13 DEF CommitTransaction
  <2> QED
    BY <1>13, <2>1, <2>2, <2>3, <2>5, <2>6 DEF CommitTransaction
<1>14. ASSUME NEW j \in Jobs, AppendQuarantine(j) PROVE TypeInv'
  <2>1. todo[j] \subseteq Invalid
    BY <1>14 DEF AppendQuarantine
  <2> QED
    BY <1>14, <2>1 DEF AppendQuarantine
<1>15. CASE UNCHANGED vars
  BY <1>15 DEF vars
<1> HIDE DEF TypeInv
<1> QED
  BY <1>1, <1>2, <1>3, <1>4, <1>5, <1>6, <1>7, <1>8, <1>9, <1>10, <1>11,
     <1>12, <1>13, <1>14, <1>15 DEF Next

\* What is typed more narrowly is typed.
LEMMA TypeInvIsTypeOK == TypeInv => TypeOK
<1>1. {StagingTable(b) : b \in Planned} = Planned
  BY DEF StagingTable
<1>2. Transactions \subseteq [rows : SUBSET Rows, drop : BOOLEAN, metrics : MetricsTable]
  BY DEF Transactions, Valid
<1> QED
  BY <1>1, <1>2 DEF TypeInv, TypeOK

\* Jobs that know nothing of each other leave checkpoint and tables well typed.
THEOREM TypeCorrect == Spec => []TypeOK
BY InitType, NextType, TypeInvIsTypeOK, PTL DEF Spec

-----------------------------------------------------------------------------
(* Ids and metrics *)

\* Two sets of rows that have no id in common.
Apart(S, T) == ids(S) \intersect ids(T) = {}

\* The rows of the open transactions and those stored have different ids: the
\* INSERT waits for the transactions that hold one of its keys and skips the
\* keys that are stored. The delta that is about to be committed is of the rows
\* of its own transaction.
TxInv ==
    /\ DistinctIds(events)
    /\ MetricsMatchEvents
    /\ \A j \in Jobs :
          /\ DistinctIds(tx[j].rows)
          /\ Apart(tx[j].rows, events)
          /\ pc[j] = "commit" => tx[j].metrics = aggregate_by_window(tx[j].rows)
    /\ \A j, k \in Jobs : j # k => Apart(tx[j].rows, tx[k].rows)

\* What a step that stores nothing may do to the transactions.
LEMMA NothingStored ==
    ASSUME TxInv, UNCHANGED <<events, event_metrics>>,
           \A j \in Jobs : tx'[j].rows \in {tx[j].rows, {}},
           \A j \in Jobs : pc'[j] = "commit" =>
              tx'[j].metrics = aggregate_by_window(tx'[j].rows)
    PROVE  TxInv'
<1>1. \A T : Apart({}, T) /\ Apart(T, {}) /\ DistinctIds({})
  BY DEF Apart, ids, DistinctIds
<1>2. \A j \in Jobs : DistinctIds(tx'[j].rows) /\ Apart(tx'[j].rows, events)
  BY <1>1 DEF TxInv
<1>3. \A j, k \in Jobs : j # k => Apart(tx'[j].rows, tx'[k].rows)
  BY <1>1 DEF TxInv
<1>4. DistinctIds(events') /\ MetricsMatchEvents'
  BY DEF TxInv, MetricsMatchEvents
<1> QED
  BY <1>2, <1>3, <1>4 DEF TxInv

\* Storing rows with new ids keeps the ids different, and adding their
\* aggregate keeps event_metrics that of the events.
LEMMA StoringRows ==
    ASSUME NEW S \in SUBSET Valid, NEW T \in SUBSET Valid, Apart(S, T),
           DistinctIds(S), DistinctIds(T)
    PROVE  /\ DistinctIds(S \union T)
           /\ aggregate_by_window(S \union T)
                = Accumulate(aggregate_by_window(S), aggregate_by_window(T))
<1>1. DistinctIds(S \union T)
  BY DEF DistinctIds, Apart, ids
<1>2. S \intersect T = {}
  BY DEF Apart, ids
<1>3. S \in SUBSET Rows /\ T \in SUBSET Rows
  BY DEF Valid
<1>4. \A b \in Buckets :
         aggregate_by_window(S \union T)[b]
           = Accumulate(aggregate_by_window(S), aggregate_by_window(T))[b]
  BY <1>2, <1>3, AggregateAdditive DEF Accumulate
<1>5. aggregate_by_window(S \union T)
        = [b \in Buckets |-> aggregate_by_window(S \union T)[b]]
  BY DEF aggregate_by_window
<1>6. Accumulate(aggregate_by_window(S), aggregate_by_window(T))
        = [b \in Buckets |->
              Accumulate(aggregate_by_window(S), aggregate_by_window(T))[b]]
  BY DEF Accumulate
<1> QED
  BY <1>1, <1>4, <1>5, <1>6

\* A transaction takes rows no other holds, and commits them with their own
\* delta.
LEMMA NextTx == TypeInv /\ TxInv /\ [Next]_vars => TxInv'
<1> SUFFICES ASSUME TypeInv, TxInv, [Next]_vars PROVE TxInv'
  OBVIOUS
<1>t. tx \in [Jobs -> Transactions] /\ pc \in [Jobs -> {"down", "idle"} \union Running]
  BY DEF TypeInv
<1>1. ASSUME NEW j \in Jobs, End(j) PROVE TxInv'
  <2>1. /\ UNCHANGED <<events, event_metrics>>
        /\ pc' = [pc EXCEPT ![j] = "down"]
        /\ tx' = [tx EXCEPT ![j] = NoTransaction]
    BY <1>1 DEF End, GoTo, tables
  <2>2. \A k \in Jobs : tx'[k] = tx[k] \/ (tx'[k] = NoTransaction /\ k = j)
    BY <1>t, <2>1, Assigned
  <2>3. NoTransaction.rows = {}
    BY DEF NoTransaction
  <2>4. \A k \in Jobs : tx'[k].rows \in {tx[k].rows, {}}
    BY <2>2, <2>3
  <2>5. \A k \in Jobs : pc'[k] = "commit" =>
            tx'[k].metrics = aggregate_by_window(tx'[k].rows)
    BY <1>t, <2>1 DEF TxInv
  <2> QED
    BY <2>1, <2>4, <2>5, NothingStored
<1>2. ASSUME NEW j \in Jobs, EndInsert(j) PROVE TxInv'
  <2>1. PICK S \in Insertable(todo[j]) : tx' = [tx EXCEPT ![j].rows = S]
    BY <1>2 DEF EndInsert
  <2>2. /\ S \in SUBSET Valid
        /\ DistinctIds(S)
        /\ S \subseteq todo[j]
        /\ Apart(S, events)
    BY <1>2, <2>1 DEF EndInsert, Insertable, TypeInv, At, Apart, ids
  <2>3. /\ tx'[j].rows = S
        /\ \A k \in Jobs \ {j} : tx'[k] = tx[k]
    BY <1>t, <2>1, <2>2, Assigned
  <2>4. \A k \in Jobs \ {j} : Apart(S, tx[k].rows) /\ Apart(tx[k].rows, S)
    BY <1>2, <2>2 DEF EndInsert, Apart, ids
  <2>5. UNCHANGED <<events, event_metrics>> /\ pc' = [pc EXCEPT ![j] = "drop"]
    BY <1>2 DEF EndInsert, GoTo, tables
  <2>6. \A k \in Jobs :
           /\ DistinctIds(tx'[k].rows)
           /\ Apart(tx'[k].rows, events)
           /\ pc'[k] = "commit" => tx'[k].metrics = aggregate_by_window(tx'[k].rows)
    BY <1>t, <2>2, <2>3, <2>5 DEF TxInv
  <2>7. \A k, l \in Jobs : k # l => Apart(tx'[k].rows, tx'[l].rows)
    BY <2>3, <2>4 DEF TxInv
  <2> QED
    BY <2>5, <2>6, <2>7 DEF TxInv, MetricsMatchEvents
<1>3. ASSUME NEW j \in Jobs, DropTable(j) PROVE TxInv'
  <2>1. /\ UNCHANGED <<events, event_metrics>>
        /\ pc' = [pc EXCEPT ![j] = "metrics"]
        /\ tx' = [tx EXCEPT ![j].drop = TRUE]
    BY <1>3 DEF DropTable, GoTo, tables
  <2>2. \A k \in Jobs : tx'[k].rows = tx[k].rows
    BY <1>t, <2>1, Assigned
  <2>3. \A k \in Jobs \ {j} : tx'[k] = tx[k] /\ pc'[k] = pc[k]
    BY <1>t, <2>1, Assigned
  <2> QED
    BY <1>t, <2>1, <2>2, <2>3, NothingStored DEF TxInv
<1>4. ASSUME NEW j \in Jobs, WriteMetrics(j) PROVE TxInv'
  <2> DEFINE delta == aggregate_by_window(tx[j].rows)
  <2>1. /\ UNCHANGED <<events, event_metrics>>
        /\ pc' = [pc EXCEPT ![j] = "commit"]
        /\ tx' = [tx EXCEPT ![j].metrics = delta]
    BY <1>4 DEF WriteMetrics, GoTo, tables
  <2>2. delta \in MetricsTable
    BY <1>t, AggregateType DEF Transactions, Valid
  <2> HIDE DEF delta
  <2>3. /\ tx'[j].rows = tx[j].rows
        /\ tx'[j].metrics = delta
        /\ \A k \in Jobs \ {j} : tx'[k] = tx[k] /\ pc'[k] = pc[k]
    BY <1>t, <2>1, <2>2, Assigned
  <2> QED
    BY <2>1, <2>3, NothingStored DEF TxInv, delta
<1>5. ASSUME NEW j \in Jobs, CommitTransaction(j) PROVE TxInv'
  <2> DEFINE stored == tx[j].rows
  <2>1. /\ events' = events \union stored
        /\ event_metrics' = Accumulate(event_metrics, tx[j].metrics)
        /\ pc[j] = "commit"
        /\ pc' = [pc EXCEPT ![j] = "quarantine"]
        /\ tx' = [tx EXCEPT ![j] = NoTransaction]
    BY <1>5 DEF CommitTransaction, GoTo, At
  <2>2. /\ tx'[j].rows = {}
        /\ \A k \in Jobs \ {j} : tx'[k] = tx[k] /\ pc'[k] = pc[k]
    BY <1>t, <2>1, Assigned DEF NoTransaction
  <2>3. /\ stored \in SUBSET Valid
        /\ events \in SUBSET Valid
        /\ Apart(events, stored)
        /\ DistinctIds(stored)
        /\ DistinctIds(events)
    BY <1>t DEF Transactions, TypeInv, TxInv, Apart
  <2>4. DistinctIds(events') /\ MetricsMatchEvents'
    BY <2>1, <2>3, StoringRows DEF TxInv, MetricsMatchEvents
  <2>5. \A k \in Jobs \ {j} : Apart(tx'[k].rows, events')
    BY <2>1, <2>2 DEF TxInv, Apart, ids
  <2>6. \A k \in Jobs : DistinctIds(tx'[k].rows) /\ Apart(tx'[k].rows, events')
    BY <2>2, <2>5 DEF TxInv, DistinctIds, Apart, ids
  <2>7. \A k \in Jobs : pc'[k] = "commit" =>
            tx'[k].metrics = aggregate_by_window(tx'[k].rows)
    BY <1>t, <2>1, <2>2 DEF TxInv
  <2>8. \A k, l \in Jobs : k # l => Apart(tx'[k].rows, tx'[l].rows)
    BY <2>2 DEF TxInv, Apart, ids
  <2> QED
    BY <2>4, <2>6, <2>7, <2>8 DEF TxInv
<1>6. ASSUME UNCHANGED <<tx, events, event_metrics>>,
             \A k \in Jobs : pc'[k] = "commit" => pc[k] = "commit"
      PROVE  TxInv'
  BY <1>6, NothingStored DEF TxInv
<1>7. ASSUME NEW j \in Jobs,
             \/ Start(j) \/ PlanBatch(j) \/ AcknowledgeBatch(j) \/ Evaluate(j)
             \/ DropStaleTable(j) \/ CreateTable(j) \/ WritePartition(j)
             \/ BeginInsert(j) \/ AppendQuarantine(j)
      PROVE  TxInv'
  <2>1. UNCHANGED <<tx, events, event_metrics>>
    BY <1>7
    DEF Start, PlanBatch, AcknowledgeBatch, Evaluate, DropStaleTable, CreateTable,
        WritePartition, BeginInsert, AppendQuarantine, local, tables
  <2>2. \/ UNCHANGED pc
        \/ \E s \in {"evaluate", "idle", "metrics", "create", "stage", "insert"} :
              pc' = [pc EXCEPT ![j] = s]
    BY <1>7
    DEF Start, PlanBatch, AcknowledgeBatch, Evaluate, DropStaleTable, CreateTable,
        WritePartition, BeginInsert, AppendQuarantine, local, GoTo
  <2>3. \A k \in Jobs : pc'[k] = "commit" => pc[k] = "commit"
    BY <1>t, <2>2
  <2> QED
    BY <1>6, <2>1, <2>3
<1>8. CASE UNCHANGED vars
  BY <1>6, <1>8 DEF vars, local, tables
<1> QED
  BY <1>1, <1>2, <1>3, <1>4, <1>5, <1>7, <1>8 DEF Next

\* No transaction is open, and nothing is stored, at first.
LEMMA InitTx == Init => TxInv
<1> SUFFICES ASSUME Init PROVE TxInv
  OBVIOUS
<1>1. \A j \in Jobs : tx[j].rows = {} /\ pc[j] = "down"
  BY DEF Init, NoTransaction
<1>2. events = {} /\ event_metrics = NoMetrics
  BY DEF Init
<1> QED
  BY <1>1, <1>2, AggregateEmpty DEF TxInv, MetricsMatchEvents, DistinctIds, Apart, ids

\* Any number of jobs, on one batch or on several, leave event_metrics equal to
\* the aggregate of the stored events (pg_transaction, write_metrics_batch).
THEOREM MetricsAreExact == Spec => []MetricsMatchEvents
<1>1. TxInv => MetricsMatchEvents
  BY DEF TxInv
<1> QED
  BY <1>1, InitType, NextType, InitTx, NextTx, PTL DEF Spec

\* And store an event id once, though several insert it at the same time
\* (INSERT ... ON CONFLICT DO NOTHING).
THEOREM IdsAreUnique == Spec => []EachIdStoredOnce
<1>1. TxInv => EachIdStoredOnce
  BY DEF TxInv, EachIdStoredOnce
<1> QED
  BY <1>1, InitType, NextType, InitTx, NextTx, PTL DEF Spec

-----------------------------------------------------------------------------
(* One step of one job *)

Step(j) ==
    \/ Start(j) \/ End(j) \/ PlanBatch(j) \/ AcknowledgeBatch(j)
    \/ Evaluate(j) \/ DropStaleTable(j) \/ CreateTable(j) \/ WritePartition(j)
    \/ BeginInsert(j) \/ EndInsert(j) \/ DropTable(j)
    \/ WriteMetrics(j) \/ CommitTransaction(j) \/ AppendQuarantine(j)

\* What it leaves alone: where the other jobs are, what is planned, what is
\* stored, and every staging table but that of the batch it runs.
Frame(j) ==
    /\ \A k \in Jobs \ {j} : /\ pc'[k] = pc[k]
                             /\ batch'[k] = batch[k]
                             /\ todo'[k] = todo[k]
                             /\ tx'[k] = tx[k]
    /\ Planned \subseteq Planned'
    /\ \A b \in Planned : planned'[b] = planned[b]
    /\ events \subseteq events'
    /\ rejected \subseteq rejected'
    /\ overlapped \subseteq overlapped'
    /\ \A b : b # batch[j] \/ pc[j] \notin Running =>
          /\ b \in DOMAIN staging' <=> b \in DOMAIN staging
          /\ b \in DOMAIN staging => staging'[b] = staging[b]

\* Every step of a job is framed so.
LEMMA Frames ==
    ASSUME TypeInv, NEW j \in Jobs, Step(j)
    PROVE  Frame(j)
<1>t. /\ pc \in [Jobs -> {"down", "idle"} \union Running]
      /\ batch \in [Jobs -> 0 .. Len(planned)]
      /\ todo \in [Jobs -> SUBSET Rows]
      /\ tx \in [Jobs -> Transactions]
      /\ planned \in Seq(SUBSET Files)
  BY DEF TypeInv
<1>1. \A k \in Jobs \ {j} : /\ pc'[k] = pc[k]
                            /\ batch'[k] = batch[k]
                            /\ todo'[k] = todo[k]
  BY <1>t
  DEF Step, GoTo, local, tables, Start, End, PlanBatch, AcknowledgeBatch, Evaluate,
      DropStaleTable, CreateTable, WritePartition, BeginInsert, EndInsert, DropTable,
      WriteMetrics, CommitTransaction, AppendQuarantine
<1>2. \A k \in Jobs \ {j} : tx'[k] = tx[k]
  <2>1. CASE EndInsert(j)
    BY <1>t, <2>1 DEF EndInsert
  <2>2. CASE ~EndInsert(j)
    BY <1>t, <2>2
    DEF Step, local, Start, End, PlanBatch, AcknowledgeBatch, Evaluate,
        DropStaleTable, CreateTable, WritePartition, BeginInsert, DropTable,
        WriteMetrics, CommitTransaction, AppendQuarantine
  <2> QED
    BY <2>1, <2>2
<1>3. Planned \subseteq Planned' /\ \A b \in Planned : planned'[b] = planned[b]
  <2>1. CASE PlanBatch(j)
    <3>1. PICK F \in SUBSET Files : planned' = Append(planned, F)
      BY <2>1 DEF PlanBatch
    <3> QED
      BY <1>t, <3>1 DEF Planned
  <2>2. CASE ~PlanBatch(j)
    <3>1. planned' = planned
      BY <2>2
      DEF Step, checkpoint, Start, End, AcknowledgeBatch, Evaluate, DropStaleTable,
          CreateTable, WritePartition, BeginInsert, EndInsert, DropTable,
          WriteMetrics, CommitTransaction, AppendQuarantine
    <3> QED
      BY <3>1 DEF Planned
  <2> QED
    BY <2>1, <2>2
<1>4. /\ events \subseteq events'
      /\ rejected \subseteq rejected'
      /\ overlapped \subseteq overlapped'
  BY DEF Step, tables, Start, End, PlanBatch, AcknowledgeBatch, Evaluate,
      DropStaleTable, CreateTable, WritePartition, BeginInsert, EndInsert, DropTable,
      WriteMetrics, CommitTransaction, AppendQuarantine
<1>5. ASSUME NEW b, b # batch[j] \/ pc[j] \notin Running
      PROVE  /\ b \in DOMAIN staging' <=> b \in DOMAIN staging
             /\ b \in DOMAIN staging => staging'[b] = staging[b]
  <2>1. CASE DropStaleTable(j) \/ CreateTable(j) \/ WritePartition(j)
    BY <1>5, <2>1
    DEF DropStaleTable, CreateTable, WritePartition, At, Running, table, StagingTable
  <2>2. CASE CommitTransaction(j)
    BY <1>5, <2>2 DEF CommitTransaction, At, Running, table, StagingTable
  <2>3. CASE ~(DropStaleTable(j) \/ CreateTable(j) \/ WritePartition(j)
               \/ CommitTransaction(j))
    <3>1. staging' = staging
      BY <2>3
      DEF Step, tables, Start, End, PlanBatch, AcknowledgeBatch, Evaluate,
          BeginInsert, EndInsert, DropTable, WriteMetrics, AppendQuarantine
    <3> QED
      BY <3>1
  <2> QED
    BY <2>1, <2>2, <2>3
<1> QED
  BY <1>1, <1>2, <1>3, <1>4, <1>5 DEF Frame

-----------------------------------------------------------------------------
(* Who runs which batch *)

Runs(j, b) == pc[j] \in Running /\ batch[j] = b

\* Batches are planned one at a time, by a job that is up to date. One that no
\* two jobs ran at once is run by one job at most, and not once acknowledged.
CheckpointInv ==
    /\ Len(planned) <= committed + 1
    /\ \A j \in Jobs : pc[j] = "idle" => batch[j] <= committed
    /\ \A j, k \in Jobs : j # k /\ Runs(j, batch[j]) /\ Runs(k, batch[j])
                             => batch[j] \in overlapped
    /\ \A j \in Jobs : Runs(j, batch[j]) /\ batch[j] \notin overlapped
                          => batch[j] > committed

\* What a step makes of the batch its job runs.
LEMMA BatchOfTheJob ==
    ASSUME TypeInv, NEW j \in Jobs, Step(j),
           ~(Start(j) \/ End(j) \/ PlanBatch(j) \/ AcknowledgeBatch(j))
    PROVE  /\ pc[j] \in Running
           /\ pc'[j] \in Running
           /\ batch' = batch
           /\ planned' = planned
           /\ committed' = committed
           /\ overlapped' = overlapped
<1> USE DEF checkpoint, local, tables, At, GoTo, TypeInv, Running
<1>1. batch' = batch /\ planned' = planned /\ committed' = committed
      /\ overlapped' = overlapped
  BY DEF Step, Evaluate, DropStaleTable, CreateTable, WritePartition, BeginInsert,
      EndInsert, DropTable, WriteMetrics, CommitTransaction, AppendQuarantine
<1>2. pc[j] \in Running
  BY DEF Step, Evaluate, DropStaleTable, CreateTable, WritePartition, BeginInsert,
      EndInsert, DropTable, WriteMetrics, CommitTransaction, AppendQuarantine
<1>3. pc'[j] \in Running
  BY DEF Step, Evaluate, DropStaleTable, CreateTable, WritePartition, BeginInsert,
      EndInsert, DropTable, WriteMetrics, CommitTransaction, AppendQuarantine
<1> QED
  BY <1>1, <1>2, <1>3

\* Two jobs get to one batch only through Start, which records it.
LEMMA NextCheckpoint ==
    ASSUME TypeInv, CheckpointInv, NEW j \in Jobs, Step(j)
    PROVE  CheckpointInv'
<1>t. /\ pc \in [Jobs -> {"down", "idle"} \union Running]
      /\ batch \in [Jobs -> 0 .. Len(planned)]
      /\ planned \in Seq(SUBSET Files)
      /\ Len(planned) \in Nat
      /\ committed \in 0 .. Len(planned)
      /\ "down" \notin Running /\ "idle" \notin Running
  BY DEF TypeInv, Running
<1>f. \A k \in Jobs \ {j} : pc'[k] = pc[k] /\ batch'[k] = batch[k]
  BY Frames DEF Frame
<1> USE DEF CheckpointInv, Runs
<1>1. CASE Start(j)
  <2>1. CASE committed < Len(planned)
    <3>1. /\ pc'[j] = "evaluate"
          /\ batch'[j] = committed + 1
          /\ overlapped' = IF \E k \in Jobs \ {j} : pc[k] \in Running
                                                   /\ batch[k] = committed + 1
                           THEN overlapped \union {committed + 1}
                           ELSE overlapped
          /\ UNCHANGED <<planned, committed>>
      BY <1>1, <1>t, <2>1 DEF Start, GoTo, checkpoint
    <3>2. \A k \in Jobs \ {j} : Runs(k, committed + 1) => committed + 1 \in overlapped'
      BY <3>1
    <3>3. overlapped \subseteq overlapped'
      BY <3>1
    <3> QED
      BY <1>t, <1>f, <3>1, <3>2, <3>3
  <2>2. CASE ~(committed < Len(planned))
    <3>1. /\ pc'[j] = "idle"
          /\ batch'[j] = committed
          /\ UNCHANGED <<planned, committed, overlapped>>
      BY <1>1, <1>t, <2>2 DEF Start, GoTo, checkpoint
    <3>2. ~(pc'[j] \in Running)
      BY <1>t, <3>1
    <3>3. \A k \in Jobs : pc'[k] = "idle" => batch'[k] <= committed'
      BY <1>t, <1>f, <3>1
    <3>4. \A k \in Jobs : Runs(k, batch[k])' => k # j /\ Runs(k, batch[k])
                                              /\ batch'[k] = batch[k]
      BY <1>f, <3>2
    <3> QED
      BY <3>1, <3>3, <3>4
  <2> QED
    BY <2>1, <2>2
<1>2. CASE End(j)
  <2>1. /\ pc'[j] = "down"
        /\ UNCHANGED <<planned, committed, overlapped>>
    BY <1>2, <1>t DEF End, GoTo, checkpoint
  <2> QED
    BY <1>t, <1>f, <2>1
<1>3. CASE PlanBatch(j)
  <2>1. /\ Len(planned') = Len(planned) + 1
        /\ batch'[j] = Len(planned) + 1
        /\ pc'[j] = "evaluate"
        /\ pc[j] = "idle"
        /\ batch[j] = Len(planned)
        /\ UNCHANGED <<committed, overlapped>>
    BY <1>3, <1>t DEF PlanBatch, GoTo, At
  <2>2. Len(planned) = committed
    BY <1>t, <2>1
  <2>3. \A k \in Jobs \ {j} : batch'[k] # Len(planned) + 1
    BY <1>t, <1>f
  <2> QED
    BY <1>t, <1>f, <2>1, <2>2, <2>3
<1>4. CASE AcknowledgeBatch(j)
  <2>1. /\ pc[j] \in Running
        /\ pc'[j] = "idle"
        /\ batch' = batch
        /\ committed' = IF batch[j] > committed THEN batch[j] ELSE committed
        /\ UNCHANGED <<planned, overlapped>>
    BY <1>4, <1>t DEF AcknowledgeBatch, GoTo, At, Running
  <2>2. batch[j] \in Nat /\ batch[j] <= committed + 1
    BY <1>t
  <2>3. \A k \in Jobs \ {j} : Runs(k, batch[k]) /\ batch[k] \notin overlapped =>
            batch[k] # batch[j]
    BY <2>1
  <2>4. \A k \in Jobs \ {j} : Runs(k, batch[k]) /\ batch[k] \notin overlapped =>
            batch[k] > committed'
    <3> SUFFICES ASSUME NEW k \in Jobs \ {j}, Runs(k, batch[k]),
                        batch[k] \notin overlapped
                 PROVE  batch[k] > committed'
      OBVIOUS
    <3>1. batch[k] > committed /\ batch[k] # batch[j]
      BY <2>3
    <3>2. batch[k] \in Nat /\ batch[k] <= committed + 1
      BY <1>t
    <3> QED
      BY <1>t, <2>1, <2>2, <3>1, <3>2
  <2> QED
    BY <1>t, <1>f, <2>1, <2>2, <2>4
<1>5. CASE ~(Start(j) \/ End(j) \/ PlanBatch(j) \/ AcknowledgeBatch(j))
  <2>1. /\ pc[j] \in Running /\ pc'[j] \in Running
        /\ UNCHANGED <<batch, planned, committed, overlapped>>
    BY <1>5, BatchOfTheJob
  <2> QED
    BY <1>t, <1>f, <2>1
<1> QED
  BY <1>1, <1>2, <1>3, <1>4, <1>5

-----------------------------------------------------------------------------
(* Staging tables *)

\* A batch without a valid row never has a staging table.
TablesInv ==
    /\ \A b \in DOMAIN staging : BatchRows(b) \intersect Valid # {}
    /\ \A j \in Jobs : pc[j] = "create" => valid(j) # {}

\* A table is created after count() found a valid row.
LEMMA NextTables ==
    ASSUME TypeInv, TablesInv, NEW j \in Jobs, Step(j)
    PROVE  TablesInv'
<1>t. /\ pc \in [Jobs -> {"down", "idle"} \union Running]
      /\ DOMAIN staging \subseteq Planned
      /\ \A k \in Jobs : pc[k] \in Running => batch[k] \in Planned
  BY DEF TypeInv
<1>f. Frame(j)
  BY Frames
<1>1. \A b \in Planned : BatchRows(b)' = BatchRows(b)
  BY <1>f DEF Frame, BatchRows
<1>2. \A k \in Jobs \ {j} : pc'[k] = "create" => valid(k)' # {}
  BY <1>t, <1>f, <1>1 DEF Frame, TablesInv, valid, Running
<1>3. DOMAIN staging' \subseteq
         DOMAIN staging \union (IF pc[j] = "create" THEN {batch[j]} ELSE {})
  BY DEF Step, tables, At, table, StagingTable, Start, End, PlanBatch,
      AcknowledgeBatch, Evaluate, DropStaleTable, CreateTable, WritePartition,
      BeginInsert, EndInsert, DropTable, WriteMetrics, CommitTransaction,
      AppendQuarantine
<1>4. \A b \in DOMAIN staging' : BatchRows(b)' \intersect Valid # {}
  BY <1>t, <1>1, <1>3 DEF TablesInv, valid, Running
<1>5. pc'[j] = "create" => valid(j)' # {}
  <2>1. CASE Start(j) \/ End(j) \/ PlanBatch(j) \/ AcknowledgeBatch(j)
    BY <1>t, <2>1 DEF Start, End, PlanBatch, AcknowledgeBatch, GoTo
  <2>2. CASE ~(Start(j) \/ End(j) \/ PlanBatch(j) \/ AcknowledgeBatch(j))
    <3>1. /\ batch' = batch /\ planned' = planned
          /\ valid(j)' = valid(j)
      BY <2>2, BatchOfTheJob DEF valid, BatchRows
    <3>2. pc'[j] = "create" => pc[j] = "create" \/ valid(j) # {}
      BY <1>t, <2>2
      DEF Step, GoTo, local, Evaluate, DropStaleTable, CreateTable, WritePartition,
          BeginInsert, EndInsert, DropTable, WriteMetrics, CommitTransaction,
          AppendQuarantine
    <3> QED
      BY <3>1, <3>2 DEF TablesInv
  <2> QED
    BY <2>1, <2>2
<1> QED
  BY <1>2, <1>4, <1>5 DEF TablesInv

-----------------------------------------------------------------------------
(* What a job has done of a batch that it alone runs *)

Staged(j) ==
    pc[j] = "stage" =>
        /\ table(j) \in DOMAIN staging
        /\ valid(j) \subseteq staging[table(j)] \union todo[j]

Inserted(j) ==
    /\ pc[j] = "insert" => valid(j) \subseteq todo[j]
    /\ pc[j] \in {"drop", "metrics", "commit"} =>
          ids(valid(j)) \subseteq ids(events) \union ids(tx[j].rows)
    /\ pc[j] \in {"metrics", "commit"} /\ table(j) \in DOMAIN staging => tx[j].drop

Committed(j) ==
    pc[j] = "quarantine" =>
        /\ ids(valid(j)) \subseteq ids(events)
        /\ invalid(j) \subseteq rejected \union todo[j]
        /\ table(j) \notin DOMAIN staging

Work(j) == Staged(j) /\ Inserted(j) /\ Committed(j)

WorkInv == \A j \in Jobs : pc[j] \in Running /\ batch[j] \notin overlapped => Work(j)

\* The acknowledged batches that no two jobs ran at once.
Done(b) ==
    /\ ids(BatchRows(b) \intersect Valid) \subseteq ids(events)
    /\ BatchRows(b) \intersect Invalid \subseteq rejected
    /\ StagingTable(b) \notin DOMAIN staging

DoneInv == \A b \in 1 .. committed : b \notin overlapped => Done(b)

\* The steps of other jobs do not undo the work of one.
LEMMA OthersWork ==
    ASSUME TypeInv, CheckpointInv, WorkInv, NEW j \in Jobs, Step(j),
           NEW k \in Jobs \ {j}, pc'[k] \in Running, batch'[k] \notin overlapped'
    PROVE  Work(k)'
<1>1. /\ pc'[k] = pc[k]
      /\ batch'[k] = batch[k]
      /\ todo'[k] = todo[k]
      /\ tx'[k] = tx[k]
      /\ \A b \in Planned : planned'[b] = planned[b]
      /\ events \subseteq events'
      /\ rejected \subseteq rejected'
      /\ overlapped \subseteq overlapped'
  BY Frames DEF Frame
<1>2. /\ pc[k] \in Running
      /\ batch[k] \notin overlapped
      /\ batch[k] \in Planned
  BY <1>1 DEF TypeInv
<1>3. batch[k] # batch[j] \/ pc[j] \notin Running
  BY <1>2 DEF CheckpointInv, Runs
<1>4. /\ batch[k] \in DOMAIN staging' <=> batch[k] \in DOMAIN staging
      /\ batch[k] \in DOMAIN staging => staging'[batch[k]] = staging[batch[k]]
  BY <1>3, Frames DEF Frame
<1>5. /\ valid(k)' = valid(k)
      /\ invalid(k)' = invalid(k)
      /\ table(k)' = table(k)
      /\ table(k) = batch[k]
  BY <1>1, <1>2 DEF valid, invalid, BatchRows, table, StagingTable
<1>6. ids(events) \subseteq ids(events')
  BY <1>1 DEF ids
<1>7. Work(k)
  BY <1>2 DEF WorkInv
<1>8. Staged(k)'
  BY <1>1, <1>4, <1>5, <1>7 DEF Work, Staged
<1>9. Inserted(k)'
  BY <1>1, <1>4, <1>5, <1>6, <1>7 DEF Work, Inserted
<1>10. Committed(k)'
  BY <1>1, <1>4, <1>5, <1>6, <1>7 DEF Work, Committed
<1> QED
  BY <1>8, <1>9, <1>10 DEF Work

\* Nor does a job undo its own.
LEMMA OwnWork ==
    ASSUME TypeInv, TablesInv, WorkInv, NEW j \in Jobs, Step(j),
           pc'[j] \in Running, batch'[j] \notin overlapped'
    PROVE  Work(j)'
<1>t. /\ pc \in [Jobs -> {"down", "idle"} \union Running]
      /\ todo \in [Jobs -> SUBSET Rows]
      /\ tx \in [Jobs -> Transactions]
  BY DEF TypeInv
<1>1. CASE Start(j) \/ End(j) \/ PlanBatch(j) \/ AcknowledgeBatch(j)
  <2>1. pc'[j] \notin Running \ {"evaluate"}
    BY <1>t, <1>1 DEF Start, End, PlanBatch, AcknowledgeBatch, GoTo, Running
  <2> QED
    BY <2>1 DEF Work, Staged, Inserted, Committed, Running
<1>2. CASE ~(Start(j) \/ End(j) \/ PlanBatch(j) \/ AcknowledgeBatch(j))
  <2>1. /\ pc[j] \in Running
        /\ batch' = batch /\ planned' = planned /\ overlapped' = overlapped
    BY <1>2, BatchOfTheJob
  <2>2. /\ valid(j)' = valid(j)
        /\ invalid(j)' = invalid(j)
        /\ table(j)' = table(j)
    BY <2>1 DEF valid, invalid, BatchRows, table
  <2>3. Work(j)
    BY <2>1 DEF WorkInv
  <2> USE DEF Work, Staged, Inserted, Committed, GoTo, At, tables, local
  <2>4. CASE Evaluate(j)
    <3>1. valid(j) = {} => table(j) \notin DOMAIN staging
      BY DEF TablesInv, valid, table, StagingTable
    <3>2. ids({}) = {}
      BY DEF ids
    <3> QED
      BY <1>t, <2>2, <2>4, <3>1, <3>2 DEF Evaluate
  <2>5. CASE DropStaleTable(j)
    BY <1>t, <2>5 DEF DropStaleTable
  <2>6. CASE CreateTable(j)
    BY <1>t, <2>2, <2>6 DEF CreateTable
  <2>7. CASE WritePartition(j)
    BY <1>t, <2>2, <2>3, <2>7 DEF WritePartition
  <2>8. CASE BeginInsert(j)
    BY <1>t, <2>2, <2>3, <2>8 DEF BeginInsert
  <2>9. CASE EndInsert(j)
    <3>1. PICK S \in Insertable(todo[j]) : tx' = [tx EXCEPT ![j].rows = S]
      BY <2>9 DEF EndInsert
    <3>2. S \in SUBSET Valid /\ ids(todo[j]) \subseteq ids(events) \union ids(S)
      BY <2>9, <3>1 DEF EndInsert, Insertable, TypeInv
    <3>3. tx'[j].rows = S
      BY <1>t, <3>1, <3>2, Assigned
    <3>4. ids(valid(j)) \subseteq ids(todo[j])
      BY <2>3, <2>9 DEF EndInsert, ids
    <3> QED
      BY <1>t, <2>2, <2>9, <3>2, <3>3, <3>4 DEF EndInsert
  <2>10. CASE DropTable(j)
    <3>1. tx'[j].rows = tx[j].rows /\ tx'[j].drop = TRUE
      BY <1>t, <2>10, Assigned DEF DropTable
    <3> QED
      BY <1>t, <2>2, <2>3, <2>10, <3>1 DEF DropTable
  <2>11. CASE WriteMetrics(j)
    <3>1. aggregate_by_window(tx[j].rows) \in MetricsTable
      BY <1>t, AggregateType DEF Transactions, Valid
    <3>2. tx'[j].rows = tx[j].rows /\ tx'[j].drop = tx[j].drop
      BY <1>t, <2>11, <3>1, Assigned DEF WriteMetrics
    <3> QED
      BY <1>t, <2>2, <2>3, <2>11, <3>2 DEF WriteMetrics
  <2>12. CASE CommitTransaction(j)
    <3>1. /\ pc[j] = "commit"
          /\ pc'[j] = "quarantine"
          /\ events' = events \union tx[j].rows
          /\ todo'[j] = invalid(j)
      BY <1>t, <2>12 DEF CommitTransaction
    <3>2. ids(events') = ids(events) \union ids(tx[j].rows)
      BY <3>1 DEF ids
    <3>3. table(j) \notin DOMAIN staging'
      BY <2>3, <2>12, <3>1 DEF CommitTransaction
    <3> QED
      BY <2>2, <2>3, <3>1, <3>2, <3>3
  <2>13. CASE AppendQuarantine(j)
    BY <1>t, <2>2, <2>3, <2>13 DEF AppendQuarantine
  <2> QED
    BY <1>2, <2>4, <2>5, <2>6, <2>7, <2>8, <2>9, <2>10, <2>11, <2>12, <2>13 DEF Step
<1> QED
  BY <1>1, <1>2

\* What was acknowledged stays stored, and a batch is acknowledged when its
\* work is done.
LEMMA NextDone ==
    ASSUME TypeInv, CheckpointInv, WorkInv, DoneInv, NEW j \in Jobs, Step(j)
    PROVE  DoneInv'
<1>t. /\ committed \in Nat
      /\ 1 .. committed \subseteq Planned
      /\ planned \in Seq(SUBSET Files)
      /\ batch \in [Jobs -> 0 .. Len(planned)]
      /\ Len(planned) \in Nat
      /\ Len(planned) <= committed + 1
  BY DEF TypeInv, Planned, CheckpointInv
<1>1. /\ \A b \in Planned : planned'[b] = planned[b]
      /\ events \subseteq events'
      /\ rejected \subseteq rejected'
      /\ overlapped \subseteq overlapped'
      /\ \A b : b # batch[j] \/ pc[j] \notin Running =>
            (b \in DOMAIN staging' <=> b \in DOMAIN staging)
  BY Frames DEF Frame
<1>2. ids(events) \subseteq ids(events')
  BY <1>1 DEF ids
<1>3. ASSUME NEW b \in 1 .. committed, b \notin overlapped'
      PROVE  Done(b)'
  <2>1. Done(b)
    BY <1>1, <1>3 DEF DoneInv
  <2>2. b # batch[j] \/ pc[j] \notin Running
    BY <1>1, <1>3, <1>t DEF CheckpointInv, Runs
  <2>3. b \notin DOMAIN staging'
    BY <1>1, <2>1, <2>2 DEF Done, StagingTable
  <2>4. BatchRows(b)' = BatchRows(b)
    BY <1>1, <1>t DEF BatchRows
  <2> QED
    BY <1>1, <1>2, <2>1, <2>3, <2>4 DEF Done, StagingTable
<1>4. CASE AcknowledgeBatch(j)
  <2>1. /\ pc[j] = "quarantine" /\ todo[j] = {}
        /\ committed' = IF batch[j] > committed THEN batch[j] ELSE committed
        /\ UNCHANGED <<planned, staging, events, rejected, overlapped>>
    BY <1>4 DEF AcknowledgeBatch, At, tables
  <2>2. batch[j] \notin overlapped => Done(batch[j])
    <3>1. batch[j] \notin overlapped => Work(j)
      BY <2>1 DEF WorkInv, Running
    <3> QED
      BY <2>1, <3>1 DEF Work, Committed, Done, valid, invalid, table
  <2>3. ASSUME NEW b, b = batch[j], b \notin overlapped
        PROVE  Done(b)'
    BY <2>1, <2>2, <2>3 DEF Done, BatchRows, StagingTable
  <2>4. \A b \in 1 .. committed' : b \in 1 .. committed \/ b = batch[j]
    BY <1>t, <2>1
  <2> QED
    BY <1>3, <2>1, <2>3, <2>4 DEF DoneInv
<1>5. CASE ~AcknowledgeBatch(j)
  <2>1. committed' = committed
    BY <1>5
    DEF Step, checkpoint, Start, End, PlanBatch, Evaluate, DropStaleTable, CreateTable,
        WritePartition, BeginInsert, EndInsert, DropTable, WriteMetrics,
        CommitTransaction, AppendQuarantine
  <2> QED
    BY <1>3, <2>1 DEF DoneInv
<1> QED
  BY <1>4, <1>5

-----------------------------------------------------------------------------
(* The theorems *)

IInv ==
    /\ TypeInv
    /\ CheckpointInv
    /\ TablesInv
    /\ WorkInv
    /\ DoneInv

\* Nothing has been planned at first.
LEMMA InitInv == Init => IInv
<1> SUFFICES ASSUME Init PROVE IInv
  OBVIOUS
<1>1. TypeInv
  BY InitType
<1>2. /\ planned = <<>> /\ committed = 0 /\ staging = <<>>
      /\ \A j \in Jobs : pc[j] = "down"
  BY DEF Init
<1> QED
  BY <1>1, <1>2
  DEF IInv, CheckpointInv, TablesInv, WorkInv, DoneInv, Runs, Running

\* Every step of every job keeps the invariant.
LEMMA NextInv == IInv /\ [Next]_vars => IInv'
<1> SUFFICES ASSUME IInv, [Next]_vars PROVE IInv'
  OBVIOUS
<1>0. TypeInv'
  BY NextType DEF IInv
<1>1. ASSUME NEW j \in Jobs, Step(j) PROVE IInv'
  <2>1. CheckpointInv' /\ TablesInv' /\ DoneInv'
    BY <1>1, NextCheckpoint, NextTables, NextDone DEF IInv
  <2>2. WorkInv'
    BY <1>1, OthersWork, OwnWork DEF IInv, WorkInv
  <2> QED
    BY <1>0, <2>1, <2>2 DEF IInv
<1>2. CASE UNCHANGED vars
  BY <1>0, <1>2
  DEF IInv, vars, checkpoint, local, tables, CheckpointInv, TablesInv, WorkInv,
      DoneInv, Runs, Work, Staged, Inserted, Committed, Done, valid, invalid, table,
      BatchRows
<1> QED
  BY <1>1, <1>2 DEF Next, Step

\* Whatever the jobs do, what a batch loses it loses to a second job that ran
\* the same batch at the same time: jobs on other batches use other staging
\* tables (write_events_batch).
THEOREM LossIsExplained == Spec => []LossTakesAnOverlap
<1>1. IInv => LossTakesAnOverlap
  BY DEF IInv, DoneInv, Done, LossTakesAnOverlap
<1> QED
  BY <1>1, InitInv, NextInv, PTL DEF Spec

\* And so is a staging table that is left behind (the DROP TABLE of
\* write_events_batch, mode="overwrite").
THEOREM LeftoversAreExplained == Spec => []LeftoverTablesTakeAnOverlap
<1>1. IInv => LeftoverTablesTakeAnOverlap
  BY DEF IInv, DoneInv, Done, LeftoverTablesTakeAnOverlap
<1> QED
  BY <1>1, InitInv, NextInv, PTL DEF Spec

-----------------------------------------------------------------------------
(* Together the jobs keep the promise of ExactlyOnce *)

\* The files of different batches are different: SeenFiles are not planned
\* again. A staging table, and whatever a job stages, inserts, has in its open
\* transaction or appends to the quarantine, holds rows of its own batch.
RowsInv ==
    /\ \A b, c \in Planned : b # c => planned[b] \intersect planned[c] = {}
    /\ \A b \in DOMAIN staging : staging[b] \subseteq BatchRows(b)
    /\ \A j \in Jobs :
          /\ pc[j] \in {"stage", "insert", "quarantine"} =>
                 todo[j] \subseteq BatchRows(batch[j])
          /\ pc[j] \in {"drop", "metrics", "commit"} =>
                 tx[j].rows \subseteq BatchRows(batch[j])
          /\ pc[j] \notin {"drop", "metrics", "commit"} => tx[j].rows = {}

\* PlanBatch takes files no batch has.
LEMMA NextDisjoint ==
    ASSUME TypeInv, RowsInv, NEW j \in Jobs, Step(j)
    PROVE  \A b, c \in Planned' : b # c => planned'[b] \intersect planned'[c] = {}
<1>t. planned \in Seq(SUBSET Files)
  BY DEF TypeInv
<1>1. CASE PlanBatch(j)
  <2>1. PICK F \in SUBSET (Files \ SeenFiles) : planned' = Append(planned, F)
    BY <1>1 DEF PlanBatch
  <2>2. \A b \in Planned' : b \in Planned \/ (planned'[b] = F /\ b = Len(planned) + 1)
    <3>1. /\ Len(planned') = Len(planned) + 1
          /\ Len(planned) \in Nat
          /\ planned'[Len(planned) + 1] = F
      BY <1>t, <2>1
    <3>2. \A b \in 1 .. Len(planned) + 1 : b \in 1 .. Len(planned) \/ b = Len(planned) + 1
      BY <3>1
    <3>3. Planned' = 1 .. Len(planned) + 1 /\ Planned = 1 .. Len(planned)
      BY <3>1 DEF Planned
    <3> QED
      BY <3>1, <3>2, <3>3
  <2>3. \A b \in Planned : planned'[b] = planned[b] /\ F \intersect planned[b] = {}
    BY <1>t, <2>1 DEF Planned, SeenFiles
  <2> QED
    BY <2>2, <2>3 DEF RowsInv
<1>2. CASE ~PlanBatch(j)
  <2>1. planned' = planned
    BY <1>2
    DEF Step, checkpoint, Start, End, AcknowledgeBatch, Evaluate, DropStaleTable,
        CreateTable, WritePartition, BeginInsert, EndInsert, DropTable,
        WriteMetrics, CommitTransaction, AppendQuarantine
  <2> QED
    BY <2>1 DEF RowsInv, Planned
<1> QED
  BY <1>1, <1>2

\* The rows of one batch stay with the job that runs it.
LEMMA NextRows ==
    ASSUME TypeInv, RowsInv, NEW j \in Jobs, Step(j)
    PROVE  RowsInv'
<1>t. /\ pc \in [Jobs -> {"down", "idle"} \union Running]
      /\ todo \in [Jobs -> SUBSET Rows]
      /\ tx \in [Jobs -> Transactions]
      /\ DOMAIN staging \subseteq Planned
      /\ \A k \in Jobs : pc[k] \in Running => batch[k] \in Planned
  BY DEF TypeInv
<1>f. Frame(j)
  BY Frames
<1>b. \A b \in Planned : BatchRows(b)' = BatchRows(b)
  BY <1>f DEF Frame, BatchRows
<1>1. ASSUME NEW k \in Jobs \ {j}
      PROVE  /\ pc'[k] \in {"stage", "insert", "quarantine"} =>
                    todo'[k] \subseteq BatchRows(batch[k])'
             /\ pc'[k] \in {"drop", "metrics", "commit"} =>
                    tx'[k].rows \subseteq BatchRows(batch[k])'
             /\ pc'[k] \notin {"drop", "metrics", "commit"} => tx'[k].rows = {}
  <2>1. pc'[k] = pc[k] /\ batch'[k] = batch[k] /\ todo'[k] = todo[k] /\ tx'[k] = tx[k]
    BY <1>f DEF Frame
  <2>2. pc[k] \in Running => BatchRows(batch[k])' = BatchRows(batch[k])
    BY <1>t, <1>b, <2>1 DEF BatchRows
  <2> QED
    BY <2>1, <2>2 DEF RowsInv, Running
<1>2. CASE Start(j) \/ End(j) \/ PlanBatch(j) \/ AcknowledgeBatch(j)
  <2>1. pc'[j] \in {"down", "idle", "evaluate"} /\ staging' = staging
    BY <1>t, <1>2 DEF Start, End, PlanBatch, AcknowledgeBatch, GoTo, tables
  <2>2. tx'[j].rows = {}
    <3>1. CASE End(j)
      BY <1>t, <3>1, Assigned DEF End, NoTransaction
    <3>2. CASE Start(j) \/ PlanBatch(j) \/ AcknowledgeBatch(j)
      BY <3>2 DEF Start, PlanBatch, AcknowledgeBatch, At, RowsInv
    <3> QED
      BY <1>2, <3>1, <3>2
  <2>3. \A b \in DOMAIN staging' : staging'[b] \subseteq BatchRows(b)'
    BY <1>t, <1>b, <2>1 DEF RowsInv
  <2> QED
    BY <1>1, <2>1, <2>2, <2>3, NextDisjoint DEF RowsInv
<1>3. CASE ~(Start(j) \/ End(j) \/ PlanBatch(j) \/ AcknowledgeBatch(j))
  <2> DEFINE R == BatchRows(batch[j])
  <2>1. /\ batch' = batch /\ planned' = planned
        /\ pc[j] \in Running /\ batch[j] \in Planned
        /\ R' = R
        /\ valid(j) \subseteq R /\ invalid(j) \subseteq R
    BY <1>t, <1>3, BatchOfTheJob DEF BatchRows, valid, invalid
  <2>2. /\ pc[j] \in {"stage", "insert", "quarantine"} => todo[j] \subseteq R
        /\ pc[j] \in {"drop", "metrics", "commit"} => tx[j].rows \subseteq R
        /\ pc[j] \notin {"drop", "metrics", "commit"} => tx[j].rows = {}
        /\ \A b \in DOMAIN staging : staging[b] \subseteq BatchRows(b)
    BY DEF RowsInv
  <2> DEFINE Mine == /\ pc'[j] \in {"stage", "insert", "quarantine"} =>
                            todo'[j] \subseteq R
                     /\ pc'[j] \in {"drop", "metrics", "commit"} =>
                            tx'[j].rows \subseteq R
                     /\ pc'[j] \notin {"drop", "metrics", "commit"} =>
                            tx'[j].rows = {}
             Tables == \A b \in DOMAIN staging' : staging'[b] \subseteq BatchRows(b)
  <2> SUFFICES Mine /\ Tables
    <3>1. BatchRows(batch[j])' = R /\ \A b : BatchRows(b)' = BatchRows(b)
      BY <2>1 DEF BatchRows
    <3> QED
      BY <1>1, <3>1, NextDisjoint DEF RowsInv
  <2> USE DEF At, GoTo, tables, local, table, StagingTable
  <2>3. CASE Evaluate(j)
    BY <1>t, <2>2, <2>3 DEF Evaluate
  <2>4. CASE DropStaleTable(j)
    BY <1>t, <2>2, <2>4 DEF DropStaleTable
  <2>5. CASE CreateTable(j)
    BY <1>t, <2>1, <2>2, <2>5 DEF CreateTable
  <2>6. CASE WritePartition(j)
    BY <1>t, <2>2, <2>6 DEF WritePartition
  <2>7. CASE BeginInsert(j)
    BY <1>t, <2>2, <2>7 DEF BeginInsert
  <2>8. CASE EndInsert(j)
    <3>1. PICK S \in Insertable(todo[j]) : tx' = [tx EXCEPT ![j].rows = S]
      BY <2>8 DEF EndInsert
    <3>2. S \in SUBSET Valid /\ S \subseteq todo[j]
      BY <2>8, <3>1 DEF EndInsert, Insertable, TypeInv
    <3>3. tx'[j].rows = S
      BY <1>t, <3>1, <3>2, Assigned
    <3> QED
      BY <1>t, <2>2, <2>8, <3>2, <3>3 DEF EndInsert
  <2>9. CASE DropTable(j)
    <3>1. tx'[j].rows = tx[j].rows
      BY <1>t, <2>9, Assigned DEF DropTable
    <3> QED
      BY <1>t, <2>2, <2>9, <3>1 DEF DropTable
  <2>10. CASE WriteMetrics(j)
    <3>1. aggregate_by_window(tx[j].rows) \in MetricsTable
      BY <1>t, AggregateType DEF Transactions, Valid
    <3>2. tx'[j].rows = tx[j].rows
      BY <1>t, <2>10, <3>1, Assigned DEF WriteMetrics
    <3> QED
      BY <1>t, <2>2, <2>10, <3>2 DEF WriteMetrics
  <2>11. CASE CommitTransaction(j)
    <3>1. tx'[j].rows = {}
      BY <1>t, <2>11, Assigned DEF CommitTransaction, NoTransaction
    <3> QED
      BY <1>t, <2>1, <2>2, <2>11, <3>1 DEF CommitTransaction
  <2>12. CASE AppendQuarantine(j)
    BY <1>t, <2>2, <2>12 DEF AppendQuarantine
  <2> QED
    BY <1>3, <2>3, <2>4, <2>5, <2>6, <2>7, <2>8, <2>9, <2>10, <2>11, <2>12 DEF Step
<1> QED
  BY <1>2, <1>3

\* The files of the batch a job runs are not done: no file is in two batches,
\* and a batch that is done is run no more.
LEMMA RunningFilesAreNew ==
    ASSUME TypeInv, CheckpointInv, RowsInv, NEW j \in Jobs, pc[j] \in Running
    PROVE  planned[batch[j]] \intersect FilesDone = {}
<1>1. batch[j] \in Planned /\ 1 .. committed \subseteq Planned
  BY DEF TypeInv, Planned
<1>2. batch[j] \notin (1 .. committed) \ overlapped
  BY DEF CheckpointInv, Runs, TypeInv
<1>3. \A b \in (1 .. committed) \ overlapped : planned[batch[j]] \intersect planned[b] = {}
  BY <1>1, <1>2 DEF RowsInv
<1> QED
  BY <1>3 DEF FilesDone

\* Only an acknowledgement makes files done, those of a batch one job alone ran.
LEMMA FilesDoneStep ==
    ASSUME TypeInv, CheckpointInv, NEW j \in Jobs, Step(j)
    PROVE  /\ ~AcknowledgeBatch(j) => FilesDone' = FilesDone
           /\ AcknowledgeBatch(j) =>
                 \/ FilesDone' = FilesDone
                 \/ /\ batch[j] \notin overlapped
                    /\ FilesDone' = FilesDone \union planned[batch[j]]
<1>t. /\ committed \in Nat /\ Len(planned) \in Nat
      /\ 1 .. committed \subseteq Planned
      /\ Len(planned) <= committed + 1
      /\ batch[j] \in 0 .. Len(planned)
  BY DEF TypeInv, Planned, CheckpointInv
<1>1. CASE ~AcknowledgeBatch(j)
  <2>1. committed' = committed
    BY <1>1
    DEF Step, checkpoint, Start, End, PlanBatch, Evaluate, DropStaleTable, CreateTable,
        WritePartition, BeginInsert, EndInsert, DropTable, WriteMetrics,
        CommitTransaction, AppendQuarantine
  <2>2. overlapped' \subseteq overlapped \union {committed + 1}
    BY <1>1
    DEF Step, Start, End, PlanBatch, Evaluate, DropStaleTable, CreateTable,
        WritePartition, BeginInsert, EndInsert, DropTable, WriteMetrics,
        CommitTransaction, AppendQuarantine
  <2>3. overlapped \subseteq overlapped' /\ \A b \in Planned : planned'[b] = planned[b]
    BY Frames DEF Frame
  <2>4. (1 .. committed') \ overlapped' = (1 .. committed) \ overlapped
    BY <1>t, <2>1, <2>2, <2>3
  <2> QED
    BY <1>1, <1>t, <2>3, <2>4 DEF FilesDone
<1>2. CASE AcknowledgeBatch(j)
  <2>1. /\ committed' = IF batch[j] > committed THEN batch[j] ELSE committed
        /\ UNCHANGED <<planned, overlapped>>
    BY <1>2 DEF AcknowledgeBatch
  <2>2. CASE batch[j] > committed /\ batch[j] \notin overlapped
    <3>1. (1 .. committed') \ overlapped' = ((1 .. committed) \ overlapped) \union {batch[j]}
      BY <1>t, <2>1, <2>2
    <3> QED
      BY <1>2, <2>1, <2>2, <3>1 DEF FilesDone
  <2>3. CASE ~(batch[j] > committed /\ batch[j] \notin overlapped)
    <3>1. (1 .. committed') \ overlapped' = (1 .. committed) \ overlapped
      BY <1>t, <2>1, <2>3
    <3> QED
      BY <1>2, <2>1, <3>1 DEF FilesDone
  <2> QED
    BY <2>2, <2>3
<1> QED
  BY <1>1, <1>2

\* Nothing is stored or done at first.
LEMMA InitRefines == Init => Promise!Init
<1> SUFFICES ASSUME Init PROVE Promise!Init
  OBVIOUS
<1>1. FilesDone = {}
  <2>1. 1 .. committed = {}
    BY DEF Init
  <2> QED
    BY <2>1 DEF FilesDone
<1> QED
  BY <1>1, AggregateEmpty DEF Init, Promise!Init

\* A commit stores, an append rejects, an acknowledgement finishes, and no
\* other step shows.
LEMMA NextRefines ==
    IInv /\ TxInv /\ RowsInv /\ TxInv' /\ [Next]_vars => [Promise!Next]_(Promise!promise)
<1> SUFFICES ASSUME IInv, TxInv, RowsInv, TxInv', [Next]_vars
             PROVE  Promise!Next \/ UNCHANGED Promise!promise
  OBVIOUS
<1>i. TypeInv /\ CheckpointInv /\ WorkInv
  BY DEF IInv
<1>1. ASSUME NEW j \in Jobs, CommitTransaction(j)
      PROVE  Promise!Next
  <2> DEFINE S == tx[j].rows
  <2>1. /\ pc[j] = "commit" /\ pc[j] \in Running
        /\ events' = events \union S
        /\ rejected' = rejected
    BY <1>1 DEF CommitTransaction, At, Running
  <2>2. FilesDone' = FilesDone
    BY <1>1, <1>i, FilesDoneStep DEF Step, CommitTransaction, AcknowledgeBatch, At
  <2>3. /\ S \in SUBSET Valid
        /\ S \subseteq BatchRows(batch[j])
        /\ DistinctIds(S)
        /\ Apart(S, events)
    BY <1>i, <2>1 DEF TypeInv, Transactions, RowsInv, TxInv
  <2>4. \A r \in S : FileOf[r] \notin FilesDone
    BY <1>i, <2>1, <2>3, RunningFilesAreNew DEF BatchRows, RowsIn
  <2>5. event_metrics' = aggregate_by_window(events \union S)
    BY <2>1 DEF TxInv, MetricsMatchEvents
  <2>6. Promise!Store(S)
    BY <2>1, <2>2, <2>3, <2>4, <2>5
    DEF Promise!Store, Promise!Ids, ids, DistinctIds, Apart
  <2> QED
    BY <2>3, <2>6 DEF Promise!Next
<1>2. ASSUME NEW j \in Jobs, AppendQuarantine(j)
      PROVE  Promise!Next
  <2>1. PICK part \in (SUBSET todo[j]) \ {{}} : rejected' = rejected \union part
    BY <1>2 DEF AppendQuarantine
  <2>2. /\ pc[j] = "quarantine" /\ pc[j] \in Running
        /\ UNCHANGED <<events, event_metrics>>
    BY <1>2 DEF AppendQuarantine, At, Running
  <2>3. FilesDone' = FilesDone
    <3>1. todo[j] # {}
      BY <2>1
    <3>2. Step(j)
      BY <1>2 DEF Step
    <3>3. ~AcknowledgeBatch(j)
      BY <3>1 DEF AcknowledgeBatch
    <3> QED
      BY <1>i, <3>2, <3>3, FilesDoneStep
  <2>4. part \subseteq Invalid /\ part \subseteq BatchRows(batch[j])
    BY <1>i, <2>1, <2>2 DEF TypeInv, RowsInv
  <2>5. \A r \in part : FileOf[r] \notin FilesDone
    BY <1>i, <2>2, <2>4, RunningFilesAreNew DEF BatchRows, RowsIn
  <2>6. part \in SUBSET Promise!Bad
    BY <2>4 DEF Promise!Bad, Invalid
  <2>7. Promise!Reject(part)
    BY <2>1, <2>2, <2>3, <2>5 DEF Promise!Reject
  <2> QED
    BY <2>6, <2>7 DEF Promise!Next
<1>3. ASSUME NEW j \in Jobs, AcknowledgeBatch(j)
      PROVE  Promise!Next \/ UNCHANGED Promise!promise
  <2> DEFINE F == planned[batch[j]]
  <2>1. /\ pc[j] = "quarantine" /\ pc[j] \in Running /\ todo[j] = {}
        /\ UNCHANGED <<events, event_metrics, rejected>>
    BY <1>3 DEF AcknowledgeBatch, At, tables, Running
  <2>2. CASE FilesDone' = FilesDone
    BY <2>1, <2>2 DEF Promise!promise
  <2>3. CASE batch[j] \notin overlapped /\ FilesDone' = FilesDone \union F
    <3>1. /\ ids(valid(j)) \subseteq ids(events)
          /\ invalid(j) \subseteq rejected
      BY <1>i, <2>1, <2>3 DEF WorkInv, Work, Committed
    <3>2. F \in SUBSET Files
      BY <1>i, <2>1 DEF TypeInv, Planned
    <3>3. F \intersect FilesDone = {}
      BY <1>i, <2>1, RunningFilesAreNew
    <3>4. Promise!AccountedFor(F)
      BY <3>1
      DEF Promise!AccountedFor, Promise!RowsOf, Promise!Ids, Promise!Bad, RowsIn,
          BatchRows, valid, invalid, ids, Invalid
    <3>5. Promise!Finish(F)
      BY <2>1, <2>3, <3>3, <3>4 DEF Promise!Finish
    <3> QED
      BY <3>2, <3>5 DEF Promise!Next
  <2> QED
    BY <1>3, <1>i, <2>2, <2>3, FilesDoneStep DEF Step
<1>4. ASSUME NEW j \in Jobs, Step(j),
             ~(CommitTransaction(j) \/ AppendQuarantine(j) \/ AcknowledgeBatch(j))
      PROVE  UNCHANGED Promise!promise
  <2>1. UNCHANGED <<events, event_metrics, rejected>>
    BY <1>4
    DEF Step, tables, Start, End, PlanBatch, Evaluate, DropStaleTable, CreateTable,
        WritePartition, BeginInsert, EndInsert, DropTable, WriteMetrics
  <2>2. FilesDone' = FilesDone
    BY <1>4, <1>i, FilesDoneStep
  <2> QED
    BY <2>1, <2>2 DEF Promise!promise
<1>5. CASE UNCHANGED vars
  BY <1>5 DEF vars, checkpoint, tables, FilesDone, Promise!promise
<1> QED
  BY <1>1, <1>2, <1>3, <1>4, <1>5 DEF Next, Step

\* No batch is planned, no table there and no transaction open at first.
LEMMA InitRows == Init => RowsInv
BY DEF Init, RowsInv, Planned, NoTransaction

\* Every step keeps the rows of the batches apart.
LEMMA NextRowsInv == TypeInv /\ RowsInv /\ [Next]_vars => RowsInv'
<1> SUFFICES ASSUME TypeInv, RowsInv, [Next]_vars PROVE RowsInv'
  OBVIOUS
<1>1. CASE UNCHANGED vars
  BY <1>1 DEF vars, checkpoint, local, tables, RowsInv, Planned, BatchRows
<1> QED
  BY <1>1, NextRows DEF Next, Step

\* Jobs that know nothing of each other implement ExactlyOnce: seen through
\* events, event_metrics, the quarantined rows and the files of the
\* acknowledged batches no two jobs ran at once, every step of every job is
\* one step of the promise or none.
THEOREM Refinement == Spec => KeepsThePromise
<1>1. Init => IInv /\ TxInv /\ RowsInv
  BY InitInv, InitTx, InitRows
<1>2. IInv /\ TxInv /\ RowsInv /\ [Next]_vars => (IInv /\ TxInv /\ RowsInv)'
  BY NextInv, NextTx, NextRowsInv DEF IInv
<1> QED
  BY <1>1, <1>2, InitRefines, NextRefines, PTL DEF Spec, KeepsThePromise, Promise!Spec
=============================================================================
