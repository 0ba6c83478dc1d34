-------------------------- MODULE StreamingProofs ---------------------------
(***************************************************************************)
(* Theorems about the streaming job, for every dataset: any rows, files,   *)
(* batch size and number of crashes.                                       *)
(***************************************************************************)
EXTENDS StreamingInvariant, DatasetProofs

-----------------------------------------------------------------------------
(* Type correctness *)

\* A batch that runs has been planned, which bounds committed, and the table
\* it stages into exists, which types the rows inserted from it.
TypeInv ==
    /\ TypeOK
    /\ pc \in Steps => committed < Len(planned)
    /\ pc = "stage" => batch_id \in DOMAIN staging

LEMMA AccumulateType ==
    ASSUME NEW m \in MetricsTable, NEW d \in MetricsTable
    PROVE  Accumulate(m, d) \in MetricsTable
BY DEF Accumulate, MetricsTable

LEMMA NoMetricsType == NoMetrics \in MetricsTable
BY DEF NoMetrics, MetricsTable

LEMMA InitType == Init => TypeInv
BY StreamingAssumption, NoMetricsType
   DEF Init, TypeInv, TypeOK, NoTransaction, Steps

LEMMA NextType == TypeInv /\ [Next]_vars => TypeInv'
<1> SUFFICES ASSUME TypeInv, [Next]_vars PROVE TypeInv'
  OBVIOUS
<1> USE NoMetricsType DEF TypeInv, TypeOK, Steps, batch_id
<1>1. ASSUME NEW f \in Files, Publish(f) PROVE TypeInv'
  BY <1>1 DEF Publish, job, tables
<1>2. CASE Restart
  BY <1>2 DEF Restart, source, tables
<1>3. CASE Crash
  BY <1>3, StreamingAssumption DEF Crash, GoDown, NoTransaction, source, tables
<1>4. CASE PlanBatch
  BY <1>4 DEF PlanBatch, tables
<1>5. CASE ReplayBatch
  BY <1>5 DEF ReplayBatch, source, tables
<1>6. CASE IdleTrigger
  BY <1>6 DEF IdleTrigger, vars, source, job, tables
<1>7. CASE AcknowledgeBatch
  BY <1>7 DEF AcknowledgeBatch, tables
<1>8. CASE EvaluateRaises
  BY <1>8 DEF EvaluateRaises, GoDown, NoTransaction, source, tables
<1>9. CASE NothingValid
  BY <1>9 DEF NothingValid, source, tables
<1>10. CASE OverwriteStaging
  BY <1>10 DEF OverwriteStaging, WithEmptyTable, source, valid,
               BatchRows, RowsIn
<1>11. CASE WriteStagingPartition
  BY <1>11 DEF WriteStagingPartition, source
<1>12. CASE InsertEvents
  <2>1. staging[batch_id] \subseteq Rows
    BY <1>12 DEF InsertEvents
  <2>2. inserted_rows' \subseteq Rows /\ tx'.rows = inserted_rows'
    BY <1>12, <2>1 DEF InsertEvents, Insertable
  <2> QED
    BY <1>12, <2>2 DEF InsertEvents, source, tables
<1>13. CASE WriteMetrics
  BY <1>13, AggregateType DEF WriteMetrics, source, tables
<1>14. CASE WriteMetricsRaises
  BY <1>14 DEF WriteMetricsRaises, GoDown, NoTransaction, source, tables
<1>15. CASE CommitTransaction
  <2>1. event_metrics' \in MetricsTable
    <3>1. tx.metrics \in MetricsTable
      OBVIOUS
    <3> QED
      BY <1>15, <3>1, AccumulateType DEF CommitTransaction
  <2>2. /\ staging' \in [DOMAIN staging' -> SUBSET Rows]
        /\ DOMAIN staging' \subseteq Nat
    BY <1>15 DEF CommitTransaction
  <2>3. /\ events' \subseteq Rows
        /\ todo' \subseteq Rows
        /\ tx' \in [rows : SUBSET Rows, drop : BOOLEAN, metrics : MetricsTable]
    BY <1>15 DEF CommitTransaction, NoTransaction, invalid, BatchRows, RowsIn
  <2> QED
    BY <1>15, <2>1, <2>2, <2>3 DEF CommitTransaction, source
<1>16. CASE AppendQuarantinePartition
  BY <1>16 DEF AppendQuarantinePartition, source
<1>17. CASE UNCHANGED vars
  BY <1>17 DEF vars, source, job, tables
<1> QED
  BY <1>1, <1>2, <1>3, <1>4, <1>5, <1>6, <1>7, <1>8, <1>9, <1>10, <1>11,
     <1>12, <1>13, <1>14, <1>15, <1>16, <1>17
     DEF Next, Trigger, ProcessBatch

(***************************************************************************)
(* Every variable of the job, the checkpoint and the tables keeps its type *)
(* through every step, crashes included.                                   *)
(***************************************************************************)
THEOREM TypeCorrect == Spec => []TypeOK
<1>1. TypeInv => TypeOK
  BY DEF TypeInv
<1> QED
  BY <1>1, InitType, NextType, PTL DEF Spec
-----------------------------------------------------------------------------
(* The checkpoint *)

LEMMA SameBatch ==
    ASSUME planned' = planned, committed' = committed
    PROVE  /\ batch_id' = batch_id
           /\ valid' = valid
           /\ invalid' = invalid
           /\ BatchRows' = BatchRows
           /\ SeenFiles' = SeenFiles
           /\ DoneFiles' = DoneFiles
BY DEF batch_id, valid, invalid, BatchRows, RowsIn, SeenFiles, DoneFiles

LEMMA NextCheckpoint ==
    ASSUME TypeInv, CheckpointInv, [Next]_vars
    PROVE  CheckpointInv'
<1> USE DEF TypeInv, TypeOK, CheckpointInv, Steps
<1>1. CASE PlanBatch
  <2>1. PICK F \in SUBSET (published \ SeenFiles) :
           planned' = Append(planned, F)
    BY <1>1 DEF PlanBatch
  <2>2. \A i \in 1 .. Len(planned) : planned[i] \intersect F = {}
    BY <2>1 DEF SeenFiles
  <2>3. /\ Len(planned') = Len(planned) + 1
        /\ planned'[Len(planned) + 1] = F
        /\ \A i \in 1 .. Len(planned) : planned'[i] = planned[i]
    BY <2>1
  <2> QED
    BY <1>1, <2>2, <2>3 DEF PlanBatch
<1>2. CASE AcknowledgeBatch
  BY <1>2 DEF AcknowledgeBatch
<1>3. CASE ReplayBatch
  BY <1>3 DEF ReplayBatch, source
<1>4. ASSUME planned' = planned, committed' = committed,
             pc' \in Steps => pc \in Steps
      PROVE  CheckpointInv'
  BY <1>4
<1>5. ASSUME NEW f \in Files, Publish(f) PROVE CheckpointInv'
  BY <1>4, <1>5 DEF Publish, job
<1>6. CASE Restart \/ Crash
  BY <1>4, <1>6 DEF Restart, Crash, GoDown, source
<1>7. CASE EvaluateRaises \/ NothingValid \/ OverwriteStaging
  BY <1>4, <1>7 DEF EvaluateRaises, NothingValid, OverwriteStaging, GoDown,
                    source
<1>8. CASE WriteStagingPartition \/ InsertEvents \/ WriteMetrics
  BY <1>4, <1>8 DEF WriteStagingPartition, InsertEvents, WriteMetrics, source
<1>9. CASE \/ WriteMetricsRaises \/ CommitTransaction
           \/ AppendQuarantinePartition
  BY <1>4, <1>9 DEF WriteMetricsRaises, CommitTransaction,
                    AppendQuarantinePartition, GoDown, source
<1>10. CASE IdleTrigger \/ UNCHANGED vars
  BY <1>4, <1>10 DEF IdleTrigger, vars, source, job
<1> QED
  BY <1>1, <1>2, <1>3, <1>5, <1>6, <1>7, <1>8, <1>9, <1>10
     DEF Next, Trigger, ProcessBatch

-----------------------------------------------------------------------------
(* The steps that change the checkpoint *)

LEMMA PlanStep ==
    ASSUME TypeInv, PlanBatch
    PROVE  /\ batch_id' = batch_id
           /\ DoneFiles' = DoneFiles
           /\ SeenFiles \subseteq SeenFiles'
<1> USE DEF TypeInv, TypeOK
<1>1. /\ Len(planned') = Len(planned) + 1
      /\ \A i \in 1 .. Len(planned) : planned'[i] = planned[i]
      /\ committed' = committed
  BY DEF PlanBatch
<1> QED
  BY <1>1 DEF batch_id, DoneFiles, SeenFiles

LEMMA AcknowledgeStep ==
    ASSUME TypeInv, AcknowledgeBatch
    PROVE  /\ planned' = planned
           /\ SeenFiles' = SeenFiles
           /\ DoneFiles' = DoneFiles \union planned[batch_id]
           /\ batch_id \in 1 .. Len(planned)
<1> USE DEF TypeInv, TypeOK
<1>1. planned' = planned /\ committed' = committed + 1
  BY DEF AcknowledgeBatch
<1>2. batch_id \in 1 .. Len(planned)
  BY DEF AcknowledgeBatch, batch_id, Steps
<1> QED
  BY <1>1, <1>2 DEF SeenFiles, DoneFiles, batch_id

-----------------------------------------------------------------------------
(* The transaction *)

LEMMA NextTransaction ==
    ASSUME IInv, TypeInv, [Next]_vars
    PROVE  TransactionInv'
<1> USE DEF IInv, TransactionInv
<1>1. CASE PlanBatch
  BY <1>1 DEF PlanBatch
<1>2. CASE AcknowledgeBatch
  BY <1>2 DEF AcknowledgeBatch
<1>3. CASE EvaluateRaises \/ WriteMetricsRaises \/ Crash
  BY <1>3 DEF EvaluateRaises, WriteMetricsRaises, Crash, GoDown
<1>4. CASE NothingValid
  <2>1. valid' = valid /\ events' = events
    BY <1>4, SameBatch DEF NothingValid, source, tables
  <2>2. inserted_rows' = {} /\ tx' = NoTransaction /\ pc' = "metrics" /\ valid = {}
    BY <1>4 DEF NothingValid
  <2> QED
    BY <2>1, <2>2 DEF NoTransaction, DistinctIds, ids
<1>5. CASE OverwriteStaging \/ WriteStagingPartition
  BY <1>5 DEF OverwriteStaging, WriteStagingPartition
<1>6. CASE InsertEvents
  <2>1. staging[batch_id] = valid /\ valid # {}
    BY <1>6 DEF InsertEvents, WriterInv
  <2>2. PICK S \in Insertable(valid) :
           /\ inserted_rows' = S
           /\ tx' = [tx EXCEPT !.rows = S, !.drop = TRUE]
    BY <1>6, <2>1 DEF InsertEvents
  <2>3. valid' = valid /\ events' = events /\ pc' = "metrics" /\ pc = "stage"
    BY <1>6, SameBatch DEF InsertEvents, source, tables
  <2>4. tx = NoTransaction
    BY <2>3
  <2>5. tx'.rows = S /\ tx'.drop /\ tx'.metrics = NoMetrics
    BY <2>2, <2>4 DEF NoTransaction
  <2>6. /\ S \subseteq valid
        /\ DistinctIds(S)
        /\ ids(S) \intersect ids(events) = {}
        /\ ids(valid) \subseteq ids(events) \union ids(S)
    BY <2>2 DEF Insertable, ids
  <2> QED
    BY <2>1, <2>2, <2>3, <2>5, <2>6
<1>7. CASE WriteMetrics
  <2>1. /\ valid' = valid /\ events' = events /\ inserted_rows' = inserted_rows
        /\ pc = "metrics" /\ pc' = "commit"
        /\ tx' = [tx EXCEPT !.metrics = aggregate_by_window(inserted_rows)]
    BY <1>7, SameBatch DEF WriteMetrics, source, tables
  <2>2. /\ tx'.rows = tx.rows /\ tx'.drop = tx.drop
        /\ tx'.metrics = aggregate_by_window(inserted_rows)
    BY <2>1 DEF TypeInv, TypeOK
  <2> QED
    BY <2>1, <2>2
<1>8. CASE CommitTransaction \/ AppendQuarantinePartition
  BY <1>8 DEF CommitTransaction, AppendQuarantinePartition
<1>9. CASE Restart \/ ReplayBatch
  BY <1>9 DEF Restart, ReplayBatch
<1>10. ASSUME UNCHANGED <<planned, committed, job, tables>>
       PROVE  TransactionInv'
  BY <1>10, SameBatch DEF job, tables
<1>11. ASSUME NEW f \in Files, Publish(f) PROVE TransactionInv'
  BY <1>10, <1>11 DEF Publish
<1>12. CASE IdleTrigger \/ UNCHANGED vars
  BY <1>10, <1>12 DEF IdleTrigger, vars, source
<1> QED
  BY <1>1, <1>2, <1>3, <1>4, <1>5, <1>6, <1>7, <1>8, <1>9, <1>11, <1>12
     DEF Next, Trigger, ProcessBatch

-----------------------------------------------------------------------------
(* The JDBC writers and their staging table *)

LEMMA NextWriter ==
    ASSUME IInv, TypeInv, [Next]_vars
    PROVE  WriterInv'
<1> USE DEF IInv, WriterInv
<1>1. CASE OverwriteStaging
  <2>1. /\ valid' = valid /\ batch_id' = batch_id /\ valid # {}
        /\ staging' = WithEmptyTable(batch_id) /\ todo' = valid /\ pc' = "stage"
    BY <1>1, SameBatch DEF OverwriteStaging, source
  <2>2. batch_id \in DOMAIN staging' /\ staging'[batch_id] = {}
    BY <2>1 DEF WithEmptyTable
  <2> QED
    BY <2>1, <2>2
<1>2. CASE WriteStagingPartition
  <2>1. PICK part \in SUBSET todo :
           /\ staging' = [staging EXCEPT ![batch_id] = @ \union part]
           /\ todo' = todo \ part
    BY <1>2 DEF WriteStagingPartition
  <2>2. /\ valid' = valid /\ batch_id' = batch_id /\ pc' = pc /\ pc = "stage"
    BY <1>2, SameBatch DEF WriteStagingPartition, source
  <2>3. /\ batch_id \in DOMAIN staging'
        /\ staging'[batch_id] = staging[batch_id] \union part
    BY <2>1, <2>2 DEF TypeInv, TypeOK
  <2> QED
    BY <2>1, <2>2, <2>3
<1>3. CASE CommitTransaction
  <2>1. /\ valid' = valid /\ invalid' = invalid /\ pc' = "quarantine"
        /\ events' = events \union tx.rows /\ todo' = invalid
    BY <1>3, SameBatch DEF CommitTransaction, source
  <2>2. ids(valid) \subseteq ids(events) \union ids(tx.rows)
    BY <1>3 DEF CommitTransaction, TransactionInv
  <2>3. ids(events) \union ids(tx.rows) = ids(events \union tx.rows)
    BY DEF ids
  <2> QED
    BY <2>1, <2>2, <2>3
<1>4. CASE AppendQuarantinePartition
  <2>1. PICK part \in SUBSET todo :
           /\ quarantine' = [r \in Rows |-> IF r \in part
                               THEN quarantine[r] + 1 ELSE quarantine[r]]
           /\ todo' = todo \ part
    BY <1>4 DEF AppendQuarantinePartition
  <2>2. /\ valid' = valid /\ invalid' = invalid /\ events' = events
        /\ pc = "quarantine" /\ pc' = "quarantine"
    BY <1>4, SameBatch DEF AppendQuarantinePartition, source
  <2>3. ASSUME NEW r \in invalid \ todo'
        PROVE  quarantine'[r] > 0
    <3>1. r \in Rows /\ quarantine[r] \in Nat
      BY DEF invalid, BatchRows, RowsIn, TypeInv, TypeOK
    <3>2. CASE r \in part
      BY <2>1, <3>1, <3>2
    <3>3. CASE r \notin part
      BY <2>1, <2>2, <2>3, <3>1, <3>3
    <3> QED
      BY <3>2, <3>3
  <2> QED
    BY <2>1, <2>2, <2>3
<1>5. CASE PlanBatch \/ ReplayBatch \/ AcknowledgeBatch \/ Restart
  BY <1>5 DEF PlanBatch, ReplayBatch, AcknowledgeBatch, Restart
<1>6. CASE EvaluateRaises \/ WriteMetricsRaises \/ Crash
  BY <1>6 DEF EvaluateRaises, WriteMetricsRaises, Crash, GoDown
<1>7. CASE NothingValid \/ InsertEvents \/ WriteMetrics
  BY <1>7 DEF NothingValid, InsertEvents, WriteMetrics
<1>8. ASSUME UNCHANGED <<planned, committed, job, tables>>
      PROVE  WriterInv'
  BY <1>8, SameBatch DEF job, tables
<1>9. ASSUME NEW f \in Files, Publish(f) PROVE WriterInv'
  BY <1>8, <1>9 DEF Publish
<1>10. CASE IdleTrigger \/ UNCHANGED vars
  BY <1>8, <1>10 DEF IdleTrigger, vars, source
<1> QED
  BY <1>1, <1>2, <1>3, <1>4, <1>5, <1>6, <1>7, <1>9, <1>10
     DEF Next, Trigger, ProcessBatch

LEMMA NextStaging ==
    ASSUME IInv, TypeInv, [Next]_vars
    PROVE  StagingInv'
<1> USE DEF IInv, StagingInv
<1>1. CASE PlanBatch
  BY <1>1, PlanStep DEF PlanBatch, tables
<1>2. CASE AcknowledgeBatch
  BY <1>2 DEF AcknowledgeBatch, tables
<1>3. CASE OverwriteStaging
  <2>1. /\ valid' = valid /\ batch_id' = batch_id /\ valid # {}
        /\ committed' = committed /\ planned' = planned
        /\ staging' = WithEmptyTable(batch_id) /\ pc' = "stage"
        /\ committed < Len(planned)
    BY <1>3, SameBatch DEF OverwriteStaging, source, CheckpointInv, Steps
  <2>2. DOMAIN staging' \subseteq {batch_id}
    BY <2>1 DEF WithEmptyTable
  <2> QED
    BY <2>1, <2>2
<1>4. CASE WriteStagingPartition
  <2>1. DOMAIN staging' = DOMAIN staging
    BY <1>4 DEF WriteStagingPartition
  <2>2. /\ valid' = valid /\ batch_id' = batch_id /\ pc' = "stage"
        /\ committed' = committed /\ planned' = planned
    BY <1>4, SameBatch DEF WriteStagingPartition, source
  <2> QED
    BY <2>1, <2>2
<1>5. CASE CommitTransaction
  <2>1. DOMAIN staging' = {}
    <3>1. CASE tx.drop
      BY <1>5, <3>1 DEF CommitTransaction
    <3>2. CASE ~tx.drop
      <4>1. valid = {}
        BY <1>5, <3>2 DEF CommitTransaction, TransactionInv
      <4>2. staging' = staging
        BY <1>5, <3>2 DEF CommitTransaction
      <4> QED
        BY <4>1, <4>2
    <3> QED
      BY <3>1, <3>2
  <2> QED
    BY <2>1
<1>6. ASSUME UNCHANGED <<planned, committed, staging>>,
             pc' = "quarantine" => pc = "quarantine"
      PROVE  StagingInv'
  BY <1>6, SameBatch
<1>7. ASSUME NEW f \in Files, Publish(f) PROVE StagingInv'
  BY <1>6, <1>7 DEF Publish, job, tables
<1>8. CASE Restart \/ ReplayBatch \/ IdleTrigger
  BY <1>6, <1>8 DEF Restart, ReplayBatch, IdleTrigger, vars, source, job, tables
<1>9. CASE EvaluateRaises \/ WriteMetricsRaises \/ Crash
  BY <1>6, <1>9 DEF EvaluateRaises, WriteMetricsRaises, Crash, GoDown, source,
                    tables
<1>10. CASE NothingValid \/ InsertEvents \/ WriteMetrics
  BY <1>6, <1>10 DEF NothingValid, InsertEvents, WriteMetrics, source, tables
<1>11. CASE AppendQuarantinePartition \/ UNCHANGED vars
  BY <1>6, <1>11 DEF AppendQuarantinePartition, vars, source, job, tables
<1> QED
  BY <1>1, <1>2, <1>3, <1>4, <1>5, <1>7, <1>8, <1>9, <1>10, <1>11
     DEF Next, Trigger, ProcessBatch

-----------------------------------------------------------------------------
(* The commit: the one step that changes events and event_metrics *)

\* Every other step leaves the two tables alone.
LEMMA OnlyCommitWrites ==
    ASSUME [Next]_vars, ~CommitTransaction
    PROVE  events' = events /\ event_metrics' = event_metrics
<1>1. ASSUME NEW f \in Files, Publish(f)
      PROVE  events' = events /\ event_metrics' = event_metrics
  BY <1>1 DEF Publish, tables
<1>2. CASE Restart \/ Crash \/ PlanBatch \/ ReplayBatch \/ AcknowledgeBatch
  BY <1>2 DEF Restart, Crash, PlanBatch, ReplayBatch, AcknowledgeBatch, tables
<1>3. CASE IdleTrigger \/ UNCHANGED vars
  BY <1>3 DEF IdleTrigger, vars, tables
<1>4. CASE \/ EvaluateRaises \/ NothingValid \/ OverwriteStaging
           \/ WriteStagingPartition \/ InsertEvents
  BY <1>4 DEF EvaluateRaises, NothingValid, OverwriteStaging,
              WriteStagingPartition, InsertEvents, tables
<1>5. CASE WriteMetrics \/ WriteMetricsRaises \/ AppendQuarantinePartition
  BY <1>5 DEF WriteMetrics, WriteMetricsRaises, AppendQuarantinePartition,
              tables
<1> QED
  BY <1>1, <1>2, <1>3, <1>4, <1>5 DEF Next, Trigger, ProcessBatch

\* What the commit adds is new, and adds up.
LEMMA CommitStep ==
    ASSUME IInv, TypeInv, CommitTransaction
    PROVE  /\ events' = events \union inserted_rows
           /\ inserted_rows \subseteq valid
           /\ inserted_rows \intersect events = {}
           /\ ids(inserted_rows) \intersect ids(events) = {}
           /\ DistinctIds(events \union inserted_rows)
           /\ event_metrics' = aggregate_by_window(events \union inserted_rows)
<1>1. /\ events' = events \union tx.rows
      /\ event_metrics' = Accumulate(event_metrics, tx.metrics)
      /\ pc = "commit"
  BY DEF CommitTransaction
<1>2. /\ tx.rows = inserted_rows
      /\ tx.metrics = aggregate_by_window(inserted_rows)
      /\ inserted_rows \subseteq valid
      /\ DistinctIds(inserted_rows)
      /\ ids(inserted_rows) \intersect ids(events) = {}
  BY <1>1 DEF IInv, TransactionInv
<1>3. inserted_rows \intersect events = {}
  BY <1>2 DEF ids
<1>4. DistinctIds(events \union inserted_rows)
  BY <1>2 DEF IInv, EachIdStoredOnce, DistinctIds, ids
<1>5. event_metrics' = aggregate_by_window(events \union inserted_rows)
  <2>1. events \in SUBSET Rows /\ inserted_rows \in SUBSET Rows
    BY DEF TypeInv, TypeOK
  <2>2. event_metrics = aggregate_by_window(events)
    BY DEF IInv, MetricsMatchEvents
  <2>3. \A b \in Buckets :
           aggregate_by_window(events \union inserted_rows)[b]
             = Accumulate(event_metrics, tx.metrics)[b]
    BY <1>2, <1>3, <2>1, <2>2, AggregateAdditive DEF Accumulate
  <2> QED
    BY <1>1, <2>3 DEF Accumulate, aggregate_by_window
<1> QED
  BY <1>1, <1>2, <1>3, <1>4, <1>5

LEMMA NextLedger ==
    ASSUME IInv, TypeInv, [Next]_vars
    PROVE  EachIdStoredOnce' /\ MetricsMatchEvents'
<1>1. SeenFiles \subseteq SeenFiles'
  <2>1. CASE PlanBatch
    BY <2>1, PlanStep
  <2>2. CASE ~PlanBatch
    <3>1. planned' = planned
      BY <2>2 DEF Next, Trigger, ProcessBatch, Publish, Restart, Crash,
                  ReplayBatch, IdleTrigger, AcknowledgeBatch, EvaluateRaises,
                  NothingValid, OverwriteStaging, WriteStagingPartition,
                  InsertEvents, WriteMetrics, WriteMetricsRaises,
                  CommitTransaction, AppendQuarantinePartition, source, vars
    <3> QED
      BY <3>1 DEF SeenFiles
  <2> QED
    BY <2>1, <2>2
<1>2. RowsIn(SeenFiles) \subseteq RowsIn(SeenFiles')
  BY <1>1 DEF RowsIn
<1>3. CASE CommitTransaction
  <2>1. valid \subseteq Valid \intersect RowsIn(SeenFiles)
    <3>1. batch_id \in 1 .. Len(planned)
      BY <1>3 DEF CommitTransaction, IInv, CheckpointInv, Steps, batch_id,
                  TypeInv, TypeOK
    <3> QED
      BY <3>1 DEF valid, BatchRows, RowsIn, SeenFiles
  <2>2. events' \subseteq Valid \intersect RowsIn(SeenFiles')
    BY <1>2, <1>3, <2>1, CommitStep DEF IInv, EachIdStoredOnce
  <2> QED
    BY <1>3, <2>2, CommitStep DEF EachIdStoredOnce, MetricsMatchEvents
<1>4. CASE ~CommitTransaction
  BY <1>2, <1>4, OnlyCommitWrites DEF IInv, EachIdStoredOnce, MetricsMatchEvents
<1> QED
  BY <1>3, <1>4

-----------------------------------------------------------------------------
(* The acknowledgement *)

LEMMA TablesGrow ==
    ASSUME IInv, TypeInv, [Next]_vars
    PROVE  /\ events \subseteq events'
           /\ \A r \in Rows : quarantine[r] > 0 => quarantine'[r] > 0
<1>1. events \subseteq events'
  BY OnlyCommitWrites DEF CommitTransaction
<1>2. CASE AppendQuarantinePartition
  <2>1. PICK part : quarantine' = [r \in Rows |-> IF r \in part
                       THEN quarantine[r] + 1 ELSE quarantine[r]]
    BY <1>2 DEF AppendQuarantinePartition
  <2>2. \A r \in Rows : quarantine[r] \in Nat
    BY DEF TypeInv, TypeOK
  <2> QED
    BY <1>1, <2>1, <2>2
<1>3. CASE ~AppendQuarantinePartition
  <2>1. quarantine' = quarantine
    BY <1>3 DEF Next, Trigger, ProcessBatch, Publish, Restart, Crash, PlanBatch,
                ReplayBatch, IdleTrigger, AcknowledgeBatch, EvaluateRaises,
                NothingValid, OverwriteStaging, WriteStagingPartition,
                InsertEvents, WriteMetrics, WriteMetricsRaises,
                CommitTransaction, tables, vars
  <2> QED
    BY <1>1, <2>1
<1> QED
  BY <1>2, <1>3

LEMMA NextAcknowledged ==
    ASSUME IInv, TypeInv, [Next]_vars
    PROVE  AcknowledgedBatchesLanded'
<1> DEFINE Landed(F) ==
        /\ ids(RowsIn(F) \intersect Valid) \subseteq ids(events')
        /\ \A r \in RowsIn(F) \intersect Invalid : quarantine'[r] > 0
<1>1. Landed(DoneFiles)
  <2>1. ids(events) \subseteq ids(events')
    BY TablesGrow DEF ids
  <2> QED
    BY <2>1, TablesGrow DEF IInv, AcknowledgedBatchesLanded, RowsIn
<1>2. CASE AcknowledgeBatch
  <2>1. events' = events /\ quarantine' = quarantine
    BY <1>2 DEF AcknowledgeBatch, tables
  <2>2. Landed(planned[batch_id])
    BY <1>2, <2>1 DEF AcknowledgeBatch, IInv, WriterInv, valid, invalid,
                      BatchRows
  <2>3. RowsIn(DoneFiles \union planned[batch_id])
          = RowsIn(DoneFiles) \union RowsIn(planned[batch_id])
    BY DEF RowsIn
  <2>4. Landed(DoneFiles \union planned[batch_id])
    BY <1>1, <2>2, <2>3 DEF ids
  <2> QED
    BY <1>2, <2>4, AcknowledgeStep DEF AcknowledgedBatchesLanded
<1>3. CASE ~AcknowledgeBatch
  <2>1. DoneFiles' = DoneFiles
    <3>1. CASE PlanBatch
      BY <3>1, PlanStep
    <3>2. CASE ~PlanBatch
      <4>1. planned' = planned /\ committed' = committed
        BY <1>3, <3>2
           DEF Next, Trigger, ProcessBatch, Publish, Restart, Crash,
               ReplayBatch, IdleTrigger, EvaluateRaises, NothingValid,
               OverwriteStaging, WriteStagingPartition, InsertEvents,
               WriteMetrics, WriteMetricsRaises, CommitTransaction,
               AppendQuarantinePartition, source, vars
      <4> QED
        BY <4>1, SameBatch
    <3> QED
      BY <3>1, <3>2
  <2> QED
    BY <1>1, <2>1 DEF AcknowledgedBatchesLanded
<1> QED
  BY <1>2, <1>3

-----------------------------------------------------------------------------
(* The copies in quarantine *)

LEMMA NextQuarantine ==
    ASSUME IInv, TypeInv, [Next]_vars
    PROVE  QuarantineInv'
<1> USE DEF IInv, QuarantineInv, TypeInv, TypeOK
<1>1. ASSUME UNCHANGED <<quarantine, planned, committed, crashes>>,
             pc = "quarantine" => pc' = "quarantine" /\ todo' = todo
      PROVE  QuarantineInv'
  BY <1>1, SameBatch
<1>2. CASE PlanBatch
  <2>1. PICK F \in SUBSET (published \ SeenFiles) :
           planned' = Append(planned, F)
    BY <1>2 DEF PlanBatch
  <2>2. /\ committed' = committed /\ committed = Len(planned)
        /\ UNCHANGED <<quarantine, crashes>>
    BY <1>2 DEF PlanBatch, tables
  <2>3. BatchRows' = RowsIn(F)
    BY <2>1, <2>2 DEF BatchRows, batch_id, RowsIn
  <2>4. \A r \in RowsIn(F) : quarantine[r] = 0
    BY DEF RowsIn
  <2>5. SeenFiles \subseteq SeenFiles'
    BY <1>2, PlanStep
  <2> QED
    BY <2>2, <2>3, <2>4, <2>5 DEF RowsIn
<1>3. CASE AcknowledgeBatch
  <2>1. ~(committed' < Len(planned'))
    BY <1>3 DEF AcknowledgeBatch, CheckpointInv
  <2>2. UNCHANGED <<quarantine, crashes>> /\ SeenFiles' = SeenFiles
    BY <1>3, AcknowledgeStep DEF AcknowledgeBatch, tables
  <2>3. /\ \A r \in Valid : quarantine'[r] = 0
        /\ \A r \in Rows : quarantine'[r] > 0 => FileOf[r] \in SeenFiles'
        /\ \A r \in Rows : quarantine'[r] <= crashes' + 1
    BY <2>2
  <2> HIDE DEF IInv, TypeInv, TypeOK, QuarantineInv
  <2> QED
    BY <2>1, <2>3 DEF QuarantineInv
<1>4. CASE Crash
  <2>1. /\ crashes' = crashes + 1 /\ quarantine' = quarantine
        /\ SeenFiles' = SeenFiles /\ BatchRows' = BatchRows
    BY <1>4, SameBatch DEF Crash, source, tables
  <2>2. \A r \in BatchRows : r \in Rows
    BY DEF BatchRows, RowsIn
  <2> QED
    BY <2>1, <2>2
<1>5. CASE AppendQuarantinePartition
  <2>1. PICK part \in SUBSET todo :
           /\ quarantine' = [r \in Rows |-> IF r \in part
                               THEN quarantine[r] + 1 ELSE quarantine[r]]
           /\ todo' = todo \ part
    BY <1>5 DEF AppendQuarantinePartition
  <2>2. /\ UNCHANGED <<planned, committed, crashes, pc>>
        /\ pc = "quarantine"
        /\ SeenFiles' = SeenFiles /\ BatchRows' = BatchRows
    BY <1>5, SameBatch DEF AppendQuarantinePartition, source
  <2>3. todo \subseteq BatchRows \intersect Invalid
    BY <2>2 DEF WriterInv, invalid
  <2>4. batch_id \in 1 .. Len(planned) /\ committed < Len(planned)
    BY <2>2 DEF CheckpointInv, Steps, batch_id
  <2>5. \A r \in part : FileOf[r] \in SeenFiles
    BY <2>3, <2>4 DEF BatchRows, RowsIn, SeenFiles
  <2>6. \A r \in part : quarantine[r] <= crashes /\ r \notin Valid
    BY <2>2, <2>3, <2>4 DEF Invalid
  <2>7. ASSUME NEW r \in Rows
        PROVE  /\ r \in Valid => quarantine'[r] = 0
               /\ quarantine'[r] > 0 => FileOf[r] \in SeenFiles
               /\ quarantine'[r] <= crashes + 1
               /\ r \in BatchRows /\ r \in todo' => quarantine'[r] <= crashes
    <3>1. CASE r \in part
      BY <2>1, <2>5, <2>6, <3>1
    <3>2. CASE r \notin part
      <4>1. quarantine'[r] = quarantine[r] /\ (r \in todo' => r \in todo)
        BY <2>1, <3>2
      <4> QED
        BY <2>4, <4>1
    <3> QED
      BY <3>1, <3>2
  <2>8. Valid \subseteq Rows /\ BatchRows \subseteq Rows
    BY DEF BatchRows, RowsIn, Valid
  <2> HIDE DEF IInv, TypeInv, TypeOK, QuarantineInv
  <2>9. \A r \in Valid : quarantine'[r] = 0
    BY <2>7, <2>8
  <2>10. \A r \in Rows : quarantine'[r] > 0 => FileOf[r] \in SeenFiles'
    BY <2>2, <2>7
  <2>11. \A r \in Rows : quarantine'[r] <= crashes' + 1
    BY <2>2, <2>7
  <2>12. \A r \in BatchRows' : r \in todo' => quarantine'[r] <= crashes'
    BY <2>2, <2>7, <2>8
  <2>13. pc' = "quarantine"
    BY <2>2
  <2> QED
    BY <2>9, <2>10, <2>11, <2>12, <2>13 DEF QuarantineInv
<1>6. ASSUME NEW f \in Files, Publish(f) PROVE QuarantineInv'
  BY <1>1, <1>6 DEF Publish, job, tables
<1>7. CASE Restart \/ ReplayBatch \/ IdleTrigger \/ UNCHANGED vars
  BY <1>1, <1>7 DEF Restart, ReplayBatch, IdleTrigger, vars, source, job, tables
<1>8. CASE EvaluateRaises \/ NothingValid \/ OverwriteStaging
  BY <1>1, <1>8 DEF EvaluateRaises, NothingValid, OverwriteStaging, GoDown,
                    source, tables
<1>9. CASE WriteStagingPartition \/ InsertEvents
  BY <1>1, <1>9 DEF WriteStagingPartition, InsertEvents, source, tables
<1>10. CASE WriteMetrics \/ WriteMetricsRaises \/ CommitTransaction
  BY <1>1, <1>10 DEF WriteMetrics, WriteMetricsRaises, CommitTransaction,
                     GoDown, source, tables
<1> QED
  BY <1>2, <1>3, <1>4, <1>5, <1>6, <1>7, <1>8, <1>9, <1>10
     DEF Next, Trigger, ProcessBatch

-----------------------------------------------------------------------------
(* The inductive invariant and the safety theorems *)

LEMMA InitInv == Init => IInv
<1> SUFFICES ASSUME Init PROVE IInv
  OBVIOUS
<1>1. TypeOK
  BY InitType DEF TypeInv
<1>2. CheckpointInv /\ TransactionInv /\ WriterInv /\ StagingInv
  BY DEF Init, CheckpointInv, TransactionInv, WriterInv, StagingInv, Steps
<1>3. EachIdStoredOnce /\ MetricsMatchEvents
  BY AggregateEmpty DEF Init, EachIdStoredOnce, DistinctIds, MetricsMatchEvents
<1>4. AcknowledgedBatchesLanded
  <2>1. DoneFiles = {}
    BY DEF Init, DoneFiles
  <2> QED
    BY <2>1 DEF AcknowledgedBatchesLanded, RowsIn, ids
<1>5. QuarantineInv
  BY DEF Init, QuarantineInv, BatchRows, RowsIn, Valid
<1> QED
  BY <1>1, <1>2, <1>3, <1>4, <1>5 DEF IInv

LEMMA NextInv == IInv /\ [Next]_vars => IInv'
<1> SUFFICES ASSUME IInv, [Next]_vars PROVE IInv'
  OBVIOUS
<1>1. TypeInv
  BY DEF IInv, TypeInv, CheckpointInv, WriterInv
<1>2. TypeOK'
  BY <1>1, NextType DEF TypeInv
<1>3. CheckpointInv'
  BY <1>1, NextCheckpoint DEF IInv
<1> QED
  BY <1>1, <1>2, <1>3, NextTransaction, NextWriter, NextStaging, NextLedger,
     NextQuarantine, NextAcknowledged DEF IInv

(***************************************************************************)
(* The conjunction above holds throughout every behaviour of the job.      *)
(***************************************************************************)
THEOREM Invariance == Spec => []IInv
BY InitInv, NextInv, PTL DEF Spec

(***************************************************************************)
(* event_metrics is at every moment the aggregate of the rows in events:   *)
(* the transaction of process_batch closes the gap its docstring tells of. *)
(***************************************************************************)
THEOREM MetricsAreExact == Spec => []MetricsMatchEvents
<1>1. IInv => MetricsMatchEvents
  BY DEF IInv
<1> QED
  BY <1>1, Invariance, PTL

(***************************************************************************)
(* No event_id is stored twice, whatever is replayed and however often an  *)
(* id occurs in the files, and nothing but valid rows of batches is.       *)
(***************************************************************************)
THEOREM IdsAreStoredOnce == Spec => []EachIdStoredOnce
<1>1. IInv => EachIdStoredOnce
  BY DEF IInv
<1> QED
  BY <1>1, Invariance, PTL

(***************************************************************************)
(* A batch Spark has acknowledged has lost nothing: its valid ids are in   *)
(* events and its other rows in events_quarantine.                         *)
(***************************************************************************)
THEOREM NothingAcknowledgedIsLost == Spec => []AcknowledgedBatchesLanded
<1>1. IInv => AcknowledgedBatchesLanded
  BY DEF IInv
<1> QED
  BY <1>1, Invariance, PTL

(***************************************************************************)
(* A staging table never outlives its batch.                               *)
(***************************************************************************)
THEOREM StagingIsDisposable == Spec => []StagingTablesAreDisposed
<1>1. IInv => StagingTablesAreDisposed
  BY DEF IInv, StagingInv, StagingTablesAreDisposed
<1> QED
  BY <1>1, Invariance, PTL

(***************************************************************************)
(* A row is in quarantine more than once only after a crash, at most once  *)
(* more for each, and a valid row never is.                                *)
(***************************************************************************)
THEOREM DuplicatesTakeACrash == Spec => []QuarantineCopiesAreReplays
<1>1. IInv => QuarantineCopiesAreReplays
  BY DEF IInv, QuarantineInv, QuarantineCopiesAreReplays, TypeOK
<1> QED
  BY <1>1, Invariance, PTL

(***************************************************************************)
(* Running a batch whose valid ids are all stored changes neither table:   *)
(* the replay after a commit that was not acknowledged is harmless.        *)
(***************************************************************************)
THEOREM ReplayIsIdempotent == Spec => ReplayAddsNothing
<1>1. ASSUME IInv, [Next]_vars, pc \in Steps, ids(valid) \subseteq ids(events)
      PROVE  UNCHANGED <<events, event_metrics>>
  <2>1. TypeInv
    BY <1>1 DEF IInv, TypeInv, CheckpointInv, WriterInv
  <2>2. CASE CommitTransaction
    <3>1. inserted_rows = {}
      BY <1>1, <2>1, <2>2, CommitStep DEF ids
    <3>2. event_metrics' = aggregate_by_window(events)
      BY <1>1, <2>1, <2>2, <3>1, CommitStep
    <3> QED
      BY <1>1, <2>1, <2>2, <3>1, <3>2, CommitStep DEF IInv, MetricsMatchEvents
  <2>3. CASE ~CommitTransaction
    BY <1>1, <2>3, OnlyCommitWrites
  <2> QED
    BY <2>2, <2>3
<1>2. IInv /\ [Next]_vars
        => [(pc \in Steps /\ ids(valid) \subseteq ids(events))
              => UNCHANGED <<events, event_metrics>>]_vars
  BY <1>1
<1> QED
  BY <1>2, Invariance, PTL DEF Spec, ReplayAddsNothing

(***************************************************************************)
(* No step changes events without event_metrics or the reverse: a commit   *)
(* that stores a row raises the count of its bucket.                       *)
(***************************************************************************)
THEOREM TablesMoveTogether == Spec => EventsAndMetricsMoveTogether
<1>1. ASSUME IInv, [Next]_vars
      PROVE  (events' # events) <=> (event_metrics' # event_metrics)
  <2>1. TypeInv
    BY <1>1 DEF IInv, TypeInv, CheckpointInv, WriterInv
  <2>2. CASE ~CommitTransaction
    BY <1>1, <2>2, OnlyCommitWrites
  <2>3. CASE CommitTransaction /\ inserted_rows = {}
    BY <1>1, <2>1, <2>3, CommitStep DEF IInv, MetricsMatchEvents
  <2>4. CASE CommitTransaction /\ inserted_rows # {}
    <3>1. PICK r \in inserted_rows : TRUE
      BY <2>4
    <3> DEFINE b == Bucket(r)
               old == InBucket(events, b)
               new == InBucket(inserted_rows, b)
    <3>2. events' # events
      BY <1>1, <2>1, <2>4, CommitStep
    <3>3. b \in Buckets /\ r \in new
      BY <1>1, <2>1, <2>4, CommitStep DEF valid, Buckets, InBucket
    <3>4. inserted_rows \in SUBSET Rows /\ events \in SUBSET Rows
      BY <2>1 DEF TypeInv, TypeOK
    <3>5. new \in SUBSET Rows /\ old \in SUBSET Rows
      BY <3>4 DEF InBucket
    <3>6. Cardinality(new) \in Nat /\ Cardinality(old) \in Nat
      BY <3>5, CentsFinite, FS_CardinalityType
    <3>7. Cardinality(new) # 0
      BY <3>3, <3>5, CentsFinite, FS_EmptySet
    <3>8. event_metrics'[b].event_count = Cardinality(old) + Cardinality(new)
      <4>1. /\ event_metrics' = aggregate_by_window(events \union inserted_rows)
            /\ events \intersect inserted_rows = {}
        BY <1>1, <2>1, <2>4, CommitStep
      <4>2. aggregate_by_window(events \union inserted_rows)[b].event_count
              = aggregate_by_window(events)[b].event_count
                  + aggregate_by_window(inserted_rows)[b].event_count
        <5> HIDE DEF b
        <5>1. aggregate_by_window(events \union inserted_rows)[b] =
                [total_revenue |->
                    aggregate_by_window(events)[b].total_revenue
                      + aggregate_by_window(inserted_rows)[b].total_revenue,
                 event_count |->
                    aggregate_by_window(events)[b].event_count
                      + aggregate_by_window(inserted_rows)[b].event_count]
          BY <3>3, <3>4, <4>1, AggregateAdditive
        <5> QED
          BY <5>1
      <4> QED
        BY <3>3, <4>1, <4>2 DEF aggregate_by_window
    <3>9. event_metrics[b].event_count = Cardinality(old)
      BY <1>1, <3>3 DEF IInv, MetricsMatchEvents, aggregate_by_window
    <3> HIDE DEF old, new, b
    <3>10. event_metrics'[b].event_count # event_metrics[b].event_count
      BY <3>6, <3>7, <3>8, <3>9
    <3> QED
      BY <3>2, <3>10
  <2> QED
    BY <2>2, <2>3, <2>4
<1>2. IInv /\ [Next]_vars
        => [(events' # events) <=> (event_metrics' # event_metrics)]_vars
  BY <1>1
<1> QED
  BY <1>2, Invariance, PTL DEF Spec, EventsAndMetricsMoveTogether

-----------------------------------------------------------------------------
(* The job implements ExactlyOnce *)

LEMMA PromiseInit == Init => Promise!Init
<1> SUFFICES ASSUME Init PROVE Promise!Init
  OBVIOUS
<1>1. DoneFiles = {}
  BY DEF Init, DoneFiles
<1> QED
  BY <1>1, AggregateEmpty DEF Init, Promise!Init

\* The file of a row that runs is not done.
LEMMA RunningFilesAreNew ==
    ASSUME IInv, pc \in Steps
    PROVE  planned[batch_id] \intersect DoneFiles = {}
<1>1. batch_id \in 1 .. Len(planned)
  BY DEF IInv, CheckpointInv, TypeOK, batch_id
<1>2. \A i \in 1 .. committed : i \in 1 .. Len(planned) /\ i # batch_id
  BY DEF IInv, TypeOK, batch_id
<1> QED
  BY <1>1, <1>2 DEF IInv, CheckpointInv, DoneFiles

\* The steps the promise does not see.
LEMMA PromiseStutter ==
    ASSUME UNCHANGED <<events, event_metrics, quarantine, planned, committed>>
    PROVE  UNCHANGED Promise!promise
BY SameBatch DEF Promise!promise

LEMMA PromiseNext == IInv /\ [Next]_vars => [Promise!Next]_Promise!promise
<1> SUFFICES ASSUME IInv, [Next]_vars
             PROVE  [Promise!Next]_Promise!promise
  OBVIOUS
<1>1. TypeInv
  BY DEF IInv, TypeInv, CheckpointInv, WriterInv
<1>2. CASE CommitTransaction
  <2>1. pc \in Steps
    BY <1>2 DEF CommitTransaction, Steps
  <2>2. \A r \in inserted_rows : FileOf[r] \notin DoneFiles
    BY <1>1, <1>2, <2>1, CommitStep, RunningFilesAreNew
       DEF valid, BatchRows, RowsIn
  <2>3. inserted_rows \in SUBSET Valid
    BY <1>1, <1>2, CommitStep DEF valid
  <2>4. quarantine' = quarantine /\ DoneFiles' = DoneFiles
    BY <1>2, SameBatch DEF CommitTransaction, source
  <2>5. Promise!Store(inserted_rows)
    BY <1>1, <1>2, <2>2, <2>3, <2>4, CommitStep
       DEF Promise!Store, Promise!Ids, ids, DistinctIds
  <2> QED
    BY <2>3, <2>5 DEF Promise!Next
<1>3. CASE AppendQuarantinePartition
  <2>1. PICK part \in SUBSET todo :
           quarantine' = [r \in Rows |-> IF r \in part
                            THEN quarantine[r] + 1 ELSE quarantine[r]]
    BY <1>3 DEF AppendQuarantinePartition
  <2>2. part \subseteq invalid /\ pc \in Steps
    BY <1>3, <2>1 DEF AppendQuarantinePartition, IInv, WriterInv, Steps
  <2>3. /\ part \in SUBSET Promise!Bad
        /\ \A r \in part : r \in Rows /\ FileOf[r] \notin DoneFiles
    BY <2>2, RunningFilesAreNew
       DEF invalid, Invalid, BatchRows, RowsIn, Promise!Bad
  <2>4. \A r \in Rows : quarantine[r] \in Nat
    BY <1>1 DEF TypeInv, TypeOK
  <2>5. {r \in Rows : quarantine'[r] > 0}
          = {r \in Rows : quarantine[r] > 0} \union part
    BY <2>1, <2>3, <2>4
  <2>6. DoneFiles' = DoneFiles /\ UNCHANGED <<events, event_metrics>>
    BY <1>3, SameBatch DEF AppendQuarantinePartition, source
  <2>7. Promise!Reject(part)
    BY <2>3, <2>5, <2>6 DEF Promise!Reject
  <2> QED
    BY <2>3, <2>7 DEF Promise!Next
<1>4. CASE AcknowledgeBatch
  <2> DEFINE F == planned[batch_id]
  <2>1. /\ DoneFiles' = DoneFiles \union F
        /\ F \in SUBSET Files
    BY <1>1, <1>4, AcknowledgeStep DEF TypeInv, TypeOK
  <2>2. F \intersect DoneFiles = {}
    BY <1>4, RunningFilesAreNew DEF AcknowledgeBatch, Steps
  <2>3. /\ ids(RowsIn(F) \intersect Valid) \subseteq ids(events)
        /\ RowsIn(F) \intersect Invalid \subseteq {r \in Rows : quarantine[r] > 0}
    BY <1>4 DEF AcknowledgeBatch, IInv, WriterInv, valid, invalid, BatchRows,
                RowsIn
  <2>4. UNCHANGED <<events, event_metrics, quarantine>>
    BY <1>4 DEF AcknowledgeBatch, tables
  <2>5. Promise!Finish(F)
    BY <2>1, <2>2, <2>3, <2>4
       DEF Promise!Finish, Promise!AccountedFor, Promise!RowsOf, Promise!Ids,
           Promise!Bad, RowsIn, ids, Invalid
  <2> QED
    BY <2>1, <2>5 DEF Promise!Next
<1>5. CASE PlanBatch
  <2>1. DoneFiles' = DoneFiles /\ UNCHANGED <<events, event_metrics, quarantine>>
    BY <1>1, <1>5, PlanStep DEF PlanBatch, tables
  <2> QED
    BY <2>1 DEF Promise!promise
<1>6. ASSUME NEW f \in Files, Publish(f)
      PROVE  UNCHANGED Promise!promise
  BY <1>6, PromiseStutter DEF Publish, tables
<1>7. CASE Restart \/ Crash \/ ReplayBatch \/ IdleTrigger \/ UNCHANGED vars
  BY <1>7, PromiseStutter DEF Restart, Crash, ReplayBatch, IdleTrigger, vars,
                              source, tables
<1>8. CASE EvaluateRaises \/ NothingValid \/ OverwriteStaging
  BY <1>8, PromiseStutter DEF EvaluateRaises, NothingValid, OverwriteStaging,
                              source, tables
<1>9. CASE \/ WriteStagingPartition \/ InsertEvents
           \/ WriteMetrics \/ WriteMetricsRaises
  BY <1>9, PromiseStutter DEF WriteStagingPartition, InsertEvents, WriteMetrics,
                              WriteMetricsRaises, source, tables
<1> QED
  BY <1>2, <1>3, <1>4, <1>5, <1>6, <1>7, <1>8, <1>9
     DEF Next, Trigger, ProcessBatch

(***************************************************************************)
(* The job implements ExactlyOnce: seen through events, event_metrics, the *)
(* rows in quarantine and the files that are done, every step is one step  *)
(* of the promise or none.                                                 *)
(***************************************************************************)
THEOREM Refinement == Spec => KeepsThePromise
BY PromiseInit, PromiseNext, Invariance, PTL
   DEF Spec, KeepsThePromise, Promise!Spec

=============================================================================
