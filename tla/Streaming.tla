----------------------------- MODULE Streaming ------------------------------
(***************************************************************************)
(* The streaming job: the file source with its checkpoint, process_batch   *)
(* with the three writers of src/sinks.py, and the tables they write, with *)
(* a failure or a kill of the job possible between any two steps.          *)
(*                                                                         *)
(* The checkpoint, the scheduling of batches and the partitions of a JDBC  *)
(* write are Spark's, the transaction is PostgreSQL's: they are modelled   *)
(* from how the code uses them.  Batches are numbered from 1.              *)
(***************************************************************************)
EXTENDS Dataset, Sequences

CONSTANTS
    MaxFilesPerTrigger,
    MaxCrashes           \* bound: how often the job is killed or loses a server

ASSUME StreamingAssumption ==
    /\ MaxFilesPerTrigger \in Nat \ {0}
    /\ MaxCrashes \in Nat

VARIABLES
    published,       \* files visible in incoming_dir, archived or not
    planned,         \* checkpoint: the files of each batch ever planned
    committed,       \* checkpoint: how many batches are acknowledged
    pc,              \* where the job is; "down" when no job runs
    todo,            \* rows the running JDBC write has not committed yet
    inserted_rows,   \* what write_events_batch returned
    tx,              \* the effects of the open transaction
    staging,         \* the staging tables there are, by batch
    events,          \* the rows of table events
    event_metrics,   \* table event_metrics, absent buckets as zeros
    quarantine,      \* how many copies of a row events_quarantine holds
    crashes

source == <<published, planned, committed>>
job == <<pc, todo, inserted_rows, tx>>
tables == <<staging, events, event_metrics, quarantine>>
vars == <<source, job, tables, crashes>>

batch_id == committed + 1
BatchRows == RowsIn(planned[batch_id])
valid == BatchRows \intersect Valid
invalid == BatchRows \intersect Invalid

Steps == {"evaluate", "stage", "metrics", "commit", "quarantine"}

\* What the checkpoint, the tables and the job's memory can hold.
TypeOK ==
    /\ published \subseteq Files
    /\ planned \in Seq(SUBSET Files)
    /\ committed \in 0 .. Len(planned)
    /\ pc \in {"down", "idle"} \union Steps
    /\ todo \subseteq Rows
    /\ inserted_rows \subseteq Rows
    /\ tx \in [rows : SUBSET Rows, drop : BOOLEAN, metrics : MetricsTable]
    /\ staging \in [DOMAIN staging -> SUBSET Rows]
    /\ DOMAIN staging \subseteq Nat
    /\ events \subseteq Rows
    /\ event_metrics \in MetricsTable
    /\ quarantine \in [Rows -> Nat]
    /\ crashes \in 0 .. MaxCrashes

Init ==
    /\ published = {}
    /\ planned = <<>>
    /\ committed = 0
    /\ pc = "down"
    /\ todo = {}
    /\ inserted_rows = {}
    /\ tx = NoTransaction
    /\ staging = <<>>
    /\ events = {}
    /\ event_metrics = NoMetrics
    /\ quarantine = [r \in Rows |-> 0]
    /\ crashes = 0

-----------------------------------------------------------------------------
(* The world around the job *)

\* os.replace makes a complete file visible in incoming_dir.
Publish(f) ==
    /\ f \notin published
    /\ published' = published \union {f}
    /\ UNCHANGED <<planned, committed, job, tables, crashes>>

\* Fault: a job that starts passes over the batch its predecessor died in.
SkippingRestart ==
    /\ pc = "down"
    /\ pc' = "idle"
    /\ committed' = batch_id
    /\ UNCHANGED <<published, planned, todo, inserted_rows, tx, tables, crashes>>

\* main: a job starts over the checkpoint it finds.
Restart ==
    /\ pc = "down"
    /\ pc' = "idle"
    /\ UNCHANGED <<source, todo, inserted_rows, tx, tables, crashes>>

\* What is left of a job that ends: nothing in memory, and an open
\* transaction is rolled back.
GoDown ==
    /\ pc' = "down"
    /\ todo' = {}
    /\ inserted_rows' = {}
    /\ tx' = NoTransaction

\* Fault: process_batch logs the exception and does not re-raise, so Spark
\* takes the batch for processed.
SwallowingCrash ==
    /\ pc \in Steps
    /\ crashes < MaxCrashes
    /\ crashes' = crashes + 1
    /\ committed' = batch_id
    /\ pc' = "idle"
    /\ todo' = {} /\ inserted_rows' = {} /\ tx' = NoTransaction
    /\ UNCHANGED <<published, planned, tables>>

\* The job is killed, or Spark, PostgreSQL or the network fails under it and
\* process_batch re-raises; either way awaitTermination ends.
Crash ==
    /\ pc # "down"
    /\ crashes < MaxCrashes
    /\ crashes' = crashes + 1
    /\ GoDown
    /\ UNCHANGED <<source, tables>>

-----------------------------------------------------------------------------
(* The file source and the checkpoint *)

SeenFiles == UNION {planned[i] : i \in 1 .. Len(planned)}
DoneFiles == UNION {planned[i] : i \in 1 .. committed}

\* A trigger finds new files and logs which of them the batch will read.
PlanBatch ==
    /\ pc = "idle"
    /\ committed = Len(planned)
    /\ \E F \in SUBSET (published \ SeenFiles) :
          /\ F # {}
          /\ Cardinality(F) <= MaxFilesPerTrigger
          /\ planned' = Append(planned, F)
    /\ pc' = "evaluate"
    /\ UNCHANGED <<published, committed, todo, inserted_rows, tx, tables,
                   crashes>>

\* A batch that was planned but never acknowledged runs again.
ReplayBatch ==
    /\ pc = "idle"
    /\ committed < Len(planned)
    /\ pc' = "evaluate"
    /\ UNCHANGED <<source, todo, inserted_rows, tx, tables, crashes>>

\* A trigger with nothing to do.
IdleTrigger ==
    /\ pc = "idle"
    /\ committed = Len(planned)
    /\ published \subseteq SeenFiles
    /\ UNCHANGED vars

\* process_batch returned: Spark acknowledges the batch.
AcknowledgeBatch ==
    /\ pc = "quarantine"
    /\ todo = {}
    /\ committed' = committed + 1
    /\ pc' = "idle"
    /\ UNCHANGED <<published, planned, todo, inserted_rows, tx, tables,
                   crashes>>

-----------------------------------------------------------------------------
(* write_events_batch *)

\* Fault: a batch that raises is skipped after its rejected rows are kept.
SkipRaisingBatch ==
    /\ pc = "evaluate"
    /\ BatchRows \intersect Overflowing # {}
    /\ todo' = invalid
    /\ pc' = "quarantine"
    /\ UNCHANGED <<source, inserted_rows, tx, tables, crashes>>

\* count() evaluates every row of the persisted DataFrame.
EvaluateRaises ==
    /\ pc = "evaluate"
    /\ BatchRows \intersect Overflowing # {}
    /\ GoDown
    /\ UNCHANGED <<source, tables, crashes>>

\* The early return on row_count == 0.
NothingValid ==
    /\ pc = "evaluate"
    /\ BatchRows \intersect Overflowing = {}
    /\ valid = {}
    /\ inserted_rows' = {}
    /\ pc' = "metrics"
    /\ UNCHANGED <<source, todo, tx, tables, crashes>>

WithEmptyTable(b) ==
    [i \in DOMAIN staging \union {b} |-> IF i = b THEN {} ELSE staging[i]]

\* Fault: mode="errorifexists", which a table left by a rollback refuses.
CreateStaging ==
    /\ pc = "evaluate"
    /\ BatchRows \intersect Overflowing = {}
    /\ valid # {}
    /\ batch_id \notin DOMAIN staging
    /\ staging' = WithEmptyTable(batch_id)
    /\ todo' = valid
    /\ pc' = "stage"
    /\ UNCHANGED <<source, inserted_rows, tx, events, event_metrics,
                   quarantine, crashes>>

\* mode="overwrite" replaces whatever table has the batch's name.
OverwriteStaging ==
    /\ pc = "evaluate"
    /\ BatchRows \intersect Overflowing = {}
    /\ valid # {}
    /\ staging' = WithEmptyTable(batch_id)
    /\ todo' = valid
    /\ pc' = "stage"
    /\ UNCHANGED <<source, inserted_rows, tx, events, event_metrics,
                   quarantine, crashes>>

\* Each partition commits on a connection of its own.
WriteStagingPartition ==
    /\ pc = "stage"
    /\ \E part \in (SUBSET todo) \ {{}} :
          /\ staging' = [staging EXCEPT ![batch_id] = @ \union part]
          /\ todo' = todo \ part
    /\ UNCHANGED <<source, pc, inserted_rows, tx, events, event_metrics,
                   quarantine, crashes>>

\* Fault: no ON CONFLICT, and a table without its primary key.
InsertableWithoutConflicts(table) == {table}

\* The rows ON CONFLICT DO NOTHING lets in: of each id not stored yet, one
\* row, whichever comes first.
Insertable(table) ==
    {S \in SUBSET {r \in table : event_id(r) \notin ids(events)} :
        /\ DistinctIds(S)
        /\ ids(table) \subseteq ids(events) \union ids(S)}

\* Fault: the staging table is not dropped.
InsertWithoutDrop ==
    /\ pc = "stage"
    /\ todo = {}
    /\ \E S \in Insertable(staging[batch_id]) :
          /\ inserted_rows' = S
          /\ tx' = [tx EXCEPT !.rows = S]
    /\ pc' = "metrics"
    /\ UNCHANGED <<source, todo, tables, crashes>>

\* Fault: the first implementation, which committed the events before the
\* metrics (pg_transaction's docstring).
InsertAndCommit ==
    /\ pc = "stage"
    /\ todo = {}
    /\ \E S \in Insertable(staging[batch_id]) :
          /\ inserted_rows' = S
          /\ events' = events \union S
          /\ tx' = [tx EXCEPT !.drop = TRUE]
    /\ pc' = "metrics"
    /\ UNCHANGED <<source, todo, staging, event_metrics, quarantine, crashes>>

\* INSERT ... SELECT ... RETURNING, then DROP TABLE, in the transaction.
InsertEvents ==
    /\ pc = "stage"
    /\ todo = {}
    /\ \E S \in Insertable(staging[batch_id]) :
          /\ inserted_rows' = S
          /\ tx' = [tx EXCEPT !.rows = S, !.drop = TRUE]
    /\ pc' = "metrics"
    /\ UNCHANGED <<source, todo, tables, crashes>>

-----------------------------------------------------------------------------
(* write_metrics_batch, the commit of pg_transaction, and the quarantine *)

MetricsRefused(S) == Refused(event_metrics, S)

\* Fault: the aggregate reads the valid rows, not the rows inserted.
WriteMetricsOfValidRows ==
    /\ pc = "metrics"
    /\ ~MetricsRefused(valid)
    /\ tx' = [tx EXCEPT !.metrics = aggregate_by_window(valid)]
    /\ pc' = "commit"
    /\ UNCHANGED <<source, todo, inserted_rows, tables, crashes>>

WriteMetrics ==
    /\ pc = "metrics"
    /\ ~MetricsRefused(inserted_rows)
    /\ tx' = [tx EXCEPT !.metrics = aggregate_by_window(inserted_rows)]
    /\ pc' = "commit"
    /\ UNCHANGED <<source, todo, inserted_rows, tables, crashes>>

WriteMetricsRaises ==
    /\ pc = "metrics"
    /\ MetricsRefused(inserted_rows)
    /\ GoDown
    /\ UNCHANGED <<source, tables, crashes>>

\* Fault: the quarantine is given the whole batch, not its invalid half.
CommitThenQuarantineAll ==
    /\ pc = "commit"
    /\ events' = events \union tx.rows
    /\ event_metrics' = Accumulate(event_metrics, tx.metrics)
    /\ staging' = [b \in DOMAIN staging \ {batch_id} |-> staging[b]]
    /\ tx' = NoTransaction
    /\ inserted_rows' = {}
    /\ todo' = BatchRows
    /\ pc' = "quarantine"
    /\ UNCHANGED <<source, quarantine, crashes>>

\* Everything the transaction did becomes durable at once.
CommitTransaction ==
    /\ pc = "commit"
    /\ events' = events \union tx.rows
    /\ event_metrics' = Accumulate(event_metrics, tx.metrics)
    /\ staging' = IF tx.drop
                  THEN [b \in DOMAIN staging \ {batch_id} |-> staging[b]]
                  ELSE staging
    /\ tx' = NoTransaction
    /\ inserted_rows' = {}
    /\ todo' = invalid
    /\ pc' = "quarantine"
    /\ UNCHANGED <<source, quarantine, crashes>>

\* write_quarantine_batch: a plain append, partition by partition.
AppendQuarantinePartition ==
    /\ pc = "quarantine"
    /\ \E part \in (SUBSET todo) \ {{}} :
          /\ quarantine' = [r \in Rows |-> IF r \in part THEN quarantine[r] + 1
                                                         ELSE quarantine[r]]
          /\ todo' = todo \ part
    /\ UNCHANGED <<source, pc, inserted_rows, tx, staging, events,
                   event_metrics, crashes>>

-----------------------------------------------------------------------------
ProcessBatch ==
    \/ EvaluateRaises \/ NothingValid \/ OverwriteStaging
    \/ WriteStagingPartition \/ InsertEvents
    \/ WriteMetrics \/ WriteMetricsRaises \/ CommitTransaction
    \/ AppendQuarantinePartition

Trigger == PlanBatch \/ ReplayBatch \/ IdleTrigger \/ AcknowledgeBatch

Next ==
    \/ \E f \in Files : Publish(f)
    \/ Restart \/ Crash \/ Trigger \/ ProcessBatch

Spec == Init /\ [][Next]_vars

\* A running job keeps running, and whoever operates it starts it again after
\* it went down; nothing forces files to arrive.
FairSpec == Spec /\ WF_vars(Restart) /\ WF_vars(Trigger \/ ProcessBatch)

-----------------------------------------------------------------------------
(* Safety *)

\* event_metrics is what aggregating the stored events from scratch would
\* give: no crash loses a batch's delta and no replay counts one twice
\* (pg_transaction's docstring; the cross-check of verification_queries.sql).
MetricsMatchEvents == event_metrics = aggregate_by_window(events)

\* However batches are replayed and ids repeated, an event_id is stored once,
\* and only for a row the rules accept out of a file some batch read.
EachIdStoredOnce ==
    /\ DistinctIds(events)
    /\ events \subseteq Valid \intersect RowsIn(SeenFiles)

\* Once Spark will never read a file again, each of its valid ids is in
\* events and each of its other rows in events_quarantine: an acknowledged
\* batch has lost nothing (process_batch: "a silent, permanent loss").
AcknowledgedBatchesLanded ==
    /\ ids(RowsIn(DoneFiles) \intersect Valid) \subseteq ids(events)
    /\ \A r \in RowsIn(DoneFiles) \intersect Invalid : quarantine[r] > 0

\* A duplicate in events_quarantine takes a crash (write_quarantine_batch:
\* "on the rare crash-replay path"), and a valid row never gets there.
QuarantineCopiesAreReplays ==
    \A r \in Rows : quarantine[r] <= IF r \in Valid THEN 0 ELSE 1 + crashes

\* A rollback leaves a staging table behind, but only for the batch that is
\* going to run again: no table survives its batch (write_events_batch:
\* "harmless, since the retry overwrites it").
StagingTablesAreDisposed ==
    DOMAIN staging # {} => /\ DOMAIN staging = {batch_id}
                           /\ committed < Len(planned)

\* A batch with a row that derive cannot compute leaves no trace outside its
\* staging table and is never acknowledged; and whatever else makes a batch
\* raise, no event is stored whose delta event_metrics has not taken: none
\* without a category, of a window past the last instant or whose revenue would
\* overflow the total of its bucket.
RaisingBatchesLeaveNothing ==
    /\ \A i \in 1 .. Len(planned) :
          RowsIn(planned[i]) \intersect Overflowing # {} =>
              /\ i > committed
              /\ RowsIn(planned[i]) \intersect events = {}
              /\ \A r \in RowsIn(planned[i]) : quarantine[r] = 0
    /\ \A r \in events :
          /\ Processed[r].category # NULL
          /\ window_end(Processed[r].event_time_ts) <= LastInstant
          /\ aggregate_by_window(events)[Bucket(r)].total_revenue < TotalLimit

\* sinks.py line 142: rows of a batch that are already present mean that the
\* batch was replayed, which takes a crash.
SkippedRowsMeanReplay ==
    pc = "metrics" /\ crashes = 0
        => Cardinality(inserted_rows) = Cardinality(valid)

-----------------------------------------------------------------------------
(* Action properties *)

\* No step changes one of the two tables without the other.
EventsAndMetricsMoveTogether ==
    [][(events' # events) <=> (event_metrics' # event_metrics)]_vars

\* Running a batch whose valid ids are all stored, as after a crash between
\* the commit and the acknowledgement, adds nothing to either table.
ReplayAddsNothing ==
    [][(pc \in Steps /\ ids(valid) \subseteq ids(events))
         => UNCHANGED <<events, event_metrics>>]_vars

-----------------------------------------------------------------------------
(* Liveness and refinement *)

\* With finitely many crashes and no row that makes its batch raise, every
\* file that becomes visible is in the end read and acknowledged.
EveryPublishedFileIsDone ==
    \A f \in Files : f \in published ~> f \in DoneFiles

\* postgres_setup.sql line 21 and schema.py line 24: a product without a
\* category is a real case, so its events are stored like any other.
UncategorisedEventsAreStored ==
    \A r \in Valid :
        Processed[r].category = NULL /\ FileOf[r] \in published
            ~> event_id(r) \in ids(events)

Promise == INSTANCE ExactlyOnce
    WITH Good <- Valid,
         Id <- event_id,
         Totals <- aggregate_by_window,
         stored <- events,
         totals <- event_metrics,
         rejected <- {r \in Rows : quarantine[r] > 0},
         done <- DoneFiles

\* The job implements ExactlyOnce: crashes, replays and partial writes are
\* stutters of the promise.
KeepsThePromise == Promise!Spec
=============================================================================
