--------------------------- MODULE ConcurrentJobs ---------------------------
(***************************************************************************)
(* Several jobs on one checkpoint and one database: make stream given a    *)
(* second time while the first job runs, or while one thought dead still   *)
(* does. Nothing in the code prevents it. A job that starts runs the batch *)
(* that was planned and not acknowledged, so two jobs may run one batch at *)
(* once, on the staging table named after it.                              *)
(*                                                                         *)
(* The steps are those of Streaming, with the locks PostgreSQL takes: a    *)
(* statement that has read the staging table holds it until its            *)
(* transaction ends, an uncommitted DROP excludes every other user of the  *)
(* table, an uncommitted key makes the INSERT of the same key wait.        *)
(***************************************************************************)
EXTENDS Dataset, Sequences

CONSTANTS
    Jobs,
    MaxFilesPerTrigger

ASSUME JobsAssumption == MaxFilesPerTrigger \in Nat \ {0}

VARIABLES
    planned,       \* checkpoint: the files of each batch ever planned
    committed,     \* checkpoint: how many batches are acknowledged
    pc,            \* where each job is; "down" when it does not run
    batch,         \* the batch each job runs, or ran last
    todo,          \* rows its running statement has yet to deal with
    tx,            \* the effects of its open transaction
    staging,       \* the staging tables there are, by name
    events,        \* the rows of table events
    event_metrics, \* table event_metrics, absent buckets as zeros
    rejected,      \* the rows with a copy in events_quarantine
    overlapped     \* history: batches that two jobs ran at once

checkpoint == <<planned, committed>>
local == <<pc, batch, todo, tx>>
tables == <<staging, events, event_metrics, rejected>>
vars == <<checkpoint, local, tables, overlapped>>

Running == {"evaluate", "create", "stage", "insert", "drop", "metrics",
            "commit", "quarantine"}
InTransaction == {"insert", "drop", "metrics", "commit"}

\* Fault: one staging table for all batches.
FixedStagingTable(b) == 1

\* staging_events_{batch_id}
StagingTable(b) == b

Planned == 1 .. Len(planned)

TypeOK ==
    /\ planned \in Seq(SUBSET Files)
    /\ committed \in 0 .. Len(planned)
    /\ pc \in [Jobs -> {"down", "idle"} \union Running]
    /\ batch \in [Jobs -> 0 .. Len(planned)]
    /\ todo \in [Jobs -> SUBSET Rows]
    /\ tx \in [Jobs -> [rows : SUBSET Rows, drop : BOOLEAN, metrics : MetricsTable]]
    /\ staging \in [DOMAIN staging -> SUBSET Valid]
    /\ DOMAIN staging \subseteq {StagingTable(b) : b \in Planned}
    /\ events \subseteq Valid
    /\ event_metrics \in MetricsTable
    /\ rejected \subseteq Invalid
    /\ overlapped \subseteq Planned

Init ==
    /\ planned = <<>>
    /\ committed = 0
    /\ pc = [j \in Jobs |-> "down"]
    /\ batch = [j \in Jobs |-> 0]
    /\ todo = [j \in Jobs |-> {}]
    /\ tx = [j \in Jobs |-> NoTransaction]
    /\ staging = <<>>
    /\ events = {}
    /\ event_metrics = NoMetrics
    /\ rejected = {}
    /\ overlapped = {}

BatchRows(b) == RowsIn(planned[b])
valid(j) == BatchRows(batch[j]) \intersect Valid
invalid(j) == BatchRows(batch[j]) \intersect Invalid
table(j) == StagingTable(batch[j])

At(j, step) == pc[j] = step
GoTo(j, step) == pc' = [pc EXCEPT ![j] = step]

\* The other jobs whose open transaction has used the staging table of j.
Readers(j) ==
    {k \in Jobs \ {j} : pc[k] \in InTransaction /\ valid(k) # {} /\ table(k) = table(j)}

\* One of them has dropped it and has not committed.
Dropped(j) == \E k \in Readers(j) : tx[k].drop

-----------------------------------------------------------------------------
(* The checkpoint *)

\* A job starts over the checkpoint: it runs the unacknowledged batch, which
\* another job may be running.
Start(j) ==
    /\ At(j, "down")
    /\ IF committed < Len(planned)
       THEN /\ GoTo(j, "evaluate")
            /\ batch' = [batch EXCEPT ![j] = committed + 1]
            /\ overlapped' =
                  IF \E k \in Jobs \ {j} : pc[k] \in Running /\ batch[k] = committed + 1
                  THEN overlapped \union {committed + 1}
                  ELSE overlapped
       ELSE /\ GoTo(j, "idle")
            /\ batch' = [batch EXCEPT ![j] = committed]
            /\ UNCHANGED overlapped
    /\ UNCHANGED <<checkpoint, todo, tx, tables>>

\* A job ends at any moment, by a kill, an exception, a statement that finds
\* no table, or a log entry another job wrote first; its transaction is
\* rolled back.
End(j) ==
    /\ ~At(j, "down")
    /\ GoTo(j, "down")
    /\ todo' = [todo EXCEPT ![j] = {}]
    /\ tx' = [tx EXCEPT ![j] = NoTransaction]
    /\ UNCHANGED <<checkpoint, batch, tables, overlapped>>

SeenFiles == UNION {planned[b] : b \in Planned}

\* The offset log takes an entry once: only a job that is up to date plans.
PlanBatch(j) ==
    /\ At(j, "idle")
    /\ batch[j] = Len(planned)
    /\ \E F \in SUBSET (Files \ SeenFiles) :
          /\ F # {}
          /\ Cardinality(F) <= MaxFilesPerTrigger
          /\ planned' = Append(planned, F)
    /\ batch' = [batch EXCEPT ![j] = Len(planned) + 1]
    /\ GoTo(j, "evaluate")
    /\ UNCHANGED <<committed, todo, tx, tables, overlapped>>

\* Fault: each acknowledgement counts, even of a batch that has one.
AcknowledgeAgain(j) ==
    /\ At(j, "quarantine")
    /\ todo[j] = {}
    /\ committed' = committed + 1
    /\ GoTo(j, "idle")
    /\ UNCHANGED <<planned, batch, todo, tx, tables, overlapped>>

\* Fault: the batch is acknowledged before its quarantine is written.
AcknowledgeEarly(j) ==
    /\ At(j, "quarantine")
    /\ committed' = IF batch[j] > committed THEN batch[j] ELSE committed
    /\ GoTo(j, "idle")
    /\ UNCHANGED <<planned, batch, todo, tx, tables, overlapped>>

\* So does the commit log; the second job to acknowledge changes nothing.
AcknowledgeBatch(j) ==
    /\ At(j, "quarantine")
    /\ todo[j] = {}
    /\ committed' = IF batch[j] > committed THEN batch[j] ELSE committed
    /\ GoTo(j, "idle")
    /\ UNCHANGED <<planned, batch, todo, tx, tables, overlapped>>

-----------------------------------------------------------------------------
(* write_events_batch *)

\* count(), which goes on only if no row raises, and the early return on 0.
Evaluate(j) ==
    /\ At(j, "evaluate")
    /\ BatchRows(batch[j]) \intersect Overflowing = {}
    /\ GoTo(j, IF valid(j) = {} THEN "metrics" ELSE "create")
    /\ UNCHANGED <<checkpoint, batch, todo, tx, tables, overlapped>>

\* mode="overwrite" is two statements that commit each by itself: the table
\* of that name is dropped if there is one ...
DropStaleTable(j) ==
    /\ At(j, "create")
    /\ table(j) \in DOMAIN staging
    /\ Readers(j) = {}
    /\ staging' = [b \in DOMAIN staging \ {table(j)} |-> staging[b]]
    /\ UNCHANGED <<checkpoint, local, events, event_metrics, rejected, overlapped>>

\* ... and created.
CreateTable(j) ==
    /\ At(j, "create")
    /\ table(j) \notin DOMAIN staging
    /\ staging' = [b \in DOMAIN staging \union {table(j)} |->
                      IF b = table(j) THEN {} ELSE staging[b]]
    /\ todo' = [todo EXCEPT ![j] = valid(j)]
    /\ GoTo(j, "stage")
    /\ UNCHANGED <<checkpoint, batch, tx, events, event_metrics, rejected, overlapped>>

\* A partition commits, into whatever table has the name by now.
WritePartition(j) ==
    /\ At(j, "stage")
    /\ table(j) \in DOMAIN staging
    /\ ~Dropped(j)
    /\ \E part \in (SUBSET todo[j]) \ {{}} :
          /\ staging' = [staging EXCEPT ![table(j)] = @ \union part]
          /\ todo' = [todo EXCEPT ![j] = @ \ part]
    /\ UNCHANGED <<checkpoint, pc, batch, tx, events, event_metrics, rejected,
                   overlapped>>

\* The INSERT begins: its SELECT sees the staging table as it is now.
BeginInsert(j) ==
    /\ At(j, "stage")
    /\ todo[j] = {}
    /\ table(j) \in DOMAIN staging
    /\ ~Dropped(j)
    /\ todo' = [todo EXCEPT ![j] = staging[table(j)]]
    /\ GoTo(j, "insert")
    /\ UNCHANGED <<checkpoint, batch, tx, tables, overlapped>>

\* Fault: no ON CONFLICT, and a table without its primary key.
InsertableWithoutConflicts(rows) == {rows}

\* The rows ON CONFLICT DO NOTHING lets in: of each id not stored yet, one.
Insertable(rows) ==
    {S \in SUBSET {r \in rows : event_id(r) \notin ids(events)} :
        /\ DistinctIds(S)
        /\ ids(rows) \subseteq ids(events) \union ids(S)}

\* The INSERT ends, after the transactions that hold one of its keys.
EndInsert(j) ==
    /\ At(j, "insert")
    /\ \A k \in Jobs \ {j} : ids(todo[j]) \intersect ids(tx[k].rows) = {}
    /\ \E S \in Insertable(todo[j]) : tx' = [tx EXCEPT ![j].rows = S]
    /\ todo' = [todo EXCEPT ![j] = {}]
    /\ GoTo(j, "drop")
    /\ UNCHANGED <<checkpoint, batch, tables, overlapped>>

\* Fault: the staging table is not dropped.
SkipDrop(j) ==
    /\ At(j, "drop")
    /\ GoTo(j, "metrics")
    /\ UNCHANGED <<checkpoint, batch, todo, tx, tables, overlapped>>

\* DROP TABLE IF EXISTS waits for every other reader of the table.
DropTable(j) ==
    /\ At(j, "drop")
    /\ Readers(j) = {}
    /\ tx' = [tx EXCEPT ![j].drop = TRUE]
    /\ GoTo(j, "metrics")
    /\ UNCHANGED <<checkpoint, batch, todo, tables, overlapped>>

-----------------------------------------------------------------------------
(* write_metrics_batch, the commit, and write_quarantine_batch *)

\* The buckets whose rows of event_metrics the open transaction of j holds.
Held(j) == {b \in Buckets : tx[j].metrics[b].event_count > 0}

\* Fault: the aggregate reads the valid rows, not the rows inserted.
WriteMetricsOfValidRows(j) ==
    /\ At(j, "metrics")
    /\ ~Refused(event_metrics, valid(j))
    /\ tx' = [tx EXCEPT ![j].metrics = aggregate_by_window(valid(j))]
    /\ GoTo(j, "commit")
    /\ UNCHANGED <<checkpoint, batch, todo, tables, overlapped>>

\* The upsert waits for the transactions that hold one of its rows, then adds
\* to what they committed.
WriteMetrics(j) ==
    /\ At(j, "metrics")
    /\ \A k \in Jobs \ {j} : {Bucket(r) : r \in tx[j].rows} \intersect Held(k) = {}
    /\ ~Refused(event_metrics, tx[j].rows)
    /\ tx' = [tx EXCEPT ![j].metrics = aggregate_by_window(tx[j].rows)]
    /\ GoTo(j, "commit")
    /\ UNCHANGED <<checkpoint, batch, todo, tables, overlapped>>

CommitTransaction(j) ==
    /\ At(j, "commit")
    /\ events' = events \union tx[j].rows
    /\ event_metrics' = Accumulate(event_metrics, tx[j].metrics)
    /\ staging' = IF tx[j].drop
                  THEN [b \in DOMAIN staging \ {table(j)} |-> staging[b]]
                  ELSE staging
    /\ tx' = [tx EXCEPT ![j] = NoTransaction]
    /\ todo' = [todo EXCEPT ![j] = invalid(j)]
    /\ GoTo(j, "quarantine")
    /\ UNCHANGED <<checkpoint, batch, rejected, overlapped>>

AppendQuarantine(j) ==
    /\ At(j, "quarantine")
    /\ \E part \in (SUBSET todo[j]) \ {{}} :
          /\ rejected' = rejected \union part
          /\ todo' = [todo EXCEPT ![j] = @ \ part]
    /\ UNCHANGED <<checkpoint, pc, batch, tx, staging, events, event_metrics,
                   overlapped>>

-----------------------------------------------------------------------------
Next == \E j \in Jobs :
    \/ Start(j) \/ End(j) \/ PlanBatch(j) \/ AcknowledgeBatch(j)
    \/ Evaluate(j) \/ DropStaleTable(j) \/ CreateTable(j) \/ WritePartition(j)
    \/ BeginInsert(j) \/ EndInsert(j) \/ DropTable(j)
    \/ WriteMetrics(j) \/ CommitTransaction(j) \/ AppendQuarantine(j)

Spec == Init /\ [][Next]_vars

-----------------------------------------------------------------------------
(* What jobs that know nothing of each other still guarantee *)

\* However the statements of two jobs interleave, on one batch or on two, the
\* metrics are the aggregate of the stored events: the delta of each
\* transaction is of the rows it alone inserted (pg_transaction,
\* write_metrics_batch).
MetricsMatchEvents == event_metrics = aggregate_by_window(events)

\* An id that two jobs insert at the same time is stored once (ON CONFLICT).
EachIdStoredOnce == DistinctIds(events)

\* A batch that one job alone ran has lost nothing once it is acknowledged:
\* the name of the staging table is per batch, so a job on another batch
\* cannot disturb it (write_events_batch: "two batches sharing one name could
\* overwrite each other's staging data").
LossTakesAnOverlap ==
    \A b \in 1 .. committed : b \notin overlapped =>
        /\ ids(BatchRows(b) \intersect Valid) \subseteq ids(events)
        /\ BatchRows(b) \intersect Invalid \subseteq rejected

\* A staging table outlives its batch only if two jobs ran the batch at once.
LeftoverTablesTakeAnOverlap ==
    \A b \in 1 .. committed : b \notin overlapped => StagingTable(b) \notin DOMAIN staging

\* The files of the acknowledged batches that one job alone ran.
FilesDone == UNION {planned[b] : b \in (1 .. committed) \ overlapped}

Promise == INSTANCE ExactlyOnce
    WITH Good <- Valid,
         Id <- event_id,
         Totals <- aggregate_by_window,
         stored <- events,
         totals <- event_metrics,
         done <- FilesDone

\* Jobs that know nothing of each other implement ExactlyOnce together, for the
\* files they do not run twice at once: whatever statements of theirs
\* interleave, each id is stored once with its totals, and a file that one job
\* ran alone is accounted for row by row when it is acknowledged and not
\* touched again.
KeepsThePromise == Promise!Spec
=============================================================================
