------------------------- MODULE StreamingInvariant -------------------------
(***************************************************************************)
(* What is true between the steps of a batch: the strengthening of the     *)
(* safety properties of Streaming that every step preserves.               *)
(***************************************************************************)
EXTENDS Streaming

\* One batch at most is planned and not acknowledged, it is the one that
\* runs, and no file is in two batches.
CheckpointInv ==
    /\ Len(planned) <= committed + 1
    /\ pc \in Steps => committed < Len(planned)
    /\ \A i, j \in 1 .. Len(planned) : i # j => planned[i] \intersect planned[j] = {}

\* Between the INSERT and the commit the transaction holds exactly the rows
\* write_events_batch returned; they complete the ids of the batch without
\* repeating one, and the delta is theirs. At no other step is there one.
TransactionInv ==
    /\ pc \notin {"metrics", "commit"} =>
          /\ inserted_rows = {}
          /\ tx = NoTransaction
    /\ pc \in {"metrics", "commit"} =>
          /\ tx.rows = inserted_rows
          /\ inserted_rows \subseteq valid
          /\ DistinctIds(inserted_rows)
          /\ ids(inserted_rows) \intersect ids(events) = {}
          /\ ids(valid) \subseteq ids(events) \union ids(inserted_rows)
          /\ tx.drop <=> valid # {}
    /\ pc = "metrics" => tx.metrics = NoMetrics
    /\ pc = "commit" => tx.metrics = aggregate_by_window(inserted_rows)

\* What a JDBC write has committed and what it still has to commit are
\* together what it was given.
WriterInv ==
    /\ pc = "stage" =>
          /\ batch_id \in DOMAIN staging
          /\ staging[batch_id] \union todo = valid
          /\ valid # {}
    /\ pc = "quarantine" =>
          /\ ids(valid) \subseteq ids(events)
          /\ todo \subseteq invalid
          /\ \A r \in invalid \ todo : quarantine[r] > 0

\* A staging table belongs to the unacknowledged batch, which has a valid
\* row, and is gone once its transaction has committed.
StagingInv ==
    /\ DOMAIN staging \subseteq {batch_id}
    /\ DOMAIN staging # {} => /\ committed < Len(planned)
                              /\ valid # {}
                              /\ pc # "quarantine"

\* Only invalid rows of planned batches reach the quarantine, and each run of
\* a batch that a crash cut short adds one copy at most.
QuarantineInv ==
    /\ \A r \in Valid : quarantine[r] = 0
    /\ \A r \in Rows : quarantine[r] > 0 => FileOf[r] \in SeenFiles
    /\ \A r \in Rows : quarantine[r] <= crashes + 1
    /\ committed < Len(planned) =>
          \A r \in BatchRows :
              pc # "quarantine" \/ r \in todo => quarantine[r] <= crashes

\* The inductive invariant of the job: whatever step a crash follows, the
\* checkpoint, the open transaction, the staging table and the stored tables
\* are in one of the relations from which a replay completes the batch.
IInv ==
    /\ TypeOK
    /\ CheckpointInv
    /\ TransactionInv
    /\ WriterInv
    /\ StagingInv
    /\ QuarantineInv
    /\ EachIdStoredOnce
    /\ MetricsMatchEvents
    /\ AcknowledgedBatchesLanded
=============================================================================
