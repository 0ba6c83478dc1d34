----------------------------- MODULE FileSource -----------------------------
(***************************************************************************)
(* How the job reads data/incoming: build_source with maxFilesPerTrigger   *)
(* and cleanSource=archive. Files may vanish from the directory under it.  *)
(* Here a batch stores its good rows in one step; Streaming has the steps. *)
(*                                                                         *)
(* Batches are numbered from 1. A row that was read is a record: its name, *)
(* the event in it, and whether the rules reject it.                       *)
(***************************************************************************)
EXTENDS Directories

CONSTANTS
    MaxFilesPerTrigger,
    MaxCrashes          \* bound: how often the job is killed

ASSUME FileSourceAssumption ==
    /\ MaxFilesPerTrigger \in Nat \ {0}
    /\ MaxCrashes \in Nat

VARIABLES
    planned,    \* checkpoint: the files of each batch ever planned
    committed,  \* checkpoint: how many batches are acknowledged
    job,        \* where the job is; "down" when none runs
    listed,     \* the files of the batch whose paths were there when it began
    rows,       \* the persisted DataFrame of the batch
    cleaner,    \* files handed to the cleaner thread, in memory only
    abandoned,  \* history: the files the cleaner had in hand when a job ended
    stored,     \* the rows in table events
    rejected,   \* the rows in table events_quarantine
    crashes

checkpoint == <<planned, committed>>
memory == <<job, listed, rows, cleaner, abandoned, crashes>>
database == <<stored, rejected>>
source == <<checkpoint, memory, database>>

batch_id == committed + 1
SeenFiles == UNION {planned[b] : b \in 1 .. Len(planned)}
DoneFiles == UNION {planned[b] : b \in 1 .. committed}

\* What may be archived: config.FILE_SOURCE_CLEANUP_DELAY is none, so every
\* acknowledged file, and all but those of the last batch were handed on.
LastBatch == IF planned = <<>> THEN {} ELSE planned[Len(planned)]

FileSourceInit ==
    /\ planned = <<>>
    /\ committed = 0
    /\ job = "down"
    /\ listed = {}
    /\ rows = {}
    /\ cleaner = {}
    /\ abandoned = {}
    /\ stored = {}
    /\ rejected = {}
    /\ crashes = 0

-----------------------------------------------------------------------------
(* Start and end of the job *)

\* Fault: a job that starts passes over the batch its predecessor died in.
SkippingRestart ==
    /\ job = "down"
    /\ job' = "idle"
    /\ committed' = batch_id
    /\ UNCHANGED <<planned, listed, rows, cleaner, abandoned, crashes, database,
                   directories>>

Restart ==
    /\ job = "down"
    /\ job' = "idle"
    /\ UNCHANGED <<checkpoint, listed, rows, cleaner, abandoned, crashes,
                   database, directories>>

\* The batch is dropped and so is what the cleaner had yet to move.
GoDown ==
    /\ job' = "down"
    /\ listed' = {}
    /\ rows' = {}
    /\ cleaner' = {}
    /\ abandoned' = abandoned \union (cleaner \intersect DOMAIN incoming)

Crash ==
    /\ job # "down"
    /\ crashes < MaxCrashes
    /\ crashes' = crashes + 1
    /\ GoDown
    /\ UNCHANGED <<checkpoint, database, directories>>

-----------------------------------------------------------------------------
(* The trigger *)

Plan(F) ==
    /\ job = "idle"
    /\ committed = Len(planned)
    /\ F # {}
    /\ Cardinality(F) <= MaxFilesPerTrigger
    /\ planned' = Append(planned, F)
    /\ listed' = F
    /\ job' = "read"
    /\ UNCHANGED <<committed, rows, abandoned, crashes, database, directories>>

\* Fault: the cleaner is given the files of the batch that is beginning.
ArchiveOwnBatch == \E F \in SUBSET (DOMAIN incoming \ SeenFiles) :
    /\ Plan(F)
    /\ cleaner' = cleaner \union F

\* Fault: the files of the last batch replace what the cleaner has in hand.
ForgetCleaner == \E F \in SUBSET (DOMAIN incoming \ SeenFiles) :
    /\ Plan(F)
    /\ cleaner' = LastBatch

\* New files make a batch, and hand the files of the one before it to the
\* cleaner.
PlanBatch == \E F \in SUBSET (DOMAIN incoming \ SeenFiles) :
    /\ Plan(F)
    /\ cleaner' = cleaner \union LastBatch

\* Fault: a planned file that is missing fails the batch.
StrictReplay ==
    /\ job = "idle"
    /\ committed < Len(planned)
    /\ IF planned[batch_id] \subseteq DOMAIN incoming
       THEN /\ listed' = planned[batch_id]
            /\ job' = "read"
            /\ UNCHANGED <<rows, cleaner, abandoned>>
       ELSE GoDown
    /\ UNCHANGED <<checkpoint, crashes, database, directories>>

\* A batch that was planned but never acknowledged runs again. A path of it
\* that is gone is left out; nothing is handed to the cleaner.
ReplayBatch ==
    /\ job = "idle"
    /\ committed < Len(planned)
    /\ listed' = planned[batch_id] \intersect DOMAIN incoming
    /\ job' = "read"
    /\ UNCHANGED <<checkpoint, rows, cleaner, abandoned, crashes, database,
                   directories>>

IdleTrigger ==
    /\ job = "idle"
    /\ committed = Len(planned)
    /\ DOMAIN incoming \subseteq SeenFiles
    /\ UNCHANGED <<source, directories>>

\* The cleaner thread moves a file at any time; a file that is gone is only
\* worth a warning.
Archive(f) ==
    /\ f \in cleaner
    /\ cleaner' = cleaner \ {f}
    /\ incoming' = Without(incoming, {f})
    /\ UNCHANGED <<checkpoint, job, listed, rows, abandoned, crashes, database,
                   staging_dir, published>>

-----------------------------------------------------------------------------
(* A batch *)

RowsHeldBy(f) ==
    {[row |-> <<f, i>>, value |-> incoming[f][i].value, bad |-> incoming[f][i].bad] :
        i \in DOMAIN incoming[f]}

\* The first action reads every file; persist() keeps the rows.
ReadBatch ==
    /\ job = "read"
    /\ listed \subseteq DOMAIN incoming
    /\ rows' = UNION {RowsHeldBy(f) : f \in listed}
    /\ job' = "store"
    /\ UNCHANGED <<checkpoint, listed, cleaner, abandoned, crashes, database,
                   directories>>

\* A file that was resolved and is gone when it is read fails the batch.
ReadRaises ==
    /\ job = "read"
    /\ ~ listed \subseteq DOMAIN incoming
    /\ GoDown
    /\ UNCHANGED <<checkpoint, crashes, database, directories>>

values(S) == {x.value : x \in S}

\* The transaction: of each event that is not stored yet, one row.
StoreBatch ==
    /\ job = "store"
    /\ LET good == {x \in rows : ~x.bad}
       IN \E S \in SUBSET {x \in good : x.value \notin values(stored)} :
             /\ values(good) \subseteq values(stored) \union values(S)
             /\ \A x, y \in S : x.value = y.value => x = y
             /\ stored' = stored \union S
    /\ job' = "reject"
    /\ UNCHANGED <<checkpoint, listed, rows, cleaner, abandoned, crashes, rejected,
                   directories>>

RejectBatch ==
    /\ job = "reject"
    /\ rejected' = rejected \union {x \in rows : x.bad}
    /\ job' = "acknowledge"
    /\ UNCHANGED <<checkpoint, listed, rows, cleaner, abandoned, crashes, stored,
                   directories>>

AcknowledgeBatch ==
    /\ job = "acknowledge"
    /\ committed' = batch_id
    /\ listed' = {}
    /\ rows' = {}
    /\ job' = "idle"
    /\ UNCHANGED <<planned, cleaner, abandoned, crashes, database, directories>>

-----------------------------------------------------------------------------
JobStep ==
    \/ Restart
    \/ PlanBatch \/ ReplayBatch \/ IdleTrigger
    \/ ReadBatch \/ ReadRaises
    \/ StoreBatch \/ RejectBatch \/ AcknowledgeBatch

SourceNext ==
    \/ JobStep \/ Crash
    \/ \E f \in Files : Archive(f)
=============================================================================
