# A TLA+ model of the streaming ingestion pipeline

The repository is a small data pipeline: a generator writes CSV files of shop
events, a Spark Structured Streaming job reads them, validates each row and
writes the good ones to `events`, the others to `events_quarantine`, and running
totals per minute and category to `event_metrics` in PostgreSQL. This directory
holds its specification, the TLC runs that check it on small instances, and
proofs, checked by TLAPS, of the properties that matter most.

Line numbers below are those of the repository's files.

## 1. Inventory of the system

| Component | State it keeps | Operations | Talks to |
|---|---|---|---|
| Event generator (`src/generator.py`, `data_generator.py`) | its random streams, counters, a file in `data/staging` | `make_event`, `make_malformed_event`, `generate_batch`, `write_batch`, `run` | publishes files into `data/incoming` with `os.replace` |
| Event contract (`src/schema.py`) | none | schema, vocabularies | read by generator, reader, transforms |
| File source and checkpoint (`streaming.build_source`, Spark) | log of files seen, log of planned batches, log of acknowledged batches; the files its cleaner thread has in hand | list, plan a batch of at most `maxFilesPerTrigger` files, archive | `data/incoming`, `data/archive` |
| Streaming job (`streaming.process_batch`, `start_query`, `spark_streaming_to_postgres.main`) | the running batch, its persisted DataFrame | one batch after another, re-raise on failure, restart | calls the transforms and the sinks |
| Row transforms (`src/transforms.py`) | none | `cast_types`, `normalise`, `derive`, `add_rejection_reason`, `split_valid_invalid`, `finalize_*`, `aggregate_by_window` | pure |
| Sinks (`src/sinks.py`) | one psycopg2 transaction per batch; a staging table | `pg_transaction`, `write_events_batch`, `write_metrics_batch`, `write_quarantine_batch` | PostgreSQL over two connections of different kinds |
| Database (`sql/postgres_setup.sql`) | `events`, `events_quarantine`, `event_metrics` | constraints, `ON CONFLICT` | the last line of defence |
| Verification queries (`sql/verification_queries.sql`) | none | the cross-check of metrics against events | reads the tables |
| Monitoring (`src/monitoring.py`) | a module-global flag, the listeners of a session, `logs/metrics.jsonl` | register a listener, append a line | Spark's listener bus, on a thread of its own |
| Session and logging (`src/spark_session.py`, `logger.py`) | the session of the process; an open handler, `logs/pipeline.log` | build, stop, open, append | `main`, every module |
| Configuration (`src/config.py`) | none after import | read the environment, make the directories | every module |
| Deployment (`Makefile`, compose, `Dockerfile`) | volumes | `clean`, `reset` | removes files and volumes under whatever runs |

What is hard here, and hard to test:

* **Crashes between two durable steps.** A batch has six: the batch plan, the
  partitions of the staging table, the commit of events with metrics, the
  partitions of the quarantine, and the acknowledgement. The job may die
  between any two; Spark then runs the same files again under the same batch id.
* **A delta that cannot be derived twice.** The metrics are accumulated from
  what the `INSERT` returned. That is right only if both are in one transaction,
  and only if no replay returns a row again.
* **Effects outside the transaction.** The staging table and the quarantine are
  written on Spark's own connections, partition by partition, and survive a
  rollback.
* **Repeated event ids,** within a batch and across batches, with different
  contents.
* **Rows that make the whole batch raise,** again at every replay, because of a
  limit that two columns meet only together.
* **Three-valued logic and first-match order** in the nine rejection rules.
* **Processes that share directories and tables and nothing else.** Generator
  runs, jobs and `make clean` know nothing of each other: a second job on the
  checkpoint runs the batch the first one is in, a file is removed between its
  listing and its reading, the log a handler has open is unlinked.
* **A seed that must fix ids and values whatever else is drawn,** so that the
  tables can tell a repetition from news, while the timestamps come from a clock.
* **A rate kept over batches of any length:** a slow one must not be made up for
  by a burst.
* **Reports that arrive later than what they report,** on another thread, from
  listeners that belong to a session, behind a flag that belongs to the process.

For each component, what makes it correct:

* *Transforms*: an accepted row satisfies every constraint of `events`; a
  rejected one is shown as received with the right reason; no row is lost.
* *Sinks and job*: metrics equal the aggregate of the events at all times; an id
  is stored once; an acknowledged file is accounted for row by row; duplicates
  in quarantine are explained by crashes; staging tables do not accumulate.
* *Source*: a published file is eventually read, and belongs to one batch.
* *Generator*: a file is visible only when complete; a defect has one reason;
  what is reported was published; the seed alone fixes the ids and values of the
  events; the rate is an upper bound from any batch on.
* *Monitoring and logging*: a batch leaves one line in each log, never two, and
  what is missing is explained by a kill, a session or a clean.
* *Housekeeping*: what `clean` takes from the job is what nobody had read yet,
  and it stops nothing for good.

## 2. Modules

| Module | What it models |
|---|---|
| `Transforms` | The row rules of `src/transforms.py` as operators: one operator per function, and for SQL's NULL logic. No state. |
| `RowFlow` | One event from `make_event` through writing, reading and each stage of `process_batch` (streaming.py 177-184) into one of the two tables, or to an exception. Lines no generator made enter at the reader. |
| `Dataset` | The rows, files and ids of one deployment, `aggregate_by_window` over a set of rows, and when the upsert refuses it. |
| `AggregateLoop` | The loop of `aggregate_by_window` as it computes: a recursive function over the list `RETURNING` gave, with a dict of buckets. |
| `ExactlyOnce` | The abstract specification: rows are stored once with their totals, rejected, and files are finished when accounted for. It knows no batch, transaction or crash. |
| `Streaming` | The job: source and checkpoint, `process_batch`, the sinks, the tables, crashes. Its properties, and `Promise`, the instance of `ExactlyOnce` it implements. |
| `StreamingInvariant` | The inductive invariant `IInv` in named parts. |
| `TransformsProofs`, `RowFlowProofs` | Lemmas about the row rules; the theorems about `RowFlow`. |
| `DatasetProofs`, `StreamingProofs` | Lemmas about the aggregate; the theorems about `Streaming`. |
| `ConcurrentJobs` | Several jobs on one checkpoint and one database: the statements of `Streaming`, with the locks PostgreSQL takes; `Promise`, the instance of `ExactlyOnce` they implement together. |
| `Directories` | `data/staging` and `data/incoming`: which files are there and what they hold. |
| `Generator` | The loop of `generator.run`, for any number of runs at once: the two random streams, the clocks, `write_batch` step by step, `os.replace` and its failure, the count, the sleep. `GeneratorSpec` is runs by themselves. |
| `FileSource` | How the job reads the directory: planning, replay, archiving by the cleaner thread, files that vanish. A batch stores its rows in one step here. |
| `Pipeline` | `Generator`, `FileSource` and `make clean` on one pair of directories; `Promise`, the instance of `ExactlyOnce` the whole implements. |
| `Monitoring` | Processes, sessions, queries, the listener and its bus, the handler of `pipeline.log`, and `make clean` on `logs/`. |
| `RefusalProofs` | The theorems about batches that raise and about the loop of `AggregateLoop`. |
| `ConcurrentJobsProofs`, `PipelineProofs`, `MonitoringProofs` | The theorems about several jobs, the directories and the logs. |
| `MCRowFlow`, `MCStreaming`, `MCGenerator`, `MCPipeline`, `MCConcurrentJobs` | Small vocabularies, widths, datasets, seeds and durations for TLC. |

`Streaming` abstracts the directory to the set of published files and has every
step of the sinks; `Pipeline` has every step of the directories and takes the
sinks in three; `ConcurrentJobs` has the sinks' finest steps and no directory. All
three implement `ExactlyOnce`, which is where they meet.

### How the state and the actions of `Streaming` correspond to the code

| Variable | Stands for |
|---|---|
| `published` | files that have been in `incoming_dir` |
| `planned`, `committed` | Spark's offset log and commit log: files per batch, batches acknowledged |
| `pc` | where the job is; `down` when no job runs |
| `todo` | rows the running JDBC write has yet to commit |
| `inserted_rows`, `tx` | the Python list `write_events_batch` returned; the uncommitted effects of `pg_transaction` |
| `staging` | the `staging_events_<batch_id>` tables that exist |
| `events`, `event_metrics`, `quarantine` | the tables; a row of `events` is the CSV row it came from, the quarantine counts copies |

| Action | Code |
|---|---|
| `Publish` | `write_batch`, `os.replace` (generator.py 160) |
| `Restart`, `Crash` | `main` (spark_streaming_to_postgres.py); any kill, or any failure `process_batch` re-raises |
| `PlanBatch`, `ReplayBatch`, `IdleTrigger`, `AcknowledgeBatch` | the trigger loop of `start_query` (external: Spark) |
| `EvaluateRaises`, `NothingValid` | the `count()` of `write_events_batch` and its early return (sinks.py 103-106) |
| `OverwriteStaging`, `WriteStagingPartition` | `write.jdbc(..., mode="overwrite")` (118-120) |
| `InsertEvents` | `INSERT ... ON CONFLICT DO NOTHING RETURNING`, `DROP TABLE` (122-130) |
| `WriteMetrics`, `WriteMetricsRaises` | `aggregate_by_window` and the accumulating upsert (169-196), or their exceptions |
| `CommitTransaction` | leaving `with conn` (54) |
| `AppendQuarantinePartition` | `write_quarantine_batch` (147-166) |

An exception always ends the job (`GoDown`): the `except` of `process_batch`
re-raises, Spark fails the query, and `awaitTermination` ends `main`. The next
`Restart` replays the batch.

### The directories: `Generator`, `FileSource`, `Pipeline`

| Variable | Stands for |
|---|---|
| `staging_dir`, `incoming` | the two directories, as functions from a file to the events written to it so far |
| `published`, `abandoned`, `lost` | history: files that were ever visible; that a cleaner had in hand when its job ended; that `clean` took before they were done |
| `gen_pc`, `batch_num`, `events` | the loop of each run: its place, its count, the batch in memory |
| `clock`, `batch_start` | `time.monotonic() - start` of each run, now and at the start of its batch; with `StartedAt` the wall clock |
| `appeared` | history: of each file of a run, when its batch began and when it appeared in `incoming` |
| `fake_at`, `rng_at` | how far each run has read Faker's stream and its `random.Random` stream |
| `planned`, `committed`, `job`, `listed`, `rows` | the checkpoint; where the job is; the paths of its batch that were there when it began; the persisted DataFrame |
| `cleaner`, `doomed` | files the cleaner thread, and `make clean`, have yet to move or remove |
| `stored`, `rejected` | rows of `events` and of `events_quarantine` |

| Action | Code |
|---|---|
| `OpenFile`, `WriteRow`, `Replace`, `ReplaceFails` | `generate_batch` and `open`, `writerows`, `os.replace` or its `FileNotFoundError` (generator.py 213-216, 130-161) |
| `Sleep`, `Finish` | the count and `time.sleep(max(0, interval - work))` (217-220); the loop condition (213) |
| `PlanBatch`, `ReplayBatch`, `Archive` | `maxFilesPerTrigger`, the checkpoint, `cleanSource=archive` (streaming.py 78-111) |
| `ReadBatch`, `ReadRaises`, `StoreBatch`, `RejectBatch` | the first action on the DataFrame; the transaction; the quarantine (176-184) |
| `BeginClean`, `Remove` | `rm -f data/staging/*.csv data/incoming/*.csv` (Makefile 115): the globs are expanded first, the files removed one by one |

A killed generator, or one stopped by Ctrl+C, is one that takes no more steps:
nothing forces a run to go on, so every property holds for a run that stops
anywhere. An event drawn is a record of its value (`event_id` and whatever else
Faker's stream yields, which the seed and its place determine), of `generated_at`,
which `make_event` takes from the wall clock, and of whether the second stream made
it malformed. `event_time` is `generated_at` less a value of the stream and needs no
component of its own. The events of a batch are drawn at one instant; what the
batch then takes to draw and write, any of `Delays` and another for each batch, has
passed by the time of its `os.replace`. Nothing reads
`data/archive`, so archiving removes a file from the model. Spark resolves the
paths of a batch when the batch begins, so listing is part of `PlanBatch` and
`ReplayBatch`, and reading is a later step.

### Several jobs: `ConcurrentJobs`

Each job has its own `pc`, `batch`, `todo` and `tx`; the checkpoint and the tables
are shared. The steps of `write_events_batch` are finer than in `Streaming`:
`mode="overwrite"` is a `DROP` and a `CREATE` that commit separately
(`DropStaleTable`, `CreateTable`), the `INSERT` begins with what its `SELECT` sees
and ends when no other transaction holds one of its keys (`BeginInsert`,
`EndInsert`), and the final `DROP` waits for every transaction that has read the
table (`DropTable`). An upsert waits for the transactions that hold one of its
rows (`Held`). `End` is a kill, an exception, a deadlock PostgreSQL resolved, a
statement that found no table, or a log entry the other job wrote first; it is
possible at any time. `overlapped` remembers the batches two jobs ran at once.
`FilesDone`, what `ExactlyOnce` sees of the checkpoint, leaves their files out: an
acknowledged file that two jobs ran at once is one nothing is promised about.

### The logs: `Monitoring`

| Variable | Stands for |
|---|---|
| `processes`, `alive`, `sessions`, `live`, `query` | the process, its session, and where its query is |
| `_listener_registered`, `listeners` | the flag of `monitoring.py` (14) and the listeners that were added to the live session |
| `bus` | events posted and not yet delivered |
| `metrics_file`, `log_file`, `handler` | the lines of `metrics.jsonl`; the batches in `pipeline.log`; whether the open handler writes to that file or to one `clean` removed |
| `reported`, `cut`, `unheard`, `forgotten` | history: batches that had a line; that a kill cut off; that no listener heard, with the session; whose log line is gone |

`main` makes one session per process; a process with two is what a test or a
notebook is, which is the case `register`'s docstring speaks of.
`register`, `onQueryProgress` and `onQueryIdle` are the functions of
`monitoring.py`; `Start` is the import that opens the handler (logger.py 80);
`Clean` is line 117 of the Makefile.

### What is abstracted

A text is a member of a small set. The text of a number or a time is `NULL`,
`Garbage`, or the number it denotes (mills for a price, since the cast rounds to
cents). A row of a table is the CSV row it came from, because the stages depend
on the row alone; the wall clock reaches only `ingested_at` and `latency_ms`,
which no property of `Streaming` reads (`RowFlow` keeps it). Columns of a
structurally broken line hold any values, as Spark fills in whatever it can.
When rows with one id compete in an `INSERT`, any of them may win. Spark's
checkpoint, triggers and JDBC partitions, and PostgreSQL's transaction, are
modelled from how the code uses them and marked external in the map.

The operators and actions marked *Fault* are not part of the model. Each is
what a named definition would be with a plausible bug; substituted for it, it
must break the property it is paired with in `PROJECT.json`.

## 3. Runs

| Run | Configuration | Result |
|---|---|---|
| `row_flow` | 36,000 lines, 286,946 states | all six invariants hold |
| `streaming` | `FairSpec`; 3 files, 7 rows, 2 crashes, at most 2 files a batch; 15,335 states | `IInv`, six safety invariants, two action properties, the refinement and liveness hold; `aggregate_by_window` does not depend on the order of its rows |
| `streaming_refusals` | 5 files, 9 rows, 2 crashes: a revenue that overflows, a row without category, an event in the last minute, totals that two batches take past their column; 25,120 states | however a batch raises, nothing is acknowledged unlanded, no event is stored whose delta was refused, and metrics match events |
| `generators` | `GeneratorSpec`; 2 runs of one seed, 3 files of 2 events each, every batch 0, 1 or 5 units long with an interval of 2; 9,322 states | both invariants hold |
| `pipeline` | `FairSpec`; 2 runs of one seed, 2 files each, one kill, one clean; 437,190 states | four safety invariants, the refinement and liveness hold |
| `two_jobs` | 2 jobs, 3 files, 5 rows, at most 2 files a batch, any number of ends and starts; 709,381 states | five invariants and the refinement hold |
| `monitoring` | `FairSpec`; 2 processes, 2 sessions each, 3 batches, one clean; 13,842 states | four invariants and liveness hold |
| `uncategorised`, `skipped_rows`, `overflow`, `received`, `reproducible` | as above, one property each | violated: see section 5 |

**Bounds.** `MCLine` has what a batch can distinguish: an id twice in one file
with different revenue, the same id in a second file, two events that share a
bucket and one that does not, a file without a valid row, two rejected rows in
one batch so that a partition can hold one or both. Three files and batches of
at most two give one to three batches in every order and grouping. Two crashes
allow a crash during the replay of a crashed batch; the proofs need no bound.
The widths (`PriceLimit`, `QuantityLimit`, `RevenueLimit`, `TotalLimit`) are
scaled down so that each limit is reached from both sides, among others by a
product whose factors fit. `MaxCrashes` appears only in the guards of `Crash`.

In `pipeline` both runs have one seed. The first draws a malformed event, the
second none, so the same event arrives once rejected and once good, in either
order; the duration of the second ends it after one file. How long a batch takes
is left to `generators` (`Delays` is {0} here). Two files of the first run and
two a batch let archiving, planning, the kill and the clean meet in every order;
a file of one event has a moment when it is opened and empty, which is all a
partial file needs. In `generators` a batch takes nothing, less than the
interval or more than two, so three files give a slow batch before a fast one,
after one, and between; the malformed events of the first run fall into
different batches and move its second stream on. In `two_jobs` an id is in two
files with different revenue and one file has no valid row; two jobs are the
least that overlap, and the jobs are symmetric, which is sound since no property
names one. `MaxPending` bounds Spark's bus to two events, the least that can be
out of order. `MaxCleans`, `MaxProcesses`, `MaxSessions` and `MaxBatches` appear
only in guards.

**Fairness.** `FairSpec` of `Streaming` assumes weak fairness of `Restart` (whoever operates
the job starts it again; nothing in the code does, so this is an assumption about
the operator and not about the program) and of the job's own steps taken together
(a job that runs takes its next step: one driver thread, no lock to wait for).
Nothing forces a file to arrive, and crashes are finite by `MaxCrashes`. The
liveness of `uncategorised` needs no crash. `Pipeline` assumes the same of its
job and nothing of the generators, of the cleaner thread or of `clean`: a file
that is published is read even if no other ever follows. `Monitoring` assumes
that Spark's thread goes on from an acknowledgement to its progress event and
that the bus delivers; both are threads of a live process, and neither step is
assumed once the process is gone.

Deadlock is checked in every run but `generators` and `reproducible`, whose runs end
when their duration or `MaxBatches` is reached: an idle trigger is a step of the system, and
so is the end of a row's way (`RowFlow!Done`), and of all processes
(`Monitoring!Over`). Jobs that wait for each other's locks are no deadlock of
`two_jobs`, because each of them may end.

## 4. Proofs

TLAPS proves the following for every value of the constants: any dataset, any
number of files, crashes and partitions, any widths, any number of jobs,
generator runs, processes and sessions.

### The job: `StreamingProofs`, `RefusalProofs`, `RowFlowProofs`

* `TypeCorrect`, `Invariance`: `TypeOK` and `IInv` always hold.
* `MetricsAreExact`, `IdsAreStoredOnce`, `NothingAcknowledgedIsLost`,
  `StagingIsDisposable`, `DuplicatesTakeACrash`: the safety invariants.
* `ReplayIsIdempotent`, `TablesMoveTogether`: the action properties.
* `Refinement`: `Spec` implements `ExactlyOnce`.
* `RaisingIsHarmless` (`RefusalProofs`): a batch with a row `derive` cannot compute
  leaves nothing in any table, however often it is replayed; and whichever way a
  batch raises, no event is stored whose delta `event_metrics` has not taken.
* `OrderIsIrrelevant` (`RefusalProofs`): the loop of `aggregate_by_window` gives
  the same delta in whatever order `RETURNING` lists the rows, and one row for each
  bucket of `event_metrics`.
* `RowFlowProofs`, for any line, vocabulary and widths: an accepted row satisfies
  every constraint of `events` (`TheDDLNeverRefuses`); revenue is stored exactly for
  purchases (`PurchasesHaveRevenue`); a defect the generator injects is quarantined
  under the one reason it stands for (`DefectsAreAttributed`) and an event it left
  alone is stored (`CleanEventsPass`); a line is in exactly one table and the
  quarantine shows the cast columns as received (`TextsAreKept`); every stage hands
  over what the next one reads (`TypeCorrect`). So every invariant of `row_flow`.

**The argument.** None of the safety invariants is inductive. `MetricsMatchEvents`
is preserved by the commit only if the open transaction holds the aggregate of
exactly the rows it inserts and these are new (`TransactionInv`), and because the
aggregate is additive over disjoint sets of rows (`AggregateAdditive`, proved
from cardinalities). That the inserted rows complete the ids of the batch needs
the staging table to hold, together with what is still to be written, all valid
rows and no others (`WriterInv`), which a crash falsifies and `OverwriteStaging`
restores. `AcknowledgedBatchesLanded` needs `WriterInv` too: when the quarantine
write has nothing left to do, each rejected row is there. That a row has at most
one copy more than there were crashes needs to know that a row not yet written in
this run has at most as many copies as there were crashes (`QuarantineInv`), and
that no file is in two batches (`CheckpointInv`). Each part is preserved in a
lemma with one step per action.

The refinement follows from the invariant: `CommitTransaction` is `Store` of the
inserted rows, `AppendQuarantinePartition` is `Reject`, `AcknowledgeBatch` is
`Finish` of the batch's files, and every other step, crashes among them, leaves
what `ExactlyOnce` sees unchanged.

That a batch which raises leaves nothing takes two facts about the batch under way
(`PassedInv`): past its `count()` it has no row that overflows, and at its commit
the upsert was not refused. That PostgreSQL refuses a row is its own affair; what
the code adds is that the events whose delta was refused are gone with it. So at a
commit each inserted row has a category and a window, the totals of its bucket fit
(`AcceptedDelta`), a bucket without inserted rows is as it was (`OtherBucketsStay`),
and since `event_metrics` is the aggregate of the events (`IInv`), this is a fact
about every event stored (`Taken`).

The loop is proved turn by turn: after i rows the dict has a bucket for each key
among them, with the aggregate of those of its rows (`Holds`). `LoopTurn` is the step
from S to S and one more row, by `AggregateAdditive` and what the aggregate of a
single row is (`AggregateOfOne`); the first i at which `Holds` failed would be 0 or
have a predecessor, and is neither. Rows that overflow are excluded because the
batch has passed `derive` (`PassedInv`).

For one event, `RowInv` says that what each stage holds is what the stages so far
make of the line, and that the line is one of the inputs, as made or with one field
corrupted, read back. Acceptance means that no rule fired (`NoRuleFired`), so no
checked column is NULL or out of bounds (`AcceptedColumns`, `CastRanges`,
`DerivedRevenue`). Which rule comes first is `FirstRule`; `QuietRules` and
`FiringRules` say, in SQL's three values, when each of the nine does and does not
fire. A negative price, for instance, is refused as `invalid_price` whether or not
it fits its column, but a quantity of zero is refused for the quantity only because
the price does fit, which is what `FitAssumption` is for.

### Several jobs: `ConcurrentJobsProofs`

`MetricsAreExact` and `IdsAreUnique` hold with no condition on the jobs.
`LossIsExplained` and `LeftoversAreExplained` say what two jobs in one batch can
do and that nothing less can do it; `Refinement` says that the jobs together
implement `ExactlyOnce` for every other file; `TypeCorrect` is the type invariant. So
all six properties of `two_jobs` are proved, where the run has two jobs.

The events and the metrics need `TxInv`: the rows that open transactions hold have
ids different from each other's and from those in `events` (this is what the wait
of `EndInsert` gives), and the delta of each is the aggregate of its own rows, so
transactions commit in any order. The other two need, for a batch that was never
run by two jobs, what `WriterInv` says of a single job. Batches are planned one at
a time, so a batch without overlap has one runner until it is acknowledged
(`CheckpointInv`), and the steps of a job on one batch leave the table and the rows
of every other as they are (`Frame`).

For the refinement it must also be known that no step touches a row of a file that
is done. Whatever a job stages, inserts, holds in its transaction or appends to the
quarantine is a row of its own batch, and no file is in two batches (`RowsInv`); a
batch that is done is run by nobody (`RunningFilesAreNew`). So the commit of any job
is `Store`, its append `Reject`; its acknowledgement is `Finish` if it is the first
one and the batch had no second runner, and invisible otherwise; and `Start` can
mark as overlapped only a batch that is not done yet (`FilesDoneStep`).

### The directories: `PipelineProofs`

* `SeedsRepeat`: seed and place alone fix the values of each event in `incoming`,
  seed, place and bad rate whether it is malformed. Two runs of one seed publish
  the same ids, not the same timestamps.
* `BooksAreRight`: what a run counted is what it published, but for the file it is
  in.
* `RateIsKept`: whatever time each batch takes, the n-th file of a run appears n - m
  intervals or more after the batch of its m-th began, and only its last file may
  appear after its duration.
* `NothingIsArchivedEarly`, `StaleFilesAreExplained`: what is gone from `incoming`
  was done or cleaned, and what stays there too long takes the end of a job.

* `TypeCorrect`: the state keeps its types; every row read or stored is an event
  some run may draw.
* `Refinement`: generators, directories, file source, kills and `make clean` together
  implement `ExactlyOnce`.
* `DoneFilesAreComplete`: of a file that is done and that `clean` left alone, every
  good row is in `events` by its id, once however many runs repeat it, and every
  other row is in the quarantine. It follows from `Refinement` and from the steps of
  `ExactlyOnce` alone.

A run publishes its files in the order of their numbers, so none is published
twice (`BooksInv`). For the rate, `PaceInv` says of the moment a batch begins what the
property says of files: it is an interval or more after the beginning of the batch
before, because `Sleep` goes to the end of that interval or, after a slow batch, not
at all, and never further back. The cleaner is
only ever given files of acknowledged batches, and at most one batch is planned and
not acknowledged (`SourceInv`). For the seed, what is in the staging file and what
is still in memory make up one batch of the run's stream, from the place where its
number says the batch begins, and what is in `incoming` is a complete batch
(`SeedInv`).

The refinement needs `BatchInv` as well: what the job holds in memory are rows of
the listed files of its batch, each with the value and the defect its place in the
stream determines; past `StoreBatch` the good ones are in `events` by id, past
`RejectBatch` the others are in the quarantine, and a file of the batch that was not
read is one `clean` took. The abstract rows are numbered by place alone, and the
concrete ones are drawn from two streams that a malformed event moves on further
than a good one (`RngPath`). `PathEquation`, `PathPrefix` and `PathSplits` say that the
stream is the same whether drawn at once or batch by batch, whence `BatchDrawn` and
`RowsOfFile`. `StoreBatch`, `RejectBatch` and `AcknowledgeBatch` are `Store`, `Reject`
and `Finish`; every other step leaves the promise as it is, `make clean` included:
a file it takes before it is done is lost and never counts as done.

### The logs: `MonitoringProofs`

`LinesAreOrdered`, `LogIsKept`, `MissingIsExplained` and `TypeCorrect`: every
invariant of `monitoring`. The lines of the file, the events on the bus and the
batch whose event is not posted yet are one sequence in the order of the commit log
(`OrderInv`), and each batch has one event because a session has one listener, which
the flag allows to the first session of a process alone (`ListenerInv`).

### Assumptions

`TextAssumption`, `LimitAssumption`, `NullAssumption`, `RowAssumption` (finitely
many rows, each a line in a file), `InputAssumption` and `NoRowAssumption` (NULL is no
row of a table), `FitAssumption` (the prices up to 500.00 and quantities up to five
that `make_event` draws fit their columns, as they do in `decimal(10,2)` and `int`),
and those that say the bounds are natural
numbers: `StreamingAssumption`, `JobsAssumption`, `DirectoriesAssumption`,
`GeneratorAssumption`, `FileSourceAssumption`, `PipelineAssumption`,
`MonitoringAssumption`. TLC evaluates each in the runs of its module.

### Only model-checked

Liveness: `EveryPublishedFileIsDone`, `EveryFileIsDoneOrLost`, `EveryBatchIsReported`
(fairness and `ENABLED` are beyond the prover). Every other property that a passing
run checks is a theorem. The library's induction schemes are beyond the provers too,
so the two inductions over data, `RngPath` and the loop of `aggregate_by_window`, are
proved by least counterexample (`Least`, from the well-foundedness of the natural
numbers). The theorems about a recursive function rest on nothing else; a general
statement about all such functions is not attempted.

## 5. What the code does and its documentation does not say

* A valid event without a category is accepted (`postgres_setup.sql` 21) and
  then refused by `event_metrics.category NOT NULL` (85): its batch fails at
  every replay, and no later file is read (`uncategorised`).
* `derive` uses a plain cast for the revenue (transforms.py 105): a price and a
  quantity that each fit can make the batch raise (`overflow`), which
  `cast_types` says must not happen (42-49).
* `normalise` overwrites `event_type` and `category`, so the quarantine does not
  show what was received (`received`; transforms.py 53-58, 190-192).
* The warning "this batch was replayed" (sinks.py 142) also appears when nothing
  was replayed (`skipped_rows`).
* `--seed` is offered as a "seed for reproducible output" (data_generator.py 23,
  user_guide.md 108). `run` passes no `now` to `make_event` (generator.py 215, 67):
  two runs with one seed repeat the ids and values and not `generated_at` and
  `event_time` (`reproducible`). What the seed does fix is `SeedFixesTheValues`.

Two more are visible in the rules of `Transforms` and have no run of their own:
`product_id` is checked before `event_time` and `generated_at`, which schema.py 44-47
lists among the fields checked first; and a price between -0.005 and 0 is rounded
to 0.00 before its sign is tested, so it is stored, where `postgres_setup.sql` 8 says
that a negative price is quarantined.

Four more things the models show, which no run states as a violation because
the property that holds says where they end:

* Two jobs on one checkpoint can lose rows: one replaces the staging table after
  the other filled it, the `INSERT` of the other finds too little, and its
  acknowledgement ends the matter. `LossTakesAnOverlap` says that it takes two
  jobs in one batch; without that condition the property is violated. Events and
  metrics agree even then.
* `make clean` is called "Safe to run mid-project" (Makefile 107). The database is
  safe; a file that was published and not yet read is gone
  (`EveryFileIsDoneOrLost` needs `lost`), and a generator between `open` and
  `os.replace` fails.
* Two successive files of a generator may be closer than the interval, when the
  first was late and the second is not. `FilesKeepTheRate` says from when the
  interval counts: from the beginning of the first one's batch.
* After `make clean` a running process logs to a file without a name until it
  ends, and a second session in one process has no metrics line at all
  (`MissingLinesAreExplained`). `LogIsTheWholeHistory` counts the lines that went to
  the removed file as forgotten: it shows that no others are lost, and does not
  object to the loss.

## 6. Not modelled

* The options of Spark's session, credentials, trigger and batch sizes of
  `config.py`, images and volumes: input that Spark, PostgreSQL or Docker reads,
  without behaviour of the pipeline's own. `make reset` stops the stack and drops
  the volumes: what follows is the initial state.
* Levels, colours and wording of the logs; `onQueryStarted` and
  `onQueryTerminated`, which only log.
* The verification queries other than the cross-check, which read and format; the
  cross-check itself joins and shows ten lines, where `MetricsMatchEvents` is about
  every bucket.
* Retries of tasks inside Spark: they repeat a JDBC partition before the write
  call returns, and with one local executor the default is a single attempt.
* Milliseconds of event time and the order of rows in a file, and the moments that
  pass between the events of one batch; no property depends on them.
* The tests, which are read as evidence of what is intended.

## 7. Plan

Done: the row rules, the job with its sinks and tables, the promise with the proof
that the job and the pipeline implement it, the generator, the directories and the
file source composed, several jobs, the logs, and proofs of all their invariants and
refinements. What is left is to join the two ends: several jobs over the directories
of `Pipeline`, where two archiving jobs and `make clean` share the files as well.
