------------------------------ MODULE Pipeline ------------------------------
(***************************************************************************)
(* Generator runs, the job and make clean at work on the same directories. *)
(* make clean removes, one after the other, the files its globs matched    *)
(* when it began.                                                          *)
(***************************************************************************)
EXTENDS Generator, FileSource

CONSTANT MaxCleans \* bound: how often make clean is given

ASSUME PipelineAssumption == MaxCleans \in Nat

VARIABLES
    doomed, \* the files of incoming make clean has yet to remove
    cleans,
    lost    \* history: files it took out of incoming before they were done

housekeeping == <<doomed, cleans, lost>>
vars == <<directories, generator, source, housekeeping>>

Init ==
    /\ DirectoriesInit
    /\ GeneratorInit
    /\ FileSourceInit
    /\ doomed = {}
    /\ cleans = 0
    /\ lost = {}

-----------------------------------------------------------------------------
(* make clean *)

\* The shell expands data/staging/*.csv and data/incoming/*.csv, and rm -f
\* unlinks the files in staging; what it has unlinked a run may still write to.
BeginClean ==
    /\ doomed = {}
    /\ cleans < MaxCleans
    /\ cleans' = cleans + 1
    /\ doomed' = DOMAIN incoming
    /\ staging_dir' = <<>>
    /\ UNCHANGED <<incoming, published, generator, source, lost>>

\* It goes on with the paths in incoming, those that are still there.
Remove(f) ==
    /\ f \in doomed
    /\ doomed' = doomed \ {f}
    /\ incoming' = Without(incoming, {f})
    /\ lost' = IF f \in DOMAIN incoming \ DoneFiles THEN lost \union {f} ELSE lost
    /\ UNCHANGED <<staging_dir, published, generator, source, cleans>>

Clean == BeginClean \/ \E f \in Files : Remove(f)

-----------------------------------------------------------------------------
Next ==
    \/ GeneratorNext /\ UNCHANGED <<source, housekeeping>>
    \/ SourceNext /\ UNCHANGED <<generator, housekeeping>>
    \/ Clean

Spec == Init /\ [][Next]_vars

\* The job takes its next step, or is started again if it ended. Nothing
\* makes a generator go on or the cleaner thread move.
FairSpec == Spec /\ WF_source(UNCHANGED <<generator, housekeeping>> /\ JobStep)

-----------------------------------------------------------------------------
(* What the pipeline promises *)

NoTotals(S) == 0

Promise == INSTANCE ExactlyOnce
    WITH FileOf <- [r \in Rows |-> File(r)],
         Good <- GoodRows,
         Id <- EventOf,
         Totals <- NoTotals,
         stored <- {x.row : x \in stored},
         totals <- 0,
         rejected <- {x.row : x \in rejected},
         done <- DoneFiles \ lost

\* From the generators' random streams to the tables, with kills, archiving
\* and make clean in between: each event of a seed is stored once however
\* many runs repeat it, and an acknowledged file that make clean left alone is
\* accounted for row by row.
KeepsThePromise == Promise!Spec

-----------------------------------------------------------------------------
(* Safety *)

Values == {Value(g, k) : g \in Runs, k \in 1 .. BatchSize * MaxBatches}
Events == [value : Values, generated_at : Nat, bad : BOOLEAN]
IsText(t) == t \in Seq(Events) /\ Len(t) <= BatchSize
IsRead(x) == x.row \in Rows /\ x.value \in Values /\ x.bad \in BOOLEAN
Appearances == [began : Nat, at : Nat]

TypeOK ==
    /\ DOMAIN staging_dir \subseteq Files
    /\ \A f \in DOMAIN staging_dir : IsText(staging_dir[f])
    /\ DOMAIN incoming \subseteq published
    /\ \A f \in DOMAIN incoming : IsText(incoming[f])
    /\ published \subseteq Files
    /\ gen_pc \in [Runs -> {"loop", "write", "sleep", "ended", "failed"}]
    /\ clock \in [Runs -> Nat]
    /\ batch_start \in [Runs -> Nat]
    /\ appeared \in [Runs -> Seq(Appearances)]
    /\ fake_at \in [Runs -> 0 .. BatchSize * MaxBatches]
    /\ rng_at \in [Runs -> 0 .. 2 * BatchSize * MaxBatches]
    /\ \A g \in Runs : IsText(events[g])
    /\ batch_num \in [Runs -> 0 .. MaxBatches]
    /\ \A b \in 1 .. Len(planned) : planned[b] \subseteq published
    /\ committed \in 0 .. Len(planned)
    /\ job \in {"down", "idle", "read", "store", "reject", "acknowledge"}
    /\ listed \union cleaner \union abandoned \union lost \subseteq published
    /\ \A x \in rows \union stored \union rejected : IsRead(x)
    /\ crashes \in 0 .. MaxCrashes
    /\ doomed \subseteq published
    /\ cleans \in 0 .. MaxCleans

PublishedBy(g) == {f \in published : Run(f) = g}
InStaging(g) == {f \in DOMAIN staging_dir : Run(f) = g}

\* What a run reports is what it published, but for one file between
\* os.replace and the count; what it leaves in staging is at most the file it
\* was stopped over, and nothing if it ran to its end.
BooksMatchTheDirectory ==
    \A g \in Runs :
        /\ Cardinality(PublishedBy(g)) = batch_num[g] + IF gen_pc[g] = "sleep" THEN 1 ELSE 0
        /\ InStaging(g) \subseteq IF gen_pc[g] = "write" THEN {NextFile(g)} ELSE {}

\* Archiving takes a file only when its batch is acknowledged: until then it
\* is in incoming for a replay, unless make clean took it.
ArchivedFilesAreDone ==
    published \subseteq DOMAIN incoming \union DoneFiles \union lost

\* A file that was read and is still in incoming is of the last batch, is
\* about to be archived, or was in the hands of a cleaner that ended with its
\* job; nothing else grows the listing (build_source, lines 83-110).
StaleFilesTakeARestart ==
    DOMAIN incoming \intersect DoneFiles \subseteq LastBatch \union cleaner \union abandoned

-----------------------------------------------------------------------------
(* Liveness *)

\* Every file that became visible is read and acknowledged in the end, unless
\* make clean took it first; a missing file does not stop the job.
EveryFileIsDoneOrLost ==
    \A f \in Files : f \in published ~> f \in DoneFiles \union lost
=============================================================================
