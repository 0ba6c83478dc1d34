----------------------------- MODULE Generator ------------------------------
(***************************************************************************)
(* The loop of generator.run: two random streams, a batch, its file in     *)
(* staging, os.replace, the count, the sleep. Nothing makes a run take its *)
(* next step: one that is killed, or stopped by Ctrl+C, is one that does   *)
(* not, since neither leaves anything behind but a line of the log.        *)
(***************************************************************************)
EXTENDS Directories

CONSTANTS
    SeedOf,      \* the seed of a run; a run without --seed has one of its own
    BadRate,     \* --bad-rate of a run
    RandomAt,    \* the value of random.Random(seed) at each position
    Interval,    \* batch_size / rate
    Duration,    \* --duration of a run, Forever if it has none
    Forever,
    Delays,      \* how long a batch may take to draw and write
    StartedAt    \* the wall-clock time at which a run started

ASSUME GeneratorAssumption ==
    /\ Interval \in Nat \ {0}
    /\ Duration \in [Runs -> Nat \union {Forever}]
    /\ Delays \subseteq Nat
    /\ StartedAt \in [Runs -> Nat]

VARIABLES
    gen_pc,      \* where each run is
    clock,       \* the time since it started (time.monotonic() - start)
    batch_start, \* that time when its last batch began
    fake_at,     \* how many events it has drawn from Faker's stream
    rng_at,      \* the position of its random.Random stream
    events,      \* the batch in memory
    batch_num,   \* the batches it has counted
    appeared     \* history: of each file, when its batch began and when it appeared

streams == <<fake_at, rng_at>>
time == <<clock, batch_start, appeared>>
generator == <<gen_pc, time, streams, events, batch_num>>

\* The next file of run g; its number is not what write_batch calls it, but
\* the name it draws is as good: no other file has it.
NextFile(g) == <<g, batch_num[g] + 1>>

GeneratorInit ==
    /\ gen_pc = [g \in Runs |-> "loop"]
    /\ clock = [g \in Runs |-> 0]
    /\ batch_start = [g \in Runs |-> 0]
    /\ fake_at = [g \in Runs |-> 0]
    /\ rng_at = [g \in Runs |-> 0]
    /\ events = [g \in Runs |-> <<>>]
    /\ batch_num = [g \in Runs |-> 0]
    /\ appeared = [g \in Runs |-> <<>>]

GoOn(g, step) == gen_pc' = [gen_pc EXCEPT ![g] = step]

-----------------------------------------------------------------------------
(* generate_batch *)

\* rng.random() < bad_rate
Corrupts(g, p) == RandomAt[SeedOf[g]][p] < BadRate[g]

\* Where the rng of run g, now at p, is after each of n events: a corrupted
\* event draws its defect too.
RngPath(g, p, n) ==
    LET at[i \in 0 .. n] ==
            IF i = 0 THEN p
            ELSE at[i - 1] + IF Corrupts(g, at[i - 1]) THEN 2 ELSE 1
    IN at

\* What Faker's stream of run g yields for its k-th event: event_id and all its
\* other fields, but of event_time only how long before generated_at it is.
Value(g, k) == <<SeedOf[g], k>>

\* datetime.now in run g; the clock does not move while a batch is drawn.
WallClock(g) == StartedAt[g] + clock[g]

\* Fault: one stream for the values and for the defects.
SharedStream(g, k, p, now) ==
    [value |-> Value(g, p + 1), generated_at |-> now, bad |-> Corrupts(g, p)]

\* The k-th event of run g, decided at position p of its rng.
Draw(g, k, p, now) ==
    [value |-> Value(g, k), generated_at |-> now, bad |-> Corrupts(g, p)]

\* run passes no now: each event takes its own from the wall clock.
generate_batch(g) ==
    LET at == RngPath(g, rng_at[g], BatchSize)
    IN [i \in 1 .. BatchSize |-> Draw(g, fake_at[g] + i, at[i - 1], WallClock(g))]

\* while duration is None or elapsed < duration
HasTime(g) == Duration[g] # Forever => clock[g] < Duration[g]

\* The duration has passed.
Finish(g) ==
    /\ gen_pc[g] = "loop"
    /\ ~HasTime(g)
    /\ GoOn(g, "ended")
    /\ UNCHANGED <<time, streams, events, batch_num, directories>>

-----------------------------------------------------------------------------
(* write_batch *)

\* The batch is drawn, in memory, and its file opened in staging.
OpenFile(g) ==
    /\ gen_pc[g] = "loop"
    /\ HasTime(g)
    /\ batch_num[g] < MaxBatches
    /\ batch_start' = [batch_start EXCEPT ![g] = clock[g]]
    /\ events' = [events EXCEPT ![g] = generate_batch(g)]
    /\ fake_at' = [fake_at EXCEPT ![g] = @ + BatchSize]
    /\ rng_at' = [rng_at EXCEPT ![g] = RngPath(g, @, BatchSize)[BatchSize]]
    /\ staging_dir' = With(staging_dir, NextFile(g), <<>>)
    /\ GoOn(g, "write")
    /\ UNCHANGED <<clock, appeared, batch_num, incoming, published>>

\* The file reaches the disk piece by piece. Once make clean has unlinked it,
\* what is written belongs to no name.
WriteRow(g) ==
    /\ gen_pc[g] = "write"
    /\ events[g] # <<>>
    /\ staging_dir' = IF NextFile(g) \in DOMAIN staging_dir
                      THEN [staging_dir EXCEPT ![NextFile(g)] = Append(@, Head(events[g]))]
                      ELSE staging_dir
    /\ events' = [events EXCEPT ![g] = Tail(@)]
    /\ UNCHANGED <<gen_pc, time, streams, batch_num, incoming, published>>

\* The file appears d after its batch began.
Publish(g, d) ==
    /\ NextFile(g) \in DOMAIN staging_dir
    /\ incoming' = With(incoming, NextFile(g), staging_dir[NextFile(g)])
    /\ staging_dir' = Without(staging_dir, {NextFile(g)})
    /\ published' = published \union {NextFile(g)}
    /\ clock' = [clock EXCEPT ![g] = @ + d]
    /\ appeared' = [appeared EXCEPT ![g] =
                       Append(@, [began |-> batch_start[g], at |-> clock[g] + d])]
    /\ GoOn(g, "sleep")

\* Fault: the file is published before it is closed.
ReplaceEarly(g) ==
    /\ gen_pc[g] = "write"
    /\ \E d \in Delays : Publish(g, d)
    /\ events' = [events EXCEPT ![g] = <<>>]
    /\ UNCHANGED <<batch_start, streams, batch_num>>

\* os.replace, after the file is closed: it changes directory in one step. What
\* the batch took to draw and write has passed on the clock by then.
Replace(g) ==
    /\ gen_pc[g] = "write"
    /\ events[g] = <<>>
    /\ \E d \in Delays : Publish(g, d)
    /\ UNCHANGED <<batch_start, streams, events, batch_num>>

\* Fault: a file that is gone is passed over.
ReplaceMissingOk(g) ==
    /\ gen_pc[g] = "write"
    /\ events[g] = <<>>
    /\ NextFile(g) \notin DOMAIN staging_dir
    /\ GoOn(g, "sleep")
    /\ UNCHANGED <<time, streams, events, batch_num, directories>>

\* FileNotFoundError, which run does not catch.
ReplaceFails(g) ==
    /\ gen_pc[g] = "write"
    /\ events[g] = <<>>
    /\ NextFile(g) \notin DOMAIN staging_dir
    /\ GoOn(g, "failed")
    /\ UNCHANGED <<time, streams, events, batch_num, directories>>

-----------------------------------------------------------------------------
(* The rest of the loop *)

\* Fault: the sleep is to the next point of a fixed timetable.
CatchUp(g) ==
    /\ gen_pc[g] = "sleep"
    /\ batch_num' = [batch_num EXCEPT ![g] = @ + 1]
    /\ clock' = [clock EXCEPT ![g] =
                     IF @ < batch_num'[g] * Interval THEN batch_num'[g] * Interval ELSE @]
    /\ GoOn(g, "loop")
    /\ UNCHANGED <<batch_start, appeared, streams, events, directories>>

\* batch_num += 1, then time.sleep(max(0.0, interval - (now - batch_start))).
Sleep(g) ==
    /\ gen_pc[g] = "sleep"
    /\ batch_num' = [batch_num EXCEPT ![g] = @ + 1]
    /\ clock' = [clock EXCEPT ![g] =
                     IF @ < batch_start[g] + Interval THEN batch_start[g] + Interval ELSE @]
    /\ GoOn(g, "loop")
    /\ UNCHANGED <<batch_start, appeared, streams, events, directories>>

GeneratorNext == \E g \in Runs :
    \/ Finish(g) \/ OpenFile(g) \/ WriteRow(g)
    \/ Replace(g) \/ ReplaceFails(g) \/ Sleep(g)

\* Runs by themselves, without a job and without make clean: nobody takes a
\* file from staging, so os.replace always finds it.
RunsInit == DirectoriesInit /\ GeneratorInit
RunsNext == \E g \in Runs :
    Finish(g) \/ OpenFile(g) \/ WriteRow(g) \/ Replace(g) \/ Sleep(g)
GeneratorSpec == RunsInit /\ [][RunsNext]_<<directories, generator>>

-----------------------------------------------------------------------------
(* What a run promises *)

\* The place of row r among the events of its run, and its event: by the seed
\* and that place alone.
Place(r) == (Number(File(r)) - 1) * BatchSize + r[2]
EventOf(r) == <<SeedOf[Run(File(r))], Place(r)>>

\* The rows no defect is drawn for.
GoodRows ==
    {r \in Rows : ~Corrupts(Run(File(r)), RngPath(Run(File(r)), 0, Place(r))[Place(r) - 1])}

\* What a seed fixes: the values Faker draws for the k-th event, event_id among
\* them, whatever was corrupted before it and in whichever batch it is
\* (generate_batch: "changing bad_rate alone never changes what a clean run's
\* values would have looked like"), and with the bad rate which events are
\* corrupted. It fixes neither generated_at nor event_time.
SeedFixesTheValues ==
    \A f \in DOMAIN incoming : \A i \in DOMAIN incoming[f] :
        /\ incoming[f][i].value = EventOf(<<f, i>>)
        /\ incoming[f][i].bad = (<<f, i>> \notin GoodRows)

\* What --seed is said to be for, "seed for reproducible output": two runs with
\* one seed and one bad rate write the same events to their files. They do not,
\* for make_event takes generated_at, and from it event_time, from the clock.
SeedReproducesTheOutput ==
    \A e, f \in DOMAIN incoming :
        /\ SeedOf[Run(e)] = SeedOf[Run(f)]
        /\ BadRate[Run(e)] = BadRate[Run(f)]
        /\ Number(e) = Number(f)
        => incoming[e] = incoming[f]

\* However long each batch took, a run never goes faster than its rate: after
\* the batch of its m-th file began, its n-th file takes n - m intervals to
\* appear, so no slow batch is made up for by a burst. (Two files one after the
\* other may be closer than an interval: the first one late, the next on time.)
\* And if a run has a duration, at most its last file appears after it.
FilesKeepTheRate ==
    \A g \in Runs : \A m, n \in DOMAIN appeared[g] :
        m < n => /\ appeared[g][m].began + (n - m) * Interval <= appeared[g][n].at
                 /\ Duration[g] # Forever => appeared[g][m].at < Duration[g]
=============================================================================
