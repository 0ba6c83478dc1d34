--------------------------- MODULE PipelineProofs ---------------------------
(***************************************************************************)
(* Theorems about the directories, for any runs of the generator, random   *)
(* stream, rate, batch size and number of kills and cleans.                *)
(***************************************************************************)
EXTENDS Pipeline, FiniteSetTheorems, SequenceTheorems, TLAPS

-----------------------------------------------------------------------------
(* Steps *)

RunStep(g) ==
    \/ Finish(g) \/ OpenFile(g) \/ WriteRow(g)
    \/ Replace(g) \/ ReplaceFails(g) \/ Sleep(g)

\* Every step is one of a run, of the job with its cleaner, or of make clean.
LEMMA Steps ==
    ASSUME [Next]_vars
    PROVE  \/ \E g \in Runs : RunStep(g) /\ UNCHANGED <<source, housekeeping>>
           \/ SourceNext /\ UNCHANGED <<generator, housekeeping>>
           \/ Clean
           \/ UNCHANGED vars
BY DEF Next, GeneratorNext, RunStep

\* What the job leaves alone: it never writes to staging, and takes a file out
\* of incoming only to archive it.
LEMMA SourceFrame ==
    ASSUME SourceNext
    PROVE  /\ UNCHANGED <<staging_dir, published>>
           /\ \/ UNCHANGED incoming
              \/ \E f \in Files : Archive(f)
BY DEF SourceNext, JobStep, directories, Restart, PlanBatch, Plan, ReplayBatch,
       IdleTrigger, ReadBatch, ReadRaises, StoreBatch, RejectBatch, AcknowledgeBatch,
       Crash, Archive

\* A directory without some of its files holds the others as they were.
LEMMA WithoutFiles ==
    ASSUME NEW dir, NEW F
    PROVE  /\ DOMAIN Without(dir, F) = DOMAIN dir \ F
           /\ \A f \in DOMAIN dir \ F : Without(dir, F)[f] = dir[f]
BY DEF Without

\* A directory with one file more.
LEMMA WithFile ==
    ASSUME NEW dir, NEW f, NEW text
    PROVE  /\ DOMAIN With(dir, f, text) = DOMAIN dir \union {f}
           /\ With(dir, f, text)[f] = text
           /\ \A g \in DOMAIN dir \ {f} : With(dir, f, text)[g] = dir[g]
BY DEF With

-----------------------------------------------------------------------------
(* The books of a run *)

\* How many files run g has published.
Filed(g) == batch_num[g] + IF gen_pc[g] = "sleep" THEN 1 ELSE 0

\* A run publishes its files in the order of their numbers, none twice, and has
\* at most the next one in staging.
BooksInv ==
    /\ gen_pc \in [Runs -> {"loop", "write", "sleep", "ended", "failed"}]
    /\ batch_num \in [Runs -> Nat]
    /\ IsFiniteSet(published)
    /\ published \subseteq Runs \X Nat
    /\ \A f \in published : Run(f) \in Runs /\ Number(f) \in 1 .. Filed(Run(f))
    /\ BooksMatchTheDirectory

\* Only os.replace publishes, and the count follows it.
LEMMA NextBooks ==
    ASSUME BooksInv, [Next]_vars
    PROVE  BooksInv'
<1>t. /\ gen_pc \in [Runs -> {"loop", "write", "sleep", "ended", "failed"}]
      /\ batch_num \in [Runs -> Nat]
  BY DEF BooksInv
<1>1. ASSUME UNCHANGED <<published, gen_pc, batch_num>>,
             DOMAIN staging_dir' \subseteq DOMAIN staging_dir
      PROVE  BooksInv'
  BY <1>1 DEF BooksInv, BooksMatchTheDirectory, Filed, PublishedBy, InStaging, NextFile
<1>2. ASSUME NEW g \in Runs, Finish(g) PROVE BooksInv'
  <2>1. /\ gen_pc[g] = "loop" /\ gen_pc' = [gen_pc EXCEPT ![g] = "ended"]
        /\ UNCHANGED <<published, batch_num, staging_dir>>
    BY <1>2 DEF Finish, GoOn, directories
  <2> QED
    BY <1>t, <2>1
    DEF BooksInv, BooksMatchTheDirectory, Filed, PublishedBy, InStaging, NextFile
<1>3. ASSUME NEW g \in Runs, OpenFile(g) PROVE BooksInv'
  <2>1. /\ gen_pc[g] = "loop" /\ gen_pc' = [gen_pc EXCEPT ![g] = "write"]
        /\ UNCHANGED <<published, batch_num>>
        /\ DOMAIN staging_dir' = DOMAIN staging_dir \union {NextFile(g)}
    BY <1>3, WithFile DEF OpenFile, GoOn
  <2> QED
    BY <1>t, <2>1
    DEF BooksInv, BooksMatchTheDirectory, Filed, PublishedBy, InStaging, NextFile, Run
<1>4. ASSUME NEW g \in Runs, WriteRow(g) PROVE BooksInv'
  BY <1>1, <1>4 DEF WriteRow
<1>5. ASSUME NEW g \in Runs, Replace(g) PROVE BooksInv'
  <2>1. /\ gen_pc[g] = "write" /\ gen_pc' = [gen_pc EXCEPT ![g] = "sleep"]
        /\ batch_num' = batch_num
        /\ published' = published \union {NextFile(g)}
        /\ DOMAIN staging_dir' = DOMAIN staging_dir \ {NextFile(g)}
    BY <1>5, WithoutFiles DEF Replace, Publish, GoOn
  <2>2. /\ NextFile(g) = <<g, batch_num[g] + 1>>
        /\ Run(NextFile(g)) = g
        /\ Number(NextFile(g)) = batch_num[g] + 1
        /\ batch_num[g] \in Nat
    BY <1>t DEF NextFile, Run, Number
  <2>3. NextFile(g) \notin published
    BY <2>1, <2>2 DEF BooksInv, Filed
  <2>4. /\ IsFiniteSet(published')
        /\ published' \subseteq Runs \X Nat
    BY <2>1, <2>2, FS_AddElement DEF BooksInv
  <2>5. \A f \in published' : Run(f) \in Runs /\ Number(f) \in 1 .. Filed(Run(f))'
    BY <1>t, <2>1, <2>2 DEF BooksInv, Filed
  <2>6. \A h \in Runs : Cardinality(PublishedBy(h)') = Filed(h)'
    <3>1. ASSUME NEW h \in Runs \ {g} PROVE Cardinality(PublishedBy(h)') = Filed(h)'
      <4>1. PublishedBy(h)' = PublishedBy(h)
        BY <2>1, <2>2 DEF PublishedBy
      <4> QED
        BY <1>t, <2>1, <4>1 DEF BooksInv, BooksMatchTheDirectory, Filed
    <3>2. Cardinality(PublishedBy(g)') = Filed(g)'
      <4>1. PublishedBy(g)' = PublishedBy(g) \union {NextFile(g)}
        BY <2>1, <2>2 DEF PublishedBy
      <4>2. IsFiniteSet(PublishedBy(g)) /\ NextFile(g) \notin PublishedBy(g)
        BY <2>3, FS_Subset DEF PublishedBy, BooksInv
      <4>3. Cardinality(PublishedBy(g)') = Cardinality(PublishedBy(g)) + 1
        BY <4>1, <4>2, FS_AddElement
      <4>4. Cardinality(PublishedBy(g)) = batch_num[g]
        BY <1>t, <2>1, <2>2 DEF BooksInv, BooksMatchTheDirectory
      <4> QED
        BY <1>t, <2>1, <4>3, <4>4 DEF Filed
    <3> QED
      BY <3>1, <3>2
  <2>7. \A h \in Runs :
           InStaging(h)' \subseteq IF gen_pc'[h] = "write" THEN {NextFile(h)'} ELSE {}
    BY <1>t, <2>1, <2>2 DEF BooksInv, BooksMatchTheDirectory, InStaging, NextFile
  <2>8. BooksMatchTheDirectory'
    BY <2>6, <2>7 DEF BooksMatchTheDirectory, Filed
  <2> QED
    BY <1>t, <2>1, <2>4, <2>5, <2>8 DEF BooksInv
<1>6. ASSUME NEW g \in Runs, ReplaceFails(g) PROVE BooksInv'
  <2>1. /\ gen_pc[g] = "write" /\ gen_pc' = [gen_pc EXCEPT ![g] = "failed"]
        /\ UNCHANGED <<published, batch_num, staging_dir>>
        /\ NextFile(g) \notin DOMAIN staging_dir
    BY <1>6 DEF ReplaceFails, GoOn, directories
  <2> QED
    BY <1>t, <2>1
    DEF BooksInv, BooksMatchTheDirectory, Filed, PublishedBy, InStaging, NextFile
<1>7. ASSUME NEW g \in Runs, Sleep(g) PROVE BooksInv'
  <2>1. /\ gen_pc[g] = "sleep" /\ gen_pc' = [gen_pc EXCEPT ![g] = "loop"]
        /\ batch_num' = [batch_num EXCEPT ![g] = @ + 1]
        /\ UNCHANGED <<published, staging_dir>>
    BY <1>7 DEF Sleep, GoOn, directories
  <2>2. \A h \in Runs : Filed(h)' = Filed(h)
    BY <1>t, <2>1 DEF Filed
  <2>3. /\ gen_pc' \in [Runs -> {"loop", "write", "sleep", "ended", "failed"}]
        /\ batch_num' \in [Runs -> Nat]
    BY <1>t, <2>1
  <2>4. \A h \in Runs :
           InStaging(h)' \subseteq IF gen_pc'[h] = "write" THEN {NextFile(h)'} ELSE {}
    BY <1>t, <2>1 DEF BooksInv, BooksMatchTheDirectory, InStaging, NextFile
  <2>5. BooksMatchTheDirectory'
    BY <2>1, <2>2, <2>4 DEF BooksInv, BooksMatchTheDirectory, PublishedBy, Filed
  <2>6. \A f \in published' : Run(f) \in Runs /\ Number(f) \in 1 .. Filed(Run(f))'
    BY <2>1, <2>2 DEF BooksInv
  <2> QED
    BY <2>1, <2>3, <2>5, <2>6 DEF BooksInv
<1>8. CASE SourceNext /\ UNCHANGED <<generator, housekeeping>>
  BY <1>1, <1>8, SourceFrame DEF generator
<1>9. CASE Clean
  <2>1. CASE BeginClean
    BY <1>1, <2>1 DEF BeginClean, generator
  <2>2. ASSUME NEW f \in Files, Remove(f) PROVE BooksInv'
    BY <1>1, <2>2 DEF Remove, generator
  <2> QED
    BY <1>9, <2>1, <2>2 DEF Clean
<1>10. CASE UNCHANGED vars
  BY <1>1, <1>10 DEF vars, directories, generator
<1> QED
  BY <1>2, <1>3, <1>4, <1>5, <1>6, <1>7, <1>8, <1>9, <1>10, Steps DEF RunStep

-----------------------------------------------------------------------------
(* The rate *)

\* n intervals.
Elapsed(n) == n * Interval

\* Each interval adds to the time that has passed.
LEMMA Intervals ==
    /\ Elapsed(0) = 0
    /\ \A n \in Nat : Elapsed(n) \in Nat /\ Elapsed(n + 1) = Elapsed(n) + Interval
    /\ Interval \in Nat
BY GeneratorAssumption DEF Elapsed

\* The n-th file of run g keeps the rate and the duration with the m-th.
Apart(g, m, n) ==
    /\ appeared[g][m].began + Elapsed(n - m) <= appeared[g][n].at
    /\ Duration[g] # Forever => appeared[g][m].at < Duration[g]

\* The batch run g is in or comes to next begins an interval or more after each
\* before it, and only while the run has time.
Paced(g) ==
    /\ Len(appeared[g]) = Filed(g)
    /\ \A m \in 1 .. Filed(g) : appeared[g][m].at <= clock[g]
    /\ gen_pc[g] = "write" => HasTime(g) /\ batch_start[g] = clock[g]
    /\ gen_pc[g] \in {"loop", "write"} =>
          \A m \in 1 .. Filed(g) : appeared[g][m].began + Elapsed(Filed(g) + 1 - m) <= clock[g]
    /\ gen_pc[g] = "sleep" =>
          \A m \in 1 .. Filed(g) : appeared[g][m].began + Elapsed(Filed(g) - m) <= batch_start[g]
    /\ \A m, n \in 1 .. Filed(g) : m < n => Apart(g, m, n)

PaceInv ==
    /\ clock \in [Runs -> Nat]
    /\ batch_start \in [Runs -> Nat]
    /\ appeared \in [Runs -> Seq(Appearances)]
    /\ \A g \in Runs : Paced(g)

\* A run looks at the clock before each batch, and sleeps after it to the end of
\* the interval its batch began.
LEMMA NextPace ==
    ASSUME BooksInv, PaceInv, [Next]_vars
    PROVE  PaceInv'
<1>t. /\ gen_pc \in [Runs -> {"loop", "write", "sleep", "ended", "failed"}]
      /\ batch_num \in [Runs -> Nat]
      /\ clock \in [Runs -> Nat]
      /\ batch_start \in [Runs -> Nat]
      /\ appeared \in [Runs -> Seq(Appearances)]
  BY DEF BooksInv, PaceInv
<1>f. \A g \in Runs : Filed(g) \in Nat
  BY <1>t DEF Filed
<1>a. \A g \in Runs : /\ DOMAIN appeared[g] = 1 .. Filed(g)
                      /\ \A m \in 1 .. Filed(g) : appeared[g][m] \in Appearances
  <2> TAKE g \in Runs
  <2>1. appeared[g] \in Seq(Appearances) /\ Len(appeared[g]) = Filed(g)
    BY <1>t DEF PaceInv, Paced
  <2> QED
    BY <2>1, LenProperties
<1>m. \A g \in Runs : \A m \in 1 .. Filed(g) :
         appeared[g][m].began \in Nat /\ appeared[g][m].at \in Nat
  BY <1>a DEF Appearances
<1>1. CASE UNCHANGED <<gen_pc, batch_num, clock, batch_start, appeared>>
  BY <1>1 DEF PaceInv, Paced, HasTime, Filed, Apart
<1>2. ASSUME NEW g \in Runs, RunStep(g), ~WriteRow(g) PROVE PaceInv'
  <2>1. /\ clock' \in [Runs -> Nat]
        /\ batch_start' \in [Runs -> Nat]
        /\ appeared' \in [Runs -> Seq(Appearances)]
    <3>1. CASE Finish(g) \/ ReplaceFails(g)
      BY <1>t, <3>1 DEF Finish, ReplaceFails, time
    <3>2. CASE OpenFile(g)
      BY <1>t, <3>2 DEF OpenFile
    <3>3. CASE Replace(g)
      <4>1. PICK d \in Delays : Publish(g, d)
        BY <3>3 DEF Replace
      <4>2. d \in Nat /\ clock[g] + d \in Nat /\ batch_start[g] \in Nat
        BY <1>t, GeneratorAssumption
      <4>3. [began |-> batch_start[g], at |-> clock[g] + d] \in Appearances
        BY <4>2 DEF Appearances
      <4>4. Append(appeared[g], [began |-> batch_start[g], at |-> clock[g] + d])
              \in Seq(Appearances)
        BY <1>t, <4>3, AppendProperties
      <4> QED
        BY <1>t, <3>3, <4>1, <4>2, <4>4 DEF Replace, Publish
    <3>4. CASE Sleep(g)
      BY <1>t, <3>4, GeneratorAssumption DEF Sleep
    <3> QED
      BY <1>2, <3>1, <3>2, <3>3, <3>4 DEF RunStep
  <2>o. \A h \in Runs \ {g} : /\ gen_pc'[h] = gen_pc[h]
                              /\ batch_num'[h] = batch_num[h]
                              /\ clock'[h] = clock[h]
                              /\ batch_start'[h] = batch_start[h]
                              /\ appeared'[h] = appeared[h]
    BY <1>t, <1>2
    DEF RunStep, GoOn, Finish, OpenFile, Replace, Publish, ReplaceFails, Sleep, time
  <2>2. \A h \in Runs \ {g} : Paced(h)'
    BY <2>o DEF PaceInv, Paced, HasTime, Filed, Apart
  <2>3. Paced(g)
    BY DEF PaceInv
  <2>4. CASE Finish(g) \/ OpenFile(g) \/ ReplaceFails(g)
    <3>1. /\ gen_pc[g] \in {"loop", "write"}
          /\ gen_pc'[g] \in {"ended", "write", "failed"}
          /\ gen_pc'[g] = "write" =>
                /\ gen_pc[g] = "loop"
                /\ HasTime(g)
                /\ batch_start'[g] = clock[g]
          /\ UNCHANGED <<batch_num, clock, appeared>>
      BY <1>t, <2>4 DEF Finish, OpenFile, ReplaceFails, GoOn, time
    <3>2. Filed(g)' = Filed(g)
      BY <3>1 DEF Filed
    <3>3. Paced(g)'
      BY <2>3, <3>1, <3>2 DEF Paced, HasTime, Apart
    <3> QED
      BY <2>1, <2>2, <3>3 DEF PaceInv
  <2>5. CASE Replace(g)
    <3> DEFINE k == Filed(g)
               app == appeared[g]
    <3>1. PICK d \in Delays : Publish(g, d)
      BY <2>5 DEF Replace
    <3> DEFINE e == [began |-> batch_start[g], at |-> clock[g] + d]
    <3>2. /\ gen_pc[g] = "write"
          /\ gen_pc'[g] = "sleep"
          /\ UNCHANGED <<batch_num, batch_start>>
          /\ clock'[g] = clock[g] + d
          /\ appeared'[g] = Append(app, e)
      BY <1>t, <2>5, <3>1 DEF Replace, Publish, GoOn
    <3>3. Filed(g)' = k + 1 /\ k \in Nat
      BY <1>f, <1>t, <3>2 DEF Filed
    <3>4. /\ HasTime(g)
          /\ batch_start[g] = clock[g]
          /\ \A m \in 1 .. k : app[m].at <= clock[g]
          /\ \A m \in 1 .. k : app[m].began + Elapsed(k + 1 - m) <= clock[g]
          /\ \A m, n \in 1 .. k : m < n => Apart(g, m, n)
          /\ app \in Seq(Appearances)
          /\ Len(app) = k
      BY <1>t, <2>3, <3>2 DEF Paced
    <3>5. /\ Len(appeared'[g]) = k + 1
          /\ \A m \in 1 .. k : appeared'[g][m] = app[m]
          /\ appeared'[g][k + 1] = e
      <4>1. e \in Appearances
        BY <1>t, GeneratorAssumption DEF Appearances
      <4> HIDE DEF e
      <4> QED
        BY <3>2, <3>4, <4>1, AppendProperties
    <3>6. /\ clock[g] \in Nat /\ d \in Nat
          /\ \A m \in 1 .. k : app[m].began \in Nat /\ app[m].at \in Nat
          /\ \A n \in Nat : Elapsed(n) \in Nat
          /\ Elapsed(0) = 0
      BY <1>t, <1>m, Intervals, GeneratorAssumption
    <3>c. clock[g] \in Nat /\ d \in Nat /\ clock'[g] = clock[g] + d
      BY <3>2, <3>6
    <3>7. \A m \in 1 .. k + 1 : m \in 1 .. k \/ m = k + 1
      BY <3>3
    <3> HIDE DEF k, app
    <3>8. \A m \in 1 .. k + 1 : appeared'[g][m].at <= clock'[g]
      <4>1. ASSUME NEW m \in 1 .. k PROVE appeared'[g][m].at <= clock'[g]
        <5>1. appeared'[g][m].at <= clock[g] /\ appeared'[g][m].at \in Nat
          BY <3>4, <3>5, <3>6
        <5> QED
          BY <3>c, <5>1
      <4>2. appeared'[g][k + 1].at = clock'[g] /\ clock'[g] \in Nat
        BY <3>c, <3>5
      <4> QED
        BY <3>7, <4>1, <4>2
    <3>9. \A m \in 1 .. k + 1 :
             appeared'[g][m].began + Elapsed(k + 1 - m) <= batch_start'[g]
      <4>1. \A m \in 1 .. k :
               appeared'[g][m].began + Elapsed(k + 1 - m) <= batch_start'[g]
        BY <3>2, <3>4, <3>5
      <4>2. appeared'[g][k + 1].began + Elapsed(k + 1 - (k + 1)) <= batch_start'[g]
        BY <1>t, <3>2, <3>3, <3>5, <3>6
      <4> QED
        BY <3>7, <4>1, <4>2
    <3>10. ASSUME NEW m \in 1 .. k + 1, NEW n \in 1 .. k + 1, m < n PROVE Apart(g, m, n)'
      <4>1. m \in 1 .. k
        BY <3>3, <3>10
      <4>2. CASE n \in 1 .. k
        <5>1. appeared'[g][m] = appeared[g][m] /\ appeared'[g][n] = appeared[g][n]
          BY <3>5, <4>1, <4>2 DEF app
        <5>2. Apart(g, m, n)
          BY <3>4, <3>10, <4>1, <4>2
        <5> QED
          BY <5>1, <5>2 DEF Apart
      <4>3. CASE n = k + 1
        <5>1. appeared'[g][m].began + Elapsed(k + 1 - m) <= clock[g]
          BY <3>4, <3>5, <4>1
        <5>2. appeared'[g][m].began + Elapsed(k + 1 - m) \in Nat
          <6>1. k + 1 - m \in Nat
            BY <3>3, <4>1
          <6>2. Elapsed(k + 1 - m) \in Nat
            BY <3>6, <6>1
          <6>3. appeared'[g][m].began \in Nat
            BY <3>5, <3>6, <4>1
          <6> QED
            BY <6>2, <6>3
        <5>3. appeared'[g][m].began + Elapsed(n - m) <= appeared'[g][n].at
          <6>1. appeared'[g][m].began + Elapsed(k + 1 - m) <= clock[g] + d
            BY <3>6, <5>1, <5>2
          <6>2. appeared'[g][n].at = clock[g] + d
            BY <3>5, <4>3
          <6>3. Elapsed(k + 1 - m) = Elapsed(n - m)
            <7>1. k + 1 - m = n - m
              BY <3>3, <4>3
            <7> QED
              BY <7>1
          <6> QED
            BY <6>1, <6>2, <6>3, Zenon
        <5>4. Duration[g] # Forever => Duration[g] \in Nat /\ clock[g] < Duration[g]
          BY <3>4, GeneratorAssumption DEF HasTime
        <5>5. Duration[g] # Forever => appeared'[g][m].at < Duration[g]
          <6>1. appeared'[g][m].at <= clock[g] /\ appeared'[g][m].at \in Nat
            BY <3>4, <3>5, <3>6, <4>1
          <6> QED
            BY <3>6, <5>4, <6>1
        <5> QED
          BY <5>3, <5>5 DEF Apart
      <4> QED
        BY <3>7, <4>2, <4>3
    <3>11. Paced(g)'
      BY <3>2, <3>3, <3>5, <3>8, <3>9, <3>10 DEF Paced
    <3> QED
      BY <2>1, <2>2, <3>11 DEF PaceInv
  <2>6. CASE Sleep(g)
    <3> DEFINE k == Filed(g)
    <3>1. /\ gen_pc[g] = "sleep"
          /\ gen_pc'[g] = "loop"
          /\ batch_num'[g] = batch_num[g] + 1
          /\ clock'[g] = IF clock[g] < batch_start[g] + Interval
                         THEN batch_start[g] + Interval ELSE clock[g]
          /\ UNCHANGED <<batch_start, appeared>>
      BY <1>t, <2>6 DEF Sleep, GoOn
    <3>2. Filed(g)' = k /\ k \in Nat
      BY <1>f, <1>t, <3>1 DEF Filed
    <3>3. /\ clock[g] \in Nat /\ batch_start[g] \in Nat
          /\ clock'[g] >= clock[g] /\ clock'[g] >= batch_start[g] + Interval
          /\ clock'[g] \in Nat
      <4>1. clock[g] \in Nat /\ batch_start[g] \in Nat /\ Interval \in Nat
        BY <1>t, Intervals
      <4> QED
        BY <3>1, <4>1
    <3>4. /\ \A m \in 1 .. k : appeared[g][m].began + Elapsed(k - m) <= batch_start[g]
          /\ \A m \in 1 .. k : appeared[g][m].at <= clock[g]
      BY <2>3, <3>1 DEF Paced
    <3>5. ASSUME NEW m \in 1 .. k
          PROVE  /\ appeared[g][m].at <= clock'[g]
                 /\ appeared[g][m].began + Elapsed(k + 1 - m) <= clock'[g]
      <4>1. k - m \in Nat /\ k + 1 - m = (k - m) + 1
        BY <3>2
      <4>2. Elapsed(k + 1 - m) = Elapsed(k - m) + Interval /\ Elapsed(k - m) \in Nat
        BY <4>1, Intervals
      <4>3. appeared[g][m].began \in Nat /\ appeared[g][m].at \in Nat
        BY <1>m
      <4>4. appeared[g][m].began + Elapsed(k - m) <= batch_start[g]
        BY <3>4
      <4>5. appeared[g][m].began + Elapsed(k + 1 - m) <= clock'[g]
        <5> DEFINE x == Elapsed(k - m)
                   y == appeared[g][m].began
        <5>1. x \in Nat /\ y \in Nat /\ Interval \in Nat /\ y + x <= batch_start[g]
          BY <4>2, <4>3, <4>4, Intervals
        <5> HIDE DEF x, y
        <5>2. y + (x + Interval) <= clock'[g]
          BY <3>3, <5>1
        <5> QED
          BY <4>2, <5>2 DEF x, y
      <4>6. appeared[g][m].at <= clock'[g]
        <5>1. appeared[g][m].at <= clock[g]
          BY <3>4
        <5> QED
          BY <3>3, <4>3, <5>1
      <4> QED
        BY <4>5, <4>6
    <3>6. Paced(g)'
      BY <2>3, <3>1, <3>2, <3>5 DEF Paced, Apart
    <3> QED
      BY <2>1, <2>2, <3>6 DEF PaceInv
  <2> QED
    BY <1>2, <2>4, <2>5, <2>6 DEF RunStep
<1>3. ASSUME NEW g \in Runs, WriteRow(g) PROVE PaceInv'
  BY <1>1, <1>3 DEF WriteRow, time
<1>4. CASE UNCHANGED generator
  BY <1>1, <1>4 DEF generator, time
<1>5. CASE Clean
  BY <1>4, <1>5 DEF Clean, BeginClean, Remove
<1> QED
  BY <1>2, <1>3, <1>4, <1>5, Steps DEF vars

-----------------------------------------------------------------------------
(* The directories and the commit log *)

\* One batch at most is planned and not acknowledged; the cleaner is given
\* files of acknowledged batches only.
SourceInv ==
    /\ planned \in Seq(SUBSET published)
    /\ committed \in 0 .. Len(planned)
    /\ Len(planned) <= committed + 1
    /\ job \in {"read", "store", "reject", "acknowledge"} => committed < Len(planned)
    /\ cleaner \subseteq DoneFiles
    /\ DOMAIN incoming \subseteq published
    /\ ArchivedFilesAreDone
    /\ StaleFilesTakeARestart

\* A batch is archived after it is acknowledged, and by the job that goes on.
LEMMA NextSource ==
    ASSUME BooksInv, SourceInv, [Next]_vars
    PROVE  SourceInv'
<1>t. /\ planned \in Seq(SUBSET published)
      /\ Len(planned) \in Nat
      /\ committed \in 0 .. Len(planned)
  BY DEF SourceInv
<1>d. DoneFiles \subseteq published
  <2>1. \A b \in 1 .. committed : planned[b] \subseteq published
    BY <1>t
  <2> QED
    BY <2>1 DEF DoneFiles
<1>s. UNCHANGED <<planned, committed>> => DoneFiles' = DoneFiles /\ LastBatch' = LastBatch
  BY DEF DoneFiles, LastBatch
<1>1. ASSUME UNCHANGED <<incoming, published, source, lost>> PROVE SourceInv'
  BY <1>1, <1>s
  DEF SourceInv, ArchivedFilesAreDone, StaleFilesTakeARestart, source, checkpoint, memory
<1>2. ASSUME NEW g \in Runs, RunStep(g), UNCHANGED <<source, housekeeping>>
      PROVE  SourceInv'
  <2>1. CASE Replace(g)
    <3>1. /\ published' = published \union {NextFile(g)}
          /\ DOMAIN incoming' = DOMAIN incoming \union {NextFile(g)}
          /\ gen_pc[g] = "write"
      <4>1. PICK d \in Delays : Publish(g, d)
        BY <2>1 DEF Replace
      <4> QED
        BY <2>1, <4>1, WithFile DEF Replace, Publish
    <3>2. NextFile(g) \notin published
      BY <3>1 DEF BooksInv, Filed, NextFile, Run, Number
    <3>3. /\ UNCHANGED <<planned, committed, job, cleaner, abandoned, lost>>
          /\ DoneFiles' = DoneFiles
          /\ LastBatch' = LastBatch
      BY <1>2, <1>s DEF source, checkpoint, memory, housekeeping
    <3>4. planned' \in Seq(SUBSET published')
      <4>1. SUBSET published \subseteq SUBSET published'
        BY <3>1
      <4> QED
        BY <1>t, <3>3, <4>1
    <3> QED
      BY <1>t, <1>d, <3>1, <3>2, <3>3, <3>4
      DEF SourceInv, ArchivedFilesAreDone, StaleFilesTakeARestart
  <2>2. CASE ~Replace(g)
    BY <1>1, <1>2, <2>2
    DEF RunStep, directories, housekeeping, Finish, OpenFile, WriteRow, ReplaceFails, Sleep
  <2> QED
    BY <2>1, <2>2
<1>3. CASE SourceNext /\ UNCHANGED <<generator, housekeeping>>
  <2>0. UNCHANGED <<published, lost>>
    BY <1>3, SourceFrame DEF housekeeping
  <2>1. ASSUME NEW f \in Files, Archive(f) PROVE SourceInv'
    <3>1. /\ DOMAIN incoming' = DOMAIN incoming \ {f}
          /\ cleaner' = cleaner \ {f}
          /\ f \in DoneFiles
          /\ UNCHANGED <<planned, committed, job, abandoned>>
      BY <2>1, WithoutFiles DEF Archive, checkpoint, SourceInv
    <3> QED
      BY <1>s, <2>0, <3>1
      DEF SourceInv, ArchivedFilesAreDone, StaleFilesTakeARestart
  <2>2. CASE PlanBatch
    <3>1. PICK F \in SUBSET (DOMAIN incoming \ SeenFiles) :
             Plan(F) /\ cleaner' = cleaner \union LastBatch
      BY <2>2 DEF PlanBatch
    <3>2. /\ planned' = Append(planned, F)
          /\ committed = Len(planned)
          /\ UNCHANGED <<committed, incoming, abandoned>>
      BY <3>1 DEF Plan, directories
    <3>3. F \in SUBSET published
      BY <3>1 DEF SourceInv
    <3>4. /\ planned' \in Seq(SUBSET published)
          /\ Len(planned') = Len(planned) + 1
          /\ \A b \in 1 .. Len(planned) : planned'[b] = planned[b]
          /\ planned'[Len(planned) + 1] = F
      BY <1>t, <3>2, <3>3
    <3>5. DoneFiles' = DoneFiles
      BY <3>2, <3>4 DEF DoneFiles
    <3>6. LastBatch \subseteq DoneFiles
      BY <1>t, <3>2 DEF LastBatch, DoneFiles
    <3>7. /\ committed' \in 0 .. Len(planned')
          /\ Len(planned') <= committed' + 1
          /\ committed' < Len(planned')
      BY <1>t, <3>2, <3>4
    <3>8. StaleFilesTakeARestart'
      BY <3>1, <3>2, <3>5 DEF SourceInv, StaleFilesTakeARestart
    <3>9. ArchivedFilesAreDone'
      BY <2>0, <3>2, <3>5 DEF SourceInv, ArchivedFilesAreDone
    <3> QED
      BY <2>0, <3>1, <3>2, <3>4, <3>5, <3>6, <3>7, <3>8, <3>9 DEF SourceInv
  <2>3. CASE AcknowledgeBatch
    <3>1. /\ job = "acknowledge"
          /\ job' = "idle"
          /\ committed' = committed + 1
          /\ UNCHANGED <<planned, cleaner, abandoned, incoming>>
      BY <2>3 DEF AcknowledgeBatch, batch_id, directories
    <3>2. Len(planned) = committed + 1
      BY <1>t, <3>1 DEF SourceInv
    <3>3. LastBatch = planned[committed + 1] /\ LastBatch' = LastBatch
      BY <1>t, <3>1, <3>2 DEF LastBatch
    <3>4. DoneFiles' = DoneFiles \union LastBatch
      <4>1. 1 .. committed' = (1 .. committed) \union {committed + 1}
        BY <1>t, <3>1
      <4> QED
        BY <3>1, <3>3, <4>1 DEF DoneFiles
    <3>5. StaleFilesTakeARestart'
      BY <3>1, <3>3, <3>4 DEF SourceInv, StaleFilesTakeARestart
    <3>6. ArchivedFilesAreDone'
      BY <2>0, <3>1, <3>4 DEF SourceInv, ArchivedFilesAreDone
    <3> QED
      BY <1>t, <2>0, <3>1, <3>2, <3>4, <3>5, <3>6 DEF SourceInv
  <2>4. CASE GoDown /\ UNCHANGED <<checkpoint, directories>>
    BY <1>s, <2>0, <2>4
    DEF GoDown, SourceInv, ArchivedFilesAreDone, StaleFilesTakeARestart, checkpoint,
        directories
  <2>5. ASSUME UNCHANGED <<checkpoint, cleaner, abandoned, directories>>,
               job' \in {"read", "store", "reject", "acknowledge"} =>
                  committed < Len(planned)
        PROVE  SourceInv'
    BY <1>s, <2>0, <2>5
    DEF SourceInv, ArchivedFilesAreDone, StaleFilesTakeARestart, checkpoint, directories
  <2>6. CASE Restart \/ ReplayBatch \/ IdleTrigger \/ ReadBatch \/ StoreBatch \/ RejectBatch
    BY <1>t, <2>5, <2>6
    DEF Restart, ReplayBatch, IdleTrigger, ReadBatch, StoreBatch, RejectBatch, source,
        memory, SourceInv
  <2>7. CASE ReadRaises \/ Crash
    BY <2>4, <2>7 DEF ReadRaises, Crash
  <2> QED
    BY <1>3, <2>1, <2>2, <2>3, <2>6, <2>7 DEF SourceNext, JobStep
<1>4. CASE Clean
  <2>1. CASE BeginClean
    BY <1>1, <2>1 DEF BeginClean
  <2>2. ASSUME NEW f \in Files, Remove(f) PROVE SourceInv'
    <3>1. /\ DOMAIN incoming' = DOMAIN incoming \ {f}
          /\ f \in DOMAIN incoming \ DoneFiles => f \in lost'
          /\ lost \subseteq lost'
          /\ UNCHANGED <<published, planned, committed, job, cleaner, abandoned>>
      BY <2>2, WithoutFiles DEF Remove, source, checkpoint, memory
    <3> QED
      BY <1>s, <3>1 DEF SourceInv, ArchivedFilesAreDone, StaleFilesTakeARestart
  <2> QED
    BY <1>4, <2>1, <2>2 DEF Clean
<1>5. CASE UNCHANGED vars
  BY <1>1, <1>5 DEF vars, directories, housekeeping
<1> QED
  BY <1>2, <1>3, <1>4, <1>5, Steps

-----------------------------------------------------------------------------
(* The second random stream *)

\* A set of natural numbers has a least member.
LEMMA Least ==
    ASSUME NEW T, T \subseteq Nat, T # {}
    PROVE  \E n \in T : \A m \in T : n <= m
<1>1. PICK n \in T : \A m \in T : ~ (<<m, n>> \in OpToRel(<, Nat))
  BY NatLessThanWellFounded, WFMin
<1>2. \A m \in T : ~ (m < n)
  BY <1>1 DEF OpToRel
<1> QED
  BY <1>2

\* Where the rng is after an event decided at q.
After(g, q) == q + IF Corrupts(g, q) THEN 2 ELSE 1

\* at is the rng's way from p through n events.
IsPath(at, g, p, n) == at = [i \in 0 .. n |-> IF i = 0 THEN p ELSE After(g, at[i - 1])]

LEMMA PathExists ==
    ASSUME NEW g, NEW p, NEW n \in Nat
    PROVE  \E at : IsPath(at, g, p, n)
<1> DEFINE T == {m \in Nat : ~ \E at : IsPath(at, g, p, m)}
<1> SUFFICES ASSUME T # {} PROVE FALSE
  OBVIOUS
<1>1. PICK m \in T : \A k \in T : m <= k
  BY Least
<1>2. CASE m = 0
  <2>1. IsPath([i \in 0 .. 0 |-> p], g, p, 0)
    BY DEF IsPath
  <2> QED
    BY <1>2, <2>1
<1>3. CASE m # 0
  <2>1. m - 1 \in Nat /\ m - 1 \notin T
    BY <1>1, <1>3
  <2>2. PICK at : IsPath(at, g, p, m - 1)
    BY <2>1
  <2> DEFINE on == [i \in 0 .. m |-> IF i < m THEN at[i] ELSE After(g, at[m - 1])]
  <2>3. \A i \in 0 .. m - 1 : at[i] = IF i = 0 THEN p ELSE After(g, at[i - 1])
    BY <2>2 DEF IsPath
  <2>4. \A i \in 0 .. m : on[i] = IF i = 0 THEN p ELSE After(g, on[i - 1])
    BY <1>3, <2>1, <2>3
  <2>5. IsPath(on, g, p, m)
    BY <2>4 DEF IsPath
  <2> QED
    BY <2>5
<1> QED
  BY <1>2, <1>3

\* The equation RngPath is defined by.
LEMMA PathEquation ==
    ASSUME NEW g, NEW p, NEW n \in Nat
    PROVE  \A i \in 0 .. n :
              RngPath(g, p, n)[i] = IF i = 0 THEN p ELSE After(g, RngPath(g, p, n)[i - 1])
<1>1. RngPath(g, p, n) = CHOOSE at : IsPath(at, g, p, n)
  BY DEF RngPath, IsPath, After
<1>2. IsPath(RngPath(g, p, n), g, p, n)
  BY <1>1, PathExists
<1> QED
  BY <1>2 DEF IsPath

\* A longer way begins as a shorter one does.
LEMMA PathPrefix ==
    ASSUME NEW g, NEW p, NEW n \in Nat, NEW k \in Nat, n <= k
    PROVE  \A i \in 0 .. n : RngPath(g, p, n)[i] = RngPath(g, p, k)[i]
<1> DEFINE T == {i \in 0 .. n : RngPath(g, p, n)[i] # RngPath(g, p, k)[i]}
<1> SUFFICES ASSUME T # {} PROVE FALSE
  OBVIOUS
<1>1. PICK i \in T : \A j \in T : i <= j
  <2>1. T \subseteq Nat
    OBVIOUS
  <2> HIDE DEF T
  <2> QED
    BY <2>1, Least
<1>2. i # 0 => i - 1 \in 0 .. n /\ i - 1 \notin T
  BY <1>1
<1> QED
  BY <1>1, <1>2, PathEquation

\* A way split in two: n events from p, then m from where these end.
LEMMA PathSplits ==
    ASSUME NEW g, NEW p, NEW n \in Nat, NEW m \in Nat, NEW q,
           q = RngPath(g, p, n)[n], NEW k \in Nat, k >= n + m
    PROVE  \A i \in 0 .. m : RngPath(g, q, m)[i] = RngPath(g, p, k)[n + i]
<1> DEFINE T == {i \in 0 .. m : RngPath(g, q, m)[i] # RngPath(g, p, k)[n + i]}
<1> SUFFICES ASSUME T # {} PROVE FALSE
  OBVIOUS
<1>1. PICK i \in T : \A j \in T : i <= j
  <2>1. T \subseteq Nat
    OBVIOUS
  <2> HIDE DEF T
  <2> QED
    BY <2>1, Least
<1>2. i # 0
  <2>1. RngPath(g, q, m)[0] = RngPath(g, p, k)[n]
    BY PathEquation, PathPrefix
  <2> QED
    BY <1>1, <2>1
<1>3. i - 1 \in 0 .. m /\ i - 1 \notin T /\ n + i \in 0 .. k /\ n + i # 0
  BY <1>1, <1>2
<1>4. RngPath(g, q, m)[i - 1] = RngPath(g, p, k)[n + (i - 1)]
  BY <1>3
<1>5. RngPath(g, q, m)[i] = After(g, RngPath(g, q, m)[i - 1])
  BY <1>2, PathEquation
<1>6. RngPath(g, p, k)[n + i] = After(g, RngPath(g, p, k)[n + i - 1])
  BY <1>3, PathEquation
<1>7. n + i - 1 = n + (i - 1)
  OBVIOUS
<1> QED
  BY <1>4, <1>5, <1>6, <1>7

-----------------------------------------------------------------------------
(* The events of a seed *)

\* The events in n full batches.
Offset(n) == n * BatchSize

\* Each batch adds to the events drawn.
LEMMA Offsets ==
    /\ Offset(0) = 0
    /\ \A n \in Nat : Offset(n) \in Nat /\ Offset(n + 1) = Offset(n) + BatchSize
    /\ BatchSize \in Nat
BY DirectoriesAssumption DEF Offset

\* What Append and Tail do to each element.
LEMMA Writing ==
    ASSUME NEW S, NEW t \in Seq(S), NEW s \in Seq(S), s # <<>>
    PROVE  /\ Append(t, Head(s)) \in Seq(S)
           /\ Tail(s) \in Seq(S)
           /\ Len(t) \in Nat
           /\ Len(Append(t, Head(s))) = Len(t) + 1
           /\ Len(Append(t, Head(s))) + Len(Tail(s)) = Len(t) + Len(s)
           /\ DOMAIN Append(t, Head(s)) = 1 .. Len(t) + 1
           /\ DOMAIN t = 1 .. Len(t)
           /\ \A i \in 1 .. Len(t) : Append(t, Head(s))[i] = t[i]
           /\ Append(t, Head(s))[Len(t) + 1] = s[1]
           /\ 1 \in DOMAIN s
           /\ \A i \in DOMAIN Tail(s) :
                 i \in Nat /\ i + 1 \in DOMAIN s /\ Tail(s)[i] = s[i + 1]
<1>1. Head(s) \in S /\ Head(s) = s[1] /\ Tail(s) \in Seq(S) /\ Len(s) \in Nat \ {0}
  BY HeadTailProperties, EmptySeq, LenProperties
<1>2. /\ DOMAIN s = 1 .. Len(s)
      /\ DOMAIN Tail(s) = 1 .. Len(s) - 1
      /\ \A i \in 1 .. Len(s) - 1 : Tail(s)[i] = s[i + 1]
  BY <1>1, HeadTailProperties, LenProperties
<1>3. /\ Append(t, Head(s)) \in Seq(S)
      /\ Len(Append(t, Head(s))) = Len(t) + 1
      /\ \A i \in 1 .. Len(t) : Append(t, Head(s))[i] = t[i]
      /\ Append(t, Head(s))[Len(t) + 1] = s[1]
  BY <1>1, AppendProperties
<1>4. DOMAIN t = 1 .. Len(t) /\ Len(t) \in Nat
  BY LenProperties
<1>5. DOMAIN Append(t, Head(s)) = 1 .. Len(t) + 1
  BY <1>3, LenProperties
<1>6. Len(Append(t, Head(s))) + Len(Tail(s)) = Len(t) + Len(s)
  <2>1. Len(Tail(s)) = Len(s) - 1
    BY <1>1, EmptySeq, HeadTailProperties
  <2> DEFINE a == Len(Append(t, Head(s)))
             b == Len(Tail(s))
  <2>2. a = Len(t) + 1 /\ b = Len(s) - 1
    BY <1>3, <2>1
  <2> HIDE DEF a, b
  <2>3. a + b = Len(t) + Len(s)
    BY <1>1, <1>4, <2>2
  <2> QED
    BY <2>3 DEF a, b
<1> QED
  BY <1>1, <1>2, <1>3, <1>4, <1>5, <1>6

\* Where the second stream of run g is after n events, and its k-th event.
RngAfter(g, n) == RngPath(g, 0, n)[n]
Made(g, k, now) == Draw(g, k, RngAfter(g, k - 1), now)

\* Event e is the k-th of run g, at whatever instant it was drawn.
IsMade(e, g, k) == \E now \in Nat : e = Made(g, k, now)

\* The events of t are those of run g from its n-th on.
EventsFrom(g, n, t) == \A i \in DOMAIN t : IsMade(t[i], g, n + i)

\* Both streams of run g are where n events leave them.
StreamsAt(g, n) == fake_at[g] = n /\ rng_at[g] = RngAfter(g, n)

\* What file f holds when it is complete.
IsFull(f, t) ==
    /\ t = [i \in 1 .. BatchSize |-> t[i]]
    /\ \A i \in 1 .. BatchSize : IsMade(t[i], Run(f), Place(<<f, i>>))

\* How many batches run g has drawn.
Begun(g) == batch_num[g] + IF gen_pc[g] \in {"write", "sleep", "failed"} THEN 1 ELSE 0

\* A file and what is still to be written to it are one batch of the run.
Drawn(g) ==
    /\ StreamsAt(g, Offset(Begun(g)))
    /\ gen_pc[g] = "write" /\ NextFile(g) \in DOMAIN staging_dir =>
          /\ \E S : staging_dir[NextFile(g)] \in Seq(S) /\ events[g] \in Seq(S)
          /\ EventsFrom(g, Offset(batch_num[g]), staging_dir[NextFile(g)])
          /\ EventsFrom(g, Offset(batch_num[g]) + Len(staging_dir[NextFile(g)]), events[g])
          /\ Len(staging_dir[NextFile(g)]) + Len(events[g]) = BatchSize

SeedInv ==
    /\ fake_at = [g \in Runs |-> fake_at[g]]
    /\ rng_at = [g \in Runs |-> rng_at[g]]
    /\ events = [g \in Runs |-> events[g]]
    /\ \A g \in Runs : Drawn(g)
    /\ \A f \in DOMAIN incoming : IsFull(f, incoming[f])

\* A file of a run with as many events as a batch is complete.
LEMMA EventsOfFile ==
    ASSUME NEW g \in Runs, NEW n \in Nat, NEW S, NEW t \in Seq(S),
           EventsFrom(g, Offset(n), t), Len(t) = BatchSize
    PROVE  IsFull(<<g, n + 1>>, t)
<1>1. \A i : Place(<< <<g, n + 1>>, i >>) = Offset(n) + i
  <2> TAKE i
  <2>1. File(<< <<g, n + 1>>, i >>) = <<g, n + 1>> /\ << <<g, n + 1>>, i >>[2] = i
    BY DEF File
  <2>2. Number(<<g, n + 1>>) - 1 = n
    BY DEF Number
  <2> QED
    BY <2>1, <2>2 DEF Place, Offset
<1>2. Run(<<g, n + 1>>) = g
  BY DEF Run
<1>3. t = [i \in 1 .. BatchSize |-> t[i]]
  BY LenProperties
<1>4. \A i \in 1 .. BatchSize : IsMade(t[i], g, Offset(n) + i)
  BY <1>3 DEF EventsFrom
<1> QED
  BY <1>1, <1>2, <1>3, <1>4 DEF IsFull

\* A batch is the next one of both streams, and leaves them after it.
LEMMA BatchDrawn ==
    ASSUME NEW g \in Runs, NEW n \in Nat, StreamsAt(g, n), clock[g] \in Nat
    PROVE  /\ \E S : generate_batch(g) \in Seq(S)
           /\ Len(generate_batch(g)) = BatchSize
           /\ EventsFrom(g, n, generate_batch(g))
           /\ RngPath(g, rng_at[g], BatchSize)[BatchSize] = RngAfter(g, n + BatchSize)
<1> DEFINE at == RngPath(g, rng_at[g], BatchSize)
           draw(i) == Draw(g, n + i, at[i - 1], WallClock(g))
           S == {draw(i) : i \in 1 .. BatchSize}
<1>0. BatchSize \in Nat /\ WallClock(g) \in Nat
  BY Offsets, GeneratorAssumption DEF WallClock
<1>1. generate_batch(g) = [i \in 1 .. BatchSize |-> draw(i)]
  BY DEF generate_batch, StreamsAt
<1>2. \A i \in 0 .. BatchSize : at[i] = RngAfter(g, n + i)
  <2> SUFFICES ASSUME NEW i \in 0 .. BatchSize PROVE at[i] = RngAfter(g, n + i)
    OBVIOUS
  <2>1. at[i] = RngPath(g, 0, n + BatchSize)[n + i]
    BY <1>0, PathSplits DEF StreamsAt, RngAfter
  <2>2. RngPath(g, 0, n + i)[n + i] = RngPath(g, 0, n + BatchSize)[n + i]
    BY <1>0, PathPrefix
  <2> QED
    BY <2>1, <2>2 DEF RngAfter
<1>3. \A i \in 1 .. BatchSize : IsMade(draw(i), g, n + i)
  <2> SUFFICES ASSUME NEW i \in 1 .. BatchSize PROVE draw(i) = Made(g, n + i, WallClock(g))
    BY <1>0 DEF IsMade
  <2>1. i - 1 \in 0 .. BatchSize /\ n + (i - 1) = n + i - 1
    BY <1>0
  <2>2. at[i - 1] = RngAfter(g, n + i - 1)
    BY <1>2, <2>1
  <2> QED
    BY <2>2 DEF Made
<1>4. \A i \in 1 .. BatchSize : draw(i) \in S
  OBVIOUS
<1> HIDE DEF draw, S
<1>5. [i \in 1 .. BatchSize |-> draw(i)] \in Seq(S)
  BY <1>0, <1>4, IsASeq
<1>6. Len([i \in 1 .. BatchSize |-> draw(i)]) = BatchSize
  BY <1>0, <1>5, LenProperties
<1>7. EventsFrom(g, n, generate_batch(g))
  BY <1>1, <1>3 DEF EventsFrom
<1>8. at[BatchSize] = RngAfter(g, n + BatchSize)
  BY <1>0, <1>2
<1> QED
  BY <1>1, <1>5, <1>6, <1>7, <1>8

\* Writing moves an event from memory to the file, and neither os.replace nor
\* a kill changes one.
LEMMA NextSeed ==
    ASSUME BooksInv, PaceInv, SeedInv, [Next]_vars
    PROVE  SeedInv'
<1>t. /\ gen_pc \in [Runs -> {"loop", "write", "sleep", "ended", "failed"}]
      /\ batch_num \in [Runs -> Nat]
      /\ fake_at = [g \in Runs |-> fake_at[g]]
      /\ rng_at = [g \in Runs |-> rng_at[g]]
      /\ events = [g \in Runs |-> events[g]]
  BY DEF BooksInv, SeedInv
<1>1. ASSUME UNCHANGED generator,
             /\ DOMAIN staging_dir' \subseteq DOMAIN staging_dir
             /\ \A f \in DOMAIN staging_dir' : staging_dir'[f] = staging_dir[f],
             /\ DOMAIN incoming' \subseteq DOMAIN incoming
             /\ \A f \in DOMAIN incoming' : incoming'[f] = incoming[f]
      PROVE  SeedInv'
  <2>1. \A g \in Runs : Drawn(g)'
    BY <1>1 DEF SeedInv, Drawn, StreamsAt, Begun, generator, streams, NextFile
  <2>2. \A f \in DOMAIN incoming' : IsFull(f, incoming'[f])
    BY <1>1 DEF SeedInv
  <2> QED
    BY <1>1, <2>1, <2>2 DEF SeedInv, generator, streams
<1>2. ASSUME NEW g \in Runs, RunStep(g) PROVE SeedInv'
  <2>1. \A h \in Runs \ {g} : /\ gen_pc'[h] = gen_pc[h]
                              /\ batch_num'[h] = batch_num[h]
                              /\ fake_at'[h] = fake_at[h]
                              /\ rng_at'[h] = rng_at[h]
                              /\ events'[h] = events[h]
                              /\ NextFile(h)' = NextFile(h)
                              /\ NextFile(h) # NextFile(g)
    BY <1>t, <1>2
    DEF RunStep, GoOn, Publish, NextFile, Finish, OpenFile, WriteRow, Replace,
        ReplaceFails, Sleep, streams
  <2>2. \A f : f # NextFile(g) =>
           /\ f \in DOMAIN staging_dir' <=> f \in DOMAIN staging_dir
           /\ f \in DOMAIN staging_dir => staging_dir'[f] = staging_dir[f]
    BY <1>2
    DEF RunStep, With, Without, directories, Publish, Finish, OpenFile, WriteRow, Replace,
        ReplaceFails, Sleep
  <2>3. \A h \in Runs \ {g} : Drawn(h)'
    <3> SUFFICES ASSUME NEW h \in Runs \ {g} PROVE Drawn(h)'
      OBVIOUS
    <3>1. Drawn(h)
      BY DEF SeedInv
    <3>2. /\ NextFile(h) \in DOMAIN staging_dir' <=> NextFile(h) \in DOMAIN staging_dir
          /\ NextFile(h) \in DOMAIN staging_dir =>
                staging_dir'[NextFile(h)] = staging_dir[NextFile(h)]
      BY <2>1, <2>2
    <3> QED
      BY <2>1, <3>1, <3>2 DEF Drawn, StreamsAt, Begun
  <2>4. Drawn(g)
    BY DEF SeedInv
  <2>5. /\ fake_at' = [h \in Runs |-> fake_at'[h]]
        /\ rng_at' = [h \in Runs |-> rng_at'[h]]
        /\ events' = [h \in Runs |-> events'[h]]
    BY <1>t, <1>2
    DEF RunStep, Finish, OpenFile, WriteRow, Replace, ReplaceFails, Sleep, streams
  <2>6. CASE Finish(g) \/ ReplaceFails(g)
    <3>1. /\ gen_pc'[g] \in {"ended", "failed"}
          /\ Begun(g)' = Begun(g)
          /\ UNCHANGED <<fake_at, rng_at, incoming>>
      BY <1>t, <2>6 DEF Finish, ReplaceFails, GoOn, Begun, directories, streams
    <3>2. Drawn(g)'
      BY <2>4, <3>1 DEF Drawn, StreamsAt
    <3> QED
      BY <2>3, <2>5, <3>1, <3>2 DEF SeedInv
  <2>7. CASE OpenFile(g)
    <3>1. /\ gen_pc[g] = "loop"
          /\ gen_pc'[g] = "write"
          /\ events'[g] = generate_batch(g)
          /\ fake_at'[g] = fake_at[g] + BatchSize
          /\ rng_at'[g] = RngPath(g, rng_at[g], BatchSize)[BatchSize]
          /\ staging_dir'[NextFile(g)] = <<>>
          /\ UNCHANGED <<batch_num, incoming>>
          /\ NextFile(g)' = NextFile(g)
      BY <1>t, <2>7 DEF OpenFile, GoOn, NextFile, With
    <3>o. batch_num[g] \in Nat /\ Begun(g) = batch_num[g] /\ Begun(g)' = batch_num[g] + 1
      BY <1>t, <3>1 DEF Begun
    <3>2. StreamsAt(g, Offset(batch_num[g])) /\ batch_num[g] \in Nat
      BY <2>4, <3>o DEF Drawn
    <3>c. clock[g] \in Nat
      BY DEF PaceInv
    <3>b. /\ \E S : generate_batch(g) \in Seq(S)
          /\ Len(generate_batch(g)) = BatchSize
          /\ EventsFrom(g, Offset(batch_num[g]), generate_batch(g))
          /\ rng_at'[g] = RngAfter(g, Offset(batch_num[g]) + BatchSize)
      BY <3>1, <3>2, <3>c, BatchDrawn, Offsets
    <3>3. StreamsAt(g, Offset(batch_num[g] + 1))'
      <4>1. Offset(batch_num[g] + 1) = Offset(batch_num[g]) + BatchSize
        BY <3>2, Offsets
      <4> QED
        BY <3>1, <3>2, <3>b, <4>1 DEF StreamsAt
    <3>4. \E S : staging_dir'[NextFile(g)] \in Seq(S) /\ events'[g] \in Seq(S)
      <4>1. PICK S : generate_batch(g) \in Seq(S)
        BY <3>b
      <4>2. <<>> \in Seq(S)
        OBVIOUS
      <4> QED
        BY <3>1, <4>1, <4>2
    <3>5. EventsFrom(g, Offset(batch_num[g]), events'[g])
      BY <3>1, <3>b
    <3>6. /\ EventsFrom(g, Offset(batch_num[g]), staging_dir'[NextFile(g)])
          /\ Offset(batch_num[g]) + Len(staging_dir'[NextFile(g)]) = Offset(batch_num[g])
          /\ Len(staging_dir'[NextFile(g)]) + Len(events'[g]) = BatchSize
      <4>1. Len(<<>>) = 0 /\ DOMAIN <<>> = {}
        OBVIOUS
      <4> QED
        <5>1. Offset(batch_num[g]) \in Nat
          BY <3>2, Offsets
        <5>2. EventsFrom(g, Offset(batch_num[g]), <<>>)
          BY <4>1 DEF EventsFrom
        <5> QED
          BY <3>1, <3>b, <4>1, <5>1, <5>2, Offsets
    <3>7. Drawn(g)'
      BY <3>1, <3>o, <3>3, <3>4, <3>5, <3>6 DEF Drawn
    <3> QED
      BY <2>3, <2>5, <3>1, <3>7 DEF SeedInv
  <2>8. CASE WriteRow(g)
    <3>1. /\ gen_pc[g] = "write"
          /\ events[g] # <<>>
          /\ events'[g] = Tail(events[g])
          /\ UNCHANGED <<gen_pc, batch_num, fake_at, rng_at, incoming>>
          /\ NextFile(g)' = NextFile(g)
          /\ Begun(g)' = Begun(g)
          /\ DOMAIN staging_dir' = DOMAIN staging_dir
          /\ NextFile(g) \in DOMAIN staging_dir =>
                staging_dir'[NextFile(g)] = Append(staging_dir[NextFile(g)], Head(events[g]))
      BY <1>t, <2>8 DEF WriteRow, NextFile, Begun, streams
    <3>2. CASE NextFile(g) \notin DOMAIN staging_dir
      <4>1. Drawn(g)'
        BY <2>4, <3>1, <3>2 DEF Drawn, StreamsAt
      <4> QED
        BY <2>3, <2>5, <3>1, <4>1 DEF SeedInv
    <3>3. CASE NextFile(g) \in DOMAIN staging_dir
      <4> DEFINE t == staging_dir[NextFile(g)]
                 s == events[g]
                 n == Offset(batch_num[g])
      <4>1. PICK S : t \in Seq(S) /\ s \in Seq(S)
        BY <2>4, <3>1, <3>3 DEF Drawn
      <4>2. EventsFrom(g, n, t) /\ EventsFrom(g, n + Len(t), s) /\ n \in Nat
        BY <1>t, <2>4, <3>1, <3>3, Offsets DEF Drawn
      <4>3. staging_dir'[NextFile(g)] = Append(t, Head(s)) /\ events'[g] = Tail(s)
        BY <3>1, <3>3
      <4>4. StreamsAt(g, Offset(Begun(g)))'
        BY <2>4, <3>1 DEF Drawn, StreamsAt
      <4>l. Len(t) + Len(s) = BatchSize
        BY <2>4, <3>1, <3>3 DEF Drawn
      <4>e. s # <<>>
        BY <3>1
      <4> HIDE DEF t, s, n
      <4>5. Append(t, Head(s)) \in Seq(S) /\ Tail(s) \in Seq(S)
        BY <4>e, <4>1, Writing
      <4>6. EventsFrom(g, n, Append(t, Head(s)))
        <5>1. n + Len(t) + 1 = n + (Len(t) + 1)
          BY <4>e, <4>1, <4>2, Writing
        <5>2. IsMade(Append(t, Head(s))[Len(t) + 1], g, n + (Len(t) + 1))
          BY <4>e, <4>1, <4>2, <5>1, Writing DEF EventsFrom
        <5>3. \A i \in 1 .. Len(t) : IsMade(Append(t, Head(s))[i], g, n + i)
          BY <4>e, <4>1, <4>2, Writing DEF EventsFrom
        <5>4. \A i \in DOMAIN Append(t, Head(s)) : i \in 1 .. Len(t) \/ i = Len(t) + 1
          BY <4>e, <4>1, Writing
        <5> DEFINE on == Append(t, Head(s))
        <5>5. ASSUME NEW i \in DOMAIN on PROVE IsMade(on[i], g, n + i)
          <6>1. i \in 1 .. Len(t) \/ i = Len(t) + 1
            BY <5>4
          <6> QED
            BY <5>2, <5>3, <6>1
        <5> QED
          BY <5>5 DEF EventsFrom
      <4>7. EventsFrom(g, n + Len(Append(t, Head(s))), Tail(s))
        <5>1. \A i \in Nat : n + Len(t) + (i + 1) = n + (Len(t) + 1) + i
          BY <4>e, <4>1, <4>2, Writing
        <5> QED
          BY <4>e, <4>1, <4>2, <5>1, Writing DEF EventsFrom
      <4>m. Len(Append(t, Head(s))) + Len(Tail(s)) = BatchSize
        <5>1. Len(Append(t, Head(s))) + Len(Tail(s)) = Len(t) + Len(s)
          BY <4>e, <4>1, Writing
        <5> QED
          BY <4>l, <5>1
      <4>8. Drawn(g)'
        BY <3>1, <4>3, <4>4, <4>5, <4>6, <4>7, <4>m DEF Drawn, n
      <4> QED
        BY <2>3, <2>5, <3>1, <4>8 DEF SeedInv
    <3> QED
      BY <3>2, <3>3
  <2>9. CASE Replace(g)
    <3>1. /\ gen_pc[g] = "write"
          /\ gen_pc'[g] = "sleep"
          /\ NextFile(g) \in DOMAIN staging_dir
          /\ incoming' = With(incoming, NextFile(g), staging_dir[NextFile(g)])
          /\ UNCHANGED <<batch_num, fake_at, rng_at>>
          /\ NextFile(g) = <<g, batch_num[g] + 1>>
          /\ Begun(g)' = Begun(g)
          /\ events[g] = <<>>
      BY <1>t, <2>9 DEF Replace, Publish, GoOn, NextFile, Begun, streams
    <3>2. Drawn(g)'
      BY <2>4, <3>1 DEF Drawn, StreamsAt
    <3>3. IsFull(NextFile(g), staging_dir[NextFile(g)])
      <4> DEFINE t == staging_dir[NextFile(g)]
      <4>1. /\ \E S : t \in Seq(S)
            /\ EventsFrom(g, Offset(batch_num[g]), t)
            /\ Len(t) + Len(<<>>) = BatchSize
        BY <2>4, <3>1 DEF Drawn
      <4>2. PICK S : t \in Seq(S)
        BY <4>1
      <4>3. Len(t) = BatchSize
        BY <4>1, <4>2, LenProperties
      <4> HIDE DEF t
      <4>4. IsFull(<<g, batch_num[g] + 1>>, t)
        BY <1>t, <4>1, <4>2, <4>3, EventsOfFile
      <4> QED
        BY <3>1, <4>4 DEF t
    <3>4. \A f \in DOMAIN incoming' : IsFull(f, incoming'[f])
      <4>1. \A f \in DOMAIN incoming' :
               \/ f \in DOMAIN incoming /\ incoming'[f] = incoming[f]
               \/ f = NextFile(g) /\ incoming'[f] = staging_dir[NextFile(g)]
        BY <3>1 DEF With
      <4> QED
        BY <3>3, <4>1 DEF SeedInv
    <3> QED
      BY <2>3, <2>5, <3>2, <3>4 DEF SeedInv
  <2>10. CASE Sleep(g)
    <3>1. /\ gen_pc[g] = "sleep"
          /\ gen_pc'[g] = "loop"
          /\ batch_num'[g] = batch_num[g] + 1
          /\ Begun(g)' = Begun(g)
          /\ UNCHANGED <<fake_at, rng_at, incoming>>
      BY <1>t, <2>10 DEF Sleep, GoOn, Begun, directories, streams
    <3>2. Drawn(g)'
      BY <2>4, <3>1 DEF Drawn, StreamsAt
    <3> QED
      BY <2>3, <2>5, <3>1, <3>2 DEF SeedInv
  <2> QED
    BY <1>2, <2>6, <2>7, <2>8, <2>9, <2>10 DEF RunStep
<1>3. CASE SourceNext /\ UNCHANGED <<generator, housekeeping>>
  <2>1. UNCHANGED staging_dir
    BY <1>3, SourceFrame
  <2>2. /\ DOMAIN incoming' \subseteq DOMAIN incoming
        /\ \A f \in DOMAIN incoming' : incoming'[f] = incoming[f]
    BY <1>3, SourceFrame DEF Archive, Without
  <2> QED
    BY <1>1, <1>3, <2>1, <2>2
<1>4. CASE Clean
  <2>1. CASE BeginClean
    <3>1. DOMAIN staging_dir' = {} /\ UNCHANGED <<incoming, generator>>
      BY <2>1 DEF BeginClean
    <3> QED
      BY <1>1, <3>1
  <2>2. ASSUME NEW f \in Files, Remove(f) PROVE SeedInv'
    BY <1>1, <2>2 DEF Remove, Without
  <2> QED
    BY <1>4, <2>1, <2>2 DEF Clean
<1>5. CASE UNCHANGED vars
  BY <1>1, <1>5 DEF vars, directories
<1> QED
  BY <1>2, <1>3, <1>4, <1>5, Steps

-----------------------------------------------------------------------------
(* Types and bounds *)

\* The events of n + 1 batches are among those of all batches.
LEMMA WithinBound ==
    ASSUME NEW n \in Nat, n + 1 <= MaxBatches
    PROVE  /\ Offset(n + 1) <= BatchSize * MaxBatches
           /\ \A i \in 1 .. BatchSize : Offset(n) + i \in 1 .. BatchSize * MaxBatches
<1>1. BatchSize \in Nat /\ MaxBatches \in Nat
  BY DirectoriesAssumption
<1>2. PICK d \in Nat : MaxBatches = (n + 1) + d
  BY <1>1
<1>3. BatchSize * MaxBatches = Offset(n + 1) + d * BatchSize /\ d * BatchSize \in Nat
  BY <1>1, <1>2 DEF Offset
<1>4. BatchSize * MaxBatches \in Nat
  BY <1>1
<1>5. Offset(n) \in Nat /\ Offset(n + 1) = Offset(n) + BatchSize
  BY Offsets
<1> DEFINE all == BatchSize * MaxBatches
           more == d * BatchSize
<1>6. all = Offset(n + 1) + more /\ more \in Nat /\ all \in Nat
  BY <1>3, <1>4
<1> HIDE DEF all, more
<1>7. Offset(n + 1) <= all /\ \A i \in 1 .. BatchSize : Offset(n) + i \in 1 .. all
  BY <1>1, <1>5, <1>6
<1> QED
  BY <1>7 DEF all

\* What a run draws is an event.
LEMMA MadeIsEvent ==
    ASSUME NEW g \in Runs, NEW k \in 1 .. BatchSize * MaxBatches, NEW e, IsMade(e, g, k)
    PROVE  e \in Events
<1>0. PICK now \in Nat : e = Made(g, k, now)
  BY DEF IsMade
<1>1. Corrupts(g, RngAfter(g, k - 1)) \in BOOLEAN
  BY DEF Corrupts
<1>2. Value(g, k) \in Values
  BY DEF Values
<1> QED
  BY <1>0, <1>1, <1>2 DEF Made, Draw, Events

\* What a run draws for one batch is a text of events.
LEMMA TextOfRun ==
    ASSUME NEW g \in Runs, NEW n \in Nat, n + 1 <= MaxBatches, NEW S, NEW t \in Seq(S),
           EventsFrom(g, Offset(n), t), Len(t) <= BatchSize
    PROVE  IsText(t)
<1>1. Len(t) \in Nat /\ DOMAIN t = 1 .. Len(t) /\ t = [i \in 1 .. Len(t) |-> t[i]]
  BY LenProperties
<1>2. ASSUME NEW i \in 1 .. Len(t) PROVE t[i] \in Events
  <2>1. Offset(n) + i \in 1 .. BatchSize * MaxBatches
    <3>1. i \in 1 .. BatchSize
      BY <1>1, Offsets
    <3> QED
      BY <3>1, WithinBound
  <2>2. IsMade(t[i], g, Offset(n) + i)
    BY <1>1 DEF EventsFrom
  <2> QED
    BY <2>1, <2>2, MadeIsEvent
<1>3. [i \in 1 .. Len(t) |-> t[i]] \in Seq(Events)
  BY <1>1, <1>2, IsASeq
<1> QED
  BY <1>1, <1>3 DEF IsText

\* No run goes beyond its bound; the job and make clean know published files
\* only.
TypeInv ==
    /\ published \subseteq Files
    /\ DOMAIN staging_dir \subseteq Files
    /\ \A g \in Runs : Begun(g) <= MaxBatches
    /\ \A g \in Runs : IsText(events[g])
    /\ job \in {"down", "idle", "read", "store", "reject", "acknowledge"}
    /\ listed \union cleaner \union abandoned \union lost \union doomed \subseteq published
    /\ crashes \in 0 .. MaxCrashes
    /\ cleans \in 0 .. MaxCleans

\* What is left of a text is one.
LEMMA TailOfText ==
    ASSUME NEW t, IsText(t), t # <<>>
    PROVE  IsText(Tail(t))
<1>1. t \in Seq(Events) /\ Len(t) \in Nat /\ Len(t) <= BatchSize
  BY LenProperties DEF IsText
<1>2. Tail(t) \in Seq(Events) /\ Len(Tail(t)) = Len(t) - 1
  BY <1>1, HeadTailProperties, EmptySeq
<1> QED
  BY <1>1, <1>2, Offsets DEF IsText

LEMMA NextTypes ==
    ASSUME BooksInv, PaceInv, SourceInv, SeedInv, TypeInv, [Next]_vars
    PROVE  TypeInv'
<1>t. /\ gen_pc \in [Runs -> {"loop", "write", "sleep", "ended", "failed"}]
      /\ batch_num \in [Runs -> Nat]
      /\ events = [g \in Runs |-> events[g]]
      /\ MaxBatches \in Nat
  BY DirectoriesAssumption DEF BooksInv, SeedInv
<1>n. ASSUME NEW g \in Runs, batch_num[g] + 1 <= MaxBatches PROVE NextFile(g) \in Files
  BY <1>t, <1>n DEF NextFile, Files
<1>1. ASSUME UNCHANGED <<generator, published>>,
             DOMAIN staging_dir' \subseteq DOMAIN staging_dir
      PROVE  /\ published' \subseteq Files
             /\ DOMAIN staging_dir' \subseteq Files
             /\ \A g \in Runs : Begun(g)' <= MaxBatches
             /\ \A g \in Runs : IsText(events'[g])
  BY <1>1 DEF TypeInv, generator, Begun
<1>2. ASSUME NEW g \in Runs, RunStep(g), UNCHANGED <<source, housekeeping>>
      PROVE  TypeInv'
  <2>1. \A h \in Runs \ {g} : Begun(h)' = Begun(h) /\ events'[h] = events[h]
    BY <1>t, <1>2
    DEF RunStep, GoOn, Publish, Begun, Finish, OpenFile, WriteRow, Replace, ReplaceFails,
        Sleep
  <2>2. /\ job' = job
        /\ crashes' = crashes
        /\ cleans' = cleans
        /\ UNCHANGED <<listed, cleaner, abandoned, lost, doomed>>
    BY <1>2 DEF source, memory, housekeeping
  <2>3. ASSUME published' \subseteq Files,
               published \subseteq published',
               DOMAIN staging_dir' \subseteq Files,
               Begun(g)' <= MaxBatches,
               IsText(events'[g])
        PROVE  TypeInv'
    BY <2>1, <2>2, <2>3 DEF TypeInv
  <2>4. CASE Finish(g) \/ ReplaceFails(g) \/ Sleep(g)
    <3>1. UNCHANGED <<published, staging_dir, events>> /\ Begun(g)' = Begun(g)
      BY <1>t, <2>4 DEF Finish, ReplaceFails, Sleep, GoOn, Begun, directories
    <3> QED
      BY <2>3, <3>1 DEF TypeInv
  <2>5. CASE OpenFile(g)
    <3>1. /\ gen_pc[g] = "loop"
          /\ batch_num[g] + 1 <= MaxBatches
          /\ Begun(g) = batch_num[g]
          /\ Begun(g)' = batch_num[g] + 1
          /\ published' = published
          /\ DOMAIN staging_dir' = DOMAIN staging_dir \union {NextFile(g)}
          /\ events'[g] = generate_batch(g)
      BY <1>t, <2>5 DEF OpenFile, GoOn, Begun, With
    <3>2. StreamsAt(g, Offset(batch_num[g])) /\ batch_num[g] \in Nat
      <4>1. Drawn(g)
        BY DEF SeedInv
      <4> QED
        BY <1>t, <3>1, <4>1 DEF Drawn
    <3>3. /\ \E S : generate_batch(g) \in Seq(S)
          /\ Len(generate_batch(g)) = BatchSize
          /\ EventsFrom(g, Offset(batch_num[g]), generate_batch(g))
      BY <3>2, BatchDrawn, Offsets DEF PaceInv
    <3>4. IsText(events'[g])
      <4>1. PICK S : generate_batch(g) \in Seq(S)
        BY <3>3
      <4>2. Len(generate_batch(g)) <= BatchSize
        BY <3>3, Offsets
      <4>3. IsText(generate_batch(g))
        BY <3>1, <3>2, <3>3, <4>1, <4>2, TextOfRun
      <4> QED
        BY <3>1, <4>3
    <3> QED
      BY <1>n, <2>3, <3>1, <3>4 DEF TypeInv
  <2>6. CASE WriteRow(g)
    <3>1. /\ UNCHANGED <<published, gen_pc, batch_num>>
          /\ DOMAIN staging_dir' = DOMAIN staging_dir
          /\ events[g] # <<>>
          /\ events'[g] = Tail(events[g])
      BY <1>t, <2>6 DEF WriteRow
    <3>2. IsText(events'[g])
      BY <3>1, TailOfText DEF TypeInv
    <3> QED
      BY <2>3, <3>1, <3>2 DEF TypeInv, Begun
  <2>7. CASE Replace(g)
    <3>1. /\ gen_pc[g] = "write"
          /\ Begun(g)' = Begun(g)
          /\ Begun(g) = batch_num[g] + 1
          /\ published' = published \union {NextFile(g)}
          /\ DOMAIN staging_dir' = DOMAIN staging_dir \ {NextFile(g)}
          /\ events' = events
      <4>1. /\ gen_pc[g] = "write"
            /\ gen_pc' = [gen_pc EXCEPT ![g] = "sleep"]
            /\ UNCHANGED <<batch_num, events>>
            /\ published' = published \union {NextFile(g)}
            /\ DOMAIN staging_dir' = DOMAIN staging_dir \ {NextFile(g)}
        BY <2>7, WithoutFiles DEF Replace, Publish, GoOn
      <4> QED
        BY <1>t, <4>1 DEF Begun
    <3> QED
      BY <1>n, <2>3, <3>1 DEF TypeInv
  <2> QED
    BY <1>2, <2>4, <2>5, <2>6, <2>7 DEF RunStep
<1>3. CASE SourceNext /\ UNCHANGED <<generator, housekeeping>>
  <2>1. /\ UNCHANGED <<staging_dir, published>>
        /\ UNCHANGED generator
        /\ UNCHANGED <<lost, doomed, cleans>>
        /\ DOMAIN incoming \subseteq published
    <3>1. UNCHANGED <<staging_dir, published>>
      BY <1>3, SourceFrame
    <3> QED
      BY <1>3, <3>1 DEF housekeeping, SourceInv
  <2>j. /\ job \in {"down", "idle", "read", "store", "reject", "acknowledge"}
        /\ crashes \in 0 .. MaxCrashes
        /\ listed \union cleaner \union abandoned \subseteq published
    BY DEF TypeInv
  <2>2. /\ job' \in {"down", "idle", "read", "store", "reject", "acknowledge"}
        /\ crashes' \in 0 .. MaxCrashes
    <3>1. CASE Crash
      BY <2>j, <3>1, FileSourceAssumption DEF Crash, GoDown
    <3>2. CASE JobStep
      <4>1. crashes' = crashes
        BY <3>2
        DEF JobStep, Restart, PlanBatch, Plan, ReplayBatch, IdleTrigger, ReadBatch,
            ReadRaises, StoreBatch, RejectBatch, AcknowledgeBatch, source, memory
      <4>2. \/ job' \in {"down", "idle", "read", "store", "reject", "acknowledge"}
            \/ job' = job
        BY <3>2
        DEF JobStep, Restart, PlanBatch, Plan, ReplayBatch, IdleTrigger, ReadBatch,
            ReadRaises, GoDown, StoreBatch, RejectBatch, AcknowledgeBatch, source, memory
      <4> QED
        BY <2>j, <4>1, <4>2
    <3>3. ASSUME NEW f \in Files, Archive(f)
          PROVE  job' = job /\ crashes' = crashes
      BY <3>3 DEF Archive
    <3> QED
      BY <1>3, <2>j, <3>1, <3>2, <3>3 DEF SourceNext
  <2>3. /\ planned \in Seq(SUBSET published)
        /\ \A b \in 1 .. Len(planned) : planned[b] \subseteq published
        /\ Len(planned) \in Nat
    BY DEF SourceInv
  <2>4. LastBatch \subseteq published
    BY <2>3 DEF LastBatch
  <2>5. job = "idle" /\ committed < Len(planned) => planned[batch_id] \subseteq published
    BY <2>3 DEF batch_id, SourceInv
  <2>6. listed' \union cleaner' \union abandoned' \subseteq published
    BY <1>3, <2>1, <2>4, <2>5, <2>j
    DEF SourceNext, JobStep, Restart, PlanBatch, Plan, ReplayBatch, IdleTrigger,
        ReadBatch, ReadRaises, StoreBatch, RejectBatch, AcknowledgeBatch, Crash, GoDown,
        Archive, source, memory
  <2> QED
    BY <1>1, <2>1, <2>2, <2>6 DEF TypeInv
<1>4. CASE Clean
  <2>1. CASE BeginClean
    <3>1. /\ DOMAIN staging_dir' = {}
          /\ UNCHANGED <<published, generator, source, lost>>
          /\ doomed' = DOMAIN incoming
          /\ cleans' = cleans + 1
          /\ cleans < MaxCleans
      BY <2>1 DEF BeginClean
    <3> QED
      BY <1>1, <3>1, PipelineAssumption DEF TypeInv, SourceInv, source, memory
  <2>2. ASSUME NEW f \in Files, Remove(f) PROVE TypeInv'
    <3>1. /\ UNCHANGED <<staging_dir, published, generator, source, cleans>>
          /\ doomed' \subseteq doomed
          /\ lost' \subseteq lost \union {f}
          /\ f \in doomed
      BY <2>2 DEF Remove
    <3> QED
      BY <1>1, <3>1 DEF TypeInv, source, memory
  <2> QED
    BY <1>4, <2>1, <2>2 DEF Clean
<1>5. CASE UNCHANGED vars
  BY <1>1, <1>5 DEF TypeInv, vars, directories, source, memory, housekeeping
<1> QED
  BY <1>2, <1>3, <1>4, <1>5, Steps

-----------------------------------------------------------------------------
(* The batch in hand *)

InHand == planned[batch_id]
HasRows == job \in {"store", "reject", "acknowledge"}

\* What the job knows of row r once it has read it.
RowOf(r) == [row |-> r, value |-> EventOf(r), bad |-> r \notin GoodRows]
IsHeld(x) == x.row \in Rows /\ x = RowOf(x.row)

\* The files of a batch are new; its rows are all those of its files that make
\* clean left alone, and each table has its part of them when its step is over.
BatchInv ==
    /\ committed < Len(planned) => InHand \intersect DoneFiles = {}
    /\ job = "read" => InHand \ lost \subseteq listed /\ listed \subseteq InHand
    /\ HasRows => /\ \A x \in rows : File(x.row) \in InHand
                  /\ \A r \in Rows : File(r) \in InHand \ lost => RowOf(r) \in rows
    /\ job \in {"reject", "acknowledge"} =>
          \A x \in rows : ~x.bad => x.value \in values(stored)
    /\ job = "acknowledge" => \A x \in rows : x.bad => x \in rejected
    /\ \A x \in rows \union stored \union rejected : IsHeld(x)
    /\ \A x \in stored : ~x.bad
    /\ \A x \in rejected : x.bad

\* A new batch is of files that were never read.
LEMMA PlanStep ==
    ASSUME SourceInv, PlanBatch
    PROVE  /\ DoneFiles' = DoneFiles
           /\ InHand' \intersect DoneFiles = {}
           /\ listed' = InHand'
           /\ job' = "read"
           /\ UNCHANGED <<rows, stored, rejected>>
<1>1. PICK F \in SUBSET (DOMAIN incoming \ SeenFiles) : Plan(F)
  BY DEF PlanBatch
<1>2. /\ planned' = Append(planned, F)
      /\ committed' = committed
      /\ committed = Len(planned)
      /\ listed' = F
      /\ job' = "read"
      /\ UNCHANGED <<rows, stored, rejected>>
  BY <1>1 DEF Plan, database
<1>3. planned \in Seq(SUBSET published) /\ Len(planned) \in Nat
  BY DEF SourceInv
<1>4. F \in SUBSET published
  BY <1>1 DEF SourceInv
<1>5. /\ \A b \in 1 .. committed : planned'[b] = planned[b]
      /\ planned'[committed + 1] = F
  BY <1>2, <1>3, <1>4
<1>6. InHand' = F
  BY <1>2, <1>5 DEF InHand, batch_id
<1>7. DoneFiles' = DoneFiles /\ DoneFiles = SeenFiles
  BY <1>2, <1>5 DEF DoneFiles, SeenFiles
<1> QED
  BY <1>2, <1>6, <1>7

\* The acknowledged batch joins what is done, and no other is planned.
LEMMA AcknowledgeStep ==
    ASSUME SourceInv, AcknowledgeBatch
    PROVE  /\ DoneFiles' = DoneFiles \union InHand
           /\ InHand \subseteq published
           /\ committed < Len(planned)
           /\ ~ (committed < Len(planned))'
           /\ job = "acknowledge" /\ job' = "idle" /\ rows' = {}
           /\ UNCHANGED <<stored, rejected>>
<1>1. /\ job = "acknowledge" /\ job' = "idle" /\ rows' = {}
      /\ committed' = committed + 1
      /\ planned' = planned
      /\ UNCHANGED <<stored, rejected>>
  BY DEF AcknowledgeBatch, batch_id, database
<1>2. /\ planned \in Seq(SUBSET published) /\ Len(planned) \in Nat
      /\ committed \in Nat /\ Len(planned) = committed + 1
  BY <1>1 DEF SourceInv
<1>3. 1 .. committed' = (1 .. committed) \union {committed + 1}
  BY <1>1, <1>2
<1>4. DoneFiles' = DoneFiles \union InHand
  BY <1>1, <1>3 DEF DoneFiles, InHand, batch_id
<1>5. InHand \subseteq published
  BY <1>2 DEF InHand, batch_id
<1> QED
  BY <1>1, <1>2, <1>4, <1>5

\* A file in incoming holds the values of its places, with the defects that the
\* seed and the bad rate have there.
LEMMA FileHolds ==
    ASSUME SourceInv, SeedInv, TypeInv, NEW f \in DOMAIN incoming
    PROVE  /\ f \in Files
           /\ DOMAIN incoming[f] = 1 .. BatchSize
           /\ \A i \in 1 .. BatchSize :
                 /\ incoming[f][i].value = EventOf(<<f, i>>)
                 /\ incoming[f][i].bad = (<<f, i>> \notin GoodRows)
<1>1. f \in Files
  BY DEF SourceInv, TypeInv
<1>2. PICK g \in Runs, n \in 1 .. MaxBatches : f = <<g, n>>
  BY <1>1 DEF Files
<1>3. IsFull(f, incoming[f]) /\ DOMAIN incoming[f] = 1 .. BatchSize
  BY DEF SeedInv, IsFull
<1>4. ASSUME NEW i \in 1 .. BatchSize
      PROVE  /\ incoming[f][i].value = EventOf(<<f, i>>)
             /\ incoming[f][i].bad = (<<f, i>> \notin GoodRows)
  <2> DEFINE r == <<f, i>>
             k == Place(r)
  <2>1. r \in Rows /\ File(r) = f /\ Run(f) = g /\ r[2] = i /\ Number(f) = n
    BY <1>1, <1>2 DEF Rows, File, Run, Number
  <2>2. k \in Nat /\ k - 1 \in Nat
    <3>1. n - 1 \in Nat
      BY <1>2
    <3>2. k = Offset(n - 1) + i
      BY <2>1 DEF Place, Offset
    <3>3. Offset(n - 1) \in Nat
      BY <3>1, Offsets
    <3> HIDE DEF k
    <3> QED
      BY <3>2, <3>3
  <2>3. PICK now \in Nat : incoming[f][i] = Made(g, k, now)
    BY <1>3, <2>1 DEF IsFull, IsMade
  <2>4. incoming[f][i].value = EventOf(r)
    BY <2>1, <2>3 DEF Made, Draw, Value, EventOf
  <2>5. incoming[f][i].bad = (r \notin GoodRows)
    <3>1. RngPath(g, 0, k)[k - 1] = RngAfter(g, k - 1)
      <4> HIDE DEF k
      <4>1. k - 1 \in 0 .. k - 1 /\ k - 1 <= k
        BY <2>2
      <4> QED
        BY <2>2, <4>1, PathPrefix DEF RngAfter
    <3>2. r \notin GoodRows <=> Corrupts(g, RngAfter(g, k - 1))
      BY <2>1, <3>1 DEF GoodRows
    <3>3. incoming[f][i].bad = Corrupts(g, RngAfter(g, k - 1))
      BY <2>3 DEF Made, Draw
    <3>4. Corrupts(g, RngAfter(g, k - 1)) \in BOOLEAN
      BY DEF Corrupts
    <3> QED
      BY <3>2, <3>3, <3>4
  <2> QED
    BY <2>4, <2>5
<1> QED
  BY <1>1, <1>3, <1>4

\* The job reads these rows in it.
LEMMA RowsOfFile ==
    ASSUME SourceInv, SeedInv, TypeInv, NEW f \in DOMAIN incoming
    PROVE  RowsHeldBy(f) = {RowOf(<<f, i>>) : i \in 1 .. BatchSize}
<1>1. \A i \in 1 .. BatchSize :
         [row |-> <<f, i>>, value |-> incoming[f][i].value, bad |-> incoming[f][i].bad]
            = RowOf(<<f, i>>)
  BY FileHolds DEF RowOf
<1>2. DOMAIN incoming[f] = 1 .. BatchSize
  BY FileHolds
<1> QED
  BY <1>1, <1>2 DEF RowsHeldBy

LEMMA NextBatch ==
    ASSUME SourceInv, SeedInv, TypeInv, BatchInv, [Next]_vars
    PROVE  BatchInv'
<1>1. ASSUME UNCHANGED <<planned, committed, job, listed, rows, stored, rejected>>,
             lost \subseteq lost'
      PROVE  BatchInv'
  <2>1. DoneFiles' = DoneFiles /\ InHand' = InHand /\ HasRows' = HasRows
    BY <1>1 DEF DoneFiles, InHand, HasRows, batch_id
  <2> QED
    BY <1>1, <2>1 DEF BatchInv
<1>2. ASSUME NEW g \in Runs, RunStep(g), UNCHANGED <<source, housekeeping>>
      PROVE  BatchInv'
  BY <1>1, <1>2 DEF source, checkpoint, memory, database, housekeeping
<1>3. CASE SourceNext /\ UNCHANGED <<generator, housekeeping>>
  <2>0. lost' = lost
    BY <1>3 DEF housekeeping
  <2>s. UNCHANGED <<planned, committed>> => DoneFiles' = DoneFiles /\ InHand' = InHand
    BY DEF DoneFiles, InHand, batch_id
  <2>1. ASSUME NEW f \in Files, Archive(f) PROVE BatchInv'
    BY <1>1, <2>0, <2>1 DEF Archive, checkpoint, database
  <2>2. ASSUME UNCHANGED <<planned, committed, stored, rejected>>,
               job' \in {"down", "idle"},
               rows' \subseteq rows
        PROVE  BatchInv'
    BY <2>2, <2>s DEF BatchInv, HasRows
  <2>3. CASE ReadRaises \/ Crash
    BY <2>2, <2>3 DEF ReadRaises, Crash, GoDown, checkpoint, database
  <2>4. CASE Restart
    BY <2>2, <2>4 DEF Restart, checkpoint, database
  <2>5. CASE IdleTrigger
    BY <1>1, <2>0, <2>5 DEF IdleTrigger, source, checkpoint, memory, database
  <2>6. CASE PlanBatch
    BY <2>6, PlanStep DEF BatchInv, HasRows
  <2>7. CASE ReplayBatch
    <3>1. /\ UNCHANGED <<planned, committed, rows, stored, rejected>>
          /\ committed < Len(planned)
          /\ listed' = InHand \intersect DOMAIN incoming
          /\ job' = "read"
      BY <2>7 DEF ReplayBatch, InHand, checkpoint, database
    <3>2. InHand \subseteq published
      BY <3>1 DEF SourceInv, InHand, batch_id
    <3>3. InHand \ lost \subseteq listed' /\ listed' \subseteq InHand
      BY <3>1, <3>2 DEF SourceInv, ArchivedFilesAreDone, BatchInv
    <3> QED
      BY <2>0, <2>s, <3>1, <3>3 DEF BatchInv, HasRows
  <2>8. CASE ReadBatch
    <3>1. /\ UNCHANGED <<planned, committed, stored, rejected>>
          /\ job = "read" /\ job' = "store"
          /\ listed \subseteq DOMAIN incoming
          /\ rows' = UNION {RowsHeldBy(f) : f \in listed}
      BY <2>8 DEF ReadBatch, checkpoint, database
    <3>2. \A f \in listed : f \in Files /\ RowsHeldBy(f) = {RowOf(<<f, i>>) : i \in 1 .. BatchSize}
      BY <3>1, RowsOfFile DEF SourceInv, TypeInv
    <3>3. \A x \in rows' : \E f \in listed, i \in 1 .. BatchSize :
             x = RowOf(<<f, i>>) /\ x.row = <<f, i>> /\ f \in Files
      BY <3>1, <3>2 DEF RowOf
    <3>4. \A x \in rows' : File(x.row) \in InHand /\ IsHeld(x)
      <4> SUFFICES ASSUME NEW x \in rows' PROVE File(x.row) \in InHand /\ IsHeld(x)
        OBVIOUS
      <4>1. PICK f \in listed, i \in 1 .. BatchSize :
               x = RowOf(<<f, i>>) /\ x.row = <<f, i>> /\ f \in Files
        BY <3>3
      <4>2. x.row \in Rows /\ File(x.row) = f /\ x = RowOf(x.row)
        BY <4>1 DEF Rows, File
      <4>3. f \in InHand
        BY <3>1 DEF BatchInv
      <4> QED
        BY <4>2, <4>3 DEF IsHeld
    <3>5. \A r \in Rows : File(r) \in InHand \ lost => RowOf(r) \in rows'
      <4> SUFFICES ASSUME NEW r \in Rows, File(r) \in InHand \ lost PROVE RowOf(r) \in rows'
        OBVIOUS
      <4>1. File(r) \in listed
        BY <3>1 DEF BatchInv
      <4>2. PICK f \in Files, i \in 1 .. BatchSize : r = <<f, i>>
        BY DEF Rows
      <4>3. File(r) = f
        BY <4>2 DEF File
      <4> QED
        BY <3>1, <3>2, <4>1, <4>2, <4>3
    <3> QED
      BY <2>0, <2>s, <3>1, <3>4, <3>5 DEF BatchInv, HasRows
  <2>9. CASE StoreBatch
    <3>1. /\ UNCHANGED <<planned, committed, rows, rejected>>
          /\ job = "store" /\ job' = "reject"
      BY <2>9 DEF StoreBatch, checkpoint
    <3>2. PICK S \in SUBSET rows :
             /\ \A x \in S : ~x.bad
             /\ values({x \in rows : ~x.bad}) \subseteq values(stored) \union values(S)
             /\ stored' = stored \union S
      BY <2>9 DEF StoreBatch
    <3>3. \A x \in rows : ~x.bad => x.value \in values(stored')
      BY <3>2 DEF values
    <3> QED
      BY <2>0, <2>s, <3>1, <3>2, <3>3 DEF BatchInv, HasRows
  <2>10. CASE RejectBatch
    <3>1. /\ UNCHANGED <<planned, committed, rows, stored>>
          /\ job = "reject" /\ job' = "acknowledge"
          /\ rejected' = rejected \union {x \in rows : x.bad}
      BY <2>10 DEF RejectBatch, checkpoint
    <3> QED
      BY <2>0, <2>s, <3>1 DEF BatchInv, HasRows
  <2>11. CASE AcknowledgeBatch
    BY <2>11, AcknowledgeStep DEF BatchInv, HasRows
  <2> QED
    BY <1>3, <2>1, <2>3, <2>4, <2>5, <2>6, <2>7, <2>8, <2>9, <2>10, <2>11
    DEF SourceNext, JobStep
<1>4. CASE Clean
  BY <1>1, <1>4 DEF Clean, BeginClean, Remove, source, checkpoint, memory, database
<1>5. CASE UNCHANGED vars
  BY <1>1, <1>5 DEF vars, source, checkpoint, memory, database, housekeeping
<1> QED
  BY <1>2, <1>3, <1>4, <1>5, Steps

-----------------------------------------------------------------------------
(* The theorems *)

IInv == BooksInv /\ PaceInv /\ SourceInv /\ SeedInv /\ TypeInv /\ BatchInv

\* The first state, with empty directories.
LEMMA InitInv == Init => IInv
<1> SUFFICES ASSUME Init PROVE IInv
  OBVIOUS
<1> USE DEF Init, DirectoriesInit, GeneratorInit, FileSourceInit
<1>1. \A g \in Runs : PublishedBy(g) = {} /\ InStaging(g) = {} /\ Filed(g) = 0
  BY DEF PublishedBy, InStaging, Filed
<1>2. BooksInv
  <2>1. BooksMatchTheDirectory
    BY <1>1, FS_EmptySet DEF BooksMatchTheDirectory
  <2>2. IsFiniteSet(published) /\ published = {}
    BY FS_EmptySet
  <2> QED
    BY <2>1, <2>2 DEF BooksInv
<1>3. PaceInv
  <2>1. <<>> \in Seq(Appearances) /\ Len(<<>>) = 0
    OBVIOUS
  <2>2. appeared \in [Runs -> Seq(Appearances)] /\ \A g \in Runs : Len(appeared[g]) = 0
    BY <2>1
  <2> QED
    BY <1>1, <2>2 DEF PaceInv, Paced
<1>4. SourceInv
  BY DEF SourceInv, ArchivedFilesAreDone, StaleFilesTakeARestart, DoneFiles
<1>5. SeedInv
  <2>1. \A g \in Runs : RngAfter(g, 0) = 0
    BY PathEquation DEF RngAfter
  <2> QED
    BY <2>1, Offsets DEF SeedInv, Drawn, StreamsAt, Begun
<1>6. TypeInv
  <2>1. IsText(<<>>)
    BY Offsets DEF IsText
  <2> QED
    BY <2>1, DirectoriesAssumption, FileSourceAssumption, PipelineAssumption
    DEF TypeInv, Begun
<1>7. BatchInv
  BY DEF BatchInv, HasRows
<1> QED
  BY <1>2, <1>3, <1>4, <1>5, <1>6, <1>7 DEF IInv

\* Every state that is reached satisfies the invariant.
LEMMA Inductive == Spec => []IInv
<1>1. IInv /\ [Next]_vars => IInv'
  BY NextBooks, NextPace, NextSource, NextSeed, NextTypes, NextBatch DEF IInv
<1> QED
  BY InitInv, <1>1, PTL DEF Spec

\* Two runs with one seed repeat each other's values, and with one bad rate each
\* other's defects, however their files are cut short by make clean; the
\* instants are their own (generate_batch, run).
THEOREM SeedsRepeat == Spec => []SeedFixesTheValues
<1>1. IInv => SeedFixesTheValues
  BY FileHolds DEF SeedFixesTheValues, IInv
<1> QED
  BY Inductive, <1>1, PTL

\* A run that was stopped anywhere has published what it counted, but for one
\* file, and leaves one file in staging at most (write_batch, run).
THEOREM BooksAreRight == Spec => []BooksMatchTheDirectory
<1>1. IInv => BooksMatchTheDirectory
  BY DEF IInv, BooksInv
<1> QED
  BY Inductive, <1>1, PTL

\* However long each batch takes, the files of a run do not come faster than
\* batch_size / rate, and at most the last one after the duration (run).
THEOREM RateIsKept == Spec => []FilesKeepTheRate
<1>1. IInv => FilesKeepTheRate
  <2> SUFFICES ASSUME IInv, NEW g \in Runs,
                      NEW m \in DOMAIN appeared[g], NEW n \in DOMAIN appeared[g], m < n
               PROVE  /\ appeared[g][m].began + (n - m) * Interval <= appeared[g][n].at
                      /\ Duration[g] # Forever => appeared[g][m].at < Duration[g]
    BY DEF FilesKeepTheRate
  <2>1. Paced(g) /\ appeared[g] \in Seq(Appearances)
    BY DEF IInv, PaceInv
  <2>2. DOMAIN appeared[g] = 1 .. Filed(g)
    BY <2>1, LenProperties DEF Paced
  <2>3. Apart(g, m, n)
    BY <2>1, <2>2 DEF Paced
  <2> QED
    BY <2>3 DEF Apart, Elapsed
<1> QED
  BY Inductive, <1>1, PTL

\* However the job is killed and files are archived, a file that was published
\* and is gone was done or was taken by make clean (cleanSource=archive).
THEOREM NothingIsArchivedEarly == Spec => []ArchivedFilesAreDone
<1>1. IInv => ArchivedFilesAreDone
  BY DEF IInv, SourceInv
<1> QED
  BY Inductive, <1>1, PTL

\* And files that were read pile up in incoming only through the ends of jobs
\* (build_source).
THEOREM StaleFilesAreExplained == Spec => []StaleFilesTakeARestart
<1>1. IInv => StaleFilesTakeARestart
  BY DEF IInv, SourceInv
<1> QED
  BY Inductive, <1>1, PTL
-----------------------------------------------------------------------------
(* Types *)

\* An event takes the rng two positions on at most.
LEMMA PathBound ==
    ASSUME NEW g, NEW n \in Nat
    PROVE  \A i \in 0 .. n : RngPath(g, 0, n)[i] \in 0 .. 2 * i
<1> DEFINE T == {i \in 0 .. n : RngPath(g, 0, n)[i] \notin 0 .. 2 * i}
<1> SUFFICES ASSUME T # {} PROVE FALSE
  OBVIOUS
<1>1. PICK i \in T : \A j \in T : i <= j
  <2>1. T \subseteq Nat
    OBVIOUS
  <2> HIDE DEF T
  <2> QED
    BY <2>1, Least
<1>2. i # 0
  BY <1>1, PathEquation
<1>3. i - 1 \in 0 .. n /\ i - 1 \notin T
  BY <1>1, <1>2
<1>4. RngPath(g, 0, n)[i - 1] \in 0 .. 2 * (i - 1)
  BY <1>3
<1>5. RngPath(g, 0, n)[i] = After(g, RngPath(g, 0, n)[i - 1])
  BY <1>1, <1>2, PathEquation
<1> QED
  BY <1>1, <1>3, <1>4, <1>5 DEF After

\* The row's event is one its run draws.
LEMMA EventOfRow ==
    ASSUME NEW r \in Rows
    PROVE  EventOf(r) \in Values
<1>1. PICK g \in Runs, n \in 1 .. MaxBatches, i \in 1 .. BatchSize : r = << <<g, n>>, i >>
  BY DEF Rows, Files
<1>2. File(r) = <<g, n>> /\ Run(File(r)) = g /\ Number(File(r)) = n /\ r[2] = i
  BY <1>1 DEF File, Run, Number
<1>3. n - 1 \in Nat /\ (n - 1) + 1 <= MaxBatches
  BY DirectoriesAssumption
<1>4. Place(r) = Offset(n - 1) + i
  BY <1>2 DEF Place, Offset
<1>5. Place(r) \in 1 .. BatchSize * MaxBatches
  BY <1>3, <1>4, WithinBound
<1> QED
  BY <1>2, <1>5 DEF EventOf, Value, Values

\* Everything read has an event and a verdict.
LEMMA HeldIsRead ==
    ASSUME NEW x, IsHeld(x)
    PROVE  IsRead(x)
<1>1. x = RowOf(x.row) /\ x.row \in Rows
  BY DEF IsHeld
<1>2. x.value = EventOf(x.row) /\ x.bad = (x.row \notin GoodRows)
  BY <1>1 DEF RowOf
<1>3. x.bad \in BOOLEAN
  BY <1>2
<1> QED
  BY <1>1, <1>2, <1>3, EventOfRow DEF IsRead

\* The types and bounds hold for every random stream and bad rate: a file has a
\* batch of events at most, the rng is never further than two positions an
\* event, the job plans and forgets published files only.
THEOREM TypeCorrect == Spec => []TypeOK
<1>1. IInv => TypeOK
  <2> SUFFICES ASSUME IInv PROVE TypeOK
    OBVIOUS
  <2>1. BooksInv /\ PaceInv /\ SourceInv /\ SeedInv /\ TypeInv /\ BatchInv
    BY DEF IInv
  <2>2. ASSUME NEW g \in Runs
        PROVE  /\ batch_num[g] \in 0 .. MaxBatches
               /\ fake_at[g] \in 0 .. BatchSize * MaxBatches
               /\ rng_at[g] \in 0 .. 2 * BatchSize * MaxBatches
    <3> DEFINE n == Begun(g)
               all == BatchSize * MaxBatches
    <3>1. n \in Nat /\ n <= MaxBatches /\ batch_num[g] \in 0 .. n /\ MaxBatches \in Nat
      BY <2>1, DirectoriesAssumption DEF BooksInv, TypeInv, Begun
    <3>2. fake_at[g] = Offset(n) /\ rng_at[g] = RngAfter(g, Offset(n))
      BY <2>1 DEF SeedInv, Drawn, StreamsAt
    <3> HIDE DEF n
    <3>3. Offset(n) \in 0 .. all /\ all \in Nat
      <4>1. all \in Nat
        BY DirectoriesAssumption
      <4>2. CASE n = 0
        BY <4>1, <4>2, Offsets
      <4>3. CASE n # 0
        <5>1. n - 1 \in Nat /\ (n - 1) + 1 = n
          BY <3>1, <4>3
        <5>2. Offset((n - 1) + 1) <= BatchSize * MaxBatches
          BY <3>1, <5>1, WithinBound
        <5>3. Offset(n) \in Nat
          BY <3>1, Offsets
        <5> HIDE DEF all
        <5> QED
          BY <4>1, <5>1, <5>2, <5>3 DEF all
      <4> QED
        BY <4>1, <4>2, <4>3
    <3>4. RngAfter(g, Offset(n)) \in 0 .. 2 * Offset(n)
      BY <3>3, PathBound DEF RngAfter
    <3>5. 2 * BatchSize * MaxBatches = 2 * all
      BY DirectoriesAssumption
    <3> HIDE DEF all
    <3>6. 0 .. 2 * Offset(n) \subseteq 0 .. 2 * all
      BY <3>3
    <3> QED
      BY <3>1, <3>2, <3>3, <3>4, <3>5, <3>6 DEF all
  <2>3. ASSUME NEW f \in DOMAIN staging_dir PROVE IsText(staging_dir[f])
    <3>1. PICK g \in Runs, n \in 1 .. MaxBatches : f = <<g, n>>
      BY <2>1 DEF TypeInv, Files
    <3>2. gen_pc[g] = "write" /\ f = NextFile(g)
      BY <2>1, <3>1 DEF BooksInv, BooksMatchTheDirectory, InStaging, Run
    <3>3. /\ \E S : staging_dir[f] \in Seq(S) /\ events[g] \in Seq(S)
          /\ EventsFrom(g, Offset(batch_num[g]), staging_dir[f])
          /\ Len(staging_dir[f]) + Len(events[g]) = BatchSize
      <4>1. Drawn(g)
        BY <2>1 DEF SeedInv
      <4> QED
        BY <3>2, <4>1 DEF Drawn
    <3>4. PICK S : staging_dir[f] \in Seq(S) /\ events[g] \in Seq(S)
      BY <3>3
    <3>5. Len(staging_dir[f]) <= BatchSize
      <4>1. Len(staging_dir[f]) \in Nat /\ Len(events[g]) \in Nat
        BY <3>4, LenProperties
      <4>2. \A a, b, c \in Nat : a + b = c => a <= c
        OBVIOUS
      <4>3. Len(staging_dir[f]) + Len(events[g]) = BatchSize /\ BatchSize \in Nat
        BY <3>3, Offsets
      <4> QED
        BY <4>1, <4>2, <4>3
    <3>6. batch_num[g] \in Nat /\ batch_num[g] + 1 <= MaxBatches
      BY <2>1, <3>2 DEF BooksInv, TypeInv, Begun
    <3> QED
      BY <3>3, <3>4, <3>5, <3>6, TextOfRun
  <2>4. ASSUME NEW f \in DOMAIN incoming PROVE IsText(incoming[f])
    <3>1. PICK g \in Runs, n \in 1 .. MaxBatches : f = <<g, n>>
      BY <2>1 DEF SourceInv, TypeInv, Files
    <3>2. IsFull(f, incoming[f])
      BY <2>1 DEF SeedInv
    <3>3. ASSUME NEW i \in 1 .. BatchSize PROVE incoming[f][i] \in Events
      <4>1. Run(f) = g /\ Number(f) = n /\ File(<<f, i>>) = f /\ <<f, i>>[2] = i
        BY <3>1 DEF Run, Number, File
      <4>2. n - 1 \in Nat /\ (n - 1) + 1 <= MaxBatches
        BY DirectoriesAssumption
      <4>3. Place(<<f, i>>) = Offset(n - 1) + i
        BY <4>1 DEF Place, Offset
      <4> QED
        BY <3>2, <4>1, <4>2, <4>3, WithinBound, MadeIsEvent DEF IsFull
    <3>4. [i \in 1 .. BatchSize |-> incoming[f][i]] \in Seq(Events)
      <4> DEFINE event(i) == incoming[f][i]
      <4>1. \A i \in 1 .. BatchSize : event(i) \in Events
        BY <3>3
      <4> HIDE DEF event
      <4>2. [i \in 1 .. BatchSize |-> event(i)] \in Seq(Events)
        BY <4>1, Offsets, IsASeq
      <4> QED
        BY <4>2 DEF event
    <3>5. incoming[f] \in Seq(Events) /\ DOMAIN incoming[f] = 1 .. BatchSize
      <4>1. incoming[f] = [i \in 1 .. BatchSize |-> incoming[f][i]]
        BY <3>2 DEF IsFull
      <4> QED
        BY <3>4, <4>1
    <3>6. Len(incoming[f]) = BatchSize
      BY <3>5, Offsets, LenProperties
    <3> QED
      BY <3>5, <3>6, Offsets DEF IsText
  <2>5. \A x \in rows \union stored \union rejected : IsRead(x)
    BY <2>1, HeldIsRead DEF BatchInv
  <2>6. \A b \in 1 .. Len(planned) : planned[b] \subseteq published
    BY <2>1 DEF SourceInv
  <2>7. /\ fake_at \in [Runs -> 0 .. BatchSize * MaxBatches]
        /\ rng_at \in [Runs -> 0 .. 2 * BatchSize * MaxBatches]
        /\ batch_num \in [Runs -> 0 .. MaxBatches]
        /\ gen_pc \in [Runs -> {"loop", "write", "sleep", "ended", "failed"}]
        /\ clock \in [Runs -> Nat]
        /\ batch_start \in [Runs -> Nat]
        /\ appeared \in [Runs -> Seq(Appearances)]
    <3>1. /\ fake_at = [g \in Runs |-> fake_at[g]]
          /\ rng_at = [g \in Runs |-> rng_at[g]]
          /\ batch_num = [g \in Runs |-> batch_num[g]]
      BY <2>1 DEF SeedInv, BooksInv
    <3>2. /\ gen_pc \in [Runs -> {"loop", "write", "sleep", "ended", "failed"}]
          /\ clock \in [Runs -> Nat]
          /\ batch_start \in [Runs -> Nat]
          /\ appeared \in [Runs -> Seq(Appearances)]
      BY <2>1 DEF BooksInv, PaceInv
    <3> QED
      BY <2>2, <3>1, <3>2
  <2>8. /\ DOMAIN incoming \subseteq published
        /\ committed \in 0 .. Len(planned)
    BY <2>1 DEF SourceInv
  <2>9. /\ published \subseteq Files
        /\ DOMAIN staging_dir \subseteq Files
        /\ \A g \in Runs : IsText(events[g])
        /\ job \in {"down", "idle", "read", "store", "reject", "acknowledge"}
        /\ listed \union cleaner \union abandoned \union lost \subseteq published
        /\ doomed \subseteq published
        /\ crashes \in 0 .. MaxCrashes
        /\ cleans \in 0 .. MaxCleans
    BY <2>1 DEF TypeInv
  <2> QED
    BY <2>3, <2>4, <2>5, <2>6, <2>7, <2>8, <2>9 DEF TypeOK
<1> QED
  BY Inductive, <1>1, PTL

-----------------------------------------------------------------------------
(* The pipeline implements ExactlyOnce *)

LEMMA PromiseInit == Init => Promise!Init
<1> SUFFICES ASSUME Init PROVE Promise!Init
  OBVIOUS
<1>1. DoneFiles \ lost = {} /\ stored = {} /\ rejected = {}
  BY DEF Init, FileSourceInit, DoneFiles
<1> QED
  BY <1>1 DEF Promise!Init, NoTotals

\* The steps the promise does not see.
LEMMA PromiseStutter ==
    ASSUME UNCHANGED <<stored, rejected>>, DoneFiles' \ lost' = DoneFiles \ lost
    PROVE  UNCHANGED Promise!promise
BY DEF Promise!promise

\* Ids of rows are values of what is held.
LEMMA IdsAreValues ==
    ASSUME NEW S, \A x \in S : IsHeld(x)
    PROVE  Promise!Ids({x.row : x \in S}) = values(S)
<1>1. \A x \in S : EventOf(x.row) = x.value
  BY DEF IsHeld, RowOf
<1> QED
  BY <1>1 DEF Promise!Ids, values

LEMMA PromiseNext == IInv /\ [Next]_vars => [Promise!Next]_Promise!promise
<1> SUFFICES ASSUME IInv, [Next]_vars
             PROVE  [Promise!Next]_Promise!promise
  OBVIOUS
<1>t. SourceInv /\ TypeInv /\ BatchInv
  BY DEF IInv
<1>h. /\ \A x \in rows \union stored \union rejected : x.row \in Rows /\ IsHeld(x)
      /\ \A x \in rows \union stored \union rejected : x.bad <=> x.row \notin GoodRows
  <2>1. \A x \in rows \union stored \union rejected : IsHeld(x)
    BY <1>t DEF BatchInv
  <2>2. \A x : IsHeld(x) => x.row \in Rows /\ (x.bad <=> x.row \notin GoodRows)
    <3> SUFFICES ASSUME NEW x, IsHeld(x)
                 PROVE  x.row \in Rows /\ (x.bad <=> x.row \notin GoodRows)
      OBVIOUS
    <3>1. x = RowOf(x.row) /\ x.row \in Rows
      BY DEF IsHeld
    <3>2. RowOf(x.row).bad = (x.row \notin GoodRows)
      BY DEF RowOf
    <3> QED
      BY <3>1, <3>2
  <2> QED
    BY <2>1, <2>2
<1>f. ASSUME HasRows
      PROVE  \A x \in rows : [r \in Rows |-> File(r)][x.row] \notin DoneFiles \ lost
  BY <1>t, <1>h, <1>f DEF SourceInv, BatchInv, HasRows
<1>s. UNCHANGED <<planned, committed, lost>> => DoneFiles' \ lost' = DoneFiles \ lost
  BY DEF DoneFiles
<1>1. CASE StoreBatch /\ UNCHANGED <<generator, housekeeping>>
  <2>1. /\ job = "store"
        /\ UNCHANGED <<planned, committed, lost, rejected>>
    BY <1>1 DEF StoreBatch, checkpoint, housekeeping
  <2>2. PICK S \in SUBSET {x \in rows : ~x.bad /\ x.value \notin values(stored)} :
           /\ \A x, y \in S : x.value = y.value => x = y
           /\ stored' = stored \union S
    BY <1>1 DEF StoreBatch
  <2> DEFINE T == {x.row : x \in S}
  <2>3. T \in SUBSET GoodRows
    BY <1>h, <2>2
  <2>4. \A r \in T : [q \in Rows |-> File(q)][r] \notin DoneFiles \ lost
    BY <1>f, <2>1, <2>2 DEF HasRows
  <2>5. \A r, q \in T : EventOf(r) = EventOf(q) => r = q
    <3>1. \A x \in S : EventOf(x.row) = x.value
      BY <1>h, <2>2 DEF IsHeld, RowOf
    <3> QED
      BY <2>2, <3>1
  <2>6. Promise!Ids(T) \intersect Promise!Ids({x.row : x \in stored}) = {}
    <3>1. Promise!Ids(T) = values(S)
      BY <1>h, <2>2, IdsAreValues
    <3>2. Promise!Ids({x.row : x \in stored}) = values(stored)
      BY <1>h, IdsAreValues
    <3> QED
      BY <2>2, <3>1, <3>2 DEF values
  <2>7. {x.row : x \in stored'} = {x.row : x \in stored} \union T
    BY <2>2
  <2>8. DoneFiles' \ lost' = DoneFiles \ lost /\ {x.row : x \in rejected'} = {x.row : x \in rejected}
    BY <1>s, <2>1
  <2>9. Promise!Store(T)
    BY <2>4, <2>5, <2>6, <2>7, <2>8 DEF Promise!Store, NoTotals
  <2> QED
    BY <2>3, <2>9 DEF Promise!Next
<1>2. CASE RejectBatch /\ UNCHANGED <<generator, housekeeping>>
  <2>1. PICK S, T :
           /\ job = "reject"
           /\ UNCHANGED <<planned, committed, lost, stored>>
           /\ S = {x \in rows : x.bad}
           /\ T = {x.row : x \in S}
           /\ rejected' = rejected \union S
    BY <1>2 DEF RejectBatch, checkpoint, housekeeping
  <2>2. T \in SUBSET Promise!Bad
    BY <1>h, <2>1 DEF Promise!Bad
  <2>3. \A r \in T : [q \in Rows |-> File(q)][r] \notin DoneFiles \ lost
    BY <1>f, <2>1 DEF HasRows
  <2>4. {x.row : x \in rejected'} = {x.row : x \in rejected} \union T
    BY <2>1
  <2>5. DoneFiles' \ lost' = DoneFiles \ lost /\ {x.row : x \in stored'} = {x.row : x \in stored}
    BY <1>s, <2>1
  <2>6. Promise!Reject(T)
    BY <2>3, <2>4, <2>5 DEF Promise!Reject
  <2> QED
    BY <2>2, <2>6 DEF Promise!Next
<1>3. CASE AcknowledgeBatch /\ UNCHANGED <<generator, housekeeping>>
  <2> DEFINE F == InHand \ lost
  <2>1. /\ DoneFiles' = DoneFiles \union InHand
        /\ InHand \subseteq published
        /\ committed < Len(planned)
        /\ job = "acknowledge"
        /\ UNCHANGED <<stored, rejected, lost>>
    BY <1>t, <1>3, AcknowledgeStep DEF housekeeping
  <2>2. F \in SUBSET Files /\ F \intersect (DoneFiles \ lost) = {}
    BY <1>t, <2>1 DEF TypeInv, BatchInv
  <2>3. DoneFiles' \ lost' = (DoneFiles \ lost) \union F
    BY <2>1
  <2>4. ASSUME NEW r \in Promise!RowsOf(F)
        PROVE  /\ r \in Rows
               /\ RowOf(r) \in rows
               /\ r \in GoodRows => EventOf(r) \in values(stored)
               /\ r \notin GoodRows => r \in {x.row : x \in rejected}
    <3>1. r \in Rows /\ File(r) \in F
      BY DEF Promise!RowsOf
    <3>2. RowOf(r) \in rows
      BY <1>t, <2>1, <3>1 DEF BatchInv, HasRows
    <3>3. /\ RowOf(r).row = r
          /\ RowOf(r).value = EventOf(r)
          /\ RowOf(r).bad <=> r \notin GoodRows
      BY DEF RowOf
    <3>4. /\ ~RowOf(r).bad => RowOf(r).value \in values(stored)
          /\ RowOf(r).bad => RowOf(r) \in rejected
      BY <1>t, <2>1, <3>2 DEF BatchInv
    <3> QED
      BY <3>1, <3>2, <3>3, <3>4
  <2>5. Promise!Ids({x.row : x \in stored}) = values(stored)
    BY <1>h, IdsAreValues
  <2>6. Promise!AccountedFor(F)
    <3>1. Promise!Ids(Promise!RowsOf(F) \intersect GoodRows) \subseteq values(stored)
      BY <2>4 DEF Promise!Ids
    <3>2. Promise!RowsOf(F) \intersect Promise!Bad \subseteq {x.row : x \in rejected}
      BY <2>4 DEF Promise!Bad
    <3> QED
      BY <2>5, <3>1, <3>2 DEF Promise!AccountedFor
  <2>7. Promise!Finish(F)
    BY <2>1, <2>2, <2>3, <2>6 DEF Promise!Finish
  <2> QED
    BY <2>2, <2>7 DEF Promise!Next
<1>4. CASE PlanBatch /\ UNCHANGED <<generator, housekeeping>>
  BY <1>t, <1>4, PlanStep, PromiseStutter DEF housekeeping
<1>5. CASE UNCHANGED source /\ UNCHANGED housekeeping
  BY <1>s, <1>5, PromiseStutter DEF source, checkpoint, database, housekeeping
<1>6. ASSUME UNCHANGED <<checkpoint, database, housekeeping>>
      PROVE  UNCHANGED Promise!promise
  BY <1>s, <1>6, PromiseStutter DEF checkpoint, database, housekeeping
<1>7. CASE SourceNext /\ UNCHANGED <<generator, housekeeping>>
  <2>1. ASSUME NEW f \in Files, Archive(f)
        PROVE  UNCHANGED Promise!promise
    BY <1>6, <1>7, <2>1 DEF Archive
  <2>2. CASE Restart \/ ReplayBatch \/ ReadBatch \/ ReadRaises \/ Crash
    BY <1>6, <1>7, <2>2 DEF Restart, ReplayBatch, ReadBatch, ReadRaises, Crash
  <2>3. CASE IdleTrigger
    BY <1>5, <1>7, <2>3 DEF IdleTrigger
  <2> QED
    BY <1>1, <1>2, <1>3, <1>4, <1>7, <2>1, <2>2, <2>3 DEF SourceNext, JobStep
<1>8. CASE Clean
  <2>1. /\ UNCHANGED source
        /\ DoneFiles' \ lost' = DoneFiles \ lost
    BY <1>8 DEF Clean, BeginClean, Remove, source, checkpoint, DoneFiles
  <2> QED
    BY <2>1, PromiseStutter DEF source, database
<1> QED
  BY <1>5, <1>7, <1>8, Steps DEF vars

(***************************************************************************)
(* From the random streams of the generators to the tables, with kills,    *)
(* archiving and make clean in between: seen through the rows stored and   *)
(* rejected and the files that are done, every step is one step of         *)
(* ExactlyOnce or none.                                                    *)
(***************************************************************************)
THEOREM Refinement == Spec => KeepsThePromise
BY PromiseInit, PromiseNext, Inductive, PTL DEF KeepsThePromise, Promise!Spec, Spec

-----------------------------------------------------------------------------
(* What the promise is worth: its steps alone keep the following *)

\* Of the good rows of the files that are done, each is represented in events
\* by its id, and once; each other row is in events_quarantine.
NothingDoneIsMissing ==
    /\ \A r \in Rows : File(r) \in DoneFiles \ lost =>
         IF r \in GoodRows
         THEN \E x \in stored : EventOf(x.row) = EventOf(r)
         ELSE \E x \in rejected : x.row = r
    /\ \A x, y \in stored : EventOf(x.row) = EventOf(y.row) => x.row = y.row
    /\ \A x \in stored : x.row \in GoodRows
    /\ \A x \in rejected : x.row \in Rows \ GoodRows

\* Nothing is stored, rejected or done at first.
LEMMA NothingMissingAtFirst == Promise!Init => NothingDoneIsMissing
<1> SUFFICES ASSUME Promise!Init PROVE NothingDoneIsMissing
  OBVIOUS
<1>1. {x.row : x \in stored} = {} /\ {x.row : x \in rejected} = {} /\ DoneFiles \ lost = {}
  BY DEF Promise!Init
<1>2. stored = {} /\ rejected = {}
  BY <1>1
<1> QED
  BY <1>1, <1>2 DEF NothingDoneIsMissing

\* Store brings new ids, Reject rows that are not good, Finish only files that
\* are accounted for; nothing is ever taken away.
LEMMA NothingGoesMissing ==
    NothingDoneIsMissing /\ [Promise!Next]_Promise!promise => NothingDoneIsMissing'
<1> SUFFICES ASSUME NothingDoneIsMissing, [Promise!Next]_Promise!promise
             PROVE  NothingDoneIsMissing'
  OBVIOUS
<1> DEFINE S == {x.row : x \in stored}
           Q == {x.row : x \in rejected}
           D == DoneFiles \ lost
           Missing(s, q, d) ==
              /\ \A r \in Rows : File(r) \in d =>
                   IF r \in GoodRows THEN \E p \in s : EventOf(p) = EventOf(r) ELSE r \in q
              /\ \A p, r \in s : EventOf(p) = EventOf(r) => p = r
              /\ s \subseteq GoodRows
              /\ q \subseteq Rows \ GoodRows
<1>1. Missing(S, Q, D)
  BY DEF NothingDoneIsMissing
<1>2. Missing(S', Q', D') => NothingDoneIsMissing'
  <2> SUFFICES ASSUME Missing(S', Q', D') PROVE NothingDoneIsMissing'
    OBVIOUS
  <2>1. /\ \A r \in Rows : (File(r) \in DoneFiles \ lost)' =>
             IF r \in GoodRows THEN \E p \in S' : EventOf(p) = EventOf(r) ELSE r \in Q'
        /\ \A p, r \in S' : EventOf(p) = EventOf(r) => p = r
        /\ S' \subseteq GoodRows
        /\ Q' \subseteq Rows \ GoodRows
    OBVIOUS
  <2> QED
    BY <2>1 DEF NothingDoneIsMissing
<1>3. CASE \E T \in SUBSET GoodRows : Promise!Store(T)
  <2>1. PICK T \in SUBSET GoodRows : Promise!Store(T)
    BY <1>3
  <2>2. /\ S' = S \union T /\ Q' = Q /\ D' = D
        /\ \A p, r \in T : EventOf(p) = EventOf(r) => p = r
        /\ {EventOf(p) : p \in T} \intersect {EventOf(p) : p \in S} = {}
    BY <2>1 DEF Promise!Store, Promise!Ids
  <2> HIDE DEF S, Q, D
  <2>3. Missing(S', Q', D')
    BY <1>1, <2>2
  <2> QED
    BY <1>2, <2>3
<1>4. CASE \E T \in SUBSET Promise!Bad : Promise!Reject(T)
  <2>1. PICK T \in SUBSET Promise!Bad : Promise!Reject(T)
    BY <1>4
  <2>2. S' = S /\ Q' = Q \union T /\ D' = D /\ T \subseteq Rows \ GoodRows
    BY <2>1 DEF Promise!Reject, Promise!Bad
  <2> HIDE DEF S, Q, D
  <2>3. Missing(S', Q', D')
    BY <1>1, <2>2
  <2> QED
    BY <1>2, <2>3
<1>5. CASE \E F \in SUBSET Files : Promise!Finish(F)
  <2>1. PICK F \in SUBSET Files : Promise!Finish(F)
    BY <1>5
  <2>2. /\ S' = S /\ Q' = Q /\ D' = D \union F
        /\ {EventOf(p) : p \in {r \in Rows : File(r) \in F} \intersect GoodRows}
             \subseteq {EventOf(p) : p \in S}
        /\ {r \in Rows : File(r) \in F} \intersect (Rows \ GoodRows) \subseteq Q
    <3>1. Promise!RowsOf(F) = {r \in Rows : File(r) \in F}
      BY DEF Promise!RowsOf
    <3> QED
      BY <2>1, <3>1 DEF Promise!Finish, Promise!AccountedFor, Promise!Ids, Promise!Bad
  <2> HIDE DEF S, Q, D
  <2>3. \A r \in Rows : File(r) \in F =>
           IF r \in GoodRows THEN \E p \in S : EventOf(p) = EventOf(r) ELSE r \in Q
    BY <2>2
  <2>4. Missing(S', Q', D')
    BY <1>1, <2>2, <2>3
  <2> QED
    BY <1>2, <2>4
<1>6. CASE UNCHANGED Promise!promise
  <2>1. S' = S /\ Q' = Q /\ D' = D
    BY <1>6 DEF Promise!promise
  <2> HIDE DEF S, Q, D
  <2> QED
    BY <1>1, <1>2, <2>1
<1> QED
  BY <1>3, <1>4, <1>5, <1>6 DEF Promise!Next

(***************************************************************************)
(* A file that is done and that make clean left alone is accounted for row *)
(* by row, and no event of a seed is stored twice, however many runs       *)
(* repeat it: from ExactlyOnce alone, by the refinement.                   *)
(***************************************************************************)
THEOREM DoneFilesAreComplete == Spec => []NothingDoneIsMissing
<1>1. Promise!Spec => []NothingDoneIsMissing
  BY NothingMissingAtFirst, NothingGoesMissing, PTL DEF Promise!Spec
<1> QED
  BY <1>1, Refinement DEF KeepsThePromise

=============================================================================
