----------------------------- MODULE Monitoring -----------------------------
(***************************************************************************)
(* What a batch leaves in logs/: a line of metrics.jsonl, written by the   *)
(* listener that register adds to a session, and its lines of              *)
(* pipeline.log, written through the handler of get_logger. A process may  *)
(* make several sessions and start a query several times, as main does     *)
(* once; it may be killed; make clean may remove both files.               *)
(*                                                                         *)
(* The bus that carries progress to the listeners is Spark's. It runs on a *)
(* thread of its own and is drained when the session stops.                *)
(***************************************************************************)
EXTENDS Integers, Sequences, FiniteSets

CONSTANTS
    MaxBatches,   \* bounds: of the batches run,
    MaxProcesses, \* of the processes started,
    MaxSessions,  \* of the sessions a process makes,
    MaxCleans,    \* of the times make clean is given,
    MaxPending    \* and of the events the bus holds

ASSUME MonitoringAssumption ==
    {MaxBatches, MaxProcesses, MaxSessions, MaxCleans, MaxPending} \subseteq Nat

VARIABLES
    processes,            \* how many processes there have been
    alive,                \* whether the last of them runs
    _listener_registered, \* its module-global flag
    sessions,             \* how many sessions it has made
    live,                 \* whether the last of them is
    listeners,            \* the listeners added to that session
    query,                \* "none", or where the streaming query is
    committed,            \* checkpoint: how many batches are acknowledged
    bus,                  \* events on their way to the listeners
    metrics_file,         \* the batches of the lines of metrics.jsonl
    log_file,             \* the batches with a line in pipeline.log
    handler,              \* what the handler of the process writes to
    cleans,
    reported,             \* history: batches that ever had a metrics line,
    cut,                  \* that were done but not reported at a kill,
    unheard,              \* with their session, if no listener was there,
    forgotten             \* whose line of pipeline.log make clean took

process == <<processes, alive, _listener_registered, sessions>>
session == <<live, listeners, query>>
files == <<metrics_file, log_file, handler, cleans>>
history == <<reported, cut, unheard, forgotten>>
vars == <<process, session, committed, bus, files, history>>

batch_id == committed + 1

Progress(b) == [kind |-> "progress", batch |-> b]
Idle == [kind |-> "idle", batch |-> committed]

Init ==
    /\ processes = 0
    /\ alive = FALSE
    /\ _listener_registered = FALSE
    /\ sessions = 0
    /\ live = FALSE
    /\ listeners = 0
    /\ query = "none"
    /\ committed = 0
    /\ bus = <<>>
    /\ metrics_file = <<>>
    /\ log_file = {}
    /\ handler = "closed"
    /\ cleans = 0
    /\ reported = {}
    /\ cut = {}
    /\ unheard = {}
    /\ forgotten = {}

-----------------------------------------------------------------------------
(* Processes and sessions *)

\* Fault: the handler truncates the file it opens.
StartTruncating ==
    /\ ~alive
    /\ processes < MaxProcesses
    /\ processes' = processes + 1
    /\ alive' = TRUE
    /\ _listener_registered' = FALSE
    /\ sessions' = 0
    /\ handler' = "pipeline.log"
    /\ log_file' = {}
    /\ UNCHANGED <<session, committed, bus, metrics_file, cleans, history>>

\* Fault: the flag outlives the process it speaks of.
StartRegistered ==
    /\ ~alive
    /\ processes < MaxProcesses
    /\ processes' = processes + 1
    /\ alive' = TRUE
    /\ sessions' = 0
    /\ handler' = "pipeline.log"
    /\ UNCHANGED <<_listener_registered, session, committed, bus, metrics_file,
                   log_file, cleans, history>>

\* Importing the modules: get_logger opens pipeline.log to append to it.
Start ==
    /\ ~alive
    /\ processes < MaxProcesses
    /\ processes' = processes + 1
    /\ alive' = TRUE
    /\ _listener_registered' = FALSE
    /\ sessions' = 0
    /\ handler' = "pipeline.log"
    /\ UNCHANGED <<session, committed, bus, metrics_file, log_file, cleans, history>>

\* getOrCreate: a session, without listeners, if there is none.
get_spark_session ==
    /\ alive
    /\ ~live
    /\ sessions < MaxSessions
    /\ sessions' = sessions + 1
    /\ live' = TRUE
    /\ listeners' = 0
    /\ UNCHANGED <<processes, alive, _listener_registered, query, committed, bus,
                   files, history>>

\* Batches of which the progress has not reached the listeners.
OnTheBus == {bus[i].batch : i \in {k \in DOMAIN bus : bus[k].kind = "progress"}}
Unposted == IF query = "acknowledged" THEN {committed} ELSE {}

\* Fault: what the bus holds is dropped with the session.
StopAtOnce ==
    /\ alive
    /\ live
    /\ query = "none"
    /\ bus' = <<>>
    /\ live' = FALSE
    /\ listeners' = 0
    /\ UNCHANGED <<process, query, committed, files, history>>

\* The bus delivers what it holds before a session is gone.
stop_spark_session ==
    /\ alive
    /\ live
    /\ query = "none"
    /\ bus = <<>>
    /\ live' = FALSE
    /\ listeners' = 0
    /\ UNCHANGED <<process, query, committed, bus, files, history>>

Exit ==
    /\ alive' = FALSE
    /\ live' = FALSE
    /\ listeners' = 0
    /\ query' = "none"
    /\ bus' = <<>>
    /\ handler' = "closed"
    /\ UNCHANGED <<processes, _listener_registered, sessions, committed,
                   metrics_file, log_file, cleans>>

\* main returns after the session is stopped.
End ==
    /\ alive
    /\ ~live
    /\ Exit
    /\ UNCHANGED history

Kill ==
    /\ alive
    /\ live
    /\ Exit
    /\ cut' = cut \union OnTheBus \union Unposted
    /\ UNCHANGED <<reported, unheard, forgotten>>

-----------------------------------------------------------------------------
(* The query *)

\* Fault: register does not look at the flag.
RegisterAgain == listeners' = listeners + 1 /\ _listener_registered' = TRUE

\* The flag is the process's, the listener the session's.
register ==
    /\ listeners' = IF _listener_registered THEN listeners ELSE listeners + 1
    /\ _listener_registered' = TRUE

start_query ==
    /\ live
    /\ query = "none"
    /\ register
    /\ query' = "idle"
    /\ UNCHANGED <<processes, alive, sessions, live, committed, bus, files, history>>

\* Ctrl+C calls query.stop(), which interrupts a batch not yet acknowledged.
StopQuery ==
    /\ query \in {"idle", "processed"}
    /\ query' = "none"
    /\ UNCHANGED <<process, live, listeners, committed, bus, files, history>>

IdleTrigger ==
    /\ query = "idle"
    /\ Len(bus) < MaxPending
    /\ bus' = Append(bus, Idle)
    /\ UNCHANGED <<process, session, committed, files, history>>

\* A batch, maybe one that has run before, with what it logs. A line written
\* to a file that make clean has removed is gone.
process_batch ==
    /\ query = "idle"
    /\ committed < MaxBatches
    /\ query' = "processed"
    /\ IF handler = "pipeline.log"
       THEN log_file' = log_file \union {batch_id} /\ UNCHANGED forgotten
       ELSE forgotten' = forgotten \union {batch_id} /\ UNCHANGED log_file
    /\ UNCHANGED <<process, live, listeners, committed, bus, metrics_file,
                   handler, cleans, reported, cut, unheard>>

\* A batch raises, and the query terminates.
BatchRaises ==
    /\ query = "idle"
    /\ committed < MaxBatches
    /\ query' = "none"
    /\ UNCHANGED <<process, live, listeners, committed, bus, files, history>>

AcknowledgeBatch ==
    /\ query = "processed"
    /\ committed' = batch_id
    /\ query' = "acknowledged"
    /\ UNCHANGED <<process, live, listeners, bus, files, history>>

PostProgress ==
    /\ query = "acknowledged"
    /\ Len(bus) < MaxPending
    /\ bus' = Append(bus, Progress(committed))
    /\ query' = "idle"
    /\ UNCHANGED <<process, live, listeners, committed, files, history>>

-----------------------------------------------------------------------------
(* MetricsListener *)

\* One line from each listener; the file is opened for each.
onQueryProgress(b) ==
    /\ metrics_file' = metrics_file \o [i \in 1 .. listeners |-> b]
    /\ reported' = IF listeners > 0 THEN reported \union {b} ELSE reported
    /\ unheard' = IF listeners > 0 THEN unheard ELSE unheard \union {<<b, sessions>>}

\* Fault: an idle trigger leaves a line too.
ReportIdle(b) == onQueryProgress(b)

onQueryIdle(b) == UNCHANGED <<metrics_file, reported, unheard>>

Deliver ==
    /\ bus # <<>>
    /\ bus' = Tail(bus)
    /\ IF Head(bus).kind = "progress"
       THEN onQueryProgress(Head(bus).batch)
       ELSE onQueryIdle(Head(bus).batch)
    /\ UNCHANGED <<process, session, committed, log_file, handler, cleans, cut,
                   forgotten>>

-----------------------------------------------------------------------------
(* make clean *)

\* rm -f logs/*.log logs/*.jsonl: a handler goes on writing to the file it
\* has open.
Clean ==
    /\ cleans < MaxCleans
    /\ cleans' = cleans + 1
    /\ metrics_file' = <<>>
    /\ log_file' = {}
    /\ forgotten' = forgotten \union log_file
    /\ handler' = IF handler = "closed" THEN "closed" ELSE "removed file"
    /\ UNCHANGED <<process, session, committed, bus, reported, cut, unheard>>

\* No process runs, and no other will be started.
Over ==
    /\ ~alive
    /\ processes = MaxProcesses
    /\ UNCHANGED vars

QueryStep == process_batch \/ BatchRaises \/ AcknowledgeBatch \/ PostProgress

Next ==
    \/ Start \/ get_spark_session \/ stop_spark_session \/ End \/ Kill
    \/ start_query \/ StopQuery \/ IdleTrigger \/ QueryStep
    \/ Deliver \/ Clean \/ Over

\* The query thread and the thread of the bus run.
Spec == Init /\ [][Next]_vars
FairSpec == Spec /\ WF_vars(AcknowledgeBatch \/ PostProgress) /\ WF_vars(Deliver)

-----------------------------------------------------------------------------
(* Properties *)

TypeOK ==
    /\ processes \in 0 .. MaxProcesses
    /\ alive \in BOOLEAN
    /\ live \in BOOLEAN
    /\ _listener_registered \in BOOLEAN
    /\ sessions \in 0 .. MaxSessions
    /\ listeners \in 0 .. 1
    /\ query \in {"none", "idle", "processed", "acknowledged"}
    /\ committed \in 0 .. MaxBatches
    /\ bus \in Seq([kind : {"progress", "idle"}, batch : 0 .. MaxBatches])
    /\ metrics_file \in Seq(1 .. MaxBatches)
    /\ log_file \union reported \union cut \union forgotten \subseteq 1 .. MaxBatches
    /\ handler \in {"closed", "pipeline.log", "removed file"}
    /\ cleans \in 0 .. MaxCleans
    /\ unheard \subseteq (1 .. MaxBatches) \X (1 .. MaxSessions)

\* However often sessions and queries are started and processes die, the lines
\* of metrics.jsonl are of different batches, in the order of the commit log,
\* and of batches that will not run again (register: "calling this twice would
\* silently double every metrics line").
LinesFollowTheCommitLog ==
    /\ \A i, k \in DOMAIN metrics_file : i < k => metrics_file[i] < metrics_file[k]
    /\ \A i \in DOMAIN metrics_file : metrics_file[i] <= committed

\* "One JSON line per batch": a batch that has none is on its way, or a kill
\* came before its line, or it ran in a later session of a process whose flag
\* was set for an earlier one.
MissingLinesAreExplained ==
    /\ 1 .. committed \subseteq
          reported \union OnTheBus \union Unposted \union cut \union {u[1] : u \in unheard}
    /\ \A u \in unheard : u[2] > 1

\* pipeline.log has each acknowledged batch, whichever process ran it, unless
\* its line was written before a make clean or by a process older than that
\* (logger.py: "the full history of every generator and streaming invocation").
LogIsTheWholeHistory == 1 .. committed \subseteq log_file \union forgotten

\* The listener is asynchronous, and still every acknowledged batch is reported
\* in the end, unless a kill or a session without listener kept it from it.
EveryBatchIsReported ==
    \A b \in 1 .. MaxBatches :
        b <= committed ~> b \in reported \union cut \union {u[1] : u \in unheard}
=============================================================================
