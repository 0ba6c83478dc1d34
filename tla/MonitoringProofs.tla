-------------------------- MODULE MonitoringProofs --------------------------
(***************************************************************************)
(* Theorems about the logs, for any number of batches, processes, sessions *)
(* and cleans, and a bus of any length.                                    *)
(***************************************************************************)
EXTENDS Monitoring, SequenceTheorems, TLAPS

\* What the bus may hold.
Events == [kind : {"progress", "idle"}, batch : 0 .. MaxBatches]

-----------------------------------------------------------------------------
(* The inductive invariant *)

\* A listener takes the flag, and in the first session of a process the flag
\* takes a listener. What is on the bus came from a query of the live session,
\* which set the flag when it started.
ListenerInv ==
    /\ sessions \in Nat
    /\ listeners \in 0 .. 1
    /\ ~alive => ~live
    /\ ~live => listeners = 0 /\ query = "none" /\ bus = <<>>
    /\ live => sessions > 0
    /\ alive /\ sessions = 0 => ~_listener_registered
    /\ listeners > 0 => _listener_registered
    /\ query # "none" \/ bus # <<>> => _listener_registered
    /\ live /\ sessions = 1 /\ _listener_registered => listeners = 1

\* A batch that is done but not acknowledged has been logged.
LoggedInv ==
    /\ query \in {"none", "idle", "processed", "acknowledged"}
    /\ committed \in 0 .. MaxBatches
    /\ LogIsTheWholeHistory
    /\ query = "processed" => /\ batch_id \in log_file \union forgotten
                              /\ committed < MaxBatches

SequencesInv ==
    /\ bus \in Seq(Events)
    /\ metrics_file \in Seq(1 .. MaxBatches)

IsProgress(i) == bus[i].kind = "progress"

\* Lines, progress on the bus and the batch yet to be posted are in the order
\* of the commit log, without repetition.
OrderInv ==
    /\ LinesFollowTheCommitLog
    /\ \A i, k \in DOMAIN bus :
          i < k /\ IsProgress(i) /\ IsProgress(k) => bus[i].batch < bus[k].batch
    /\ \A i \in DOMAIN bus : IsProgress(i) =>
          /\ bus[i].batch > 0
          /\ bus[i].batch <= committed
          /\ \A k \in DOMAIN metrics_file : metrics_file[k] < bus[i].batch
    /\ query = "acknowledged" =>
          /\ committed > 0
          /\ \A i \in DOMAIN metrics_file : metrics_file[i] < committed
          /\ \A i \in DOMAIN bus : IsProgress(i) => bus[i].batch < committed

-----------------------------------------------------------------------------
(* Listeners *)

\* The bounds are numbers.
LEMMA Bounds ==
    /\ MaxBatches \in Nat
    /\ MaxProcesses \in Nat
    /\ MaxSessions \in Nat
    /\ MaxCleans \in Nat
BY MonitoringAssumption

\* Every step keeps the flag, the listeners and the bus in step.
LEMMA NextListener == ListenerInv /\ [Next]_vars => ListenerInv'
<1> SUFFICES ASSUME ListenerInv, [Next]_vars PROVE ListenerInv'
  OBVIOUS
<1> USE DEF ListenerInv, process, session, files, history
<1>1. CASE Start
  BY <1>1 DEF Start
<1>2. CASE get_spark_session
  BY <1>2 DEF get_spark_session
<1>3. CASE stop_spark_session
  BY <1>3 DEF stop_spark_session
<1>4. CASE End \/ Kill
  BY <1>4 DEF End, Kill, Exit
<1>5. CASE start_query
  BY <1>5 DEF start_query, register
<1>6. CASE StopQuery
  BY <1>6 DEF StopQuery
<1>7. CASE IdleTrigger
  BY <1>7 DEF IdleTrigger
<1>8. CASE process_batch
  BY <1>8 DEF process_batch
<1>9. CASE BatchRaises
  BY <1>9 DEF BatchRaises
<1>10. CASE AcknowledgeBatch
  BY <1>10 DEF AcknowledgeBatch
<1>11. CASE PostProgress
  BY <1>11 DEF PostProgress
<1>12. CASE Deliver
  BY <1>12 DEF Deliver
<1>13. CASE Clean
  BY <1>13 DEF Clean
<1>14. CASE Over \/ UNCHANGED vars
  BY <1>14 DEF Over, vars
<1> QED
  BY <1>1, <1>2, <1>3, <1>4, <1>5, <1>6, <1>7, <1>8, <1>9, <1>10, <1>11,
     <1>12, <1>13, <1>14 DEF Next, QueryStep

-----------------------------------------------------------------------------
(* The log of the program *)

\* A batch is logged before it is acknowledged, and a line that make clean
\* takes is remembered as forgotten.
LEMMA NextLogged == LoggedInv /\ ListenerInv /\ [Next]_vars => LoggedInv'
<1> SUFFICES ASSUME LoggedInv, ListenerInv, [Next]_vars PROVE LoggedInv'
  OBVIOUS
<1> USE Bounds DEF LoggedInv, LogIsTheWholeHistory, batch_id, process, session,
        files, history
<1>1. CASE Start
  BY <1>1 DEF Start
<1>2. CASE get_spark_session
  BY <1>2 DEF get_spark_session
<1>3. CASE stop_spark_session
  BY <1>3 DEF stop_spark_session
<1>4. CASE End \/ Kill
  BY <1>4 DEF End, Kill, Exit
<1>5. CASE start_query
  BY <1>5 DEF start_query
<1>6. CASE StopQuery
  BY <1>6 DEF StopQuery
<1>7. CASE IdleTrigger
  BY <1>7 DEF IdleTrigger
<1>8. CASE process_batch
  BY <1>8 DEF process_batch
<1>9. CASE BatchRaises
  BY <1>9 DEF BatchRaises
<1>10. CASE AcknowledgeBatch
  BY <1>10 DEF AcknowledgeBatch
<1>11. CASE PostProgress
  BY <1>11 DEF PostProgress
<1>12. CASE Deliver
  BY <1>12 DEF Deliver
<1>13. CASE Clean
  BY <1>13 DEF Clean
<1>14. CASE Over \/ UNCHANGED vars
  BY <1>14 DEF Over, vars
<1> QED
  BY <1>1, <1>2, <1>3, <1>4, <1>5, <1>6, <1>7, <1>8, <1>9, <1>10, <1>11,
     <1>12, <1>13, <1>14 DEF Next, QueryStep

-----------------------------------------------------------------------------
(* The bus *)

\* What a sequence holds.
LEMMA Elements ==
    ASSUME NEW S, NEW s \in Seq(S)
    PROVE  \A i \in DOMAIN s : s[i] \in S
BY ElementOfSeq, LenProperties

\* What Append does to each element.
LEMMA AppendElements ==
    ASSUME NEW S, NEW s \in Seq(S), NEW e \in S
    PROVE  /\ Append(s, e) \in Seq(S)
           /\ DOMAIN Append(s, e) = 1 .. Len(s) + 1
           /\ DOMAIN s = 1 .. Len(s)
           /\ Len(s) \in Nat
           /\ \A i \in 1 .. Len(s) : Append(s, e)[i] = s[i]
           /\ Append(s, e)[Len(s) + 1] = e
BY AppendProperties, LenProperties

\* What Tail does to each element.
LEMMA TailElements ==
    ASSUME NEW S, NEW s \in Seq(S), s # <<>>
    PROVE  /\ Tail(s) \in Seq(S)
           /\ DOMAIN Tail(s) = 1 .. Len(s) - 1
           /\ DOMAIN s = 1 .. Len(s)
           /\ Len(s) \in Nat \ {0}
           /\ \A i \in 1 .. Len(s) - 1 : Tail(s)[i] = s[i + 1]
           /\ Head(s) = s[1]
           /\ Head(s) \in S
BY HeadTailProperties, LenProperties, EmptySeq

\* What onQueryProgress appends: a line for each listener.
LEMMA LineOfEachListener ==
    ASSUME NEW S, NEW file \in Seq(S), NEW n \in 0 .. 1, NEW b \in S
    PROVE  LET new == file \o [i \in 1 .. n |-> b]
           IN /\ new \in Seq(S)
              /\ Len(file) \in Nat
              /\ DOMAIN new = 1 .. Len(file) + n
              /\ DOMAIN file = 1 .. Len(file)
              /\ \A i \in 1 .. Len(file) : new[i] = file[i]
              /\ n = 1 => new[Len(file) + 1] = b
<1> DEFINE lines == [i \in 1 .. n |-> b]
<1>1. lines \in Seq(S) /\ Len(lines) = n
  BY IsASeq
<1>2. \A i \in 1 .. n : lines[i] = b
  OBVIOUS
<1> HIDE DEF lines
<1>3. file \o lines \in Seq(S) /\ Len(file \o lines) = Len(file) + n
  BY <1>1, ConcatProperties
<1>4. \A i \in 1 .. Len(file) + n :
         (file \o lines)[i] = IF i <= Len(file) THEN file[i] ELSE lines[i - Len(file)]
  BY <1>1, ConcatProperties
<1>5. /\ Len(file) \in Nat
      /\ DOMAIN file = 1 .. Len(file)
      /\ DOMAIN (file \o lines) = 1 .. Len(file) + n
  BY <1>3, LenProperties
<1>6. \A i \in 1 .. Len(file) : (file \o lines)[i] = file[i]
  BY <1>4, <1>5
<1>7. n = 1 => (file \o lines)[Len(file) + 1] = b
  BY <1>2, <1>4, <1>5
<1> QED
  BY <1>3, <1>5, <1>6, <1>7 DEF lines

\* The bus holds events, and the file lines of batches.
LEMMA NextSequences ==
    SequencesInv /\ OrderInv /\ LoggedInv /\ ListenerInv /\ [Next]_vars
      => SequencesInv'
<1> SUFFICES ASSUME SequencesInv, OrderInv, LoggedInv, ListenerInv, [Next]_vars
             PROVE  SequencesInv'
  OBVIOUS
<1> USE Bounds DEF SequencesInv
<1>1. committed \in 0 .. MaxBatches /\ listeners \in 0 .. 1
  BY DEF LoggedInv, ListenerInv
<1>2. CASE UNCHANGED <<bus, metrics_file>>
  BY <1>2
<1>3. CASE bus' = <<>> /\ UNCHANGED metrics_file
  BY <1>3
<1>4. CASE IdleTrigger
  <2>1. Idle \in Events
    BY <1>1 DEF Idle, Events
  <2> QED
    BY <1>4, <2>1, AppendElements DEF IdleTrigger, files
<1>5. CASE PostProgress
  <2>1. Progress(committed) \in Events
    BY <1>1 DEF Progress, Events
  <2> QED
    BY <1>5, <2>1, AppendElements DEF PostProgress, files
<1>6. CASE Deliver
  <2>1. /\ bus' \in Seq(Events)
        /\ Head(bus) \in Events
        /\ Head(bus) = bus[1]
        /\ 1 \in DOMAIN bus
    BY <1>6, TailElements DEF Deliver
  <2>2. Head(bus).kind = "progress" => Head(bus).batch \in 1 .. MaxBatches
    BY <2>1 DEF Events, OrderInv, IsProgress
  <2>3. Head(bus).kind = "progress" =>
           metrics_file \o [i \in 1 .. listeners |-> Head(bus).batch]
              \in Seq(1 .. MaxBatches)
    BY <1>1, <2>2, LineOfEachListener
  <2>4. metrics_file' \in Seq(1 .. MaxBatches)
    BY <1>6, <2>3 DEF Deliver, onQueryProgress, onQueryIdle
  <2> QED
    BY <2>1, <2>4
<1>7. CASE Clean
  <2>1. bus' = bus /\ metrics_file' = <<>>
    BY <1>7 DEF Clean
  <2> QED
    BY <2>1
<1>8. CASE ~(IdleTrigger \/ PostProgress \/ Deliver \/ Clean)
  BY <1>2, <1>3, <1>8
  DEF Next, QueryStep, vars, files, Start, get_spark_session,
      stop_spark_session, End, Kill, Exit, start_query, StopQuery,
      process_batch, BatchRaises, AcknowledgeBatch, Over
<1> QED
  BY <1>4, <1>5, <1>6, <1>7, <1>8

-----------------------------------------------------------------------------
(* The order of the lines *)

\* Lines are written in the order in which the progress of their batches was
\* posted, and that is the order of the commit log.
LEMMA NextOrder ==
    OrderInv /\ SequencesInv /\ LoggedInv /\ ListenerInv /\ [Next]_vars => OrderInv'
<1> SUFFICES ASSUME OrderInv, SequencesInv, LoggedInv, ListenerInv, [Next]_vars
             PROVE  OrderInv'
  OBVIOUS
<1> USE DEF OrderInv, LinesFollowTheCommitLog, IsProgress
<1>1. /\ committed \in Nat
      /\ listeners \in 0 .. 1
      /\ bus \in Seq(Events)
      /\ metrics_file \in Seq(1 .. MaxBatches)
  BY Bounds DEF LoggedInv, ListenerInv, SequencesInv
<1>2. CASE /\ UNCHANGED <<bus, metrics_file, committed>>
           /\ query' \in {query, "none", "idle", "processed"}
  BY <1>2
<1>3. CASE bus' = <<>> /\ query' = "none" /\ UNCHANGED <<metrics_file, committed>>
  BY <1>3
<1>4. CASE IdleTrigger
  <2>1. Idle \in Events /\ Idle.kind = "idle"
    BY Bounds DEF Idle, Events, LoggedInv
  <2>2. bus' = Append(bus, Idle)
    BY <1>4 DEF IdleTrigger
  <2>3. /\ DOMAIN bus = 1 .. Len(bus)
        /\ DOMAIN bus' = 1 .. Len(bus) + 1
        /\ Len(bus) \in Nat
        /\ \A i \in 1 .. Len(bus) : bus'[i] = bus[i]
        /\ bus'[Len(bus) + 1].kind = "idle"
    BY <1>1, <2>1, <2>2, AppendElements
  <2>4. \A i \in DOMAIN bus' : bus'[i].kind = "progress" =>
            i \in DOMAIN bus /\ bus'[i] = bus[i]
    BY <2>3
  <2>5. UNCHANGED <<metrics_file, committed>> /\ query' = "idle"
    BY <1>4 DEF IdleTrigger, files, session
  <2> QED
    BY <2>4, <2>5
<1>5. CASE AcknowledgeBatch
  <2>1. UNCHANGED <<bus, metrics_file>> /\ committed' = committed + 1
    BY <1>5 DEF AcknowledgeBatch, files, batch_id
  <2>2. \A i \in DOMAIN metrics_file : metrics_file[i] \in Nat
    <3>1. \A i \in DOMAIN metrics_file : metrics_file[i] \in 1 .. MaxBatches
      BY <1>1, Elements
    <3> QED
      BY <3>1, Bounds
  <2>3. \A i \in DOMAIN bus : bus[i].batch \in Nat
    <3>1. \A i \in DOMAIN bus : bus[i] \in Events
      BY <1>1, Elements
    <3> QED
      BY <3>1, Bounds DEF Events
  <2> QED
    BY <1>1, <2>1, <2>2, <2>3
<1>6. CASE PostProgress
  <2>1. /\ Progress(committed) \in Events
        /\ Progress(committed).batch = committed
    BY DEF Progress, Events, LoggedInv
  <2>2. /\ bus' = Append(bus, Progress(committed))
        /\ query = "acknowledged"
        /\ query' = "idle"
        /\ UNCHANGED <<metrics_file, committed>>
    BY <1>6 DEF PostProgress, files
  <2>3. /\ DOMAIN bus = 1 .. Len(bus)
        /\ DOMAIN bus' = 1 .. Len(bus) + 1
        /\ Len(bus) \in Nat
        /\ \A i \in 1 .. Len(bus) : bus'[i] = bus[i]
        /\ bus'[Len(bus) + 1].batch = committed
    BY <1>1, <2>1, <2>2, AppendElements
  <2>4. \A i \in DOMAIN bus' :
            \/ i \in DOMAIN bus /\ bus'[i] = bus[i] /\ i < Len(bus) + 1
            \/ i = Len(bus) + 1 /\ bus'[i].batch = committed
    BY <2>3
  <2>5. ASSUME NEW i \in DOMAIN bus', NEW k \in DOMAIN bus', i < k,
               bus'[i].kind = "progress", bus'[k].kind = "progress"
        PROVE  bus'[i].batch < bus'[k].batch
    BY <2>2, <2>3, <2>4, <2>5
  <2>6. ASSUME NEW i \in DOMAIN bus', bus'[i].kind = "progress"
        PROVE  /\ bus'[i].batch > 0
               /\ bus'[i].batch <= committed
               /\ \A k \in DOMAIN metrics_file : metrics_file[k] < bus'[i].batch
    BY <1>1, <2>2, <2>4, <2>6
  <2> QED
    BY <2>2, <2>5, <2>6
<1>7. CASE Deliver
  <2>1. /\ bus' = Tail(bus)
        /\ bus # <<>>
        /\ UNCHANGED <<query, committed>>
        /\ IF bus[1].kind = "progress"
           THEN metrics_file' = metrics_file \o [i \in 1 .. listeners |-> bus[1].batch]
           ELSE UNCHANGED metrics_file
    BY <1>1, <1>7, TailElements
    DEF Deliver, onQueryProgress, onQueryIdle, session
  <2>2. /\ DOMAIN bus = 1 .. Len(bus)
        /\ DOMAIN bus' = 1 .. Len(bus) - 1
        /\ Len(bus) \in Nat \ {0}
        /\ \A i \in 1 .. Len(bus) - 1 : bus'[i] = bus[i + 1]
    BY <1>1, <2>1, TailElements
  <2>3. \A i \in DOMAIN bus' :
            i + 1 \in DOMAIN bus /\ bus'[i] = bus[i + 1] /\ 1 < i + 1 /\ i \in Nat
    BY <2>2
  <2>4. \A i, k \in DOMAIN bus' :
            i < k /\ bus'[i].kind = "progress" /\ bus'[k].kind = "progress"
              => bus'[i].batch < bus'[k].batch
    BY <2>3
  <2>5. CASE UNCHANGED metrics_file
    BY <2>1, <2>3, <2>4, <2>5
  <2>6. CASE bus[1].kind = "progress" /\ ~UNCHANGED metrics_file
    <3> DEFINE b == bus[1].batch
    <3>1. 1 \in DOMAIN bus /\ b \in 1 .. MaxBatches
      <4>1. 1 \in DOMAIN bus
        BY <2>2
      <4>2. bus[1] \in Events
        BY <1>1, <4>1, Elements
      <4> QED
        BY <2>6, <4>1, <4>2 DEF Events
    <3>2. metrics_file' = metrics_file \o [i \in 1 .. listeners |-> b]
      BY <2>1, <2>6
    <3>3. /\ Len(metrics_file) \in Nat
          /\ DOMAIN metrics_file = 1 .. Len(metrics_file)
          /\ DOMAIN metrics_file' = 1 .. Len(metrics_file) + listeners
          /\ \A i \in 1 .. Len(metrics_file) : metrics_file'[i] = metrics_file[i]
          /\ listeners = 1 => metrics_file'[Len(metrics_file) + 1] = b
      BY <1>1, <3>1, <3>2, LineOfEachListener
    <3>4. \A i \in DOMAIN metrics_file' :
              \/ /\ i \in DOMAIN metrics_file
                 /\ metrics_file'[i] = metrics_file[i]
                 /\ i < Len(metrics_file) + 1
              \/ i = Len(metrics_file) + 1 /\ metrics_file'[i] = b
      BY <1>1, <3>3
    <3>5. /\ b <= committed
          /\ query = "acknowledged" => b < committed
          /\ \A k \in DOMAIN metrics_file : metrics_file[k] < b
      BY <2>6, <3>1
    <3>6. \A i \in DOMAIN bus' : bus'[i].kind = "progress" => b < bus'[i].batch
      BY <2>3, <2>6, <3>1
    <3> HIDE DEF b
    <3>7. LinesFollowTheCommitLog'
      <4>1. \A i \in DOMAIN metrics_file' : metrics_file'[i] <= committed
        BY <3>4, <3>5
      <4>2. \A i, k \in DOMAIN metrics_file' :
                i < k => metrics_file'[i] < metrics_file'[k]
        BY <3>3, <3>4, <3>5
      <4> QED
        BY <2>1, <4>1, <4>2
    <3>8. \A i \in DOMAIN bus' : bus'[i].kind = "progress" =>
              /\ bus'[i].batch > 0
              /\ bus'[i].batch <= committed
              /\ \A k \in DOMAIN metrics_file' : metrics_file'[k] < bus'[i].batch
      BY <2>3, <3>4, <3>6
    <3>9. query = "acknowledged" =>
              /\ committed > 0
              /\ \A i \in DOMAIN metrics_file' : metrics_file'[i] < committed
              /\ \A i \in DOMAIN bus' :
                    bus'[i].kind = "progress" => bus'[i].batch < committed
      BY <2>3, <3>4, <3>5
    <3> QED
      BY <2>1, <2>4, <3>7, <3>8, <3>9
  <2> QED
    BY <2>1, <2>5, <2>6
<1>8. CASE Clean
  <2>1. metrics_file' = <<>> /\ UNCHANGED <<bus, committed, query>>
    BY <1>8 DEF Clean, session
  <2> QED
    BY <1>1, <2>1
<1>9. CASE ~(IdleTrigger \/ AcknowledgeBatch \/ PostProgress \/ Deliver \/ Clean)
  BY <1>2, <1>3, <1>9
  DEF Next, QueryStep, vars, files, session, Start, get_spark_session,
      stop_spark_session, End, Kill, Exit, start_query, StopQuery,
      process_batch, BatchRaises, Over
<1> QED
  BY <1>4, <1>5, <1>6, <1>7, <1>8, <1>9

-----------------------------------------------------------------------------
(* The lines that are missing *)

\* Where an acknowledged batch is accounted for.
Unheard == {u[1] : u \in unheard}
Accounted == reported \union OnTheBus \union Unposted \union cut \union Unheard

\* A batch that is acknowledged is to be posted, then on the bus, then
\* reported; a kill cuts it, a session without listener leaves it unheard.
LEMMA NextMissing ==
    MissingLinesAreExplained /\ SequencesInv /\ LoggedInv /\ ListenerInv /\ [Next]_vars
      => MissingLinesAreExplained'
<1> SUFFICES ASSUME MissingLinesAreExplained, SequencesInv, LoggedInv, ListenerInv,
                    [Next]_vars
             PROVE  MissingLinesAreExplained'
  OBVIOUS
<1>1. /\ 1 .. committed \subseteq Accounted
      /\ \A u \in unheard : u[2] > 1
  BY DEF MissingLinesAreExplained, Accounted, Unheard
<1>2. /\ committed \in Nat
      /\ listeners \in 0 .. 1
      /\ sessions \in Nat
      /\ bus \in Seq(Events)
  BY Bounds DEF LoggedInv, ListenerInv, SequencesInv
<1>3. SUFFICES /\ 1 .. committed' \subseteq Accounted'
               /\ \A u \in unheard' : u[2] > 1
  BY DEF MissingLinesAreExplained, Accounted, Unheard
<1> USE DEF Accounted, Unheard
<1>4. CASE /\ UNCHANGED <<reported, cut, unheard, bus, committed>>
           /\ Unposted \subseteq Unposted'
  <2>1. OnTheBus' = OnTheBus
    BY <1>4 DEF OnTheBus
  <2> QED
    BY <1>1, <1>4, <2>1
<1>5. CASE Unposted = {} /\ UNCHANGED <<reported, cut, unheard, bus, committed>>
  BY <1>4, <1>5
<1>6. CASE End
  <2>1. OnTheBus = {} /\ Unposted = {}
    BY <1>6 DEF End, ListenerInv, OnTheBus, Unposted
  <2> QED
    BY <1>1, <1>6, <2>1 DEF End, Exit, history
<1>7. CASE Kill
  BY <1>1, <1>7 DEF Kill, Exit
<1>8. CASE IdleTrigger
  <2>1. Idle \in Events
    BY DEF Idle, Events, LoggedInv
  <2>2. bus' = Append(bus, Idle) /\ UNCHANGED <<history, committed>> /\ Unposted = {}
    BY <1>8 DEF IdleTrigger, Unposted
  <2>3. OnTheBus \subseteq OnTheBus'
    BY <1>2, <2>1, <2>2, AppendElements DEF OnTheBus
  <2> QED
    BY <1>1, <2>2, <2>3 DEF history
<1>9. CASE AcknowledgeBatch
  <2>1. /\ committed' = committed + 1
        /\ Unposted = {}
        /\ Unposted' = {committed'}
        /\ UNCHANGED <<bus, history>>
    BY <1>9 DEF AcknowledgeBatch, Unposted, batch_id
  <2>2. OnTheBus' = OnTheBus
    BY <2>1 DEF OnTheBus
  <2>3. 1 .. committed' = (1 .. committed) \union {committed'}
    BY <1>2, <2>1
  <2> QED
    BY <1>1, <2>1, <2>2, <2>3 DEF history
<1>10. CASE PostProgress
  <2>1. /\ Progress(committed) \in Events
        /\ Progress(committed).kind = "progress"
        /\ Progress(committed).batch = committed
    BY DEF Progress, Events, LoggedInv
  <2>2. /\ bus' = Append(bus, Progress(committed))
        /\ Unposted = {committed}
        /\ UNCHANGED <<history, committed>>
    BY <1>10 DEF PostProgress, Unposted
  <2>3. /\ DOMAIN bus = 1 .. Len(bus)
        /\ DOMAIN bus' = 1 .. Len(bus) + 1
        /\ Len(bus) \in Nat
        /\ \A i \in 1 .. Len(bus) : bus'[i] = bus[i]
        /\ bus'[Len(bus) + 1] = Progress(committed)
    BY <1>2, <2>1, <2>2, AppendElements
  <2>4. OnTheBus \subseteq OnTheBus'
    BY <2>3 DEF OnTheBus
  <2>5. committed \in OnTheBus'
    <3>1. Len(bus) + 1 \in {k \in DOMAIN bus' : bus'[k].kind = "progress"}
      BY <2>1, <2>3
    <3> QED
      BY <2>1, <2>3, <3>1 DEF OnTheBus
  <2> QED
    BY <1>1, <2>2, <2>4, <2>5 DEF history
<1>11. CASE Deliver
  <2>1. /\ bus' = Tail(bus)
        /\ bus # <<>>
        /\ UNCHANGED <<query, committed, cut>>
        /\ IF bus[1].kind = "progress"
           THEN onQueryProgress(bus[1].batch)
           ELSE UNCHANGED <<reported, unheard>>
    BY <1>2, <1>11, TailElements
    DEF Deliver, onQueryIdle, session
  <2>2. /\ DOMAIN bus = 1 .. Len(bus)
        /\ DOMAIN bus' = 1 .. Len(bus) - 1
        /\ Len(bus) \in Nat \ {0}
        /\ \A i \in 1 .. Len(bus) - 1 : bus'[i] = bus[i + 1]
    BY <1>2, <2>1, TailElements
  <2>3. \A i \in DOMAIN bus :
            i = 1 \/ /\ i - 1 \in DOMAIN bus'
                     /\ bus'[i - 1] = bus[i]
    BY <2>2
  <2>4. \A b \in OnTheBus :
            b \in OnTheBus' \/ (bus[1].kind = "progress" /\ b = bus[1].batch)
    <3> TAKE b \in OnTheBus
    <3>1. PICK i \in DOMAIN bus : bus[i].kind = "progress" /\ b = bus[i].batch
      BY DEF OnTheBus
    <3>2. CASE i = 1
      BY <3>1, <3>2
    <3>3. CASE i - 1 \in DOMAIN bus' /\ bus'[i - 1] = bus[i]
      <4>1. PICK j \in DOMAIN bus' : bus'[j] = bus[i]
        BY <3>3
      <4>2. bus'[j].kind = "progress" /\ b = bus'[j].batch
        BY <3>1, <4>1
      <4> QED
        BY <4>2 DEF OnTheBus
    <3> QED
      BY <2>3, <3>2, <3>3
  <2>5. Unposted' = Unposted
    BY <2>1 DEF Unposted
  <2>6. CASE bus[1].kind = "progress" /\ listeners > 0
    <3>1. reported' = reported \union {bus[1].batch} /\ unheard' = unheard
      BY <2>1, <2>6 DEF onQueryProgress
    <3> QED
      BY <1>1, <2>1, <2>4, <2>5, <3>1
  <2>7. CASE bus[1].kind = "progress" /\ ~(listeners > 0)
    <3>1. /\ reported' = reported
          /\ unheard' = unheard \union {<<bus[1].batch, sessions>>}
      BY <2>1, <2>7 DEF onQueryProgress
    <3>2. sessions > 1
      BY <1>2, <2>1, <2>7 DEF ListenerInv
    <3>3. Unheard \subseteq Unheard'
      BY <3>1
    <3>4. bus[1].batch \in Unheard'
      <4>1. <<bus[1].batch, sessions>> \in unheard'
        BY <3>1
      <4>2. <<bus[1].batch, sessions>>[1] = bus[1].batch
        OBVIOUS
      <4> QED
        BY <4>1, <4>2
    <3> QED
      BY <1>1, <2>1, <2>4, <2>5, <3>1, <3>2, <3>3, <3>4
  <2>8. CASE bus[1].kind # "progress"
    BY <1>1, <2>1, <2>4, <2>5, <2>8
  <2> QED
    BY <2>6, <2>7, <2>8
<1>12. CASE start_query \/ StopQuery \/ process_batch \/ BatchRaises
  BY <1>5, <1>12
  DEF start_query, StopQuery, process_batch, BatchRaises, Unposted, history
<1>13. CASE Start \/ get_spark_session \/ stop_spark_session \/ Clean \/ UNCHANGED vars
  <2>1. UNCHANGED <<reported, cut, unheard, bus, committed, query>>
    BY <1>13
    DEF Start, get_spark_session, stop_spark_session, Clean, vars, session, history
  <2> QED
    BY <1>4, <2>1 DEF Unposted
<1> QED
  BY <1>6, <1>7, <1>8, <1>9, <1>10, <1>11, <1>12, <1>13
  DEF Next, QueryStep, Over

-----------------------------------------------------------------------------
(* Type correctness *)

\* TypeOK, in the parts that are proved apart.
Counters ==
    /\ processes \in 0 .. MaxProcesses
    /\ sessions \in 0 .. MaxSessions
    /\ cleans \in 0 .. MaxCleans

Flags ==
    /\ alive \in BOOLEAN
    /\ live \in BOOLEAN
    /\ _listener_registered \in BOOLEAN
    /\ handler \in {"closed", "pipeline.log", "removed file"}

Batches == log_file \union reported \union cut \union forgotten \subseteq 1 .. MaxBatches

UnheardInv == \A u \in unheard : u \in (1 .. MaxBatches) \X (1 .. MaxSessions)

\* The order of the lines and what explains the missing ones, with what their
\* proof needs of the listeners, the log and the bus.
IInv ==
    /\ ListenerInv
    /\ LoggedInv
    /\ SequencesInv
    /\ OrderInv
    /\ MissingLinesAreExplained

TypesInv == Counters /\ Flags /\ Batches /\ UnheardInv

\* Each count grows under the guard that bounds it.
LEMMA NextCounters == Counters /\ [Next]_vars => Counters'
<1> SUFFICES ASSUME Counters, [Next]_vars PROVE Counters'
  OBVIOUS
<1> USE Bounds DEF Counters
<1>1. CASE Start
  BY <1>1 DEF Start
<1>2. CASE get_spark_session
  BY <1>2 DEF get_spark_session, files
<1>3. CASE Clean
  <2>1. /\ cleans < MaxCleans
        /\ cleans' = cleans + 1
        /\ UNCHANGED <<processes, sessions>>
    BY <1>3, Zenon DEF Clean, process
  <2> QED
    BY <2>1
<1>4. CASE UNCHANGED <<processes, sessions, cleans>>
  BY <1>4
<1>5. CASE ~(Start \/ get_spark_session \/ Clean)
  BY <1>4, <1>5
  DEF Next, QueryStep, vars, process, files, stop_spark_session, End, Kill,
      Exit, start_query, StopQuery, IdleTrigger, process_batch, BatchRaises,
      AcknowledgeBatch, PostProgress, Deliver, Over
<1> QED
  BY <1>1, <1>2, <1>3, <1>5

\* The flags and the handler.
LEMMA NextFlags == Flags /\ [Next]_vars => Flags'
<1> SUFFICES ASSUME Flags, [Next]_vars PROVE Flags'
  OBVIOUS
<1> USE DEF Flags
<1>1. CASE Start
  BY <1>1, Zenon DEF Start, session
<1>2. CASE get_spark_session
  BY <1>2, Zenon DEF get_spark_session, files
<1>3. CASE stop_spark_session
  BY <1>3, Zenon DEF stop_spark_session, process, files
<1>4. CASE End \/ Kill
  BY <1>4, Zenon DEF End, Kill, Exit
<1>5. CASE start_query
  BY <1>5, Zenon DEF start_query, register, files
<1>6. CASE UNCHANGED <<process, live, handler>>
  BY <1>6, Zenon DEF process
<1>7. CASE Clean
  BY <1>7, Zenon DEF Clean, process, session
<1>8. CASE ~(Start \/ get_spark_session \/ stop_spark_session \/ End \/ Kill
             \/ start_query \/ Clean)
  BY <1>6, <1>8
  DEF Next, QueryStep, vars, session, files, StopQuery, IdleTrigger, process_batch,
      BatchRaises, AcknowledgeBatch, PostProgress, Deliver, Over
<1> QED
  BY <1>1, <1>2, <1>3, <1>4, <1>5, <1>7, <1>8

\* What is delivered is a batch of the commit log.
LEMMA OnTheBusAreBatches ==
    IInv => /\ OnTheBus \union Unposted \subseteq 1 .. MaxBatches
            /\ bus # <<>> => /\ Head(bus) = bus[1]
                             /\ 1 \in DOMAIN bus
                             /\ IsProgress(1) => Head(bus).batch \in 1 .. MaxBatches
<1> SUFFICES ASSUME IInv
             PROVE  /\ OnTheBus \union Unposted \subseteq 1 .. MaxBatches
                    /\ bus # <<>> =>
                          /\ Head(bus) = bus[1]
                          /\ 1 \in DOMAIN bus
                          /\ IsProgress(1) => Head(bus).batch \in 1 .. MaxBatches
  OBVIOUS
<1>1. bus \in Seq(Events)
  BY DEF IInv, SequencesInv
<1>2. \A i \in DOMAIN bus : IsProgress(i) => bus[i].batch \in 1 .. MaxBatches
  <2>1. \A i \in DOMAIN bus : bus[i] \in Events
    BY <1>1, Elements
  <2> QED
    BY <2>1, Bounds DEF Events, IInv, OrderInv
<1>3. Unposted \subseteq 1 .. MaxBatches
  BY Bounds DEF Unposted, IInv, OrderInv, LoggedInv
<1>4. OnTheBus \subseteq 1 .. MaxBatches
  BY <1>2 DEF OnTheBus, IsProgress
<1>5. bus # <<>> => Head(bus) = bus[1] /\ 1 \in DOMAIN bus
  BY <1>1, TailElements
<1> QED
  BY <1>2, <1>3, <1>4, <1>5

\* The logs and the history are of batches that were run.
LEMMA NextBatches == Batches /\ IInv /\ [Next]_vars => Batches'
<1> SUFFICES ASSUME Batches, IInv, [Next]_vars PROVE Batches'
  OBVIOUS
<1> USE DEF Batches
<1>1. CASE Kill
  BY <1>1, OnTheBusAreBatches DEF Kill, Exit
<1>2. CASE process_batch
  BY <1>2, Bounds DEF process_batch, batch_id, IInv, LoggedInv
<1>3. CASE Deliver
  <2>1. reported' \subseteq 1 .. MaxBatches
    BY <1>3, OnTheBusAreBatches DEF Deliver, onQueryProgress, onQueryIdle, IsProgress
  <2> QED
    BY <1>3, <2>1 DEF Deliver
<1>4. CASE Clean
  BY <1>4 DEF Clean
<1>5. CASE ~(Kill \/ process_batch \/ Deliver \/ Clean)
  BY <1>5
  DEF Next, QueryStep, vars, files, history, Start, get_spark_session,
      stop_spark_session, End, Exit, start_query, StopQuery, IdleTrigger,
      BatchRaises, AcknowledgeBatch, PostProgress, Over
<1> QED
  BY <1>1, <1>2, <1>3, <1>4, <1>5

\* A batch is unheard in a session of the process that runs it.
LEMMA NextUnheard == UnheardInv /\ Counters /\ IInv /\ [Next]_vars => UnheardInv'
<1> SUFFICES ASSUME UnheardInv, Counters, IInv, [Next]_vars PROVE UnheardInv'
  OBVIOUS
<1>1. CASE UNCHANGED unheard
  BY <1>1 DEF UnheardInv
<1>2. CASE Deliver /\ ~UNCHANGED unheard
  <2>1. /\ bus # <<>>
        /\ IsProgress(1)
        /\ unheard' = unheard \union {<<Head(bus).batch, sessions>>}
    BY <1>2, OnTheBusAreBatches DEF Deliver, onQueryProgress, onQueryIdle, IsProgress
  <2>2. Head(bus).batch \in 1 .. MaxBatches
    BY <2>1, OnTheBusAreBatches
  <2>3. sessions \in 1 .. MaxSessions
    <3>1. sessions > 0
      BY <2>1 DEF IInv, ListenerInv
    <3>2. sessions \in 0 .. MaxSessions
      BY DEF Counters
    <3> QED
      BY <3>1, <3>2, Bounds
  <2> QED
    BY <2>1, <2>2, <2>3 DEF UnheardInv
<1>3. CASE ~Deliver
  BY <1>1, <1>3
  DEF Next, QueryStep, vars, history, Start, get_spark_session,
      stop_spark_session, End, Kill, Exit, start_query, StopQuery, IdleTrigger,
      process_batch, BatchRaises, AcknowledgeBatch, PostProgress, Clean, Over
<1> QED
  BY <1>1, <1>2, <1>3

-----------------------------------------------------------------------------
(* Theorems *)

\* The first state is as the invariant wants it.
LEMMA InitInv == Init => IInv
<1> SUFFICES ASSUME Init PROVE IInv
  OBVIOUS
<1> USE DEF Init
<1>1. ListenerInv
  BY DEF ListenerInv
<1>2. LoggedInv
  BY Bounds DEF LoggedInv, LogIsTheWholeHistory
<1>3. SequencesInv
  BY DEF SequencesInv
<1>4. OrderInv
  BY DEF OrderInv, LinesFollowTheCommitLog
<1>5. MissingLinesAreExplained
  BY DEF MissingLinesAreExplained
<1> QED
  BY <1>1, <1>2, <1>3, <1>4, <1>5 DEF IInv

\* And of the right types.
LEMMA InitTypes == Init => TypesInv
<1> SUFFICES ASSUME Init PROVE TypesInv
  OBVIOUS
<1> USE DEF Init
<1>1. Counters
  BY Bounds DEF Counters
<1>2. Flags
  BY DEF Flags
<1>3. Batches
  BY DEF Batches
<1>4. UnheardInv
  BY DEF UnheardInv
<1> QED
  BY <1>1, <1>2, <1>3, <1>4 DEF TypesInv

\* Every state that is reached satisfies the invariant.
LEMMA Inductive == Spec => [](IInv /\ TypesInv)
<1>1. IInv /\ [Next]_vars => IInv'
  BY NextListener, NextLogged, NextSequences, NextOrder, NextMissing DEF IInv
<1>2. TypesInv /\ IInv /\ [Next]_vars => TypesInv'
  BY NextCounters, NextFlags, NextBatches, NextUnheard DEF TypesInv
<1> QED
  BY InitInv, InitTypes, <1>1, <1>2, PTL DEF Spec

\* The counts stay in their bounds, and the files and the bus hold batches.
THEOREM TypeCorrect == Spec => []TypeOK
<1>1. IInv /\ TypesInv => TypeOK
  <2> SUFFICES ASSUME IInv, TypesInv PROVE TypeOK
    OBVIOUS
  <2>1. unheard \subseteq (1 .. MaxBatches) \X (1 .. MaxSessions)
    BY DEF TypesInv, UnheardInv
  <2>2. Counters /\ Flags /\ Batches
    BY DEF TypesInv
  <2>3. ListenerInv /\ LoggedInv /\ SequencesInv
    BY DEF IInv
  <2>4. /\ listeners \in 0 .. 1
        /\ query \in {"none", "idle", "processed", "acknowledged"}
        /\ committed \in 0 .. MaxBatches
    BY <2>3 DEF ListenerInv, LoggedInv
  <2> QED
    BY <2>1, <2>2, <2>3, <2>4, Zenon
    DEF TypeOK, Counters, Flags, Batches, SequencesInv, Events
<1> QED
  BY Inductive, <1>1, PTL

\* Sessions, queries, kills and clean-ups in any number leave metrics.jsonl
\* with at most one line for a batch, in the order of the commit log (the flag
\* of monitoring.py and the order of Spark's bus).
THEOREM LinesAreOrdered == Spec => []LinesFollowTheCommitLog
<1>1. IInv => LinesFollowTheCommitLog
  BY DEF IInv, OrderInv
<1> QED
  BY Inductive, <1>1, PTL

\* pipeline.log has every acknowledged batch but those whose line make clean
\* took (the append handler of logger.py).
THEOREM LogIsKept == Spec => []LogIsTheWholeHistory
<1>1. IInv => LogIsTheWholeHistory
  BY DEF IInv, LoggedInv
<1> QED
  BY Inductive, <1>1, PTL

\* An acknowledged batch without a line in metrics.jsonl has it on the way,
\* lost it to a kill, or ran in a session the flag kept without a listener.
THEOREM MissingIsExplained == Spec => []MissingLinesAreExplained
<1>1. IInv => MissingLinesAreExplained
  BY DEF IInv
<1> QED
  BY Inductive, <1>1, PTL
=============================================================================
