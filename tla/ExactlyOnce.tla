---------------------------- MODULE ExactlyOnce -----------------------------
(***************************************************************************)
(* What the pipeline promises, without batches, transactions or crashes:   *)
(* each event id is stored once, the totals are at every moment those of   *)
(* the stored rows, and a file is done only when each of its rows is       *)
(* accounted for.  What a row is, which rows are good and what the totals  *)
(* of a set of rows are, are parameters.                                   *)
(***************************************************************************)
CONSTANTS
    Rows,       \* the rows of all files
    Files,
    FileOf,     \* the file of each row
    Good,       \* the rows to be stored; the others are to be rejected
    Id(_),      \* the event id of a row
    Totals(_)   \* the totals of a set of rows

VARIABLES
    stored,    \* the rows stored
    totals,    \* the totals shown
    rejected,  \* the rows shown as rejected
    done       \* the files that will never be read again

promise == <<stored, totals, rejected, done>>

Bad == Rows \ Good
RowsOf(F) == {r \in Rows : FileOf[r] \in F}
Ids(S) == {Id(r) : r \in S}

TypeOK ==
    /\ stored \subseteq Good
    /\ rejected \subseteq Bad
    /\ done \subseteq Files

Init ==
    /\ stored = {}
    /\ totals = Totals({})
    /\ rejected = {}
    /\ done = {}

\* Rows with new ids, one for each, are stored and the totals are theirs too.
Store(S) ==
    /\ \A r \in S : FileOf[r] \notin done
    /\ \A r, s \in S : Id(r) = Id(s) => r = s
    /\ Ids(S) \intersect Ids(stored) = {}
    /\ stored' = stored \union S
    /\ totals' = Totals(stored \union S)
    /\ UNCHANGED <<rejected, done>>

Reject(S) ==
    /\ \A r \in S : FileOf[r] \notin done
    /\ rejected' = rejected \union S
    /\ UNCHANGED <<stored, totals, done>>

\* Every good row of F is represented by its id, every other row is shown.
AccountedFor(F) ==
    /\ Ids(RowsOf(F) \intersect Good) \subseteq Ids(stored)
    /\ RowsOf(F) \intersect Bad \subseteq rejected

Finish(F) ==
    /\ F \intersect done = {}
    /\ AccountedFor(F)
    /\ done' = done \union F
    /\ UNCHANGED <<stored, totals, rejected>>

Next ==
    \/ \E S \in SUBSET Good : Store(S)
    \/ \E S \in SUBSET Bad : Reject(S)
    \/ \E F \in SUBSET Files : Finish(F)

Spec == Init /\ [][Next]_promise
=============================================================================
