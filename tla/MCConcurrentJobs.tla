-------------------------- MODULE MCConcurrentJobs --------------------------
(* Two jobs and three files. *)
EXTENDS ConcurrentJobs, TLC

MCEventTypes == {"view", "purchase"}
MCTexts == MCEventTypes \union {"", "e1", "e2", "e3", "u", "p", "books", "toys"}
MCTrimLower == [t \in MCTexts |-> t]

Event(id, second, category, type, mills, quantity) ==
    [corrupt |-> NULL, event_id |-> id, user_id |-> "u", product_id |-> "p",
     category |-> category, event_type |-> type,
     event_time |-> second, generated_at |-> 62,
     price |-> mills, quantity |-> quantity]

\* e1 is in two files with different revenue; f3 has no valid row.
MCFiles == {"f1", "f2", "f3"}
MCFileOf == <<"f1", "f1", "f2", "f2", "f3">>
MCLine ==
    << Event("e1", 59, "books", "purchase", 10, 2),
       Event("e2", 0, "books", "view", 30, 1),
       Event("e1", 58, "books", "purchase", 10, 1),
       Event("e3", 61, "toys", "purchase", 10, 3),
       Event("e3", 61, "toys", "purchase", -10, 3) >>

JobSymmetry == Permutations(Jobs)
=============================================================================
