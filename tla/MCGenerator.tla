---------------------------- MODULE MCGenerator ----------------------------
(* Two runs of the generator with one seed, the second a while later. *)
EXTENDS Generator

MCSeedOf == [g \in Runs |-> "s"]
MCStartedAt == [g \in Runs |-> IF g = "g1" THEN 0 ELSE 100]

\* The first run corrupts its second and its fourth event, the second run none.
MCBadRate == [g \in Runs |-> IF g = "g1" THEN 50 ELSE 0]
MCRandomAt == [s \in {"s"} |-> [p \in 0 .. 12 |-> IF p \in {1, 4} THEN 10 ELSE 60]]

\* Both corrupt them.
MCSameRate == [g \in Runs |-> 50]

\* The second run ends by itself.
MCDuration == [g \in Runs |-> IF g = "g1" THEN Forever ELSE 5]
=============================================================================
