----------------------------- MODULE MCPipeline -----------------------------
(* Two runs of the generator with one seed, the second a while later. *)
EXTENDS Pipeline

\* The second run has no malformed events and ends by itself.
MCSeedOf == [g \in Runs |-> "s"]
MCBadRate == [g \in Runs |-> IF g = "g1" THEN 50 ELSE 0]
MCRandomAt == [s \in {"s"} |-> [p \in 0 .. 8 |-> IF p = 0 THEN 10 ELSE 60]]
MCDuration == [g \in Runs |-> IF g = "g1" THEN Forever ELSE 2]
MCStartedAt == [g \in Runs |-> IF g = "g1" THEN 0 ELSE 100]
=============================================================================
