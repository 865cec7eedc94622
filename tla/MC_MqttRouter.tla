------------------------------ MODULE MC_MqttRouter ------------------------------
(* Small instances of the v5 router for TLC.                                *)
EXTENDS MqttRouter, TLC

CONSTANTS a, b, c, a1, a2

MCTopics == {a, b, c}
\* resource 0 recognizes "a" only; "b" falls through to the default service
MCRoutePartial == [t \in MCTopics |-> IF t = a THEN 0 ELSE IF t = c THEN 1 ELSE NoRoute]
MCAliases == {a1, a2}
MCSymmetry == Permutations(MCAliases)

\* the connection goes on after the last publish the model makes
MCNext == Next \/ (calls = MaxCalls /\ UNCHANGED vars)
MCSpec == Init /\ [][MCNext]_vars
====
