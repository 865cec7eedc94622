---------------------------- MODULE MC_MqttService ----------------------------
(* Model-checking instance of MqttService: connections as model values.   *)
EXTENDS MqttService

CONSTANTS c1, c2

MCConns == {c1, c2}
MCTimeouts == {0, 3000}

\* every connection has closed, or the factory failed: the service idles
Quiescent == svc = "InitFailed" \/ \A c \in Conns : stage[c] = "Done"

MCNext == Next \/ (Quiescent /\ UNCHANGED vars)
MCSpec == Init /\ [][MCNext]_vars /\ Fairness
=============================================================================
