------------------------------ MODULE MC_MqttSink ------------------------------
(* Model-checking instance of MqttSink: sender tasks as model values.      *)
EXTENDS MqttSink, TLC

CONSTANTS t1, t2, t3, t4

MCTasks3 == {t1, t2, t3}
MCTasks4 == {t1, t2, t3, t4}

\* the senders are interchangeable
MCSymmetry == Permutations(Tasks)

(* The system may stop once every sender has finished.                     *)
Quiescent ==
  /\ \A t \in Tasks : pc[t] \in {"Done", "Dropped", "Panicked"}
  /\ UNCHANGED vars

MCNext == Next \/ Quiescent

MCSpec == Init /\ [][MCNext]_vars /\ Fairness
=============================================================================
