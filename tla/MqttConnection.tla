---------------------------- MODULE MqttConnection ----------------------------
(***************************************************************************)
(* What the connection service promises of each connection (spec 4.5):    *)
(* setup (handshake and handler initialisation), then serving by the     *)
(* dispatcher, then closed with a result.  A deadline passed with the     *)
(* connection bounds the setup: once it has elapsed the connection is not *)
(* served, and closes with Ok(()).  A setup failure closes it with an      *)
(* error.                                                                  *)
(***************************************************************************)
CONSTANTS
  Conns,       \* the connections
  Deadlines    \* what may come with a connection: "None" or an "Armed" deadline

VARIABLES
  phase,       \* c -> "Idle", "Setup", "Serving" or "Closed"
  deadline,    \* c -> "None", "Armed" or "Fired"
  outcome      \* c -> "None", "Ok" or "Err"

avars == <<phase, deadline, outcome>>

Init ==
  /\ phase = [c \in Conns |-> "Idle"]
  /\ deadline = [c \in Conns |-> "None"]
  /\ outcome = [c \in Conns |-> "None"]

Accept(c) ==
  /\ phase[c] = "Idle"
  /\ phase' = [phase EXCEPT ![c] = "Setup"]
  /\ \E d \in Deadlines : deadline' = [deadline EXCEPT ![c] = d]
  /\ UNCHANGED outcome

Expire(c) ==
  /\ phase[c] = "Setup" /\ deadline[c] = "Armed"
  /\ deadline' = [deadline EXCEPT ![c] = "Fired"]
  /\ UNCHANGED <<phase, outcome>>

Serve(c) ==
  /\ phase[c] = "Setup" /\ deadline[c] # "Fired"
  /\ phase' = [phase EXCEPT ![c] = "Serving"]
  /\ UNCHANGED <<deadline, outcome>>

Close(c, r) ==
  /\ phase' = [phase EXCEPT ![c] = "Closed"]
  /\ outcome' = [outcome EXCEPT ![c] = r]
  /\ UNCHANGED deadline

FailSetup(c) == phase[c] = "Setup" /\ deadline[c] # "Fired" /\ Close(c, "Err")

TimedOut(c) == phase[c] = "Setup" /\ deadline[c] = "Fired" /\ Close(c, "Ok")

End(c) == phase[c] = "Serving" /\ \E r \in {"Ok", "Err"} : Close(c, r)

Next == \E c \in Conns :
          Accept(c) \/ Expire(c) \/ Serve(c) \/ FailSetup(c) \/ TimedOut(c) \/ End(c)

Spec == Init /\ [][Next]_avars

=============================================================================
