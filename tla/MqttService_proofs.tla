--------------------------- MODULE MqttService_proofs ---------------------------
(***************************************************************************)
(* Proofs about the connection service: its type invariant, the          *)
(* invariant ResultFaithful (what call(io) returns is explained by what    *)
(* happened), and that it implements the abstract connection MqttConnection. *)
(***************************************************************************)
EXTENDS MqttService, TLAPS

\* the per-connection facts that make ResultFaithful inductive
ConnInv(c) ==
  /\ stage[c] # "Done" => result[c] = "None"
  /\ disp[c] # "Pending" => stage[c] = "Done" /\ result[c] = disp[c]
  /\ stage[c] = "Dispatch" => delay[c] # "Fired"
  /\ delay[c] = "Fired" => disp[c] = "Pending"

IInv == TypeOK /\ ResultFaithful /\ \A c \in Conns : ConnInv(c)

LEMMA InitIInv == Init => IInv
BY ServiceAssumptions DEF Init, IInv, TypeOK, ResultFaithful, ConnInv, Stages, Delays, Outcomes, Results, Svc

\* the builder and factory steps leave every connection alone
LEMMA ServiceStepIInv ==
  ASSUME IInv,
         \/ \E v \in Timeouts : SetDisconnectTimeout(v)
         \/ Build \/ NewService \/ ServiceReady
  PROVE  IInv'
BY DEF IInv, TypeOK, ResultFaithful, ConnInv, SetDisconnectTimeout, Build,
       NewService, ServiceReady, connVars, Svc

LEMMA CallIInv ==
  ASSUME IInv, NEW c \in Conns, Call(c)
  PROVE  IInv'
BY DEF IInv, TypeOK, ResultFaithful, ConnInv, Call, Deadlines, Stages, Delays

LEMMA SetupIInv ==
  ASSUME IInv, NEW c \in Conns, delay[c] # "Fired", Setup(c),
         UNCHANGED <<svc, timeout, delay, hs, disp>>
  PROVE  IInv'
<1>1. CASE stage[c] = "Handshake" /\ hs[c] = "Err" /\ Finish(c, "Err")
           /\ UNCHANGED <<init, dtimeout>>
  BY <1>1 DEF IInv, TypeOK, ResultFaithful, ConnInv, Finish, Stages, Results
<1>2. ASSUME NEW o \in Outcomes, stage[c] = "Handshake", hs[c] = "Ok",
             init' = [init EXCEPT ![c] = o],
             \/ o = "Pending" /\ stage' = [stage EXCEPT ![c] = "Init"]
                /\ UNCHANGED <<dtimeout, result>>
             \/ o = "Ok" /\ StartDispatcher(c)
             \/ o = "Err" /\ Finish(c, "Err") /\ UNCHANGED dtimeout
      PROVE  IInv'
  BY <1>2, ServiceAssumptions DEF IInv, TypeOK, ResultFaithful, ConnInv, Finish,
                                  StartDispatcher, Stages, Outcomes, Results
<1>3. CASE stage[c] = "Init" /\ init[c] = "Ok" /\ StartDispatcher(c) /\ UNCHANGED init
  BY <1>3, ServiceAssumptions DEF IInv, TypeOK, ResultFaithful, ConnInv,
                                  StartDispatcher, Stages
<1>4. CASE stage[c] = "Init" /\ init[c] = "Err" /\ Finish(c, "Err")
           /\ UNCHANGED <<init, dtimeout>>
  BY <1>4 DEF IInv, TypeOK, ResultFaithful, ConnInv, Finish, Stages, Results
<1>5. QED
  BY <1>1, <1>2, <1>3, <1>4 DEF Setup

LEMMA PollSelectIInv ==
  ASSUME IInv, NEW c \in Conns, PollSelect(c)
  PROVE  IInv'
<1>1. CASE delay[c] = "Fired" /\ Finish(c, "Ok") /\ UNCHANGED <<init, dtimeout>>
             /\ UNCHANGED <<svc, timeout, delay, hs, disp>>
  BY <1>1 DEF IInv, TypeOK, ResultFaithful, ConnInv, PollSelect, Finish, Stages, Results
<1>2. CASE delay[c] = "Armed" /\ Setup(c) /\ UNCHANGED <<svc, timeout, delay, hs, disp>>
  BY <1>2, SetupIInv
<1>3. QED
  BY <1>1, <1>2 DEF PollSelect

LEMMA PollPlainIInv ==
  ASSUME IInv, NEW c \in Conns, PollPlain(c)
  PROVE  IInv'
BY SetupIInv DEF PollPlain

LEMMA EnvIInv ==
  ASSUME IInv, NEW c \in Conns,
         HandshakeDone(c) \/ InitDone(c) \/ Expire(c) \/ DispatcherEnd(c)
  PROVE  IInv'
<1>1. CASE HandshakeDone(c)
  BY <1>1 DEF IInv, TypeOK, ResultFaithful, ConnInv, HandshakeDone, Outcomes
<1>2. CASE InitDone(c)
  BY <1>2 DEF IInv, TypeOK, ResultFaithful, ConnInv, InitDone, Outcomes
<1>3. CASE Expire(c)
  BY <1>3 DEF IInv, TypeOK, ResultFaithful, ConnInv, Expire, Delays
<1>4. CASE DispatcherEnd(c)
  BY <1>4 DEF IInv, TypeOK, ResultFaithful, ConnInv, DispatcherEnd, Finish,
             Stages, Outcomes, Results
<1>5. QED
  BY <1>1, <1>2, <1>3, <1>4

LEMMA NextIInv == IInv /\ [Next]_vars => IInv'
<1> SUFFICES ASSUME IInv, [Next]_vars PROVE IInv'
  OBVIOUS
<1>1. CASE UNCHANGED vars
  BY <1>1 DEF IInv, TypeOK, ResultFaithful, ConnInv, vars
<1>2. CASE \/ \E v \in Timeouts : SetDisconnectTimeout(v)
           \/ Build \/ NewService \/ ServiceReady
  BY <1>2, ServiceStepIInv
<1>3. ASSUME NEW c \in Conns,
             \/ Call(c) \/ PollSelect(c) \/ PollPlain(c)
             \/ HandshakeDone(c) \/ InitDone(c) \/ Expire(c) \/ DispatcherEnd(c)
      PROVE IInv'
  BY <1>3, CallIInv, PollSelectIInv, PollPlainIInv, EnvIInv
<1>4. QED
  BY <1>1, <1>2, <1>3 DEF Next

(* The invariant of the connection service, for every set of connections, *)
(* every set of timeouts and both builders: the strengthening IInv holds  *)
(* in every reachable state.                                               *)
THEOREM Invariant == Spec => []IInv
BY InitIInv, NextIInv, PTL DEF Spec

(* What call(io) returns is explained by what happened on the connection  *)
(* (FramedServiceImpl2::call's select and its ? operators), for every     *)
(* number of connections.                                                  *)
THEOREM ResultFaithfulHolds == Spec => []ResultFaithful
BY Invariant, PTL DEF IInv

(* The service's variables keep their types (FramedServiceImpl{,2}::call  *)
(* and the builder).                                                       *)
THEOREM TypeCorrect == Spec => []TypeOK
BY Invariant, PTL DEF IInv

-----------------------------------------------------------------------------
(* The refinement.                                                         *)

\* Phase with one connection's phase replaced
LEMMA PhaseExcept ==
  ASSUME NEW c \in Conns, NEW v
  PROVE  [Phase EXCEPT ![c] = v] = [d \in Conns |-> IF d = c THEN v ELSE PhaseOf(stage[d])]
BY Zenon DEF Phase

\* moving one connection to stage s moves its abstract phase to PhaseOf(s)
LEMMA PhaseStep ==
  ASSUME TypeOK, NEW c \in Conns, NEW s \in Stages,
         stage' = [stage EXCEPT ![c] = s]
  PROVE  Phase' = [Phase EXCEPT ![c] = PhaseOf(s)]
<1>1. \A d \in Conns : stage'[d] = IF d = c THEN s ELSE stage[d]
  BY DEF TypeOK
<1>2. Phase' = [d \in Conns |-> PhaseOf(stage'[d])]
  BY DEF Phase
<1>3. [Phase EXCEPT ![c] = PhaseOf(s)]
        = [d \in Conns |-> IF d = c THEN PhaseOf(s) ELSE PhaseOf(stage[d])]
  BY PhaseExcept
<1>4. \A d \in Conns : PhaseOf(stage'[d]) = IF d = c THEN PhaseOf(s) ELSE PhaseOf(stage[d])
  BY <1>1
<1>5. QED
  BY <1>2, <1>3, <1>4

\* a step that leaves stage, delay and result alone is an abstract stutter
LEMMA AbsStutter ==
  ASSUME UNCHANGED <<stage, delay, result>>
  PROVE  UNCHANGED <<Phase, delay, result>>
BY DEF Phase

\* stage Init stands for the same abstract phase as stage Handshake
LEMMA SetupPhases == PhaseOf("Handshake") = "Setup" /\ PhaseOf("Init") = "Setup"
                     /\ PhaseOf("Dispatch") = "Serving" /\ PhaseOf("Done") = "Closed"
BY DEF PhaseOf

LEMMA SetupRefines ==
  ASSUME TypeOK, NEW c \in Conns, delay[c] # "Fired", Setup(c), UNCHANGED delay
  PROVE  Abs!Serve(c) \/ Abs!FailSetup(c) \/ UNCHANGED <<Phase, delay, result>>
<1>1. Phase[c] = "Setup" /\ stage[c] \in {"Handshake", "Init"}
  BY SetupPhases DEF Setup, Phase
<1>2. CASE stage' = [stage EXCEPT ![c] = "Dispatch"] /\ UNCHANGED result
  <2>1. Phase' = [Phase EXCEPT ![c] = "Serving"]
    BY <1>2, PhaseStep, SetupPhases DEF Stages
  <2>2. QED
    BY <1>1, <1>2, <2>1 DEF Abs!Serve
<1>3. CASE Finish(c, "Err")
  <2>1. Phase' = [Phase EXCEPT ![c] = "Closed"]
    BY <1>3, PhaseStep, SetupPhases DEF Finish, Stages
  <2>2. QED
    BY <1>1, <1>3, <2>1 DEF Abs!FailSetup, Abs!Close, Finish
<1>4. CASE stage' = [stage EXCEPT ![c] = "Init"] /\ stage[c] = "Handshake"
           /\ UNCHANGED result
  <2>1. Phase' = [Phase EXCEPT ![c] = "Setup"]
    BY <1>4, PhaseStep, SetupPhases DEF Stages
  <2>2. Phase' = Phase
    BY <1>1, <2>1 DEF Phase
  <2>3. QED
    BY <1>4, <2>2
<1>5. QED
  BY <1>2, <1>3, <1>4 DEF Setup, StartDispatcher

LEMMA NextRefines ==
  ASSUME TypeOK, [Next]_vars
  PROVE  [Abs!Next]_<<Phase, delay, result>>
<1>1. CASE UNCHANGED vars
  BY <1>1, AbsStutter DEF vars
<1>2. CASE \/ \E v \in Timeouts : SetDisconnectTimeout(v)
           \/ Build \/ NewService \/ ServiceReady
  BY <1>2, AbsStutter DEF SetDisconnectTimeout, Build, NewService, ServiceReady, connVars
<1>3. ASSUME NEW c \in Conns, Call(c)
      PROVE  Abs!Accept(c)
  <2>1. Phase' = [Phase EXCEPT ![c] = "Setup"]
    BY <1>3, PhaseStep, SetupPhases DEF Call, Stages
  <2>2. QED
    BY <1>3, <2>1 DEF Call, Abs!Accept, Phase, PhaseOf
<1>4. ASSUME NEW c \in Conns, PollSelect(c)
      PROVE  [Abs!Next]_<<Phase, delay, result>>
  <2>1. CASE delay[c] = "Fired" /\ Finish(c, "Ok")
    <3>1. Phase' = [Phase EXCEPT ![c] = "Closed"]
      BY <2>1, PhaseStep, SetupPhases DEF Finish, Stages
    <3>2. Phase[c] = "Setup"
      BY <1>4, SetupPhases DEF PollSelect, Phase
    <3>3. Abs!TimedOut(c)
      BY <1>4, <2>1, <3>1, <3>2 DEF PollSelect, Abs!TimedOut, Abs!Close, Finish
    <3>4. QED
      BY <3>3 DEF Abs!Next
  <2>2. CASE delay[c] = "Armed" /\ Setup(c)
    BY <1>4, <2>2, SetupRefines DEF PollSelect, Abs!Next
  <2>3. QED
    BY <1>4, <2>1, <2>2 DEF PollSelect
<1>5. ASSUME NEW c \in Conns, PollPlain(c)
      PROVE  [Abs!Next]_<<Phase, delay, result>>
  BY <1>5, SetupRefines DEF PollPlain, Abs!Next
<1>6. ASSUME NEW c \in Conns, HandshakeDone(c) \/ InitDone(c)
      PROVE  UNCHANGED <<Phase, delay, result>>
  BY <1>6, AbsStutter DEF HandshakeDone, InitDone
<1>7. ASSUME NEW c \in Conns, Expire(c)
      PROVE  Abs!Expire(c)
  BY <1>7, SetupPhases DEF Expire, Abs!Expire, Phase
<1>8. ASSUME NEW c \in Conns, DispatcherEnd(c)
      PROVE  Abs!End(c)
  <2>1. Phase' = [Phase EXCEPT ![c] = "Closed"]
    BY <1>8, PhaseStep, SetupPhases DEF DispatcherEnd, Finish, Stages
  <2>2. Phase[c] = "Serving"
    BY <1>8, SetupPhases DEF DispatcherEnd, Phase
  <2>3. QED
    BY <1>8, <2>1, <2>2 DEF DispatcherEnd, Finish, Abs!End, Abs!Close
<1>9. QED
  BY <1>1, <1>2, <1>3, <1>4, <1>5, <1>6, <1>7, <1>8 DEF Next, Abs!Next

(* The connection service implements MqttConnection under the mapping    *)
(* Phase (stage Handshake and Init are Setup, Dispatch is Serving, Done   *)
(* is Closed), for every set of connections and both builders: handshake, *)
(* handler init and dispatcher run in order, no dispatcher starts once the *)
(* deadline has elapsed, and a timed-out setup closes with Ok(()).         *)
THEOREM Implements == Spec => Refinement
<1>1. Init => Abs!Init
  BY DEF Init, Abs!Init, Phase, PhaseOf
<1>2. TypeOK /\ [Next]_vars => [Abs!Next]_Abs!avars
  BY NextRefines DEF Abs!avars
<1>3. QED
  BY <1>1, <1>2, TypeCorrect, PTL DEF Spec, Refinement, Abs!Spec

=============================================================================
