------------------------------ MODULE MqttService ------------------------------
(***************************************************************************)
(* The connection service of src/service.rs: a builder configures the     *)
(* disconnect timeout, the factory creates the connect (handshake) service, *)
(* and FramedServiceImpl{,2}::call runs one connection through handshake,  *)
(* handler initialisation and the dispatcher, in that order.  With         *)
(* FactoryBuilder2 the caller may pass a deadline (Option<Delay>) that     *)
(* races the handshake and the handler initialisation in a select.       *)
(*                                                                         *)
(* The connect service, the handler factory, the timer and the dispatcher *)
(* are the environment: each is a future whose outcome the model chooses.  *)
(* The async block of call is polled only when one of the futures it waits *)
(* on is ready; a poll runs it as far as the ready futures let it.         *)
(***************************************************************************)
EXTENDS Naturals

CONSTANTS
  Conns,        \* the connections (io objects) handed to call
  Timeouts,     \* the disconnect_timeout values a user may set
  Builder2      \* FactoryBuilder2: call takes a framed io and an Option<Delay>

ASSUME ServiceAssumptions ==
  /\ 3000 \in Timeouts /\ Timeouts \subseteq Nat
  /\ Builder2 \in BOOLEAN

Stages   == {"Idle", "Handshake", "Init", "Dispatch", "Done"}
Delays   == {"None", "Armed", "Fired"}     \* no deadline, pending, elapsed
Outcomes == {"Pending", "Ok", "Err"}       \* of a future
Results  == {"None", "Ok", "Err"}          \* of the call's future
Svc      == {"Builder", "Factory", "Creating", "Ready", "InitFailed"}

\* what a caller may pass with a connection: Some(delay) only to FramedServiceImpl2
Deadlines == IF Builder2 THEN {"None", "Armed"} ELSE {"None"}

VARIABLES
  svc,       \* FactoryBuilder -> FramedService -> FramedServiceResponse -> FramedServiceImpl
  timeout,   \* disconnect_timeout of the builder, copied into each stage
  stage,     \* c -> where the async block of call(c) is
  delay,     \* c -> the deadline passed with c
  hs,        \* c -> the connect service's handshake future
  init,      \* c -> handler.new_service(result.state)
  disp,      \* c -> the dispatcher: Pending while it runs, then its result
  dtimeout,  \* c -> the disconnect timeout the dispatcher was given
  result     \* c -> what the call's future returned

vars == <<svc, timeout, stage, delay, hs, init, disp, dtimeout, result>>
connVars == <<stage, delay, hs, init, disp, dtimeout, result>>

-----------------------------------------------------------------------------
(* FactoryBuilder{,2}::new: the connect factory and a 3000 ms timeout.    *)
Init ==
  /\ svc = "Builder"
  /\ timeout = 3000
  /\ stage = [c \in Conns |-> "Idle"]
  /\ delay = [c \in Conns |-> "None"]
  /\ hs = [c \in Conns |-> "Pending"]
  /\ init = [c \in Conns |-> "Pending"]
  /\ disp = [c \in Conns |-> "Pending"]
  /\ dtimeout = [c \in Conns |-> 0]
  /\ result = [c \in Conns |-> "None"]

(* FactoryBuilder::disconnect_timeout(val).                                *)
SetDisconnectTimeout(v) ==
  /\ svc = "Builder"
  /\ timeout' = v
  /\ UNCHANGED <<svc, connVars>>

(* FactoryBuilder::build: the builder becomes a FramedService.             *)
Build ==
  /\ svc = "Builder"
  /\ svc' = "Factory"
  /\ UNCHANGED <<timeout, connVars>>

(* FramedService::new_service: start creating the connect service.       *)
NewService ==
  /\ svc = "Factory"
  /\ svc' = "Creating"
  /\ UNCHANGED <<timeout, connVars>>

(* FramedServiceResponse::poll: ready!(fut)? -- the connect service or the *)
(* factory's InitError.                                                    *)
ServiceReady ==
  /\ svc = "Creating"
  /\ svc' \in {"Ready", "InitFailed"}
  /\ UNCHANGED <<timeout, connVars>>

(* FramedServiceImpl{,2}::call(req): connect.call(Handshake::new(req))    *)
(* creates the handshake future; the async block is boxed, not yet run.   *)
Call(c) ==
  /\ svc = "Ready"
  /\ stage[c] = "Idle"
  /\ stage' = [stage EXCEPT ![c] = "Handshake"]
  /\ \E d \in Deadlines : delay' = [delay EXCEPT ![c] = d]
  /\ UNCHANGED <<svc, timeout, hs, init, disp, dtimeout, result>>

\* the connection closes with r
Finish(c, r) ==
  /\ stage' = [stage EXCEPT ![c] = "Done"]
  /\ result' = [result EXCEPT ![c] = r]

\* Dispatcher::with(..).keepalive_timeout(ka).disconnect_timeout(timeout)
StartDispatcher(c) ==
  /\ stage' = [stage EXCEPT ![c] = "Dispatch"]
  /\ dtimeout' = [dtimeout EXCEPT ![c] = timeout]
  /\ UNCHANGED result

(* The handshake-then-init future, run as far as ready futures let it:    *)
(* handshake.await?, then handler.new_service(result.state).await?, whose *)
(* future may itself be ready at once, then the dispatcher.               *)
Setup(c) ==
  \/ /\ stage[c] = "Handshake" /\ hs[c] = "Err"
     /\ Finish(c, "Err") /\ UNCHANGED <<init, dtimeout>>
  \/ /\ stage[c] = "Handshake" /\ hs[c] = "Ok"
     /\ \E o \in Outcomes :
          /\ init' = [init EXCEPT ![c] = o]
          /\ \/ o = "Pending" /\ stage' = [stage EXCEPT ![c] = "Init"]
                /\ UNCHANGED <<dtimeout, result>>
             \/ o = "Ok" /\ StartDispatcher(c)
             \/ o = "Err" /\ Finish(c, "Err") /\ UNCHANGED dtimeout
  \/ /\ stage[c] = "Init" /\ init[c] = "Ok"
     /\ StartDispatcher(c) /\ UNCHANGED init
  \/ /\ stage[c] = "Init" /\ init[c] = "Err"
     /\ Finish(c, "Err") /\ UNCHANGED <<init, dtimeout>>

\* the future the async block waits on is ready
Woken(c) ==
  \/ stage[c] = "Handshake" /\ hs[c] # "Pending"
  \/ stage[c] = "Init" /\ init[c] # "Pending"

\* a mutant polls the handshake before the deadline
PollSelectLate(c) ==
  /\ delay[c] # "None"
  /\ stage[c] \in {"Handshake", "Init"}
  /\ \/ Woken(c) /\ Setup(c)
     \/ ~Woken(c) /\ delay[c] = "Fired"
        /\ Finish(c, "Ok") /\ UNCHANGED <<init, dtimeout>>
  /\ UNCHANGED <<svc, timeout, delay, hs, disp>>

\* a mutant is polled only when the setup future is ready: the elapsed
\* delay does not wake it
PollSelectNoWake(c) ==
  /\ delay[c] # "None"
  /\ stage[c] \in {"Handshake", "Init"}
  /\ Woken(c)
  /\ \/ delay[c] = "Fired"
        /\ Finish(c, "Ok") /\ UNCHANGED <<init, dtimeout>>
     \/ delay[c] = "Armed" /\ Setup(c)
  /\ UNCHANGED <<svc, timeout, delay, hs, disp>>

(* FramedServiceImpl2::call with Some(delay): select(delay, setup) polls   *)
(* the delay first; if it has elapsed the call returns Ok(()) ("Handshake *)
(* timed out") and drops the setup future, otherwise it polls the setup.  *)
PollSelect(c) ==
  /\ delay[c] # "None"
  /\ stage[c] \in {"Handshake", "Init"}
  /\ \/ delay[c] = "Fired"
        /\ Finish(c, "Ok") /\ UNCHANGED <<init, dtimeout>>
     \/ delay[c] = "Armed" /\ Woken(c) /\ Setup(c)
  /\ UNCHANGED <<svc, timeout, delay, hs, disp>>

(* FramedServiceImpl::call, and FramedServiceImpl2::call with None.       *)
PollPlain(c) ==
  /\ delay[c] = "None"
  /\ Woken(c)
  /\ Setup(c)
  /\ UNCHANGED <<svc, timeout, delay, hs, disp>>

-----------------------------------------------------------------------------
(* The environment.                                                        *)

(* The connect service's handshake completes, or fails.                   *)
HandshakeDone(c) ==
  /\ stage[c] = "Handshake" /\ hs[c] = "Pending"
  /\ \E o \in {"Ok", "Err"} : hs' = [hs EXCEPT ![c] = o]
  /\ UNCHANGED <<svc, timeout, stage, delay, init, disp, dtimeout, result>>

(* The handler factory's new_service future completes, or fails.          *)
InitDone(c) ==
  /\ stage[c] = "Init" /\ init[c] = "Pending"
  /\ \E o \in {"Ok", "Err"} : init' = [init EXCEPT ![c] = o]
  /\ UNCHANGED <<svc, timeout, stage, delay, hs, disp, dtimeout, result>>

(* The deadline elapses while the select still holds it.                  *)
Expire(c) ==
  /\ stage[c] \in {"Handshake", "Init"} /\ delay[c] = "Armed"
  /\ delay' = [delay EXCEPT ![c] = "Fired"]
  /\ UNCHANGED <<svc, timeout, stage, hs, init, disp, dtimeout, result>>

(* The dispatcher ends the connection with its result.                    *)
DispatcherEnd(c) ==
  /\ stage[c] = "Dispatch"
  /\ \E o \in {"Ok", "Err"} :
       /\ disp' = [disp EXCEPT ![c] = o]
       /\ Finish(c, o)
  /\ UNCHANGED <<svc, timeout, delay, hs, init, dtimeout>>

Next ==
  \/ \E v \in Timeouts : SetDisconnectTimeout(v)
  \/ Build \/ NewService \/ ServiceReady
  \/ \E c \in Conns :
       \/ Call(c) \/ PollSelect(c) \/ PollPlain(c)
       \/ HandshakeDone(c) \/ InitDone(c) \/ Expire(c) \/ DispatcherEnd(c)

(* The executor polls a woken task, and the timer wheel fires an elapsed  *)
(* delay; the peer, the handler factory and the dispatcher get no fairness. *)
Fairness == \A c \in Conns : /\ WF_vars(PollSelect(c)) /\ WF_vars(PollPlain(c))
                             /\ WF_vars(Expire(c))

Spec == Init /\ [][Next]_vars /\ Fairness

-----------------------------------------------------------------------------
(* Properties.                                                             *)

TypeOK ==
  /\ svc \in Svc /\ timeout \in Timeouts
  /\ stage \in [Conns -> Stages] /\ delay \in [Conns -> Delays]
  /\ hs \in [Conns -> Outcomes] /\ init \in [Conns -> Outcomes]
  /\ disp \in [Conns -> Outcomes] /\ dtimeout \in [Conns -> Nat]
  /\ result \in [Conns -> Results]

(* What call(io) returns is explained by what happened on the connection:  *)
(* an error only if the handshake, the handler factory or the dispatcher   *)
(* failed, and never once the deadline has elapsed; Ok(()) either because  *)
(* the dispatcher ended well or because the deadline won the select, and   *)
(* never both -- a handshake finishing as the delay fires is not served.   *)
ResultFaithful ==
  \A c \in Conns :
    /\ result[c] = "Err" => delay[c] # "Fired" /\ "Err" \in {hs[c], init[c], disp[c]}
    /\ result[c] = "Ok" => (disp[c] = "Ok") # (delay[c] = "Fired")

(* A connection accepted with a deadline leaves the handshake and handler *)
(* initialisation -- to its dispatcher or closed -- however long the peer *)
(* or the handler factory takes (spec 4.5: the handshake races the delay). *)
SetupBounded ==
  \A c \in Conns :
    stage[c] \in {"Handshake", "Init"} /\ delay[c] # "None"
      ~> stage[c] \in {"Dispatch", "Done"}

-----------------------------------------------------------------------------
(* The refinement: the promise of MqttConnection, seen through the stage  *)
(* of each call.                                                           *)

PhaseOf(s) == CASE s = "Idle"                 -> "Idle"
                [] s \in {"Handshake", "Init"} -> "Setup"
                [] s = "Dispatch"             -> "Serving"
                [] s = "Done"                 -> "Closed"

Phase == [k \in Conns |-> PhaseOf(stage[k])]

Abs == INSTANCE MqttConnection WITH phase <- Phase, deadline <- delay, outcome <- result

(* Every behaviour of the connection service is one the abstract          *)
(* connection allows: handshake, handler init and dispatcher in order, no *)
(* dispatcher once the deadline has elapsed, setup errors propagated and a *)
(* timed-out setup closed with Ok(()).                                     *)
Refinement == Abs!Spec

=============================================================================
