---------------------------- MODULE ProxyProofs -----------------------------
(* Safety of the daemon's life under systemd, for any set of connections, any *)
(* signals in any order and any number of restarts.                           *)
EXTENDS Proxy, TLAPS

\* A process that runs has not ended, and nothing of it has been cut short yet.
RunningInv == life # "off" => exit = Nothing /\ cut = {}

IInv == TypeOK /\ RunningInv /\ RequestsSurviveShutdown

Connections == {"closed", "backlog", "idle", "busy"}

-----------------------------------------------------------------------------
\* A process that is not serving has no connection, hence no request to cut short.
LEMMA NotServing ==
    ASSUME TypeOK, life \notin {"serve", "drain"} PROVE Busy = {}
BY DEF TypeOK, Busy

\* A process dies: its connections and handlers are gone; `why` is noted if, and
\* only if, a request was running.
LEMMA DiesKeeps ==
    ASSUME IInv, life # "off", NEW how, NEW why, Dies(how, why),
           how \in {"success", "failure", "signal", "killed"},
           how # "killed" /\ Busy # {} => how = "signal" /\ why = "unhandled signal",
           how = "killed" => why = "stop timeout",
           unit' \in {"restarting", "down"},
           key' \in {Nothing, IF file = "none" THEN "variable" ELSE "file"}
    PROVE  IInv'
<1> USE DEF IInv, RunningInv
<1>1. /\ life' = "off" /\ exit' = how /\ handled' = {} /\ pending' = {}
      /\ conn' = [c \in Conns |-> "closed"] /\ UNCHANGED <<file, variable>>
      /\ cut' = IF Busy # {} THEN {why} ELSE {}
  BY DEF Dies
<1>2. TypeOK'
  BY <1>1 DEF TypeOK, Nothing
<1>3. RunningInv'
  BY <1>1
<1>4. RequestsSurviveShutdown'
  BY <1>1 DEF RequestsSurviveShutdown
<1>5. QED
  BY <1>2, <1>3, <1>4

\* What changes neither the process nor how it ended keeps the rest.
LEMMA AliveKeeps ==
    ASSUME IInv, TypeOK', life # "off", UNCHANGED <<exit, cut>> PROVE IInv'
BY DEF IInv, RunningInv, RequestsSurviveShutdown

-----------------------------------------------------------------------------
LEMMA StartInv == ASSUME IInv, Start PROVE IInv'
BY DEF IInv, RunningInv, RequestsSurviveShutdown, TypeOK, Start, Nothing

\* The key is read from the file that was named, or else from the environment.
LEMMA KeySource ==
    ASSUME TypeOK
    PROVE  LoadApiKey \in {Nothing, IF file = "none" THEN "variable" ELSE "file"}
BY DEF TypeOK, LoadApiKey, Nothing

\* A step of the start-up succeeds or fails; nobody is connected yet.
LEMMA StartupInv ==
    ASSUME IInv, LoadKey \/ AttestOk \/ AttestFail \/ BindOk \/ BindFail PROVE IInv'
<1>1. life \in {"key", "attest", "bind"} /\ TypeOK
  BY DEF IInv, LoadKey, AttestOk, AttestFail, BindOk, BindFail
<1>2. key' \in {Nothing, IF file = "none" THEN "variable" ELSE "file"}
  <2>1. CASE LoadKey
    BY <1>1, <2>1, KeySource DEF LoadKey
  <2>2. CASE AttestOk \/ AttestFail \/ BindOk \/ BindFail
    BY <1>1, <2>2 DEF TypeOK, AttestOk, AttestFail, BindOk, BindFail
  <2>3. QED
    BY <2>1, <2>2
<1>3. CASE Fails
  BY <1>1, <1>2, <1>3, NotServing, DiesKeeps DEF Fails, UnitAfter
<1>4. ASSUME NEW next \in {"attest", "bind", "serve"}, Proceed(next) PROVE IInv'
  <2>1. TypeOK'
    BY <1>1, <1>2, <1>4 DEF Proceed, TypeOK
  <2>2. QED
    BY <1>1, <1>4, <2>1, AliveKeeps DEF Proceed
<1>5. QED
  BY <1>3, <1>4 DEF LoadKey, AttestOk, AttestFail, BindOk, BindFail

\* A connection changes its state while the process serves or drains.
LEMMA ConnectionInv ==
    ASSUME IInv, NEW c \in Conns, NEW from \in Connections, NEW to \in Connections,
           Connection(c, from, to), from = "closed" => life = "serve"
    PROVE  IInv'
<1>1. life \in {"serve", "drain"}
  BY DEF IInv, TypeOK, Connection, Connections
<1>2. TypeOK'
  BY <1>1 DEF IInv, TypeOK, Connection, Connections
<1>3. QED
  BY <1>1, <1>2, AliveKeeps DEF Connection

LEMMA PeersInv == ASSUME IInv, NEW c \in Conns,
                         Connect(c) \/ Accept(c) \/ Request(c) \/ Respond(c) \/ HangUp(c)
                         \/ CloseIdle(c)
                  PROVE  IInv'
BY ConnectionInv DEF Connect, Accept, Request, Respond, HangUp, CloseIdle, Connections

LEMMA InstallInv == ASSUME IInv, InstallHandlers PROVE IInv'
<1>1. TypeOK'
  BY DEF IInv, TypeOK, InstallHandlers, Signals
<1>2. QED
  BY <1>1, AliveKeeps DEF InstallHandlers

LEMMA DrainInv == ASSUME IInv, StartDrain PROVE IInv'
<1>1. TypeOK'
  BY DEF IInv, TypeOK, StartDrain
<1>2. QED
  BY <1>1, AliveKeeps DEF StartDrain

\* Nothing is busy when every connection is closed.
LEMMA ExitInv == ASSUME IInv, Exit PROVE IInv'
<1>1. Busy = {}
  BY DEF Exit, Busy
<1>2. QED
  BY <1>1, DiesKeeps DEF IInv, TypeOK, Exit, UnitAfter

LEMMA TimeoutInv == ASSUME IInv, StopTimeout PROVE IInv'
BY DiesKeeps DEF IInv, TypeOK, StopTimeout

\* A signal is received by its handler, or kills.
LEMMA SignalInv ==
    ASSUME IInv, NEW s \in Signals, life # "off", Deliver(s),
           unit' \in {"up", "stopping", "restarting", "down"},
           life' = "off" => unit' \in {"restarting", "down"}
    PROVE  IInv'
<1>1. CASE s \in handled
  <2>1. TypeOK'
    BY <1>1 DEF IInv, TypeOK, Deliver
  <2>2. QED
    BY <1>1, <2>1, AliveKeeps DEF Deliver
<1>2. CASE s \notin handled
  <2>1. Dies("signal", "unhandled signal") /\ UNCHANGED key
    BY <1>2 DEF Deliver
  <2>2. unit' \in {"restarting", "down"}
    BY <2>1 DEF Dies
  <2>3. QED
    BY <2>1, <2>2, DiesKeeps DEF IInv, TypeOK
<1>3. QED
  BY <1>1, <1>2

LEMMA StopInv == ASSUME IInv, Stop PROVE IInv'
BY SignalInv DEF Stop, Signals

LEMMA KillInv == ASSUME IInv, NEW s \in Signals, Kill(s) PROVE IInv'
BY SignalInv DEF Kill, UnitAfter

-----------------------------------------------------------------------------
LEMMA StepInv == IInv /\ [Next]_vars => IInv'
<1> SUFFICES ASSUME IInv, [Next]_vars PROVE IInv'
  OBVIOUS
<1>1. CASE Start
  BY <1>1, StartInv
<1>2. CASE Run
  BY <1>2, StartupInv, InstallInv, DrainInv, ExitInv, PeersInv DEF Run
<1>3. CASE Peers
  BY <1>3, PeersInv DEF Peers
<1>4. CASE Stop \/ StopTimeout \/ \E s \in Signals : Kill(s)
  BY <1>4, StopInv, KillInv, TimeoutInv
<1>5. CASE UNCHANGED vars
  BY <1>5 DEF vars, IInv, TypeOK, RunningInv, RequestsSurviveShutdown
<1>6. QED
  BY <1>1, <1>2, <1>3, <1>4, <1>5 DEF Next, Stopped

THEOREM Invariance == Spec => []IInv
<1>1. Init => IInv
  BY DEF Init, IInv, TypeOK, RunningInv, RequestsSurviveShutdown, Nothing
<1>2. QED
  BY <1>1, StepInv, PTL DEF Spec

\* main.rs:114-116, 129-130: a file that was named is the only source of the key,
\* and nobody connects to a process that has not attested.
THEOREM TypeCorrect == Spec => []TypeOK
BY Invariance, PTL DEF IInv

\* main.rs:124, 155-165: a process that ends by itself has answered every request it
\* had begun, however many connections there are and whatever signals arrive.
THEOREM RequestsSurvive == Spec => []RequestsSurviveShutdown
BY Invariance, PTL DEF IInv

-----------------------------------------------------------------------------
(* ------------------------------- the service ------------------------------ *)
\* flake.nix:141-144: after a process that failed, systemd is about to start another.
FailureIsRetried == exit = "failure" => unit = "restarting"

\* systemd stops only a process that serves or drains: before it serves, one has no
\* handlers, so the first signal ends it.
ServiceInv ==
    /\ unit = "stopping" => life \in {"serve", "drain"}
    /\ life \notin {"serve", "drain"} => handled = {}
    /\ life # "off" => unit \in {"up", "stopping"}
    /\ FailureIsRetried

\* What leaves a process running, neither changes its unit nor its handlers.
LEMMA AliveServes ==
    ASSUME IInv, ServiceInv, life # "off", life' # "off", UNCHANGED <<unit, exit>>,
           life \in {"serve", "drain"} => life' \in {"serve", "drain"},
           handled' = handled \/ life' \in {"serve", "drain"}
    PROVE  ServiceInv'
BY DEF IInv, RunningInv, ServiceInv, FailureIsRetried, Nothing

\* A process that has died is restarted if it failed.
LEMMA DeathServes ==
    ASSUME NEW how, NEW why, Dies(how, why), unit' # "stopping",
           how = "failure" => unit' = "restarting"
    PROVE  ServiceInv'
BY DEF Dies, ServiceInv, FailureIsRetried

LEMMA ServiceStep == IInv /\ ServiceInv /\ [Next]_vars => ServiceInv'
<1> SUFFICES ASSUME IInv, ServiceInv, [Next]_vars PROVE ServiceInv'
  OBVIOUS
<1>1. CASE Start
  BY <1>1 DEF Start, ServiceInv, FailureIsRetried, Nothing
<1>2. CASE LoadKey \/ AttestOk \/ AttestFail \/ BindOk \/ BindFail
  <2>1. life \in {"key", "attest", "bind"} /\ unit = "up"
    BY <1>2 DEF ServiceInv, LoadKey, AttestOk, AttestFail, BindOk, BindFail
  <2>2. CASE Fails
    BY <2>1, <2>2, DeathServes DEF Fails, UnitAfter
  <2>3. ASSUME NEW next \in {"attest", "bind", "serve"}, Proceed(next) PROVE ServiceInv'
    BY <2>1, <2>3, AliveServes DEF Proceed
  <2>4. QED
    BY <1>2, <2>2, <2>3 DEF LoadKey, AttestOk, AttestFail, BindOk, BindFail
<1>3. CASE InstallHandlers \/ StartDrain
  BY <1>3, AliveServes DEF InstallHandlers, StartDrain
<1>4. CASE Peers \/ \E c \in Conns : CloseIdle(c)
  <2>1. PICK c \in Conns, from \in Connections, to \in Connections : Connection(c, from, to)
    BY <1>4 DEF Peers, Connect, Accept, Request, Respond, HangUp, CloseIdle, Connections
  <2>2. UNCHANGED <<unit, life, exit, handled>>
    BY <2>1 DEF Connection
  <2>3. QED
    BY <2>2 DEF ServiceInv, FailureIsRetried
<1>5. CASE Exit \/ StopTimeout
  BY <1>5, DeathServes DEF Exit, StopTimeout, UnitAfter
<1>6. ASSUME NEW s \in Signals, life # "off", unit = "up", Deliver(s),
             IF life' = "off" THEN unit' # "stopping"
                              ELSE unit' \in {"up", "stopping"}
      PROVE  ServiceInv'
  <2>1. CASE s \in handled
    <3>1. life \in {"serve", "drain"} /\ UNCHANGED <<life, exit, handled>>
      BY <1>6, <2>1 DEF ServiceInv, Deliver
    <3>2. exit = Nothing
      BY <1>6 DEF IInv, RunningInv
    <3>3. QED
      BY <1>6, <3>1, <3>2 DEF ServiceInv, FailureIsRetried, Nothing
  <2>2. CASE s \notin handled
    <3>1. Dies("signal", "unhandled signal")
      BY <1>6, <2>2 DEF Deliver
    <3>2. life' = "off"
      BY <3>1 DEF Dies
    <3>3. QED
      BY <1>6, <3>1, <3>2, DeathServes
  <2>3. QED
    BY <2>1, <2>2
<1>7. CASE Stop
  BY <1>6, <1>7 DEF Stop, Signals
<1>8. CASE \E s \in Signals : Kill(s)
  BY <1>6, <1>8 DEF Kill, UnitAfter
<1>9. CASE UNCHANGED vars
  BY <1>9 DEF vars, ServiceInv, FailureIsRetried
<1>10. QED
  BY <1>1, <1>2, <1>3, <1>4, <1>5, <1>7, <1>8, <1>9 DEF Next, Run, Stopped

\* flake.nix:141-144: no failed start is the last one, whatever stops and signals come
\* in between: the part of StartIsRetried that needs no fairness.
THEOREM NoFailureIsFinal == Spec => []FailureIsRetried
<1>1. Init => ServiceInv
  BY DEF Init, ServiceInv, FailureIsRetried, Nothing
<1>2. QED
  BY <1>1, ServiceStep, Invariance, PTL DEF Spec, ServiceInv

=============================================================================
