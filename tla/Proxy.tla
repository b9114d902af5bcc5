------------------------------- MODULE Proxy -------------------------------
(* The life of the daemon (ppq-tee-proxy/src/main.rs) as systemd runs it       *)
(* (flake.nix): start-up in the order of `run`, its failures and the restart,   *)
(* the connections axum serves, signals, and graceful shutdown.                *)
EXTENDS FiniteSets

CONSTANT Conns    \* the connections peers may open

VARIABLES
    file,       \* what --api-key-file names; "none" without the option
    variable,   \* what PPQ_API_KEY holds
    key,        \* where the key in use came from
    unit,       \* systemd's view: "up", "restarting", "stopping" or "down"
    life,       \* where the process is; "off" when there is none
    exit,       \* how the last process ended
    handled,    \* the signals whose handlers are installed
    pending,    \* those received by a handler
    conn,       \* per connection: "closed", "backlog", "idle" or "busy"
    cut         \* history: what has cut a request of this process short

vars == <<file, variable, key, unit, life, exit, handled, pending, conn, cut>>

Signals  == {"TERM", "INT"}
Nothing  == "none"
Busy     == {c \in Conns : conn[c] = "busy"}
Starting == life \in {"key", "attest", "bind"}

\* Bug: whatever is wrong with the file, the environment may do instead.
LoadApiKeyFallsBack ==
    IF file = "key" THEN "file" ELSE IF variable = "key" THEN "variable" ELSE Nothing

\* load_api_key: Nothing when it fails; an empty key is one of only white space.
LoadApiKey ==
    IF file # "none" THEN (IF file = "key" THEN "file" ELSE Nothing)
    ELSE IF variable = "key" THEN "variable" ELSE Nothing

\* The process is gone, and its connections with it.
Dies(how, why) ==
    /\ life' = "off" /\ exit' = how
    /\ handled' = {} /\ pending' = {}
    /\ conn' = [c \in Conns |-> "closed"]
    /\ cut' = IF Busy # {} THEN cut \cup {why} ELSE cut
    /\ UNCHANGED <<file, variable>>

\* systemd: Restart=on-failure, unless it is stopping the unit itself.
UnitAfter(how) ==
    unit' = IF unit = "stopping" \/ how # "failure" THEN "down" ELSE "restarting"

\* Bug: main prints the error and returns success.
FailsQuietly == Dies("success", Nothing) /\ UnitAfter("success")
\* run returned an error: ExitCode::FAILURE.
Fails == Dies("failure", Nothing) /\ UnitAfter("failure")

(* ------------------------------ start-up ---------------------------------- *)
Start ==
    /\ life = "off" /\ unit \in {"up", "restarting"}
    /\ unit' = "up" /\ life' = "key" /\ exit' = Nothing /\ key' = Nothing /\ cut' = {}
    /\ UNCHANGED <<file, variable, handled, pending, conn>>

Proceed(next) ==
    /\ life' = next
    /\ UNCHANGED <<file, variable, unit, exit, handled, pending, conn, cut>>

LoadKey ==
    /\ life = "key" /\ key' = LoadApiKey
    /\ IF key' = Nothing THEN Fails ELSE Proceed("attest")

\* Attested::new attests before anything is bound.
AttestOk   == life = "attest" /\ Proceed("bind") /\ UNCHANGED key
AttestFail == life = "attest" /\ Fails /\ UNCHANGED key
BindOk     == life = "bind" /\ Proceed("serve") /\ UNCHANGED key
BindFail   == life = "bind" /\ Fails /\ UNCHANGED key

(* ------------------------------ serving ----------------------------------- *)
Connection(c, from, to) ==
    /\ conn[c] = from
    /\ conn' = [conn EXCEPT ![c] = to]
    /\ UNCHANGED <<file, variable, key, unit, life, exit, handled, pending, cut>>

\* Bug: the listener is bound before the enclave is attested.
ConnectEarly(c) == life \in {"attest", "bind", "serve"} /\ Connection(c, "closed", "backlog")
\* The kernel completes connections of a bound listener; axum's loop accepts them.
Connect(c) == life = "serve" /\ Connection(c, "closed", "backlog")
Accept(c)  == life = "serve" /\ Connection(c, "backlog", "idle")

\* A request may reach an idle connection just before its task hears of the shutdown.
Request(c) == life \in {"serve", "drain"} /\ Connection(c, "idle", "busy")

Respond(c) ==
    \/ life = "serve" /\ Connection(c, "busy", "idle")
    \/ life = "drain" /\ Connection(c, "busy", "closed")

HangUp(c) == \E from \in {"backlog", "idle", "busy"} : Connection(c, from, "closed")

(* ------------------------------ shutdown ---------------------------------- *)
\* shutdown_signal runs as a task of its own, once axum serves; SIGTERM first.
InstallHandlers ==
    /\ life = "serve" /\ handled # Signals
    /\ handled' = IF handled = {} THEN {"TERM"} ELSE Signals
    /\ UNCHANGED <<file, variable, key, unit, life, exit, pending, conn, cut>>

\* A signal reaches the process.  Without a handler it kills; an installed handler
\* stays, so later signals are received and change nothing.
Deliver(s) ==
    IF s \in handled
    THEN /\ pending' = pending \cup {s}
         /\ UNCHANGED <<file, variable, key, life, exit, handled, conn, cut>>
    ELSE Dies("signal", "unhandled signal") /\ UNCHANGED key

\* systemctl stop, and a signal from anybody else.
Stop ==
    /\ unit = "up" /\ life # "off" /\ Deliver("TERM")
    /\ unit' = IF life' = "off" THEN "down" ELSE "stopping"

Kill(s) ==
    /\ unit = "up" /\ life # "off" /\ Deliver(s)
    /\ IF life' = "off" THEN UnitAfter("signal") ELSE UNCHANGED unit

\* Bug: join! for select!.
WakesOnBoth == pending = Signals
\* shutdown_signal returns on the first of the two; if that is a SIGTERM received
\* before it has listened for SIGINT, it may never do so.
Wakes == pending # {}

\* axum stops accepting and closes the listener; what was not accepted is reset.
StartDrain ==
    /\ life = "serve" /\ Wakes
    /\ life' = "drain"
    /\ conn' = [c \in Conns |-> IF conn[c] = "backlog" THEN "closed" ELSE conn[c]]
    /\ UNCHANGED <<file, variable, key, unit, exit, handled, pending, cut>>

CloseIdle(c) == life = "drain" /\ Connection(c, "idle", "closed")

\* Bug: the process does not wait for its connections.
ExitAtOnce ==
    /\ life = "drain"
    /\ Dies("success", "exit") /\ UnitAfter("success") /\ UNCHANGED key

\* Every connection is closed: serve returns, and main with it.  There is no deadline.
Exit ==
    /\ life = "drain" /\ \A c \in Conns : conn[c] = "closed"
    /\ Dies("success", "exit") /\ UnitAfter("success") /\ UNCHANGED key

\* systemd's stop timeout is ample for everything but a request.
StopTimeout ==
    /\ unit = "stopping" /\ life = "drain" /\ Busy # {}
    /\ Dies("killed", "stop timeout") /\ unit' = "down" /\ UNCHANGED key

Stopped == unit = "down" /\ UNCHANGED vars

Init ==
    /\ file \in {"none", "unreadable", "empty", "key"}
    /\ variable \in {"none", "empty", "key"}
    /\ key = Nothing /\ unit = "up" /\ life = "off" /\ exit = Nothing
    /\ handled = {} /\ pending = {} /\ conn = [c \in Conns |-> "closed"] /\ cut = {}

Run ==
    \/ LoadKey \/ AttestOk \/ AttestFail \/ BindOk \/ BindFail
    \/ InstallHandlers \/ StartDrain \/ Exit \/ \E c \in Conns : CloseIdle(c)

Peers == \E c \in Conns : Connect(c) \/ Accept(c) \/ Request(c) \/ Respond(c) \/ HangUp(c)

Next ==
    \/ Start \/ Run \/ Peers
    \/ Stop \/ (\E s \in Signals : Kill(s)) \/ StopTimeout \/ Stopped

\* The runtime runs what can run; systemd restarts; an attestation or a bind tried
\* for ever succeeds.
Spec ==
    /\ Init /\ [][Next]_vars
    /\ WF_vars(Start) /\ WF_vars(Run) /\ \A c \in Conns : WF_vars(Accept(c))
    /\ SF_vars(AttestOk) /\ SF_vars(BindOk)

\* Besides, every request is answered: Completion's EveryRequestEnds.
RequestsEnd == \A c \in Conns : WF_vars(Respond(c))
LiveSpec    == Spec /\ RequestsEnd

(* ------------------------------ properties -------------------------------- *)
\* Types; a file that was named is the only source of the key, even if it is empty
\* (main.rs:129-130); and nobody connects to a process that has not attested
\* (main.rs:114-116).
TypeOK ==
    /\ file \in {"none", "unreadable", "empty", "key"} /\ variable \in {"none", "empty", "key"}
    /\ key \in {Nothing, IF file = "none" THEN "variable" ELSE "file"}
    /\ unit \in {"up", "restarting", "stopping", "down"}
    /\ life \in {"off", "key", "attest", "bind", "serve", "drain"}
    /\ exit \in {Nothing, "success", "failure", "signal", "killed"}
    /\ handled \subseteq Signals /\ pending \subseteq handled
    /\ conn \in [Conns -> {"closed", "backlog", "idle", "busy"}]
    /\ life \notin {"serve", "drain"} => \A c \in Conns : conn[c] = "closed"

\* main.rs:124, 155-165: a process that ends by itself has answered every request
\* it had begun.  One is cut short only by systemd's stop timeout, or by a signal
\* for which shutdown_signal has not installed its handler.
RequestsSurviveShutdown ==
    /\ exit = "success" => cut = {}
    /\ cut \subseteq {"unhandled signal", "stop timeout"}
    /\ "stop timeout" \in cut => exit = "killed"

\* flake.nix:141-144: with a key, a start that fails is tried again until the
\* proxy serves, or somebody has ended it.
StartIsRetried ==
    LoadApiKey # Nothing /\ unit = "up" ~> life \in {"serve", "drain"} \/ exit = "signal"

\* main.rs:155-165: once the handlers are in place, either signal ends the process,
\* if its requests end.
StopEnds == handled = Signals /\ pending # {} ~> life = "off"

=============================================================================
