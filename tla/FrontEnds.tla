----------------------------- MODULE FrontEnds -----------------------------
(* The library's two callers: a sealed call is made by the proxy, for a request *)
(* of an OpenAI client (Completion), or by rig through its backend              *)
(* (RigTransport).  The one that does not call stays idle.                      *)
EXTENDS Completion

VARIABLES attested, method, op, told, events, closing

rigVars   == <<attested, method, op, told, events, closing>>
frontVars == <<vars, rigVars>>

Rig == INSTANCE RigTransport

ProxyCalls ==
    /\ Init
    /\ attested = TRUE /\ method = "POST" /\ op = "send"
    /\ told = Rig!Instance /\ events = <<>> /\ closing = Nothing

RigCalls ==
    /\ Rig!Init
    /\ request = CHOOSE r \in Posts : r.fits /\ ~Malformed(r) /\ r.model = "legal"
    /\ handler = "done" /\ attempt = 0 /\ response = None
    /\ delivered = <<>> /\ forwarded = 0 /\ over = Nothing /\ peer = "connected"

FrontInit == ProxyCalls \/ RigCalls

FrontNext ==
    \/ Next /\ UNCHANGED rigVars
    \/ Rig!Next /\ UNCHANGED serverVars

FrontSpec ==
    FrontInit /\ [][FrontNext]_frontVars /\ Fairness /\ Rig!Fairness

(* ------------------------------ properties -------------------------------- *)
\* rig.rs:31-40, 94-105, 192-199: nothing an intermediary said is the provider's
\* response, a stream that failed does not look complete, and what cannot be sealed
\* is refused with nothing sent.
RigBelievesEnclave == Rig!RigBelievesEnclave

\* server.rs:115-161, rig.rs:121-201: whichever of the two calls hears of the end of
\* its request, and of its stream; nothing is kept running for a peer who is gone.
CallersHear == EveryRequestEnds /\ Rig!RigHears

=============================================================================
