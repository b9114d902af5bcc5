------------------------- MODULE AttestedRefinement -------------------------
(* Attested implements SealedAttempts: a request's attempts are read off the  *)
(* client that failed (stale) and the client in use (held).                   *)
EXTENDS Attested

Uses(r) == CASE sends[r] = 0 -> <<>>
             [] sends[r] = 1 -> <<held[r]>>
             [] OTHER        -> <<stale[r], held[r]>>

Attempts == INSTANCE SealedAttempts WITH
    latest   <- Len(clients),
    uses     <- [r \in Requests |-> Uses(r)],
    refused  <- [r \in Requests |-> failure[r] # Nothing],
    answered <- [r \in Requests |-> pc[r] = "done"]

\* attested.rs:89-91, 116-117: whatever the lock, the clock, failed and
\* cancelled attestations do, each attempt is sealed under the newest client,
\* and a retry under a newer one than the attempt that failed.
AttemptsSpec == Attempts!Spec

=============================================================================
