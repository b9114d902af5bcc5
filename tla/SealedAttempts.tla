--------------------------- MODULE SealedAttempts ---------------------------
(* What the re-attestation cache promises a request, with no lock, clock or  *)
(* attestation in sight: a request is sealed once, or twice if the first     *)
(* attempt failed unauthenticated, always under the newest client there is,  *)
(* and the second time under a newer one than the first.                     *)
EXTENDS Naturals, Sequences

CONSTANT Requests

VARIABLES
    latest,     \* the generation of the newest client
    uses,       \* for each request, the generations it was sealed under
    refused,    \* has the request's first attempt failed unauthenticated?
    answered    \* has the request been answered?

vars == <<latest, uses, refused, answered>>

Init ==
    /\ latest = 1
    /\ uses = [r \in Requests |-> <<>>]
    /\ refused = [r \in Requests |-> FALSE]
    /\ answered = [r \in Requests |-> FALSE]

\* Request r is sealed under the newest client, which may be built for it.
Attempt(r) ==
    /\ ~answered[r]
    /\ latest' \in {latest, latest + 1}
    /\ \/ uses[r] = <<>>
       \/ Len(uses[r]) = 1 /\ refused[r] /\ uses[r][1] < latest'
    /\ uses' = [uses EXCEPT ![r] = Append(@, latest')]
    /\ UNCHANGED <<refused, answered>>

Refuse(r) ==
    /\ ~answered[r] /\ Len(uses[r]) = 1
    /\ refused' = [refused EXCEPT ![r] = TRUE]
    /\ UNCHANGED <<latest, uses, answered>>

Answer(r) ==
    /\ ~answered[r]
    /\ answered' = [answered EXCEPT ![r] = TRUE]
    /\ UNCHANGED <<latest, uses, refused>>

Next == \E r \in Requests : Attempt(r) \/ Refuse(r) \/ Answer(r)

Spec == Init /\ [][Next]_vars

=============================================================================
