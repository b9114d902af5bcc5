------------------------------ MODULE Attested ------------------------------
(* The proxy's re-attestation cache (crates/ppq-tee-proxy/src/attested.rs).  *)
(*                                                                           *)
(* A daemon runs for weeks while the enclave's key changes at every          *)
(* redeployment.  Attested<C> therefore keeps one verified client in an      *)
(* RwLock<Option<Cached>>, replaces it when it ages out or when a request    *)
(* fails in a way the enclave did not authenticate, and retries that request *)
(* once.  A step of the model is what one task does between two awaits; the  *)
(* tasks are the HTTP requests in flight, and a task may be dropped at any   *)
(* await because its peer hung up.                                           *)
EXTENDS Naturals, Sequences

CONSTANTS
    Requests,             \* the requests the proxy serves, one task each
    Catalogue,            \* those that are list_models: never sealed to a key
    Errors,               \* the kinds of ppq_tee::Error that can occur
    ReattestAfter,        \* ReattestPolicy::reattest_after
    MinReattestInterval,  \* ReattestPolicy::min_reattest_interval
    MaxTime,              \* bound: the clock stops here
    MaxKey                \* bound: the number of enclave deployments

\* ppq_tee::Error, without payloads.
ErrorKind == {"Http", "Json", "Attestation", "Ehbp", "UnauthenticatedUpstream",
              "Enclave", "InvalidModelId"}

ASSUME ConstantsAssumption ==
    /\ Catalogue \subseteq Requests
    /\ Errors \subseteq ErrorKind
    /\ ReattestAfter \in Nat /\ MinReattestInterval \in Nat
    /\ MaxTime \in Nat /\ MaxKey \in Nat \ {0}

VARIABLES
    now,       \* tokio's Instant::now()
    key,       \* the deployment, hence the HPKE key, the enclave runs now
    clients,   \* every client built so far; an Arc's identity is its index
    slot,      \* what `cached` holds: an index into clients, or None
    proved,    \* the key in the bundle the running attestation has verified
    ahead,     \* the RwLock's FIFO: for a waiting task, the tasks before it
    pc,        \* where each task is suspended
    held,      \* the client each task's `op` runs on
    stale,     \* the argument of `replace`: the client found wanting, or None
    sends,     \* how many times a task has run `op`
    failure,   \* the error of a task's first `op`, when it is retried
    result,    \* what the task returned
    retired    \* history: the client dropped by the latest refresh

cacheVars   == <<clients, slot, retired>>
requestVars == <<held, stale, sends, failure, result>>
vars == <<now, key, proved, ahead, pc, cacheVars, requestVars>>

None    == 0
Nothing == "none"
Waiting == {r \in Requests : pc[r] \in {"read", "write"}}
\* The tasks that hold the write guard, across the awaits of an attestation.
Writers == {r \in Requests : pc[r] \in {"attest", "check"}}

(* ----------------------------- the RwLock -------------------------------- *)
(* tokio's RwLock is a FIFO: a reader is admitted unless a writer holds the  *)
(* lock or waits before it, a writer once nobody holds it or waits before    *)
(* it.  A read guard is never held across an await, so it needs no state.    *)
CanRead(r)  == /\ pc[r] = "read" /\ Writers = {}
               /\ \A q \in ahead[r] : pc[q] # "write"
\* Bug: the write lock is not held across the attestation.
CanWriteShared(r) == pc[r] = "write" /\ ahead[r] = {}
CanWrite(r) == pc[r] = "write" /\ Writers = {} /\ ahead[r] = {}

Leave(r) ==
    ahead' = [q \in Requests |-> IF q = r THEN {} ELSE ahead[q] \ {r}]
Enqueue(r) ==
    ahead' = [q \in Requests |-> IF q = r THEN Waiting \ {r} ELSE ahead[q] \ {r}]

(* ------------------------------ with_reattest ----------------------------- *)
Age(c)      == now - clients[c].at
\* Bug: a client is used on its last tick.
AgedOutLate(c) == Age(c) > ReattestAfter
AgedOut(c)  == Age(c) >= ReattestAfter
\* Bug: min_reattest_interval is not consulted.
NeverTooYoung(c) == FALSE
TooYoung(c) == Age(c) < MinReattestInterval

\* Bug: an authenticated enclave error is taken for a stale key.
WarrantsAny(e) == e \notin {"Json", "InvalidModelId"}
WarrantsReattest(e) ==
    e \in {"Http", "Ehbp", "UnauthenticatedUpstream", "Attestation"}

\* What `op` may return.  The catalogue is plain HTTP.  A chat request may have any
\* outcome, whether or not the enclave still holds the key it was sealed to: the head of
\* a response is not sealed, and it alone opens a stream, or makes an error with no body
\* or a completion that does not parse (client.rs:340-378).
Outcomes(r) ==
    {"Ok"} \cup (IF r \in Catalogue THEN Errors \cap {"Http", "Json"} ELSE Errors)

\* `op(client)` starts: the request is sealed to the client's key and sent.
Begin(r, c) ==
    /\ pc' = [pc EXCEPT ![r] = "send"]
    /\ held' = [held EXCEPT ![r] = c]
    /\ sends' = [sends EXCEPT ![r] = @ + 1]

Finish(r, o) ==
    /\ pc' = [pc EXCEPT ![r] = "done"]
    /\ result' = [result EXCEPT ![r] = o]

\* A request reaches the handler, and `current` asks for the read lock.
Arrive(r) ==
    /\ pc[r] = "idle"
    /\ pc' = [pc EXCEPT ![r] = "read"]
    /\ Enqueue(r)
    /\ UNCHANGED <<now, key, proved, cacheVars, requestVars>>

\* `current` finds a client that has not aged out and `op` starts on it.
CurrentHit(r) ==
    /\ CanRead(r)
    /\ slot # None /\ ~AgedOut(slot)
    /\ UNCHANGED cacheVars
    /\ Begin(r, slot)
    /\ Leave(r)
    /\ UNCHANGED <<now, key, proved, stale, failure, result>>

\* Bug: `current` polls the slot until somebody else has refreshed it.
CurrentPolls(r) == CanRead(r) /\ (slot # None => AgedOut(slot)) /\ UNCHANGED vars

\* `current` finds no client, or an old one, and calls `replace(None)`: the
\* read guard is gone before the write lock is asked for.
CurrentMiss(r) ==
    /\ CanRead(r)
    /\ slot # None => AgedOut(slot)
    /\ pc' = [pc EXCEPT ![r] = "write"]
    /\ Enqueue(r)
    /\ UNCHANGED <<now, key, proved, cacheVars, requestVars>>

\* Bug: `replace` does not look whether the stale client is still cached.
NeverReplaced(r) == FALSE
AlreadyReplaced(r) == slot # None /\ stale[r] # None /\ slot # stale[r]

\* Bug: the retry runs on the client that has just failed.
ReplaceSharedOld(r) ==
    /\ CanWrite(r)
    /\ AlreadyReplaced(r)
    /\ UNCHANGED cacheVars
    /\ Begin(r, stale[r])
    /\ Leave(r)
    /\ UNCHANGED <<now, key, proved, stale, failure, result>>

\* `replace` finds that another task has already replaced the stale client.
ReplaceShared(r) ==
    /\ CanWrite(r)
    /\ AlreadyReplaced(r)
    /\ UNCHANGED cacheVars
    /\ Begin(r, slot)
    /\ Leave(r)
    /\ UNCHANGED <<now, key, proved, stale, failure, result>>

\* Bug: the old client stays cached while the attestation runs.
ReplaceKeepsOld(r) ==
    /\ CanWrite(r)
    /\ ~AlreadyReplaced(r)
    /\ slot' = slot
    /\ retired' = IF slot = None THEN retired ELSE slot
    /\ pc' = [pc EXCEPT ![r] = "attest"]
    /\ Leave(r)
    /\ UNCHANGED <<now, key, proved, clients, requestVars>>

\* `replace` drops the old client and attests, holding the write guard.
ReplaceAttest(r) ==
    /\ CanWrite(r)
    /\ ~AlreadyReplaced(r)
    /\ slot' = None
    /\ retired' = IF slot = None THEN retired ELSE slot
    /\ pc' = [pc EXCEPT ![r] = "attest"]
    /\ Leave(r)
    /\ UNCHANGED <<now, key, proved, clients, requestVars>>

(* PpqClientBuilder::build, which the attester closure runs: fetch and verify *)
(* the attestation bundle, then fetch the advertised key and compare.         *)
Attest(r) ==
    /\ pc[r] = "attest"
    /\ proved' = key
    /\ pc' = [pc EXCEPT ![r] = "check"]
    /\ UNCHANGED <<now, key, ahead, cacheVars, requestVars>>

\* The two keys agree: the fresh client is cached and the guard released.
AttestOk(r) ==
    /\ pc[r] = "check"
    /\ proved = key
    /\ clients' = Append(clients, [at |-> now, key |-> proved])
    /\ slot' = Len(clients')
    /\ Begin(r, slot')
    /\ UNCHANGED <<now, key, proved, ahead, retired, stale, failure, result>>

\* A request for the bundle or the key fails, the bundle does not verify, or
\* the enclave was redeployed between the two: `?` drops the guard, and the
\* slot keeps the None it was given.
AttestFail(r) ==
    /\ pc[r] \in {"attest", "check"}
    /\ \E e \in Errors \cap {"Http", "Json", "Attestation", "Ehbp"} : Finish(r, e)
    /\ UNCHANGED <<now, key, proved, ahead, cacheVars, held, stale, sends, failure>>

\* Bug: the retry may be retried.
RetriesAgain(r, e) == WarrantsReattest(e) /\ ~TooYoung(held[r])
Retries(r, e) == sends[r] = 1 /\ WarrantsReattest(e) /\ ~TooYoung(held[r])

\* `op` returns and its answer, or its error, is the task's own.
Answer(r) ==
    /\ pc[r] = "send"
    /\ \E o \in Outcomes(r) : (o = "Ok" \/ ~Retries(r, o)) /\ Finish(r, o)
    /\ UNCHANGED <<now, key, proved, ahead, cacheVars, held, stale, sends, failure>>

\* `op` fails for the first time, unauthenticated, on a client old enough:
\* `replace(Some(client))` asks for the write lock.
Reattest(r) ==
    /\ pc[r] = "send"
    /\ \E e \in Outcomes(r) \ {"Ok"} :
          Retries(r, e) /\ failure' = [failure EXCEPT ![r] = e]
    /\ stale' = [stale EXCEPT ![r] = held[r]]
    /\ pc' = [pc EXCEPT ![r] = "write"]
    /\ Enqueue(r)
    /\ UNCHANGED <<now, key, proved, cacheVars, held, sends, result>>

(* ------------------------------ environment ------------------------------- *)
\* The peer disconnects and the task is dropped at its await: it leaves the
\* lock's queue, or releases the guard with the slot still None.
Cancel(r) ==
    /\ pc[r] \notin {"idle", "done"}
    /\ Finish(r, "Cancelled")
    /\ Leave(r)
    /\ UNCHANGED <<now, key, proved, cacheVars, held, stale, sends, failure>>

Redeploy ==
    /\ key < MaxKey
    /\ key' = key + 1
    /\ UNCHANGED <<now, proved, ahead, pc, cacheVars, requestVars>>

Tick ==
    /\ now < MaxTime
    /\ now' = now + 1
    /\ UNCHANGED <<key, proved, ahead, pc, cacheVars, requestVars>>

\* Every request is done: the server is idle, not deadlocked.
Idle == (\A r \in Requests : pc[r] = "done") /\ UNCHANGED vars

(* Attested::new has attested eagerly: one client, cached at time 0.          *)
Init ==
    /\ now = 0 /\ key = 1 /\ proved = 1
    /\ clients = <<[at |-> 0, key |-> 1]>> /\ slot = 1 /\ retired = None
    /\ ahead = [r \in Requests |-> {}]
    /\ pc = [r \in Requests |-> "idle"]
    /\ held = [r \in Requests |-> None] /\ stale = [r \in Requests |-> None]
    /\ sends = [r \in Requests |-> 0]
    /\ failure = [r \in Requests |-> Nothing]
    /\ result = [r \in Requests |-> Nothing]

\* What task r does once it is scheduled.
Progress(r) ==
    \/ CurrentHit(r) \/ CurrentMiss(r)
    \/ ReplaceShared(r) \/ ReplaceAttest(r)
    \/ Attest(r) \/ AttestOk(r) \/ AttestFail(r)
    \/ Answer(r) \/ Reattest(r)

Next ==
    \/ \E r \in Requests : Arrive(r) \/ Progress(r) \/ Cancel(r)
    \/ Redeploy \/ Tick \/ Idle

\* The runtime polls every ready task, and reqwest's connect and read timeouts
\* end an upstream call that stalls; nothing makes a request arrive, a peer
\* hang up, a key change or the clock advance.
Fairness == \A r \in Requests : WF_vars(Progress(r))

Spec     == Init /\ [][Next]_vars
FairSpec == Spec /\ Fairness

(* ------------------------------ properties -------------------------------- *)
\* Types; and nothing refers to a client that was never built.
TypeOK ==
    /\ now \in 0..MaxTime /\ key \in 1..MaxKey /\ proved \in 1..MaxKey
    /\ clients \in Seq([at : 0..MaxTime, key : 1..MaxKey])
    /\ slot \in 0..Len(clients) /\ retired \in 0..Len(clients)
    /\ ahead \in [Requests -> SUBSET Requests]
    /\ pc \in [Requests -> {"idle", "read", "write", "attest", "check", "send", "done"}]
    /\ held \in [Requests -> 0..Len(clients)]
    /\ stale \in [Requests -> 0..Len(clients)]
    /\ sends \in [Requests -> 0..2]
    /\ failure \in [Requests -> ErrorKind \cup {Nothing}]
    /\ result \in [Requests -> ErrorKind \cup {Nothing, "Ok", "Cancelled"}]

\* attested.rs:93-96: the write lock is held across the attestation, so two
\* tasks never attest at once, whatever fails or is cancelled meanwhile.
OneAttestation == \A q, r \in Writers : q = r

\* attested.rs:45-46, 104-105: the cache holds the newest client or none, and
\* never one an earlier refresh dropped, even when that refresh failed or the
\* task running it was cancelled half-way.
RetiredNeverCached == slot # None => slot = Len(clients) /\ slot > retired

\* attested.rs:116-117, 139-141: a request is sent at most twice; the second
\* time only after a failure the enclave did not authenticate, and never on
\* the client that failed but on one attested after it.
RetryDiscipline ==
    \A r \in Requests :
        /\ sends[r] <= 2
        /\ sends[r] = 2 =>
              /\ failure[r] \in ErrorKind \ {"Enclave", "Json", "InvalidModelId"}
              /\ stale[r] \in 1..(held[r] - 1)
              /\ clients[stale[r]].at + MinReattestInterval <= now

StartsAttesting(r) == pc[r] = "write" /\ pc'[r] = "attest"

\* attested.rs:24-26, 89-103: an attestation that a failure triggers, and that drops a
\* working client, starts at least min_reattest_interval after the last successful one,
\* whichever client the failure was of: of a burst of failures one attests, and the
\* reports that come after it, of the client it replaced, drop nothing.
FailureAttestationsSpaced ==
    [][\A r \in Requests :
          StartsAttesting(r) /\ stale[r] # None /\ slot # None =>
              \A c \in DOMAIN clients : now >= clients[c].at + MinReattestInterval]_vars

\* Whatever fails, is redeployed or is cancelled around it, a request that is
\* not cancelled itself is answered: the lock is fair and nobody keeps it.
Served == \A r \in Requests : pc[r] # "idle" ~> pc[r] = "done"

\* attested.rs:21-22, "A client older than this is replaced before its next
\* use", for all that `replace` lets through (attested.rs:99): an old client is
\* used only to retry a request that was in flight when it was attested.
OldOnlyForRetry ==
    [][\A r \in Requests :
          sends'[r] # sends[r] /\ now - clients'[held'[r]].at >= ReattestAfter =>
              sends[r] = 1 /\ stale[r] \in 1..(held'[r] - 1)]_vars

\* The design document, lines 87-88: "Concurrent requests during a refresh all
\* wait on one attestation ..., never a thundering herd": what the refresh
\* cached is not thrown away by a task that has nothing against it.
NoThunderingHerd ==
    [][\A r \in Requests :
          StartsAttesting(r) /\ slot # None => slot = stale[r] \/ AgedOut(slot)]_vars

=============================================================================
