--------------------------- MODULE AttestedProofs ---------------------------
(* Safety of the re-attestation cache for any number of requests, any policy, *)
(* any clock and any number of redeployments.                                 *)
EXTENDS Attested, FiniteSetTheorems, WellFoundedInduction, TLAPS

Unauthenticated == ErrorKind \ {"Enclave", "Json", "InvalidModelId"}

\* The cache: clients were built in the order of time; the slot holds the
\* newest or none, none while somebody attests, and never a retired one.
CacheInv ==
    /\ Len(clients) >= 1
    /\ slot # None => slot = Len(clients) /\ slot > retired
    /\ Writers # {} => slot = None
    /\ \A c \in 1..Len(clients) : clients[c].at <= now
    /\ \A c, d \in 1..Len(clients) : c <= d => clients[c].at <= clients[d].at

\* Task r has reported the client it used, which had been old enough.
Reported(r) ==
    /\ failure[r] \in Unauthenticated
    /\ stale[r] \in 1..Len(clients)
    /\ clients[stale[r]].at + MinReattestInterval <= now

\* A task: what it has sent so far, and on which client, by where it is.
TaskInv(r) ==
    /\ pc[r] \in {"idle", "read"} => sends[r] = 0
    /\ pc[r] \in {"write", "attest", "check"} => sends[r] \in {0, 1}
    /\ pc[r] = "send" => sends[r] \in {1, 2} /\ held[r] \in 1..Len(clients)
    /\ pc[r] = "send" /\ sends[r] = 1 => stale[r] = None
    /\ sends[r] = 0 => stale[r] = None
    /\ pc[r] \in {"write", "attest", "check"} /\ sends[r] = 1 => Reported(r)
    /\ sends[r] = 2 => Reported(r) /\ stale[r] < held[r]

IInv == TypeOK /\ CacheInv /\ OneAttestation /\ (\A r \in Requests : TaskInv(r))

-----------------------------------------------------------------------------
Client == [at : 0..MaxTime, key : 1..MaxKey]

\* Every client has a time, and the clock is a number.
LEMMA Times ==
    ASSUME TypeOK
    PROVE  /\ clients \in Seq(Client) /\ Len(clients) \in Nat /\ now \in Nat
           /\ DOMAIN clients = 1..Len(clients)
           /\ \A i \in 1..Len(clients) : clients[i].at \in Nat
<1>1. clients \in Seq(Client) /\ now \in Nat
  BY ConstantsAssumption DEF TypeOK, Client
<1>2. ASSUME NEW i \in 1..Len(clients) PROVE clients[i].at \in Nat
  <2>1. clients[i] \in Client
    BY <1>1
  <2>2. QED
    BY <2>1, ConstantsAssumption DEF Client
<1>3. QED
  BY <1>1, <1>2

\* A property of every kind of step is a property of [Next]_vars.
LEMMA NextCases ==
    ASSUME NEW P,
           \A r \in Requests : Arrive(r) => P,
           \A r \in Requests : CurrentHit(r) => P,
           \A r \in Requests : CurrentMiss(r) => P,
           \A r \in Requests : ReplaceShared(r) => P,
           \A r \in Requests : ReplaceAttest(r) => P,
           \A r \in Requests : Attest(r) => P,
           \A r \in Requests : AttestOk(r) => P,
           \A r \in Requests : AttestFail(r) => P,
           \A r \in Requests : Answer(r) => P,
           \A r \in Requests : Reattest(r) => P,
           \A r \in Requests : Cancel(r) => P,
           Redeploy => P, Tick => P, UNCHANGED vars => P
    PROVE  [Next]_vars => P
BY DEF Next, Progress, Idle

\* Init establishes the invariant.
LEMMA InitInv == Init => IInv
<1> SUFFICES ASSUME Init PROVE IInv
  OBVIOUS
<1> USE ConstantsAssumption DEF Init, None, Nothing, ErrorKind
<1>1. clients \in Seq(Client) /\ Len(clients) = 1 /\ clients[1] = [at |-> 0, key |-> 1]
  BY DEF Client
<1>2. TypeOK
  BY <1>1 DEF TypeOK, Client
<1>3. CacheInv
  BY <1>1 DEF CacheInv, Writers
<1>4. OneAttestation
  BY DEF OneAttestation, Writers
<1>5. ASSUME NEW r \in Requests PROVE TaskInv(r)
  <2>1. pc[r] = "idle" /\ sends[r] = 0 /\ stale[r] = 0
    OBVIOUS
  <2>2. QED
    BY <2>1 DEF TaskInv
<1>6. QED
  BY <1>2, <1>3, <1>4, <1>5 DEF IInv

-----------------------------------------------------------------------------
\* A step that leaves the cache, the clock and the reports alone, and takes no
\* lock, keeps the cache's invariant.
LEMMA CacheKept ==
    ASSUME TypeOK, CacheInv, OneAttestation,
           UNCHANGED <<now, cacheVars>>, Writers' \subseteq Writers
    PROVE  CacheInv' /\ OneAttestation'
BY DEF CacheInv, OneAttestation, cacheVars, None

\* A task that joins the readers' queue changes nothing the invariant names.
LEMMA ArriveInv ==
    ASSUME NEW r \in Requests, IInv, Arrive(r) PROVE IInv'
<1> USE ConstantsAssumption DEF IInv, Arrive, cacheVars, requestVars, None
<1>1. TypeOK'
  BY DEF TypeOK, Enqueue, Waiting
<1>2. CacheInv' /\ OneAttestation'
  <2>1. Writers' \subseteq Writers
    BY DEF Writers, TypeOK
  <2>2. QED
    BY <2>1, CacheKept
<1>3. ASSUME NEW q \in Requests PROVE TaskInv(q)'
  BY DEF TaskInv, Reported, TypeOK
<1>4. QED
  BY <1>1, <1>2, <1>3

\* A task that sends on the cached client uses one that was built.
LEMMA CurrentHitInv ==
    ASSUME NEW r \in Requests, IInv, CurrentHit(r) PROVE IInv'
<1> USE ConstantsAssumption DEF IInv, CurrentHit, Begin, CanRead, cacheVars, None
<1>0. sends[r] = 0 /\ stale[r] = 0 /\ slot \in 1..Len(clients)
  BY DEF TaskInv, TypeOK
<1>1. TypeOK'
  <2>1. ahead' \in [Requests -> SUBSET Requests]
    BY DEF TypeOK, Leave
  <2>2. /\ pc' \in [Requests -> {"idle", "read", "write", "attest", "check", "send", "done"}]
        /\ held' \in [Requests -> 0..Len(clients)]
    BY <1>0 DEF TypeOK
  <2>3. sends' \in [Requests -> 0..2]
    BY <1>0 DEF TypeOK
  <2>4. QED
    BY <2>1, <2>2, <2>3 DEF TypeOK
<1>2. CacheInv' /\ OneAttestation'
  <2>1. Writers' \subseteq Writers
    BY DEF Writers, TypeOK
  <2>2. QED
    BY <2>1, CacheKept
<1>3. ASSUME NEW q \in Requests PROVE TaskInv(q)'
  <2>1. CASE q = r
    BY <1>0, <2>1 DEF TaskInv, TypeOK
  <2>2. CASE q # r
    BY <2>2 DEF TaskInv, Reported, TypeOK
  <2>3. QED
    BY <2>1, <2>2
<1>4. QED
  BY <1>1, <1>2, <1>3

\* A task that moves from the read to the write queue has sent nothing yet.
LEMMA CurrentMissInv ==
    ASSUME NEW r \in Requests, IInv, CurrentMiss(r) PROVE IInv'
<1> USE ConstantsAssumption DEF IInv, CurrentMiss, CanRead, cacheVars, requestVars, None
<1>1. TypeOK'
  BY DEF TypeOK, Enqueue, Waiting
<1>2. CacheInv' /\ OneAttestation'
  <2>1. Writers' \subseteq Writers
    BY DEF Writers, TypeOK
  <2>2. QED
    BY <2>1, CacheKept
<1>3. ASSUME NEW q \in Requests PROVE TaskInv(q)'
  BY DEF TaskInv, Reported, TypeOK
<1>4. QED
  BY <1>1, <1>2, <1>3

\* A task that shares a replacement sends on a client newer than the one it reported.
LEMMA ReplaceSharedInv ==
    ASSUME NEW r \in Requests, IInv, ReplaceShared(r) PROVE IInv'
<1> USE ConstantsAssumption DEF IInv, ReplaceShared, AlreadyReplaced, Begin, CanWrite,
        cacheVars, None
<1>0. sends[r] = 1 /\ Reported(r) /\ slot = Len(clients) /\ stale[r] < slot
  BY DEF TaskInv, TypeOK, CacheInv, Reported
<1>1. TypeOK'
  <2>1. ahead' \in [Requests -> SUBSET Requests]
    BY DEF TypeOK, Leave
  <2>2. /\ pc' \in [Requests -> {"idle", "read", "write", "attest", "check", "send", "done"}]
        /\ held' \in [Requests -> 0..Len(clients)]
    BY <1>0 DEF TypeOK
  <2>3. sends' \in [Requests -> 0..2]
    BY <1>0 DEF TypeOK
  <2>4. QED
    BY <2>1, <2>2, <2>3 DEF TypeOK
<1>2. CacheInv' /\ OneAttestation'
  <2>1. Writers' \subseteq Writers
    BY DEF Writers, TypeOK
  <2>2. QED
    BY <2>1, CacheKept
<1>3. ASSUME NEW q \in Requests PROVE TaskInv(q)'
  <2>1. CASE q = r
    BY <1>0, <2>1 DEF TaskInv, Reported, TypeOK
  <2>2. CASE q # r
    BY <2>2 DEF TaskInv, Reported, TypeOK
  <2>3. QED
    BY <2>1, <2>2
<1>4. QED
  BY <1>1, <1>2, <1>3

\* The task that starts to attest is the only writer, and empties the slot.
LEMMA ReplaceAttestInv ==
    ASSUME NEW r \in Requests, IInv, ReplaceAttest(r) PROVE IInv'
<1> USE ConstantsAssumption DEF IInv, ReplaceAttest, CanWrite, requestVars, None
<1>1. TypeOK'
  <2>1. UNCHANGED <<now, key, proved, clients, held, stale, sends, failure, result>>
    OBVIOUS
  <2>2. slot' \in 0..Len(clients) /\ retired' \in 0..Len(clients)
    BY DEF TypeOK
  <2>3. ahead' \in [Requests -> SUBSET Requests]
    BY DEF TypeOK, Leave
  <2>4. pc' \in [Requests -> {"idle", "read", "write", "attest", "check", "send", "done"}]
    BY DEF TypeOK
  <2>5. QED
    BY <2>1, <2>2, <2>3, <2>4 DEF TypeOK
<1>2. CacheInv'
  BY DEF CacheInv, TypeOK
<1>3. OneAttestation'
  <2>1. Writers' \subseteq {r}
    BY DEF Writers, TypeOK
  <2>2. QED
    BY <2>1 DEF OneAttestation
<1>4. ASSUME NEW q \in Requests PROVE TaskInv(q)'
  BY DEF TaskInv, Reported, TypeOK
<1>5. QED
  BY <1>1, <1>2, <1>3, <1>4

\* The verified bundle is not yet a client.
LEMMA AttestInv ==
    ASSUME NEW r \in Requests, IInv, Attest(r) PROVE IInv'
<1> USE ConstantsAssumption DEF IInv, Attest, cacheVars, requestVars, None
<1>1. TypeOK'
  BY DEF TypeOK
<1>2. CacheInv' /\ OneAttestation'
  <2>1. Writers' \subseteq Writers
    BY DEF Writers, TypeOK
  <2>2. QED
    BY <2>1, CacheKept
<1>3. ASSUME NEW q \in Requests PROVE TaskInv(q)'
  BY DEF TaskInv, Reported, TypeOK
<1>4. QED
  BY <1>1, <1>2, <1>3

\* Appending to the clients leaves the earlier ones in place.
LEMMA AppendClient ==
    ASSUME NEW s \in Seq(Client), NEW c \in Client
    PROVE  /\ Append(s, c) \in Seq(Client)
           /\ Len(Append(s, c)) = Len(s) + 1
           /\ \A i \in 1..Len(s) : Append(s, c)[i] = s[i]
           /\ Append(s, c)[Len(s) + 1] = c
OBVIOUS

\* A new client is the newest, built now, and newer than any reported one.
LEMMA AttestOkInv ==
    ASSUME NEW r \in Requests, IInv, AttestOk(r) PROVE IInv'
<1> USE ConstantsAssumption DEF IInv, AttestOk, Begin, None
<1> DEFINE c == [at |-> now, key |-> proved]
<1>0. /\ clients \in Seq(Client) /\ Len(clients) \in Nat /\ clients' \in Seq(Client)
      /\ Len(clients') = Len(clients) + 1 /\ slot' = Len(clients) + 1
      /\ \A i \in 1..Len(clients) : clients'[i] = clients[i]
      /\ clients'[Len(clients) + 1].at = now
  <2>1. clients \in Seq(Client) /\ c \in Client
    BY DEF TypeOK, Client
  <2>2. QED
    BY <2>1, AppendClient
<1>1. sends[r] \in {0, 1} /\ (sends[r] = 0 => stale[r] = 0) /\ (sends[r] = 1 => Reported(r))
  BY DEF TaskInv
<1>2. TypeOK'
  BY <1>0, <1>1 DEF TypeOK, Client
<1>3. OneAttestation' /\ Writers' = {}
  <2>1. Writers = {r} /\ Writers' = Writers \ {r}
    BY DEF OneAttestation, Writers, TypeOK
  <2>2. QED
    BY <2>1 DEF OneAttestation
<1>4. CacheInv'
  <2>1. now \in Nat /\ \A i \in 1..Len(clients) : clients[i].at \in Nat
    BY Times
  <2>2. slot' > retired'
    BY <1>0 DEF TypeOK
  <2>3. \A i \in 1..Len(clients') : clients'[i].at <= now
    BY <1>0, <2>1 DEF CacheInv
  <2>4. ASSUME NEW i \in 1..Len(clients'), NEW j \in 1..Len(clients'), i <= j
        PROVE  clients'[i].at <= clients'[j].at
    <3>1. CASE j = Len(clients) + 1
      BY <1>0, <2>3, <3>1
    <3>2. CASE j # Len(clients) + 1
      BY <1>0, <2>4, <3>2 DEF CacheInv
    <3>3. QED
      BY <3>1, <3>2
  <2>5. QED
    BY <1>0, <1>3, <2>2, <2>3, <2>4 DEF CacheInv
<1>5. ASSUME NEW q \in Requests PROVE TaskInv(q)'
  <2>1. Reported(q) => Reported(q)'
    BY <1>0 DEF Reported
  <2>2. CASE q = r
    <3>1. pc'[r] = "send" /\ held'[r] = Len(clients) + 1 /\ stale'[r] = stale[r]
          /\ sends'[r] = sends[r] + 1
      BY <1>0 DEF TypeOK
    <3>2. sends[r] = 0 => TaskInv(r)'
      BY <1>0, <1>1, <3>1 DEF TaskInv
    <3>3. sends[r] = 1 => TaskInv(r)'
      BY <1>0, <1>1, <2>1, <2>2, <3>1 DEF TaskInv, Reported
    <3>4. QED
      BY <1>1, <2>2, <3>2, <3>3
  <2>3. CASE q # r
    BY <1>0, <2>1, <2>3 DEF TaskInv, TypeOK
  <2>4. QED
    BY <2>2, <2>3
<1>6. QED
  BY <1>2, <1>3, <1>4, <1>5

\* A task that ends, whether it answers, fails to attest or is cancelled.
LEMMA FinishInv ==
    ASSUME NEW r \in Requests, NEW o \in ErrorKind \cup {"Ok", "Cancelled"}, IInv,
           Finish(r, o), ahead' \in [Requests -> SUBSET Requests],
           UNCHANGED <<now, key, proved, cacheVars, held, stale, sends, failure>>
    PROVE  IInv'
<1> USE ConstantsAssumption DEF IInv, Finish, cacheVars, None
<1>1. TypeOK'
  BY DEF TypeOK
<1>2. CacheInv' /\ OneAttestation'
  <2>1. Writers' \subseteq Writers
    BY DEF Writers, TypeOK
  <2>2. QED
    BY <2>1, CacheKept
<1>3. ASSUME NEW q \in Requests PROVE TaskInv(q)'
  BY DEF TaskInv, Reported, TypeOK
<1>4. QED
  BY <1>1, <1>2, <1>3

\* A failed attestation ends its task and leaves the slot empty.
LEMMA AttestFailInv ==
    ASSUME NEW r \in Requests, IInv, AttestFail(r) PROVE IInv'
<1>1. PICK e \in Errors \cap {"Http", "Json", "Attestation", "Ehbp"} : Finish(r, e)
  BY DEF AttestFail
<1>2. e \in ErrorKind
  BY DEF ErrorKind
<1>3. QED
  BY <1>1, <1>2, FinishInv DEF AttestFail, IInv, TypeOK

\* An answer ends its task.
LEMMA AnswerInv ==
    ASSUME NEW r \in Requests, IInv, Answer(r) PROVE IInv'
<1>1. PICK o \in Outcomes(r) : Finish(r, o)
  BY DEF Answer
<1>2. o \in ErrorKind \cup {"Ok", "Cancelled"}
  BY ConstantsAssumption DEF Outcomes, ErrorKind
<1>3. QED
  BY <1>1, <1>2, FinishInv DEF Answer, IInv, TypeOK

\* A dropped task leaves the queue and takes no lock.
LEMMA CancelInv ==
    ASSUME NEW r \in Requests, IInv, Cancel(r) PROVE IInv'
<1>1. ahead' \in [Requests -> SUBSET Requests]
  BY DEF Cancel, Leave, IInv, TypeOK
<1>2. QED
  BY <1>1, FinishInv DEF Cancel

\* A task that reports its client has sent once, on a client old enough.
LEMMA ReattestInv ==
    ASSUME NEW r \in Requests, IInv, Reattest(r) PROVE IInv'
<1> USE ConstantsAssumption DEF IInv, Reattest, cacheVars, None
<1>0. PICK e \in Outcomes(r) \ {"Ok"} :
          Retries(r, e) /\ failure' = [failure EXCEPT ![r] = e]
  OBVIOUS
<1>1. e \in Unauthenticated /\ e \in ErrorKind
  BY <1>0 DEF Retries, WarrantsReattest, Unauthenticated, ErrorKind
<1>2. /\ sends[r] = 1 /\ held[r] \in 1..Len(clients)
      /\ clients[held[r]].at + MinReattestInterval <= now
  <2>1. sends[r] = 1 /\ ~TooYoung(held[r])
    BY <1>0 DEF Retries
  <2>2. held[r] \in 1..Len(clients)
    BY <2>1 DEF TaskInv
  <2>3. now \in Nat /\ clients[held[r]].at \in Nat
    BY <2>2, Times
  <2>4. QED
    BY <2>1, <2>2, <2>3 DEF TooYoung, Age
<1>3. TypeOK'
  BY <1>0, <1>1, <1>2 DEF TypeOK, Enqueue, Waiting
<1>4. CacheInv' /\ OneAttestation'
  <2>1. Writers' \subseteq Writers
    BY DEF Writers, TypeOK
  <2>2. QED
    BY <2>1, CacheKept
<1>5. ASSUME NEW q \in Requests PROVE TaskInv(q)'
  <2>1. CASE q = r
    BY <1>0, <1>1, <1>2, <2>1 DEF TaskInv, Reported, TypeOK
  <2>2. CASE q # r
    BY <1>0, <2>2 DEF TaskInv, Reported, TypeOK
  <2>3. QED
    BY <2>1, <2>2
<1>6. QED
  BY <1>3, <1>4, <1>5

\* A redeployment changes no client.
LEMMA RedeployInv == ASSUME IInv, Redeploy PROVE IInv'
<1> USE ConstantsAssumption DEF IInv, Redeploy, cacheVars, requestVars, None
<1>1. TypeOK'
  BY DEF TypeOK
<1>2. CacheInv' /\ OneAttestation'
  BY CacheKept DEF Writers
<1>3. ASSUME NEW q \in Requests PROVE TaskInv(q)'
  BY DEF TaskInv, Reported
<1>4. QED
  BY <1>1, <1>2, <1>3

\* Time only makes clients older.
LEMMA TickInv == ASSUME IInv, Tick PROVE IInv'
<1> USE ConstantsAssumption DEF IInv, Tick, cacheVars, requestVars, None
<1>0. /\ now \in Nat /\ now' \in Nat /\ now <= now' /\ Len(clients) \in Nat
      /\ \A i \in 1..Len(clients) : clients[i].at \in Nat
  BY Times
<1>1. TypeOK'
  BY DEF TypeOK
<1>2. CacheInv'
  BY <1>0 DEF CacheInv, Writers
<1>3. OneAttestation'
  BY DEF OneAttestation, Writers
<1>4. ASSUME NEW q \in Requests PROVE TaskInv(q)'
  <2>1. Reported(q) => Reported(q)'
    BY <1>0 DEF Reported
  <2>2. QED
    BY <2>1 DEF TaskInv
<1>5. QED
  BY <1>1, <1>2, <1>3, <1>4

\* A step that changes nothing keeps the invariant.
LEMMA StutterInv == ASSUME IInv, UNCHANGED vars PROVE IInv'
<1> USE DEF IInv, vars, cacheVars, requestVars
<1>1. TypeOK' /\ CacheInv' /\ OneAttestation'
  BY DEF TypeOK, CacheInv, OneAttestation, Writers
<1>2. \A q \in Requests : TaskInv(q)'
  BY DEF TaskInv, Reported
<1>3. QED
  BY <1>1, <1>2

-----------------------------------------------------------------------------
\* The invariant holds in every reachable state.
THEOREM Invariance == Spec => []IInv
<1>1. IInv /\ [Next]_vars => IInv'
  BY NextCases, ArriveInv, CurrentHitInv, CurrentMissInv, ReplaceSharedInv,
     ReplaceAttestInv, AttestInv, AttestOkInv, AttestFailInv, AnswerInv, ReattestInv,
     CancelInv, RedeployInv, TickInv, StutterInv
<1>2. QED
  BY InitInv, <1>1, PTL DEF Spec

\* Types: in particular no request is ever sent a third time, and the cache
\* never refers to a client that was not built.
THEOREM TypeCorrect == Spec => []TypeOK
<1>1. IInv => TypeOK
  BY DEF IInv
<1>2. QED
  BY Invariance, <1>1, PTL

\* attested.rs:93-96: two tasks never attest at once.
THEOREM AttestationExclusive == Spec => []OneAttestation
<1>1. IInv => OneAttestation
  BY DEF IInv
<1>2. QED
  BY Invariance, <1>1, PTL

\* attested.rs:45-46, 104-105: a client that a refresh dropped is never in the
\* cache again, however that refresh ended.
THEOREM RetiredStaysOut == Spec => []RetiredNeverCached
<1>1. IInv => RetiredNeverCached
  BY DEF IInv, CacheInv, RetiredNeverCached
<1>2. QED
  BY Invariance, <1>1, PTL

\* attested.rs:116-117, 139-141: at most one retry, only of an unauthenticated
\* failure, and only on a newer client.
THEOREM RetryIsDisciplined == Spec => []RetryDiscipline
<1>1. IInv => RetryDiscipline
  <2> SUFFICES ASSUME IInv, NEW r \in Requests
               PROVE  /\ sends[r] <= 2
                      /\ sends[r] = 2 =>
                            /\ failure[r] \in Unauthenticated
                            /\ stale[r] \in 1..(held[r] - 1)
                            /\ clients[stale[r]].at + MinReattestInterval <= now
    BY DEF RetryDiscipline, Unauthenticated
  <2>1. TypeOK /\ TaskInv(r)
    BY DEF IInv
  <2>2. sends[r] \in 0..2 /\ held[r] \in Nat /\ Len(clients) \in Nat
    BY <2>1, Times DEF TypeOK
  <2>3. sends[r] = 2 => Reported(r) /\ stale[r] < held[r]
    BY <2>1 DEF TaskInv
  <2>4. QED
    BY <2>2, <2>3 DEF Reported
<1>2. QED
  BY Invariance, <1>1, PTL

-----------------------------------------------------------------------------
\* The only step that starts an attestation is ReplaceAttest of its task.
LEMMA StartIsReplace ==
    ASSUME IInv, [Next]_vars, NEW r \in Requests, StartsAttesting(r)
    PROVE  ReplaceAttest(r)
<1> USE DEF StartsAttesting, IInv, TypeOK
<1>1. ASSUME NEW q \in Requests, Arrive(q) \/ Progress(q) \/ Cancel(q)
      PROVE  ReplaceAttest(r)
  BY <1>1 DEF Arrive, Progress, Cancel, CurrentHit, CurrentMiss, ReplaceShared,
     ReplaceAttest, Attest, AttestOk, AttestFail, Answer, Reattest, Begin, Finish
<1>2. ~Redeploy /\ ~Tick /\ ~UNCHANGED vars
  BY DEF Redeploy, Tick, vars
<1>3. QED
  BY <1>1, <1>2 DEF Next, Idle

\* attested.rs:24-26, 89-103: an attestation that a failure triggers and that drops a
\* client starts no sooner than min_reattest_interval after any earlier one succeeded,
\* so a burst of failures shares one.
THEOREM FailuresAreRateLimited == Spec => FailureAttestationsSpaced
<1>1. ASSUME IInv, [Next]_vars, NEW r \in Requests, StartsAttesting(r),
             stale[r] # None, slot # None, NEW c \in DOMAIN clients
      PROVE  now >= clients[c].at + MinReattestInterval
  <2>1. slot = Len(clients) /\ stale[r] = slot
    BY <1>1, StartIsReplace DEF ReplaceAttest, AlreadyReplaced, IInv, CacheInv
  <2>2. Reported(r)
    BY <1>1 DEF IInv, TaskInv, TypeOK, StartsAttesting
  <2>3. c \in 1..Len(clients) /\ Len(clients) \in 1..Len(clients)
    BY <1>1, Times DEF IInv, CacheInv
  <2>4. clients[c].at <= clients[Len(clients)].at
    BY <1>1, <2>3 DEF IInv, CacheInv
  <2>5. clients[c].at \in Nat /\ clients[Len(clients)].at \in Nat /\ now \in Nat
    BY <1>1, <2>3, Times DEF IInv
  <2>6. QED
    BY <2>1, <2>2, <2>4, <2>5, ConstantsAssumption DEF Reported
<1>2. IInv /\ [Next]_vars =>
        \A r \in Requests :
           StartsAttesting(r) /\ stale[r] # None /\ slot # None =>
              \A c \in DOMAIN clients : now >= clients[c].at + MinReattestInterval
  BY <1>1
<1>3. QED
  BY Invariance, <1>2, PTL DEF FailureAttestationsSpaced, Spec

-----------------------------------------------------------------------------
(* The lock's queue: what weak fairness of the tasks needs to bring everyone *)
(* to the lock in turn.                                                      *)

\* Those that wait are in one line: of any two, one is before the other, and
\* who is before a task is before those behind it.
QueueInv ==
    /\ IsFiniteSet(Waiting)
    /\ \A r \in Requests : ahead[r] \subseteq Waiting \ {r}
    /\ \A q, r \in Waiting : q # r => (q \in ahead[r] <=> r \notin ahead[q])
    /\ \A q, r \in Waiting : q \in ahead[r] => ahead[q] \subseteq ahead[r]

\* Unless somebody attests, a task that waits can take the lock, or one before
\* it can: nobody waits for ever on others that wait.
QueueMoves ==
    \A r \in Waiting :
        Writers = {} => \E q \in ahead[r] \cup {r} : CanRead(q) \/ CanWrite(q)

\* A task that goes on waiting is overtaken by nobody.
KeepsItsPlace ==
    \A r \in Waiting : pc'[r] = pc[r] => ahead'[r] \subseteq ahead[r]

LEMMA QueueInit == Init => QueueInv
<1> SUFFICES ASSUME Init PROVE QueueInv
  OBVIOUS
<1>1. Waiting = {} /\ \A r \in Requests : ahead[r] = {}
  BY DEF Init, Waiting
<1>2. QED
  BY <1>1, FS_EmptySet DEF QueueInv

LEMMA QueueSame ==
    ASSUME QueueInv, ahead' = ahead, Waiting' = Waiting PROVE QueueInv'
BY DEF QueueInv

LEMMA QueueLeave ==
    ASSUME TypeOK, QueueInv, NEW r \in Requests, Leave(r), Waiting' = Waiting \ {r}
    PROVE  QueueInv'
<1>1. \A q \in Requests : ahead'[q] = IF q = r THEN {} ELSE ahead[q] \ {r}
  BY DEF Leave
<1>2. IsFiniteSet(Waiting')
  BY FS_Subset DEF QueueInv
<1>3. Waiting \subseteq Requests
  BY DEF Waiting
<1>4. ASSUME NEW q \in Requests PROVE ahead'[q] \subseteq Waiting' \ {q}
  <2>1. ahead[q] \subseteq Waiting \ {q}
    BY DEF QueueInv
  <2>2. QED
    BY <1>1, <2>1
<1>5. ASSUME NEW q \in Waiting'
      PROVE  q \in Waiting /\ q \in Requests /\ q # r /\ ahead'[q] = ahead[q] \ {r}
  BY <1>1, <1>3
<1>6. ASSUME NEW p \in Waiting', NEW q \in Waiting', p # q
      PROVE  p \in ahead'[q] <=> q \notin ahead'[p]
  <2>1. p \in ahead[q] <=> q \notin ahead[p]
    BY <1>5, <1>6 DEF QueueInv
  <2>2. QED
    BY <1>5, <2>1
<1>7. ASSUME NEW p \in Waiting', NEW q \in Waiting', p \in ahead'[q]
      PROVE  ahead'[p] \subseteq ahead'[q]
  <2>1. ahead[p] \subseteq ahead[q]
    BY <1>5, <1>7 DEF QueueInv
  <2>2. QED
    BY <1>5, <2>1
<1>8. QED
  BY <1>2, <1>4, <1>6, <1>7 DEF QueueInv

LEMMA QueueEnqueue ==
    ASSUME TypeOK, QueueInv, NEW r \in Requests, Enqueue(r), Waiting' = Waiting \cup {r}
    PROVE  QueueInv'
<1>1. \A q \in Requests : ahead'[q] = IF q = r THEN Waiting \ {r} ELSE ahead[q] \ {r}
  BY DEF Enqueue
<1>2. IsFiniteSet(Waiting')
  BY FS_AddElement DEF QueueInv
<1>3. Waiting \subseteq Requests
  BY DEF Waiting
<1>4. ASSUME NEW q \in Waiting', q # r
      PROVE  q \in Waiting /\ q \in Requests /\ ahead'[q] = ahead[q] \ {r}
  BY <1>1, <1>3, <1>4
<1>5. ahead'[r] = Waiting \ {r}
  BY <1>1
<1>6. ASSUME NEW q \in Requests PROVE ahead'[q] \subseteq Waiting' \ {q}
  <2>1. ahead[q] \subseteq Waiting \ {q}
    BY DEF QueueInv
  <2>2. QED
    BY <1>1, <2>1
<1>7. ASSUME NEW p \in Waiting', NEW q \in Waiting', p # q
      PROVE  p \in ahead'[q] <=> q \notin ahead'[p]
  <2>1. CASE p # r /\ q # r
    <3>1. p \in ahead[q] <=> q \notin ahead[p]
      BY <1>4, <1>7, <2>1 DEF QueueInv
    <3>2. QED
      BY <1>4, <2>1, <3>1
  <2>2. CASE p = r
    BY <1>4, <1>5, <1>7, <2>2
  <2>3. CASE q = r
    BY <1>4, <1>5, <1>7, <2>3
  <2>4. QED
    BY <2>1, <2>2, <2>3
<1>8. ASSUME NEW p \in Waiting', NEW q \in Waiting', p \in ahead'[q]
      PROVE  ahead'[p] \subseteq ahead'[q]
  <2>1. p # r
    BY <1>4, <1>5, <1>8
  <2>2. CASE q = r
    <3>1. ahead[p] \subseteq Waiting
      BY <1>4, <2>1 DEF QueueInv
    <3>2. QED
      BY <1>4, <1>5, <2>1, <2>2, <3>1
  <2>3. CASE q # r
    <3>1. ahead[p] \subseteq ahead[q]
      BY <1>4, <1>8, <2>1, <2>3 DEF QueueInv
    <3>2. QED
      BY <1>4, <2>1, <2>3, <3>1
  <2>4. QED
    BY <2>2, <2>3
<1>9. QED
  BY <1>2, <1>6, <1>7, <1>8 DEF QueueInv

\* What a step does to the queue: nothing, or a task joins its end or leaves it.
Joins(r)  == Enqueue(r) /\ Waiting' = Waiting \cup {r} /\ pc'[r] # pc[r]
Leaves(r) == Leave(r) /\ Waiting' = Waiting \ {r}

LEMMA QueueAction ==
    ASSUME TypeOK, [Next]_vars
    PROVE  \/ ahead' = ahead /\ Waiting' = Waiting
           \/ \E r \in Requests : Joins(r) \/ Leaves(r)
<1> DEFINE P == \/ ahead' = ahead /\ Waiting' = Waiting
                \/ \E r \in Requests : Joins(r) \/ Leaves(r)
<1>1. \A r \in Requests : Arrive(r) => Joins(r)
  BY DEF Joins, Arrive, Waiting, TypeOK
<1>2. \A r \in Requests : CurrentHit(r) => Leaves(r)
  BY DEF Leaves, CurrentHit, CanRead, Begin, Waiting, TypeOK
<1>3. \A r \in Requests : CurrentMiss(r) => Joins(r)
  BY DEF Joins, CurrentMiss, CanRead, Waiting, TypeOK
<1>4. \A r \in Requests : ReplaceShared(r) => Leaves(r)
  BY DEF Leaves, ReplaceShared, CanWrite, Begin, Waiting, TypeOK
<1>5. \A r \in Requests : ReplaceAttest(r) => Leaves(r)
  BY DEF Leaves, ReplaceAttest, CanWrite, Waiting, TypeOK
<1>6. \A r \in Requests : Attest(r) => ahead' = ahead /\ Waiting' = Waiting
  BY DEF Attest, Waiting, TypeOK
<1>7. \A r \in Requests : AttestOk(r) => ahead' = ahead /\ Waiting' = Waiting
  BY DEF AttestOk, Begin, Waiting, TypeOK
<1>8. \A r \in Requests : AttestFail(r) => ahead' = ahead /\ Waiting' = Waiting
  BY DEF AttestFail, Finish, Waiting, TypeOK
<1>9. \A r \in Requests : Answer(r) => ahead' = ahead /\ Waiting' = Waiting
  BY DEF Answer, Finish, Waiting, TypeOK
<1>10. \A r \in Requests : Reattest(r) => Joins(r)
  BY DEF Joins, Reattest, Waiting, TypeOK
<1>11. \A r \in Requests : Cancel(r) => Leaves(r)
  BY DEF Leaves, Cancel, Finish, Waiting, TypeOK
<1>12. Redeploy \/ Tick \/ UNCHANGED vars => ahead' = ahead /\ Waiting' = Waiting
  BY DEF Redeploy, Tick, vars, Waiting
<1>13. P
  BY <1>1, <1>2, <1>3, <1>4, <1>5, <1>6, <1>7, <1>8, <1>9, <1>10, <1>11, <1>12, NextCases
<1>14. QED
  BY <1>13

LEMMA QueueStep ==
    ASSUME TypeOK, QueueInv, [Next]_vars PROVE QueueInv'
BY QueueAction, QueueSame, QueueLeave, QueueEnqueue DEF Joins, Leaves

\* The line in front of a task has a first.
LEMMA QueueHasFirst ==
    ASSUME TypeOK, QueueInv, NEW r \in Waiting
    PROVE  \E q \in ahead[r] \cup {r} : q \in Waiting /\ ahead[q] = {}
<1> DEFINE Line == ahead[r] \cup {r}
           Fronts == {ahead[q] : q \in Line}
<1>1. Waiting \subseteq Requests /\ Line \subseteq Waiting /\ r \in Line
  BY DEF QueueInv, Waiting
<1>2. Fronts \subseteq FiniteSubsetsOf(Requests) /\ Fronts # {}
  <2>1. ASSUME NEW q \in Line PROVE ahead[q] \in FiniteSubsetsOf(Requests)
    <3>1. IsFiniteSet(Waiting) /\ ahead[q] \subseteq Waiting
      BY <1>1 DEF QueueInv
    <3>2. IsFiniteSet(ahead[q])
      BY <3>1, FS_Subset
    <3>3. QED
      BY <1>1, <3>1, <3>2 DEF FiniteSubsetsOf
  <2>2. QED
    BY <1>1, <2>1
<1> HIDE DEF Fronts
<1>3. PICK f \in Fronts : \A g \in Fronts : ~ (<<g, f>> \in StrictSubsetOrdering(Requests))
  <2>1. IsWellFoundedOn(StrictSubsetOrdering(Requests), FiniteSubsetsOf(Requests))
    BY FS_StrictSubsetOrderingWellFounded
  <2>2. QED
    BY <1>2, <2>1, WFMin
<1>4. PICK q \in Line : f = ahead[q]
  BY <1>3 DEF Fronts
<1>5. ASSUME NEW p \in ahead[q] PROVE FALSE
  <2>1. p \in Waiting /\ p \in Line /\ q \in Waiting
    BY <1>1, <1>4 DEF QueueInv
  <2>2. ahead[p] \subseteq ahead[q] /\ p \notin ahead[p]
    BY <1>1, <2>1 DEF QueueInv
  <2>3. ahead[p] \in SUBSET Requests /\ ahead[q] \in SUBSET Requests
    BY <1>1, <2>1 DEF QueueInv
  <2>4. <<ahead[p], f>> \in StrictSubsetOrdering(Requests)
    BY <1>4, <1>5, <2>2, <2>3 DEF StrictSubsetOrdering
  <2>5. ahead[p] \in Fronts
    BY <2>1 DEF Fronts
  <2>6. QED
    BY <1>3, <2>4, <2>5
<1>6. QED
  BY <1>1, <1>4, <1>5

\* `current` and `replace` queue for a lock that nobody keeps from them for
\* ever: when nobody attests, whoever waits is not held up by the queue itself.
THEOREM LockIsNeverStuck == Spec => []QueueMoves
<1>1. Init => QueueInv
  BY QueueInit
<1>2. TypeOK /\ QueueInv /\ [Next]_vars => QueueInv'
  BY QueueStep
<1>3. TypeOK /\ QueueInv => QueueMoves
  <2> SUFFICES ASSUME TypeOK, QueueInv, NEW r \in Waiting, Writers = {}
               PROVE  \E q \in ahead[r] \cup {r} : CanRead(q) \/ CanWrite(q)
    BY DEF QueueMoves
  <2>1. PICK q \in ahead[r] \cup {r} : q \in Waiting /\ ahead[q] = {}
    BY QueueHasFirst
  <2>2. QED
    BY <2>1 DEF CanRead, CanWrite, Waiting
<1>4. QED
  BY <1>1, <1>2, <1>3, TypeCorrect, PTL DEF Spec

\* The lock is a queue: what is in front of a waiting task only becomes less.
THEOREM NobodyOvertakes == Spec => [][KeepsItsPlace]_vars
<1>1. TypeOK /\ [Next]_vars => KeepsItsPlace
  <2> SUFFICES ASSUME TypeOK, [Next]_vars, NEW r \in Waiting, pc'[r] = pc[r]
               PROVE  ahead'[r] \subseteq ahead[r]
    BY DEF KeepsItsPlace
  <2>1. r \in Requests
    BY DEF Waiting
  <2>2. QED
    BY <2>1, QueueAction DEF Joins, Leaves, Enqueue, Leave
<1>2. QED
  BY <1>1, TypeCorrect, PTL DEF Spec

=============================================================================
