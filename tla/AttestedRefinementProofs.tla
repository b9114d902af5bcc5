---------------------- MODULE AttestedRefinementProofs ----------------------
(* Attested implements SealedAttempts, for any number of requests, any policy, *)
(* any clock and any number of redeployments.                                 *)
EXTENDS AttestedProofs, AttestedRefinement

\* A task that has reported a client still holds it.
HeldInv ==
    \A r \in Requests :
        pc[r] \in {"write", "attest", "check"} /\ sends[r] = 1 => held[r] = stale[r]

RInv == IInv /\ HeldInv

-----------------------------------------------------------------------------
\* No step moves the reported client away from its task.
LEMMA HeldStep == ASSUME IInv, HeldInv, [Next]_vars PROVE HeldInv'
<1> SUFFICES ASSUME NEW q \in Requests,
                    pc'[q] \in {"write", "attest", "check"}, sends'[q] = 1
             PROVE  held'[q] = stale'[q]
  BY DEF HeldInv
<1> USE DEF IInv, TypeOK, HeldInv
<1>1. ASSUME NEW r \in Requests, Arrive(r) PROVE held'[q] = stale'[q]
  BY <1>1 DEF Arrive, requestVars, TaskInv
<1>2. ASSUME NEW r \in Requests, CurrentHit(r) PROVE held'[q] = stale'[q]
  BY <1>2 DEF CurrentHit, Begin
<1>3. ASSUME NEW r \in Requests, CurrentMiss(r) PROVE held'[q] = stale'[q]
  BY <1>3 DEF CurrentMiss, CanRead, requestVars, TaskInv
<1>4. ASSUME NEW r \in Requests, ReplaceShared(r) PROVE held'[q] = stale'[q]
  BY <1>4 DEF ReplaceShared, Begin
<1>5. ASSUME NEW r \in Requests, ReplaceAttest(r) PROVE held'[q] = stale'[q]
  BY <1>5 DEF ReplaceAttest, CanWrite, requestVars
<1>6. ASSUME NEW r \in Requests, Attest(r) PROVE held'[q] = stale'[q]
  BY <1>6 DEF Attest, requestVars
<1>7. ASSUME NEW r \in Requests, AttestOk(r) PROVE held'[q] = stale'[q]
  BY <1>7 DEF AttestOk, Begin
<1>8. ASSUME NEW r \in Requests, AttestFail(r) PROVE held'[q] = stale'[q]
  BY <1>8 DEF AttestFail, Finish
<1>9. ASSUME NEW r \in Requests, Answer(r) PROVE held'[q] = stale'[q]
  BY <1>9 DEF Answer, Finish
<1>10. ASSUME NEW r \in Requests, Reattest(r) PROVE held'[q] = stale'[q]
  BY <1>10 DEF Reattest
<1>11. ASSUME NEW r \in Requests, Cancel(r) PROVE held'[q] = stale'[q]
  BY <1>11 DEF Cancel, Finish
<1>12. Redeploy \/ Tick \/ UNCHANGED vars => held'[q] = stale'[q]
  BY DEF Redeploy, Tick, vars, requestVars
<1>13. QED
  BY NextCases, <1>1, <1>2, <1>3, <1>4, <1>5, <1>6, <1>7, <1>8, <1>9, <1>10, <1>11, <1>12

LEMMA RefinementInvariance == Spec => []RInv
<1>1. Init => HeldInv
  BY DEF Init, HeldInv
<1>2. IInv /\ HeldInv /\ [Next]_vars => HeldInv'
  BY HeldStep
<1>3. QED
  BY Invariance, <1>1, <1>2, PTL DEF Spec, RInv

-----------------------------------------------------------------------------
(* The abstract state, written out. *)
Latest   == Len(clients)
UsesFn   == [r \in Requests |-> Uses(r)]
Refused  == [r \in Requests |-> failure[r] # Nothing]
Answered == [r \in Requests |-> pc[r] = "done"]

\* A step that is invisible to a request: no client, attempt, report or answer.
LEMMA Stutters ==
    ASSUME UNCHANGED <<clients, held, stale, sends, failure>>,
           \A q \in Requests : pc'[q] = "done" <=> pc[q] = "done"
    PROVE  UNCHANGED Attempts!vars
<1>1. UNCHANGED Len(clients)
  OBVIOUS
<1>2. UNCHANGED UsesFn
  BY DEF UsesFn, Uses
<1>3. UNCHANGED Refused
  BY DEF Refused
<1>4. UNCHANGED Answered
  BY DEF Answered
<1>5. QED
  BY <1>1, <1>2, <1>3, <1>4 DEF Attempts!vars, UsesFn, Refused, Answered

\* A task that ends answers its request.
LEMMA FinishAnswers ==
    ASSUME NEW r \in Requests, NEW o, TypeOK, pc[r] # "done", Finish(r, o),
           UNCHANGED <<clients, held, stale, sends, failure>>
    PROVE  Attempts!Answer(r)
<1>1. Answered' = [Answered EXCEPT ![r] = TRUE]
  BY DEF Answered, Finish, TypeOK
<1>2. UNCHANGED <<Latest, UsesFn, Refused>>
  BY DEF Latest, UsesFn, Uses, Refused
<1>3. ~Answered[r]
  BY DEF Answered
<1>4. QED
  BY <1>1, <1>2, <1>3 DEF Attempts!Answer, Latest, UsesFn, Refused, Answered

\* A task that starts its operation on the newest client attempts its request.
LEMMA BeginAttempts ==
    ASSUME NEW r \in Requests, NEW c \in Nat, RInv,
           pc[r] \in {"read", "write", "check"}, Begin(r, c),
           c = Len(clients'), Len(clients') \in {Len(clients), Len(clients) + 1},
           sends[r] = 1 => stale[r] < c,
           UNCHANGED <<stale, failure>>
    PROVE  Attempts!Attempt(r)
<1> USE DEF RInv, IInv
<1>1. TypeOK /\ TaskInv(r) /\ sends[r] \in {0, 1}
  BY DEF TypeOK, TaskInv
<1>8. held'[r] = c /\ sends'[r] = sends[r] + 1
  BY DEF Begin, TypeOK
<1>9. sends[r] = 1 => held[r] = stale[r]
  BY <1>1 DEF HeldInv, TaskInv
<1>10. sends[r] = 1 => failure[r] # Nothing
  <2>1. sends[r] = 1 => Reported(r)
    BY <1>1 DEF TaskInv
  <2>2. QED
    BY <2>1 DEF Reported, Unauthenticated, ErrorKind, Nothing
<1>2. ~Answered[r]
  BY DEF Answered
<1>3. UNCHANGED <<Refused, Answered>>
  BY DEF Refused, Answered, Begin, TypeOK
<1>4. Uses(r)' = Append(Uses(r), c)
  <2>1. CASE sends[r] = 0
    BY <1>8, <2>1 DEF Uses
  <2>2. CASE sends[r] = 1
    BY <1>8, <1>9, <2>2 DEF Uses
  <2>3. QED
    BY <1>1, <2>1, <2>2
<1>5. UsesFn' = [UsesFn EXCEPT ![r] = Append(@, c)]
  <2>1. ASSUME NEW q \in Requests, q # r PROVE Uses(q)' = Uses(q)
    BY <2>1 DEF Uses, Begin, TypeOK
  <2>2. QED
    BY <1>4, <2>1 DEF UsesFn
<1>6. \/ UsesFn[r] = <<>>
      \/ Len(UsesFn[r]) = 1 /\ Refused[r] /\ UsesFn[r][1] < c
  <2>1. CASE sends[r] = 0
    BY <2>1 DEF UsesFn, Uses
  <2>2. CASE sends[r] = 1
    <3>1. UsesFn[r] = <<held[r]>>
      BY <2>2 DEF UsesFn, Uses
    <3>2. Len(UsesFn[r]) = 1 /\ UsesFn[r][1] < c
      BY <1>9, <2>2, <3>1
    <3>3. Refused[r]
      BY <1>10, <2>2 DEF Refused
    <3>4. QED
      BY <3>2, <3>3
  <2>3. QED
    BY <1>1, <2>1, <2>2
<1>7. QED
  BY <1>2, <1>3, <1>5, <1>6 DEF Attempts!Attempt, UsesFn, Refused, Answered

-----------------------------------------------------------------------------
\* Every step of the cache is a step of SealedAttempts, or invisible in it.
LEMMA StepRefines ==
    ASSUME RInv, [Next]_vars PROVE [Attempts!Next]_(Attempts!vars)
<1> DEFINE P == Attempts!Next \/ UNCHANGED Attempts!vars
<1> USE DEF RInv, IInv
<1>1. ASSUME NEW r \in Requests, Arrive(r) PROVE P
  BY <1>1, Stutters DEF Arrive, cacheVars, requestVars, TypeOK
<1>2. ASSUME NEW r \in Requests, CurrentHit(r) PROVE P
  <2>1. /\ slot = Len(clients) /\ slot \in Nat /\ pc[r] = "read" /\ sends[r] = 0
        /\ Len(clients) \in Nat
    BY <1>2, Times DEF CurrentHit, CanRead, CacheInv, TypeOK, TaskInv
  <2>2. Attempts!Attempt(r)
    BY <1>2, <2>1, BeginAttempts DEF CurrentHit, cacheVars
  <2>3. QED
    BY <2>2 DEF Attempts!Next
<1>3. ASSUME NEW r \in Requests, CurrentMiss(r) PROVE P
  BY <1>3, Stutters DEF CurrentMiss, CanRead, cacheVars, requestVars, TypeOK
<1>4. ASSUME NEW r \in Requests, ReplaceShared(r) PROVE P
  <2>1. /\ slot = Len(clients) /\ slot \in Nat /\ pc[r] = "write" /\ stale[r] < slot
        /\ Len(clients) \in Nat
    BY <1>4, Times DEF ReplaceShared, AlreadyReplaced, CanWrite, CacheInv, TypeOK, TaskInv,
       Reported
  <2>2. Attempts!Attempt(r)
    BY <1>4, <2>1, BeginAttempts DEF ReplaceShared, cacheVars
  <2>3. QED
    BY <2>2 DEF Attempts!Next
<1>5. ASSUME NEW r \in Requests, ReplaceAttest(r) PROVE P
  BY <1>5, Stutters DEF ReplaceAttest, CanWrite, requestVars, TypeOK
<1>6. ASSUME NEW r \in Requests, Attest(r) PROVE P
  BY <1>6, Stutters DEF Attest, cacheVars, requestVars, TypeOK
<1>7. ASSUME NEW r \in Requests, AttestOk(r) PROVE P
  <2>1. /\ Len(clients) \in Nat /\ Len(clients') = Len(clients) + 1 /\ slot' = Len(clients')
        /\ pc[r] = "check"
    <3>1. clients \in Seq(Client) /\ [at |-> now, key |-> proved] \in Client
      BY DEF TypeOK, Client
    <3>2. QED
      BY <1>7, <3>1, AppendClient DEF AttestOk
  <2>2. sends[r] = 1 => stale[r] < slot'
    BY <2>1 DEF TaskInv, Reported
  <2>3. Attempts!Attempt(r)
    BY <1>7, <2>1, <2>2, BeginAttempts DEF AttestOk
  <2>4. QED
    BY <2>3 DEF Attempts!Next
<1>8. ASSUME NEW r \in Requests, AttestFail(r) PROVE P
  BY <1>8, FinishAnswers DEF AttestFail, cacheVars, Attempts!Next
<1>9. ASSUME NEW r \in Requests, Answer(r) PROVE P
  BY <1>9, FinishAnswers DEF Answer, cacheVars, Attempts!Next
<1>10. ASSUME NEW r \in Requests, Reattest(r) PROVE P
  <2>1. PICK e \in Outcomes(r) \ {"Ok"} :
            Retries(r, e) /\ failure' = [failure EXCEPT ![r] = e]
    BY <1>10 DEF Reattest
  <2>2. e # Nothing /\ sends[r] = 1 /\ pc[r] = "send"
    BY <1>10, <2>1 DEF Retries, WarrantsReattest, Nothing, Reattest
  <2>3. Refused' = [Refused EXCEPT ![r] = TRUE]
    BY <2>1, <2>2 DEF Refused, TypeOK
  <2>4. UNCHANGED <<Latest, Answered>>
    BY <1>10 DEF Reattest, Latest, Answered, cacheVars, TypeOK
  <2>5. UNCHANGED UsesFn
    <3>1. UNCHANGED <<held, sends>> /\ stale' = [stale EXCEPT ![r] = held[r]]
      BY <1>10 DEF Reattest
    <3>2. ASSUME NEW q \in Requests PROVE Uses(q)' = Uses(q)
      <4>1. CASE q = r
        BY <2>2, <3>1, <4>1 DEF Uses
      <4>2. CASE q # r
        BY <3>1, <4>2 DEF Uses, TypeOK
      <4>3. QED
        BY <4>1, <4>2
    <3>3. QED
      BY <3>2 DEF UsesFn
  <2>6. ~Answered[r] /\ Len(UsesFn[r]) = 1
    BY <2>2 DEF Answered, UsesFn, Uses
  <2>7. Attempts!Refuse(r)
    BY <2>3, <2>4, <2>5, <2>6 DEF Attempts!Refuse, Latest, UsesFn, Refused, Answered
  <2>8. QED
    BY <2>7 DEF Attempts!Next
<1>11. ASSUME NEW r \in Requests, Cancel(r) PROVE P
  BY <1>11, FinishAnswers DEF Cancel, cacheVars, Attempts!Next
<1>12. Redeploy \/ Tick \/ UNCHANGED vars => P
  BY Stutters DEF Redeploy, Tick, vars, cacheVars, requestVars
<1>13. P
  BY NextCases, <1>1, <1>2, <1>3, <1>4, <1>5, <1>6, <1>7, <1>8, <1>9, <1>10, <1>11, <1>12
<1>14. QED
  BY <1>13

\* attested.rs:89-91, 116-117: the cache keeps its promise: each attempt of a
\* request is sealed under the newest client there is, and its retry, which only an
\* unauthenticated failure causes, under a newer one than the attempt that failed.
THEOREM AttemptsRefined == Spec => AttemptsSpec
<1>1. Init => Attempts!Init
  <2> SUFFICES ASSUME Init PROVE Attempts!Init
    OBVIOUS
  <2>1. Len(clients) = 1
    BY DEF Init
  <2>2. [r \in Requests |-> Uses(r)] = [r \in Requests |-> <<>>]
    BY DEF Init, Uses
  <2>3. [r \in Requests |-> failure[r] # Nothing] = [r \in Requests |-> FALSE]
    BY DEF Init
  <2>4. [r \in Requests |-> pc[r] = "done"] = [r \in Requests |-> FALSE]
    BY DEF Init
  <2>5. QED
    BY <2>1, <2>2, <2>3, <2>4 DEF Attempts!Init
<1>2. RInv /\ [Next]_vars => [Attempts!Next]_(Attempts!vars)
  BY StepRefines
<1>3. QED
  BY <1>1, <1>2, RefinementInvariance, PTL DEF Spec, AttemptsSpec, Attempts!Spec

\* attested.rs:21-22, 99: an old client is used only to retry a request that was in
\* flight when it was attested, unless the policy makes every client old at once.
THEOREM OldClientsOnlyRetry ==
    ASSUME ReattestAfter # 0 PROVE Spec => OldOnlyForRetry
<1>1. ASSUME IInv, [Next]_vars, NEW r \in Requests, sends'[r] # sends[r],
             now - clients'[held'[r]].at >= ReattestAfter
      PROVE  sends[r] = 1 /\ stale[r] \in 1..(held'[r] - 1)
  <2> DEFINE Q == sends[r] = 1 /\ stale[r] \in 1..(held'[r] - 1)
  <2> USE <1>1, ConstantsAssumption DEF IInv, TypeOK
  <2>1. ASSUME NEW q \in Requests, CurrentHit(q) PROVE Q
    BY <2>1 DEF CurrentHit, Begin, AgedOut, Age, cacheVars
  <2>2. ASSUME NEW q \in Requests, ReplaceShared(q) PROVE Q
    <3>1. q = r /\ held'[r] = slot /\ slot = Len(clients) /\ pc[r] = "write"
          /\ stale[r] # None /\ slot # stale[r]
      BY <2>2 DEF ReplaceShared, Begin, AlreadyReplaced, CanWrite, CacheInv
    <3>2. TaskInv(r) /\ Len(clients) \in Nat
      BY Times
    <3>3. sends[r] = 1 /\ Reported(r)
      BY <3>1, <3>2 DEF TaskInv
    <3>4. QED
      BY <3>1, <3>2, <3>3 DEF Reported, None
  <2>3. ASSUME NEW q \in Requests, AttestOk(q) PROVE Q
    <3>1. clients \in Seq(Client) /\ [at |-> now, key |-> proved] \in Client
      BY DEF Client
    <3>2. q = r /\ clients'[held'[r]].at = now
      BY <2>3, <3>1, AppendClient DEF AttestOk, Begin
    <3>3. QED
      BY <3>2
  <2>4. ASSUME NEW q \in Requests,
               Arrive(q) \/ CurrentMiss(q) \/ ReplaceAttest(q) \/ Attest(q) \/ AttestFail(q)
               \/ Answer(q) \/ Reattest(q) \/ Cancel(q)
        PROVE  FALSE
    BY <2>4 DEF Arrive, CurrentMiss, ReplaceAttest, Attest, AttestFail, Answer, Reattest,
       Cancel, requestVars
  <2>5. ~Redeploy /\ ~Tick /\ ~UNCHANGED vars
    BY DEF Redeploy, Tick, vars, requestVars
  <2>6. QED
    BY NextCases, <2>1, <2>2, <2>3, <2>4, <2>5
<1>2. IInv /\ [Next]_vars =>
        \A r \in Requests :
           sends'[r] # sends[r] /\ now - clients'[held'[r]].at >= ReattestAfter =>
              sends[r] = 1 /\ stale[r] \in 1..(held'[r] - 1)
  BY <1>1
<1>3. QED
  BY Invariance, <1>2, PTL DEF OldOnlyForRetry, Spec

=============================================================================
