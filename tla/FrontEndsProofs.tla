-------------------------- MODULE FrontEndsProofs --------------------------
(* Proofs about FrontEnds: what an OpenAI client is answered, and what rig      *)
(* believes, is what the enclave said, for any sizes of errors and answers.     *)
EXTENDS FrontEnds, SequenceTheorems, TLAPS

-----------------------------------------------------------------------------
(* Beginnings of what the enclave said. *)
Begins(p, s) ==
    p \in Seq(Nat) /\ Len(p) <= Len(s) /\ \A i \in 1..Len(p) : p[i] = s[i]

LEMMA PrefixBegins ==
    ASSUME NEW s \in Seq(Nat), NEW p \in PrefixesOf(s) PROVE Begins(p, s)
<1>1. PICK n \in 0..Len(s) : p = SubSeq(s, 1, n)
  BY DEF PrefixesOf
<1>2. Len(s) \in Nat /\ \A i \in 1..n : s[i] \in Nat
  BY ElementOfSeq
<1>3. p \in Seq(Nat) /\ Len(p) = n /\ \A i \in 1..n : p[i] = s[i]
  BY <1>1, <1>2, SubSeqProperties
<1>4. QED
  BY <1>2, <1>3 DEF Begins

LEMMA BeginsPrefix ==
    ASSUME NEW s \in Seq(Nat), NEW p, Begins(p, s) PROVE p \in PrefixesOf(s)
<1>1. p \in Seq(Nat) /\ Len(p) \in Nat /\ Len(s) \in Nat /\ Len(p) <= Len(s)
  BY DEF Begins
<1>2. \A i \in 1..Len(p) : s[i] \in Nat /\ p[i] = s[i]
  BY <1>1, ElementOfSeq DEF Begins
<1>3. /\ SubSeq(s, 1, Len(p)) \in Seq(Nat) /\ Len(SubSeq(s, 1, Len(p))) = Len(p)
      /\ \A i \in 1..Len(p) : SubSeq(s, 1, Len(p))[i] = s[i]
  BY <1>1, <1>2, SubSeqProperties
<1>4. p = SubSeq(s, 1, Len(p))
  BY <1>1, <1>2, <1>3, SeqEqual
<1>5. Len(p) \in 0..Len(s)
  BY <1>1
<1>6. \E n \in 0..Len(s) : p = SubSeq(s, 1, n)
  BY <1>4, <1>5
<1>7. QED
  BY <1>6 DEF PrefixesOf

\* The enclave takes nothing back: a beginning stays one when more is said.
LEMMA BeginsAppend ==
    ASSUME NEW s \in Seq(Nat), NEW w \in Nat, NEW p, Begins(p, s)
    PROVE  Begins(p, Append(s, w))
<1>1. /\ Len(s) \in Nat /\ Len(Append(s, w)) = Len(s) + 1
      /\ \A i \in 1..Len(s) : Append(s, w)[i] = s[i]
  BY AppendProperties
<1>2. p \in Seq(Nat) /\ Len(p) \in Nat /\ Len(p) <= Len(s)
  BY DEF Begins
<1>3. QED
  BY <1>1, <1>2 DEF Begins

LEMMA EmptyBegins == ASSUME NEW s \in Seq(Nat) PROVE Begins(<<>>, s)
<1>1. <<>> \in Seq(Nat) /\ Len(<<>>) = 0 /\ Len(s) \in Nat
  BY EmptySeq
<1>2. QED
  BY <1>1 DEF Begins

-----------------------------------------------------------------------------
(* The call, whoever made it. *)
CallInv ==
    /\ said \in Seq(Nat) /\ \A i \in 1..Len(said) : said[i] # Mark
    /\ Begins(items, said) /\ Begins(answer, said)
    /\ stage \in {"calling", "streaming", "done"}
    /\ stage = "calling" <=> returned = Nothing
    /\ stage = "streaming" => returned = "Ok"
    /\ ending # Nothing => stage = "done"

Speaks == Speak /\ said' = Append(said, Len(said) + 1)

LEMMA SpeakKeeps == ASSUME CallInv, Speaks PROVE CallInv'
<1>1. /\ said \in Seq(Nat) /\ Len(said) \in Nat /\ said' = Append(said, Len(said) + 1)
      /\ UNCHANGED <<stage, returned, answer, items, ending>>
  BY DEF CallInv, Speaks, Speak
<1>2. Len(said) + 1 \in Nat /\ Len(said) + 1 # 0
  BY <1>1
<1>3. /\ said' \in Seq(Nat) /\ Len(said') = Len(said) + 1
      /\ said'[Len(said) + 1] = Len(said) + 1
      /\ \A i \in 1..Len(said) : said'[i] = said[i]
  BY <1>1, <1>2, AppendProperties
<1>4. \A i \in 1..Len(said') : said'[i] # Mark
  BY <1>1, <1>2, <1>3 DEF CallInv, Mark
<1>5. Begins(items, said') /\ Begins(answer, said')
  BY <1>1, <1>2, BeginsAppend DEF CallInv
<1>6. Begins(items', said') /\ Begins(answer', said')
  BY <1>1, <1>5 DEF Begins
<1>7. QED
  BY <1>1, <1>3, <1>4, <1>6 DEF CallInv

LEMMA ReturnsKeep ==
    ASSUME CallInv, Returns
    PROVE  /\ CallInv'
           /\ stage = "calling" /\ UNCHANGED <<said, items, ending>>
           /\ returned' \in {"Http", "Ehbp", "Attestation", "InvalidModelId",
                             "UnauthenticatedUpstream", "Ok", "Json", "Enclave"}
           /\ stage' = "streaming" => returned' = "Ok"
<1>1. CASE \E e \in ChannelErrors : Fail(e)
  BY <1>1 DEF Fail, ChannelErrors, CallInv, Nothing, Begins
<1>2. CASE \E o \in {"Ok", "Json", "Enclave"} : Reply(o)
  <2>1. PICK o \in {"Ok", "Json", "Enclave"} : Reply(o)
    BY <1>2
  <2>2. /\ stage = "calling" /\ stage' = "done" /\ returned' = o
        /\ answer' \in PrefixesOf(said) /\ UNCHANGED <<said, items, ending>>
    BY <2>1 DEF Reply
  <2>3. Begins(answer', said)
    BY <2>2, PrefixBegins DEF CallInv
  <2>4. QED
    BY <2>1, <2>2, <2>3 DEF CallInv, Nothing, Begins
<1>3. CASE Open
  BY <1>3 DEF Open, CallInv, Nothing, Begins
<1>4. QED
  BY <1>1, <1>2, <1>3 DEF Returns

LEMMA YieldKeeps ==
    ASSUME CallInv, Yield
    PROVE  /\ CallInv' /\ Len(items') > Len(items) /\ stage = "streaming"
           /\ UNCHANGED <<said, stage, returned, answer, ending>>
           /\ \A i \in 1..Len(items) : items'[i] = items[i]
<1>1. /\ items' \in PrefixesOf(said) /\ Len(items') > Len(items) /\ stage = "streaming"
      /\ UNCHANGED <<said, stage, returned, answer, ending>>
  BY DEF Yield
<1>2. Begins(items', said)
  BY <1>1, PrefixBegins DEF CallInv
<1>3. Len(items) \in Nat /\ Len(items') \in Nat
  BY <1>2 DEF CallInv, Begins
<1>4. \A i \in 1..Len(items) : items'[i] = items[i]
  <2>1. \A i \in 1..Len(items) : items[i] = said[i]
    BY DEF CallInv, Begins
  <2>2. \A i \in 1..Len(items) : i \in 1..Len(items')
    BY <1>1, <1>3
  <2>3. \A i \in 1..Len(items') : items'[i] = said[i]
    BY <1>1, <1>2 DEF Begins
  <2>4. QED
    BY <2>1, <2>2, <2>3
<1>5. Begins(answer', said')
  BY <1>1 DEF CallInv, Begins
<1>6. CallInv'
  BY <1>1, <1>2, <1>5 DEF CallInv
<1>7. QED
  BY <1>1, <1>4, <1>6

LEMMA EndsKeep ==
    ASSUME CallInv, Ends
    PROVE  /\ CallInv' /\ stage = "streaming" /\ stage' = "done"
           /\ ending' \in {"end", "Http", "Ehbp"}
           /\ UNCHANGED <<said, returned, answer, items>>
BY DEF Ends, End, CallInv, Nothing, Begins

LEMMA CallStays == ASSUME CallInv, UNCHANGED <<said, stage, returned, answer, items, ending>>
                   PROVE  CallInv'
BY DEF CallInv, Begins

-----------------------------------------------------------------------------
(* The proxy's handler. *)
Typed ==
    /\ request \in Posts
    /\ handler \in {"reading", "attesting", "calling", "streaming", "done"}
    /\ attempt \in 0..2 /\ forwarded \in 0..Len(items)
    /\ over \in {Nothing, "complete", "truncated"} /\ peer \in {"connected", "gone"}

Delivery == delivered = [i \in 1..forwarded |-> [attempt |-> attempt, write |-> said[i]]]

\* Nothing has been answered before there is something to forward.
Unanswered ==
    handler \in {"reading", "attesting", "calling"} => response = None /\ forwarded = 0

Progress ==
    /\ handler = "reading" => attempt = 0
    /\ handler = "attesting" => attempt < 2
    /\ handler \in {"reading", "attesting"} => returned # "Enclave"
    /\ handler # "done" => over = Nothing
    /\ handler \in {"attesting", "calling", "streaming"} => request.fits /\ ~Malformed(request)
    /\ handler = "calling" /\ returned # Nothing =>
           (returned = "InvalidModelId" <=> request.model = "illegal")

Streams ==
    handler = "streaming" =>
        response = [status |-> 200, shape |-> "sse", words |-> <<>>] /\ returned = "Ok"

Closed ==
    over = "complete" /\ response.shape = "sse" => ending = "end" /\ forwarded = Len(items)

\* StatusIsHonest, in parts.
StatusVouched ==
    Answered =>
        /\ response.status = 200 => returned = "Ok" /\ response.words \in PrefixesOf(said)
        /\ response.status \notin OwnStatuses \cup {200} => returned = "Enclave"
        /\ response.words # <<>> => returned \in {"Ok", "Enclave"}
        /\ returned = "Enclave" => WholeOrMarked(response)
BlameIsDue    == Answered /\ response.status \in {400, 413} => Refused \/ returned = "Enclave"
RefusedUnsent == Refused => said = <<>>

ServerInv ==
    /\ Typed /\ Delivery /\ Unanswered /\ Progress /\ Streams /\ Closed
    /\ StatusVouched /\ BlameIsDue /\ RefusedUnsent

\* A step that is none of the parts' business.
LEMMA ServerStays ==
    ASSUME ServerInv, UNCHANGED callVars,
           UNCHANGED <<request, handler, attempt, response, delivered, forwarded, over>>,
           peer' \in {"connected", "gone"}
    PROVE  ServerInv'
<1>1. UNCHANGED <<said, stage, returned, answer, items, ending>>
  BY DEF callVars
<1>2. Typed' /\ Delivery' /\ Unanswered' /\ Streams' /\ Closed'
  BY <1>1 DEF ServerInv, Typed, Delivery, Unanswered, Streams, Closed
<1>3. Progress' /\ BlameIsDue' /\ RefusedUnsent'
  BY <1>1 DEF ServerInv, Progress, BlameIsDue, RefusedUnsent, Answered, Refused, Malformed
<1>4. StatusVouched'
  BY <1>1 DEF ServerInv, StatusVouched, Answered, PrefixesOf, WholeOrMarked
<1>5. QED
  BY <1>2, <1>3, <1>4 DEF ServerInv

LEMMA NothingDelivered ==
    ASSUME Delivery PROVE forwarded = 0 => delivered = <<>>
BY DEF Delivery

\* An answer that is sent whole.
LEMMA RespondKeeps ==
    ASSUME ServerInv, UNCHANGED callVars, NEW r, Respond(r), r.shape # "sse",
           handler \in {"reading", "attesting", "calling"},
           StatusVouched', BlameIsDue'
    PROVE  ServerInv'
<1>1. /\ handler' = "done" /\ response' = r /\ over' \in {"complete", "truncated"}
      /\ UNCHANGED <<request, attempt, delivered, forwarded, peer>>
      /\ UNCHANGED <<said, items, stage, returned, ending, answer>>
  BY DEF Respond, callVars
<1>2. QED
  BY <1>1 DEF ServerInv, Typed, Delivery, Unanswered, Progress, Streams, Closed,
     RefusedUnsent, Refused, Malformed

\* One of the proxy's own answers needs no vouching, and only 400 blames the peer.
LEMMA OwnAnswerKeeps ==
    ASSUME ServerInv, UNCHANGED callVars, NEW r, Respond(r), r.shape # "sse",
           handler \in {"reading", "attesting", "calling"},
           r.status \in OwnStatuses, r.words = <<>>, returned # "Enclave",
           r.status \in {400, 413} => Refused
    PROVE  ServerInv'
<1>1. response' = r /\ UNCHANGED <<request, returned>>
  BY DEF Respond, callVars
<1>2. StatusVouched'
  BY <1>1 DEF StatusVouched, Answered, OwnStatuses
<1>3. BlameIsDue'
  BY <1>1 DEF BlameIsDue, Answered, Refused, Malformed
<1>4. QED
  BY <1>2, <1>3, RespondKeeps

\* cap_body leaves the answer alone, or cuts it and says so.
LEMMA CapIsMarked ==
    ASSUME CallInv
    PROVE  \/ CapBody(answer) = answer
           \/ /\ ~Parses(CapBody(answer))
              /\ \E p \in PrefixesOf(answer) : CapBody(answer) = Append(p, Mark)
<1>1. answer \in Seq(Nat) /\ Len(answer) \in Nat /\ MaxErrorBody \in Nat
  <2>1. answer \in Seq(Nat)
    BY DEF CallInv, Begins
  <2>2. Len(answer) \in Nat
    BY <2>1
  <2>3. QED
    BY <2>1, <2>2, CompletionAssumption
<1>2. CASE Len(answer) <= MaxErrorBody
  BY <1>2 DEF CapBody
<1>3. CASE ~(Len(answer) <= MaxErrorBody)
  <2> DEFINE p == SubSeq(answer, 1, MaxErrorBody)
  <2>1. CapBody(answer) = Append(p, Mark)
    BY <1>3 DEF CapBody
  <2>2. MaxErrorBody \in 0..Len(answer)
    BY <1>1, <1>3
  <2>3. p \in PrefixesOf(answer)
    BY <2>2 DEF PrefixesOf
  <2>4. p \in Seq(Nat) /\ Len(p) = MaxErrorBody
    <3>1. \A i \in 1..MaxErrorBody : answer[i] \in Nat
      BY <1>1, <2>2, ElementOfSeq
    <3>2. QED
      BY <1>1, <2>2, <3>1, SubSeqProperties
  <2>5. Append(p, Mark)[MaxErrorBody + 1] = Mark /\ Len(Append(p, Mark)) = MaxErrorBody + 1
    BY <2>4, AppendProperties DEF Mark
  <2>6. Append(p, Mark) # said
    BY <1>1, <2>5 DEF CallInv
  <2>7. QED
    BY <2>1, <2>3, <2>6 DEF Parses
<1>4. QED
  BY <1>2, <1>3

\* The answer of a call that has returned.
LEMMA FinishKeeps == ASSUME CallInv, ServerInv, Finish PROVE ServerInv'
<1>1. PICK s \in EnclaveStatuses : Respond(Answer(returned, s))
  BY DEF Finish
<1> DEFINE r == Answer(returned, s)
<1>2. /\ handler = "calling" /\ stage = "done" /\ returned # Nothing /\ Respond(r)
      /\ UNCHANGED callVars /\ response' = r /\ UNCHANGED <<said, answer, returned, request>>
  BY <1>1 DEF Finish, Respond, CallInv, callVars
<1>3. CASE returned = "Ok"
  <2>1. r = [status |-> 200, shape |-> "json", words |-> answer]
    BY <1>3 DEF Answer
  <2>2. answer \in PrefixesOf(said)
    BY BeginsPrefix DEF CallInv
  <2>3. StatusVouched' /\ BlameIsDue'
    <3>1. response'.status = 200 /\ response'.words \in PrefixesOf(said') /\ returned' = "Ok"
      BY <1>2, <1>3, <2>1, <2>2 DEF PrefixesOf
    <3>2. QED
      BY <3>1 DEF StatusVouched, BlameIsDue
  <2>4. QED
    BY <1>2, <2>1, <2>3, RespondKeeps
<1>4. CASE returned = "Enclave"
  <2>1. r = Relay(s, CapBody(answer))
    BY <1>4 DEF Answer
  <2>2. /\ r.words = CapBody(answer) /\ r.shape # "sse"
        /\ ~Parses(CapBody(answer)) => r.shape = "error"
    BY <2>1 DEF Relay
  <2>3. r.status # 200
    <3>1. s \in Nat /\ ~(200 <= s /\ s < 300)
      BY CompletionAssumption
    <3>2. QED
      BY <2>1, <3>1 DEF Relay
  <2>4. WholeOrMarked(response)'
    BY <1>2, <2>2, CapIsMarked DEF WholeOrMarked, PrefixesOf
  <2>5. StatusVouched'
    BY <1>2, <1>4, <2>3, <2>4 DEF StatusVouched
  <2>6. BlameIsDue'
    BY <1>2, <1>4 DEF BlameIsDue
  <2>7. QED
    BY <1>2, <2>2, <2>5, <2>6, RespondKeeps
<1>5. CASE returned \notin {"Ok", "Enclave"}
  <2>1. /\ r.shape # "sse" /\ r.status \in {502, 503, 400} /\ r.words = <<>>
        /\ r.status = 400 => returned = "InvalidModelId"
    BY <1>5 DEF Answer, Shaped
  <2>2. r.status \in {400, 413} => Refused
    BY <1>2, <2>1 DEF ServerInv, Progress, Refused
  <2>3. QED
    BY <1>2, <1>5, <2>1, <2>2, OwnAnswerKeeps DEF OwnStatuses
<1>6. QED
  BY <1>3, <1>4, <1>5

\* The steps of the handler that leave the call alone.
LEMMA HandlerKeeps ==
    ASSUME CallInv, ServerInv,
           RefuseTooLarge \/ RefuseMalformed \/ Accept \/ AttestFails \/ Retry \/ StartStream
               \/ CloseStream \/ AbortStream \/ Dropped \/ HangUp
    PROVE  ServerInv' /\ CallInv'
<1>1. UNCHANGED <<said, stage, returned, answer, items, ending>>
  BY DEF RefuseTooLarge, RefuseMalformed, Accept, AttestFails, Retry, StartStream,
     CloseStream, AbortStream, Dropped, HangUp, StreamOver, callVars
<1>2. CallInv'
  BY <1>1, CallStays
<1>3. CASE RefuseTooLarge
  BY <1>2, <1>3, OwnAnswerKeeps DEF RefuseTooLarge, OwnStatuses, Refused, ServerInv, Progress
<1>4. CASE RefuseMalformed
  BY <1>2, <1>4, OwnAnswerKeeps DEF RefuseMalformed, OwnStatuses, Refused, Shaped,
     ServerInv, Progress
<1>5. CASE AttestFails
  <2>1. PICK e \in {"Http", "Ehbp", "Json", "Attestation"} : Respond(Answer(e, 0))
    BY <1>5 DEF AttestFails
  <2>2. /\ Answer(e, 0).status \in {502, 503} /\ Answer(e, 0).shape = "error"
        /\ Answer(e, 0).words = <<>>
    BY <2>1 DEF Answer, Shaped
  <2>3. QED
    BY <1>2, <1>5, <2>1, <2>2, OwnAnswerKeeps DEF AttestFails, OwnStatuses, ServerInv, Progress
<1>6. CASE Accept
  BY <1>1, <1>2, <1>6 DEF Accept, ServerInv, Typed, Delivery, Unanswered, Progress, Streams,
     Closed, StatusVouched, BlameIsDue, RefusedUnsent, Answered, Refused, Malformed, PrefixesOf,
     WholeOrMarked
<1>7. CASE Retry
  BY <1>1, <1>2, <1>7 DEF Retry, Unauthenticated, ServerInv, Typed, Delivery, Unanswered, Progress, Streams,
     Closed, StatusVouched, BlameIsDue, RefusedUnsent, Answered, Refused, Malformed, PrefixesOf,
     WholeOrMarked
<1>8. CASE StartStream
  <2>1. /\ handler = "calling" /\ handler' = "streaming" /\ returned' = "Ok"
        /\ response' = [status |-> 200, shape |-> "sse", words |-> <<>>] /\ over' = Nothing
        /\ UNCHANGED <<request, attempt, delivered, forwarded, over, peer>>
    BY <1>1, <1>8 DEF StartStream, CallInv, ServerInv, Progress
  <2>2. Typed' /\ Delivery' /\ Unanswered' /\ Progress' /\ Streams' /\ Closed' /\ RefusedUnsent'
    BY <1>1, <2>1 DEF ServerInv, Typed, Delivery, Unanswered, Progress, Streams,
       Closed, RefusedUnsent, Refused, Malformed, Nothing
  <2>3. response'.words \in PrefixesOf(said')
    <3>1. said' \in Seq(Nat) /\ Begins(<<>>, said')
      BY <1>2, EmptyBegins DEF CallInv
    <3>2. QED
      BY <2>1, <3>1, BeginsPrefix
  <2>4. StatusVouched' /\ BlameIsDue'
    BY <2>1, <2>3 DEF StatusVouched, BlameIsDue
  <2>5. QED
    BY <1>2, <2>2, <2>4 DEF ServerInv
<1>9. CASE CloseStream \/ AbortStream \/ Dropped
  <2>1. /\ handler' = "done" /\ over' \in {"complete", "truncated"}
        /\ over' = "complete" => ending = "end" /\ forwarded = Len(items)
        /\ UNCHANGED <<request, attempt, response, delivered, forwarded, peer>>
    BY <1>9 DEF CloseStream, AbortStream, Dropped, StreamOver
  <2>2. Typed' /\ Delivery' /\ Unanswered' /\ Progress' /\ Streams' /\ Closed'
    BY <1>1, <2>1 DEF ServerInv, Typed, Delivery, Unanswered, Progress, Streams, Closed
  <2>3. StatusVouched' /\ BlameIsDue' /\ RefusedUnsent'
    BY <1>1, <2>1 DEF ServerInv, StatusVouched, BlameIsDue, RefusedUnsent, Answered, Refused,
       Malformed, PrefixesOf, WholeOrMarked
  <2>4. QED
    BY <1>2, <2>2, <2>3 DEF ServerInv
<1>10. CASE HangUp
  BY <1>2, <1>10, ServerStays DEF HangUp
<1>11. QED
  BY <1>3, <1>4, <1>5, <1>6, <1>7, <1>8, <1>9, <1>10

LEMMA AttemptKeeps == ASSUME CallInv, ServerInv, Attempt PROVE ServerInv' /\ CallInv'
<1>1. /\ handler = "attesting" /\ handler' = "calling" /\ attempt' = attempt + 1
      /\ said' = <<>> /\ stage' = "calling" /\ returned' = Nothing
      /\ answer' = <<>> /\ items' = <<>> /\ ending' = Nothing /\ forwarded' = 0
      /\ UNCHANGED <<request, response, delivered, over, peer>>
  BY DEF Attempt
<1>2. CallInv'
  <2>1. <<>> \in Seq(Nat) /\ Len(<<>>) = 0 /\ Begins(<<>>, <<>>)
    BY EmptySeq, EmptyBegins
  <2>2. QED
    BY <1>1, <2>1 DEF CallInv, Begins, Nothing
<1>3. Delivery'
  BY <1>1 DEF ServerInv, Unanswered, Delivery
<1>4. Typed'
  <2>1. attempt' \in 0..2
    BY <1>1 DEF ServerInv, Typed, Progress
  <2>2. forwarded' \in 0..Len(items')
    BY <1>1, EmptySeq
  <2>3. QED
    BY <1>1, <2>1, <2>2 DEF ServerInv, Typed
<1>5. QED
  BY <1>1, <1>2, <1>3, <1>4 DEF ServerInv, Unanswered, Progress, Streams, Closed, Nothing,
     StatusVouched, BlameIsDue, RefusedUnsent, Answered, Refused, Malformed

LEMMA CallReturnsKeeps == ASSUME CallInv, ServerInv, CallReturns PROVE ServerInv' /\ CallInv'
<1>1. /\ handler = "calling" /\ UNCHANGED serverVars /\ CallInv' /\ stage = "calling"
      /\ UNCHANGED <<said, items>>
      /\ returned' = "InvalidModelId" <=> request.model = "illegal"
  BY ReturnsKeep DEF CallReturns
<1>2. Typed' /\ Delivery' /\ Unanswered' /\ Streams' /\ Closed' /\ RefusedUnsent'
  BY <1>1 DEF ServerInv, Typed, Delivery, Unanswered, Progress, Streams, Closed, RefusedUnsent,
     Refused, Malformed, serverVars, Nothing
<1>3. Progress'
  BY <1>1 DEF ServerInv, Progress, Malformed, serverVars
<1>4. StatusVouched' /\ BlameIsDue'
  BY <1>1 DEF ServerInv, Unanswered, StatusVouched, BlameIsDue, Answered, serverVars
<1>5. QED
  BY <1>1, <1>2, <1>3, <1>4 DEF ServerInv

LEMMA StreamStepKeeps == ASSUME CallInv, ServerInv, StreamStep PROVE ServerInv' /\ CallInv'
<1>1. handler = "streaming" /\ UNCHANGED serverVars /\ (Yield \/ Ends)
  BY DEF StreamStep
<1>2. /\ CallInv' /\ UNCHANGED <<said, returned, answer>> /\ Len(items') >= Len(items)
      /\ Len(items) \in Nat /\ Len(items') \in Nat
  <2>1. Len(items) \in Nat
    BY DEF CallInv, Begins
  <2>2. CASE Yield
    <3>1. Len(items') \in Nat
      BY <2>2, YieldKeeps DEF CallInv, Begins
    <3>2. QED
      BY <2>1, <2>2, <3>1, YieldKeeps
  <2>3. CASE Ends
    BY <2>1, <2>3, EndsKeep
  <2>4. QED
    BY <1>1, <2>2, <2>3
<1>3. Typed'
  BY <1>1, <1>2 DEF ServerInv, Typed, serverVars
<1>4. over = Nothing
  BY <1>1 DEF ServerInv, Progress
<1>5. QED
  BY <1>1, <1>2, <1>3, <1>4 DEF ServerInv, Delivery, Unanswered, Progress, Streams, Closed,
     StatusVouched, BlameIsDue, RefusedUnsent, Answered, Refused, Malformed, serverVars, Nothing,
     PrefixesOf

LEMMA ForwardKeeps == ASSUME CallInv, ServerInv, Forward PROVE ServerInv' /\ CallInv'
<1> DEFINE bit(i) == [attempt |-> attempt, write |-> said[i]]
<1>1. /\ handler = "streaming" /\ forwarded < Len(items) /\ forwarded' = forwarded + 1
      /\ delivered' = Append(delivered, [attempt |-> attempt, write |-> items[forwarded']])
      /\ UNCHANGED <<said, stage, returned, answer, items, ending>>
      /\ UNCHANGED <<request, handler, attempt, response, over, peer>>
  BY DEF Forward, callVars
<1>2. CallInv'
  BY <1>1, CallStays
<1>3. forwarded \in Nat /\ Len(items) \in Nat /\ forwarded' \in 1..Len(items)
  BY <1>1 DEF ServerInv, Typed, CallInv, Begins
<1>4. [attempt |-> attempt, write |-> items[forwarded']] = bit(forwarded')
  BY <1>3 DEF CallInv, Begins
<1>5. Delivery'
  <2> DEFINE T == {bit(i) : i \in 1..(forwarded + 1)}
  <2>1. delivered = [i \in 1..forwarded |-> bit(i)]
    BY DEF ServerInv, Delivery
  <2>2. delivered \in Seq(T) /\ Len(delivered) = forwarded
    BY <1>3, <2>1
  <2>3. bit(forwarded + 1) \in T
    BY <1>3
  <2>4. delivered' = Append(delivered, bit(forwarded + 1))
    BY <1>1, <1>4
  <2> HIDE DEF T, bit
  <2>5. /\ delivered' \in Seq(T) /\ Len(delivered') = forwarded + 1
        /\ \A i \in 1..forwarded : delivered'[i] = delivered[i]
        /\ delivered'[forwarded + 1] = bit(forwarded + 1)
    BY <2>2, <2>3, <2>4, AppendProperties
  <2>6. \A i \in 1..(forwarded + 1) : delivered'[i] = bit(i)
    BY <1>3, <2>1, <2>5
  <2>7. delivered' = [i \in 1..(forwarded + 1) |-> bit(i)]
    BY <1>3, <2>5, <2>6
  <2>8. QED
    BY <1>1, <2>7 DEF Delivery, bit
<1>6. Typed'
  BY <1>1, <1>3 DEF ServerInv, Typed
<1>7. QED
  BY <1>1, <1>2, <1>5, <1>6 DEF ServerInv, Unanswered, Progress, Streams, Closed, Nothing,
     StatusVouched, BlameIsDue, RefusedUnsent, Answered, Refused, Malformed, PrefixesOf,
     WholeOrMarked

LEMMA EnclaveSpeaksKeeps ==
    ASSUME CallInv, ServerInv, EnclaveSpeaks PROVE ServerInv' /\ CallInv'
<1>1. /\ handler \in {"calling", "streaming"} /\ request.model = "legal" /\ Speaks
      /\ UNCHANGED serverVars /\ UNCHANGED <<stage, returned, answer, items, ending>>
  BY DEF EnclaveSpeaks, Speaks, Speak
<1>2. CallInv'
  BY <1>1, SpeakKeeps
<1>3. \A i \in 1..forwarded : said'[i] = said[i]
  <2>1. said' = Append(said, Len(said) + 1) /\ said \in Seq(Nat) /\ Len(said) \in Nat
    BY <1>1 DEF Speaks, CallInv
  <2>2. \A i \in 1..Len(said) : said'[i] = said[i]
    BY <2>1, AppendProperties
  <2>3. Len(items) \in Nat /\ Len(items) <= Len(said) /\ forwarded \in 0..Len(items)
    BY DEF CallInv, Begins, ServerInv, Typed
  <2>4. QED
    BY <2>1, <2>2, <2>3
<1>4. Delivery'
  BY <1>1, <1>3 DEF ServerInv, Delivery, serverVars
<1>5. ~Refused' /\ ~Refused
  BY <1>1 DEF ServerInv, Progress, Refused, Malformed, serverVars
<1>6. StatusVouched'
  <2>1. CASE handler = "calling"
    BY <1>1, <2>1 DEF ServerInv, Unanswered, StatusVouched, Answered, serverVars
  <2>2. CASE handler = "streaming"
    <3>1. /\ response' = [status |-> 200, shape |-> "sse", words |-> <<>>] /\ returned' = "Ok"
      BY <1>1, <2>2 DEF ServerInv, Streams, serverVars
    <3>2. response'.words \in PrefixesOf(said')
      BY <1>2, <3>1, EmptyBegins, BeginsPrefix DEF CallInv
    <3>3. QED
      BY <3>1, <3>2 DEF StatusVouched
  <2>3. QED
    BY <1>1, <2>1, <2>2
<1>7. QED
  BY <1>1, <1>2, <1>4, <1>5, <1>6 DEF ServerInv, Typed, Unanswered, Progress, Streams, Closed,
     BlameIsDue, RefusedUnsent, Answered, Malformed, serverVars

LEMMA ServerStep == ASSUME CallInv, ServerInv, Next PROVE ServerInv' /\ CallInv'
<1>1. CASE Finish
  <2>1. UNCHANGED <<said, stage, returned, answer, items, ending>>
    BY <1>1 DEF Finish, callVars
  <2>2. QED
    BY <1>1, <2>1, FinishKeeps, CallStays
<1>2. CASE Idle
  BY <1>2, ServerStays, CallStays DEF Idle, vars, serverVars, callVars, ServerInv, Typed
<1>3. QED
  BY <1>1, <1>2, HandlerKeeps, AttemptKeeps, CallReturnsKeeps, StreamStepKeeps, ForwardKeeps,
     EnclaveSpeaksKeeps DEF Next, Handler

-----------------------------------------------------------------------------
(* rig's backend. *)
RigInv ==
    /\ Begins(events, items)
    /\ told.kind \in {"response", "provider"} =>
           /\ Begins(told.words, said)
           /\ returned = IF told.kind = "response" THEN "Ok" ELSE "Enclave"
    /\ Rig!Refuses => returned = Nothing /\ said = <<>> /\ told \in {Rig!Untold, Rig!Instance}
    /\ closing # Nothing => ending # Nothing /\ (closing = "end" <=> ending = "end")
                            /\ events = items

\* RigTransport's operators on the call are ChatCall's.
LEMMA SameCall ==
    /\ (Rig!Returns <=> Returns) /\ (Rig!Yield <=> Yield) /\ (Rig!Ends <=> Ends)
    /\ Rig!EnclaveSpeaks => Speaks
    /\ Rig!Nothing = Nothing /\ Rig!callVars = callVars
<1>1. Rig!Nothing = Nothing /\ Rig!callVars = callVars
  BY DEF Rig!Nothing, Nothing, Rig!callVars, callVars
<1>2. (Rig!Yield <=> Yield) /\ (Rig!Ends <=> Ends)
  BY DEF Rig!Yield, Yield, Rig!Ends, Ends, Rig!End, End, Rig!PrefixesOf, PrefixesOf
<1>3. Rig!Returns <=> Returns
  BY DEF Rig!Returns, Returns, Rig!Fail, Fail, Rig!Reply, Reply, Rig!Open, Open,
     Rig!ChannelErrors, ChannelErrors, Rig!PrefixesOf, PrefixesOf
<1>4. Rig!EnclaveSpeaks => Speaks
  BY DEF Rig!EnclaveSpeaks, Speaks, Rig!Speak, Speak
<1>5. QED
  BY <1>1, <1>2, <1>3, <1>4

LEMMA RigStep == ASSUME CallInv, RigInv, Rig!Next PROVE RigInv' /\ CallInv'
<1>1. CASE Rig!Refuse \/ Rig!Respond \/ Rig!RespondStream \/ Rig!RespondError
  <2>1. /\ told = Rig!Untold /\ UNCHANGED <<said, stage, returned, answer, items, ending>>
        /\ UNCHANGED <<attested, method, op, events, closing>>
    BY <1>1 DEF Rig!Refuse, Rig!Respond, Rig!RespondStream, Rig!RespondError, Rig!Tell,
       Rig!callVars
  <2>2. CallInv'
    BY <2>1, CallStays
  <2>3. told'.kind \in {"response", "provider"} =>
            /\ told'.words = answer /\ returned = IF told'.kind = "response" THEN "Ok" ELSE "Enclave"
    BY <1>1, <2>1 DEF Rig!Refuse, Rig!Respond, Rig!RespondStream, Rig!RespondError, Rig!Tell,
       Rig!ToHttpError, Rig!Instance, Rig!Told
  <2>4. Rig!Refuses => told' = Rig!Instance
    BY <1>1, <2>1 DEF Rig!Refuse, Rig!Respond, Rig!RespondStream, Rig!RespondError, Rig!Tell,
       RigInv, CallInv, Nothing
  <2>5. QED
    BY <2>1, <2>2, <2>3, <2>4 DEF RigInv, CallInv, Begins, Rig!Refuses
<1>2. CASE Rig!CallReturns
  <2>1. /\ told = Rig!Untold /\ ~Rig!Refuses /\ CallInv' /\ UNCHANGED <<said, items, ending>>
        /\ UNCHANGED <<attested, method, op, told, events, closing>>
    BY <1>2, ReturnsKeep, SameCall DEF Rig!CallReturns, Rig!rigVars
  <2>2. told.kind = "none"
    BY <2>1 DEF Rig!Untold, Rig!Told
  <2>3. QED
    BY <2>1, <2>2 DEF RigInv, Begins, Rig!Refuses
<1>3. CASE Rig!StreamStep
  <2>1. /\ told.kind = "stream" /\ stage = "streaming"
        /\ UNCHANGED <<attested, method, op, told, events, closing>>
    BY <1>3 DEF Rig!StreamStep, Rig!rigVars
  <2>2. ~Rig!Refuses /\ closing = Nothing
    BY <2>1 DEF RigInv, CallInv, Nothing
  <2>3. CallInv' /\ Begins(events, items')
    <3>1. CASE Yield
      <4>1. Len(items) \in Nat /\ Len(events) \in Nat /\ Len(events) <= Len(items)
        BY DEF RigInv, CallInv, Begins
      <4>2. CallInv' /\ Len(items') > Len(items) /\ \A i \in 1..Len(items) : items'[i] = items[i]
        BY <3>1, YieldKeeps
      <4>3. Len(items') \in Nat
        BY <4>2 DEF CallInv, Begins
      <4>4. QED
        BY <4>1, <4>2, <4>3 DEF RigInv, Begins
    <3>2. CASE Ends
      BY <3>2, EndsKeep DEF RigInv, Begins
    <3>3. QED
      BY <1>3, <3>1, <3>2, SameCall DEF Rig!StreamStep
  <2>4. QED
    BY <2>1, <2>2, <2>3 DEF RigInv, Begins, Rig!Refuses
<1>4. CASE Rig!TakeItem
  <2>1. /\ told.kind = "stream" /\ Len(events) < Len(items)
        /\ events' = Append(events, items[Len(events) + 1])
        /\ UNCHANGED <<said, stage, returned, answer, items, ending>>
        /\ UNCHANGED <<attested, method, op, told, closing>>
    BY <1>4 DEF Rig!TakeItem, Rig!callVars
  <2>2. /\ events \in Seq(Nat) /\ items \in Seq(Nat) /\ Len(events) \in Nat /\ Len(items) \in Nat
    BY DEF RigInv, CallInv, Begins
  <2>3. items[Len(events) + 1] \in Nat
    BY <2>1, <2>2, ElementOfSeq
  <2>4. /\ events' \in Seq(Nat) /\ Len(events') = Len(events) + 1
        /\ \A i \in 1..Len(events) : events'[i] = events[i]
        /\ events'[Len(events) + 1] = items[Len(events) + 1]
    BY <2>1, <2>2, <2>3, AppendProperties
  <2>5. Begins(events', items')
    BY <2>1, <2>2, <2>4 DEF RigInv, Begins
  <2>6. closing = Nothing
    BY <2>1, <2>2 DEF RigInv
  <2>7. CallInv'
    BY <2>1, CallStays
  <2>8. QED
    BY <2>1, <2>5, <2>6, <2>7 DEF RigInv, Rig!Refuses, Begins
<1>5. CASE Rig!TakeEnd
  <2>1. /\ told.kind = "stream" /\ Len(events) = Len(items) /\ ending # Nothing
        /\ closing' = "end" <=> ending = "end"
        /\ UNCHANGED <<said, stage, returned, answer, items, ending>>
        /\ UNCHANGED <<attested, method, op, told, events>>
    BY <1>5 DEF Rig!TakeEnd, Rig!callVars, Rig!ToHttpError, Rig!Instance, Rig!Told, Rig!Nothing,
       Nothing
  <2>2. /\ events \in Seq(Nat) /\ items \in Seq(Nat) /\ Len(events) \in Nat
        /\ \A i \in 1..Len(events) : events[i] = items[i]
    BY DEF RigInv, CallInv, Begins
  <2>3. events = items
    BY <2>1, <2>2, SeqEqual
  <2>4. CallInv'
    BY <2>1, CallStays
  <2>5. QED
    BY <2>1, <2>3, <2>4 DEF RigInv, Rig!Refuses, Begins
<1>6. CASE Rig!EnclaveSpeaks
  <2>1. /\ ~Rig!Refuses /\ told.kind \in {"none", "stream"} /\ Speaks
        /\ UNCHANGED <<attested, method, op, told, events, closing>>
        /\ UNCHANGED <<stage, returned, answer, items, ending>>
    BY <1>6, SameCall DEF Rig!EnclaveSpeaks, Rig!rigVars, Speaks, Speak
  <2>2. CallInv'
    BY <2>1, SpeakKeeps
  <2>3. QED
    BY <2>1, <2>2 DEF RigInv, Begins, Rig!Refuses
<1>7. CASE Rig!Finished
  <2>1. /\ UNCHANGED <<said, stage, returned, answer, items, ending>>
        /\ UNCHANGED <<attested, method, op, told, events, closing>>
    BY <1>7 DEF Rig!Finished, Rig!vars, Rig!callVars, Rig!rigVars
  <2>2. CallInv'
    BY <2>1, CallStays
  <2>3. QED
    BY <2>1, <2>2 DEF RigInv, Begins, Rig!Refuses
<1>8. QED
  BY <1>1, <1>2, <1>3, <1>4, <1>5, <1>6, <1>7 DEF Rig!Next, Rig!Backend

-----------------------------------------------------------------------------
(* The two calls together: one is made, the other stays as it was. *)
RigIdle ==
    /\ told = Rig!Instance /\ events = <<>> /\ closing = Nothing
    /\ attested = TRUE /\ method = "POST" /\ op = "send"

ServerIdle ==
    /\ request \in Posts /\ ~Refused /\ handler = "done" /\ attempt = 0 /\ response = None
    /\ delivered = <<>> /\ forwarded = 0 /\ over = Nothing /\ peer = "connected"

FrontInv ==
    /\ CallInv
    /\ \/ RigIdle /\ ServerInv
       \/ ServerIdle /\ RigInv

LEMMA FrontInitInv == FrontInit => FrontInv
<1> SUFFICES ASSUME FrontInit PROVE FrontInv
  OBVIOUS
<1>1. CallInit /\ (ProxyCalls \/ RigCalls)
  BY DEF FrontInit, ProxyCalls, RigCalls, Init, Rig!Init, Rig!CallInit, CallInit, Rig!Nothing,
     Nothing
<1>2. <<>> \in Seq(Nat) /\ Len(<<>>) = 0 /\ Begins(<<>>, <<>>)
  BY EmptySeq, EmptyBegins
<1>3. CallInv
  BY <1>1, <1>2 DEF CallInit, CallInv, Nothing
<1>4. CASE ProxyCalls
  <2>1. RigIdle
    BY <1>4 DEF ProxyCalls, RigIdle
  <2>2. /\ request \in Posts /\ handler = "reading" /\ attempt = 0 /\ response = None
        /\ delivered = <<>> /\ forwarded = 0 /\ over = Nothing /\ peer = "connected"
        /\ said = <<>> /\ items = <<>> /\ returned = Nothing
    BY <1>4 DEF ProxyCalls, Init, CallInit
  <2>3. Typed
    BY <1>2, <2>2 DEF Typed
  <2>4. Delivery
    BY <2>2 DEF Delivery
  <2>5. ServerInv
    BY <2>2, <2>3, <2>4 DEF ServerInv, Unanswered, Progress, Streams, Closed, StatusVouched,
       BlameIsDue, RefusedUnsent, Answered, Nothing
  <2>6. QED
    BY <1>3, <2>1, <2>5 DEF FrontInv
<1>5. CASE RigCalls
  <2>1. \E r \in Posts : r.fits /\ ~Malformed(r) /\ r.model = "legal"
    <3> DEFINE r == [fits |-> TRUE, json |-> TRUE, object |-> TRUE, model |-> "legal",
                     stream |-> "absent"]
    <3>1. r \in Posts /\ r.fits /\ ~Malformed(r) /\ r.model = "legal"
      BY DEF Posts, Malformed
    <3>2. QED
      BY <3>1
  <2>2. request \in Posts /\ request.fits /\ ~Malformed(request) /\ request.model = "legal"
    BY <1>5, <2>1 DEF RigCalls
  <2>3. ServerIdle
    BY <1>5, <2>2 DEF RigCalls, ServerIdle, Refused
  <2>4. /\ told = Rig!Untold /\ events = <<>> /\ closing = Nothing
        /\ returned = Nothing /\ said = <<>> /\ items = <<>>
    BY <1>1, <1>5 DEF RigCalls, Rig!Init, CallInit, Rig!Nothing, Nothing
  <2>5. RigInv
    BY <1>2, <2>4 DEF RigInv, Rig!Untold, Rig!Told
  <2>6. QED
    BY <1>3, <2>3, <2>5 DEF FrontInv
<1>6. QED
  BY <1>1, <1>4, <1>5

LEMMA FrontStepInv == FrontInv /\ [FrontNext]_frontVars => FrontInv'
<1> SUFFICES ASSUME FrontInv, [FrontNext]_frontVars PROVE FrontInv'
  OBVIOUS
<1>1. ASSUME UNCHANGED frontVars PROVE FrontInv'
  <2>1. UNCHANGED callVars /\ UNCHANGED serverVars /\ UNCHANGED rigVars
    BY <1>1 DEF frontVars, vars
  <2>2. UNCHANGED <<said, stage, returned, answer, items, ending>>
    BY <2>1 DEF callVars
  <2>3. CallInv'
    BY <2>2, CallStays DEF FrontInv
  <2>4. ASSUME RigIdle, ServerInv PROVE FrontInv'
    <3>1. ServerInv'
      BY <2>1, <2>4, ServerStays DEF serverVars, ServerInv, Typed
    <3>2. QED
      BY <2>1, <2>3, <2>4, <3>1 DEF FrontInv, RigIdle, rigVars
  <2>5. ASSUME ServerIdle, RigInv PROVE FrontInv'
    <3>1. ServerIdle'
      BY <2>1, <2>5 DEF ServerIdle, serverVars, Refused, Malformed
    <3>2. RigInv'
      BY <2>1, <2>2, <2>5 DEF RigInv, rigVars, Begins, Rig!Refuses
    <3>3. QED
      BY <2>3, <3>1, <3>2 DEF FrontInv
  <2>6. QED
    BY <2>4, <2>5 DEF FrontInv
<1>2. ASSUME Next, UNCHANGED rigVars PROVE FrontInv'
  <2>1. ASSUME RigIdle, ServerInv PROVE FrontInv'
    BY <1>2, <2>1, ServerStep DEF FrontInv, RigIdle, rigVars
  <2>2. ASSUME ServerIdle, RigInv PROVE FrontInv'
    <3>1. Idle
      BY <1>2, <2>2 DEF ServerIdle, Next, Handler, RefuseTooLarge, RefuseMalformed, Accept,
         Attempt, AttestFails, CallReturns, Retry, Finish, StartStream, Forward, CloseStream,
         AbortStream, StreamStep, EnclaveSpeaks, HangUp, Dropped
    <3>2. UNCHANGED frontVars
      BY <1>2, <3>1 DEF Idle, frontVars
    <3>3. QED
      BY <1>1, <3>2
  <2>3. QED
    BY <2>1, <2>2 DEF FrontInv
<1>3. ASSUME Rig!Next, UNCHANGED serverVars PROVE FrontInv'
  <2>1. ASSUME RigIdle, ServerInv PROVE FrontInv'
    <3>1. told.kind = "instance" /\ told # Rig!Untold
      BY <2>1 DEF RigIdle, Rig!Instance, Rig!Untold, Rig!Told
    <3>2. Rig!Finished
      BY <1>3, <3>1 DEF Rig!Next, Rig!Backend, Rig!Refuse, Rig!CallReturns, Rig!Respond,
         Rig!RespondStream, Rig!RespondError, Rig!TakeItem, Rig!TakeEnd, Rig!StreamStep,
         Rig!EnclaveSpeaks
    <3>3. UNCHANGED frontVars
      BY <1>3, <3>2 DEF Rig!Finished, Rig!vars, Rig!callVars, Rig!rigVars, frontVars, vars,
         callVars, rigVars
    <3>4. QED
      BY <1>1, <3>3
  <2>2. ASSUME ServerIdle, RigInv PROVE FrontInv'
    <3>1. ServerIdle'
      BY <1>3, <2>2 DEF ServerIdle, serverVars, Refused, Malformed
    <3>2. QED
      BY <1>3, <2>2, <3>1, RigStep DEF FrontInv
  <2>3. QED
    BY <2>1, <2>2 DEF FrontInv
<1>4. QED
  BY <1>1, <1>2, <1>3 DEF FrontNext

THEOREM FrontInvariance == FrontSpec => []FrontInv
BY FrontInitInv, FrontStepInv, PTL DEF FrontSpec

\* server.rs:115-161: the handler and its counters keep their types: at most two
\* attempts, and no more forwarded than was yielded.
THEOREM FrontTypeCorrect == FrontSpec => []TypeOK
<1>1. FrontInv => TypeOK
  <2> SUFFICES ASSUME FrontInv PROVE TypeOK
    OBVIOUS
  <2>1. CASE ServerInv
    BY <2>1 DEF ServerInv, Typed, TypeOK
  <2>2. CASE ServerIdle
    <3>1. Len(items) \in Nat
      BY DEF FrontInv, CallInv, Begins
    <3>2. QED
      BY <2>2, <3>1 DEF ServerIdle, TypeOK
  <2>3. QED
    BY <2>1, <2>2 DEF FrontInv
<1>2. QED
  BY <1>1, FrontInvariance, PTL

\* server.rs:143-145: what the peer receives of a stream is the beginning of what the
\* enclave said in one attempt, and is complete as HTTP only if all of it arrived.
THEOREM StreamsAreHonest == FrontSpec => []StreamIsHonest
<1>1. FrontInv => StreamIsHonest
  <2> SUFFICES ASSUME FrontInv PROVE StreamIsHonest
    OBVIOUS
  <2>1. Len(said) \in Nat /\ Len(items) \in Nat /\ Len(items) <= Len(said)
    BY DEF FrontInv, CallInv, Begins
  <2>2. CASE ServerInv
    <3>1. /\ delivered = [i \in 1..forwarded |-> [attempt |-> attempt, write |-> said[i]]]
          /\ forwarded \in 0..Len(items)
      BY <2>2 DEF ServerInv, Delivery, Typed
    <3>2. Len(delivered) = forwarded /\ forwarded \in 0..Len(said)
      BY <2>1, <3>1
    <3>3. \E n \in 0..Len(said) :
             delivered = [i \in 1..n |-> [attempt |-> attempt, write |-> said[i]]]
      BY <3>1, <3>2
    <3>4. over = "complete" /\ response.shape = "sse"
              => ending = "end" /\ Len(delivered) = Len(items)
      BY <2>2, <3>2 DEF ServerInv, Closed
    <3>5. QED
      BY <3>3, <3>4 DEF StreamIsHonest
  <2>3. CASE ServerIdle
    <3>1. delivered = [i \in 1..0 |-> [attempt |-> attempt, write |-> said[i]]]
      BY <2>3 DEF ServerIdle
    <3>2. 0 \in 0..Len(said)
      BY <2>1
    <3>3. \E n \in 0..Len(said) :
             delivered = [i \in 1..n |-> [attempt |-> attempt, write |-> said[i]]]
      BY <3>1, <3>2
    <3>4. QED
      BY <2>3, <3>3 DEF ServerIdle, StreamIsHonest, Nothing
  <2>4. QED
    BY <2>2, <2>3 DEF FrontInv
<1>2. QED
  BY <1>1, FrontInvariance, PTL

\* server.rs:119-134, 198-276: whatever status the enclave's errors have, a 200 is its
\* completion, words are its own, whole or marked as cut, and the proxy itself blames the
\* peer for its own faults only; a refused request goes nowhere.
THEOREM StatusesAreHonest == FrontSpec => []StatusIsHonest
<1>1. FrontInv => StatusIsHonest
  <2> SUFFICES ASSUME FrontInv PROVE StatusIsHonest
    OBVIOUS
  <2>1. CASE ServerInv
    <3>1. Refused => delivered = <<>>
      <4> SUFFICES ASSUME Refused PROVE delivered = <<>>
        OBVIOUS
      <4>1. said = <<>> /\ Len(items) \in Nat /\ Len(items) <= Len(said)
        BY <2>1 DEF ServerInv, RefusedUnsent, FrontInv, CallInv, Begins
      <4>2. forwarded = 0
        BY <2>1, <4>1 DEF ServerInv, Typed
      <4>3. QED
        BY <2>1, <4>2, NothingDelivered DEF ServerInv
    <3>2. QED
      BY <2>1, <3>1 DEF ServerInv, StatusVouched, BlameIsDue, RefusedUnsent, StatusIsHonest
  <2>2. CASE ServerIdle
    BY <2>2 DEF ServerIdle, StatusIsHonest, Answered
  <2>3. QED
    BY <2>1, <2>2 DEF FrontInv
<1>2. QED
  BY <1>1, FrontInvariance, PTL

\* rig.rs:31-201: what rig takes for the provider's response is what the enclave said,
\* no truncated stream looks complete to it, and what cannot be sealed is not sent.
THEOREM RigIsNotFooled == FrontSpec => []RigBelievesEnclave
<1>1. FrontInv => RigBelievesEnclave
  <2> SUFFICES ASSUME FrontInv PROVE RigBelievesEnclave
    OBVIOUS
  <2>1. said \in Seq(Nat) /\ Len(said) \in Nat /\ CallInv
    BY DEF FrontInv, CallInv
  <2>2. CASE RigIdle
    <3>1. events \in PrefixesOf(said)
      BY <2>1, <2>2, EmptyBegins, BeginsPrefix DEF RigIdle
    <3>2. told.kind = "instance"
      BY <2>2 DEF RigIdle, Rig!Instance, Rig!Told
    <3>3. QED
      BY <2>2, <3>1, <3>2 DEF RigIdle, RigBelievesEnclave, Rig!RigBelievesEnclave,
         Rig!ProviderIsEnclave, Rig!FailsClosed, Rig!StreamErrorSeen, Rig!PrefixesOf, PrefixesOf,
         Rig!Nothing, Nothing
  <2>3. CASE RigInv
    <3>1. Begins(events, said)
      <4>1. Len(events) \in Nat /\ Len(items) \in Nat
        BY <2>1, <2>3 DEF RigInv, CallInv, Begins
      <4>2. QED
        BY <2>1, <2>3, <4>1 DEF RigInv, CallInv, Begins
    <3>2. events \in PrefixesOf(said)
      BY <2>1, <3>1, BeginsPrefix
    <3>3. told.kind \in {"response", "provider"} =>
             /\ told.words \in PrefixesOf(said)
             /\ returned = IF told.kind = "response" THEN "Ok" ELSE "Enclave"
      BY <2>1, <2>3, BeginsPrefix DEF RigInv
    <3>4. Rig!ProviderIsEnclave
      BY <3>2, <3>3 DEF Rig!ProviderIsEnclave, Rig!PrefixesOf, PrefixesOf
    <3>5. Rig!FailsClosed /\ Rig!StreamErrorSeen
      BY <2>3 DEF RigInv, Rig!FailsClosed, Rig!StreamErrorSeen, Rig!Refuses, Rig!Nothing, Nothing
    <3>6. QED
      BY <3>4, <3>5 DEF RigBelievesEnclave, Rig!RigBelievesEnclave
  <2>4. QED
    BY <2>2, <2>3 DEF FrontInv
<1>2. QED
  BY <1>1, FrontInvariance, PTL

-----------------------------------------------------------------------------
(* How responses end. *)
\* A response that breaks off has lost its peer, or its stream has failed; one that
\* ends as it should has said something.
EndsAreAccounted ==
    /\ over = "truncated" => peer = "gone" \/ ending \in {"Http", "Ehbp"}
    /\ over = "complete" => Answered

\* A stream under way is the call's own, or has ended for a reason that is known.
EndingInv ==
    /\ ending \in {Nothing, "end", "Http", "Ehbp"}
    /\ handler = "streaming" => stage = "streaming" \/ ending # Nothing
    /\ handler # "done" => over = Nothing
    /\ EndsAreAccounted

LEMMA EndingStays ==
    ASSUME EndingInv, UNCHANGED <<ending, stage, handler, over, response>>,
           peer' = peer \/ peer' = "gone"
    PROVE  EndingInv'
BY DEF EndingInv, EndsAreAccounted, Answered

\* While a handler is at work, its response has not ended.
LEMMA EndingAtWork ==
    ASSUME EndingInv, handler' # "done", over' = over, handler # "done",
           ending' \in {Nothing, "end", "Http", "Ehbp"},
           handler' = "streaming" => stage' = "streaming" \/ ending' # Nothing
    PROVE  EndingInv'
BY DEF EndingInv, EndsAreAccounted, Nothing

\* An answer that is sent whole, to a peer who may have gone.
LEMMA EndingResponds ==
    ASSUME EndingInv, FrontInv, NEW r, Respond(r), r.status # 0, UNCHANGED callVars,
           handler # "done"
    PROVE  EndingInv'
<1>1. /\ handler' = "done" /\ response' = r /\ ending' = ending /\ peer' = peer
      /\ over' = IF peer = "connected" THEN "complete" ELSE "truncated"
  BY DEF Respond, callVars
<1>2. peer \in {"connected", "gone"}
  BY DEF FrontInv, ServerInv, Typed, ServerIdle
<1>3. Answered'
  BY <1>1 DEF Answered, None
<1>4. QED
  BY <1>1, <1>2, <1>3 DEF EndingInv, EndsAreAccounted

LEMMA EndingServer == ASSUME FrontInv, EndingInv, Next PROVE EndingInv'
<1>1. CASE RefuseTooLarge \/ RefuseMalformed
  BY <1>1, EndingResponds DEF RefuseTooLarge, RefuseMalformed, Shaped
<1>2. CASE AttestFails \/ Finish
  <2>1. \A o, s : Answer(o, s).status # 0
    <3>1. \A s, b : Relay(s, b).status # 0
      BY DEF Relay, Usable
    <3>2. QED
      BY <3>1 DEF Answer, Shaped
  <2>2. QED
    BY <1>2, <2>1, EndingResponds DEF AttestFails, Finish
<1>3. CASE Accept \/ Attempt \/ Retry \/ StartStream
  BY <1>3, EndingAtWork DEF Accept, Attempt, Retry, StartStream, callVars, EndingInv
<1>4. CASE CallReturns
  <2>1. handler' = "calling" /\ over' = over /\ ending' = ending
    BY <1>4, ReturnsKeep DEF CallReturns, serverVars, FrontInv
  <2>2. QED
    BY <1>4, <2>1, EndingAtWork DEF CallReturns, EndingInv
<1>5. CASE StreamStep
  <2>1. handler = "streaming" /\ handler' = "streaming" /\ over' = over
    BY <1>5 DEF StreamStep, serverVars
  <2>2. /\ ending' \in {Nothing, "end", "Http", "Ehbp"}
        /\ stage' = "streaming" \/ ending' # Nothing
    BY <1>5, YieldKeeps, EndsKeep DEF StreamStep, FrontInv, EndingInv, Nothing
  <2>3. QED
    BY <2>1, <2>2, EndingAtWork
<1>6. CASE Forward \/ EnclaveSpeaks \/ HangUp \/ Idle
  BY <1>6, EndingStays DEF Forward, EnclaveSpeaks, Speak, HangUp, Idle, vars, callVars, serverVars
<1>7. CASE CloseStream
  <2>1. ServerInv /\ handler = "streaming"
    BY <1>7 DEF CloseStream, FrontInv, ServerIdle
  <2>2. response' = [status |-> 200, shape |-> "sse", words |-> <<>>]
    BY <1>7, <2>1 DEF ServerInv, Streams, CloseStream, StreamOver
  <2>3. Answered'
    BY <2>2 DEF Answered, None
  <2>4. QED
    BY <1>7, <2>3 DEF CloseStream, StreamOver, callVars, EndingInv, EndsAreAccounted
<1>8. CASE AbortStream \/ Dropped
  BY <1>8 DEF AbortStream, Dropped, StreamOver, callVars, EndingInv, EndsAreAccounted, CallInv,
     FrontInv
<1>9. QED
  BY <1>1, <1>2, <1>3, <1>4, <1>5, <1>6, <1>7, <1>8 DEF Next, Handler

\* rig's call has no peer, and no response of the proxy's.
LEMMA EndingRig ==
    ASSUME FrontInv, EndingInv, Rig!Next, UNCHANGED serverVars PROVE EndingInv'
<1>1. CASE RigIdle /\ ServerInv
  <2>1. told.kind = "instance" /\ told # Rig!Untold
    BY <1>1 DEF RigIdle, Rig!Instance, Rig!Untold, Rig!Told
  <2>2. Rig!Finished
    BY <2>1 DEF Rig!Next, Rig!Backend, Rig!Refuse, Rig!CallReturns, Rig!Respond,
       Rig!RespondStream, Rig!RespondError, Rig!TakeItem, Rig!TakeEnd, Rig!StreamStep,
       Rig!EnclaveSpeaks
  <2>3. QED
    BY <2>2, EndingStays DEF Rig!Finished, Rig!vars, Rig!callVars, serverVars
<1>2. CASE ServerIdle
  <2>1. handler' = "done" /\ over' = Nothing
    BY <1>2 DEF ServerIdle, serverVars
  <2>2. ending' \in {Nothing, "end", "Http", "Ehbp"}
    <3>1. CASE Rig!StreamStep
      BY <3>1, SameCall, YieldKeeps, EndsKeep DEF Rig!StreamStep, FrontInv, EndingInv
    <3>2. CASE Rig!CallReturns
      BY <3>2, SameCall, ReturnsKeep DEF Rig!CallReturns, FrontInv, EndingInv
    <3>3. CASE ~Rig!StreamStep /\ ~Rig!CallReturns
      <4>1. ending' = ending
        BY <3>3 DEF Rig!Next, Rig!Backend, Rig!Refuse, Rig!Respond, Rig!RespondStream,
           Rig!RespondError, Rig!TakeItem, Rig!TakeEnd, Rig!EnclaveSpeaks, Rig!Speak,
           Rig!Finished, Rig!vars, Rig!callVars
      <4>2. QED
        BY <4>1 DEF EndingInv
    <3>4. QED
      BY <3>1, <3>2, <3>3
  <2>3. QED
    BY <2>1, <2>2 DEF EndingInv, EndsAreAccounted, Nothing
<1>3. QED
  BY <1>1, <1>2 DEF FrontInv

\* server.rs:115-161: no response breaks off without a cause, and none ends that was
\* not given: the part of EveryRequestEnds that needs no fairness.
THEOREM NoSilentTruncation == FrontSpec => []EndsAreAccounted
<1>1. FrontInit => EndingInv
  BY DEF FrontInit, ProxyCalls, RigCalls, Init, CallInit, Rig!Init, Rig!CallInit, Rig!Nothing,
     EndingInv, EndsAreAccounted, Nothing
<1>2. FrontInv /\ EndingInv /\ [FrontNext]_frontVars => EndingInv'
  <2> SUFFICES ASSUME FrontInv, EndingInv, [FrontNext]_frontVars PROVE EndingInv'
    OBVIOUS
  <2>1. CASE UNCHANGED frontVars
    BY <2>1, EndingStays DEF frontVars, vars, callVars, serverVars
  <2>2. QED
    BY <2>1, EndingServer, EndingRig DEF FrontNext
<1>3. EndingInv => EndsAreAccounted
  BY DEF EndingInv
<1>4. QED
  BY <1>1, <1>2, <1>3, FrontInvariance, PTL DEF FrontSpec

=============================================================================
