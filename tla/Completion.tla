----------------------------- MODULE Completion -----------------------------
(* POST /v1/chat/completions end to end: chat_completions in                 *)
(* ppq-tee-proxy/src/server.rs over with_reattest, whose attempts are calls   *)
(* of ChatCall, and the HTTP connection to the OpenAI client (the peer), who   *)
(* may hang up at any time.                                                   *)
EXTENDS ChatCall

CONSTANTS
    MaxErrorBody,    \* MAX_ERROR_BODY_BYTES, in writes
    MaxSaid,         \* bound: how much the enclave says in one attempt
    EnclaveStatuses  \* the u16 an Error::Enclave may carry: any but a success

ASSUME CompletionAssumption ==
    /\ MaxErrorBody \in Nat
    /\ \A s \in EnclaveStatuses : s \in Nat /\ s < 2^16 /\ ~(200 <= s /\ s < 300)

VARIABLES
    request,      \* what the peer posted
    handler,      \* where chat_completions and the body it returned are
    attempt,      \* how many times with_reattest has run its operation
    response,     \* the head, and a body that is not streamed; None before
    delivered,    \* the stream's bytes the peer has received
    forwarded,    \* how many items of the stream hyper has written out
    over,         \* how the response ended: Nothing so far, "complete", "truncated"
    peer          \* "connected" or "gone"

serverVars == <<request, handler, attempt, response, delivered, forwarded, over, peer>>
vars       == <<callVars, serverVars>>

None == [status |-> 0]

\* What validation can tell apart of a body; `model` may be no string at all, or
\* one that is no header value.
Posts == [fits : BOOLEAN, json : BOOLEAN, object : BOOLEAN,
          model : {"none", "illegal", "legal"},
          stream : {"absent", "null", "true", "false", "other"}]

Malformed(r) == ~r.json \/ ~r.object \/ r.model = "none" \/ r.stream = "other"

OwnStatuses == {400, 413, 502, 503}

\* StatusCode::from_u16 takes three digits.
Usable(s) == s \in 100..999

Mark == 0
\* Bug: a long body is cut and nothing says so.
CapBodySilent(b) == IF Len(b) <= MaxErrorBody THEN b ELSE SubSeq(b, 1, MaxErrorBody)
\* cap_body: the cut is noted in the body.
CapBody(b) ==
    IF Len(b) <= MaxErrorBody THEN b ELSE Append(SubSeq(b, 1, MaxErrorBody), Mark)

\* The enclave's errors are JSON documents: only a whole one parses.
Parses(b) == b = said /\ b # <<>>

Shaped(s) == [status |-> s, shape |-> "error", words |-> <<>>]

\* The enclave's error of status s: a body that is not JSON is wrapped, and so is any
\* body, in the message of a 502, if s is no HTTP status.
Relay(s, b) ==
    [status |-> IF Usable(s) THEN s ELSE 502,
     shape  |-> IF Usable(s) /\ Parses(b) THEN "json" ELSE "error",
     words  |-> b]

Unauthenticated == {"Http", "Ehbp", "UnauthenticatedUpstream", "Attestation"}

\* Bug: the front end's own status and body are passed on like the enclave's.
AnswerRelaysAll(o, s) ==
    CASE o = "Ok"             -> [status |-> 200, shape |-> "json", words |-> answer]
      [] o \in {"Enclave", "UnauthenticatedUpstream"} -> Relay(s, CapBody(answer))
      [] o = "Attestation"    -> Shaped(503)
      [] o = "InvalidModelId" -> Shaped(400)
      [] OTHER                -> Shaped(502)

\* Bug: a body that is not JSON is the peer's fault, whoever sent it.
AnswerBlames(o, s) ==
    CASE o = "Ok"             -> [status |-> 200, shape |-> "json", words |-> answer]
      [] o = "Enclave"        -> Relay(s, CapBody(answer))
      [] o = "Attestation"    -> Shaped(503)
      [] o \in {"InvalidModelId", "Json"} -> Shaped(400)
      [] OTHER                -> Shaped(502)

\* What a finished call becomes on the wire; s is the status of an enclave's error.
Answer(o, s) ==
    CASE o = "Ok"             -> [status |-> 200, shape |-> "json", words |-> answer]
      [] o = "Enclave"        -> Relay(s, CapBody(answer))
      [] o = "Attestation"    -> Shaped(503)
      [] o = "InvalidModelId" -> Shaped(400)
      [] OTHER                -> Shaped(502)

\* The response is sent whole, if there is anybody to send it to.
Respond(r) ==
    /\ handler' = "done" /\ response' = r
    /\ over' = IF peer = "connected" THEN "complete" ELSE "truncated"
    /\ UNCHANGED <<request, attempt, delivered, forwarded, peer>>

(* ------------------------------ the handler ------------------------------- *)
\* axum's Bytes extractor under DefaultBodyLimit: the rejection is axum's own.
RefuseTooLarge ==
    /\ handler = "reading" /\ ~request.fits
    /\ Respond([status |-> 413, shape |-> "text", words |-> <<>>])
    /\ UNCHANGED callVars

RefuseMalformed ==
    /\ handler = "reading" /\ request.fits /\ Malformed(request)
    /\ Respond(Shaped(400))
    /\ UNCHANGED callVars

Accept ==
    /\ handler = "reading" /\ request.fits /\ ~Malformed(request)
    /\ handler' = "attesting"
    /\ streaming' = (request.stream = "true")
    /\ UNCHANGED <<said, stage, returned, answer, items, ending,
                   request, attempt, response, delivered, forwarded, over, peer>>

\* current or replace has a client for the next attempt, or its error is the answer.
Attempt ==
    /\ handler = "attesting"
    /\ handler' = "calling" /\ attempt' = attempt + 1
    /\ said' = <<>> /\ stage' = "calling" /\ returned' = Nothing
    /\ answer' = <<>> /\ items' = <<>> /\ ending' = Nothing
    /\ UNCHANGED <<streaming, request, response, delivered, over, peer>>
    /\ forwarded' = 0

AttestFails ==
    /\ handler = "attesting"
    /\ \E e \in {"Http", "Ehbp", "Json", "Attestation"} : Respond(Answer(e, 0))
    /\ UNCHANGED callVars

\* The call returns; a model id that is no header value is refused before
\* anything is sealed, and only then.
CallReturns ==
    /\ handler = "calling" /\ Returns
    /\ returned' = "InvalidModelId" <=> request.model = "illegal"
    /\ UNCHANGED serverVars

\* Bug: whatever fails is retried, as often as it fails.
RetryAgain ==
    /\ handler = "calling" /\ stage = "done" /\ attempt < 3
    /\ returned \in Unauthenticated
    /\ handler' = "attesting"
    /\ UNCHANGED <<callVars, request, attempt, response, delivered, forwarded, over, peer>>

\* Bug: an error inside the stream is retried like one before it.
RetryAnyFailure ==
    /\ handler \in {"calling", "streaming"} /\ stage = "done" /\ attempt < 2
    /\ returned \in Unauthenticated \/ ending \in Unauthenticated
    /\ handler' = "attesting"
    /\ UNCHANGED <<callVars, request, attempt, response, delivered, forwarded, over, peer>>

\* The first attempt failed unauthenticated, on a client old enough to be blamed.
Retry ==
    /\ handler = "calling" /\ stage = "done" /\ attempt < 2
    /\ returned \in Unauthenticated
    /\ handler' = "attesting"
    /\ UNCHANGED <<callVars, request, attempt, response, delivered, forwarded, over, peer>>

\* No retry is due: none is left, the client is too young, or the error is final.
Finish ==
    /\ handler = "calling" /\ stage = "done"
    /\ \E s \in EnclaveStatuses : Respond(Answer(returned, s))
    /\ UNCHANGED callVars

(* ------------------------------ the stream -------------------------------- *)
StartStream ==
    /\ handler = "calling" /\ stage = "streaming"
    /\ handler' = "streaming"
    /\ response' = [status |-> 200, shape |-> "sse", words |-> <<>>]
    /\ UNCHANGED <<callVars, request, attempt, delivered, forwarded, over, peer>>

StreamStep ==
    /\ handler = "streaming" /\ (Yield \/ Ends)
    /\ UNCHANGED serverVars

Forward ==
    /\ handler = "streaming" /\ peer = "connected" /\ forwarded < Len(items)
    /\ forwarded' = forwarded + 1
    /\ delivered' = Append(delivered, [attempt |-> attempt, write |-> items[forwarded']])
    /\ UNCHANGED <<callVars, request, handler, attempt, response, over, peer>>

StreamOver(how) ==
    /\ handler' = "done" /\ over' = how
    /\ UNCHANGED <<callVars, request, attempt, response, delivered, forwarded, peer>>

\* Bug: a failed stream is closed like one that has ended.
CloseAnyStream ==
    /\ handler = "streaming" /\ stage = "done" /\ forwarded = Len(items)
    /\ StreamOver("complete")

CloseStream ==
    /\ handler = "streaming" /\ stage = "done" /\ ending = "end"
    /\ forwarded = Len(items)
    /\ StreamOver("complete")

\* Bug: nobody tells hyper of the failure.
AbortNever == FALSE /\ StreamOver("truncated")

\* The last item is an error: hyper drops the connection, written out or not.
AbortStream ==
    /\ handler = "streaming" /\ stage = "done" /\ ending # "end"
    /\ StreamOver("truncated")

(* ------------------------------ surroundings ------------------------------ *)
\* Only a request that was sealed makes the enclave speak.
EnclaveSpeaks ==
    /\ handler \in {"calling", "streaming"} /\ request.model = "legal"
    /\ Len(said) < MaxSaid /\ Speak /\ said' = Append(said, Len(said) + 1)
    /\ UNCHANGED serverVars

HangUp ==
    /\ peer = "connected" /\ handler # "done"
    /\ peer' = "gone"
    /\ UNCHANGED <<callVars, request, handler, attempt, response, delivered, forwarded, over>>

\* hyper drops the handler, or the stream, of a peer that is gone.
Dropped ==
    /\ peer = "gone" /\ handler # "done"
    /\ StreamOver("truncated")

Init ==
    /\ CallInit /\ ~streaming
    /\ request \in Posts
    /\ handler = "reading" /\ attempt = 0 /\ response = None
    /\ delivered = <<>> /\ forwarded = 0 /\ over = Nothing /\ peer = "connected"

Handler ==
    \/ RefuseTooLarge \/ RefuseMalformed \/ Accept
    \/ Attempt \/ AttestFails \/ CallReturns \/ Retry \/ Finish
    \/ StartStream \/ Forward \/ CloseStream \/ AbortStream

Idle == handler = "done" /\ UNCHANGED vars

Next == Handler \/ StreamStep \/ EnclaveSpeaks \/ HangUp \/ Dropped \/ Idle

\* Every attestation and every call ends by the timeouts of the library; the
\* runtime polls what is ready; a peer who stays reads, and hyper notices when one
\* is gone.
Fairness ==
    /\ WF_vars(Handler)
    /\ WF_vars(handler = "streaming" /\ Ends /\ UNCHANGED serverVars)
    /\ WF_vars(Dropped)

Spec == Init /\ [][Next]_vars /\ Fairness

(* ------------------------------ properties -------------------------------- *)
Answered == response # None

TypeOK ==
    /\ request \in Posts
    /\ handler \in {"reading", "attesting", "calling", "streaming", "done"}
    /\ attempt \in 0..2 /\ forwarded \in 0..Len(items)
    /\ over \in {Nothing, "complete", "truncated"} /\ peer \in {"connected", "gone"}

\* server.rs:143-145, the design document, line 84: what the peer receives of a
\* stream is the beginning of what the enclave said in one attempt: a retry never
\* adds to a stream that was begun.  Only if the stream ended without an error, and
\* was delivered to its last item, is the response complete as HTTP.
StreamIsHonest ==
    /\ \E n \in 0..Len(said) :
          delivered = [i \in 1..n |-> [attempt |-> attempt, write |-> said[i]]]
    /\ over = "complete" /\ response.shape = "sse"
          => ending = "end" /\ Len(delivered) = Len(items)

Refused == ~request.fits \/ Malformed(request) \/ request.model = "illegal"

\* All of what the enclave said, or a beginning of it that admits to being one.
WholeOrMarked(r) ==
    \/ r.words = answer
    \/ /\ r.shape = "error"
       /\ \E p \in PrefixesOf(answer) : r.words = Append(p, Mark)

\* server.rs:119-134, 198-276, README.md:200-204.  An Error::Enclave may have any status,
\* the proxy's own included, and nothing authenticates which.  All the same: a 200 is the
\* enclave's completion, of the last attempt ("Nothing unauthenticated is ever presented
\* as a completion"); an error with words has them from the enclave, all of them or
\* marked as cut, and then not taken for a document (client.rs:27-28); only an
\* Error::Enclave has a status that the proxy has not, and else the peer is blamed only
\* for what it posted; a request that is refused never reaches the enclave.
StatusIsHonest ==
    /\ Answered =>
           /\ response.status = 200 => returned = "Ok" /\ response.words \in PrefixesOf(said)
           /\ response.status \notin OwnStatuses \cup {200} => returned = "Enclave"
           /\ response.words # <<>> => returned \in {"Ok", "Enclave"}
           /\ returned = "Enclave" => WholeOrMarked(response)
           /\ response.status \in {400, 413} => Refused \/ returned = "Enclave"
    /\ Refused => said = <<>> /\ delivered = <<>>

\* server.rs:115-161: every request is answered to its end, or its peer has gone
\* and nothing is kept running for it.
EveryRequestEnds ==
    <>(/\ handler = "done"
       /\ over = "truncated" => peer = "gone" \/ ending \in {"Http", "Ehbp"})

=============================================================================
