---------------------------- MODULE RigTransport ----------------------------
(* The rig backend (EhbpHttp in ppq-tee/src/rig.rs) over ChatCall: which        *)
(* requests it takes at all, and what rig is told of their end.  rig believes    *)
(* what is reported as the provider's response; everything else is a transport   *)
(* diagnostic to it.  Errors keep the whole answer here: the cap is Completion's. *)
EXTENDS ChatCall

CONSTANT MaxSaid    \* bound: how much the enclave says

VARIABLES
    attested,    \* EhbpHttp::inner is Some; `default()` makes a backend without
    method,      \* the request's method
    op,          \* "send", "send_streaming" or "send_multipart"
    told,        \* what rig was told: Untold so far, or [kind, words]
    events,      \* what the stream rig was given has yielded to it
    closing      \* the error that ended that stream, as rig sees it

rigVars == <<attested, method, op, told, events, closing>>
vars    == <<callVars, rigVars>>

Told(k, w) == [kind |-> k, words |-> w]
Untold == Told("none", <<>>)

\* An error built on this side; nothing of it is a provider's response.
Instance == Told("instance", <<>>)

\* Bug: whatever came with a status is reported with it.
ToHttpErrorByStatus(e) ==
    IF e \in {"Enclave", "UnauthenticatedUpstream"} THEN Told("provider", answer) ELSE Instance
\* to_http_error: only the enclave's own error is a provider's response.
ToHttpError(e) == IF e = "Enclave" THEN Told("provider", answer) ELSE Instance

Tell(t) == told' = t /\ UNCHANGED <<attested, method, op, events, closing>>

\* Bug: a backend that is attested to nothing, or a form, is sent all the same.
RefusesOnlyGet == method # "POST"
\* `attested`, send_multipart, and the method check of send_sealed.
Refuses == ~attested \/ op = "send_multipart" \/ method # "POST"

Refuse ==
    /\ told = Untold /\ Refuses
    /\ Tell(Instance) /\ UNCHANGED callVars

\* seal_and_send, then open_body or open_stream; the plaintext is not parsed here.
CallReturns ==
    /\ told = Untold /\ ~Refuses
    /\ Returns /\ returned' # "Json"
    /\ UNCHANGED rigVars

\* send: the plaintext under the response's status.
Respond ==
    /\ told = Untold /\ stage = "done" /\ returned = "Ok"
    /\ Tell(Told("response", answer)) /\ UNCHANGED callVars

\* Bug: the stream is read to its end before it is handed over.
RespondStreamLate ==
    /\ told = Untold /\ stage = "done" /\ ending # Nothing
    /\ Tell(Told("stream", <<>>)) /\ UNCHANGED callVars

RespondStream ==
    /\ told = Untold /\ stage = "streaming"
    /\ Tell(Told("stream", <<>>)) /\ UNCHANGED callVars

RespondError ==
    /\ told = Untold /\ stage = "done" /\ returned # "Ok"
    /\ Tell(ToHttpError(returned)) /\ UNCHANGED callVars

\* rig polls the stream it was given, item by item.
StreamStep ==
    /\ told.kind = "stream" /\ stage = "streaming" /\ (Yield \/ Ends)
    /\ UNCHANGED rigVars

TakeItem ==
    /\ told.kind = "stream" /\ Len(events) < Len(items)
    /\ events' = Append(events, items[Len(events) + 1])
    /\ UNCHANGED <<callVars, attested, method, op, told, closing>>

\* Bug: the errors of a stream are filtered out.
TakeEndLossy ==
    /\ told.kind = "stream" /\ closing = Nothing /\ Len(events) = Len(items)
    /\ ending # Nothing
    /\ closing' = "end"
    /\ UNCHANGED <<callVars, attested, method, op, told, events>>

\* The stream ends; its error, if it has one, is mapped like any other.
TakeEnd ==
    /\ told.kind = "stream" /\ closing = Nothing /\ Len(events) = Len(items)
    /\ ending # Nothing
    /\ closing' = IF ending = "end" THEN "end" ELSE ToHttpError(ending).kind
    /\ UNCHANGED <<callVars, attested, method, op, told, events>>

EnclaveSpeaks ==
    /\ ~Refuses /\ told.kind \in {"none", "stream"} /\ Len(said) < MaxSaid
    /\ Speak /\ said' = Append(said, Len(said) + 1)
    /\ UNCHANGED rigVars

Heard    == told # Untold /\ (told.kind = "stream" => closing # Nothing)
Finished == Heard /\ UNCHANGED vars

Init ==
    /\ CallInit
    /\ attested \in BOOLEAN /\ method \in {"POST", "GET"}
    /\ op \in {"send", "send_streaming", "send_multipart"}
    /\ streaming = (op = "send_streaming")
    /\ told = Untold /\ events = <<>> /\ closing = Nothing

Backend ==
    \/ Refuse \/ CallReturns \/ Respond \/ RespondStream \/ RespondError
    \/ TakeItem \/ TakeEnd

Next == Backend \/ StreamStep \/ EnclaveSpeaks \/ Finished

\* A call ends by the library's timeouts, and rig polls what it was given.
Fairness == WF_vars(Backend) /\ WF_vars(told.kind = "stream" /\ Ends /\ UNCHANGED rigVars)

Spec == Init /\ [][Next]_vars /\ Fairness

(* ------------------------------ properties -------------------------------- *)
\* rig.rs:94-105: what rig takes for the provider's response, whole or streamed,
\* is what the enclave said, and nothing of it is said by anybody else.
ProviderIsEnclave ==
    /\ events \in PrefixesOf(said)
    /\ told # Untold /\ told.kind \in {"response", "provider"} =>
           /\ told.words \in PrefixesOf(said)
           /\ returned = IF told.kind = "response" THEN "Ok" ELSE "Enclave"

\* rig.rs:31-40, 151-164: a backend that is attested to no enclave, and a request
\* that cannot be sealed, make nobody answer: rig is told so, and nothing was sent.
FailsClosed ==
    ~attested \/ op = "send_multipart" \/ method # "POST" =>
        /\ returned = Nothing /\ said = <<>>
        /\ told # Untold => told = Instance

\* rig.rs:192-199: a stream that failed ends in an error for rig as well, after the
\* last of its items, so that no truncated answer is taken for a whole one.
StreamErrorSeen ==
    closing # Nothing =>
        /\ closing = "end" <=> ending = "end"
        /\ events = items

\* rig.rs:31-201: the three together: rig believes the enclave, all of it and nobody
\* else, and is told when nobody was asked.
RigBelievesEnclave == ProviderIsEnclave /\ FailsClosed /\ StreamErrorSeen

\* rig.rs:121-201: rig always hears of the end of its request, and of its stream.
RigHears == <>Heard

=============================================================================
