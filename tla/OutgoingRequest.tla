-------------------------- MODULE OutgoingRequest --------------------------
(* What leaves the process for one chat completion: the JSON API's path         *)
(* (take_model, send_sealed and routing_headers in client.rs), the rig           *)
(* transport's (completion_model, prepare_request and send_sealed in rig.rs),    *)
(* and the seal_and_send they share.  A URL and a model id are sequences of the  *)
(* pieces the code tells apart; a header map gives each name its values in order. *)
EXTENDS Naturals, Sequences, SequencesExt

CONSTANTS
    Keys,      \* the enclave keys a client may be bound to
    MaxId,     \* bound: pieces in a model id
    MaxTail    \* bound: pieces a caller's URL has after the configured origin

VARIABLES
    client,    \* the PpqClient: its base URL, its enclave key, and whether
               \* its API key is a header value
    path,      \* which path the call takes: "start", "json", "rig" or "caller"
    args,      \* what it was called with
    wire,      \* the request on the wire, Silent if there is none
    error      \* the error it was refused with

vars == <<client, path, args, wire, error>>

Silent  == [url |-> <<>>]
NoError == "none"

(* ------------------------------ model ids --------------------------------- *)
Ids == UNION {[1..n -> {"private/", "m", "control"}] : n \in 0..MaxId}

\* enclave_model_id: strip_prefix takes the prefix once.
EnclaveId(id) == IF id # <<>> /\ Head(id) = "private/" THEN Tail(id) ELSE id

\* HeaderValue::from_str refuses control characters.
HeaderValue(id) == "control" \notin {id[i] : i \in DOMAIN id}

(* ------------------------------ URLs -------------------------------------- *)
Origin == "https://host"
Chat   == <<"/", "private/v1", "/", "chat/completions">>
Bases  == {<<Origin>>, <<Origin, "/">>, <<Origin, "/", "/">>, <<Origin, "/", "p">>}

\* A caller of the rig backend may ask for anything: ".b" continues the host
\* name, "@b" makes what precedes it a user name.
CallerUrls == {<<o>> \o t : o \in {Origin, "https://other"},
                            t \in UNION {[1..n -> {"/", "p", ".b", "@b"}] : n \in 0..MaxTail}}

\* http::Uri's Display: a path is never empty.
UriString(url) == IF \E i \in DOMAIN url : url[i] = "/" THEN url ELSE Append(url, "/")

TrimEnd(url) ==
    LET n == CHOOSE n \in 0..Len(url) :
                 /\ \A i \in n + 1..Len(url) : url[i] = "/"
                 /\ n > 0 => url[n] # "/"
    IN SubSeq(url, 1, n)

\* Bug: any URL that begins with the base URL.
InsideByPrefix(url, base) == IsPrefix(TrimEnd(base), url)
\* seal_and_send: the base URL, and then a path separator.
Inside(url, base) == IsPrefix(Append(TrimEnd(base), "/"), url)

\* What of a URL names the server.
Authority(url) ==
    LET n == CHOOSE n \in 0..Len(url) :
                 /\ \A i \in 1..n : url[i] # "/"
                 /\ n < Len(url) => url[n + 1] = "/"
    IN SubSeq(url, 1, n)

(* ------------------------------ headers ----------------------------------- *)
Owned   == {"authorization", "content-type", "ehbp-encapsulated-key"}
Routing == {"x-private-model", "x-query-source"}
Names   == Owned \cup Routing \cup {"accept"}

NoHeaders == [h \in Names |-> <<>>]

\* HeaderMap::insert.
Insert(headers, name, value) == [headers EXCEPT ![name] = <<value>>]

RoutingHeaders(model) ==
    Insert(Insert(NoHeaders, "x-private-model", model), "x-query-source", "api")

Ours == [h \in Owned |-> CASE h = "authorization" -> "bearer"
                           [] h = "content-type"  -> "json"
                           [] OTHER               -> "enc"]

\* Bug: RequestBuilder::header appends.
OwnedAppended(headers) ==
    [h \in Names |-> IF h \in Owned THEN Append(headers[h], Ours[h]) ELSE headers[h]]
\* seal_and_send inserts its own headers over the caller's.
OwnedInserted(headers) ==
    [h \in Names |-> IF h \in Owned THEN <<Ours[h]>> ELSE headers[h]]

(* ------------------------------ sending ----------------------------------- *)
Refused(e) == wire' = Silent /\ error' = e

\* seal_and_send up to the POST.  An API key that is no header value, or a body
\* that cannot be sealed, is refused.
SealAndSend(url, model, headers) ==
    IF ~Inside(url, client.base) THEN Refused("Ehbp")
    ELSE \/ Refused("Ehbp")
         \/ /\ ~client.keyLegal /\ Refused("Attestation")
         \/ /\ client.keyLegal
            /\ wire' = [url |-> url, headers |-> OwnedInserted(headers),
                       sealedTo |-> client.key, sealedModel |-> model]
            /\ error' = NoError

\* Bug: the id for the enclave is taken for the header as well.
RewriteBoth(id) == [header |-> EnclaveId(id), body |-> EnclaveId(id)]
\* take_model, or completion_model and prepare_request: the header keeps the
\* user-facing id, the sealed body carries the enclave's.
Rewrite(id) == [header |-> id, body |-> EnclaveId(id)]

Json(id) ==
    /\ path' = "json" /\ args' = id
    /\ IF ~HeaderValue(id) THEN Refused("InvalidModelId")
       ELSE SealAndSend(client.base \o Chat, Rewrite(id).body, RoutingHeaders(Rewrite(id).header))

\* rig adds a content type, and its SSE source an Accept header, to the defaults
\* completion_model gave it; send_sealed copies them one by one.
RigHeaders(id, sse) ==
    LET h == Insert(RoutingHeaders(id), "content-type", "theirs")
    IN IF sse THEN Insert(h, "accept", "sse") ELSE h

Rig(id) ==
    /\ path' = "rig" /\ args' = id
    /\ IF ~HeaderValue(id) THEN Refused("InvalidModelId")
       ELSE \E sse \in BOOLEAN :
              SealAndSend(client.base \o <<"/", "private/v1">> \o <<"/", "chat/completions">>,
                          Rewrite(id).body, RigHeaders(Rewrite(id).header, sse))

\* Anybody who holds the backend may send any request through it, with headers
\* of any name, twice.
Caller(method, url, name, n) ==
    /\ path' = "caller" /\ args' = <<method, url, name, n>>
    /\ IF method # "POST" THEN Refused("Ehbp")
       ELSE SealAndSend(UriString(url), <<>>, [NoHeaders EXCEPT ![name] = [i \in 1..n |-> "theirs"]])

Clients == [base : Bases, key : Keys, keyLegal : BOOLEAN]

Init ==
    /\ client \in Clients
    /\ path = "start" /\ args = <<>> /\ wire = Silent /\ error = NoError

Next ==
    \/ /\ path = "start" /\ UNCHANGED client
       /\ \/ \E id \in Ids : Json(id) \/ Rig(id)
          \/ \E method \in {"POST", "GET"}, url \in CallerUrls, name \in Names, n \in 0..2 :
                Caller(method, url, name, n)
    \/ path # "start" /\ UNCHANGED vars

Spec == Init /\ [][Next]_vars

(* ------------------------------ properties -------------------------------- *)
\* client.rs:223-226: the bearer token and the sealed body go to the server the
\* client was configured with, whatever URL a caller asks for.
StaysHome == wire # Silent => Authority(wire.url) = Authority(client.base)

\* client.rs:184-192, 213-216, 246-248, rig.rs:271-274: each header seal_and_send owns
\* is on the wire once, with its own value, whatever the caller had set, and how often;
\* and the two transports address the same endpoint and model: the id in the clear is
\* the user's, the sealed one is what the enclave knows it by, and nothing else routes.
SameRequest ==
    /\ wire # Silent => \A h \in Owned : wire.headers[h] = <<Ours[h]>>
    /\ path \in {"json", "rig"} /\ wire # Silent =>
          /\ wire.url = client.base \o Chat
          /\ wire.headers["x-private-model"] = <<args>>
          /\ wire.sealedModel # args => args = <<"private/">> \o wire.sealedModel
          /\ args # <<>> /\ Head(args) = "private/" => wire.sealedModel # args
          /\ wire.headers["x-query-source"] = <<"api">>

=============================================================================
