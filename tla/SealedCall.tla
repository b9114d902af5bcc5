----------------------------- MODULE SealedCall -----------------------------
(* One chat completion through the sealed channel (ppq-tee/src/client.rs):    *)
(* chat_completion or chat_completion_stream, seal_and_send, then open_body or *)
(* open_stream over the response body of FrameChannel.                        *)
EXTENDS FrameChannel

VARIABLES
    stage,       \* where the call is suspended
    streaming,   \* is it chat_completion_stream?
    success,     \* is the response's status 2xx?
    returned,    \* what the call returned: Nothing so far, "Ok" or an error kind
    body,        \* open_body's `out`, and open_stream's on a non-2xx
    items,       \* the writes yielded by the stream the call returned
    ending       \* how that stream ended: Nothing so far, "end" or an error kind

callVars == <<stage, streaming, success, returned, body, items, ending>>
allVars  == <<channelVars, callVars>>

Nothing == "none"

\* Bug: the stream is handed out whatever the status.
HandsOutAlways == streaming
\* open_stream hands a stream out only for a 2xx.
HandsOutStream == streaming /\ success


CallReturns(o) ==
    /\ stage' = "done" /\ returned' = o
    /\ UNCHANGED <<streaming, success, body, items, ending>>

\* Bug: a late failure is reported as the call's own.
EndReturns(o) == CallReturns(o)

\* The rest of the response goes to open_body, or to an open_stream that drains
\* it, until the call returns; or to the stream that it has already returned.
EndBody(o) ==
    IF HandsOutStream
    THEN /\ stage' = "done" /\ ending' = o
         /\ UNCHANGED <<streaming, success, returned, body, items>>
    ELSE CallReturns(o)

\* take_model, routing_headers, the base URL, seal and the bearer header can
\* each refuse before anything is sent.
Refuse ==
    /\ stage = "prepare"
    /\ \E e \in {"Ehbp", "InvalidModelId", "Attestation"} : CallReturns(e)
    /\ UNCHANGED channelVars

Send ==
    /\ stage = "prepare"
    /\ stage' = "sent"
    /\ UNCHANGED <<channelVars, streaming, success, returned, body, items, ending>>

\* The response head never arrives: connect or read timeout, reset.
HeadLost ==
    /\ stage = "sent"
    /\ CallReturns("Http")
    /\ UNCHANGED channelVars

\* A head without Ehbp-Response-Nonce is not enclave output.
HeadNoNonce ==
    /\ stage = "sent"
    /\ \E ok \in BOOLEAN : CallReturns(IF ok THEN "Ehbp" ELSE "UnauthenticatedUpstream")
    /\ UNCHANGED channelVars

\* A nonce that is not 32 bytes of hex.
HeadBadNonce ==
    /\ stage = "sent"
    /\ CallReturns("Ehbp")
    /\ UNCHANGED channelVars

\* A head with a nonce; a 2xx to a streaming call returns the stream now.
HeadSealed ==
    /\ stage = "sent"
    /\ stage' = "body"
    /\ UNCHANGED <<channelVars, streaming, body, items, ending>>
    /\ success' \in BOOLEAN
    /\ returned' = IF HandsOutStream' THEN "Ok" ELSE Nothing

Reading == stage = "body" /\ phase = "idle"

Chunk ==
    /\ Reading
    /\ \E n \in 1..unread : PushBegin(n)
    /\ UNCHANGED <<sealerVars, emitted, callVars>>

DecodeChunk ==
    /\ stage = "body"
    /\ Decode
    /\ UNCHANGED callVars

\* push returned plaintext: accumulated, or yielded at once.
ChunkOk ==
    /\ stage = "body" /\ phase = "ok"
    /\ phase' = "idle"
    /\ emitted' = emitted \o out
    /\ IF HandsOutStream THEN items' = items \o out /\ UNCHANGED body
                         ELSE body' = body \o out /\ UNCHANGED items
    /\ UNCHANGED <<sealerVars, wireVars, bufLen, pos, drained, cur, openSeq, failed, out,
                   stage, streaming, success, returned, ending>>

\* push returned an error: `?`, or the stream's last item.
ChunkErr ==
    /\ stage = "body" /\ phase = "err"
    /\ EndBody("Ehbp")
    /\ UNCHANGED channelVars

\* The transport fails: a stalled read times out, a reset, a broken chunk.
BodyLost ==
    /\ Reading
    /\ EndBody("Http")
    /\ UNCHANGED channelVars

\* Bug: the end of the body is not checked against a frame boundary.
EofUnchecked ==
    /\ Reading
    /\ \/ success /\ ~streaming /\ (CallReturns("Ok") \/ CallReturns("Json"))
       \/ success /\ streaming /\ EndBody("end")
       \/ ~success /\ EndBody("Enclave")
    /\ UNCHANGED channelVars

\* The transport ends the body, with or without the bytes still unread.  A
\* decoder with nothing buffered lets the stream end, the body be parsed as
\* JSON, or a non-2xx body be returned as the enclave's error.
Eof ==
    /\ Reading
    /\ \/ ~FinishOk /\ EndBody("Ehbp")
       \/ FinishOk /\ success /\ ~streaming /\ (CallReturns("Ok") \/ CallReturns("Json"))
       \/ FinishOk /\ success /\ streaming /\ EndBody("end")
       \/ FinishOk /\ ~success /\ EndBody("Enclave")
    /\ UNCHANGED channelVars

\* The enclave and the transport, once the enclave has the request.
SealMore  == stage = "body" /\ Seal /\ UNCHANGED callVars
CarryMore == stage = "body" /\ Carry /\ UNCHANGED callVars

Finished == stage = "done" /\ UNCHANGED allVars

Init ==
    /\ ChannelInit
    /\ stage = "prepare" /\ streaming \in BOOLEAN /\ success = FALSE
    /\ returned = Nothing /\ body = <<>> /\ items = <<>> /\ ending = Nothing

Client ==
    \/ Refuse \/ Send
    \/ HeadLost \/ HeadNoNonce \/ HeadBadNonce \/ HeadSealed
    \/ Chunk \/ DecodeChunk \/ ChunkOk \/ ChunkErr \/ BodyLost \/ Eof

Next == Client \/ SealMore \/ CarryMore \/ Finished

\* The connect and read timeouts end every wait for the transport, and a task
\* that can run is run.
Spec == Init /\ [][Next]_allVars /\ WF_allVars(Client)

(* ------------------------------ properties -------------------------------- *)
TypeOK ==
    /\ ChannelTypeOK
    /\ stage \in {"prepare", "sent", "body", "done"}
    /\ streaming \in BOOLEAN /\ success \in BOOLEAN
    /\ returned \in {Nothing, "Ok", "Http", "Ehbp", "Json", "Attestation",
                     "InvalidModelId", "UnauthenticatedUpstream", "Enclave"}
    /\ ending \in {Nothing, "end", "Http", "Ehbp"}

\* client.rs:329-333: a non-2xx never produces a stream or a completion, even if
\* every frame of it authenticates; the bytes go to one place only.
ErrorIsNoCompletion ==
    /\ returned = "Ok" => success
    /\ items # <<>> => success /\ streaming /\ body = <<>>
    /\ returned = "Enclave" => ~success

\* client.rs:335-338: a body that stops inside a frame never ends well.  A call
\* that succeeds, or a stream that ends, has decrypted every byte it read.
NoPartialFrame ==
    returned \in {"Json", "Enclave"} \/ ending = "end" \/ (returned = "Ok" /\ ~streaming)
        => bufLen = 0 /\ ~failed

\* client.rs:338-339: "so a truncated stream can never be mistaken for a
\* complete one".
TruncationIsSeen ==
    ending = "end" => Len(items) = Len(sealed)

=============================================================================
