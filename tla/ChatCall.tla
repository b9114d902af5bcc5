------------------------------ MODULE ChatCall ------------------------------
(* What the library promises its callers of one sealed chat completion, as   *)
(* lib.rs and the trait in ppq-tee-proxy/src/backend.rs state it: the call    *)
(* fails, or returns what the enclave said, or returns a stream that yields it *)
(* and then ends.  SealedCallRefinement shows that the sealed channel keeps    *)
(* the promise; Completion and RigTransport are built on it.                  *)
EXTENDS Naturals, Sequences

CONSTANT Writes    \* what the enclave's application may write

VARIABLES
    streaming,   \* is it chat_completion_stream?
    said,        \* the writes the enclave's application has sealed
    stage,       \* "calling", "streaming" or "done"
    returned,    \* what the call returned: Nothing so far, "Ok" or an error kind
    answer,      \* the enclave's words the call returned with
    items,       \* those the stream has yielded
    ending       \* how the stream ended: Nothing so far, "end" or an error kind

callVars == <<streaming, said, stage, returned, answer, items, ending>>

Nothing == "none"

\* Errors that repeat nothing of what the enclave said.
ChannelErrors ==
    {"Http", "Ehbp", "Attestation", "InvalidModelId", "UnauthenticatedUpstream"}

PrefixesOf(s) == {SubSeq(s, 1, n) : n \in 0..Len(s)}

CallInit ==
    /\ streaming \in BOOLEAN
    /\ said = <<>> /\ stage = "calling" /\ returned = Nothing
    /\ answer = <<>> /\ items = <<>> /\ ending = Nothing

Speak ==
    /\ stage # "done"
    /\ \E w \in Writes : said' = Append(said, w)
    /\ UNCHANGED <<streaming, stage, returned, answer, items, ending>>

Fail(e) ==
    /\ stage = "calling" /\ e \in ChannelErrors
    /\ stage' = "done" /\ returned' = e
    /\ UNCHANGED <<streaming, said, answer, items, ending>>

\* A completion, one that is not JSON after all, or the enclave's own error.
Reply(o) ==
    /\ stage = "calling"
    /\ o = "Enclave" \/ (o \in {"Ok", "Json"} /\ ~streaming)
    /\ stage' = "done" /\ returned' = o
    /\ answer' \in PrefixesOf(said)
    /\ UNCHANGED <<streaming, said, items, ending>>

Open ==
    /\ stage = "calling" /\ streaming
    /\ stage' = "streaming" /\ returned' = "Ok"
    /\ UNCHANGED <<streaming, said, answer, items, ending>>

Yield ==
    /\ stage = "streaming"
    /\ items' \in PrefixesOf(said) /\ Len(items') > Len(items)
    /\ UNCHANGED <<streaming, said, stage, returned, answer, ending>>

\* "end", or an error that is the stream's last item.
End(o) ==
    /\ stage = "streaming" /\ o \in {"end", "Http", "Ehbp"}
    /\ stage' = "done" /\ ending' = o
    /\ UNCHANGED <<streaming, said, returned, answer, items>>

Returns ==
    \/ \E e \in ChannelErrors : Fail(e)
    \/ \E o \in {"Ok", "Json", "Enclave"} : Reply(o)
    \/ Open

Ends == \E o \in {"end", "Http", "Ehbp"} : End(o)

CallNext == Speak \/ Returns \/ Yield \/ Ends

\* Every call returns, and every stream of finite length ends.
CallSpec == CallInit /\ [][CallNext]_callVars /\ WF_callVars(Returns \/ Ends)

=============================================================================
