------------------------ MODULE SealedCallRefinement ------------------------
(* SealedCall implements ChatCall: whatever the transport does to the frames, *)
(* a caller sees a call that fails, or the enclave's own words in order.      *)
EXTENDS SealedCall

Call == INSTANCE ChatCall WITH
    Writes <- 1..MaxWrites,
    said   <- [i \in DOMAIN sealed |-> sealed[i].payload],
    stage  <- IF stage = "body" /\ HandsOutStream THEN "streaming"
              ELSE IF stage = "done" THEN "done" ELSE "calling",
    answer <- IF returned \in {"Ok", "Json", "Enclave"} THEN body ELSE <<>>

\* client.rs:122-141, 335-339, backend.rs:19-22: whatever the transport does, a call
\* returns an error that repeats nothing, the enclave's own words, or a stream of
\* them in their order from the first.  What fails once the stream has been returned
\* is its last item, and takes nothing back.  Every call returns, and every stream
\* of finite length ends, whatever frames it meets.
ChatCallSpec == Call!CallSpec

=============================================================================
