------------------------------- MODULE Server -------------------------------
(* How the HTTP layer (ppq-tee-proxy/src/server.rs) answers an OpenAI client  *)
(* for the tasks of Attested: what a result becomes on the wire.              *)
EXTENDS Attested

EnclaveStatus == 0    \* the status the enclave answered with, relayed as it is

\* From<ppq_tee::Error> for ApiError, and 200 for a completion.
Status(o) ==
    CASE o = "Ok"             -> 200
      [] o = "Enclave"        -> EnclaveStatus
      [] o = "Attestation"    -> 503
      [] o = "InvalidModelId" -> 400
      [] o \in {"Http", "Ehbp", "Json", "UnauthenticatedUpstream"} -> 502

\* README, lines 203-204: "a failed re-attestation is a `503`".
FailedReattestationIs503 ==
    [][\A r \in Requests :
          pc[r] \in {"attest", "check"} /\ pc'[r] = "done" /\ result'[r] # "Cancelled"
              => Status(result'[r]) = 503]_vars

=============================================================================
