-------------------------- MODULE MCAttestedOutage --------------------------
(* Attested with a history variable, for the one question that needs to       *)
(* remember when an attestation was last attempted.                           *)
EXTENDS Attested

VARIABLE attempted    \* when the last attestation started

MCInit == Init /\ attempted = 0
MCNext == /\ Next
          /\ attempted' = IF \E r \in Requests : StartsAttesting(r)
                          THEN now ELSE attempted
MCSpec == MCInit /\ [][MCNext]_<<vars, attempted>>

\* attested.rs:24-26, "so a persistent unrelated failure (a revoked API key,
\* an outage) cannot turn every request into a full attestation": after an
\* attestation that failed, the next attempt waits for min_reattest_interval.
OutageRateLimited ==
    [][\A r \in Requests :
          StartsAttesting(r) /\ slot = None =>
              now >= attempted + MinReattestInterval]_<<vars, attempted>>

=============================================================================
