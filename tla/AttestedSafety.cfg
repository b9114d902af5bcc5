\* Three requests race through one aged-out, rejected or failed refresh.
CONSTANTS
    Requests = {r1, r2, r3}
    Catalogue = {}
    Errors = {"Http", "Enclave"}
    ReattestAfter = 2
    MinReattestInterval = 1
    MaxTime = 3
    MaxKey = 2
SPECIFICATION Spec
SYMMETRY Symmetry
INVARIANTS TypeOK OneAttestation RetiredNeverCached RetryDiscipline
PROPERTIES FailureAttestationsSpaced OldOnlyForRetry
