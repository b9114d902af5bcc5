\* Two requests, one of them list_models, every kind of error, fair scheduling.
CONSTANTS
    Requests = {r1, r2}
    Catalogue = {r2}
    Errors = {"Http", "Json", "Attestation", "Ehbp", "UnauthenticatedUpstream", "Enclave", "InvalidModelId"}
    ReattestAfter = 2
    MinReattestInterval = 1
    MaxTime = 3
    MaxKey = 2
SPECIFICATION FairSpec
PROPERTIES AttemptsSpec Served
