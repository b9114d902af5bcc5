\* A refresh whose bundle cannot be fetched.
CONSTANTS
    Requests = {r1, r2}
    Catalogue = {}
    Errors = {"Http"}
    ReattestAfter = 2
    MinReattestInterval = 1
    MaxTime = 3
    MaxKey = 1
SPECIFICATION Spec
PROPERTY FailedReattestationIs503
