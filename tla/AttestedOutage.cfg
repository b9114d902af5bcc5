\* PPQ is down: sealed requests and attestations fail alike.
CONSTANTS
    Requests = {r1, r2}
    Catalogue = {}
    Errors = {"Http"}
    ReattestAfter = 3
    MinReattestInterval = 1
    MaxTime = 2
    MaxKey = 1
SPECIFICATION MCSpec
PROPERTY OutageRateLimited
