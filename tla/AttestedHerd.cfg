\* Requests that find the client aged out together.
CONSTANTS
    Requests = {r1, r2}
    Catalogue = {}
    Errors = {"Http"}
    ReattestAfter = 2
    MinReattestInterval = 1
    MaxTime = 3
    MaxKey = 1
SPECIFICATION Spec
PROPERTY NoThunderingHerd
