CONSTANTS
    Writes = {1, 2, 3}
    MaxSaid = 3
    MaxErrorBody = 2
    EnclaveStatuses = {400, 413, 429, 502, 503, 1000}
SPECIFICATION FrontSpec
INVARIANTS TypeOK StreamIsHonest StatusIsHonest RigBelievesEnclave
PROPERTY CallersHear
