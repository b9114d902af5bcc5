CONSTANTS
    Base = 2
    FutureTolerance = 1
    NoLimit = NoLimit
    Absent = Absent
    MaxBundle = 3
    MaxChunk = 2
    ReportSize = 4
    Now = 3
    MaxLabels = 3
    MaxTime = 5
    Bundles <- MCBundles
    Policies <- MCPolicies
SPECIFICATION Spec
INVARIANTS TypeOK BundleBounded ReliesOnVerified OnlyVouchedAccepted RulesKeepTheirWord
