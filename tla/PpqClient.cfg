CONSTANTS
    Radix = 3
    KeyLen = 2
    Keys <- MCKeys
    Raws <- MCRaws
    MaxId = 3
    MaxTail = 3
    MaxEntries = 2
    Calls = {c1, c2}
    NonceLen = 3
    SeqLen = 2
    LastSeq = 3
    BeBytes <- MCBeBytes
    MaxResponses = 2
    MaxFrames = 4
SPECIFICATION ClientSpec
CHECK_DEADLOCK FALSE
INVARIANTS TypeOK StaysHome SameRequest OneBadEntryHidesNoOther OneOwnResponse KeyNonceUnique
PROPERTY BuiltIffPublished
