CONSTANTS
    SeqMax = 3
    MaxFrameLen = 1
    MaxWrites = 2
    HeaderLen = 2
    MaxWire = 3
SPECIFICATION Spec
INVARIANT TruncationIsSeen
