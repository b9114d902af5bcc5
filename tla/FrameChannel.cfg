CONSTANTS
    SeqMax = 2
    MaxFrameLen = 1
    MaxWrites = 3
    HeaderLen = 2
    MaxWire = 3
SPECIFICATION ChannelSpec
INVARIANTS ChannelTypeOK NonceNeverReused OnlyEnclaveOutput NoFalseAlarm BufferBounded
PROPERTY PoisonedForever
