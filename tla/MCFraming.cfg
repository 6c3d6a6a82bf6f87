SPECIFICATION FramingSpec
CONSTANTS
    N = 6
    Headers = {1, 4}
    Payloads <- MCPayloads
    MaxMessages = 4
    MaxTimeouts = 1
INVARIANTS
    FramingTypeOK
    DeliversWhole
    DropsOnlyReadAhead
PROPERTIES
    AllDelivered
CHECK_DEADLOCK FALSE
