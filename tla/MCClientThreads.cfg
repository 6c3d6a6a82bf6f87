SPECIFICATION ThreadsSpec
CONSTANTS
    Fds = {1, 2, 3, 4}
    MaxPosted = 2
    MaxTimeouts = 1
    MaxBreaks = 1
INVARIANTS
    ScansAfterPass
    OwnConnections
PROPERTIES
    ReceiverKeepsSyncing
    SignalArrives
    SenderKeepsSyncing
CHECK_DEADLOCK FALSE
