SPECIFICATION ThreadsSpec
CONSTANTS
    Fds = {1, 2, 3, 4}
    MaxPosted = 2
    MaxTimeouts = 0
    MaxBreaks = 0
PROPERTIES
    ThreadsSync
CHECK_DEADLOCK FALSE
