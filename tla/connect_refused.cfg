SPECIFICATION Spec
CONSTANTS
    MaxFds = 2
    Timeouts <- MCTimeouts
    HALF = 16
    MaxCount = 2
    Pow <- MCPow
    Rtt = 10
INVARIANT ConnectedToServer
CHECK_DEADLOCK FALSE
