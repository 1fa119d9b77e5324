SPECIFICATION Spec
CONSTANTS
    s1 = s1
    s2 = s2
    c1 = c1
    Server <- MCServer
    Conn <- MCConn
    NoFile = none
    Fds = 3
    MaxBacklog = 1
INVARIANTS
    TypeOK
    DescriptorsOwned
PROPERTY WaitTellsPending
SYMMETRY Symmetric
CHECK_DEADLOCK FALSE
