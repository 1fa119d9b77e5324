SPECIFICATION TwoPmusSpec
CONSTANTS
    Pmus <- TwoKinds
    MaxPmu = 2
INVARIANT ShownAsLabelled
CHECK_DEADLOCK FALSE
