SPECIFICATION Spec
CONSTANTS
    StatWords <- FlagWords
    DigitalWords <- MCDigitalWords
    TimeCodes <- MCTimeCodes
INVARIANT FlagsDescribeFrame
