SPECIFICATION Spec
CONSTANTS
    StatWords <- OneWord
    DigitalWords <- MCDigitalWords
    TimeCodes <- MCTimeCodes
INVARIANT DataErrorKept
