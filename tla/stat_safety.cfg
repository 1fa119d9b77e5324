SPECIFICATION Spec
CONSTANTS
    StatWords <- MCStatWords
    DigitalWords <- MCDigitalWords
    TimeCodes <- MCTimeCodes
INVARIANTS
    TypeOK
    FieldsReadable
    LockIsLastVerdict
