SPECIFICATION Spec
CONSTANTS
    Tables = {1, 2, 3}
    TableName <- NarrowName
    Fields <- NarrowFields
    Asked <- NarrowAsked
    Key <- Key0
    Spelling <- Spelling0
    SixDigits <- SixDigits0
    SixDecimals <- SixDecimals0
    EnumIndex <- EnumIndex0
    EnumNumber <- EnumNumber0
    MaxRegistrations = 3
INVARIANTS
    LookupExact
    CachesExact
    NamesRoundTrip
    DefinitionsReadBack
CHECK_DEADLOCK FALSE
