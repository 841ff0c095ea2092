SPECIFICATION Spec
CONSTANTS
    Tables = {1}
    TableName <- WideName
    Fields <- WideFields
    Asked <- WideAsked
    Key <- Key0
    Spelling <- Spelling0
    SixDigits <- SixDigits0
    SixDecimals <- SixDecimals0
    EnumIndex <- EnumIndex0
    EnumNumber <- EnumNumber0
    MaxRegistrations = 1
INVARIANT LookupExact
CHECK_DEADLOCK FALSE
