SPECIFICATION Spec
CONSTANTS
    Fields <- HighFields
    Type <- HighType
    Values <- HighValues
    Schemas <- HighSchemas
    MaxNesting = 1
    Capacity = 2
    TagBits = 8
    MaxFields = 2
    MaxMessages = 1
CHECK_DEADLOCK FALSE
INVARIANT RoundTrip
