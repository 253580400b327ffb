SPECIFICATION Spec
CONSTANTS
    Fields <- AllFields
    Type <- AllType
    Values <- AllValues
    Schemas <- AllSchemas
    MaxNesting = 1
    Capacity = 2
    TagBits = 8
    MaxFields = 3
    MaxMessages = 2
CHECK_DEADLOCK FALSE
INVARIANT TypeOK
INVARIANT OpenTagsMatchPath
INVARIANT PanicsOnlyTooDeep
INVARIANT RoundTrip
INVARIANT ErrorsHaveCause
