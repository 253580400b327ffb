SPECIFICATION Spec
CONSTANTS
    A = A
    B = B
    C = C
    D = D
    E = E
    F = F
    Void = Void
    Scalar = Scalar
    Group = Group
    Home = Home
    Import = Import
    Nobody = Nobody
    Service = Service
    None = None
    File = {Home, Import}
    Message <- AllMessages
    Enum <- AllEnums
    Schemas <- AllSchemas
    ForeignReplies <- AllForeign
CHECK_DEADLOCK FALSE
INVARIANT TypeOK
INVARIANT WalkIsClosure
INVARIANT DescriptionSurvives
INVARIANT ListAndCallAgree
