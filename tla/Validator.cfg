SPECIFICATION Spec
CONSTANTS
    Scalars = {"int64", "double", "string", "binary", "bool", "timestamp[us]", "timestamp[us, tz=UTC]"}
    NoId = NoId
    Exact = 4
    Conversions <- Casts
    Starts <- AllStarts
    Fresh <- Written
    Spare = "y"
    MaxEdits = 2
    Gone = Gone
    Undeclared = Undeclared
CHECK_DEADLOCK FALSE
INVARIANTS
    TypeOK
    AcceptedManifestsAreTrue
    TrueManifestsAreAccepted
    PositiveFactsLoseNothing
    RelationsExclude
    OneCastIsItsRelation
    AcceptedFilesAreTheDeclaredOnes
    DeclaredFilesNeverRaise
