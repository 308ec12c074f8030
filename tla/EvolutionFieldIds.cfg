SPECIFICATION Spec
CONSTANTS
    Scalars <- MCScalars
    NoId = NoId
    Authors <- ListAuthors
CHECK_DEADLOCK FALSE
INVARIANTS
    CommonPathsFollowFieldIds
