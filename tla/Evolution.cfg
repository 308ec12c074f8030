SPECIFICATION Spec
CONSTANTS
    Scalars <- MCScalars
    NoId = NoId
    Authors <- AllAuthors
CHECK_DEADLOCK FALSE
INVARIANTS
    TypeOK
    OneEditIsItsDeclaration
    DeclaredFactsHold
    MutationsRebuildTheNewSchema
    EmptyDiffMeansSameSchema
    DiffReadsBackwards
    CommonPathsFollowTheDiff
    RetainedPathsAreTheSameFields
