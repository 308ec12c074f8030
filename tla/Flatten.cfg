SPECIFICATION Spec
CONSTANTS
    Exact = 4
    Columns <- AllColumns
    Leaves <- Numbers
    MaxItems = 2
    NewMember = "c"
CHECK_DEADLOCK FALSE
INVARIANTS
    TypeOK
    ReadsWhatWasWritten
    FlattenLosesNothing
    NewMembersChangeNothing
