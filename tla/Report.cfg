SPECIFICATION Spec
CHECK_DEADLOCK FALSE
CONSTANTS
    Registry <- FilesRegistry
    Modes <- FilesModes
    NumScenarios = 2
    NumVersions = 2
    Schemas = {x, y, z}
    RowCounts = {1, 2}
    Answers <- FilesAnswers
    Tables = {1}
    MaxReleases = 2
    MaxRuns = 3
    MaxEdits = 1
    None = None
    duckdb = duckdb
    deltalake = deltalake
    dataprof = dataprof
    x = x
    y = y
    z = z
INVARIANTS
    TypeOK
    SpellingDoesNotMatter
    OrderTableIsByPosition
    LongCutsAreRefused
