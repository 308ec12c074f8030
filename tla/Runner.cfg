SPECIFICATION Spec
CONSTANTS
    Registry <- MCRegistry
    Names <- MCNames
    MaxRequest = 2
    Modes <- MCModes
    NumScenarios = 2
    NumVersions = 2
    Contents <- MCContents
    Refuses <- MCRefuses
    None = None
    Torn = Torn
    MaxMishaps = 2
    duckdb = duckdb
    dataprof = dataprof
    typo = typo
    kept = kept
    changed = changed
INVARIANTS
    TypeOK
    CalmRunsArePinned
    CalmResultsAreComplete
    ExitZeroMeansRecorded
PROPERTIES
    RunsEnd
    RunnerIsARecorder
