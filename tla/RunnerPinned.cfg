SPECIFICATION Spec
CONSTANTS
    Registry <- MCRegistry
    Names <- MCNames
    MaxRequest = 1
    Modes <- MCModes
    NumScenarios = 2
    NumVersions = 2
    Contents <- MCContents
    Refuses <- MCRefuses
    None = None
    Torn = Torn
    MaxMishaps = 1
    duckdb = duckdb
    dataprof = dataprof
    typo = typo
    kept = kept
    changed = changed
INVARIANTS
    RunsArePinned
