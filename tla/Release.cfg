SPECIFICATION Spec
CONSTANTS
    NumScenarios = 2
    NumVersions = 2
    MaxMishaps = 2
    Data <- MCData
    Facts <- MCFacts
    Truthful <- MCTruthful
    Row <- MCRow
    Writers = {w1, w2}
    None = None
    Torn = Torn
    d1 = d1
    d2 = d2
    m1 = m1
    m2 = m2
INVARIANTS
    TypeOK
    PassMeansReproducible
    PipelinePasses
    ManifestVouchesForItsFiles

PROPERTIES
    ScriptsKeepThePromise
SYMMETRY WriterSymmetry
