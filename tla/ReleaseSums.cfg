SPECIFICATION Spec
CONSTANTS
    NumScenarios = 1
    NumVersions = 1
    MaxMishaps = 2
    Data <- MCData
    Facts <- MCFacts
    Truthful <- MCTruthful
    Row <- MCRow
    Writers = {w1, w2}
    None = None
    Torn = Torn
    d1 = d1
    d2 = d2
    m1 = m1
    m2 = m2
INVARIANTS
    PassMeansSumsMatch
SYMMETRY WriterSymmetry
