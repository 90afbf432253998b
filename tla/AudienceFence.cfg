SPECIFICATION Spec
CONSTANTS
    MaxOrdinal = 2
    Targets = {1, 2}
    InitialTarget = 1
    Callers = {c1}
    Items = {i1, i2}
    MaxEpoch = 2
    MaxSequence = 1
    MaxPopulation = 4
    None = None
INVARIANTS TypeOK OneTokenOneResult
PROPERTIES EffectsAreFenced IdentityNeverReturns ResultsAreAtomic
SYMMETRY Symmetry
CHECK_DEADLOCK FALSE
