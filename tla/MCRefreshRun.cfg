CONSTANTS
    s1 = s1
    s2 = s2
    None = None
    Symbol = {s1, s2}
    MaxItems = 1
    MaxTaskRetry = 1
    MaxTries = 3
SPECIFICATION Spec
SYMMETRY Symmetry
INVARIANTS TypeOK SucceededMeansStored NothingForgotten RetryBounded
