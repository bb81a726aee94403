SPECIFICATION Spec
CONSTANTS
    e1 = e1  e2 = e2
    a1 = a1
    x1 = x1  x2 = x2
    lo = lo  hi = hi
    Malformed = Malformed
    Rules = {1, 2}
    Evaluators = {e1, e2}
    Admins = {a1}
    AlertIds = {x1, x2}
    Values = {lo, hi}
    Conditions <- AboveLimit
    Debounces = {1}
    MaxTime = 2
SYMMETRY Symmetry
INVARIANTS TypeOK OneOpenUnlessOverlap TellsTheTruth
PROPERTY FiresAfterDebounce
CONSTRAINT Bound
