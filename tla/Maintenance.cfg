SPECIFICATION MSpec
CONSTANTS
    m1 = m1  m2 = m2  m3 = m3
    Samples = {m1, m2, m3}
    HourLen = 2
    Retention = 2
    RollupRetention = 4
    Ahead = 1
    MaxTime = 7
    MaxRuns = 2
SYMMETRY Symmetry
INVARIANTS MTypeOK RollupHoldsPruned NothingCountedTwice OutcomeIsTrue
CHECK_DEADLOCK FALSE
