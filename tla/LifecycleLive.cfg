SPECIFICATION FairSpec
CONSTANTS
    s1 = s1  s2 = s2
    c1 = c1  c2 = c2
    j1 = j1  j2 = j2
    cfgA = cfgA  cfgB = cfgB
    NoJob = NoJob
    Keep = Keep
    Sources = {s1}
    PullSources = {s1}
    Configs = {cfgA}
    Callers = {c1}
    Jobs = {j1, j2}
    MaxInvalid = 2
    ReconcileMaySkip = FALSE
PROPERTY CancelledLoopEnds
