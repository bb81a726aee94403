SPECIFICATION Spec
CONSTANTS
    s1 = s1  s2 = s2
    c1 = c1  c2 = c2
    j1 = j1  j2 = j2
    cfgA = cfgA  cfgB = cfgB
    NoJob = NoJob
    Keep = Keep
    Sources = {s1, s2}
    PullSources = {s1}
    Configs = {cfgA, cfgB}
    Callers = {c1}
    Jobs = {j1, j2}
    MaxInvalid = 1
    ReconcileMaySkip = TRUE
SYMMETRY Symmetry
CONSTRAINT OneSource
INVARIANT InSyncUnlessSuspect
PROPERTIES DeletedStaysDeleted CancelledLoopIsSilent ScheduleSpec
