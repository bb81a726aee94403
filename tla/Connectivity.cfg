SPECIFICATION Spec
CONSTANTS
    pull = pull  push = push
    a1 = a1  a2 = a2
    Pullers = {pull}
    Pushers = {push}
    AlertIds = {a1, a2}
    Threshold = 2
    Window = 2
    MaxTime = 3
SYMMETRY Symmetry
INVARIANTS TypeOK OneSystemAlert AlertFollowsReports
PROPERTIES UnreachableIsDebounced
