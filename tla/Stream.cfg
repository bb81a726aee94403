SPECIFICATION Spec
CONSTANTS
    s1 = s1  s2 = s2
    p1 = p1  p2 = p2
    Sources = {s1, s2}
    Publishers = {p1, p2}
    MaxSockets = 2
    MaxChanges = 2
INVARIANTS TypeOK OneLiveSocket
PROPERTIES SentToSubscribers PublishEnds Converges
CHECK_DEADLOCK FALSE
