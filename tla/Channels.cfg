SPECIFICATION Spec
CONSTANTS
    u1 = u1  u2 = u2
    c1 = c1  c2 = c2
    a1 = a1
    r1 = r1  r2 = r2  r3 = r3
    token = token  None = None
    Callers = {u1, u2}
    Chans = {c1, c2}
    Rules = {a1}
    Refs = {r1, r2, r3}
    Token = token
SYMMETRY Symmetry
INVARIANTS TypeOK ChannelHasToken NoDanglingChannel
CHECK_DEADLOCK FALSE
