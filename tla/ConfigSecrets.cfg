SPECIFICATION Spec
CONSTANTS
    u1 = u1  u2 = u2
    s1 = s1
    f1 = f1  f2 = f2
    r1 = r1  r2 = r2  r3 = r3
    t1 = t1  t2 = t2
    None = None
    Callers = {u1, u2}
    Sources = {s1}
    Fields = {f1, f2}
    Refs = {r1, r2, r3}
    Texts = {t1, t2}
SYMMETRY Symmetry
INVARIANTS TypeOK AdapterGetsWhatWasTyped
CHECK_DEADLOCK FALSE
CONSTRAINT Bound
