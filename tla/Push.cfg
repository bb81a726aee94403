SPECIFICATION Spec
CONSTANTS
    h1 = h1  h2 = h2  h3 = h3
    k1 = k1  k2 = k2
    r1 = r1  r2 = r2
    Handlers = {h1, h2, h3}
    Keys = {k1, k2}
    Records = {r1, r2}
    BatchOf <- Overlapping
SYMMETRY Symmetry
INVARIANTS TypeOK OneHolder AcceptedIsStored
PROPERTIES DuplicateIsStored LogSpec
