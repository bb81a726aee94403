SPECIFICATION Spec
CONSTANTS
    w1 = w1  w2 = w2  w3 = w3
    ref = ref  token = token  password = password
    Writers = {w1, w2, w3}
    Refs = {ref}
    Names = {token, password}
    Admin = password
    MaxWrites = 5
    None = None  Empty = Empty  Torn = Torn
SYMMETRY Symmetry
INVARIANTS TypeOK AcknowledgedIsDurable AdminPasswordStays
CHECK_DEADLOCK FALSE
