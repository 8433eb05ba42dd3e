SPECIFICATION MarkerSpec
CONSTANTS
    Session = {s1}
    Token = {t1, t2}
    Request = {q1, q2}
    Hz = 2
    AccessTTL = 2
    MinTTL = 1
    Horizon = 9
    None = None
SYMMETRY Symmetry
INVARIANTS
    MarkerCovers
PROPERTIES
    CutIsRefused
CHECK_DEADLOCK FALSE
