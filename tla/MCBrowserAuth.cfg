SPECIFICATION Spec
CONSTANTS
    Session = {s1, s2}
    Jti = {j1, j2, j3}
    None = None
    Call = {c1, c2}
    MayLose = TRUE
SYMMETRY Symmetry
INVARIANTS
    CookieIsTip
    SignedOutStays
