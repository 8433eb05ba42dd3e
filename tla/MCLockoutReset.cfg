SPECIFICATION Spec
CONSTANTS
    Request = {r1, r2}
    Address = {a1}
    Ops = {"login", "reset"}
    Rows = {"active"}
    MaxAttempts = 2
    MaxDeaths = 0
SYMMETRY Symmetry
INVARIANTS
    BoundedGuesses
