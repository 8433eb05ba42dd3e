SPECIFICATION Spec
CONSTANTS
    Request = {r1, r2}
    Address = {a1, a2}
    Ops = {"login"}
    Rows = {"none", "active", "inactive"}
    MaxAttempts = 3
    MaxDeaths = 1
SYMMETRY Symmetry
INVARIANTS
    TypeOK
    BoundedGuesses
PROPERTIES
    StrandedByDeath
