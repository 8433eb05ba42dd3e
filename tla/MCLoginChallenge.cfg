SPECIFICATION ChallengeSpec
CONSTANTS
    Request = {r1, r2, r3}
    Challenge = {c1}
    Address = {a1, a2}
    Agent = {u1}
    MaxAttempts = 2
    MaxDeaths = 1
    Nothing = Nothing
SYMMETRY Symmetry
INVARIANTS
    BoundedCodes
PROPERTIES
    OverIsOver
