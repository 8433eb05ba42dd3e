SPECIFICATION ServiceSpec
CONSTANTS
    Request = {r1, r2}
    Subject = {alice, bob}
    Known = {alice}
    Admins = {alice}
    Payloads <- TwoProfiles
    Ops = {"me", "patch", "read", "assign"}
    Instance = {i1, i2}
    MaxDeaths = 1
INVARIANTS
    RolesWhole
    UserComplete
    AdminsAccounted
    UpdateKept
PROPERTIES
    RequestsEnd
    AllComeUp
