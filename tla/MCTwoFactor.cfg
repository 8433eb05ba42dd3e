SPECIFICATION Spec
CONSTANTS
    Request = {r1, r2}
    Slot = {s1}
    Ops = {"setup", "enable", "login", "disable", "regenerate"}
    Factors = {"totp", "backup", "refused"}
    MaxIssued = 2
    MaxClock = 2
SYMMETRY Symmetry
INVARIANTS
    EnabledHasSecret
    SpentCodeRefused
    SomeoneProceeds
PROPERTIES
    OldCodesGone
