SPECIFICATION FairSpec
CONSTANTS
    Request = {r1, r2, r3}
    Account = {alice, bob}
    Registered = {alice}
    Code = {c1, c2}
    Kinds = {"register", "login", "forgot", "reset"}
INVARIANTS
    CodeOnce
    ReplacedRefused
    ResetEndsSessions
    OneRegistration
PROPERTIES
    RetiredForACause
    RequestsEnd
