SPECIFICATION FairSpec
CONSTANTS
    u1 = u1
    User = {u1}
    Session = {s1}
    Jti = {j1, j2, j3}
    Request = {r1, r2}
    Owner <- OneOwner
    Ops = {"refresh", "reset", "expire"}
    None = None
PROPERTIES
    EveryRequestEnds
CHECK_DEADLOCK FALSE
