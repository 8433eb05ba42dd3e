SPECIFICATION Spec
CONSTANTS
    u1 = u1
    User = {u1}
    Session = {s1}
    Jti = {j1, j2, j3, j4}
    Request = {r1, r2, r3}
    Owner <- OneOwner
    Ops = {"refresh", "logout", "logout_family"}
    None = None
SYMMETRY Symmetry
INVARIANTS
    TypeOK
    SingleLive
    OneSuccessor
    AtMostOneLate
    RevokedIsDenied
    LoggedOutIsDenied
PROPERTIES
    DeadFamilyStaysDead
    ImplementsTokenFamilies
CHECK_DEADLOCK FALSE
