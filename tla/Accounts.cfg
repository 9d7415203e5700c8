\* Three accounts with two names, two login sessions, two requests at a time.
SPECIFICATION Spec
CONSTANTS
    u1 = u1
    u2 = u2
    u3 = u3
    admin = admin
    bob = bob
    pw1 = pw1
    pw2 = pw2
    t1 = t1
    t2 = t2
    h1 = h1
    h2 = h2
    p1 = p1
    p2 = p2
    Ids = {u1, u2, u3}
    Names = {admin, bob}
    AdminName = admin
    Passwords = {pw1, pw2}
    AdminPassword = pw1
    Tokens = {t1, t2}
    Handlers = {h1, h2}
    Replicas = {p1, p2}
    NoOne = NoOne
SYMMETRY Symmetry
INVARIANTS
    AnAdminStays
    SessionsHaveUsers
    ChangesStayHome
    ChecksHold
    OneSeed
PROPERTIES
    OnlyAdminsChangeAccounts
