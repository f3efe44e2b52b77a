\* Two accounts, two sessions and two requests at a time.
SPECIFICATION Spec
CONSTANTS
    u1 = u1
    u2 = u2
    t1 = t1
    t2 = t2
    h1 = h1
    h2 = h2
    User = {u1, u2}
    Token = {t1, t2}
    Handler = {h1, h2}
    Client = {"lan"}
    MaxFailures = 1
    View = "view"
    Manage = "manage"
    Perm = {"view", "manage"}
    Bodies <- MCBodies
SYMMETRY Symmetry
INVARIANTS
    OneFirstAdmin
    AdminRemains
    RevokedWhenAnswered
