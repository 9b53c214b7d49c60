\* One client signs in over and over through two connections, across several windows
\* and lockouts, with one hash slot; a tick may pass between the clock and the mutex.
\* No symmetry, since something must eventually happen.
SPECIFICATION Spec
CONSTANTS
    Logins = {l1, l2}
    Clients = {c1}
    MaxFailures = 2
    Window = 2
    Lockout = 4
    HashSlots = 1
    MaxTime = 8
    MaxSkew = 1
INVARIANTS
    BurstBounded
    HashesBounded
PROPERTY AdmittedLoginEnds
