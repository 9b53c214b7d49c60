\* One session, two connections, statements that wait a tick for a row lock; no
\* symmetry, since something must eventually happen.
SPECIFICATION Spec
CONSTANTS
    Tokens = {t1}
    Requests = {q1, q2}
    NoToken = NoToken
    Ttl = 4
    Idle = 3
    MaxTime = 6
    MaxWait = 1
INVARIANTS
    RefusedOnlyWhenDue
PROPERTIES
    LoggedOutIsOut
    AdmittedInTime
    PurgeTakesOnlyDead
    DeadRowsPurged
CHECK_DEADLOCK FALSE
