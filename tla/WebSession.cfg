SPECIFICATION Spec
CONSTANTS
    Tabs = {t1}
    Mutations = {m1}
    MaxSessions = 2
    MaxLosses = 1
    None = None
CHECK_DEADLOCK FALSE
INVARIANTS AppliedAtMostOnce
PROPERTIES LogoutIsReal DeadSessionSurfaces
