SPECIFICATION DeploymentSpec
CONSTANTS
    Requests = {q1, q2}
    Connections = {c1, c2}
    b1 = b1
    p1 = p1
    Bureaus = {b1, b2}
    Partners = {p1, p2, p3}
    Home <- MCHome
    NoBureau = NoBureau
    NoConnection = NoConnection
    NoRequest = NoRequest
    NoPartner = NoPartner
    Environments <- MCEnvironments
    Attributes <- MCAttributes
    Unset = Unset  Blank = Blank  Junk = Junk
    U32Max = 2147483646
    Operators = {o1, o2}
    MaxCommands = 2
    MaxStarts = 2
CONSTRAINT Focus
CHECK_DEADLOCK FALSE
INVARIANTS PolicyAlone IdleConnectionsForget ReadyMeansLoginWorks MigrateIsIdempotent
PROPERTIES PatchesNotLost ConnectionsReturn
