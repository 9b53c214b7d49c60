\* Two partners, late reads and writes of the one while the other is open; no
\* symmetry, since something must eventually happen.
SPECIFICATION Spec
CONSTANTS
    Partners = {p1, p2}
    Names = {n1}
    Reads = {r1, r2}
    Writes = {w1}
    Nobody = Nobody
    MaxEpoch = 3
    MaxRuns = 1
    MaxFailures = 1
INVARIANTS
    ShowsOnlyItsPartner
    NoPollWithoutPanel
    PendingIsPolled
PROPERTY PendingSettles
CHECK_DEADLOCK FALSE
