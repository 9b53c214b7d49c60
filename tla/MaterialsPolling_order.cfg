\* Two reads of one panel that overtake each other.
SPECIFICATION Spec
CONSTANTS
    Partners = {p1}
    Names = {n1}
    Reads = {r1, r2}
    Writes = {w1}
    Nobody = Nobody
    MaxEpoch = 1
    MaxRuns = 1
    MaxFailures = 0
CHECK_DEADLOCK FALSE
INVARIANT SettledListIsServers
