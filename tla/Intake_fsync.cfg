\* A published row against a power loss.
SPECIFICATION Spec
CONSTANTS
    Requests = {r1, r2}
    Readers = {}
    Partners = {p1}
    KnownPartners = {p1}
    Digests = {d1}
    NoRow = NoRow
    MaxCrashes = 0
    MaxPowerLosses = 1
    MaxDiskFaults = 0
INVARIANT PublishedRowsSurvivePowerLoss
