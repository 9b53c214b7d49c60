\* Two uploads and a download, a kill, a power loss and a disk fault; no symmetry,
\* since something must eventually happen.
SPECIFICATION Spec
CONSTANTS
    Requests = {r1, r2}
    Readers = {q1}
    Partners = {p1, p2}
    KnownPartners = {p1}
    Digests = {d1}
    NoRow = NoRow
    MaxCrashes = 1
    MaxPowerLosses = 1
    MaxDiskFaults = 1
INVARIANTS
    RowsHaveOriginals
    OneRowPerOriginal
    AnsweredLeavesNoStaging
    NoTornOriginals
    FoundMaterialOpens
PROPERTIES
    OriginalsNeverTaken
    PutLeavesWholeObject
    ImplementsOriginals
    PublishingEnds
    LeftoverStagingSwept
