\* The queue with overlapping retries beside a worker whose database and storage
\* come and go; no symmetry, since something must eventually happen.
SPECIFICATION MaintenanceSpec
CONSTANTS
    Materials = {m1}
    Retries = {q1, q2}
    Workers = {w1}
    Nobody = Nobody
    MaxAttempts = 2
    MaxRuns = 2
    Segments <- MCSegments
    Keys <- MCKeys
    OwnBureau = "own"
    Strays <- MCStrays
    ScanLimit = 2
INVARIANTS
    QueuedJobHasAttemptLeft
    QueuedMaterialHasQueuedJob
PROPERTIES
    DatabaseChoresDone
    OrphansSurface
    UnflaggedScanIsComplete
    ShutdownEnds
