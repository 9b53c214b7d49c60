\* A run interrupted at the attempt limit.
SPECIFICATION Spec
CONSTANTS
    Materials = {m1}
    Retries = {q1, q2}
    Workers = {w1, w2}
    Nobody = Nobody
    MaxAttempts = 2
    MaxRuns = 3
INVARIANT ProcessingNeverHangs
CHECK_DEADLOCK FALSE
