\* Two retries of one failed material.
SPECIFICATION Spec
CONSTANTS
    Materials = {m1}
    Retries = {q1, q2}
    Workers = {w1, w2}
    Nobody = Nobody
    MaxAttempts = 2
    MaxRuns = 3
PROPERTY RequeueOnlyRetryable
CHECK_DEADLOCK FALSE
