\* One failing statement and one retry by a user.
SPECIFICATION Spec
CONSTANTS
    w1 = w1
    w2 = w2
    c1 = c1
    Workers = {w1, w2}
    Recs = {c1}
    MaxSlot = 2
    Schedules <- MCSchedules
    MaxAttempts = 2
    MaxEdits = 0
    MaxRetries = 1
    MaxFaults = 1
INVARIANTS
    RetryRepairs
SYMMETRY Symmetry
