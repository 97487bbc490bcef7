\* Two workers, faults, a user edit and a retry.
SPECIFICATION Spec
CONSTANTS
    w1 = w1
    w2 = w2
    c1 = c1
    Workers = {w1, w2}
    Recs = {c1}
    MaxSlot = 2
    Schedules <- MCSchedules
    MaxAttempts = 2
    MaxEdits = 1
    MaxRetries = 1
    MaxFaults = 1
INVARIANTS
    TypeOK
    OneTaskPerOccurrence
    NoInstantLost
    NoOverlap
SYMMETRY Symmetry
