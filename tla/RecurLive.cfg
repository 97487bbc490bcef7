\* Two fair workers, users who edit and retry.
SPECIFICATION FairSpec
CONSTANTS
    w1 = w1
    w2 = w2
    c1 = c1
    Workers = {w1, w2}
    Recs = {c1}
    MaxSlot = 2
    Schedules <- MCSchedules
    MaxAttempts = 2
    MaxEdits = 1
    MaxRetries = 1
    MaxFaults = 0
PROPERTIES
    DueAdvances
    RunsSettle
