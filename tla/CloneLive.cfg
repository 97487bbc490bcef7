\* Two jobs claimed in one batch, one of them without tasks, under fairness:
\* settled for good unless the API died.
SPECIFICATION FairSpec
CONSTANTS
    w1 = w1
    w2 = w2
    r1 = r1
    r2 = r2
    k1 = k1
    k2 = k2
    few = few
    many = many
    empty = empty
    NoBody = NoBody
    Workers = {w1, w2}
    Requests = {r1, r2}
    Keys = {k1, k2}
    Bodies = {many, empty}
    KeyOf <- BatchKeyOf
    BodyOf <- BatchBodyOf
    Tasks <- BodyTasks
    MaxAttempts = 2
    Batch = 2
    MaxRetries = 1
    MaxFaults = 2
INVARIANTS
    JobsHaveTheirProject
PROPERTIES
    StaleWorkerIsHarmless
    LeasedJobsSettle
\* All requests answered and all jobs settled: nothing is left to do.
CHECK_DEADLOCK FALSE
