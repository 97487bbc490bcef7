\* A synchronous clone whose handler dies is never settled.
SPECIFICATION FairSpec
CONSTANTS
    w1 = w1
    w2 = w2
    r1 = r1
    r2 = r2
    k1 = k1
    k2 = k2
    few = few
    many = many
    empty = empty
    NoBody = NoBody
    Workers = {w1, w2}
    Requests = {r1, r2}
    Keys = {k1}
    Bodies = {few, many}
    KeyOf <- RaceKeyOf
    BodyOf <- RepeatBodyOf
    Tasks <- BodyTasks
    MaxAttempts = 2
    Batch = 2
    MaxRetries = 1
    MaxFaults = 2
PROPERTIES
    EveryJobSettles
\* All requests answered and all jobs settled: nothing is left to do.
CHECK_DEADLOCK FALSE
