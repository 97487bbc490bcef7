\* Two requests with different templates race for one key; two workers.
SPECIFICATION Spec
CONSTANTS
    w1 = w1
    w2 = w2
    r1 = r1
    r2 = r2
    k1 = k1
    k2 = k2
    few = few
    many = many
    empty = empty
    NoBody = NoBody
    Workers = {w1, w2}
    Requests = {r1, r2}
    Keys = {k1}
    Bodies = {few, many}
    KeyOf <- RaceKeyOf
    BodyOf <- RaceBodyOf
    Tasks <- BodyTasks
    MaxAttempts = 2
    Batch = 2
    MaxRetries = 1
    MaxFaults = 3
INVARIANTS
    TypeOK
    CommitterOwnsLease
    ReplayNeverCollides
    AnswersAgree
PROPERTIES
    CompletedIsFinal
    ImplementsOnce
\* All requests answered and all jobs settled: nothing is left to do.
CHECK_DEADLOCK FALSE
