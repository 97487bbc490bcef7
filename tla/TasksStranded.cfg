\* Two predecessors of one task are completed at the same time.
SPECIFICATION Spec
CONSTANTS
    t1 = t1
    t2 = t2
    t3 = t3
    p1 = p1
    p2 = p2
    Tasks = {t1, t2, t3}
    Requests = {p1, p2}
    Statuses = {"TODO", "BLOCKED", "DONE"}
    Kinds = {"update"}
    InitEdges <- JoinEdges
    Policies = {"WARN_ONLY"}
    MaxRequests = 2
INVARIANTS
    NobodyStranded
\* The instance serves MaxRequests requests.
CHECK_DEADLOCK FALSE
