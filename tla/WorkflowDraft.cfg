\* One handler, three requests, one task.
SPECIFICATION FlowSpec
CONSTANTS
    Handlers = {p1}
    MaxServed = 3
    LastHour = 0
    Items = {i1}
    StageNames = {"todo", "doing", "done"}
    StatusOf <- StageStatus
    NoStage = NoStage
INVARIANT DraftObtainable
CHECK_DEADLOCK FALSE
