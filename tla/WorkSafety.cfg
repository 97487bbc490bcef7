\* Two handlers at a time, four requests or polls (three on the hierarchy,
\* the column and the members).
SPECIFICATION WorkSpec
CONSTANTS
    p1 = p1
    p2 = p2
    r1 = r1
    r2 = r2
    r3 = r3
    Handlers = {p1, p2}
    MaxServed = 4
    LastHour = 5
    DayLength = 4
    LastDay = 3
    Calendars <- Weeks
    NoCalendar = NoCalendar
    Never = Never
    Target = 3
    Warning = 1
    Situations <- SomeSituations
    Rules <- SomeRules
    Logs = {r1, r2, r3}
    Entered = {0, 2, 3}
    New = New
    Running = Running
    Cards = {1, 2, 3}
    RankGap = 2
    NoCard = NoCard
    MaxMoves = 3
    Items = {i1, i2}
    StageNames = {"todo", "doing", "done"}
    StatusOf <- StageStatus
    NoStage = NoStage
    Contents = {c1, c2}
    Nodes = {r1, r2, r3}
    NoNode = NoNode
    Projects = {x}
    NoProject = NoProject
    MaxLevels = 2
    MaxAsked = 3
    Crew = {r1, r2, r3}
    NoManager = NoManager
    MaxDuties = 3
INVARIANTS
    WorkTypesOK
    BusinessTimeExact
    BudgetKept
    RiskRequestKept
    LogsAreSound
    TasksFollowWorkflow
    HierarchySound
    ProjectIsLed
PROPERTIES
    FinalStays
    LandsBetween
    CompletionGuarded
    OneCurrent
SYMMETRY WorkSymmetry
\* The instance serves a bounded number of requests.
CHECK_DEADLOCK FALSE
