\* Two handlers at a time: three tasks, one account, one workspace of three people;
\* a task of a project seen by an admin, a manager and a member;
\* two writers of one comment; two tabs of one browser.
SPECIFICATION RequestsSpec
CONSTANTS
    t1 = t1
    t2 = t2
    t3 = t3
    p1 = p1
    p2 = p2
    Tasks = {t1, t2, t3}
    Requests = {p1, p2}
    Statuses = {"TODO", "BLOCKED", "DONE"}
    Kinds = {"update", "touch", "delete", "restore", "link", "unlink"}
    InitEdges <- OneEdge
    Policies = {"BLOCK_WITH_OVERRIDE"}
    MaxRequests = 3
    Handlers = {p1, p2}
    MaxAttempts = 2
    MaxSessions = 4
    MaxLinks = 2
    MaxCalls = 5
    Requesters = {p1, p2}
    People = {u1, u2, u3}
    Nobody = Nobody
    MaxInvitations = 2
    MaxHandled = 3
    a1 = a1
    m1 = m1
    g1 = g1
    u2 = u2
    u3 = u3
    Staff = {a1, m1, g1}
    RoleOf <- OneOfEach
    Unassigned = Unassigned
    Jobs = {t1}
    Clerks = {"clerk"}
    MaxPapers = 3
    Writers = {p1, p2}
    Comments = {"c1"}
    Texts = {"a", "b"}
    MaxWrites = 2
    MaxWire = 2
    Tabs = {p1, p2}
    MaxRows = 4
    MaxSent = 5
    Phrases = {"", "tax", " tax "}
    trim <- TrimOf
    PlanIds = {"plan"}
    PersonIds = {"me","peer"}
    TagIds = {"home"}
    OtherWords = {"done"}
    LastDay = 3
    Today = 2
    Period <- SomePeriod
    Workspaces <- SomeWorkspaces
    EXPORT_ROW_LIMIT = 20
    PAGE_SIZE = 3
    Openings <- SomeLinks
    PageViewers <- SomeViewers
    OfferedStatuses = {"TODO","DONE"}
    OfferedPriorities = {"HIGH"}
    OfferedSorts = {"title"}
    MaxClicks = 2
INVARIANTS
    TypesOK
    VersionsProtect
    AcyclicUnlessRaced
    FamiliesSound
    GuessesBounded
    OwnersHold
    InvitationTellsTruth
    ReadersAgree
    ScreenAgrees
    SessionKept
    CallsUnderstood
    PageTellsTruth
PROPERTIES
    OffersAdmitted
SYMMETRY RequestsSymmetry
\* The instance serves a bounded number of requests.
CHECK_DEADLOCK FALSE
