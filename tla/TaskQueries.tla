----------------------------- MODULE TaskQueries -----------------------------
(* What the "my tasks" page asks for and what it is answered: its filters, the  *)
(* address that holds them, a saved view, the chips, and the queries of the      *)
(* list, the board, the calendar, the export and the dashboard with the tasks    *)
(* each of them selects.                                                          *)
EXTENDS Integers, FiniteSets

CONSTANTS Phrases, trim,      \* search phrases, and each of them trimmed
          PlanIds, PersonIds, TagIds,
          OtherWords,       \* what an address may say that the page does not
          LastDay, Today,   \* days 1..LastDay of the viewer's calendar
          Period,           \* the days a dashboard or a calendar shows, first and last
          EXPORT_ROW_LIMIT, PAGE_SIZE

Unset == ""
TASK_STATUSES == {"TODO", "IN_PROGRESS", "IN_REVIEW", "BLOCKED", "DONE", "CANCELLED"}
OPEN_TASK_STATUSES == {"TODO", "IN_PROGRESS", "IN_REVIEW", "BLOCKED"}
TASK_PRIORITIES == {"LOW", "MEDIUM", "HIGH", "URGENT"}
TASK_SORT_FIELDS == {"taskNumber", "title", "status", "priority", "startAt", "dueDate", "createdAt", "updatedAt", "rank"}
TASK_VIEW_MODES == {"list", "board", "calendar", "timeline"}
Dues == {"today", "upcoming", "overdue"}
Orders == {"asc", "desc"}
CalModes == {"month", "week"}
Zooms == {"day", "week", "month"}
Groupings == {"project", "assignee"}

Maybe(S) == S \cup {Unset}
\* Day 0 is no date; a day has two instants, its midnight and the rest of it.
DaysOr0 == 0..LastDay
Instants == 0..(2 * LastDay + 1)
Midnight(d) == 2 * d
DayEnd(d) == 2 * d + 1

TaskFilterState ==
    [search : Phrases, projectId : Maybe(PlanIds), statuses : SUBSET TASK_STATUSES, priorities : SUBSET TASK_PRIORITIES,
     assigneeId : Maybe(PersonIds), createdById : Maybe(PersonIds), due : Maybe(Dues),
     deadlineFrom : DaysOr0, deadlineTo : DaysOr0, overdue : BOOLEAN, unassigned : BOOLEAN,
     includeArchived : BOOLEAN, includeDeleted : BOOLEAN, tagIds : SUBSET TagIds,
     sortBy : TASK_SORT_FIELDS, sortOrder : Orders, page : Nat \ {0}]
TaskViewUrlState == [view : TASK_VIEW_MODES, calMode : CalModes, tlZoom : Zooms, groupBy : Groupings]

\* staged: the workflow stage of the task is an open one; barred: the task is of a
\* private project the viewer is no member of.
TaskRow ==
    [status : TASK_STATUSES, staged : BOOLEAN, priority : TASK_PRIORITIES, project : Maybe(PlanIds),
     assignee : Maybe(PersonIds), creator : PersonIds, start : Instants, due : Instants, completed : Instants,
     updated : Instants, tags : SUBSET TagIds, words : SUBSET Phrases, archived : BOOLEAN, deleted : BOOLEAN,
     barred : BOOLEAN]
ViewerType == [id : PersonIds, role : {"owner", "admin", "manager", "member"}]

ASSUME QueryAssumption ==
    /\ Unset \in Phrases /\ Unset \notin PlanIds \cup PersonIds \cup TagIds
    /\ trim \in [Phrases -> Phrases] /\ trim[Unset] = Unset /\ \A x \in Phrases : trim[trim[x]] = trim[x]
    /\ LastDay \in Nat /\ Today \in 1..LastDay /\ Period \in (1..LastDay) \X (1..LastDay)
    /\ EXPORT_ROW_LIMIT \in Nat \ {0} /\ PAGE_SIZE \in Nat \ {0}

DEFAULT_TASK_FILTER_STATE ==
    [search |-> Unset, projectId |-> Unset, statuses |-> {}, priorities |-> {}, assigneeId |-> Unset,
     createdById |-> Unset, due |-> Unset, deadlineFrom |-> 0, deadlineTo |-> 0, overdue |-> FALSE,
     unassigned |-> FALSE, includeArchived |-> FALSE, includeDeleted |-> FALSE, tagIds |-> {},
     sortBy |-> "createdAt", sortOrder |-> "desc", page |-> 1]

-----------------------------------------------------------------------------
(* The address *)

Words == OtherWords \cup {Unset, "true"} \cup TASK_STATUSES \cup TASK_PRIORITIES \cup Dues \cup TASK_SORT_FIELDS
         \cup Orders \cup TASK_VIEW_MODES \cup CalModes \cup Zooms \cup Groupings
\* The parameters of an address as they are written; "archived", "deleted" and
\* "creatorId" are the older names of three of them.
Address ==
    [q : Phrases, projectId : Maybe(PlanIds), status : SUBSET Words, priority : SUBSET Words,
     assigneeId : Maybe(PersonIds), createdById : Maybe(PersonIds), creatorId : Maybe(PersonIds), due : Words,
     deadlineFrom : DaysOr0, deadlineTo : DaysOr0, overdue : Words, unassigned : Words,
     includeArchived : Words, archived : Words, includeDeleted : Words, deleted : Words,
     tagId : SUBSET TagIds, sortBy : Words, sortOrder : Words, page : Nat,
     view : Words, calMode : Words, tlZoom : Words, groupBy : Words]
Bare ==
    [q |-> Unset, projectId |-> Unset, status |-> {}, priority |-> {}, assigneeId |-> Unset, createdById |-> Unset,
     creatorId |-> Unset, due |-> Unset, deadlineFrom |-> 0, deadlineTo |-> 0, overdue |-> Unset, unassigned |-> Unset,
     includeArchived |-> Unset, archived |-> Unset, includeDeleted |-> Unset, deleted |-> Unset, tagId |-> {},
     sortBy |-> Unset, sortOrder |-> Unset, page |-> 0, view |-> Unset, calMode |-> Unset, tlZoom |-> Unset,
     groupBy |-> Unset]

Given(x, otherwise) == IF x = Unset THEN otherwise ELSE x
OneOf(x, S, otherwise) == IF x \in S THEN x ELSE otherwise
\* Spellings other than the canonical one are accepted.
normalizeTaskStatus(v) == IF v = "done" THEN "DONE" ELSE v
parseBooleanParam(v) == v \in {"1", "true", "yes"}

parseTaskFilterState(a) ==
    [search |-> a.q, projectId |-> a.projectId,
     statuses |-> {normalizeTaskStatus(v) : v \in a.status} \cap TASK_STATUSES,
     priorities |-> a.priority \cap TASK_PRIORITIES,
     assigneeId |-> a.assigneeId, createdById |-> Given(a.createdById, a.creatorId),
     due |-> OneOf(a.due, Dues, Unset), deadlineFrom |-> a.deadlineFrom, deadlineTo |-> a.deadlineTo,
     overdue |-> parseBooleanParam(a.overdue), unassigned |-> parseBooleanParam(a.unassigned),
     includeArchived |-> parseBooleanParam(Given(a.includeArchived, a.archived)),
     includeDeleted |-> parseBooleanParam(Given(a.includeDeleted, a.deleted)),
     tagIds |-> a.tagId, sortBy |-> OneOf(a.sortBy, TASK_SORT_FIELDS, "createdAt"),
     sortOrder |-> OneOf(a.sortOrder, Orders, "desc"), page |-> IF a.page = 0 THEN 1 ELSE a.page]
parseTaskViewUrlState(a) ==
    [view |-> OneOf(a.view, TASK_VIEW_MODES, "list"), calMode |-> OneOf(a.calMode, CalModes, "month"),
     tlZoom |-> OneOf(a.tlZoom, Zooms, "week"), groupBy |-> OneOf(a.groupBy, Groupings, "project")]

\* Only what differs from the default is written.
Unless(x, default) == IF x = default THEN Unset ELSE x
Flag(b) == IF b THEN "true" ELSE Unset
serializeTaskFilterState(s) ==
    [q |-> trim[s.search], projectId |-> s.projectId, status |-> s.statuses, priority |-> s.priorities,
     assigneeId |-> s.assigneeId, createdById |-> s.createdById, creatorId |-> Unset, due |-> s.due,
     deadlineFrom |-> s.deadlineFrom, deadlineTo |-> s.deadlineTo, overdue |-> Flag(s.overdue),
     unassigned |-> Flag(s.unassigned), includeArchived |-> Flag(s.includeArchived), archived |-> Unset,
     includeDeleted |-> Flag(s.includeDeleted), deleted |-> Unset, tagId |-> s.tagIds,
     sortBy |-> Unless(s.sortBy, "createdAt"), sortOrder |-> Unless(s.sortOrder, "desc"),
     page |-> IF s.page > 1 THEN s.page ELSE 0, view |-> Unset, calMode |-> Unset, tlZoom |-> Unset,
     groupBy |-> Unset]
serializeTaskViewUrlState(v, a) ==
    [a EXCEPT !.view = Unless(v.view, "list"), !.calMode = Unless(v.calMode, "month"),
              !.tlZoom = Unless(v.tlZoom, "week"), !.groupBy = Unless(v.groupBy, "project")]
serializeTaskPageUrlState(s, v) == serializeTaskViewUrlState(v, serializeTaskFilterState(s))

-----------------------------------------------------------------------------
(* Chips and presets *)

When(b, x) == IF b THEN {x} ELSE {}
FlagFields == {"overdue", "unassigned", "includeArchived", "includeDeleted"}
ValueFields == {"search", "projectId", "assigneeId", "createdById", "due"}
describeActiveFilterChips(s) ==
    {<<"status", x>> : x \in s.statuses} \cup {<<"priority", x>> : x \in s.priorities}
    \cup {<<k, Unset>> : k \in {f \in ValueFields : s[f] # Unset}}
    \cup When(s.deadlineFrom # 0 \/ s.deadlineTo # 0, <<"deadline", Unset>>)
    \cup {<<k, Unset>> : k \in {f \in FlagFields : s[f]}}

removeFilterChip(s, chip) ==
    LET first == [s EXCEPT !.page = 1]
    IN  CASE chip[1] = "status" -> [first EXCEPT !.statuses = @ \ {chip[2]}]
          [] chip[1] = "priority" -> [first EXCEPT !.priorities = @ \ {chip[2]}]
          [] chip[1] = "deadline" -> [first EXCEPT !.deadlineFrom = 0, !.deadlineTo = 0]
          [] chip[1] \in ValueFields -> [first EXCEPT ![chip[1]] = Unset]
          [] chip[1] \in FlagFields -> [first EXCEPT ![chip[1]] = FALSE]

taskFilterHasActiveFilters(s) ==
    \/ s.search # Unset \/ s.projectId # Unset \/ s.statuses # {} \/ s.priorities # {} \/ s.assigneeId # Unset
    \/ s.createdById # Unset \/ s.tagIds # {} \/ s.due # Unset \/ s.deadlineFrom # 0 \/ s.deadlineTo # 0
    \/ s.overdue \/ s.unassigned \/ s.includeArchived \/ s.includeDeleted

taskListViewPresetToFilterPatch(preset) ==
    [includeDeleted |-> preset = "trash", includeArchived |-> preset = "archived"]

-----------------------------------------------------------------------------
(* Saved views *)

\* What is stored leaves out the tags and the page, and the grouping of other views
\* than the timeline.
pageStateToSavedViewInput(s, v) ==
    [filtersJson |-> [search |-> s.search, projectId |-> s.projectId, statuses |-> s.statuses,
                      priorities |-> s.priorities, assigneeId |-> s.assigneeId, createdById |-> s.createdById,
                      due |-> s.due, deadlineFrom |-> s.deadlineFrom, deadlineTo |-> s.deadlineTo,
                      overdue |-> s.overdue, unassigned |-> s.unassigned,
                      includeArchived |-> s.includeArchived, includeDeleted |-> s.includeDeleted],
     sortJson |-> [sortBy |-> s.sortBy, sortOrder |-> s.sortOrder],
     groupBy |-> IF v.view = "timeline" THEN v.groupBy ELSE "none",
     displayOptionsJson |-> [view |-> v.view, calMode |-> v.calMode, tlZoom |-> v.tlZoom]]

\* Mutant: what was saved empty leaves the filter of the page.
SavedViewMerged(saved, s) ==
    [f \in DOMAIN s |-> IF f \in DOMAIN saved.filtersJson /\ saved.filtersJson[f] # DEFAULT_TASK_FILTER_STATE[f]
                       THEN saved.filtersJson[f]
                       ELSE IF f \in DOMAIN saved.sortJson THEN saved.sortJson[f] ELSE IF f = "page" THEN 1 ELSE s[f]]
\* The filters and the view a saved view puts on the page with the state s.
savedViewFilters(saved, s) ==
    [f \in DOMAIN s |-> CASE f \in DOMAIN saved.filtersJson -> saved.filtersJson[f]
                          [] f \in DOMAIN saved.sortJson -> saved.sortJson[f]
                          [] f = "page" -> 1
                          [] OTHER -> s[f]]
savedViewDisplay(saved) ==
    [view |-> saved.displayOptionsJson.view, calMode |-> saved.displayOptionsJson.calMode,
     tlZoom |-> saved.displayOptionsJson.tlZoom, groupBy |-> OneOf(saved.groupBy, Groupings, "project")]

-----------------------------------------------------------------------------
(* Queries *)

hasWorkspaceScope(u) == u.role \in {"owner", "admin", "manager"}
isAdmin(u) == u.role \in {"owner", "admin"}
listDefaultAssignee(u) == IF hasWorkspaceScope(u) THEN u.id ELSE Unset

NoSpan == <<0, 0>>
taskFilterStateToExportFilters(s) ==
    [search |-> s.search, projectId |-> s.projectId, status |-> s.statuses, priority |-> s.priorities,
     assigneeId |-> s.assigneeId, createdById |-> s.createdById, due |-> s.due,
     deadlineFrom |-> Midnight(s.deadlineFrom), deadlineTo |-> Midnight(s.deadlineTo),
     overdue |-> s.overdue, unassigned |-> s.unassigned,
     includeArchived |-> s.includeArchived, includeDeleted |-> s.includeDeleted, tagIds |-> {}, span |-> NoSpan]
taskFilterStateToListFilters(s, default) ==
    [search |-> s.search, projectId |-> s.projectId, status |-> s.statuses, priority |-> s.priorities,
     assigneeId |-> IF s.unassigned THEN Unset ELSE Given(s.assigneeId, default),
     createdById |-> s.createdById, due |-> s.due,
     deadlineFrom |-> Midnight(s.deadlineFrom), deadlineTo |-> Midnight(s.deadlineTo),
     overdue |-> s.overdue, unassigned |-> s.unassigned,
     includeArchived |-> s.includeArchived, includeDeleted |-> s.includeDeleted, tagIds |-> s.tagIds, span |-> NoSpan]

IsOpen(r) == r.status \in OPEN_TASK_STATUSES
openTaskOrCategoryWhere(r) == IsOpen(r) \/ r.staged

\* Who sees the task at all: the status asked for is a part of it in the code, and is
\* stated with the dates here, which may replace it.
buildTaskVisibilityWhere(u, q, r) ==
    /\ q.includeDeleted \/ ~r.deleted
    /\ q.includeArchived \/ ~r.archived
    /\ isAdmin(u) \/ ~r.barred
    /\ hasWorkspaceScope(u) \/ u.id \in {r.assignee, r.creator}
HasStatus(q, r) == q.status = {} \/ r.status \in q.status

\* A task with both dates meets the span; with one of them, it falls into it.
Overlaps(span, r) ==
    LET from == Midnight(span[1])
        to == DayEnd(span[2])
    IN  \/ r.start # 0 /\ r.due # 0 /\ r.start <= to /\ r.due >= from
        \/ r.start = 0 /\ r.due # 0 /\ r.due >= from /\ r.due <= to
        \/ r.due = 0 /\ r.start # 0 /\ r.start >= from /\ r.start <= to

\* The dates asked for.  A span makes the deadlines void, the deadlines make "due"
\* void, and "due" takes the place of the statuses asked for.
DatesWhere(q, r) ==
    LET open == IsOpen(r) /\ r.due # 0
    IN  IF q.span # NoSpan THEN HasStatus(q, r) /\ Overlaps(q.span, r)
        ELSE IF q.deadlineFrom # 0 \/ q.deadlineTo # 0
             THEN /\ HasStatus(q, r) /\ r.due # 0
                  /\ q.deadlineFrom # 0 => r.due >= q.deadlineFrom
                  /\ q.deadlineTo # 0 => r.due <= q.deadlineTo
        ELSE IF q.due = "today" THEN open /\ r.due >= Midnight(Today) /\ r.due <= DayEnd(Today)
        ELSE IF q.due = "overdue" \/ q.overdue THEN open /\ r.due < Midnight(Today)
        ELSE IF q.due = "upcoming" THEN open /\ r.due > DayEnd(Today)
        ELSE HasStatus(q, r)

buildTaskListWhere(u, q, r) ==
    /\ buildTaskVisibilityWhere(u, q, r)
    /\ q.projectId # Unset => r.project = q.projectId
    /\ q.priority # {} => r.priority \in q.priority
    /\ IF q.unassigned THEN r.assignee = Unset ELSE q.assigneeId # Unset => r.assignee = q.assigneeId
    /\ q.createdById # Unset => r.creator = q.createdById
    /\ q.tagIds # {} => r.tags \cap q.tagIds # {}
    /\ trim[q.search] # Unset => trim[q.search] \in r.words
    /\ DatesWhere(q, r)

assertDeletedListAllowed(u, q) == q.includeDeleted => isAdmin(u)
Selected(rows, u, q) == {r \in rows : buildTaskListWhere(u, q, r)}

listTasks(rows, u, s) == Selected(rows, u, taskFilterStateToListFilters(s, listDefaultAssignee(u)))
listBoardColumn(rows, u, s, column) ==
    Selected(rows, u, [taskFilterStateToListFilters(s, listDefaultAssignee(u)) EXCEPT !.status = {column}])
listCalendar(rows, u, s) ==
    Selected(rows, u, [taskFilterStateToListFilters(s, listDefaultAssignee(u)) EXCEPT !.span = Period])
exportTasks(rows, u, s) == Selected(rows, u, taskFilterStateToExportFilters(s))
exportAdmitted(rows, u, s) ==
    /\ assertDeletedListAllowed(u, taskFilterStateToExportFilters(s))
    /\ Cardinality(exportTasks(rows, u, s)) <= EXPORT_ROW_LIMIT
listAdmitted(u, s) == assertDeletedListAllowed(u, taskFilterStateToListFilters(s, listDefaultAssignee(u)))

-----------------------------------------------------------------------------
(* The dashboard *)

DashboardVisible(u, plan, r) ==
    /\ buildTaskVisibilityWhere(u, [includeDeleted |-> FALSE, includeArchived |-> FALSE], r)
    /\ plan # Unset => r.project = plan
Dated(day, r) == IF day = "today" THEN r.due >= Midnight(Today) /\ r.due <= DayEnd(Today) ELSE r.due < Midnight(Today)
\* The tile counts these: due today, overdue.
getSummary(rows, u, plan, day) ==
    {r \in rows : DashboardVisible(u, plan, r) /\ openTaskOrCategoryWhere(r) /\ r.due # 0 /\ Dated(day, r)}

CompletedInPeriod(r) ==
    /\ r.status = "DONE"
    /\ LET at == IF r.completed # 0 THEN r.completed ELSE r.updated
       IN  at >= Midnight(Period[1]) /\ at <= DayEnd(Period[2])
MyWorkTabs == {"today", "upcoming", "overdue", "in-progress", "completed"}
getMyWork(rows, u, plan, tab) ==
    {r \in rows :
        /\ ~r.deleted /\ ~r.archived /\ r.assignee = u.id /\ (plan # Unset => r.project = plan)
        /\ CASE tab = "in-progress" -> r.status = "IN_PROGRESS"
             [] tab = "completed" -> CompletedInPeriod(r)
             [] tab = "upcoming" -> IsOpen(r) /\ r.due # 0 /\ r.due > DayEnd(Today)
             [] OTHER -> IsOpen(r) /\ r.due # 0 /\ Dated(tab, r)}

\* The links to the page.
myTasksHref(plan, due, status) == [Bare EXCEPT !.projectId = plan, !.due = due, !.status = status]
MyWorkLink(plan, tab) ==
    myTasksHref(plan, OneOf(tab, {"today", "overdue"}, Unset),
                CASE tab = "completed" -> {"DONE"} [] tab = "in-progress" -> {"IN_PROGRESS"} [] OTHER -> {})

-----------------------------------------------------------------------------
(* How the answers agree *)

\* Filters that mean what their chips say together: two filters of dates, a status
\* next to "due", an assignee next to "unassigned" replace one another.
DueMode(s) == s.deadlineFrom = 0 /\ s.deadlineTo = 0 /\ (s.due # Unset \/ s.overdue)
Coherent(s) ==
    /\ s.deadlineFrom # 0 \/ s.deadlineTo # 0 => s.due = Unset /\ ~s.overdue
    /\ s.overdue => s.due \in {Unset, "overdue"}
    /\ DueMode(s) => s.statuses = {}
    /\ s.unassigned => s.assigneeId = Unset

\* What the chip of the filter says of a task.
Meets(s, chip, r) ==
    LET open == IsOpen(r) /\ r.due # 0
    IN  CASE chip[1] = "status" -> r.status \in s.statuses
          [] chip[1] = "priority" -> r.priority \in s.priorities
          [] chip[1] = "search" -> trim[s.search] # Unset => trim[s.search] \in r.words
          [] chip[1] = "projectId" -> r.project = s.projectId
          [] chip[1] = "assigneeId" -> r.assignee = s.assigneeId
          [] chip[1] = "createdById" -> r.creator = s.createdById
          [] chip[1] = "due" /\ s.due = "today" -> open /\ r.due \in Midnight(Today)..DayEnd(Today)
          [] chip[1] = "due" /\ s.due = "upcoming" -> open /\ r.due > DayEnd(Today)
          [] chip[1] = "overdue" \/ (chip[1] = "due" /\ s.due = "overdue") -> open /\ r.due < Midnight(Today)
          [] chip[1] = "deadline" -> /\ r.due # 0 /\ r.due >= Midnight(s.deadlineFrom)
                                     /\ s.deadlineTo # 0 => r.due <= Midnight(s.deadlineTo)
          [] chip[1] = "unassigned" -> r.assignee = Unset
          [] OTHER -> TRUE
\* What no chip tells: the tags, the assignee taken for granted, archived and deleted
\* tasks, and what the viewer may not see.
Hidden(u, s, r) ==
    \/ s.tagIds # {} /\ r.tags \cap s.tagIds = {}
    \/ ~s.unassigned /\ s.assigneeId = Unset /\ hasWorkspaceScope(u) /\ r.assignee # u.id
Kept(u, s, r) ==
    /\ r.deleted => s.includeDeleted
    /\ r.archived => s.includeArchived
    /\ r.barred => isAdmin(u)
    /\ hasWorkspaceScope(u) \/ r.assignee = u.id \/ r.creator = u.id

\* The list holds the tasks that meet every chip, and no other.
ListMeetsChips(rows, u, s) ==
    Coherent(s) =>
        listTasks(rows, u, s) = {r \in rows : /\ Kept(u, s, r) /\ ~Hidden(u, s, r)
                                        /\ \A chip \in describeActiveFilterChips(s) : Meets(s, chip, r)}
\* The export of the page holds its list, and more only where the tags and the
\* assignee taken for granted are at work.
ExportHoldsList(rows, u, s) ==
    /\ listTasks(rows, u, s) = {r \in exportTasks(rows, u, s) : ~Hidden(u, s, r)}
    /\ exportAdmitted(rows, u, s) => listAdmitted(u, s) /\ Cardinality(listTasks(rows, u, s)) <= EXPORT_ROW_LIMIT
\* Without "due" a column of the board holds the tasks of its status, and the columns
\* picked as statuses make up the list; without dates asked for, the calendar holds
\* what the list has in its period.
ViewsHoldList(rows, u, s) ==
    /\ ~DueMode(s) => listTasks(rows, u, s) = UNION {listBoardColumn(rows, u, s, c) \cap {r \in rows : r.status = c} :
                                            c \in IF s.statuses = {} THEN TASK_STATUSES ELSE s.statuses}
    /\ (~DueMode(s) /\ s.deadlineFrom = 0 /\ s.deadlineTo = 0) =>
            listCalendar(rows, u, s) = {r \in listTasks(rows, u, s) : Overlaps(Period, r)}
\* Where no filter is told active, the list is all the tasks there are for the viewer.
NothingHides(rows, u, s) ==
    /\ taskFilterHasActiveFilters(s) <=> (describeActiveFilterChips(s) # {} \/ s.tagIds # {})
    /\ ~taskFilterHasActiveFilters(s) => listTasks(rows, u, s) = listTasks(rows, u, DEFAULT_TASK_FILTER_STATE)
\* A tile of the dashboard counts what its link lists, for a member the tasks whose
\* workflow stage alone is open apart; and what "my work" has, its link lists, except
\* in projects the viewer has no access to.
DashboardLeadsToList(rows, u, plan) ==
    /\ \A day \in {"today", "overdue"} :
        LET listed == listTasks(rows, u, parseTaskFilterState(myTasksHref(plan, day, {})))
            counted == getSummary(rows, u, plan, day)
        IN  /\ listed \subseteq counted
            /\ \A r \in counted \ listed : ~IsOpen(r) \/ (hasWorkspaceScope(u) /\ r.assignee # u.id)
    /\ \A tab \in MyWorkTabs : \A r \in getMyWork(rows, u, plan, tab) :
            r \in listTasks(rows, u, parseTaskFilterState(MyWorkLink(plan, tab))) \/ (r.barred /\ ~isAdmin(u))

ListsAgree(rows, u, s) ==
    /\ ListMeetsChips(rows, u, s) /\ ExportHoldsList(rows, u, s) /\ ViewsHoldList(rows, u, s) /\ NothingHides(rows, u, s)
    /\ DashboardLeadsToList(rows, u, s.projectId)
=============================================================================
