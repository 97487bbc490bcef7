---------------------------- MODULE TaskListProofs ----------------------------
(***************************************************************************)
(* Proofs about the "my tasks" page for any tasks, people, days, addresses  *)
(* and controls used: its state is well typed, its address keeps what was   *)
(* asked for, also by way of a saved view, and on whatever it shows the      *)
(* list, the chips, the board, the calendar, the export and the dashboard     *)
(* agree.                                                                      *)
(***************************************************************************)
EXTENDS TaskListPage, FiniteSetTheorems, TLAPS

-----------------------------------------------------------------------------
(* Types *)

LEMMA DefaultType == DEFAULT_TASK_FILTER_STATE \in TaskFilterState
  BY QueryAssumption DEF DEFAULT_TASK_FILTER_STATE, TaskFilterState, Maybe, DaysOr0, TASK_SORT_FIELDS, Orders

LEMMA BareType == Bare \in Address
  BY QueryAssumption DEF Bare, Address, Maybe, Words, DaysOr0

\* Whatever an address says, it is read as filters and a view there are.
LEMMA ParseType ==
  ASSUME NEW a \in Address
  PROVE  /\ parseTaskFilterState(a) \in TaskFilterState
         /\ parseTaskViewUrlState(a) \in TaskViewUrlState
  <1>1. parseTaskViewUrlState(a) \in TaskViewUrlState
    BY DEF parseTaskViewUrlState, TaskViewUrlState, OneOf, TASK_VIEW_MODES, CalModes, Zooms, Groupings
  <1>2. Given(a.createdById, a.creatorId) \in Maybe(PersonIds)
    BY DEF Given, Address
  <1>3. OneOf(a.due, Dues, Unset) \in Maybe(Dues) /\ OneOf(a.sortBy, TASK_SORT_FIELDS, "createdAt") \in TASK_SORT_FIELDS
        /\ OneOf(a.sortOrder, Orders, "desc") \in Orders
    BY DEF OneOf, Maybe, TASK_SORT_FIELDS, Orders
  <1>4. {normalizeTaskStatus(v) : v \in a.status} \cap TASK_STATUSES \in SUBSET TASK_STATUSES
        /\ a.priority \cap TASK_PRIORITIES \in SUBSET TASK_PRIORITIES
    OBVIOUS
  <1>5. (IF a.page = 0 THEN 1 ELSE a.page) \in Nat \ {0}
    BY DEF Address
  <1>6. /\ a.q \in Phrases /\ a.projectId \in Maybe(PlanIds) /\ a.assigneeId \in Maybe(PersonIds)
        /\ a.deadlineFrom \in DaysOr0 /\ a.deadlineTo \in DaysOr0 /\ a.tagId \in SUBSET TagIds
    BY DEF Address
  <1>7. \A x : parseBooleanParam(x) \in BOOLEAN
    BY DEF parseBooleanParam
  <1> QED
    BY <1>1, <1>2, <1>3, <1>4, <1>5, <1>6, <1>7 DEF parseTaskFilterState, TaskFilterState

\* The fields of a written address.
LEMMA Serialized ==
  ASSUME NEW s \in TaskFilterState, NEW v \in TaskViewUrlState, NEW a, a = serializeTaskPageUrlState(s, v)
  PROVE  /\ a \in Address
         /\ a.q = trim[s.search] /\ a.projectId = s.projectId /\ a.status = s.statuses /\ a.priority = s.priorities
         /\ a.assigneeId = s.assigneeId /\ a.createdById = s.createdById /\ a.creatorId = Unset /\ a.due = s.due
         /\ a.deadlineFrom = s.deadlineFrom /\ a.deadlineTo = s.deadlineTo /\ a.overdue = Flag(s.overdue)
         /\ a.unassigned = Flag(s.unassigned) /\ a.includeArchived = Flag(s.includeArchived) /\ a.archived = Unset
         /\ a.includeDeleted = Flag(s.includeDeleted) /\ a.deleted = Unset /\ a.tagId = s.tagIds
         /\ a.sortBy = Unless(s.sortBy, "createdAt") /\ a.sortOrder = Unless(s.sortOrder, "desc")
         /\ a.page = (IF s.page > 1 THEN s.page ELSE 0)
         /\ a.view = Unless(v.view, "list") /\ a.calMode = Unless(v.calMode, "month")
         /\ a.tlZoom = Unless(v.tlZoom, "week") /\ a.groupBy = Unless(v.groupBy, "project")
  <1> DEFINE page == IF s.page > 1 THEN s.page ELSE 0
  <1>1. PICK c : c = serializeTaskFilterState(s)
    OBVIOUS
  <1>2. a = [c EXCEPT !.view = Unless(v.view, "list"), !.calMode = Unless(v.calMode, "month"),
                      !.tlZoom = Unless(v.tlZoom, "week"), !.groupBy = Unless(v.groupBy, "project")]
    BY <1>1 DEF serializeTaskPageUrlState, serializeTaskViewUrlState
  <1>3. /\ trim[s.search] \in Phrases /\ page \in Nat /\ s.projectId \in Maybe(PlanIds)
        /\ s.assigneeId \in Maybe(PersonIds) /\ s.createdById \in Maybe(PersonIds)
        /\ s.deadlineFrom \in DaysOr0 /\ s.deadlineTo \in DaysOr0 /\ s.tagIds \in SUBSET TagIds
    BY QueryAssumption DEF TaskFilterState
  <1>4. /\ s.statuses \in SUBSET Words /\ s.priorities \in SUBSET Words /\ s.due \in Words
        /\ s.sortBy \in Words /\ s.sortOrder \in Words
    BY DEF TaskFilterState, Words, Maybe
  <1>5. v.view \in Words /\ v.calMode \in Words /\ v.tlZoom \in Words /\ v.groupBy \in Words
    BY DEF TaskViewUrlState, Words
  <1>6. /\ Flag(s.overdue) \in Words /\ Flag(s.unassigned) \in Words
        /\ Flag(s.includeArchived) \in Words /\ Flag(s.includeDeleted) \in Words
    BY DEF Flag, Words
  <1>7. /\ Unless(s.sortBy, "createdAt") \in Words /\ Unless(s.sortOrder, "desc") \in Words
        /\ Unless(v.view, "list") \in Words /\ Unless(v.calMode, "month") \in Words
        /\ Unless(v.tlZoom, "week") \in Words /\ Unless(v.groupBy, "project") \in Words
    BY <1>4, <1>5 DEF Unless, Words
  <1>8. c \in Address
    <2>1. Unset \in Words /\ Unset \in Maybe(PersonIds)
      BY DEF Words, Maybe
    <2> QED
      BY <1>1, <1>3, <1>4, <1>6, <1>7, <2>1 DEF serializeTaskFilterState, Address
  <1>9. a \in Address
    <2>1. ASSUME NEW d \in Address, NEW x \in Words
          PROVE  /\ [d EXCEPT !.view = x] \in Address /\ [d EXCEPT !.calMode = x] \in Address
                 /\ [d EXCEPT !.tlZoom = x] \in Address /\ [d EXCEPT !.groupBy = x] \in Address
      BY DEF Address
    <2>2. PICK c1 : c1 = [c EXCEPT !.view = Unless(v.view, "list")]
      OBVIOUS
    <2>3. PICK c2 : c2 = [c1 EXCEPT !.calMode = Unless(v.calMode, "month")]
      OBVIOUS
    <2>4. PICK c3 : c3 = [c2 EXCEPT !.tlZoom = Unless(v.tlZoom, "week")]
      OBVIOUS
    <2>5. a = [c3 EXCEPT !.groupBy = Unless(v.groupBy, "project")]
      BY <1>2, <2>2, <2>3, <2>4
    <2>6. c1 \in Address
      BY <1>7, <1>8, <2>1, <2>2
    <2>7. c2 \in Address
      BY <1>7, <2>1, <2>3, <2>6
    <2>8. c3 \in Address
      BY <1>7, <2>1, <2>4, <2>7
    <2> QED
      BY <1>7, <2>1, <2>5, <2>8
  <1>10. /\ c.q = trim[s.search] /\ c.projectId = s.projectId /\ c.status = s.statuses /\ c.priority = s.priorities
         /\ c.assigneeId = s.assigneeId /\ c.createdById = s.createdById /\ c.creatorId = Unset /\ c.due = s.due
         /\ c.deadlineFrom = s.deadlineFrom /\ c.deadlineTo = s.deadlineTo /\ c.overdue = Flag(s.overdue)
         /\ c.unassigned = Flag(s.unassigned) /\ c.includeArchived = Flag(s.includeArchived) /\ c.archived = Unset
         /\ c.includeDeleted = Flag(s.includeDeleted) /\ c.deleted = Unset /\ c.tagId = s.tagIds
         /\ c.sortBy = Unless(s.sortBy, "createdAt") /\ c.sortOrder = Unless(s.sortOrder, "desc") /\ c.page = page
    BY <1>1 DEF serializeTaskFilterState
  <1> QED
    BY <1>2, <1>8, <1>9, <1>10 DEF Address

\* An address that was written is read as it was meant, but for the blanks around
\* the search.
LEMMA RoundTrip ==
  ASSUME NEW s \in TaskFilterState, NEW v \in TaskViewUrlState
  PROVE  /\ parseTaskFilterState(serializeTaskPageUrlState(s, v)) = Trimmed(s)
         /\ parseTaskViewUrlState(serializeTaskPageUrlState(s, v)) = v
  <1>1. PICK a : a = serializeTaskPageUrlState(s, v)
    OBVIOUS
  <1>2. a \in Address
    BY <1>1, Serialized
  <1>3. \A b \in BOOLEAN : parseBooleanParam(Given(Flag(b), Unset)) = b /\ parseBooleanParam(Flag(b)) = b
    BY DEF parseBooleanParam, Given, Flag, Unset
  <1>4. parseTaskViewUrlState(a) = v
    <2>1. parseTaskViewUrlState(a) \in TaskViewUrlState
      BY <1>2, ParseType
    <2>2. /\ OneOf(a.view, TASK_VIEW_MODES, "list") = v.view /\ OneOf(a.calMode, CalModes, "month") = v.calMode
          /\ OneOf(a.tlZoom, Zooms, "week") = v.tlZoom /\ OneOf(a.groupBy, Groupings, "project") = v.groupBy
      <3>1. /\ v.view \in TASK_VIEW_MODES /\ v.calMode \in CalModes /\ v.tlZoom \in Zooms /\ v.groupBy \in Groupings
        BY DEF TaskViewUrlState
      <3>2. /\ a.view = Unless(v.view, "list") /\ a.calMode = Unless(v.calMode, "month")
            /\ a.tlZoom = Unless(v.tlZoom, "week") /\ a.groupBy = Unless(v.groupBy, "project")
        BY <1>1, Serialized
      <3> QED
        BY <3>1, <3>2 DEF OneOf, Unless, Unset, TASK_VIEW_MODES, CalModes, Zooms, Groupings
    <2> QED
      BY <2>1, <2>2 DEF parseTaskViewUrlState, TaskViewUrlState
  <1>5. parseTaskFilterState(a) = Trimmed(s)
    <2>1. PICK f : f = parseTaskFilterState(a)
      OBVIOUS
    <2>2. PICK g : g = Trimmed(s)
      OBVIOUS
    <2>3. f \in TaskFilterState
      BY <1>2, <2>1, ParseType
    <2>4. g \in TaskFilterState
      BY <2>2, QueryAssumption DEF Trimmed, TaskFilterState
    <2>5. f.search = g.search /\ f.projectId = g.projectId /\ f.assigneeId = g.assigneeId
      BY <1>1, <2>1, <2>2, Serialized DEF parseTaskFilterState, Trimmed, TaskFilterState
    <2>6. f.statuses = g.statuses
      <3>1. a.status = s.statuses /\ s.statuses \subseteq TASK_STATUSES
        BY <1>1, Serialized DEF TaskFilterState
      <3>2. {normalizeTaskStatus(x) : x \in s.statuses} \cap TASK_STATUSES = s.statuses
        BY <3>1 DEF normalizeTaskStatus, TASK_STATUSES
      <3> QED
        BY <2>1, <2>2, <3>1, <3>2 DEF parseTaskFilterState, Trimmed, TaskFilterState
    <2>7. f.priorities = g.priorities
      <3>1. a.priority = s.priorities /\ s.priorities \subseteq TASK_PRIORITIES
        BY <1>1, Serialized DEF TaskFilterState
      <3> QED
        BY <2>1, <2>2, <3>1 DEF parseTaskFilterState, Trimmed, TaskFilterState
    <2>8. f.createdById = g.createdById
      BY <1>1, <2>1, <2>2, Serialized DEF parseTaskFilterState, Trimmed, TaskFilterState, Given
    <2>9. f.due = g.due /\ f.deadlineFrom = g.deadlineFrom /\ f.deadlineTo = g.deadlineTo /\ f.tagIds = g.tagIds
      BY <1>1, <2>1, <2>2, Serialized DEF parseTaskFilterState, Trimmed, TaskFilterState, OneOf, Maybe
    <2>10. f.overdue = g.overdue /\ f.unassigned = g.unassigned
      BY <1>1, <1>3, <2>1, <2>2, Serialized DEF parseTaskFilterState, Trimmed, TaskFilterState
    <2>11. f.includeArchived = g.includeArchived /\ f.includeDeleted = g.includeDeleted
      BY <1>1, <1>3, <2>1, <2>2, Serialized DEF parseTaskFilterState, Trimmed, TaskFilterState
    <2>12. f.sortBy = g.sortBy /\ f.sortOrder = g.sortOrder
      <3>1. /\ OneOf(Unless(s.sortBy, "createdAt"), TASK_SORT_FIELDS, "createdAt") = s.sortBy
            /\ OneOf(Unless(s.sortOrder, "desc"), Orders, "desc") = s.sortOrder
        BY DEF OneOf, Unless, Unset, TaskFilterState, TASK_SORT_FIELDS, Orders
      <3> QED
        BY <1>1, <2>1, <2>2, <3>1, Serialized DEF parseTaskFilterState, Trimmed, TaskFilterState
    <2>13. f.page = g.page
      <3>1. a.page = IF s.page > 1 THEN s.page ELSE 0
        BY <1>1, Serialized
      <3>2. s.page \in Nat \ {0}
        BY DEF TaskFilterState
      <3> QED
        BY <2>1, <2>2, <3>1, <3>2 DEF parseTaskFilterState, Trimmed, TaskFilterState
    <2>14. f = g
      BY <2>3, <2>4, <2>5, <2>6, <2>7, <2>8, <2>9, <2>10, <2>11, <2>12, <2>13 DEF TaskFilterState
    <2> QED
      BY <2>1, <2>2, <2>14
  <1> QED
    BY <1>1, <1>4, <1>5

LEMMA TrimmedType ==
  ASSUME NEW s \in TaskFilterState
  PROVE  Trimmed(s) \in TaskFilterState /\ Trimmed(Trimmed(s)) = Trimmed(s)
  <1>1. Trimmed(s) \in TaskFilterState /\ Trimmed(s).search = trim[s.search]
    BY QueryAssumption DEF Trimmed, TaskFilterState
  <1>2. trim[trim[s.search]] = trim[s.search]
    BY QueryAssumption DEF TaskFilterState
  <1>3. Trimmed(Trimmed(s)) = Trimmed(s)
    BY <1>1, <1>2 DEF Trimmed, TaskFilterState
  <1> QED
    BY <1>1, <1>3

Fields == {"search", "projectId", "statuses", "priorities", "assigneeId", "createdById", "due", "deadlineFrom",
           "deadlineTo", "overdue", "unassigned", "includeArchived", "includeDeleted", "tagIds", "sortBy",
           "sortOrder", "page"}

\* A function of the fields whose values are those of filters is one of them.
LEMMA Composed ==
  ASSUME NEW g, g = [f \in Fields |-> g[f]],
         \A f \in Fields : (\E t \in TaskFilterState : g[f] = t[f])
  PROVE  g \in TaskFilterState
  <1>1. ASSUME NEW f \in Fields
        PROVE  /\ f = "search" => g[f] \in Phrases
               /\ f = "projectId" => g[f] \in Maybe(PlanIds)
               /\ f = "statuses" => g[f] \in SUBSET TASK_STATUSES
               /\ f = "priorities" => g[f] \in SUBSET TASK_PRIORITIES
               /\ f \in {"assigneeId", "createdById"} => g[f] \in Maybe(PersonIds)
               /\ f = "due" => g[f] \in Maybe(Dues)
               /\ f \in {"deadlineFrom", "deadlineTo"} => g[f] \in DaysOr0
               /\ f \in {"overdue", "unassigned", "includeArchived", "includeDeleted"} => g[f] \in BOOLEAN
               /\ f = "tagIds" => g[f] \in SUBSET TagIds
               /\ f = "sortBy" => g[f] \in TASK_SORT_FIELDS
               /\ f = "sortOrder" => g[f] \in Orders
               /\ f = "page" => g[f] \in Nat \ {0}
    <2>1. PICK t \in TaskFilterState : g[f] = t[f]
      OBVIOUS
    <2> QED
      BY <2>1 DEF TaskFilterState
  <1>2. /\ g["search"] \in Phrases /\ g["projectId"] \in Maybe(PlanIds)
        /\ g["statuses"] \in SUBSET TASK_STATUSES /\ g["priorities"] \in SUBSET TASK_PRIORITIES
        /\ g["assigneeId"] \in Maybe(PersonIds) /\ g["createdById"] \in Maybe(PersonIds)
        /\ g["due"] \in Maybe(Dues) /\ g["deadlineFrom"] \in DaysOr0 /\ g["deadlineTo"] \in DaysOr0
        /\ g["overdue"] \in BOOLEAN /\ g["unassigned"] \in BOOLEAN
        /\ g["includeArchived"] \in BOOLEAN /\ g["includeDeleted"] \in BOOLEAN
        /\ g["tagIds"] \in SUBSET TagIds /\ g["sortBy"] \in TASK_SORT_FIELDS
        /\ g["sortOrder"] \in Orders /\ g["page"] \in Nat \ {0}
    BY <1>1 DEF Fields
  <1> QED
    BY <1>2 DEF TaskFilterState, Fields

LEMMA FieldsOfState == \A s \in TaskFilterState : DOMAIN s = Fields /\ s = [f \in Fields |-> s[f]]
  BY DEF TaskFilterState, Fields

LEMMA SameState ==
  ASSUME NEW s \in TaskFilterState, NEW t \in TaskFilterState, \A f \in Fields : s[f] = t[f]
  PROVE  s = t
  BY FieldsOfState

\* A patch whose values are those of filters makes filters of filters.
LEMMA PatchedType ==
  ASSUME NEW s \in TaskFilterState, NEW t \in TaskFilterState, NEW patch,
         \A f \in Fields \cap DOMAIN patch : patch[f] = t[f]
  PROVE  /\ Patched(s, patch) \in TaskFilterState
         /\ \A f \in Fields : Patched(s, patch)[f] = IF f \in DOMAIN patch THEN t[f]
                                                   ELSE IF f = "page" THEN 1 ELSE s[f]
  <1>1. PICK g : g = Patched(s, patch)
    OBVIOUS
  <1>2. g = [f \in Fields |-> g[f]]
    BY <1>1, FieldsOfState DEF Patched
  <1>3. \A f \in Fields : g[f] = IF f \in DOMAIN patch THEN t[f] ELSE IF f = "page" THEN 1 ELSE s[f]
    BY <1>1, FieldsOfState DEF Patched
  <1>4. DEFAULT_TASK_FILTER_STATE["page"] = 1
    BY DEF DEFAULT_TASK_FILTER_STATE
  <1>5. \A f \in Fields : \E x \in TaskFilterState : g[f] = x[f]
    BY <1>3, <1>4, DefaultType
  <1>6. g \in TaskFilterState
    BY <1>2, <1>5, Composed
  <1> QED
    BY <1>1, <1>3, <1>6

-----------------------------------------------------------------------------
(* Saved views *)

SavedFields == Fields \ {"tagIds", "page"}

\* A saved view puts back what it was saved with, but for the tags and the page.
LEMMA SavedRestores ==
  ASSUME NEW k, NEW s0 \in TaskFilterState, NEW v0 \in TaskViewUrlState, k = Keeping(s0, v0), NEW s \in TaskFilterState
  PROVE  /\ savedViewFilters(k.input, s) = Restored(k, s).filters
         /\ savedViewDisplay(k.input) = Restored(k, s).view
         /\ Restored(k, s) \in PageState
  <1>1. k.input = pageStateToSavedViewInput(s0, v0) /\ k.from.filters = s0 /\ k.from.view = v0
    BY DEF Keeping
  <1>2. PICK saved : saved = pageStateToSavedViewInput(s0, v0)
    OBVIOUS
  <1>3. PICK g : g = savedViewFilters(saved, s)
    OBVIOUS
  <1>4. PICK t : t = [s0 EXCEPT !.tagIds = s.tagIds, !.page = 1]
    OBVIOUS
  <1>5. t \in TaskFilterState /\ \A f \in Fields : t[f] = IF f = "tagIds" THEN s[f] ELSE IF f = "page" THEN 1 ELSE s0[f]
    <2>1. s.tagIds \in SUBSET TagIds
      BY DEF TaskFilterState
    <2>2. PICK t1 : t1 = [s0 EXCEPT !.tagIds = s.tagIds]
      OBVIOUS
    <2>3. t1 \in TaskFilterState
      BY <2>1, <2>2 DEF TaskFilterState
    <2>4. t = [t1 EXCEPT !.page = 1]
      BY <1>4, <2>2
    <2>5. t \in TaskFilterState
      BY <2>3, <2>4 DEF TaskFilterState
    <2>6. \A f \in Fields : t1[f] = IF f = "tagIds" THEN s[f] ELSE s0[f]
      BY <2>2, FieldsOfState
    <2>7. \A f \in Fields : t[f] = IF f = "page" THEN 1 ELSE t1[f]
      BY <2>3, <2>4, FieldsOfState
    <2> QED
      BY <2>5, <2>6, <2>7
  <1>6. /\ DOMAIN saved.filtersJson = SavedFields \ {"sortBy", "sortOrder"}
        /\ DOMAIN saved.sortJson = {"sortBy", "sortOrder"}
        /\ \A f \in DOMAIN saved.filtersJson : saved.filtersJson[f] = s0[f]
        /\ \A f \in DOMAIN saved.sortJson : saved.sortJson[f] = s0[f]
    BY <1>2 DEF pageStateToSavedViewInput, SavedFields, Fields
  <1>7. g = [f \in Fields |-> g[f]] /\ \A f \in Fields : g[f] = t[f]
    <2>1. DOMAIN g = Fields /\ g = [f \in Fields |-> g[f]]
      BY <1>3, FieldsOfState DEF savedViewFilters
    <2>2. ASSUME NEW f \in Fields PROVE g[f] = t[f]
      <3>1. g[f] = CASE f \in DOMAIN saved.filtersJson -> saved.filtersJson[f]
                     [] f \in DOMAIN saved.sortJson -> saved.sortJson[f]
                     [] f = "page" -> 1
                     [] OTHER -> s[f]
        BY <1>3, FieldsOfState DEF savedViewFilters
      <3>2. CASE f = "page"
        BY <1>5, <1>6, <3>1, <3>2 DEF SavedFields
      <3>3. CASE f = "tagIds"
        BY <1>5, <1>6, <3>1, <3>3 DEF SavedFields
      <3>4. CASE f \in {"sortBy", "sortOrder"}
        BY <1>5, <1>6, <3>1, <3>4 DEF SavedFields
      <3>5. CASE f \in SavedFields \ {"sortBy", "sortOrder"}
        BY <1>5, <1>6, <3>1, <3>5 DEF SavedFields
      <3> QED
        BY <3>2, <3>3, <3>4, <3>5 DEF SavedFields
    <2> QED
      BY <2>1, <2>2
  <1>8. g = t
    <2>1. t = [f \in Fields |-> t[f]]
      BY <1>5, FieldsOfState
    <2> QED
      BY <1>7, <2>1
  <1>9. /\ savedViewDisplay(saved) = [v0 EXCEPT !.groupBy = IF v0.view = "timeline" THEN @ ELSE "project"]
        /\ [v0 EXCEPT !.groupBy = IF v0.view = "timeline" THEN @ ELSE "project"] \in TaskViewUrlState
    <2>1. PICK x : x = [v0 EXCEPT !.groupBy = IF v0.view = "timeline" THEN @ ELSE "project"]
      OBVIOUS
    <2>2. x \in TaskViewUrlState /\ x.view = v0.view /\ x.calMode = v0.calMode /\ x.tlZoom = v0.tlZoom
          /\ x.groupBy = (IF v0.view = "timeline" THEN v0.groupBy ELSE "project")
      BY <2>1 DEF TaskViewUrlState, Groupings
    <2>3. PICK y : y = savedViewDisplay(saved)
      OBVIOUS
    <2>4. y.view = v0.view /\ y.calMode = v0.calMode /\ y.tlZoom = v0.tlZoom
          /\ y.groupBy = (IF v0.view = "timeline" THEN v0.groupBy ELSE "project")
      BY <1>2, <2>3 DEF savedViewDisplay, pageStateToSavedViewInput, OneOf, TaskViewUrlState, Groupings
    <2>5. y \in TaskViewUrlState
      BY <2>2, <2>3, <2>4 DEF savedViewDisplay, TaskViewUrlState
    <2>6. x = y
      BY <2>2, <2>4, <2>5 DEF TaskViewUrlState
    <2> QED
      BY <2>1, <2>2, <2>3, <2>6
  <1>10. Restored(k, s) = [filters |-> t, view |-> [v0 EXCEPT !.groupBy = IF v0.view = "timeline" THEN @ ELSE "project"]]
    BY <1>1, <1>4 DEF Restored
  <1> QED
    BY <1>1, <1>2, <1>3, <1>5, <1>8, <1>9, <1>10 DEF PageState

-----------------------------------------------------------------------------
(* The page *)

\* What a patch may put into each field.
TypedOn(g, D) ==
    /\ "search" \in D => g["search"] \in Phrases
    /\ "projectId" \in D => g["projectId"] \in Maybe(PlanIds)
    /\ "statuses" \in D => g["statuses"] \in SUBSET TASK_STATUSES
    /\ "priorities" \in D => g["priorities"] \in SUBSET TASK_PRIORITIES
    /\ "assigneeId" \in D => g["assigneeId"] \in Maybe(PersonIds)
    /\ "createdById" \in D => g["createdById"] \in Maybe(PersonIds)
    /\ "due" \in D => g["due"] \in Maybe(Dues)
    /\ "deadlineFrom" \in D => g["deadlineFrom"] \in DaysOr0
    /\ "deadlineTo" \in D => g["deadlineTo"] \in DaysOr0
    /\ "overdue" \in D => g["overdue"] \in BOOLEAN
    /\ "unassigned" \in D => g["unassigned"] \in BOOLEAN
    /\ "includeArchived" \in D => g["includeArchived"] \in BOOLEAN
    /\ "includeDeleted" \in D => g["includeDeleted"] \in BOOLEAN
    /\ "tagIds" \in D => g["tagIds"] \in SUBSET TagIds
    /\ "sortBy" \in D => g["sortBy"] \in TASK_SORT_FIELDS
    /\ "sortOrder" \in D => g["sortOrder"] \in Orders
    /\ "page" \in D => g["page"] \in Nat \ {0}

LEMMA StateTyped ==
  ASSUME NEW s, s = [f \in Fields |-> s[f]]
  PROVE  s \in TaskFilterState <=> TypedOn(s, Fields)
  <1>1. ASSUME s \in TaskFilterState PROVE TypedOn(s, Fields)
    BY <1>1 DEF TaskFilterState, TypedOn
  <1>2. ASSUME TypedOn(s, Fields) PROVE s \in TaskFilterState
    BY <1>2 DEF TaskFilterState, TypedOn, Fields
  <1> QED
    BY <1>1, <1>2

LEMMA TypedPatch ==
  ASSUME NEW s \in TaskFilterState, NEW patch, TypedOn(patch, DOMAIN patch)
  PROVE  Patched(s, patch) \in TaskFilterState
  <1>1. PICK g : g = Patched(s, patch)
    OBVIOUS
  <1>2. g = [f \in Fields |-> g[f]]
    BY <1>1, FieldsOfState DEF Patched
  <1>3. \A f \in Fields : g[f] = IF f \in DOMAIN patch THEN patch[f] ELSE IF f = "page" THEN 1 ELSE s[f]
    BY <1>1, FieldsOfState DEF Patched
  <1>4. TypedOn(s, Fields)
    BY FieldsOfState, StateTyped
  <1>5. TypedOn(g, Fields)
    BY <1>3, <1>4 DEF TypedOn, Fields
  <1> QED
    BY <1>1, <1>2, <1>5, StateTyped

\* A written address keeps what was asked for.
LEMMA PageWrites ==
  ASSUME NEW s \in TaskFilterState, NEW v \in TaskViewUrlState, NEW w \in PageState, w.filters = s, w.view = v,
         replacePageUrl(s, v, w)
  PROVE  heading' \in Address /\ meant' \in PageState /\ AddressKeepsPage' /\ onScreen' = onScreen
  <1>1. heading' = serializeTaskPageUrlState(s, v) /\ meant' = w /\ onScreen' = onScreen
    BY DEF replacePageUrl
  <1>2. heading' \in Address
    BY <1>1, Serialized
  <1>3. parseTaskFilterState(heading') = Trimmed(s) /\ parseTaskViewUrlState(heading') = v
    BY <1>1, RoundTrip
  <1>4. AddressKeepsPage'
    BY <1>1, <1>3, TrimmedType DEF AddressKeepsPage
  <1> QED
    BY <1>1, <1>2, <1>4

LEMMA OnScreenType ==
  ASSUME onScreen \in Address
  PROVE  filterState \in TaskFilterState /\ viewState \in TaskViewUrlState
  BY ParseType DEF filterState, viewState

LEMMA PatchWrites ==
  ASSUME onScreen \in Address, NEW patch, TypedOn(patch, DOMAIN patch), setFilterPatch(patch)
  PROVE  heading' \in Address /\ meant' \in PageState /\ AddressKeepsPage' /\ onScreen' = onScreen
  <1>1. PICK next : next = Patched(filterState, patch)
    OBVIOUS
  <1>2. next \in TaskFilterState
    BY <1>1, OnScreenType, TypedPatch
  <1>3. PICK w : w = [filters |-> next, view |-> viewState]
    OBVIOUS
  <1>4. w \in PageState /\ w.filters = next /\ w.view = viewState
    BY <1>2, <1>3, OnScreenType DEF PageState
  <1>5. replacePageUrl(next, viewState, w)
    BY <1>1, <1>3 DEF setFilterPatch
  <1> QED
    BY <1>2, <1>4, <1>5, OnScreenType, PageWrites

LEMMA ViewWrites ==
  ASSUME onScreen \in Address, NEW v \in TaskViewUrlState, setViewPatch(v)
  PROVE  heading' \in Address /\ meant' \in PageState /\ AddressKeepsPage' /\ onScreen' = onScreen
  <1>1. PICK w : w = [filters |-> filterState, view |-> v]
    OBVIOUS
  <1>2. w \in PageState /\ w.filters = filterState /\ w.view = v
    BY <1>1, OnScreenType DEF PageState
  <1> QED
    BY <1>1, <1>2, OnScreenType, PageWrites DEF setViewPatch

\* The chips there are.
LEMMA ChipKinds ==
  ASSUME NEW s, NEW chip \in describeActiveFilterChips(s)
  PROVE  \/ chip[1] = "status" /\ chip[2] \in s.statuses
         \/ chip[1] = "priority" /\ chip[2] \in s.priorities
         \/ chip[1] \in ValueFields /\ s[chip[1]] # Unset
         \/ chip[1] = "deadline" /\ (s.deadlineFrom # 0 \/ s.deadlineTo # 0)
         \/ chip[1] \in FlagFields /\ s[chip[1]]
  BY DEF describeActiveFilterChips, When

LEMMA ChipRemoved ==
  ASSUME NEW s \in TaskFilterState, NEW chip \in describeActiveFilterChips(s)
  PROVE  removeFilterChip(s, chip) \in TaskFilterState
  <1>1. PICK first : first = [s EXCEPT !.page = 1]
    OBVIOUS
  <1>2. first \in TaskFilterState
    BY <1>1 DEF TaskFilterState
  <1>3. CASE chip[1] = "status"
    <2>1. removeFilterChip(s, chip) = [first EXCEPT !.statuses = @ \ {chip[2]}]
      BY <1>1, <1>3 DEF removeFilterChip, ValueFields, FlagFields
    <2> QED
      BY <1>2, <2>1 DEF TaskFilterState
  <1>4. CASE chip[1] = "priority"
    <2>1. removeFilterChip(s, chip) = [first EXCEPT !.priorities = @ \ {chip[2]}]
      BY <1>1, <1>4 DEF removeFilterChip, ValueFields, FlagFields
    <2> QED
      BY <1>2, <2>1 DEF TaskFilterState
  <1>5. CASE chip[1] = "deadline"
    <2>1. PICK c1 : c1 = [first EXCEPT !.deadlineFrom = 0]
      OBVIOUS
    <2>2. removeFilterChip(s, chip) = [c1 EXCEPT !.deadlineTo = 0]
      BY <1>1, <1>5, <2>1 DEF removeFilterChip, ValueFields, FlagFields
    <2>3. 0 \in DaysOr0
      BY QueryAssumption DEF DaysOr0
    <2>4. c1 \in TaskFilterState
      BY <1>2, <2>1, <2>3 DEF TaskFilterState
    <2> QED
      BY <2>2, <2>3, <2>4 DEF TaskFilterState
  <1>6. CASE chip[1] \in ValueFields
    <2>1. removeFilterChip(s, chip) = [first EXCEPT ![chip[1]] = Unset]
      BY <1>1, <1>6 DEF removeFilterChip, ValueFields, FlagFields
    <2>2. Unset \in Phrases /\ \A S : Unset \in Maybe(S)
      BY QueryAssumption DEF Maybe
    <2>3. /\ [first EXCEPT !.search = Unset] \in TaskFilterState
          /\ [first EXCEPT !.projectId = Unset] \in TaskFilterState
          /\ [first EXCEPT !.assigneeId = Unset] \in TaskFilterState
          /\ [first EXCEPT !.createdById = Unset] \in TaskFilterState
          /\ [first EXCEPT !.due = Unset] \in TaskFilterState
      BY <1>2, <2>2 DEF TaskFilterState
    <2> QED
      BY <1>6, <2>1, <2>3 DEF ValueFields
  <1>7. CASE chip[1] \in FlagFields
    <2>1. removeFilterChip(s, chip) = [first EXCEPT ![chip[1]] = FALSE]
      BY <1>1, <1>7 DEF removeFilterChip, ValueFields, FlagFields
    <2>2. /\ [first EXCEPT !.overdue = FALSE] \in TaskFilterState
          /\ [first EXCEPT !.unassigned = FALSE] \in TaskFilterState
          /\ [first EXCEPT !.includeArchived = FALSE] \in TaskFilterState
          /\ [first EXCEPT !.includeDeleted = FALSE] \in TaskFilterState
      BY <1>2 DEF TaskFilterState
    <2> QED
      BY <1>7, <2>1, <2>2 DEF FlagFields
  <1> QED
    BY <1>3, <1>4, <1>5, <1>6, <1>7, ChipKinds

KeptOK(k) == k # <<>> => k[1].from \in PageState /\ k = <<Keeping(k[1].from.filters, k[1].from.view)>>
PageInv == PageTypeOK /\ AddressKeepsPage

LEMMA InvIsTyped ==
  PageTypeOK <=>
    /\ viewer \in ViewerType /\ tasksThere \in Workspaces /\ onScreen \in Address /\ heading \in Address
    /\ searchInput \in Phrases /\ typing \in BOOLEAN /\ meant \in PageState /\ clicks \in 0..MaxClicks
    /\ KeptOK(kept)
  BY DEF PageTypeOK, KeptOK

LEMMA KeepingOK ==
  ASSUME NEW s \in TaskFilterState, NEW v \in TaskViewUrlState
  PROVE  KeptOK(<<Keeping(s, v)>>)
  <1>1. PICK x : x = Keeping(s, v)
    OBVIOUS
  <1>2. x.from.filters = s /\ x.from.view = v /\ x.from \in PageState
    BY <1>1 DEF Keeping, PageState
  <1> QED
    BY <1>1, <1>2 DEF KeptOK

LEMMA PageStarts == PageInit => PageInv
  <1> SUFFICES ASSUME PageInit PROVE PageInv
    OBVIOUS
  <1>1. onScreen \in Address /\ heading = onScreen /\ viewer \in ViewerType /\ tasksThere \in Workspaces
    BY PageAssumption DEF PageInit
  <1>2. filterState \in TaskFilterState /\ viewState \in TaskViewUrlState
    BY <1>1, OnScreenType
  <1>3. meant \in PageState /\ meant.filters = filterState /\ meant.view = viewState
    BY <1>2 DEF PageInit, PageState
  <1>4. searchInput \in Phrases /\ typing \in BOOLEAN /\ clicks \in 0..MaxClicks
    <2>1. filterState.search \in Phrases
      BY <1>2 DEF TaskFilterState
    <2>2. searchInput = filterState.search /\ typing = FALSE /\ clicks = 0
      BY DEF PageInit
    <2>3. typing \in BOOLEAN
      BY <2>2
    <2> QED
      BY <2>1, <2>2, <2>3, PageAssumption
  <1>5. KeptOK(kept)
    <2>1. CASE kept = <<>>
      BY <2>1 DEF KeptOK
    <2>2. CASE kept # <<>>
      <3>1. PICK a \in Openings : kept = <<Keeping(parseTaskFilterState(a), parseTaskViewUrlState(a))>>
        BY <2>2 DEF PageInit
      <3>2. parseTaskFilterState(a) \in TaskFilterState /\ parseTaskViewUrlState(a) \in TaskViewUrlState
        BY PageAssumption, ParseType
      <3> QED
        BY <3>1, <3>2, KeepingOK
    <2> QED
      BY <2>1, <2>2
  <1>6. AddressKeepsPage
    BY <1>1, <1>3 DEF AddressKeepsPage, filterState, viewState
  <1> QED
    BY <1>1, <1>3, <1>4, <1>5, <1>6, InvIsTyped DEF PageInv

\* What a control leaves alone.
LEMMA ControlKeeps ==
  ASSUME PageInv, Control, UNCHANGED searchInput,
         heading' \in Address, meant' \in PageState, AddressKeepsPage', onScreen' = onScreen
  PROVE  PageInv'
  <1>1. /\ viewer' = viewer /\ tasksThere' = tasksThere /\ kept' = kept /\ typing' = typing
        /\ searchInput' = searchInput /\ clicks' \in 0..MaxClicks
    BY PageAssumption DEF Control, UseControl, PageInv, PageTypeOK
  <1>2. KeptOK(kept)
    BY InvIsTyped DEF PageInv
  <1>3. PageTypeOK'
    BY <1>1, <1>2 DEF PageInv, PageTypeOK, KeptOK
  <1> QED
    BY <1>3 DEF PageInv

LEMMA PickKeeps ==
  ASSUME PageInv, NEW patch, TypedOn(patch, DOMAIN patch), Pick(patch)
  PROVE  PageInv'
  <1>1. onScreen \in Address
    BY DEF PageInv, PageTypeOK
  <1> QED
    BY <1>1, PatchWrites, ControlKeeps DEF Pick

\* One field, or several, put to a value it may have.
LEMMA FieldsTyped ==
  /\ \A x \in Phrases : TypedOn([search |-> x], {"search"})
  /\ \A x \in SUBSET TASK_STATUSES : TypedOn([statuses |-> x], {"statuses"})
  /\ \A x \in SUBSET TASK_PRIORITIES : TypedOn([priorities |-> x], {"priorities"})
  /\ \A x \in SUBSET TagIds : TypedOn([tagIds |-> x], {"tagIds"})
  /\ \A x \in Maybe(PlanIds) : TypedOn([projectId |-> x], {"projectId"})
  /\ \A b \in BOOLEAN, x \in Maybe(PersonIds) :
        TypedOn([unassigned |-> b, assigneeId |-> x], {"unassigned", "assigneeId"})
  /\ \A x \in Maybe(PersonIds) : TypedOn([createdById |-> x], {"createdById"})
  /\ \A x \in TASK_SORT_FIELDS : TypedOn([sortBy |-> x], {"sortBy"})
  /\ \A x \in Orders : TypedOn([sortOrder |-> x], {"sortOrder"})
  /\ \A x \in BOOLEAN : TypedOn([includeArchived |-> x], {"includeArchived"})
  /\ \A x \in BOOLEAN : TypedOn([includeDeleted |-> x], {"includeDeleted"})
  /\ \A x \in Nat \ {0} : TypedOn([page |-> x], {"page"})
  BY DEF TypedOn

LEMMA DatesTyped ==
  /\ \A x \in Maybe(Dues), b \in BOOLEAN, c \in BOOLEAN :
        TypedOn([due |-> x, overdue |-> b, unassigned |-> c], {"due", "overdue", "unassigned"})
  /\ \A x \in Maybe(Dues), b \in BOOLEAN, c \in BOOLEAN :
        TypedOn([due |-> x, overdue |-> b, unassigned |-> c, deadlineFrom |-> 0, deadlineTo |-> 0],
                {"due", "overdue", "unassigned", "deadlineFrom", "deadlineTo"})
  /\ \A d \in DaysOr0 : TypedOn([deadlineFrom |-> d, due |-> Unset, overdue |-> FALSE], {"deadlineFrom", "due", "overdue"})
  /\ \A d \in DaysOr0 : TypedOn([deadlineTo |-> d, due |-> Unset, overdue |-> FALSE], {"deadlineTo", "due", "overdue"})
  <1>1. 0 \in DaysOr0 /\ Unset \in Maybe(Dues)
    BY QueryAssumption DEF DaysOr0, Maybe
  <1> QED
    BY <1>1 DEF TypedOn

LEMMA MenusKeep ==
  ASSUME PageInv,
         \/ PickStatus \/ PickPriority \/ PickTag \/ PickProject \/ PickAssignee \/ PickCreator \/ PickSort
         \/ PickOrder \/ ToggleArchived \/ ToggleDeleted
  PROVE  PageInv'
  <1> USE PageAssumption
  <1>1. ASSUME PickStatus PROVE PageInv'
    <2>1. PICK x \in Maybe(OfferedStatuses) : Pick([statuses |-> {x} \ {Unset}])
      BY <1>1 DEF PickStatus
    <2>2. {x} \ {Unset} \in SUBSET TASK_STATUSES
      BY DEF Maybe
    <2> QED
      BY <2>1, <2>2, FieldsTyped, PickKeeps
  <1>2. ASSUME PickPriority PROVE PageInv'
    <2>1. PICK x \in Maybe(OfferedPriorities) : Pick([priorities |-> {x} \ {Unset}])
      BY <1>2 DEF PickPriority
    <2>2. {x} \ {Unset} \in SUBSET TASK_PRIORITIES
      BY DEF Maybe
    <2> QED
      BY <2>1, <2>2, FieldsTyped, PickKeeps
  <1>3. ASSUME PickTag PROVE PageInv'
    <2>1. PICK x \in Maybe(TagIds) : Pick([tagIds |-> {x} \ {Unset}])
      BY <1>3 DEF PickTag
    <2>2. {x} \ {Unset} \in SUBSET TagIds
      BY DEF Maybe
    <2> QED
      BY <2>1, <2>2, FieldsTyped, PickKeeps
  <1>4. ASSUME PickProject PROVE PageInv'
    BY <1>4, FieldsTyped, PickKeeps DEF PickProject
  <1>5. ASSUME PickAssignee PROVE PageInv'
    <2>1. PICK b \in BOOLEAN, x \in Maybe(PersonIds) : Pick([unassigned |-> b, assigneeId |-> x])
      <3>1. Unset \in Maybe(PersonIds)
        BY DEF Maybe
      <3> QED
        BY <1>5, <3>1 DEF PickAssignee
    <2> QED
      BY <2>1, FieldsTyped, PickKeeps
  <1>6. ASSUME PickCreator PROVE PageInv'
    BY <1>6, FieldsTyped, PickKeeps DEF PickCreator
  <1>7. ASSUME PickSort PROVE PageInv'
    BY <1>7, FieldsTyped, PickKeeps DEF PickSort
  <1>8. ASSUME PickOrder PROVE PageInv'
    BY <1>8, FieldsTyped, PickKeeps DEF PickOrder
  <1>9. ASSUME ToggleArchived PROVE PageInv'
    <2>1. PICK b \in BOOLEAN : Pick([includeArchived |-> b])
      BY <1>9 DEF ToggleArchived
    <2> QED
      BY <2>1, FieldsTyped, PickKeeps
  <1>10. ASSUME ToggleDeleted PROVE PageInv'
    <2>1. PICK b \in BOOLEAN : Pick([includeDeleted |-> b])
      BY <1>10 DEF ToggleDeleted
    <2> QED
      BY <2>1, FieldsTyped, PickKeeps
  <1> QED
    BY <1>1, <1>2, <1>3, <1>4, <1>5, <1>6, <1>7, <1>8, <1>9, <1>10

LEMMA DatesKeep ==
  ASSUME PageInv, PickDeadline \/ EnterDay
  PROVE  PageInv'
  <1>1. ASSUME PickDeadline PROVE PageInv'
    <2>1. PICK mode \in Maybe(Dues) \cup {"range", "unassigned"} : setDeadlineMode(mode)
      BY <1>1 DEF PickDeadline
    <2>2. PICK x : x = OneOf(mode, Dues, Unset)
      OBVIOUS
    <2>3. x \in Maybe(Dues)
      BY <2>2 DEF OneOf, Maybe
    <2>4. PICK b \in BOOLEAN, c \in BOOLEAN : b = (mode = "overdue") /\ c = (mode = "unassigned")
      OBVIOUS
    <2>5. \/ Pick([due |-> x, overdue |-> b, unassigned |-> c])
          \/ Pick([due |-> x, overdue |-> b, unassigned |-> c, deadlineFrom |-> 0, deadlineTo |-> 0])
      BY <2>1, <2>2, <2>4 DEF setDeadlineMode
    <2> QED
      BY <2>3, <2>5, DatesTyped, PickKeeps
  <1>2. ASSUME EnterDay PROVE PageInv'
    <2>1. PICK d \in DaysOr0 : \/ Pick([deadlineFrom |-> d, due |-> Unset, overdue |-> FALSE])
                               \/ Pick([deadlineTo |-> d, due |-> Unset, overdue |-> FALSE])
      BY <1>2 DEF EnterDay
    <2> QED
      BY <2>1, DatesTyped, PickKeeps
  <1> QED
    BY <1>1, <1>2

LEMMA SearchKeeps ==
  ASSUME PageInv, (\E x \in Phrases : Type(x)) \/ applySearch
  PROVE  PageInv'
  <1>1. ASSUME NEW x \in Phrases, Type(x) PROVE PageInv'
    <2>1. /\ viewer' = viewer /\ tasksThere' = tasksThere /\ kept' = kept /\ typing' = TRUE /\ searchInput' = x
          /\ onScreen' = onScreen /\ heading' = heading /\ meant' = meant /\ clicks' \in 0..MaxClicks
      BY <1>1, PageAssumption DEF Type, UseControl, PageInv, PageTypeOK
    <2>2. typing' \in BOOLEAN
      BY <2>1
    <2>3. PageTypeOK'
      BY <2>1, <2>2, <1>1 DEF PageInv, PageTypeOK
    <2>4. AddressKeepsPage'
      BY <2>1 DEF PageInv, AddressKeepsPage
    <2> QED
      BY <2>3, <2>4 DEF PageInv
  <1>2. ASSUME applySearch PROVE PageInv'
    <2>1. trim[searchInput] \in Phrases
      BY QueryAssumption DEF PageInv, PageTypeOK
    <2>2. TypedOn([search |-> trim[searchInput]], {"search"})
      BY <2>1, FieldsTyped
    <2>3. heading' \in Address /\ meant' \in PageState /\ AddressKeepsPage' /\ onScreen' = onScreen
      BY <1>2, <2>2, PatchWrites DEF applySearch, PageInv, PageTypeOK
    <2>4. /\ viewer' = viewer /\ tasksThere' = tasksThere /\ kept' = kept /\ typing' = FALSE /\ clicks' = clicks
          /\ searchInput' = searchInput
      BY <1>2 DEF applySearch
    <2>5. typing' \in BOOLEAN
      BY <2>4
    <2>6. PageTypeOK'
      BY <2>3, <2>4, <2>5 DEF PageInv, PageTypeOK
    <2> QED
      BY <2>3, <2>6 DEF PageInv
  <1> QED
    BY <1>1, <1>2

LEMMA WholePatch == \A s \in TaskFilterState : TypedOn(s, DOMAIN s)
  BY FieldsOfState, StateTyped

LEMMA ListKeeps ==
  ASSUME PageInv, RemoveChip \/ clearAll \/ setViewPreset \/ ClearFilters \/ TurnPage
  PROVE  PageInv'
  <1>1. filterState \in TaskFilterState
    BY OnScreenType DEF PageInv, PageTypeOK
  <1>2. ASSUME RemoveChip PROVE PageInv'
    <2>1. PICK chip \in describeActiveFilterChips(filterState) : Pick(removeFilterChip(filterState, chip))
      BY <1>2 DEF RemoveChip
    <2>2. removeFilterChip(filterState, chip) \in TaskFilterState
      BY <1>1, ChipRemoved
    <2> QED
      BY <2>1, <2>2, WholePatch, PickKeeps
  <1>3. ASSUME clearAll PROVE PageInv'
    <2>1. heading' \in Address /\ meant' \in PageState /\ AddressKeepsPage' /\ onScreen' = onScreen
      BY <1>3, DefaultType, WholePatch, PatchWrites DEF clearAll, PageInv, PageTypeOK
    <2>2. /\ viewer' = viewer /\ tasksThere' = tasksThere /\ kept' = kept /\ typing' = typing
          /\ searchInput' = Unset /\ clicks' \in 0..MaxClicks
      BY <1>3, PageAssumption DEF clearAll, Control, UseControl, PageInv, PageTypeOK
    <2>3. Unset \in Phrases
      BY QueryAssumption
    <2>4. PageTypeOK'
      BY <2>1, <2>2, <2>3 DEF PageInv, PageTypeOK
    <2> QED
      BY <2>1, <2>4 DEF PageInv
  <1>4. ASSUME setViewPreset PROVE PageInv'
    <2>1. PICK preset : Pick(taskListViewPresetToFilterPatch(preset))
      BY <1>4 DEF setViewPreset
    <2>2. PICK b \in BOOLEAN, c \in BOOLEAN : b = (preset = "trash") /\ c = (preset = "archived")
      OBVIOUS
    <2>3. Pick([includeDeleted |-> b, includeArchived |-> c])
      BY <2>1, <2>2 DEF taskListViewPresetToFilterPatch
    <2>4. TypedOn([includeDeleted |-> b, includeArchived |-> c], {"includeDeleted", "includeArchived"})
      BY DEF TypedOn
    <2> QED
      BY <2>3, <2>4, PickKeeps
  <1>5. ASSUME ClearFilters PROVE PageInv'
    <2>1. PICK patch : patch = [f \in DOMAIN filterState \ {"tagIds", "sortBy", "sortOrder"} |-> DEFAULT_TASK_FILTER_STATE[f]]
      OBVIOUS
    <2>2. DOMAIN patch \subseteq Fields /\ \A f \in DOMAIN patch : patch[f] = DEFAULT_TASK_FILTER_STATE[f]
      BY <1>1, <2>1, FieldsOfState
    <2>3. TypedOn(DEFAULT_TASK_FILTER_STATE, Fields)
      BY DefaultType, WholePatch, FieldsOfState
    <2>4. TypedOn(patch, DOMAIN patch)
      BY <2>2, <2>3 DEF TypedOn, Fields
    <2> QED
      BY <1>5, <2>1, <2>4, PickKeeps DEF ClearFilters
  <1>6. ASSUME TurnPage PROVE PageInv'
    <2>1. PICK n \in 1..Total : Pick([page |-> n])
      BY <1>6 DEF TurnPage
    <2>2. Total \in Nat
      <3>1. IsFiniteSet(tasksThere)
        BY PageAssumption DEF PageInv, PageTypeOK
      <3>2. listTasks(tasksThere, viewer, filterState) \subseteq tasksThere
        BY DEF listTasks, Selected
      <3> QED
        BY <3>1, <3>2, FS_Subset, FS_CardinalityType DEF Total
    <2>3. n \in Nat \ {0}
      BY <2>2
    <2> QED
      BY <2>1, <2>3, FieldsTyped, PickKeeps
  <1> QED
    BY <1>2, <1>3, <1>4, <1>5, <1>6

LEMMA ViewsKeep ==
  ASSUME PageInv, SwitchView \/ AdjustView \/ SaveView \/ applySavedView
  PROVE  PageInv'
  <1>1. filterState \in TaskFilterState /\ viewState \in TaskViewUrlState /\ onScreen \in Address
    BY OnScreenType DEF PageInv, PageTypeOK
  <1>2. ASSUME NEW v \in TaskViewUrlState, Control, setViewPatch(v), UNCHANGED searchInput PROVE PageInv'
    BY <1>1, <1>2, ViewWrites, ControlKeeps
  <1>3. ASSUME SwitchView PROVE PageInv'
    <2>1. PICK m \in TASK_VIEW_MODES : Control /\ setViewPatch([viewState EXCEPT !.view = m]) /\ UNCHANGED searchInput
      BY <1>3 DEF SwitchView
    <2>2. [viewState EXCEPT !.view = m] \in TaskViewUrlState
      BY <1>1 DEF TaskViewUrlState
    <2> QED
      BY <1>2, <2>1, <2>2
  <1>4. ASSUME AdjustView PROVE PageInv'
    <2>1. \A c \in CalModes : [viewState EXCEPT !.calMode = c] \in TaskViewUrlState
      BY <1>1 DEF TaskViewUrlState
    <2>2. \A z \in Zooms : [viewState EXCEPT !.tlZoom = z] \in TaskViewUrlState
      BY <1>1 DEF TaskViewUrlState
    <2>3. \A g \in Groupings : [viewState EXCEPT !.groupBy = g] \in TaskViewUrlState
      BY <1>1 DEF TaskViewUrlState
    <2> QED
      BY <1>2, <1>4, <2>1, <2>2, <2>3 DEF AdjustView
  <1>5. ASSUME SaveView PROVE PageInv'
    <2>1. /\ viewer' = viewer /\ tasksThere' = tasksThere /\ typing' = typing /\ searchInput' = searchInput
          /\ onScreen' = onScreen /\ heading' = heading /\ meant' = meant /\ clicks' \in 0..MaxClicks
          /\ kept' = <<Keeping(filterState, viewState)>>
      BY <1>5, PageAssumption DEF SaveView, UseControl, PageInv, PageTypeOK
    <2>2. KeptOK(kept')
      BY <1>1, <2>1, KeepingOK
    <2>3. PageTypeOK'
      BY <2>1, <2>2 DEF PageInv, PageTypeOK, KeptOK
    <2>4. AddressKeepsPage'
      BY <2>1 DEF PageInv, AddressKeepsPage
    <2> QED
      BY <2>3, <2>4 DEF PageInv
  <1>6. ASSUME applySavedView PROVE PageInv'
    <2>1. PICK k : k = kept[1]
      OBVIOUS
    <2>2. PICK s0 \in TaskFilterState, v0 \in TaskViewUrlState : k = Keeping(s0, v0)
      <3>1. k.from \in PageState /\ kept = <<Keeping(k.from.filters, k.from.view)>>
        BY <1>6, <2>1 DEF applySavedView, PageInv, PageTypeOK
      <3>2. k = Keeping(k.from.filters, k.from.view)
        BY <2>1, <3>1
      <3> QED
        BY <3>1, <3>2 DEF PageState
    <2>3. PICK w : w = Restored(k, filterState)
      OBVIOUS
    <2>4. /\ savedViewFilters(k.input, filterState) = w.filters /\ savedViewDisplay(k.input) = w.view
          /\ w \in PageState
      BY <1>1, <2>2, <2>3, SavedRestores
    <2>5. w.filters \in TaskFilterState /\ w.view \in TaskViewUrlState
      BY <2>4 DEF PageState
    <2>6. replacePageUrl(w.filters, w.view, w) /\ Control /\ UNCHANGED searchInput
      BY <1>6, <2>1, <2>3, <2>4 DEF applySavedView
    <2> QED
      BY <2>4, <2>5, <2>6, PageWrites, ControlKeeps
  <1> QED
    BY <1>3, <1>4, <1>5, <1>6

LEMMA OthersKeep ==
  ASSUME PageInv, Render \/ Elsewhere \/ UNCHANGED pageVars
  PROVE  PageInv'
  <1>1. ASSUME Render PROVE PageInv'
    <2>1. PICK search : search = parseTaskFilterState(heading).search
      OBVIOUS
    <2>2. search \in Phrases
      BY <2>1, ParseType DEF PageInv, PageTypeOK, TaskFilterState
    <2>3. searchInput' \in Phrases
      BY <1>1, <2>1, <2>2 DEF Render, PageInv, PageTypeOK
    <2>4. /\ viewer' = viewer /\ tasksThere' = tasksThere /\ typing' = typing /\ kept' = kept
          /\ onScreen' = heading /\ heading' = heading /\ meant' = meant /\ clicks' = clicks
      BY <1>1 DEF Render
    <2>5. PageTypeOK'
      BY <2>3, <2>4 DEF PageInv, PageTypeOK
    <2>6. AddressKeepsPage'
      BY <2>4 DEF PageInv, AddressKeepsPage
    <2> QED
      BY <2>5, <2>6 DEF PageInv
  <1>2. ASSUME Elsewhere PROVE PageInv'
    <2>1. PageTypeOK'
      BY <1>2 DEF Elsewhere, PageInv, PageTypeOK
    <2>2. AddressKeepsPage'
      BY <1>2 DEF Elsewhere, PageInv, AddressKeepsPage
    <2> QED
      BY <2>1, <2>2 DEF PageInv
  <1>3. ASSUME UNCHANGED pageVars PROVE PageInv'
    BY <1>3 DEF pageVars, PageInv, PageTypeOK, AddressKeepsPage
  <1> QED
    BY <1>1, <1>2, <1>3

LEMMA PageSteps == PageInv /\ [PageNext]_pageVars => PageInv'
  BY MenusKeep, DatesKeep, SearchKeeps, ListKeeps, ViewsKeep, OthersKeep DEF PageNext

LEMMA PageHolds == PageSpec => []PageInv
  BY PageStarts, PageSteps, PTL DEF PageSpec

-----------------------------------------------------------------------------
(* What the queries select *)

LEMMA RowsTyped ==
  ASSUME NEW r \in TaskRow
  PROVE  /\ r.status \in TASK_STATUSES /\ r.staged \in BOOLEAN /\ r.priority \in TASK_PRIORITIES
         /\ r.project \in Maybe(PlanIds) /\ r.assignee \in Maybe(PersonIds) /\ r.creator \in PersonIds
         /\ r.start \in Nat /\ r.due \in Nat /\ r.completed \in Nat /\ r.updated \in Nat
         /\ r.tags \subseteq TagIds /\ r.archived \in BOOLEAN /\ r.deleted \in BOOLEAN /\ r.barred \in BOOLEAN
  <1>1. Instants \subseteq Nat
    BY QueryAssumption DEF Instants
  <1> QED
    BY <1>1 DEF TaskRow

LEMMA StateType ==
  ASSUME NEW s \in TaskFilterState
  PROVE  /\ s.search \in Phrases /\ s.projectId \in Maybe(PlanIds) /\ s.statuses \subseteq TASK_STATUSES
         /\ s.priorities \subseteq TASK_PRIORITIES /\ s.assigneeId \in Maybe(PersonIds)
         /\ s.createdById \in Maybe(PersonIds) /\ s.due \in Maybe(Dues)
         /\ s.deadlineFrom \in Nat /\ s.deadlineTo \in Nat /\ s.overdue \in BOOLEAN /\ s.unassigned \in BOOLEAN
         /\ s.includeArchived \in BOOLEAN /\ s.includeDeleted \in BOOLEAN /\ s.tagIds \subseteq TagIds
  <1>1. DaysOr0 \subseteq Nat
    BY QueryAssumption DEF DaysOr0
  <1> QED
    BY <1>1 DEF TaskFilterState

LEMMA Days ==
  \A d \in Nat : /\ Midnight(d) \in Nat /\ DayEnd(d) \in Nat /\ Midnight(d) <= DayEnd(d)
                 /\ (Midnight(d) = 0 <=> d = 0)
  BY DEF Midnight, DayEnd

\* The dates a task is asked for, by what is set.
Deadlines(s, r) ==
    /\ r.due # 0
    /\ s.deadlineFrom # 0 => r.due >= Midnight(s.deadlineFrom)
    /\ s.deadlineTo # 0 => r.due <= Midnight(s.deadlineTo)
DueToday(r) == IsOpen(r) /\ r.due # 0 /\ r.due >= Midnight(Today) /\ r.due <= DayEnd(Today)
DueBefore(r) == IsOpen(r) /\ r.due # 0 /\ r.due < Midnight(Today)
DueLater(r) == IsOpen(r) /\ r.due # 0 /\ r.due > DayEnd(Today)
StatusOf(s, r) == s.statuses = {} \/ r.status \in s.statuses
DatesOf(s, r) ==
    IF s.deadlineFrom # 0 \/ s.deadlineTo # 0 THEN StatusOf(s, r) /\ Deadlines(s, r)
    ELSE IF s.due = "today" THEN DueToday(r)
    ELSE IF s.due = "overdue" \/ s.overdue THEN DueBefore(r)
    ELSE IF s.due = "upcoming" THEN DueLater(r)
    ELSE StatusOf(s, r)

\* Everything else a query asks, the assignee apart.
RestOf(u, s, r) ==
    /\ s.includeDeleted \/ ~r.deleted
    /\ s.includeArchived \/ ~r.archived
    /\ isAdmin(u) \/ ~r.barred
    /\ hasWorkspaceScope(u) \/ u.id \in {r.assignee, r.creator}
    /\ s.projectId # Unset => r.project = s.projectId
    /\ s.priorities # {} => r.priority \in s.priorities
    /\ s.createdById # Unset => r.creator = s.createdById
    /\ trim[s.search] # Unset => trim[s.search] \in r.words
AssigneeOf(s, r) ==
    IF s.unassigned THEN r.assignee = Unset ELSE s.assigneeId # Unset => r.assignee = s.assigneeId

LEMMA QueryDates ==
  ASSUME NEW s \in TaskFilterState, NEW q, NEW r, q.status = s.statuses, q.due = s.due, q.overdue = s.overdue,
         q.deadlineFrom = Midnight(s.deadlineFrom), q.deadlineTo = Midnight(s.deadlineTo), q.span = NoSpan
  PROVE  DatesWhere(q, r) <=> DatesOf(s, r)
  <1>1. /\ q.deadlineFrom # 0 <=> s.deadlineFrom # 0
        /\ q.deadlineTo # 0 <=> s.deadlineTo # 0
    BY StateType, Days
  <1>2. HasStatus(q, r) <=> StatusOf(s, r)
    BY DEF HasStatus, StatusOf
  <1> QED
    BY <1>1, <1>2 DEF DatesWhere, DatesOf, Deadlines, DueToday, DueBefore, DueLater

\* A query made of the filters of the page, but for its statuses and its span.
AsksLike(q, s, d) ==
    /\ q.search = s.search /\ q.projectId = s.projectId /\ q.priority = s.priorities
    /\ q.assigneeId = (IF s.unassigned THEN Unset ELSE Given(s.assigneeId, d))
    /\ q.createdById = s.createdById /\ q.due = s.due
    /\ q.deadlineFrom = Midnight(s.deadlineFrom) /\ q.deadlineTo = Midnight(s.deadlineTo)
    /\ q.overdue = s.overdue /\ q.unassigned = s.unassigned /\ q.includeArchived = s.includeArchived
    /\ q.includeDeleted = s.includeDeleted /\ q.tagIds = s.tagIds

LEMMA QueryWhere ==
  ASSUME NEW s \in TaskFilterState, NEW u \in ViewerType, NEW r, NEW q, AsksLike(q, s, listDefaultAssignee(u))
  PROVE  buildTaskListWhere(u, q, r)
            <=> RestOf(u, s, r) /\ AssigneeOf(s, r) /\ ~Hidden(u, s, r) /\ DatesWhere(q, r)
  <1>1. PICK d : d = listDefaultAssignee(u)
    OBVIOUS
  <1>2. AsksLike(q, s, d)
    BY <1>1
  <1>3. u.id # Unset
    BY QueryAssumption DEF ViewerType
  <1>4. d = IF hasWorkspaceScope(u) THEN u.id ELSE Unset
    BY <1>1 DEF listDefaultAssignee
  <1>5. /\ IF q.unassigned THEN r.assignee = Unset ELSE q.assigneeId # Unset => r.assignee = q.assigneeId
        /\ q.tagIds # {} => r.tags \cap q.tagIds # {}
        <=> AssigneeOf(s, r) /\ ~Hidden(u, s, r)
    <2>1. CASE s.unassigned
      BY <1>2, <2>1 DEF AssigneeOf, Hidden, AsksLike
    <2>2. CASE ~s.unassigned /\ s.assigneeId = Unset
      BY <1>2, <1>3, <1>4, <2>2 DEF AssigneeOf, Hidden, Given, AsksLike
    <2>3. CASE ~s.unassigned /\ s.assigneeId # Unset
      BY <1>2, <2>3 DEF AssigneeOf, Hidden, Given, AsksLike
    <2> QED
      BY <2>1, <2>2, <2>3
  <1>6. buildTaskVisibilityWhere(u, q, r) <=>
            /\ s.includeDeleted \/ ~r.deleted
            /\ s.includeArchived \/ ~r.archived
            /\ isAdmin(u) \/ ~r.barred
            /\ hasWorkspaceScope(u) \/ u.id \in {r.assignee, r.creator}
    BY <1>2 DEF buildTaskVisibilityWhere, AsksLike
  <1> QED
    BY <1>2, <1>5, <1>6 DEF buildTaskListWhere, RestOf, AsksLike

LEMMA ListWhere ==
  ASSUME NEW s \in TaskFilterState, NEW u \in ViewerType, NEW q,
         q = taskFilterStateToListFilters(s, listDefaultAssignee(u))
  PROVE  /\ AsksLike(q, s, listDefaultAssignee(u)) /\ q.status = s.statuses /\ q.span = NoSpan
         /\ \A r : buildTaskListWhere(u, q, r)
                     <=> RestOf(u, s, r) /\ AssigneeOf(s, r) /\ ~Hidden(u, s, r) /\ DatesOf(s, r)
  <1>1. PICK d : d = listDefaultAssignee(u)
    OBVIOUS
  <1>2. AsksLike(q, s, d) /\ q.status = s.statuses /\ q.span = NoSpan
    BY <1>1 DEF taskFilterStateToListFilters, AsksLike
  <1>3. ASSUME NEW r
        PROVE  buildTaskListWhere(u, q, r)
                 <=> RestOf(u, s, r) /\ AssigneeOf(s, r) /\ ~Hidden(u, s, r) /\ DatesOf(s, r)
    <2>1. DatesWhere(q, r) <=> DatesOf(s, r)
      BY <1>2, QueryDates DEF AsksLike
    <2> QED
      BY <1>1, <1>2, <2>1, QueryWhere
  <1> QED
    BY <1>1, <1>2, <1>3

LEMMA ListIs ==
  ASSUME NEW s \in TaskFilterState, NEW u \in ViewerType, NEW rows
  PROVE  listTasks(rows, u, s) =
            {r \in rows : RestOf(u, s, r) /\ AssigneeOf(s, r) /\ ~Hidden(u, s, r) /\ DatesOf(s, r)}
  BY ListWhere DEF listTasks, Selected

LEMMA ExportIs ==
  ASSUME NEW s \in TaskFilterState, NEW u \in ViewerType, NEW rows
  PROVE  exportTasks(rows, u, s) = {r \in rows : RestOf(u, s, r) /\ AssigneeOf(s, r) /\ DatesOf(s, r)}
  <1>1. PICK q : q = taskFilterStateToExportFilters(s)
    OBVIOUS
  <1>2. /\ q.search = s.search /\ q.projectId = s.projectId /\ q.status = s.statuses /\ q.priority = s.priorities
        /\ q.assigneeId = s.assigneeId /\ q.createdById = s.createdById /\ q.due = s.due
        /\ q.deadlineFrom = Midnight(s.deadlineFrom) /\ q.deadlineTo = Midnight(s.deadlineTo)
        /\ q.overdue = s.overdue /\ q.unassigned = s.unassigned /\ q.includeArchived = s.includeArchived
        /\ q.includeDeleted = s.includeDeleted /\ q.tagIds = {} /\ q.span = NoSpan
    BY <1>1 DEF taskFilterStateToExportFilters
  <1>3. ASSUME NEW r
        PROVE  buildTaskListWhere(u, q, r) <=> RestOf(u, s, r) /\ AssigneeOf(s, r) /\ DatesOf(s, r)
    <2>1. DatesWhere(q, r) <=> DatesOf(s, r)
      BY <1>2, QueryDates
    <2> QED
      BY <1>2, <2>1 DEF buildTaskListWhere, buildTaskVisibilityWhere, RestOf, AssigneeOf
  <1> QED
    BY <1>1, <1>3 DEF exportTasks, Selected

LEMMA ExportAgrees ==
  ASSUME NEW s \in TaskFilterState, NEW u \in ViewerType, NEW rows, IsFiniteSet(rows)
  PROVE  ExportHoldsList(rows, u, s)
  <1>1. PICK listed : listed = listTasks(rows, u, s)
    OBVIOUS
  <1>2. PICK exported : exported = exportTasks(rows, u, s)
    OBVIOUS
  <1>3. listed = {r \in exported : ~Hidden(u, s, r)} /\ listed \subseteq exported /\ exported \subseteq rows
    BY <1>1, <1>2, ListIs, ExportIs
  <1>4. IsFiniteSet(exported) /\ IsFiniteSet(listed)
    BY <1>3, FS_Subset
  <1>5. Cardinality(listed) <= Cardinality(exported) /\ Cardinality(listed) \in Nat /\ Cardinality(exported) \in Nat
    BY <1>3, <1>4, FS_Subset, FS_CardinalityType
  <1>6. assertDeletedListAllowed(u, taskFilterStateToExportFilters(s)) <=> listAdmitted(u, s)
    BY DEF assertDeletedListAllowed, listAdmitted, taskFilterStateToExportFilters, taskFilterStateToListFilters
  <1>7. Cardinality(exported) <= EXPORT_ROW_LIMIT => Cardinality(listed) <= EXPORT_ROW_LIMIT
    BY <1>5, QueryAssumption
  <1>8. exportAdmitted(rows, u, s) => listAdmitted(u, s) /\ Cardinality(exported) <= EXPORT_ROW_LIMIT
    BY <1>2, <1>6 DEF exportAdmitted
  <1> QED
    BY <1>1, <1>2, <1>3, <1>7, <1>8 DEF ExportHoldsList

-----------------------------------------------------------------------------
(* The chips *)

\* What each chip says.
LEMMA ChipSays ==
  ASSUME NEW s \in TaskFilterState, NEW r \in TaskRow
  PROVE  /\ \A x : Meets(s, <<"status", x>>, r) <=> r.status \in s.statuses
         /\ \A x : Meets(s, <<"priority", x>>, r) <=> r.priority \in s.priorities
         /\ Meets(s, <<"search", Unset>>, r) <=> (trim[s.search] # Unset => trim[s.search] \in r.words)
         /\ Meets(s, <<"projectId", Unset>>, r) <=> r.project = s.projectId
         /\ Meets(s, <<"assigneeId", Unset>>, r) <=> r.assignee = s.assigneeId
         /\ Meets(s, <<"createdById", Unset>>, r) <=> r.creator = s.createdById
         /\ s.due = "today" => (Meets(s, <<"due", Unset>>, r) <=> DueToday(r))
         /\ s.due = "upcoming" => (Meets(s, <<"due", Unset>>, r) <=> DueLater(r))
         /\ s.due = "overdue" => (Meets(s, <<"due", Unset>>, r) <=> DueBefore(r))
         /\ Meets(s, <<"overdue", Unset>>, r) <=> DueBefore(r)
         /\ Meets(s, <<"deadline", Unset>>, r) <=> Deadlines(s, r)
         /\ Meets(s, <<"unassigned", Unset>>, r) <=> r.assignee = Unset
         /\ Meets(s, <<"includeArchived", Unset>>, r)
         /\ Meets(s, <<"includeDeleted", Unset>>, r)
  <1>1. \A x : Meets(s, <<"status", x>>, r) <=> r.status \in s.statuses
    BY DEF Meets
  <1>2. \A x : Meets(s, <<"priority", x>>, r) <=> r.priority \in s.priorities
    BY DEF Meets
  <1>3. Meets(s, <<"search", Unset>>, r) <=> (trim[s.search] # Unset => trim[s.search] \in r.words)
    BY DEF Meets
  <1>4. Meets(s, <<"projectId", Unset>>, r) <=> r.project = s.projectId
    BY DEF Meets
  <1>5. Meets(s, <<"assigneeId", Unset>>, r) <=> r.assignee = s.assigneeId
    BY DEF Meets
  <1>6. Meets(s, <<"createdById", Unset>>, r) <=> r.creator = s.createdById
    BY DEF Meets
  <1>7. s.due = "today" => (Meets(s, <<"due", Unset>>, r) <=> DueToday(r))
    <2>1. r.due \in Midnight(Today)..DayEnd(Today) <=> (r.due >= Midnight(Today) /\ r.due <= DayEnd(Today))
      BY RowsTyped, Days, QueryAssumption
    <2> QED
      BY <2>1 DEF Meets, DueToday
  <1>8. s.due = "upcoming" => (Meets(s, <<"due", Unset>>, r) <=> DueLater(r))
    BY DEF Meets, DueLater
  <1>9. s.due = "overdue" => (Meets(s, <<"due", Unset>>, r) <=> DueBefore(r))
    BY DEF Meets, DueBefore
  <1>10. Meets(s, <<"overdue", Unset>>, r) <=> DueBefore(r)
    BY DEF Meets, DueBefore
  <1>11. Meets(s, <<"deadline", Unset>>, r) <=> Deadlines(s, r)
    <2>1. s.deadlineFrom = 0 => r.due >= Midnight(s.deadlineFrom)
      BY RowsTyped, StateType, Days
    <2> QED
      BY <2>1 DEF Meets, Deadlines
  <1>12. Meets(s, <<"unassigned", Unset>>, r) <=> r.assignee = Unset
    BY DEF Meets
  <1>13. Meets(s, <<"includeArchived", Unset>>, r) /\ Meets(s, <<"includeDeleted", Unset>>, r)
    BY DEF Meets
  <1> QED
    BY <1>1, <1>2, <1>3, <1>4, <1>5, <1>6, <1>7, <1>8, <1>9, <1>10, <1>11, <1>12, <1>13

\* Which chips there are.
LEMMA ChipsThere ==
  ASSUME NEW s \in TaskFilterState
  PROVE  /\ \A x \in s.statuses : <<"status", x>> \in describeActiveFilterChips(s)
         /\ \A x \in s.priorities : <<"priority", x>> \in describeActiveFilterChips(s)
         /\ \A k \in ValueFields : s[k] # Unset => <<k, Unset>> \in describeActiveFilterChips(s)
         /\ \A k \in FlagFields : s[k] => <<k, Unset>> \in describeActiveFilterChips(s)
         /\ (s.deadlineFrom # 0 \/ s.deadlineTo # 0) => <<"deadline", Unset>> \in describeActiveFilterChips(s)
         /\ \A chip \in describeActiveFilterChips(s) :
                \/ \E x \in s.statuses : chip = <<"status", x>>
                \/ \E x \in s.priorities : chip = <<"priority", x>>
                \/ \E k \in ValueFields : s[k] # Unset /\ chip = <<k, Unset>>
                \/ \E k \in FlagFields : s[k] /\ chip = <<k, Unset>>
                \/ chip = <<"deadline", Unset>> /\ (s.deadlineFrom # 0 \/ s.deadlineTo # 0)
  BY DEF describeActiveFilterChips, When

\* What the chips say together.
LEMMA ChipsSay ==
  ASSUME NEW s \in TaskFilterState, NEW r \in TaskRow
  PROVE  (\A chip \in describeActiveFilterChips(s) : Meets(s, chip, r)) <=>
            /\ s.statuses # {} => r.status \in s.statuses
            /\ s.priorities # {} => r.priority \in s.priorities
            /\ s.search # Unset => (trim[s.search] # Unset => trim[s.search] \in r.words)
            /\ s.projectId # Unset => r.project = s.projectId
            /\ s.assigneeId # Unset => r.assignee = s.assigneeId
            /\ s.createdById # Unset => r.creator = s.createdById
            /\ s.due # Unset => Meets(s, <<"due", Unset>>, r)
            /\ s.overdue => DueBefore(r)
            /\ s.unassigned => r.assignee = Unset
            /\ (s.deadlineFrom # 0 \/ s.deadlineTo # 0) => Deadlines(s, r)
  <1> DEFINE Together ==
            /\ s.statuses # {} => r.status \in s.statuses
            /\ s.priorities # {} => r.priority \in s.priorities
            /\ s.search # Unset => (trim[s.search] # Unset => trim[s.search] \in r.words)
            /\ s.projectId # Unset => r.project = s.projectId
            /\ s.assigneeId # Unset => r.assignee = s.assigneeId
            /\ s.createdById # Unset => r.creator = s.createdById
            /\ s.due # Unset => Meets(s, <<"due", Unset>>, r)
            /\ s.overdue => DueBefore(r)
            /\ s.unassigned => r.assignee = Unset
            /\ (s.deadlineFrom # 0 \/ s.deadlineTo # 0) => Deadlines(s, r)
  <1>1. ASSUME \A chip \in describeActiveFilterChips(s) : Meets(s, chip, r) PROVE Together
    <2>1. s.statuses # {} => r.status \in s.statuses
      BY <1>1, ChipSays, ChipsThere
    <2>2. s.priorities # {} => r.priority \in s.priorities
      BY <1>1, ChipSays, ChipsThere
    <2>3. \A k \in ValueFields : s[k] # Unset => Meets(s, <<k, Unset>>, r)
      BY <1>1, ChipsThere
    <2>4. \A k \in FlagFields : s[k] => Meets(s, <<k, Unset>>, r)
      BY <1>1, ChipsThere
    <2>5. (s.deadlineFrom # 0 \/ s.deadlineTo # 0) => Deadlines(s, r)
      BY <1>1, ChipSays, ChipsThere
    <2> QED
      BY <2>1, <2>2, <2>3, <2>4, <2>5, ChipSays DEF ValueFields, FlagFields
  <1>2. ASSUME Together, NEW chip \in describeActiveFilterChips(s) PROVE Meets(s, chip, r)
    <2>1. CASE \E x \in s.statuses : chip = <<"status", x>>
      BY <1>2, <2>1, ChipSays
    <2>2. CASE \E x \in s.priorities : chip = <<"priority", x>>
      BY <1>2, <2>2, ChipSays
    <2>3. CASE \E k \in ValueFields : s[k] # Unset /\ chip = <<k, Unset>>
      BY <1>2, <2>3, ChipSays DEF ValueFields
    <2>4. CASE \E k \in FlagFields : s[k] /\ chip = <<k, Unset>>
      BY <1>2, <2>4, ChipSays DEF FlagFields
    <2>5. CASE chip = <<"deadline", Unset>> /\ (s.deadlineFrom # 0 \/ s.deadlineTo # 0)
      BY <1>2, <2>5, ChipSays
    <2> QED
      BY <2>1, <2>2, <2>3, <2>4, <2>5, ChipsThere
  <1> QED
    BY <1>1, <1>2

LEMMA ListAndChips ==
  ASSUME NEW s \in TaskFilterState, NEW u \in ViewerType, NEW rows \in SUBSET TaskRow
  PROVE  ListMeetsChips(rows, u, s)
  <1> SUFFICES ASSUME Coherent(s), NEW r \in rows
               PROVE  (RestOf(u, s, r) /\ AssigneeOf(s, r) /\ ~Hidden(u, s, r) /\ DatesOf(s, r))
                        <=> (/\ Kept(u, s, r) /\ ~Hidden(u, s, r)
                             /\ \A chip \in describeActiveFilterChips(s) : Meets(s, chip, r))
    BY ListIs DEF ListMeetsChips
  <1>1. r \in TaskRow
    OBVIOUS
  <1>2. trim[Unset] = Unset
    BY QueryAssumption
  <1>3. AssigneeOf(s, r) <=> /\ s.assigneeId # Unset => r.assignee = s.assigneeId
                             /\ s.unassigned => r.assignee = Unset
    BY DEF AssigneeOf, Coherent
  <1>4. DatesOf(s, r) <=> /\ s.statuses # {} => r.status \in s.statuses
                          /\ s.due # Unset => Meets(s, <<"due", Unset>>, r)
                          /\ s.overdue => DueBefore(r)
                          /\ (s.deadlineFrom # 0 \/ s.deadlineTo # 0) => Deadlines(s, r)
    <2>1. s.due \in {"today", "upcoming", "overdue"} \/ s.due = Unset
      BY StateType DEF Maybe, Dues
    <2>2. /\ s.due = "today" => (Meets(s, <<"due", Unset>>, r) <=> DueToday(r))
          /\ s.due = "upcoming" => (Meets(s, <<"due", Unset>>, r) <=> DueLater(r))
          /\ s.due = "overdue" => (Meets(s, <<"due", Unset>>, r) <=> DueBefore(r))
      BY <1>1, ChipSays
    <2>3. CASE s.deadlineFrom # 0 \/ s.deadlineTo # 0
      BY <2>3 DEF DatesOf, StatusOf, Coherent
    <2>4. CASE ~(s.deadlineFrom # 0 \/ s.deadlineTo # 0) /\ DueMode(s)
      BY <2>1, <2>2, <2>4 DEF DatesOf, Coherent, DueMode, Unset
    <2>5. CASE ~(s.deadlineFrom # 0 \/ s.deadlineTo # 0) /\ ~DueMode(s)
      BY <2>1, <2>5 DEF DatesOf, StatusOf, DueMode, Unset
    <2> QED
      BY <2>3, <2>4, <2>5
  <1>5. RestOf(u, s, r) <=>
            /\ Kept(u, s, r)
            /\ s.projectId # Unset => r.project = s.projectId
            /\ s.priorities # {} => r.priority \in s.priorities
            /\ s.createdById # Unset => r.creator = s.createdById
            /\ s.search # Unset => (trim[s.search] # Unset => trim[s.search] \in r.words)
    <2>1. r.deleted \in BOOLEAN /\ r.archived \in BOOLEAN /\ r.barred \in BOOLEAN
          /\ s.includeDeleted \in BOOLEAN /\ s.includeArchived \in BOOLEAN
      BY <1>1, RowsTyped, StateType
    <2>2. u.id \in {r.assignee, r.creator} <=> (r.assignee = u.id \/ r.creator = u.id)
      OBVIOUS
    <2>3. (s.search # Unset => (trim[s.search] # Unset => trim[s.search] \in r.words))
            <=> (trim[s.search] # Unset => trim[s.search] \in r.words)
      BY <1>2
    <2> QED
      BY <2>1, <2>2, <2>3 DEF RestOf, Kept
  <1> QED
    BY <1>1, <1>3, <1>4, <1>5, ChipsSay

-----------------------------------------------------------------------------
(* The board, the calendar, the empty filters *)

\* Without "due" the statuses asked for stand beside the deadlines.
LEMMA DatesWithoutDue ==
  ASSUME NEW s \in TaskFilterState, ~DueMode(s), NEW r
  PROVE  DatesOf(s, r) <=> /\ StatusOf(s, r)
                           /\ (s.deadlineFrom # 0 \/ s.deadlineTo # 0) => Deadlines(s, r)
  BY DEF DatesOf, DueMode, Unset

LEMMA ColumnIs ==
  ASSUME NEW s \in TaskFilterState, NEW u \in ViewerType, NEW rows, NEW c, ~DueMode(s)
  PROVE  listBoardColumn(rows, u, s, c) =
            {r \in rows : /\ RestOf(u, s, r) /\ AssigneeOf(s, r) /\ ~Hidden(u, s, r) /\ r.status = c
                          /\ (s.deadlineFrom # 0 \/ s.deadlineTo # 0) => Deadlines(s, r)}
  <1>1. PICK d : d = listDefaultAssignee(u)
    OBVIOUS
  <1>2. PICK q : q = [taskFilterStateToListFilters(s, d) EXCEPT !.status = {c}]
    OBVIOUS
  <1>3. AsksLike(q, s, d) /\ q.status = {c} /\ q.span = NoSpan
    BY <1>2 DEF taskFilterStateToListFilters, AsksLike
  <1>4. ASSUME NEW r
        PROVE  DatesWhere(q, r) <=> /\ r.status = c
                                    /\ (s.deadlineFrom # 0 \/ s.deadlineTo # 0) => Deadlines(s, r)
    <2>1. (q.deadlineFrom # 0 <=> s.deadlineFrom # 0) /\ (q.deadlineTo # 0 <=> s.deadlineTo # 0)
      BY <1>3, StateType, Days DEF AsksLike
    <2>2. HasStatus(q, r) <=> r.status = c
      BY <1>3 DEF HasStatus
    <2> QED
      BY <1>3, <2>1, <2>2 DEF DatesWhere, Deadlines, DueMode, AsksLike, Unset
  <1>5. \A r : buildTaskListWhere(u, q, r)
                 <=> RestOf(u, s, r) /\ AssigneeOf(s, r) /\ ~Hidden(u, s, r) /\ DatesWhere(q, r)
    BY <1>1, <1>3, QueryWhere
  <1> QED
    BY <1>1, <1>2, <1>4, <1>5 DEF listBoardColumn, Selected

LEMMA BoardIsList ==
  ASSUME NEW s \in TaskFilterState, NEW u \in ViewerType, NEW rows \in SUBSET TaskRow, ~DueMode(s),
         NEW columns, columns = IF s.statuses = {} THEN TASK_STATUSES ELSE s.statuses
  PROVE  listTasks(rows, u, s) = UNION {listBoardColumn(rows, u, s, c) \cap {r \in rows : r.status = c} : c \in columns}
  <1>1. ASSUME NEW r \in rows
        PROVE  r \in listTasks(rows, u, s) <=> \E c \in columns : r \in listBoardColumn(rows, u, s, c)
    <2>1. StatusOf(s, r) <=> r.status \in columns
      BY RowsTyped DEF StatusOf
    <2>2. r \in listTasks(rows, u, s) <=>
            /\ RestOf(u, s, r) /\ AssigneeOf(s, r) /\ ~Hidden(u, s, r) /\ r.status \in columns
            /\ (s.deadlineFrom # 0 \/ s.deadlineTo # 0) => Deadlines(s, r)
      BY <2>1, ListIs, DatesWithoutDue
    <2> QED
      BY <2>2, ColumnIs
  <1>2. \A c : listBoardColumn(rows, u, s, c) = listBoardColumn(rows, u, s, c) \cap {r \in rows : r.status = c}
    BY ColumnIs
  <1>3. listTasks(rows, u, s) \subseteq rows
    BY DEF listTasks, Selected
  <1> QED
    BY <1>1, <1>2, <1>3

LEMMA CalendarIs ==
  ASSUME NEW s \in TaskFilterState, NEW u \in ViewerType, NEW rows,
         ~DueMode(s), s.deadlineFrom = 0, s.deadlineTo = 0
  PROVE  listCalendar(rows, u, s) = {r \in listTasks(rows, u, s) : Overlaps(Period, r)}
  <1>1. PICK d : d = listDefaultAssignee(u)
    OBVIOUS
  <1>2. PICK q : q = [taskFilterStateToListFilters(s, d) EXCEPT !.span = Period]
    OBVIOUS
  <1>3. AsksLike(q, s, d) /\ q.status = s.statuses /\ q.span = Period
    BY <1>2 DEF taskFilterStateToListFilters, AsksLike
  <1>4. Period # NoSpan
    BY QueryAssumption DEF NoSpan
  <1>5. \A r : DatesWhere(q, r) <=> StatusOf(s, r) /\ Overlaps(Period, r)
    BY <1>3, <1>4 DEF DatesWhere, HasStatus, StatusOf
  <1>6. \A r : buildTaskListWhere(u, q, r)
                 <=> RestOf(u, s, r) /\ AssigneeOf(s, r) /\ ~Hidden(u, s, r) /\ DatesWhere(q, r)
    BY <1>1, <1>3, QueryWhere
  <1>7. \A r : DatesOf(s, r) <=> StatusOf(s, r)
    BY DatesWithoutDue
  <1> QED
    BY <1>1, <1>2, <1>5, <1>6, <1>7, ListIs DEF listCalendar, Selected

LEMMA ViewsAgree ==
  ASSUME NEW s \in TaskFilterState, NEW u \in ViewerType, NEW rows \in SUBSET TaskRow
  PROVE  ViewsHoldList(rows, u, s)
  BY BoardIsList, CalendarIs DEF ViewsHoldList

LEMMA Inactive ==
  ASSUME NEW s \in TaskFilterState, ~taskFilterHasActiveFilters(s)
  PROVE  /\ s.search = Unset /\ s.projectId = Unset /\ s.statuses = {} /\ s.priorities = {} /\ s.assigneeId = Unset
         /\ s.createdById = Unset /\ s.tagIds = {} /\ s.due = Unset /\ s.deadlineFrom = 0 /\ s.deadlineTo = 0
         /\ s.overdue = FALSE /\ s.unassigned = FALSE /\ s.includeArchived = FALSE /\ s.includeDeleted = FALSE
  BY StateType DEF taskFilterHasActiveFilters

LEMMA NothingIsHidden ==
  ASSUME NEW s \in TaskFilterState, NEW u \in ViewerType, NEW rows
  PROVE  NothingHides(rows, u, s)
  <1>1. taskFilterHasActiveFilters(s) <=> (describeActiveFilterChips(s) # {} \/ s.tagIds # {})
    <2>1. ASSUME taskFilterHasActiveFilters(s), s.tagIds = {} PROVE describeActiveFilterChips(s) # {}
      <3>1. \/ s.statuses # {} \/ s.priorities # {} \/ s.deadlineFrom # 0 \/ s.deadlineTo # 0
            \/ (\E k \in ValueFields : s[k] # Unset) \/ (\E k \in FlagFields : s[k])
        BY <2>1 DEF taskFilterHasActiveFilters, ValueFields, FlagFields
      <3> QED
        BY <3>1, ChipsThere
    <2>2. ASSUME describeActiveFilterChips(s) # {} PROVE taskFilterHasActiveFilters(s)
      <3>1. PICK chip \in describeActiveFilterChips(s) : TRUE
        BY <2>2
      <3> QED
        BY ChipKinds DEF taskFilterHasActiveFilters, ValueFields, FlagFields
    <2>3. s.tagIds # {} => taskFilterHasActiveFilters(s)
      BY DEF taskFilterHasActiveFilters
    <2> QED
      BY <2>1, <2>2, <2>3
  <1>2. ASSUME ~taskFilterHasActiveFilters(s)
        PROVE  listTasks(rows, u, s) = listTasks(rows, u, DEFAULT_TASK_FILTER_STATE)
    <2>1. PICK e : e = DEFAULT_TASK_FILTER_STATE
      OBVIOUS
    <2>2. e \in TaskFilterState
      BY <2>1, DefaultType
    <2>3. /\ e.search = s.search /\ e.projectId = s.projectId /\ e.statuses = s.statuses
          /\ e.priorities = s.priorities /\ e.assigneeId = s.assigneeId /\ e.createdById = s.createdById
          /\ e.tagIds = s.tagIds /\ e.due = s.due /\ e.deadlineFrom = s.deadlineFrom
          /\ e.deadlineTo = s.deadlineTo /\ e.overdue = s.overdue /\ e.unassigned = s.unassigned
          /\ e.includeArchived = s.includeArchived /\ e.includeDeleted = s.includeDeleted
      BY <1>2, <2>1, Inactive DEF DEFAULT_TASK_FILTER_STATE
    <2>4. ASSUME NEW r
          PROVE  /\ RestOf(u, s, r) <=> RestOf(u, e, r)
                 /\ AssigneeOf(s, r) <=> AssigneeOf(e, r)
                 /\ Hidden(u, s, r) <=> Hidden(u, e, r)
                 /\ DatesOf(s, r) <=> DatesOf(e, r)
      <3>1. RestOf(u, s, r) <=> RestOf(u, e, r)
        BY <2>3 DEF RestOf
      <3>2. AssigneeOf(s, r) <=> AssigneeOf(e, r)
        BY <2>3 DEF AssigneeOf
      <3>3. Hidden(u, s, r) <=> Hidden(u, e, r)
        BY <2>3 DEF Hidden
      <3>4. DatesOf(s, r) <=> DatesOf(e, r)
        BY <2>3 DEF DatesOf, StatusOf, Deadlines
      <3> QED
        BY <3>1, <3>2, <3>3, <3>4
    <2>5. \A r : r \in listTasks(rows, u, s) <=> r \in listTasks(rows, u, e)
      BY <2>2, <2>4, ListIs
    <2> QED
      BY <2>1, <2>5
  <1> QED
    BY <1>1, <1>2 DEF NothingHides

-----------------------------------------------------------------------------
(* The dashboard *)

\* The filters a link of the dashboard opens the page with.
LinkedTo(s, plan, due, status) ==
    /\ s \in TaskFilterState
    /\ s.projectId = plan /\ s.due = due /\ s.statuses = status
    /\ s.search = Unset /\ s.priorities = {} /\ s.assigneeId = Unset /\ s.createdById = Unset
    /\ s.deadlineFrom = 0 /\ s.deadlineTo = 0 /\ ~s.overdue /\ ~s.unassigned
    /\ ~s.includeArchived /\ ~s.includeDeleted /\ s.tagIds = {}

LEMMA LinkFilters ==
  ASSUME NEW plan \in Maybe(PlanIds), NEW due \in {Unset, "today", "overdue"}, NEW status \in SUBSET TASK_STATUSES
  PROVE  LinkedTo(parseTaskFilterState(myTasksHref(plan, due, status)), plan, due, status)
  <1> DEFINE s == parseTaskFilterState(myTasksHref(plan, due, status))
  <1>1. PICK a : a = myTasksHref(plan, due, status)
    OBVIOUS
  <1>2. /\ a.projectId = plan /\ a.due = due /\ a.status = status
        /\ a.q = Unset /\ a.priority = {} /\ a.assigneeId = Unset /\ a.createdById = Unset /\ a.creatorId = Unset
        /\ a.deadlineFrom = 0 /\ a.deadlineTo = 0 /\ a.overdue = Unset /\ a.unassigned = Unset
        /\ a.includeArchived = Unset /\ a.archived = Unset /\ a.includeDeleted = Unset /\ a.deleted = Unset
        /\ a.tagId = {}
    BY <1>1 DEF myTasksHref, Bare
  <1>3. a \in Address
    <2>1. PICK b1 : b1 = [Bare EXCEPT !.projectId = plan]
      OBVIOUS
    <2>2. PICK b2 : b2 = [b1 EXCEPT !.due = due]
      OBVIOUS
    <2>3. a = [b2 EXCEPT !.status = status]
      BY <1>1, <2>1, <2>2 DEF myTasksHref
    <2>4. due \in Words /\ status \in SUBSET Words
      BY DEF Words, Dues
    <2>5. b1 \in Address
      BY <2>1, BareType DEF Address
    <2>6. b2 \in Address
      BY <2>2, <2>4, <2>5 DEF Address
    <2> QED
      BY <2>3, <2>4, <2>6 DEF Address
  <1>4. s \in TaskFilterState
    BY <1>1, <1>3, ParseType
  <1>5. {normalizeTaskStatus(v) : v \in status} \cap TASK_STATUSES = status
    BY DEF normalizeTaskStatus, TASK_STATUSES
  <1>6. OneOf(due, Dues, Unset) = due
    BY DEF OneOf, Dues
  <1>7. ~parseBooleanParam(Unset)
    BY DEF parseBooleanParam, Unset
  <1>8. /\ s.projectId = a.projectId /\ s.due = OneOf(a.due, Dues, Unset)
        /\ s.statuses = {normalizeTaskStatus(v) : v \in a.status} \cap TASK_STATUSES
        /\ s.search = a.q /\ s.priorities = a.priority \cap TASK_PRIORITIES /\ s.assigneeId = a.assigneeId
        /\ s.createdById = Given(a.createdById, a.creatorId)
        /\ s.deadlineFrom = a.deadlineFrom /\ s.deadlineTo = a.deadlineTo
        /\ s.overdue = parseBooleanParam(a.overdue) /\ s.unassigned = parseBooleanParam(a.unassigned)
        /\ s.includeArchived = parseBooleanParam(Given(a.includeArchived, a.archived))
        /\ s.includeDeleted = parseBooleanParam(Given(a.includeDeleted, a.deleted)) /\ s.tagIds = a.tagId
    BY <1>1 DEF parseTaskFilterState
  <1>9. Given(Unset, Unset) = Unset
    BY DEF Given
  <1> QED
    BY <1>2, <1>4, <1>5, <1>6, <1>7, <1>8, <1>9 DEF LinkedTo

\* What a link of the dashboard lists.
LEMMA LinkLists ==
  ASSUME NEW plan \in Maybe(PlanIds), NEW due \in {Unset, "today", "overdue"}, NEW status \in SUBSET TASK_STATUSES,
         NEW u \in ViewerType, NEW rows
  PROVE  listTasks(rows, u, parseTaskFilterState(myTasksHref(plan, due, status))) =
            {r \in rows :
                /\ ~r.deleted /\ ~r.archived /\ (isAdmin(u) \/ ~r.barred)
                /\ hasWorkspaceScope(u) \/ u.id \in {r.assignee, r.creator}
                /\ plan # Unset => r.project = plan
                /\ hasWorkspaceScope(u) => r.assignee = u.id
                /\ due = "today" => DueToday(r)
                /\ due = "overdue" => DueBefore(r)
                /\ due = Unset => (status = {} \/ r.status \in status)}
  <1>1. PICK s : s = parseTaskFilterState(myTasksHref(plan, due, status))
    OBVIOUS
  <1>2. LinkedTo(s, plan, due, status)
    BY <1>1, LinkFilters
  <1>3. trim[Unset] = Unset
    BY QueryAssumption
  <1>4. ASSUME NEW r
        PROVE  /\ RestOf(u, s, r) <=> /\ ~r.deleted /\ ~r.archived /\ (isAdmin(u) \/ ~r.barred)
                                      /\ hasWorkspaceScope(u) \/ u.id \in {r.assignee, r.creator}
                                      /\ plan # Unset => r.project = plan
               /\ AssigneeOf(s, r)
               /\ ~Hidden(u, s, r) <=> (hasWorkspaceScope(u) => r.assignee = u.id)
               /\ DatesOf(s, r) <=> /\ due = "today" => DueToday(r)
                                    /\ due = "overdue" => DueBefore(r)
                                    /\ due = Unset => (status = {} \/ r.status \in status)
    <2>1. RestOf(u, s, r) <=> /\ ~r.deleted /\ ~r.archived /\ (isAdmin(u) \/ ~r.barred)
                              /\ hasWorkspaceScope(u) \/ u.id \in {r.assignee, r.creator}
                              /\ plan # Unset => r.project = plan
      BY <1>2, <1>3 DEF RestOf, LinkedTo
    <2>2. AssigneeOf(s, r)
      BY <1>2 DEF AssigneeOf, LinkedTo
    <2>3. ~Hidden(u, s, r) <=> (hasWorkspaceScope(u) => r.assignee = u.id)
      BY <1>2 DEF Hidden, LinkedTo
    <2>4. DatesOf(s, r) <=> /\ due = "today" => DueToday(r)
                            /\ due = "overdue" => DueBefore(r)
                            /\ due = Unset => (status = {} \/ r.status \in status)
      BY <1>2 DEF DatesOf, StatusOf, Unset, LinkedTo
    <2> QED
      BY <2>1, <2>2, <2>3, <2>4
  <1> QED
    BY <1>1, <1>2, <1>4, ListIs DEF LinkedTo

LEMMA DatedIs ==
  \A r : /\ IsOpen(r) /\ r.due # 0 /\ Dated("today", r) <=> DueToday(r)
         /\ IsOpen(r) /\ r.due # 0 /\ Dated("overdue", r) <=> DueBefore(r)
  BY DEF Dated, DueToday, DueBefore

LEMMA TileLeadsToList ==
  ASSUME NEW plan \in Maybe(PlanIds), NEW u \in ViewerType, NEW rows, NEW day \in {"today", "overdue"},
         NEW listed, listed = listTasks(rows, u, parseTaskFilterState(myTasksHref(plan, day, {}))),
         NEW counted, counted = getSummary(rows, u, plan, day)
  PROVE  /\ listed \subseteq counted
         /\ \A r \in counted \ listed : ~IsOpen(r) \/ (hasWorkspaceScope(u) /\ r.assignee # u.id)
  <1>1. \A r : r \in listed <=>
            /\ r \in rows /\ ~r.deleted /\ ~r.archived /\ (isAdmin(u) \/ ~r.barred)
            /\ hasWorkspaceScope(u) \/ u.id \in {r.assignee, r.creator}
            /\ plan # Unset => r.project = plan
            /\ hasWorkspaceScope(u) => r.assignee = u.id
            /\ IsOpen(r) /\ r.due # 0 /\ Dated(day, r)
    <2>1. CASE day = "today"
      <3>1. day # "overdue" /\ day # Unset
        BY <2>1 DEF Unset
      <3> QED
        BY <2>1, <3>1, LinkLists, DatedIs
    <2>2. CASE day = "overdue"
      <3>1. day # "today" /\ day # Unset
        BY <2>2 DEF Unset
      <3> QED
        BY <2>2, <3>1, LinkLists, DatedIs
    <2> QED
      BY <2>1, <2>2
  <1>2. \A r : r \in counted <=>
            /\ r \in rows /\ ~r.deleted /\ ~r.archived /\ (isAdmin(u) \/ ~r.barred)
            /\ hasWorkspaceScope(u) \/ u.id \in {r.assignee, r.creator}
            /\ plan # Unset => r.project = plan
            /\ IsOpen(r) \/ r.staged
            /\ r.due # 0 /\ Dated(day, r)
    BY DEF getSummary, DashboardVisible, buildTaskVisibilityWhere, openTaskOrCategoryWhere
  <1> QED
    BY <1>1, <1>2

LEMMA MyWorkLeadsToList ==
  ASSUME NEW plan \in Maybe(PlanIds), NEW u \in ViewerType, NEW rows, NEW tab \in MyWorkTabs,
         NEW r \in getMyWork(rows, u, plan, tab)
  PROVE  r \in listTasks(rows, u, parseTaskFilterState(MyWorkLink(plan, tab))) \/ (r.barred /\ ~isAdmin(u))
  <1>1. r \in rows /\ ~r.deleted /\ ~r.archived /\ r.assignee = u.id /\ (plan # Unset => r.project = plan)
    BY DEF getMyWork
  <1>2. /\ tab = "in-progress" => r.status = "IN_PROGRESS"
        /\ tab = "completed" => r.status = "DONE"
        /\ tab = "today" => DueToday(r)
        /\ tab = "overdue" => DueBefore(r)
    BY DatedIs DEF getMyWork, CompletedInPeriod
  <1>3. PICK due : due = OneOf(tab, {"today", "overdue"}, Unset)
    OBVIOUS
  <1>4. PICK status : status = CASE tab = "completed" -> {"DONE"} [] tab = "in-progress" -> {"IN_PROGRESS"} [] OTHER -> {}
    OBVIOUS
  <1>5. /\ due \in {Unset, "today", "overdue"} /\ status \in SUBSET TASK_STATUSES
        /\ due # Unset => due = tab
    BY <1>3, <1>4 DEF OneOf, TASK_STATUSES
  <1>6. (due = Unset => (status = {} \/ r.status \in status)) /\ (due = "today" => DueToday(r))
        /\ (due = "overdue" => DueBefore(r))
    BY <1>2, <1>4, <1>5 DEF Unset
  <1>7. MyWorkLink(plan, tab) = myTasksHref(plan, due, status)
    BY <1>3, <1>4 DEF MyWorkLink
  <1> QED
    BY <1>1, <1>5, <1>6, <1>7, LinkLists

LEMMA DashboardAgrees ==
  ASSUME NEW plan \in Maybe(PlanIds), NEW u \in ViewerType, NEW rows
  PROVE  DashboardLeadsToList(rows, u, plan)
  BY TileLeadsToList, MyWorkLeadsToList DEF DashboardLeadsToList

-----------------------------------------------------------------------------
(* The theorems *)

\* For any filters, any tasks and whoever looks, the list holds what the chips say,
\* the export what the list has, the board and the calendar the same tasks, nothing is
\* hidden where no filter is on, and the dashboard leads to what it counts.
THEOREM QueriesAgree ==
  ASSUME NEW s \in TaskFilterState, NEW u \in ViewerType, NEW rows \in SUBSET TaskRow, IsFiniteSet(rows)
  PROVE  ListsAgree(rows, u, s)
  <1>1. s.projectId \in Maybe(PlanIds)
    BY StateType
  <1> QED
    BY <1>1, ListAndChips, ExportAgrees, ViewsAgree, NothingIsHidden, DashboardAgrees DEF ListsAgree

\* Whatever the controls, the router and the other members do in whatever order, the
\* page is well typed.
THEOREM PageIsTyped == PageSpec => []PageTypeOK
  BY PageHolds, PTL DEF PageInv

\* The page tells the truth: its address keeps what the last control asked for, and
\* the answers for the filters on the screen agree.
THEOREM PageIsTrue == PageSpec => []PageTellsTruth
  <1>1. PageInv => PageTellsTruth
    <2> SUFFICES ASSUME PageInv PROVE PageTellsTruth
      OBVIOUS
    <2>1. filterState \in TaskFilterState /\ viewer \in ViewerType /\ tasksThere \in SUBSET TaskRow
          /\ IsFiniteSet(tasksThere) /\ AddressKeepsPage
      BY OnScreenType, PageAssumption DEF PageInv, PageTypeOK
    <2>2. ListsAgree(tasksThere, viewer, filterState)
      BY <2>1, QueriesAgree
    <2> QED
      BY <2>1, <2>2 DEF PageTellsTruth
  <1> QED
    BY <1>1, PageHolds, PTL
=============================================================================
