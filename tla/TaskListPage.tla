----------------------------- MODULE TaskListPage -----------------------------
(* The "my tasks" page: its filters live in the address alone.  A control       *)
(* computes the next address from the one on the screen; the router shows it     *)
(* some time later, and a control used before that starts from the old one.      *)
(* Next to the address there are the search box, which takes the text of an       *)
(* address when that changes, and the saved view on the server.                   *)
EXTENDS TaskQueries

CONSTANTS Openings,       \* the addresses the page is opened with
          PageViewers,
          Workspaces,  \* the sets of tasks a workspace may hold
          OfferedStatuses, OfferedPriorities, OfferedSorts,   \* bound: what is picked in the menus
          MaxClicks    \* bound: controls used

ASSUME PageAssumption ==
    /\ \A rows \in Workspaces : IsFiniteSet(rows) /\ rows \subseteq TaskRow
    /\ Openings \subseteq Address /\ PageViewers \subseteq ViewerType
    /\ OfferedStatuses \subseteq TASK_STATUSES /\ OfferedPriorities \subseteq TASK_PRIORITIES
    /\ OfferedSorts \subseteq TASK_SORT_FIELDS /\ MaxClicks \in Nat

VARIABLES viewer,
          tasksThere,   \* the tasks of the workspace
          onScreen,     \* the address on the screen
          heading,   \* the address the router was last given
          searchInput, typing,   \* the search box: its text, and whether the cursor is in it
          kept,      \* the saved view of the viewer, a sequence of none or one
          meant,     \* history: what the last control asked for
          clicks

pageVars == <<viewer, tasksThere, onScreen, heading, searchInput, typing, kept, meant, clicks>>

PageState == [filters : TaskFilterState, view : TaskViewUrlState]
Keeping(s, v) == [input |-> pageStateToSavedViewInput(s, v), from |-> [filters |-> s, view |-> v]]

PageTypeOK ==
    /\ viewer \in ViewerType /\ tasksThere \in Workspaces /\ onScreen \in Address /\ heading \in Address
    /\ searchInput \in Phrases /\ typing \in BOOLEAN /\ meant \in PageState /\ clicks \in 0..MaxClicks
    /\ kept # <<>> => /\ kept[1].from \in PageState
                      /\ kept = <<Keeping(kept[1].from.filters, kept[1].from.view)>>

filterState == parseTaskFilterState(onScreen)
viewState == parseTaskViewUrlState(onScreen)

PageInit ==
    /\ viewer \in PageViewers /\ tasksThere \in Workspaces /\ onScreen \in Openings /\ heading = onScreen
    /\ searchInput = filterState.search /\ typing = FALSE
    /\ kept \in {<<>>} \cup {<<Keeping(parseTaskFilterState(a), parseTaskViewUrlState(a))>> : a \in Openings}
    /\ meant = [filters |-> filterState, view |-> viewState] /\ clicks = 0

UseControl == clicks < MaxClicks /\ clicks' = clicks + 1 /\ UNCHANGED <<viewer, tasksThere>>
\* The box is left before anything else is used, and leaving it applies it.
Control == UseControl /\ ~typing /\ UNCHANGED <<typing, kept>>

replacePageUrl(s, v, wanted) == heading' = serializeTaskPageUrlState(s, v) /\ meant' = wanted /\ UNCHANGED onScreen
Patched(s, patch) ==
    [f \in DOMAIN s |-> IF f \in DOMAIN patch THEN patch[f] ELSE IF f = "page" THEN 1 ELSE s[f]]
setFilterPatch(patch) ==
    LET next == Patched(filterState, patch)
    IN  replacePageUrl(next, viewState, [filters |-> next, view |-> viewState])
setViewPatch(v) == replacePageUrl(filterState, v, [filters |-> filterState, view |-> v])

\* The router shows the address it was given; the box follows a search that changed.
Render ==
    /\ heading # onScreen /\ onScreen' = heading
    /\ LET search == parseTaskFilterState(heading).search
       IN  searchInput' = IF search # filterState.search THEN search ELSE searchInput
    /\ UNCHANGED <<viewer, tasksThere, heading, typing, kept, meant, clicks>>

-----------------------------------------------------------------------------
(* The filter bar *)

Type(x) == /\ UseControl /\ searchInput' = x /\ typing' = TRUE
           /\ UNCHANGED <<onScreen, heading, kept, meant>>
applySearch == /\ typing /\ typing' = FALSE /\ setFilterPatch([search |-> trim[searchInput]])
               /\ UNCHANGED <<viewer, tasksThere, searchInput, kept, clicks>>

Pick(patch) == Control /\ setFilterPatch(patch) /\ UNCHANGED searchInput

canIncludeDeleted == isAdmin(viewer)
PickStatus == \E x \in Maybe(OfferedStatuses) : Pick([statuses |-> {x} \ {Unset}])
PickPriority == \E x \in Maybe(OfferedPriorities) : Pick([priorities |-> {x} \ {Unset}])
PickTag == \E x \in Maybe(TagIds) : Pick([tagIds |-> {x} \ {Unset}])
PickProject == \E x \in Maybe(PlanIds) : Pick([projectId |-> x])
PickAssignee == \/ Pick([unassigned |-> TRUE, assigneeId |-> Unset])
                \/ \E x \in Maybe(PersonIds) : Pick([unassigned |-> FALSE, assigneeId |-> x])
PickCreator == \E x \in Maybe(PersonIds) : Pick([createdById |-> x])
PickSort == \E x \in OfferedSorts : Pick([sortBy |-> x])
PickOrder == \E x \in Orders : Pick([sortOrder |-> x])
ToggleArchived == Pick([includeArchived |-> ~filterState.includeArchived])
ToggleDeleted == canIncludeDeleted /\ Pick([includeDeleted |-> ~filterState.includeDeleted])

\* "range" empties the other dates and offers the two days only once one is set.
setDeadlineMode(mode) ==
    LET due == OneOf(mode, Dues, Unset)
        patch == [due |-> due, overdue |-> mode = "overdue", unassigned |-> mode = "unassigned"]
    IN  IF mode = "range" THEN Pick(patch)
        ELSE Pick([due |-> due, overdue |-> mode = "overdue", unassigned |-> mode = "unassigned",
                   deadlineFrom |-> 0, deadlineTo |-> 0])
PickDeadline == \E mode \in Maybe(Dues) \cup {"range", "unassigned"} : setDeadlineMode(mode)
EnterDay ==
    /\ filterState.deadlineFrom # 0 \/ filterState.deadlineTo # 0
    /\ \E d \in DaysOr0 : \/ Pick([deadlineFrom |-> d, due |-> Unset, overdue |-> FALSE])
                          \/ Pick([deadlineTo |-> d, due |-> Unset, overdue |-> FALSE])

RemoveChip == \E chip \in describeActiveFilterChips(filterState) : Pick(removeFilterChip(filterState, chip))
clearAll == /\ Control /\ taskFilterHasActiveFilters(filterState)
            /\ setFilterPatch(DEFAULT_TASK_FILTER_STATE) /\ searchInput' = Unset
setViewPreset == \E preset \in {"active", "archived", "trash"} :
    /\ preset = "trash" => canIncludeDeleted
    /\ Pick(taskListViewPresetToFilterPatch(preset))

-----------------------------------------------------------------------------
(* The list, the other views, saved views *)

Total == Cardinality(listTasks(tasksThere, viewer, filterState))
Listing == viewState.view = "list" /\ listAdmitted(viewer, filterState)
Empty(s) == Cardinality(listTasks(tasksThere, viewer, s)) <= (s.page - 1) * PAGE_SIZE
\* The button of the empty list leaves the tags and the order.
ClearFilters ==
    /\ Listing /\ Empty(filterState) /\ taskFilterHasActiveFilters(filterState)
    /\ Pick([f \in DOMAIN filterState \ {"tagIds", "sortBy", "sortOrder"} |-> DEFAULT_TASK_FILTER_STATE[f]])
TurnPage ==
    /\ Listing /\ ~Empty(filterState)
    /\ \E n \in 1..Total : (n - 1) * PAGE_SIZE < Total /\ Pick([page |-> n])

SwitchView == \E m \in TASK_VIEW_MODES : Control /\ setViewPatch([viewState EXCEPT !.view = m]) /\ UNCHANGED searchInput
AdjustView ==
    /\ Control /\ UNCHANGED searchInput
    /\ \/ viewState.view = "calendar" /\ \E c \in CalModes : setViewPatch([viewState EXCEPT !.calMode = c])
       \/ viewState.view = "timeline" /\ \E z \in Zooms : setViewPatch([viewState EXCEPT !.tlZoom = z])
       \/ viewState.view = "timeline" /\ \E g \in Groupings : setViewPatch([viewState EXCEPT !.groupBy = g])

\* Saved from the page, or updated with it.
SaveView == /\ UseControl /\ ~typing /\ kept' = <<Keeping(filterState, viewState)>>
            /\ UNCHANGED <<onScreen, heading, searchInput, typing, meant>>
\* What the view was saved with, the tags of the page and its first page.
Restored(k, s) ==
    [filters |-> [k.from.filters EXCEPT !.tagIds = s.tagIds, !.page = 1],
     view |-> [k.from.view EXCEPT !.groupBy = IF k.from.view.view = "timeline" THEN @ ELSE "project"]]
applySavedView ==
    /\ kept # <<>> /\ Control /\ UNCHANGED searchInput
    /\ replacePageUrl(savedViewFilters(kept[1].input, filterState), savedViewDisplay(kept[1].input),
                      Restored(kept[1], filterState))

\* Other members work on.
Elsewhere == /\ tasksThere' \in Workspaces \ {tasksThere}
             /\ UNCHANGED <<viewer, onScreen, heading, searchInput, typing, kept, meant, clicks>>

PageNext ==
    \/ Elsewhere \/ Render \/ (\E x \in Phrases : Type(x)) \/ applySearch
    \/ PickStatus \/ PickPriority \/ PickTag \/ PickProject \/ PickAssignee \/ PickCreator \/ PickSort \/ PickOrder
    \/ ToggleArchived \/ ToggleDeleted \/ PickDeadline \/ EnterDay \/ RemoveChip \/ clearAll \/ setViewPreset
    \/ ClearFilters \/ TurnPage \/ SwitchView \/ AdjustView \/ SaveView \/ applySavedView

PageSpec == PageInit /\ [][PageNext]_pageVars

-----------------------------------------------------------------------------
(* Properties *)

Trimmed(s) == [s EXCEPT !.search = trim[@]]

\* The address the router was given, opened anew, is the page the last control
\* asked for: what a control does not name survives it, also the way through a
\* saved view.  Only the blanks around the search are lost.
AddressKeepsPage ==
    /\ Trimmed(parseTaskFilterState(heading)) = Trimmed(meant.filters)
    /\ parseTaskViewUrlState(heading) = meant.view

\* The page tells the truth: its address keeps it, and for the filters on the screen,
\* once they are those asked for, the list, the board, the export and the dashboard
\* agree.
PageTellsTruth == AddressKeepsPage /\ (onScreen = heading => ListsAgree(tasksThere, viewer, filterState))
=============================================================================
