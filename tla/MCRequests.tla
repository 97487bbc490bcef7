----------------------------- MODULE MCRequests -----------------------------
(* The request handlers: tasks and dependencies, access to tasks, sessions,      *)
(* membership, and clients with their servers: comments, the session of a browser, *)
(* and what a member is offered at the screens and answered.  The components share  *)
(* no state, so a behaviour follows one of them while the others rest in one of       *)
(* their initial states.                                                                *)
EXTENDS MCTaskDependencies, AuthSessions, Membership, TaskAccess, TaskComments, BrowserSession,
        ApiSession, TaskListPage

CONSTANTS a1, m1, g1, u2, u3
VARIABLE part

taskVars == vars
Parts == {"tasks", "sessions", "membership", "access", "comments", "browser", "api", "lists"}

RequestsVars == <<part, taskVars, authVars, memberVars, accessVars, commentVars, browserVars, apiVars, pageVars>>

RequestsInit ==
    /\ part \in Parts
    /\ Init /\ AuthInit /\ MemberInit /\ AccessInit /\ CommentInit /\ BrowserInit /\ ApiInit /\ PageInit
    /\ part # "sessions" => verification
    /\ part # "access" => plan = [private |-> FALSE, creator |-> a1, archived |-> FALSE, deleted |-> FALSE]
    /\ part # "comments" => comment = Blank
    /\ part # "lists" => kept = <<>> /\ onScreen = Bare /\ viewer.role = "owner" /\ tasksThere = {}
    /\ part # "api" => applied = 0 /\ kind = "workspace"
RequestsNext ==
    \/ part = "tasks" /\ Next /\ UNCHANGED <<part, authVars, memberVars, accessVars, commentVars, browserVars, apiVars, pageVars>>
    \/ part = "sessions" /\ AuthNext /\ UNCHANGED <<part, taskVars, memberVars, accessVars, commentVars, browserVars, apiVars, pageVars>>
    \/ part = "membership" /\ MemberNext /\ UNCHANGED <<part, taskVars, authVars, accessVars, commentVars, browserVars, apiVars, pageVars>>
    \/ part = "access" /\ AccessNext /\ UNCHANGED <<part, taskVars, authVars, memberVars, commentVars, browserVars, apiVars, pageVars>>
    \/ part = "comments" /\ CommentNext /\ UNCHANGED <<part, taskVars, authVars, memberVars, accessVars, browserVars, apiVars, pageVars>>
    \/ part = "browser" /\ BrowserNext /\ UNCHANGED <<part, taskVars, authVars, memberVars, accessVars, commentVars, apiVars, pageVars>>
    \/ part = "api" /\ ApiNext /\ UNCHANGED <<part, taskVars, authVars, memberVars, accessVars, commentVars, browserVars, pageVars>>
    \/ part = "lists" /\ PageNext /\ UNCHANGED <<part, taskVars, authVars, memberVars, accessVars, commentVars, browserVars, apiVars>>
RequestsSpec == RequestsInit /\ [][RequestsNext]_RequestsVars

TypesOK == TypeOK /\ AuthTypeOK /\ MemberTypeOK /\ AccessTypeOK /\ CommentTypeOK /\ BrowserTypeOK
           /\ ApiTypeOK /\ PageTypeOK

OneOfEach == [v \in {a1, m1, g1} |-> IF v = a1 THEN "admin" ELSE IF v = m1 THEN "manager" ELSE "member"]

\* A task for every answer of a filter: around the day and the period looked at, of
\* everybody and nobody, of a private project, set aside, finished.
TrimOf == [x \in {"", "tax", " tax "} |-> IF x = "" THEN "" ELSE "tax"]
SomeRows ==
    LET Plain == [status |-> "TODO", staged |-> TRUE, priority |-> "LOW", project |-> "", assignee |-> "me", creator |-> "peer",
                  start |-> 0, due |-> 0, completed |-> 0, updated |-> 3, tags |-> {}, words |-> {}, archived |-> FALSE,
                  deleted |-> FALSE, barred |-> FALSE]
        Planned == [Plain EXCEPT !.project = "plan", !.tags = {"home"}, !.words = {"tax"}]
    IN  {[Plain EXCEPT !.due = d] : d \in {0, 2, 4, 5, 6}}
        \cup {[Planned EXCEPT !.due = 3, !.assignee = a, !.barred = b] : a \in {"", "me", "peer"}, b \in BOOLEAN}
        \cup {[Planned EXCEPT !.archived = a, !.deleted = d] : a \in BOOLEAN, d \in BOOLEAN}
        \cup {[Plain EXCEPT !.status = "DONE", !.due = 2], [Plain EXCEPT !.assignee = "peer"], [Plain EXCEPT !.assignee = "", !.creator = "me"],
              [Planned EXCEPT !.status = "DONE", !.staged = FALSE, !.completed = 4, !.priority = "HIGH"],
              [Planned EXCEPT !.start = 3, !.due = 6, !.status = "IN_PROGRESS"], [Plain EXCEPT !.start = 5, !.words = {"tax"}]}
SomeLinks == {Bare,
    [Bare EXCEPT !.status = {"done"}, !.q = " tax ", !.archived = "true", !.deadlineFrom = 1, !.createdById = "", !.creatorId = "peer", !.page = 2, !.tagId = {"home"}, !.view = "timeline", !.groupBy = "assignee"]}
SomeWorkspaces == {{}, SomeRows}
SomePeriod == <<1, 2>>
SomeViewers == {[id |-> "me", role |-> r] : r \in {"owner", "manager", "member"}}

\* One set of names serves the handlers, writers and tabs of all parts.
RequestsSymmetry == Permutations(Requests) \cup Permutations({u2, u3})
=============================================================================
