# Verification of Tasks.me

TLA+ models of the parts of this repository where several requests, workers or
browsers act on the same PostgreSQL rows, the TLC runs that check them on small
instances, and theorems about them proved with TLAPS for every size. The
repository is an Express/Prisma/PostgreSQL backend (`src/backend`), a polling
worker process (`src/backend/src/worker.ts`) and a Next.js client
(`src/frontend`), which is modelled where it keeps state that the server may
contradict. Paths below are relative to `src/backend/src` unless they say
otherwise; `docs/` is `src/docs/` in full.

## 1. The system

API replicas and worker processes share nothing but the database. A handler
or a worker is a chain of statements and transactions (READ COMMITTED, the
Prisma default), so everything hard here has the same form: something read in
one statement decides what a later one writes, and another process, a crash or
a failing statement may come between the two. Protection comes from unique
indexes, conditional updates (`updateMany` with the expected version, token or
status), row locks (`FOR UPDATE SKIP LOCKED`) and advisory locks; each is
released with the transaction it was taken in.

| Component | State | Operations | Interacts with | Hard behaviour | What makes it correct |
|---|---|---|---|---|---|
| Template cloning (`modules/templates/clone-jobs`, `template-clone`) | `clone_jobs`: status, lease token and expiry, attempts, request body; the created project | submit, synchronous materialisation, claim, heartbeat, complete, fail, back off, reclaim, retry | worker, template lifecycle | leases that run out under a live holder, crashes, lost answers, racing requests | one project per job; completed jobs have it; stale holders harmless; jobs settle |
| Recurrences (`modules/recurrences`, `lib/recurrence-schedule`, `services/task-factory`) | `task_recurrences` (nextRunAt, active), occurrences, generated tasks | upsert, pause, resume, remove, generate | worker, automation runs, tasks | two workers on one recurrence, stale snapshots, failures half way, edits meanwhile | one task per instant; no instant lost; SKIP_IF_OPEN; progress |
| Automation runs (`modules/automation`) | `automation_runs`: status, attempts, nextRetryAt | enqueue, claim, succeed, fail, die, retry | recurrences, risk, worker | run executed while its creator still works on it, crashed workers, stale retry | runs settle; a retry does the work |
| Tasks (`modules/tasks`) | task rows with version, status, stage, rank, parent | create, update, move, complete, reopen, archive, delete, restore, bulk | workflow, dependencies, SLA, risk | optimistic versions, rank rebalancing, hierarchy checks outside the transaction | no lost update; acyclic hierarchy of depth 5 at most; consistent order |
| Dependencies and handoff (`modules/dependencies`, `services/task-transitions`) | dependency edges, `dependencyBlocked` | create, remove, handoff on completion | tasks | cycle check outside the transaction, two predecessors finishing together | acyclic; nobody stays blocked once all predecessors are done |
| SLA (`modules/sla`) | SLA instances: status, due and warning times, notice flags | initialise, finalise, notify | tasks, worker | worker notices against completion; moves that skip finalisation | one notice per stage; finished tasks are never breached |
| Risk (`modules/risk`) | risk level, `riskRecalculateAt` | request, recalculate, batch | tasks, worker | request lost while a recalculation runs | every request is followed by a recalculation that sees it |
| Workflows (`modules/workflows`, `projects.publishWorkflow`, `lib/workflow-*`) | workflow versions, stages, transitions, the project's applied workflow | draft, edit, validate, publish and remap tasks | tasks, projects | publication against moves and creations | tasks stand on a stage of the applied version |
| Projects (`modules/projects`) | status, members, manager, completion policy | update, lifecycle, members | tasks, workflow | completion check before the write | a completed project has no blocker |
| Template lifecycle (`modules/templates/template-lifecycle`) | template versions | create, publish, archive, new version | cloning | publish against archive | one current published version per series |
| Workspaces (`modules/workspaces`, `owner.policy`) | members, roles, invitations, onboarding | invite, accept, revoke, change role, remove, transfer | auth | last owner, invitation accepted while revoked | always an active owner; an invitation ends once |
| Sessions (`modules/auth`) | users, refresh sessions, reset tokens | login, refresh, logout, reset, change password | all | rotation raced or repeated, lockout counter | one live token per family; reuse revokes it |
| Time logs (`modules/time-logs`) | time entries | start, stop, manual, update | tasks | overlap check before the insert | one running timer, no overlap |
| Permissions and tenant context (`middleware`, `modules/auth/permissions`, `lib/project-access`, `lib/task-scope`) | roles and their permission rows, project members, visibility | decide a request, migrate | everything | lists, "my work" and single rows ask different questions; the check precedes the write; the client keeps a copy of the map | what is listed can be opened; nobody holds what he cannot see; what is offered is granted |
| HTTP contract (`modules/*/*.routes`, `*.schemas`, `middleware/validate`, `frontend/src/lib/api` and the services of the client) | none | route, validate, answer, map | everything | paths, fields and answers are written by hand on both sides, and a mismatch is silent | each call reaches its handler and is read as it was written |
| Realtime (`realtime`, `modules/comments`) | rooms, events on the wire | join, tell | client | events and HTTP answers travel on different connections | a settled panel shows the rows |
| Client (`frontend/src`) | cookie, access token, per-page copies of rows | sign in, refresh, reload, apply events | all routes | several tabs, answers that arrive late | rotation signs nobody out; the screen converges |
| Task lists (`modules/tasks/task-filters`, `lib/task-scope`, `modules/dashboard`, the client's `my-tasks` page) | the address of the page, search box, saved view | filter, turn pages, save and apply a view, export, follow a link of the dashboard | tasks, tenant context | seven queries that are to select the same tasks; the filters pass through address, saved view and export, each with a copy of the mapping; a control starts from the address on the screen | the address keeps what was asked for; list, chips, board, calendar, export and dashboard agree |
| Notifications, rest of the task metadata, charts, parser | | | | none of their own beyond the HTTP contract | see `PROJECT.json` |

## 2. Modules

| Module | What it is |
|---|---|
| `CloneOnce` | Abstract promise of cloning: a request is absent, open, done or failed, and one project is made while it is open. |
| `CloneJobs` | Request handlers, workers, leases and the rows they share. Refines `CloneOnce`. |
| `Recurrences` | Workers, recurrences, occurrences, generated tasks, automation runs, users and time. |
| `TaskDependencies` | Task rows, dependency edges, completion and handoff. |
| `AuthSessions` | One account: failed logins, lock, refresh sessions, one-time links. |
| `Membership` | One workspace: owner, members, roles, invitations. |
| `TaskAccess` | A project that may be private, its members, and who sees, holds and edits its tasks. |
| `TaskComments` | Comments of a task, the realtime room, and the panel that shows them. |
| `BrowserSession` | The tabs of one browser, their cookie and access tokens, and the calls to `/auth`. |
| `Roles`, `Messages` | The permission map, the client's copy of it and the migrations that backfill it; what a message may hold. |
| `ServerSchemas`, `ServerRoutes`, `ServerAnswers` | Every request schema, every route in the order of registration, and every handler's answer and own checks. |
| `ClientCalls`, `ClientScreens` | Every call the client's services make, and what its screens offer whom. |
| `ApiDocument` | The OpenAPI document the server publishes: what it says each operation takes and answers. |
| `ApiSession` | A member at these screens, or a program that follows the document, the migrations, and the server that answers. |
| `TaskQueries` | The filters of the task page, its address, chips and saved views, and the tasks each query selects. |
| `TaskListPage` | The page: controls, router, search box, saved view. |
| `Handling` | What the next modules share: handlers, a clock, the bound on requests. |
| `BusinessTime` | Business calendars as functions: add, subtract and count working time. |
| `TaskSla`, `TaskRisk` | SLA instance and risk of one task, with the worker's polls. |
| `TimeLogs` | Time logs of one user. |
| `ColumnRanks` | Order of the tasks in one board column. |
| `WorkflowPublish` | Workflow versions, the draft, publication and the tasks on the stages. |
| `ProjectLifecycle`, `ProjectMembers` | Status of a project and the work left in it; members, roles and `managerId`. |
| `TemplateSeries` | Versions of one template series. |
| `TaskTree` | Parents and projects of subtasks. |
| `CloneJobsProofs` | Theorems about `CloneJobs`, and that it implements `CloneOnce` (Section 5). |
| `RecurrencesProofs` | Theorems about `Recurrences`. |
| `PeopleProofs` | Theorems about `AuthSessions`, `BrowserSession`, `Membership` and `TaskAccess`. |
| `TasksProofs` | Theorems about `TaskDependencies` and `TaskComments`. |
| `TaskListProofs` | Theorems about `TaskListPage` and `TaskQueries`. |
| `RequestsProofs` | Theorems about `ApiSession` and `Roles`, and about `MCRequests` as a whole. |
| `WorkProofs` | Theorems about `WorkflowPublish`, `ProjectLifecycle`, `ProjectMembers`, `TemplateSeries`, `TimeLogs`, `BusinessTime`, `TaskSla`, `TaskTree`, `TaskRisk` and `ColumnRanks`. |
| `WorkTypesProofs` | Theorems about `MCWork` as a whole: types within the bounds, and all promises at once. |
| `MCCloneJobs`, `MCRecurrences`, `MCTaskDependencies`, `MCSessions`, `MCWorkflow` | Instances of one component for TLC. |
| `MCRequests`, `MCWork` | Compositions: `MCRequests` of tasks, sessions, membership, access, comments, browser, the task page and the HTTP contract, `MCWork` of the components over `Handling`. |

### CloneJobs and the code

`job[k]` is the `clone_jobs` row of idempotency key `k` (`timer` is
`leaseExpiresAt` in PROCESSING and `nextRetryAt` in RETRY_WAIT: null, running or
over; `linked` is `createdProjectId`), `project[k]` counts the committed projects
with that `sourceCloneJobId`, `proc[p]` is where a handler or worker stands,
`queue[w]` what a worker claimed in its last poll, `reply[r]` what a request was
answered. One action is one statement or transaction. `clonePublishedTemplate`
is `Submit` (lookup), `Create` (insert, or the unique violation and second
lookup), the shared materialisation, `SyncFinish` and `SyncFail`.
`materializeCloneJob` is `Load`/`Replay` (existing project?), `InsertProject`,
`Heartbeat` for a worker, `Commit` or `Rollback`: the transaction is split at the
points other connections can observe, and its content (stages, tags, fields,
tasks) is one atomic commit. `claimPendingCloneJobs` is `Claim`,
`processCloneJob` is `Begin`, `Finish` and `Catch`, `retryCloneJob` is `Retry`.
The unique index on `sourceCloneJobId` makes a second insert wait for the first
and fail if that one committed; the foreign key from the uncommitted project to
the job holds a key-share lock, which makes `SKIP LOCKED` pass over the job
(`Inserting(k) = {}` in `Claimable`). That lock is why `CommitterOwnsLease`
holds although nobody compares the lease with the clock at commit.

### Recurrences and the code

`row[c]` is the `task_recurrences` row, `occ[c][s]` the status of its occurrence at
instant `s`, `made[c][s]` and `open[c][s]` the tasks generated for it and whether
one is unfinished, `run[c][s]` the automation run with key `recurrence:c:s`. A
schedule is the set of instants it names, and `computeNextRunAt` the least of
them after a given one, or null: that is what the code computes for a fixed
schedule as long as its candidates do not depend on where the search starts
(they could around a clock change that skips a local time; calendars are not
modelled). `generateDueOccurrences` is the chain `Read`, `Reserve` (transaction
under the advisory lock), `Enqueue`, `Overlap`, then `SkipOccurrence`,
`SkipNext`, `SkipRun`, or `CreateTask`, `Link`, with `FailOccurrence` and
`FailRun` for the catch block. `proc[w].snap` is the row as `Read` saw it: all
later writes of `nextRunAt` come from it. `Returns`/`Raises` lead back into the
recurrence loop of `pollWorkerOnce` or into `executeRun`, which marks the run.
`CREATE_AND_NOTIFY` creates like `CREATE_ANYWAY`; its notice is inside the same
`try` and may fail like the lost answer of `Link`. Clone jobs, risk and SLA
steps of the same poll touch none of this state; an exception in them ends the
poll as `Crash` in place "recurrences" does. A claim or a retry uses the time
its poll or request began; the model uses the present, so it may claim a run a
little sooner than the code. `upsert` on a task without a recurrence is one
step (see Section 7).

### Components and the code

In every module a request (a member of `Requests`, `Handlers`, `Requesters`,
`Clerks` or `Writers`) is a chain of statements: a variable says where it stands
and what it has read, an action is one statement or one transaction, and a
transaction is split where another connection can observe or disturb it.
Variables marked "history" in their comment record what happened for a property
and are read by no guard.

`TaskDependencies`: `task[t]` is the row with its optimistic `version`, `edges`
the table of dependencies. `updateTask`, `moveTask`, archiving, deletion,
restoration and their bulk forms read the row, and their transaction updates
`where version = seen`; a completion looks for successors whose predecessors are
all DONE and hands off to them in the same transaction. Adding an edge searches
for a path back before it inserts. `last[t]` is the history row with the latest
`changedAt`, which is the one the code calls the newest, whatever committed last: `clock`
is read by an update before its transaction (`at`), by a dependency request inside its own.
Two stamps are never equal here, and the remapping of a publication, which records
rows too (`projects.service.ts:1174`), is in `WorkflowPublish`, without history.

`AuthSessions`: `account` is the `users` row (`lock` is `lockedUntil`: none, future
or past), `sess` the refresh sessions with their family, `link` the one-time
tokens. `refresh` reads a session, then revokes it and inserts its successor in
one transaction; a revoked one presented again revokes its family.

`Membership`: `ws` and `member` are `workspaces` and `workspace_members`, `inv` the
invitations. Role changes, removals and transfers run under the workspace's
advisory lock (`lock`), acceptance, revocation and conversion do not.

`TaskAccess`: `team` is `project_members`, `plan` the project, `job` the tasks.
`buildTaskListWhere`, my-work and `assertTaskAccess` are operators of their
own, because they are queries of their own in the code; `paper` is what a create or
update has checked and will write. The check of the project and that of the assignee are
two steps, as in the code (`CheckProject`, `CheckAssignee`); the second does not see a
project that is deleted. Workspace roles do not change, and an owner counts as an admin.

`TaskComments`: a handler writes the row and afterwards emits to the room; the
panel replaces what it shows by a list it asked for and applies events as they
come. `wire` is one socket in order, `list` the lists in flight. One task, one
browser, one replica; switching tasks is left out.

`BrowserSession`: `jar` is the refresh cookie the tabs share, `tab[t].token` the
session the tab's access token names, `flight` the calls under way. A call is
taken at once by the server (that module is `AuthSessions`). `Asks` says which tabs may
have a request answered 401, late ones of a tab that has signed out included: a page
once opened may send anything. After a refresh the request is sent once more with the
token in `retried`; what matters of that is `/auth/me`, whose second 401 ends the session
on the screen (`ProfileRefused`) or makes a tab that signs in log out (`MeFails`), and
whose late success signs a tab in (`ProfileRead`).

`ApiSession` joins two sides that are tables elsewhere. A call of `ClientCalls` names
the handler it is meant for, its path, what it sends and what it reads of the answer; a
route of `ServerRoutes` names permissions, schema and handler. `Respond` takes the first
route that matches, checks the tenant, the route's permissions against the role rows
(`grants`) and the handler's guards against the truth, and records what either side would misread
(`Misread`). `Migrate` is one migration, `Turn` any change of the member's role or of the
thing he looks at, `LookAgain` the next load of the profile and the thing. `mind` is
what the client believes and decides its offers by. Workspace-visible projects only;
modules are switched on, and a workflow transition asks for no permission of its own.
`Program` is the owner's program: it takes any operation of `ApiDocument`, sends what the
document says, and `MisreadDocument` is what it would misread.

`TaskQueries`: a task is a row of the fields the queries look at; a day has two instants, its
midnight and the rest. `parseTaskFilterState`, `serializeTaskPageUrlState`,
`describeActiveFilterChips`, `pageStateToSavedViewInput` and the mappings to list and export
filters are the functions of `tasks.helpers.ts`, `buildTaskListWhere` and the dashboard's
queries those of the server. A phrase is found in a task or not (`words`), `trim` is a function
on phrases. `Coherent` filters do not replace one another. `TaskListPage`: `onScreen` is the
address the page was rendered from, `heading` the one the router was last given; `meant`
records what the last control asked for. `Elsewhere` is everybody else's work on the tasks.

`TaskSla` over `BusinessTime`: time is counted in hours, a calendar is a function from the
days of a week to windows. `inst` is one row of `task_sla_instances`; start,
pause, resume, settlement by `finalizeTaskSlaOnStatusChange`, and the polls that
warn and breach are its actions. `AddBusiness` and its companions follow the code's
loop over days: `left` is what remains when the loop comes to a day, and the loop ends on
the first day with room for it (going back, the last). `BusinessTimeExact` compares them
with counting hours one by one. Calendars close before midnight or at it, where the code
loses the last minutes (`AtHour`).

`TaskRisk`: `facts` is what a recalculation reads of the task, `due` the column
`riskRecalculateAt` (the worker's lease is "a minute ahead"). Score, thresholds,
manual level and the rule are translated; the escalation notice is deduplicated by level.

`TimeLogs`: instants are hours, `Entered` the ones typed by hand; the partial
unique index for running timers is a guard of the insert, and a failed insert
ends the request. `ColumnRanks`: `card` holds rank and version; a move reads its
neighbours, then takes the middle or renumbers the column.

`WorkflowPublish`: a stage is the pair of version and name. `flow` holds the
published versions, `draft` the row with version 0, `item` the tasks. A draft is
cloned, edited, published with a mapping of stages; tasks are created, moved, deleted
and restored meanwhile. A task that is "away" belongs to another project or to none:
`BringItem` resolves its stage in this project before the transaction of `updateTask`
(`MoveItemWrite`), `LeaveItem` takes one out. `BlockItem`, `ReleaseItem` and
`DependencyWrite` are what adding and removing a dependency and a handoff do to a task:
the status changes, by id, and the stage stays. Which transitions are allowed and which
predecessors are unfinished is left open, and a terminal stage is one whose status is terminal.

`ProjectLifecycle`: `project` is status, deletion and completion policy, `work`
counts open tasks and running timers. `ProjectMembers`: `role` is the membership
table, `lead` the `managerId` that `syncManagerId` derives in two statements of its
own. Viewers are members here, the actor may manage, and `replaceMembers` is
taken at once. `TemplateSeries`: `row[0]` is the draft, the others published
versions. `TaskTree`: a placement walks up from the parent and down from the
task, one query per level (`plan.front`, `plan.below`), before its transaction.

## 3. Runs

| Run | Expect | Properties | What it shows |
|---|---|---|---|
| `clone_safety` | pass | `TypeOK`, `CommitterOwnsLease`, `ReplayNeverCollides`, `AnswersAgree`, `CompletedIsFinal`, `ImplementsOnce` | Two requests with different templates race for one key, two workers, three faults, one user retry. |
| `clone_live` | pass | `JobsHaveTheirProject`, `StaleWorkerIsHarmless`, `LeasedJobsSettle` | Two jobs in one batch, one of a template without tasks, which never sends a heartbeat; every job a worker may claim is settled. |
| `clone_abandoned` | violation | `EveryJobSettles` | See Section 6. |
| `recur_safety` | pass | `TypeOK`, `OneTaskPerOccurrence`, `NoInstantLost`, `NoOverlap` | Two workers on one recurrence, a fault anywhere, an edit, a retry. |
| `recur_live` | pass | `DueAdvances`, `RunsSettle` | Progress while nothing fails. |
| `recur_retry`, `recur_stuck` | violation | `RetryRepairs`, `NeverStuck` | See Section 6. |
| `requests_safety` | pass | `TypesOK`, `VersionsProtect`, `AcyclicUnlessRaced`, `FamiliesSound`, `GuessesBounded`, `OwnersHold`, `InvitationTellsTruth`, `ReadersAgree`, `ScreenAgrees`, `SessionKept`, `CallsUnderstood`, `PageTellsTruth`, `OffersAdmitted` | The parts of `MCRequests`. |
| `work_safety` | pass | `WorkTypesOK`, `BusinessTimeExact`, `BudgetKept`, `RiskRequestKept`, `LogsAreSound`, `TasksFollowWorkflow`, `HierarchySound`, `ProjectIsLed`, `FinalStays`, `LandsBetween`, `CompletionGuarded`, `OneCurrent` | The parts of `MCWork`. |
| `tasks_stranded`, `access_lock`, `workflow_draft` | violation | `NobodyStranded`, `LockIsTemporary`, `DraftObtainable` | See Section 6. |

Composition. The components of `MCRequests`, and those of `MCWork`, share no state
in the model: a task's edges, an account's sessions and a workspace's members are
different rows, and what couples them in the code (a removed member's request is
refused, an update of a task settles its SLA) is an input each module leaves open.
`part` therefore picks one component at the start, the others stay in one of
their initial states, and one run answers for all of them. Within a part every
interleaving of its handlers is explored.

Bounds. Two handlers are enough for every race between a check and a write:
a third can only repeat what the second does. Each may serve several requests,
so that the second one also meets what earlier ones left: four requests in the
parts of `MCWork`; three on tasks, the workspace, subtasks, cards and
members, where a request branches more; five calls on an account, because a
rotation that is reused takes login, refresh, refresh and one more; five calls and four
sessions for the browser (login, two refreshes, a repetition); two writes of
a comment by two writers, whose broadcasts can cross. Three tasks give a join and a chain of dependencies; three people an
owner, somebody who is promoted and somebody who leaves; three levels against a
`MaxLevels` of 2 the case the code meets at six against five. Five hours
with days of four let a budget run over a night and a day off. `RankGap` 2 makes
a column renumber after one insertion. `Policies` has only BLOCK_WITH_OVERRIDE
in `requests_safety`: it contains the behaviours of BLOCK (no override) and of
WARN_ONLY (override), and the policy is read once per request.

The HTTP contract is checked whole: every call, every route, the four roles, and of a
task that one is a party to it, wrote the row in question, that it is archived or deleted,
of a project that one leads it; and, for the owner, every operation of the document. The client is at most one change behind: `OffersAdmitted` is
about true views, and a stale one may be refused.

The task page is opened bare or with a link that sets one filter of every kind, by an owner, a
manager and a member; two controls are enough for one to undo the other, and to save a view and
apply it elsewhere. The tasks are one for every answer of a filter (`SomeRows`): around the day and
the period, of everybody and nobody, of a private project, set aside, finished.

For cloning and recurrences, faults, retries and edits are the counters `MaxFaults`,
`MaxRetries`, `MaxEdits`; two to three faults give a crash or lost answer together
with a stall, one is enough in `recur_safety` because every statement may be the
one that fails. `MaxAttempts` is 2, so that both a back-off and a death happen.
`MaxSlot` is 2: there is a next instant to lose, to take twice or to overlap
with, and a schedule that ends.

Symmetry permutes handlers, and people, rows or tasks whose names nothing
compares, in the runs without liveness properties. Deadlock is checked for recurrences (a worker always polls) and
not elsewhere, where an instance that has served its requests has nothing to do.
The theorems carry the safety results over to any bounds.

`DueAdvances` and `NoInstantLost` are about recurrences nobody edits: a resume or
update is meant to start counting from now. `DueAdvances` and `RunsSettle`
promise nothing after a fault, because the code does not: a worker that dies
after `Reserve` leaves a PENDING occurrence that nobody takes up.

Several properties carry a history variable as an exception (`raced`, `crossed`,
`crowded`, `unseen`, `strayed`, `loose`, `revived`, `headless`, `adrift`, `missed`,
`excused`, `late`, `outdated`, `handed`). Each names the interleavings in which the code does not
keep the promise, and Section 6 lists them; everything outside of them is shown to be safe.
For three of them the property says what holds instead: a task in `outdated` is TODO, one in
`handed` is BLOCKED or TODO as its mark says, and a tab in `late` may hold a token while it
shows no session.

## 4. Fairness

`FairSpec` adds weak fairness of the whole step of each worker (its `main` loop
polls until the process is stopped, and a crashed worker is restarted), of each
request handler, of answering an accepted retry, of back-offs ending and of
time. A lease under a live holder need not run out: the fair action is the
expiry that is no stall. Crashes, failing statements, edits, retries and finishing
tasks are never owed. No strong fairness is used: a worker is one sequential
process, so its step, once enabled, stays enabled until it is taken (a claim
passed over because another worker's transaction holds the row is followed by
the next poll).

## 5. Proofs

Everything below is checked by TLAPS for all values of the constants that
satisfy the assumptions in the modules.

`CloneJobsProofs!TypeCorrect` and `RecurrencesProofs!TypeCorrect` prove the type
invariants. They carry the parts that `TypeOK` does not say but its
preservation needs: which places belong to requests and which to workers, that
a process stands on an existing job, that a worker's snapshot names an instant.

CloneJobs. `CloneJobsProofs!OneProject` needs only that a process about to commit
is the one whose insert the unique index let through, and that no project was
committed before (`InsertInv`). The rest is one inductive invariant:

    LeaseInv == TypeInv, InsertInv, TokenInv, LoneInv, DoneInv, AgreeInv,
                CommitterOwnsLease, ReplayNeverCollides

`TokenInv` says tokens in use were issued and no two claims share one; `LoneInv`
that a synchronous job is touched only by the request that created it; `DoneInv`
that completion and answers come after the project; `AgreeInv` that the job's body is
what accepted requests asked for. `CommitterOwnsLease` is inductive only
together with `TokenInv`, and `ReplayNeverCollides` only together with both:
a collision needs a commit by somebody who is not the owner. From `LeaseInv`
follow `CommitterKeepsLease`, `ReplayIsSafe`, `CompletedIsReal` (with `OneProject`:
`ProjectsAndJobsAgree`), `AcceptedAgree`,
the action properties `CompletedStays` and `StaleIsHarmless`, and
`LeasesImplementOnce`: if every template has a task, so that the last
heartbeat precedes the commit, every step maps to a step of `CloneOnce` or a
stutter. Without tasks there is no heartbeat, a stale worker may commit for a
closed job, and only the one-project part remains; `clone_live` runs that case.

Recurrences. `RecurrencesProofs` uses

    TypeInv, HoldInv, PointerInv

`HoldInv` says that whoever stands between the reservation and the end of a
generation is alone with its instant, and relates the occurrence's status to
the number of tasks made. It is needed because `OneTaskPerOccurrence` says
nothing of a worker about to create. `OneTask` follows from it, edits
included. `PointerInv` speaks of recurrences nobody edited: the snapshot in a
worker's hand has the row's schedule and policy and an instant at or behind the
row's, instants before the pointer are done, and a worker that has not moved the
pointer yet still finds it at its own instant. `NothingLost` and `SkipsOverlap` follow from it. The lemmas `LeastExists` and
`NextRunAtFirst` establish that the next instant exists and that nothing of the
schedule lies between it and the one before.

Membership and access. `PeopleProofs` strengthens the properties by what each handler
standing between read and write may rely on (`Sure`: under the lock, the target
it read is still what the row says), by `Named` (the workspace names a member)
and `NothingYet` (unused invitations are blank). Counting owners uses that
`People` is finite. `ReadersStayAgreed` rests on `AccessInv`: an assignee of a
private project's task is a member, in the row and in the hand of every request that has
checked one (`PaperHolds`), unless members or visibility changed since; only with
the second half does a write keep the first.

Sessions. `AuthInv` is the type invariant with `FamilyInv` and `Counted`.
`OneLivePerFamily` alone is not inductive: a rotation first claims the old row and
later commits the new one, so `RotatesAlone` says of the time between that nobody
else rotates in the family and that its only live session is the claimed one.
`Families` follows. `Guesses` follows from `Counted`: until a login overwrites
what it had not read, the counter of the row is the number of wrong passwords in a
row, and the limit has locked the account.

Browser. `BrowserInv` says what answers and cookie have to do with each
other outside of excused families: a call about to refresh carries a live session
and shares it with no other (`CallsLive`, `OneRenews`), what an answer brings nobody
else holds (`Unshared`), and the session of the cookie is dead only while the call that
spent it is on its way back (`JarLive`). `BrowserStaysSignedIn` also needs, tab by
tab, that a refresh is shared inside a tab (`TabHolds`).

Tasks and dependencies. `TasksInv` is `TypeOK`, `RowsInv` and `DagInv`. A row never changes
without its version, so a request whose version still fits has read the row as
it is (`Reads`), and from its write to its commit it holds it alone (`HoldsAlone`):
`Versions` follows. For `StaysAcyclic` the request that has passed its check is alone
until somebody races it, and its edge still closes no cycle. Reachability is stated
without recursion (a set closed under the edges), so that an edge that closes
no cycle can be reasoned about.

Comments. `CommentInv` relates four places: whoever is to tell the room of the last write
has the row, the last event on the wire has it when nobody is left to tell
(`Told`), and what is on the screen, or in a list on its way to it, becomes that row
by the events under way (`View`). `ScreenAgrees`, about panels at rest, is the
case without events.

Work. `SettledForGood` and `CompletionIsGuarded` are action properties over a small
type invariant: what a handler read is either what the row still says, or the
history variable has been raised. `LogsStaySound` needs `Alone` (at most one
handler stands between check and write, unless `crowded`) and `WriterApart`: the
interval it will write is disjoint from the rows. `OneVersionCurrent` rests on
`Counted` (versions are numbered without gaps), `Gapless` and `Newest`.
`RiskRequestKept` is inductive as it stands. `ProjectsAreLed` needs what a
handler has found of the roles to hold while none has changed (`Found`), and that
the row follows the roles unless a sync is still to come (`Follows`).

Hierarchy. `HierarchyStaysSound` adds what a walk knows to what its plan says. For
cycles the trace of a walk up is stated without recursion, as "every set that
holds the new parent and with each task its parent holds the ancestor to be read
next" (`TreeInv`): a walk that ended proves the task is not among them. For levels
(`LevelsInv`) it knows who stands so many steps above the parent in every line of live tasks; a
walk down that has read e levels knows who can stand on the e-th, and
that lines down to the parent leave room for e. A placement joins such a line above to
one below and cannot exceed `MaxLevels`. Lines are functions from 1..n, not a
recursion over depth, for the same reason.

Board. `MovesLandBetween` is an action property over `RankInv`: tasks in the column
have ranks, a move has read ranks of other tasks than its own, and a column
numbered afresh has gaps of `RankGap` (`Spaced`). It assumes finitely many cards.

SLA. `CalendarsAreExact` proves the date arithmetic of `BusinessTime` for every week,
length of a day and number of days: the hours of a day that a calendar works are
the interval between `Opens` and `Closes` (`HoursOfDay`), so what a day has ahead
or behind is a number of worked hours (`DayCount`), adjoining intervals add up
(`Splits`), and each recursion over days has a closed form: what is left on a day is n less
the hours worked up to its midnight (`LeftForwards`, `LeftBackwards`). The closed form is
a solution, and the only one: two solutions would differ first on some day, or last.
Adding then ends on the least day by whose end n hours are worked. `DatesAreExact` states it
of `SlaSpec`. `BudgetsAreKept` rests on it and proves the account `ran` + what
is left = `Target` of every instance, paused ones included (`OnBudget`).

Task page. Every control is shown to make well-typed filters of filters (`PatchWrites`, with the fields
as a function of their names), `RoundTrip` that the address read back gives them up to the blanks
around the search, and `SavedRestores` that a saved view puts back what it was saved with; with
these `PageInv`, the type invariant and `AddressKeepsPage`, is inductive, the controls used before the
router renders included. `QueriesAgree` is about any finite set of tasks, any filters and viewer: `ListIs`
gives the list as a conjunction of what its filters ask (`RestOf`, `AssigneeOf`, `Hidden`, `DatesOf`),
`ChipsSay` what the chips say together, `ColumnIs`, `CalendarIs`, `ExportIs`
and `LinkLists` the other queries, and the agreement is a comparison of these. `PageIsTrue` joins the two.

Tasks. `Versions` adds to the versions that a request knows, what it knows of the history:
every stamp is at most the clock, and an update whose row is still current was stamped after
the newest entry of its task, so that its own entry becomes the newest. That argument
needs the version and fails for a handoff, which is the exception.

Workflow. `WorkflowCarriesTasks` needs of every handler that what it will write
still fits the applied version (`Carried`, `StatusFollows`), and that one publication at
a time holds the lock (`OnePublisher`). A move read under an older version finds the version of
its task raised, unless the task was away, which is why `strayed` takes those; a dependency
writes a task in whatever state it is by then, and its mark goes with its status.

HTTP contract and composition. `RowsReachClientMap` is about role rows older than the server:
the keys of two migrations are apart (`KeysApart`) and each migration gives a role exactly those of
its keys that the map grants it (`BackfillsMap`), so the rows follow the map over the catalogue
reached (`FollowsMap`), and after the last migration they are the client's copy (`CopiesAgree`).
The steps of `MCRequests` are a step of one component and no step of the others, so `RequestsSpec`
implies the specification of each (`FollowsTasks` and its like); what is proved of each of them
holds of the whole: `RequestsTyped` and `RequestsKeepPromises`.

Types within bounds. `TypesHold` says that the counters of `MCWork` stay in the ranges TLC enumerates,
which is more than their being numbers: every number must be paid for by the requests served. A rank is at most
`RankGap` times the cards and the moves that have written (`Room`; a request under way is counted as served and has
added nothing yet, and renumbering uses fewer ranks than there are cards), the open work of a project, the version of a
subtask, the number of a draft and the applied version of a workflow at most what the requests served can have added
(`ProjectTyped`, `TreeTyped`, `SeriesTyped`, `FlowBounds`: a publication counts as served before it commits). For an SLA the dates of a
row come from the same calendar functions (`AddTyped`, `SubtractTyped`, `BetweenTyped`, for any calendar,
by the same closed forms as above), and only a paused instance is resumed (`Paused`). `WorkInv` joins these:
the component asked keeps its own invariant, what rests keeps the types it began with, and
the SLA's account goes on while time logs run the clock. `WorkKeepsPromises` carries the properties
along the same way: a component that is not asked does not move, and the one that is satisfies the
step lemmas its own theorem rests on; `BudgetKept` also when the clock is another's, because no request is
then between reading an SLA and writing it.

Assumptions. Besides the types of the constants (a calendar's week has one to seven days,
the windows lie within a day): there is a job, a comment and a task
(`Jobs`, `Comments`, `Tasks` are not empty); the dependencies to begin with are
acyclic; people and cards are finite (for `TypesHold` and `WorkKeepsPromises` a hypothesis, as is, for the latter, that
there is a person to lead the project); and, of the bounds of `TaskSla`, that the
days of the model are long enough for the target to be worked off after the last hour
(`DaysAssumption`), so that a due time is never the end of the model.
TLC evaluates the assumptions in the runs, and every instance meets the hypotheses.

Only model-checked: the liveness properties `LeasedJobsSettle`, `DueAdvances`,
`RunsSettle`, `EveryJobSettles` and `NeverStuck` (liveness under fairness and ENABLED
are outside the prover's reach); `RetryRepairs` and the other properties that
fail; `OffersAdmitted` and
`CallsUnderstood`, which are evaluations of the tables of the HTTP contract: `ApiSession` has no constants,
so the run covers every state there is and a proof would add nothing.

## 6. Findings

* `clone_abandoned`. A small template's job is created PROCESSING without a
  lease (`template-clone.service.ts:355`). If its handler dies, or its failing
  update fails too, no claim and no retry accepts the job. The phase 8.2 document says that
  workers reclaim abandoned leases and that failures can be retried.
* `recur_retry`. When a task cannot be created, its occurrence becomes FAILED.
  A retry of the run by a user finds that occurrence, takes it for a duplicate
  (`recurrences.service.ts:259`) and is marked SUCCEEDED: nothing was created. `RetryRepairs`
  speaks only of runs a retry has written (`asked`).
* `recur_stuck`. The row locks of the poll end with the poll's own transaction.
  A user who resumes or updates a recurrence while a worker is generating has
  the recomputed `nextRunAt` overwritten by the worker's old one; if another
  worker has already generated that instant, every later generation is a
  duplicate that moves nothing, and the recurrence stays due for ever.
* `tasks_stranded`. Two predecessors of one task completed in overlapping
  transactions each count the other as unfinished; the successor stays blocked.
* `access_lock`. `lockedUntil` passes, but the account's status stays LOCKED until
  the password is reset by mail.
* `workflow_draft`. Publication keeps the draft as an archived row of version 0, and the next
  draft of the family is inserted as version 0 as well: a project publishes once.

Seen while modelling; each is an exception a property names, or a hazard with a note
in `PROJECT.json`.

* Workers: RUNNING runs of a dead worker are never reclaimed, a reserved
  occurrence of a dead worker stops its recurrence, reclaims are not bounded by
  `maxAttempts`, a batch claimed under one lease time is worked off in turn. A run just enqueued
  may be claimed by another worker, which meets the occurrence as a duplicate and marks the run
  SUCCEEDED while its creator's task still fails.
* Tasks: two dependencies added at once may close a cycle, two placements at once
  may close a parent chain; a restored subtree may be deeper than the five levels
  `docs/phase-8-2-workflows.md:154` promises; a move to DONE on the board does not settle the SLA,
  and an SLA completed late between two polls counts as MET; renumbering a column overwrites ranks; a
  bulk update reports failure for a task whose fields it has already written when
  the archiving part fails; a successor is handed over with the time of its predecessor's request, so
  that its row may sort before a newer one, and the history then names another status than TODO; checklist and milestone reorders check outside their transaction; custom field
  values are saved although the request is refused for a missing required one.
* Time logs: a timer may start under a log entered for the future.
* Sessions: two logins lose a failure of the counter or a lock; a reset link is marked used
  after the password was changed, so two requests may both use it.
* Workspace: two transfers at once leave the second carried out by somebody who
  is no longer the owner; an acceptance writes over a membership that became active again;
  an invitation may be accepted and revoked.
* Projects: `updateProject` writes back the status it read and its `managerId` is
  overwritten by the next sync; `addMember` demotes an owner who is added again; a change of visibility
  makes members without a sync. After `removeMember` or a change of visibility, a task may stay
  with somebody who is no member, and its update is refused until it is
  reassigned; the same happens to an assignee who is looked up while the project is deleted
  (`tasks.service.ts:275`), if it is restored later; my-work lists tasks of private projects their holder cannot open
  (`docs/phase-5-core-task-management.md:16,77`). In `listProjects` the search replaces the visibility
  condition.
* Task lists: the due filter takes the place of the status filter (`task-filters.ts:146`), so that every column
  of the board shows the same open tasks under it, and "unassigned" that of the assignee filter; calendar and timeline
  ignore due and deadline filters. The export drops the tags, which
  `docs/phase-7-task-metadata-collaboration.md:39` puts in its contract, and the assignee that the list takes for
  granted; saved views drop tags, page and, outside the timeline, the grouping. Tags have no chip, and
  "Clear filters" of the empty list leaves them. The "Unassigned" deadline mode leaves a chip of
  the assignee; "Date range" offers its days only where a date is set already; an empty page behind the
  last says "No tasks yet"; the presets "archived" and "trash" list the active tasks as well; a deadline ends at the midnight that
  begins its last day. Tiles of the dashboard count tasks whose stage alone is open, or of other assignees, and their links
  do not list those. Two controls used before the page renders: the second undoes the first.
* Risk and SLA: escalation notices are sent once per level for ever; working windows that end at
  24:00 end at 23:00 of the calendar.
* Workflow: edits of a draft whose publication is under way are lost; tasks created,
  restored or brought in from another project across a publication stand on the old version, which
  no move and no later publication accepts. A task blocked, released or handed over by its
  dependencies changes its status and keeps its stage: until it is moved or a workflow is published,
  board column and status disagree (`dependencies.service.ts:181`, `:259`, `task-transitions.service.ts:179`).
* HTTP contract (`Divergences` in `ApiSession`): `listMembers` answers in pages and the client reads
  one page as the whole list; calendar and timeline drop the sort they are sent; `isActive` is
  dropped by the recurrence and risk rule schemas; SLA policies answer `applicableConditionsJson` where
  the client reads `applicableConditions`; pausing or resuming an SLA answers neither policy name nor
  remaining time; `updateProject` drops `memberIds`; activity never sends a project name. The document puts a recurrence without a body and answers an added member with 200 where the server answers 201
  (`DocumentDivergences`). `z.coerce.boolean`
  reads "false" as true (`projects.schemas.ts`); a patch of an SLA policy resets its conditions to the default.
* Offers the server refuses (`Overoffered`): the drawer of an archived task, whose `getTask`, timer, checklist, comments,
  attachments, tags and field values answer 404; that of a deleted task; the members tab of a project, its
  settings and workflow for a manager who does not lead it; a new version or archiving of a template for a
  member; the roles admin and manager in the members page and invite dialog. No screen restores
  an archived or deleted project, or calls `revokeInvitation`, the milestones, `updateTag`, `deleteSlaPolicy`.
* Client: two tabs that refresh with one cookie trigger the reuse detection; a page reloaded during
  a refresh loses the rotated cookie; a request sent once more after a refresh is answered 401 again
  when another tab has rotated meanwhile: `refreshProfile` then shows the session as expired although
  the cookie is good, and a tab that is signing in calls `logout`, which ends the session of every tab; a
  401 that arrives after sign-out refreshes with whatever cookie there is and leaves the tab a token; the first load stays "loading" when the
  request itself fails; a failed drag restores an old snapshot of the board; the comment panel applies
  events of any task and does not rejoin its room after a reconnect.

## 7. Not modelled, and why

* The content of a cloned project, text, notices and audit rows: data the properties do not tell apart.
* `RISK_RECALCULATE` runs: executed by the worker, enqueued by nobody; `markAutomationRunDead`: no caller.
* Two concurrent first upserts of one task's recurrence, which can create two
  rows, are taken one after the other.
* Editing of SLA policies, calendars, tags, checklists, attachments, milestones,
  custom fields, and of saved views by several members: single statements on one row, behind the access check of `TaskAccess`.
* Several replicas of the realtime hub, task switching in the comment panel and mention notices.
* Onboarding steps and workspace modules: each writes one flag.
* Charts, timeline groups, history, activity feed and the format of exports: they change no state.
* In `WorkflowPublish`, what happens to a task in another project; the tasks a template clone creates with the
  status of their stage's category (`template-clone.service.ts:255`), where a stage's name says another; and
  `backfillTaskWorkflowStages`, which nothing calls.
* In `BrowserSession`, a login from a tab that is still loading, and an answer to `refreshProfile` while
  the tab signs in again.
* Switched-off modules, permissions that a workflow transition asks for, private projects and deep links in `ApiSession`.
* The natural-language parser, hashing, mail, logging.
* The legacy `templates.service.ts`: excluded from the build and imported by nothing.
* Forms, layout and formatting of the web client.
* Liveness of the request handlers: each ends on its own or fails, no handler waits for
  another except at a database lock, which PostgreSQL grants in turn.

## 8. Plan

1. An abstract session with one live token, implemented by rotation with reuse
   detection.
2. An abstract specification "once per instant" for `Recurrences` and its refinement
   for recurrences nobody edits; the split of `Create`.
3. Composition of task history with workflow publication: the rows a remapping
   records between those of updates and handoffs.
4. The board of the client: drags in flight against reloads.
