------------------------------ MODULE TaskAccess ------------------------------
(* Who sees, holds and edits the tasks of a project that may be private.  The  *)
(* lists, "my work" and the task itself are each asked by a query of their own;  *)
(* a request looks up the task, the project and the assignee one after the      *)
(* other before it writes, while members come and go and projects are deleted    *)
(* and restored.                                                                  *)
EXTENDS Integers, FiniteSets

CONSTANTS Staff,     \* active members of the workspace
          RoleOf,    \* their workspace roles; an owner has the rights of an admin here
          Unassigned,
          Jobs,      \* tasks
          Clerks,    \* handlers that create or update a task
          MaxPapers  \* bound: requests

ASSUME AccessAssumption == /\ Unassigned \notin Staff /\ Jobs # {} /\ MaxPapers \in Nat
                           /\ RoleOf \in [Staff -> {"admin", "manager", "member"}]

VARIABLES team,    \* project_members
          plan,    \* the project
          job,     \* tasks
          paper,   \* what each handler has checked and is about to write
          papers,  \* requests begun
          strayed  \* history: tasks whose assignee has left the project, or found it private, since the check,
                   \* or was looked up while the project was deleted

accessVars == <<team, plan, job, paper, papers, strayed>>

Holders == Staff \cup {Unassigned}
Duties == {"member", "manager", "owner"}
JobType == [made : BOOLEAN, inside : BOOLEAN, assignee : Holders, creator : Holders, archived : BOOLEAN, deleted : BOOLEAN]
\* next: what the handler looks up next, or that all it writes is checked.
\* overtaken (history): a member has left, or the visibility changed, since the
\* assignee was looked up, or the project was deleted when he was.
PaperType == [kind : {"none", "create", "update"}, next : {"project", "assignee", "write"}, by : Holders,
              task : Jobs, inside : BOOLEAN, assignee : Holders, overtaken : BOOLEAN]
NoJob == [made |-> FALSE, inside |-> FALSE, assignee |-> Unassigned, creator |-> Unassigned, archived |-> FALSE, deleted |-> FALSE]
Paper(kind, next, u, t, inside, v) ==
    [kind |-> kind, next |-> next, by |-> u, task |-> t, inside |-> inside, assignee |-> v, overtaken |-> FALSE]
NoPaper == Paper("none", "project", Unassigned, CHOOSE t \in Jobs : TRUE, FALSE, Unassigned)

AccessTypeOK ==
    /\ team \in [Staff -> {"none"} \cup Duties]
    /\ plan \in [private : BOOLEAN, creator : Staff, archived : BOOLEAN, deleted : BOOLEAN]
    /\ job \in [Jobs -> JobType] /\ paper \in [Clerks -> PaperType]
    /\ papers \in 0..MaxPapers /\ strayed \subseteq Jobs

\* createProject: its creator is the owner.
AccessInit == \E u \in Staff, private \in BOOLEAN :
    /\ team = [v \in Staff |-> IF v = u THEN "owner" ELSE "none"]
    /\ plan = [private |-> private, creator |-> u, archived |-> FALSE, deleted |-> FALSE]
    /\ job = [t \in Jobs |-> NoJob]
    /\ paper = [p \in Clerks |-> NoPaper] /\ papers = 0 /\ strayed = {}

-----------------------------------------------------------------------------
(* Access *)

IsAdmin(u) == RoleOf[u] = "admin"
HasWorkspaceTaskScope(u) == RoleOf[u] \in {"admin", "manager"}
CanViewProject(u) == IsAdmin(u) \/ ~plan.private \/ team[u] # "none"
CanManageProject(u) == IsAdmin(u) \/ team[u] \in {"manager", "owner"}

\* Mutant: the project is not looked at.
VisibleAnywhere(u, t, archived, deleted) ==
    /\ job[t].made
    /\ archived \/ ~job[t].archived
    /\ deleted \/ ~job[t].deleted
    /\ HasWorkspaceTaskScope(u) \/ u \in {job[t].assignee, job[t].creator}

\* buildTaskVisibilityWhere, with what is included besides the tasks in use
VisibleTask(u, t, archived, deleted) ==
    /\ job[t].made
    /\ archived \/ ~job[t].archived
    /\ deleted \/ ~job[t].deleted
    /\ job[t].inside => CanViewProject(u)
    /\ HasWorkspaceTaskScope(u) \/ u \in {job[t].assignee, job[t].creator}

ProjectAccessible(u) == CanViewProject(u) /\ ~plan.archived /\ ~plan.deleted
\* assertAssignee finds no project that is deleted, and then refuses nobody.
Belongs(v, inside) == v # Unassigned /\ inside /\ plan.private => team[v] # "none"
AssigneeAccepted(v, inside) == plan.deleted \/ Belongs(v, inside)
CanAssign(u, v) == v \in {Unassigned, u} \/ HasWorkspaceTaskScope(u)

\* What updateTask asks of the task it has read; of the project; and of the
\* assignee, new or not.
TaskAdmitted(u, t, v) == VisibleTask(u, t, TRUE, FALSE) /\ (v = job[t].assignee \/ CanAssign(u, v))
UpdateAdmitted(u, t, inside, v) ==
    /\ TaskAdmitted(u, t, v)
    /\ inside => ProjectAccessible(u)
    /\ AssigneeAccepted(v, inside)

ListTasks(u, archived) == {t \in Jobs : VisibleTask(u, t, archived, FALSE)}
\* "My work" does not look at the project.
MyWork(u) == {t \in Jobs : job[t].made /\ ~job[t].archived /\ ~job[t].deleted /\ job[t].assignee = u}
EligibleAssignees == IF plan.private THEN {v \in Staff : team[v] # "none"} ELSE Staff

-----------------------------------------------------------------------------
(* Tasks *)

Serves == papers < MaxPapers /\ papers' = papers + 1
Files(p, w) ==
    /\ Serves /\ paper[p].kind = "none"
    /\ paper' = [paper EXCEPT ![p] = w]
    /\ UNCHANGED <<team, plan, job, strayed>>
GoesOn(p, w) == paper' = [paper EXCEPT ![p] = w] /\ UNCHANGED <<team, plan, job, papers, strayed>>

CheckCreate(p) == \E u \in Staff, inside \in BOOLEAN, v \in Holders :
    /\ inside => ProjectAccessible(u)
    /\ CanAssign(u, v)
    /\ Files(p, Paper("create", "assignee", u, NoPaper.task, inside, v))

CheckUpdate(p) == \E u \in Staff, t \in Jobs, inside \in BOOLEAN, v \in Holders :
    /\ TaskAdmitted(u, t, v)
    /\ Files(p, Paper("update", "project", u, t, inside, v))

\* Whoever is not admitted is answered with an error.
CheckProject(p) == LET w == paper[p] IN
    /\ w.kind # "none" /\ w.next = "project"
    /\ GoesOn(p, IF w.inside => ProjectAccessible(w.by) THEN [w EXCEPT !.next = "assignee"] ELSE NoPaper)

\* Mutant: only a new assignee is looked up.
CheckAssigneeIfNew(p) == LET w == paper[p] IN
    /\ w.kind # "none" /\ w.next = "assignee"
    /\ GoesOn(p, IF (w.kind = "update" /\ w.assignee = job[w.task].assignee) \/ AssigneeAccepted(w.assignee, w.inside)
                 THEN [w EXCEPT !.next = "write", !.overtaken = plan.deleted /\ ~Belongs(w.assignee, w.inside)] ELSE NoPaper)

\* The history tells who was accepted because the project was deleted.
CheckAssignee(p) == LET w == paper[p] IN
    /\ w.kind # "none" /\ w.next = "assignee"
    /\ GoesOn(p, IF AssigneeAccepted(w.assignee, w.inside)
                 THEN [w EXCEPT !.next = "write", !.overtaken = plan.deleted /\ ~Belongs(w.assignee, w.inside)] ELSE NoPaper)

\* Who has read an older version of t is refused.
NewVersion(t) == [q \in Clerks |-> IF paper[q].kind = "update" /\ paper[q].task = t THEN NoPaper ELSE paper[q]]
StrayedBy(t, w) == IF w.overtaken THEN strayed \cup {t} ELSE strayed \ {t}

WriteCreate(p) == LET w == paper[p] IN \E t \in Jobs :
    /\ w.kind = "create" /\ w.next = "write"
    /\ ~job[t].made
    /\ job' = [job EXCEPT ![t] = [NoJob EXCEPT !.made = TRUE, !.inside = w.inside, !.assignee = w.assignee, !.creator = w.by]]
    /\ paper' = [paper EXCEPT ![p] = NoPaper]
    /\ strayed' = StrayedBy(t, w)
    /\ UNCHANGED <<team, plan, papers>>

WriteUpdate(p) == LET w == paper[p] IN
    /\ w.kind = "update" /\ w.next = "write"
    /\ job' = [job EXCEPT ![w.task].inside = w.inside, ![w.task].assignee = w.assignee]
    /\ paper' = NewVersion(w.task)
    /\ strayed' = StrayedBy(w.task, w)
    /\ UNCHANGED <<team, plan, papers>>

\* archive, unarchive, delete, and restore by an administrator
TaskLifecycle == \E u \in Staff, t \in Jobs, archived, deleted \in BOOLEAN :
    /\ Serves
    /\ VisibleTask(u, t, TRUE, job[t].deleted /\ ~deleted /\ IsAdmin(u))
    /\ (archived = job[t].archived) # (deleted = job[t].deleted)
    /\ job' = [job EXCEPT ![t].archived = archived, ![t].deleted = deleted]
    /\ paper' = NewVersion(t)
    /\ UNCHANGED <<team, plan, strayed>>

-----------------------------------------------------------------------------
(* The project *)

Rules(u) == Serves /\ ~plan.deleted /\ CanViewProject(u) /\ CanManageProject(u)
\* Nobody looks at the tasks of the project.
LeavesTasks ==
    /\ paper' = [q \in Clerks |-> [paper[q] EXCEPT !.overtaken = paper[q].next = "write"]]
    /\ strayed' = strayed \cup {t \in Jobs : /\ job[t].inside /\ plan'.private
                                             /\ job[t].assignee # Unassigned /\ team'[job[t].assignee] = "none"}
    /\ UNCHANGED job

AddMember == \E u, v \in Staff, duty \in Duties :
    /\ Rules(u)
    /\ team' = [team EXCEPT ![v] = duty]
    /\ UNCHANGED <<plan, job, paper, strayed>>

RemoveMember == \E u, v \in Staff :
    /\ Rules(u)
    /\ team[v] \in {"member", "manager"}
    /\ team[v] = "manager" => \E o \in Staff \ {v} : team[o] \in {"manager", "owner"}
    /\ team' = [team EXCEPT ![v] = "none"]
    /\ UNCHANGED plan
    /\ LeavesTasks

UpdateVisibility == \E u \in Staff, private \in BOOLEAN :
    /\ Rules(u)
    /\ team' = IF private THEN [team EXCEPT ![plan.creator] = "owner"] ELSE team
    /\ plan' = [plan EXCEPT !.private = private]
    /\ LeavesTasks

\* archive, unarchive, delete, and restore by an administrator
ProjectLifecycleStep == \E u \in Staff, archived, deleted \in BOOLEAN :
    /\ Serves
    /\ CanViewProject(u) /\ CanManageProject(u)
    /\ (archived = plan.archived) # (deleted = plan.deleted)
    /\ plan.deleted => ~deleted /\ IsAdmin(u)
    /\ plan' = [plan EXCEPT !.archived = archived, !.deleted = deleted]
    /\ UNCHANGED <<team, job, paper, strayed>>

AccessNext ==
    \/ \E p \in Clerks : \/ CheckCreate(p) \/ CheckUpdate(p) \/ CheckProject(p) \/ CheckAssignee(p)
                         \/ WriteCreate(p) \/ WriteUpdate(p)
    \/ TaskLifecycle
    \/ AddMember \/ RemoveMember \/ UpdateVisibility \/ ProjectLifecycleStep

AccessSpec == AccessInit /\ [][AccessNext]_accessVars

-----------------------------------------------------------------------------

\* Whoever finds a task among his work can open it: a task of a private project
\* is held by one of its members, whichever way it came there, unless the holder
\* has left, or left while the assignment was on its way, or was looked up while
\* the project was deleted, when assertAssignee refuses nobody.
MyWorkOpens == \A u \in Staff : MyWork(u) \ strayed \subseteq ListTasks(u, FALSE)

\* Who sees a task may edit it without touching its project or assignee, as long
\* as the project is in use and the assignee belongs to it; and the candidates
\* the project offers are accepted.
EditsAdmitted == \A u \in Staff : \A t \in ListTasks(u, TRUE) \ strayed :
    (job[t].inside => ~plan.archived /\ ~plan.deleted) =>
        /\ UpdateAdmitted(u, t, job[t].inside, job[t].assignee)
        /\ HasWorkspaceTaskScope(u) => \A v \in EligibleAssignees : UpdateAdmitted(u, t, job[t].inside, v)

\* What one reader offers the others accept.
ReadersAgree == MyWorkOpens /\ EditsAdmitted
=============================================================================
