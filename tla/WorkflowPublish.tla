-------------------------- MODULE WorkflowPublish --------------------------
(* The workflow of one project: published versions, the draft that is edited    *)
(* and published, and the tasks that stand on the stages of the applied         *)
(* version while they are created, moved, deleted and restored, come from and   *)
(* go to other projects, and are blocked and released by dependencies.  A stage *)
(* is known by the version it belongs to and its name, which copies keep.       *)
EXTENDS Handling

CONSTANTS Items,       \* tasks of the project
          StageNames,  \* names of stages
          StatusOf,    \* legacyStatusForStage: the status a stage stands for
          NoStage      \* workflowStageId is null

ASSUME StageAssumption == /\ Items # {}
                          /\ StatusOf \in [StageNames -> {"TODO", "IN_PROGRESS", "BLOCKED", "DONE", "CANCELLED"}]
                          /\ \E k \in StageNames : StatusOf[k] = "TODO"

VARIABLES flow,       \* published versions: their stages
          applied,    \* version "project_workflows" points to
          draft,      \* row of version 0 of the family, and its stages
          item,       \* rows of "tasks"
          flowReq,    \* where each request stands and what it has read
          refused,    \* history: a request for a draft failed although there was none
          strayed,    \* history: tasks created, restored or brought in on a version no longer applied
          loose,      \* history: tasks created with a status the workflow has no stage for
          handed      \* history: tasks whose status a dependency wrote last

flowVars == <<flow, applied, draft, item, flowReq, refused, strayed, loose, handed>>

Versions == 1..MaxServed + 1
ContentType == [stages : SUBSET StageNames, active : SUBSET StageNames, initial : SUBSET StageNames]
Default == [stages |-> StageNames, active |-> StageNames,
            initial |-> {CHOOSE k \in StageNames : StatusOf[k] = "TODO"}]
Empty == [stages |-> {}, active |-> {}, initial |-> {}]

Stages == (Versions \X StageNames) \cup {NoStage}
TaskStatuses == {"BLOCKED"} \cup {StatusOf[k] : k \in StageNames}
\* A task that is "away" belongs to another project or to none; what happens to
\* it there is left out.  The version grows with the requests that are served.
ItemType == [state : {"absent", "away", "live", "deleted"}, stage : Stages, status : TaskStatuses,
             dependencyBlocked : BOOLEAN, version : Nat]
AbsentItem == [state |-> "absent", stage |-> NoStage, status |-> "TODO", dependencyBlocked |-> FALSE, version |-> 0]

FlowRest == [pc |-> "idle", t |-> CHOOSE t \in Items : TRUE, seen |-> [t \in Items |-> AbsentItem],
             applied |-> 1, content |-> Empty, to |-> NoStage, status |-> "TODO", mapping |-> [k \in {} |-> k]]

FlowTypeOK ==
    /\ DOMAIN flow \subseteq Versions /\ \A v \in DOMAIN flow : flow[v] \in ContentType
    /\ applied \in DOMAIN flow
    /\ draft.state \in {"none", "DRAFT", "ARCHIVED"} /\ draft.content \in ContentType
    /\ item \in [Items -> ItemType]
    /\ \A p \in Handlers : LET r == flowReq[p] IN
         /\ r.pc \in {"idle", "draft", "edit", "create", "move", "depend", "remap", "commit"}
         /\ r.t \in Items /\ r.seen \in [Items -> ItemType] /\ r.applied \in Versions
         /\ r.content \in ContentType /\ r.to \in Stages
         /\ DOMAIN r.mapping \subseteq StageNames \cup TaskStatuses
    /\ refused \in BOOLEAN /\ strayed \subseteq Items /\ loose \subseteq Items /\ handed \subseteq Items

\* The default workflow is version 1; a task may be older than workflows.
FlowInit ==
    /\ flow = [v \in {1} |-> Default] /\ applied = 1
    /\ draft = [state |-> "none", content |-> Empty]
    /\ item \in [Items -> {AbsentItem} \cup {[AbsentItem EXCEPT !.state = s, !.version = 1] : s \in {"live", "away"}}]
    /\ flowReq = [p \in Handlers |-> FlowRest]
    /\ refused = FALSE /\ strayed = {} /\ loose = {} /\ handed = {}

-----------------------------------------------------------------------------

FlowAt(p, pc) == flowReq[p].pc = pc
FlowBegins(p) == FlowAt(p, "idle") /\ Starts /\ UNCHANGED now
FlowGoes(p) == UNCHANGED <<now, served>>
FlowEnds(p) == flowReq' = [flowReq EXCEPT ![p] = FlowRest]
FlowStep(p, r) == flowReq' = [flowReq EXCEPT ![p] = r]

Live == {t \in Items : item[t].state = "live"}
AppliedStage(s) == s # NoStage /\ s[1] = applied /\ s[2] \in flow[applied].active

\* resolveStageForStatus, and the initial stage for want of one.
StageFor(v, status) ==
    LET fit == {k \in flow[v].active : StatusOf[k] = status}
        first == IF flow[v].initial \cap flow[v].active # {} THEN flow[v].initial \cap flow[v].active
                 ELSE flow[v].active
    IN IF fit # {} THEN fit ELSE first

\* What a move and a publication write: a blocked task stays one its dependencies
\* block only on a stage that stands for BLOCKED.
OnStage(row, s) ==
    [row EXCEPT !.state = "live", !.stage = s, !.status = StatusOf[s[2]],
                !.dependencyBlocked = @ /\ StatusOf[s[2]] = "BLOCKED", !.version = @ + 1]

-----------------------------------------------------------------------------
(* Tasks *)

\* The stage is resolved before the transaction that inserts the task.
CreateItem(p) == \E t \in Items, status \in TaskStatuses :
    LET fit == StageFor(applied, status) IN
    /\ FlowBegins(p)
    /\ item[t].state = "absent" /\ \A q \in Handlers : FlowAt(q, "create") => flowReq[q].t # t
    /\ \E to \in IF fit = {} THEN {NoStage} ELSE {applied} \X fit :
         FlowStep(p, [FlowRest EXCEPT !.pc = "create", !.t = t, !.applied = applied, !.to = to, !.status = status])
    /\ UNCHANGED <<flow, applied, draft, item, refused, strayed, loose, handed>>

InsertItem(p) ==
    LET r == flowReq[p] IN
    /\ FlowAt(p, "create")
    /\ item' = [item EXCEPT ![r.t] = [AbsentItem EXCEPT !.state = "live", !.stage = r.to,
                                                       !.status = r.status, !.version = 1]]
    /\ strayed' = IF r.to # NoStage /\ r.applied # applied THEN strayed \cup {r.t} ELSE strayed
    /\ loose' = IF r.to = NoStage \/ StatusOf[r.to[2]] # r.status THEN loose \cup {r.t} ELSE loose
    /\ FlowEnds(p) /\ FlowGoes(p)
    /\ UNCHANGED <<flow, applied, draft, refused, handed>>

\* resolveMoveTarget: the task must stand on an active stage of the applied
\* version, the target is one too; whether the transition is allowed is left open.
MoveItem(p) == \E t \in Live, k \in flow[applied].active :
    /\ FlowBegins(p)
    /\ AppliedStage(item[t].stage)
    /\ FlowStep(p, [FlowRest EXCEPT !.pc = "move", !.t = t, !.seen = item, !.to = <<applied, k>>])
    /\ UNCHANGED <<flow, applied, draft, item, refused, strayed, loose, handed>>

\* updateTask with a change of project: the stage for the status the task has, or
\* is given, is looked up in the project it goes to before the transaction.
BringItem(p) == \E t \in Items, k \in flow[applied].active :
    /\ FlowBegins(p)
    /\ item[t].state = "away"
    /\ FlowStep(p, [FlowRest EXCEPT !.pc = "move", !.t = t, !.seen = item, !.to = <<applied, k>>])
    /\ UNCHANGED <<flow, applied, draft, item, refused, strayed, loose, handed>>

\* The write asks for the version that was read.
MoveItemWrite(p) ==
    LET r == flowReq[p]
        fresh == item[r.t].version = r.seen[r.t].version
        late == r.seen[r.t].state = "away" /\ r.to[1] # applied IN
    /\ FlowAt(p, "move")
    /\ item' = IF fresh THEN [item EXCEPT ![r.t] = OnStage(item[r.t], r.to)] ELSE item
    /\ strayed' = IF fresh /\ late THEN strayed \cup {r.t} ELSE strayed
    /\ loose' = IF fresh THEN loose \ {r.t} ELSE loose
    /\ handed' = IF fresh THEN handed \ {r.t} ELSE handed
    /\ FlowEnds(p) /\ FlowGoes(p)
    /\ UNCHANGED <<flow, applied, draft, refused>>

\* updateTask to another project, or to none: the task leaves its stage behind.
LeaveItem(p) == \E t \in Live :
    /\ FlowBegins(p)
    /\ item' = [item EXCEPT ![t].state = "away", ![t].stage = NoStage, ![t].version = @ + 1]
    /\ strayed' = strayed \ {t} /\ loose' = loose \ {t} /\ handed' = handed \ {t}
    /\ UNCHANGED <<flow, applied, draft, flowReq, refused>>

\* lifecycle: delete and restore; neither looks at the stage.
DeleteItem(p) == \E t \in Live :
    /\ FlowBegins(p)
    /\ item' = [item EXCEPT ![t].state = "deleted", ![t].version = @ + 1]
    /\ UNCHANGED <<flow, applied, draft, flowReq, refused, strayed, loose, handed>>

RestoreItem(p) == \E t \in Items :
    /\ FlowBegins(p)
    /\ item[t].state = "deleted"
    /\ item' = [item EXCEPT ![t].state = "live", ![t].version = @ + 1]
    /\ strayed' = IF item[t].stage # NoStage /\ item[t].stage[1] # applied THEN strayed \cup {t} ELSE strayed
    /\ UNCHANGED <<flow, applied, draft, flowReq, refused, loose, handed>>

-----------------------------------------------------------------------------
(* Dependencies.  The predecessors are left out: whether one is unfinished, and  *)
(* whether the last one is done, is open.                                       *)

\* create: the task has to wait; its status was read before the transaction.
BlockItem(p) == \E t \in Items :
    /\ FlowBegins(p)
    /\ item[t].state \in {"live", "away"} /\ item[t].status \notin {"DONE", "BLOCKED"}
    /\ FlowStep(p, [FlowRest EXCEPT !.pc = "depend", !.t = t, !.status = "BLOCKED"])
    /\ UNCHANGED <<flow, applied, draft, item, refused, strayed, loose, handed>>

\* remove, and applySuccessorHandoffs of a completed predecessor.
ReleaseItem(p) == \E t \in Items :
    /\ FlowBegins(p)
    /\ item[t].state # "absent" /\ item[t].dependencyBlocked /\ item[t].status = "BLOCKED"
    /\ FlowStep(p, [FlowRest EXCEPT !.pc = "depend", !.t = t, !.status = "TODO"])
    /\ UNCHANGED <<flow, applied, draft, item, refused, strayed, loose, handed>>

Handed(row, status) ==
    [row EXCEPT !.status = status, !.dependencyBlocked = (status = "BLOCKED"), !.version = @ + 1]

\* Written by id: neither version, stage nor project is looked at.
DependencyWrite(p) ==
    LET r == flowReq[p] IN
    /\ FlowAt(p, "depend")
    /\ item' = [item EXCEPT ![r.t] = Handed(item[r.t], r.status)]
    /\ loose' = loose \ {r.t} /\ handed' = handed \cup {r.t}
    /\ FlowEnds(p) /\ FlowGoes(p)
    /\ UNCHANGED <<flow, applied, draft, refused, strayed>>

-----------------------------------------------------------------------------
(* The draft *)

\* createDraftFromPublished: an existing draft is returned.
AskDraft(p) ==
    /\ FlowBegins(p)
    /\ draft.state # "DRAFT"
    /\ FlowStep(p, [FlowRest EXCEPT !.pc = "draft", !.content = flow[applied]])
    /\ UNCHANGED <<flow, applied, draft, item, refused, strayed, loose, handed>>

\* A family has one row of version 0: the draft that was published stays there,
\* archived, and the index refuses the next one.
CreateDraft(p) ==
    /\ FlowAt(p, "draft")
    /\ draft' = IF draft.state = "none" THEN [state |-> "DRAFT", content |-> flowReq[p].content] ELSE draft
    /\ refused' = (refused \/ draft.state = "ARCHIVED")
    /\ FlowEnds(p) /\ FlowGoes(p)
    /\ UNCHANGED <<flow, applied, item, strayed, loose, handed>>

\* addStage, updateStage and deleteStage read the draft, and write its stages in
\* a transaction that does not look at its status again.
Edits(c) ==
    {[c EXCEPT !.stages = @ \cup {k}, !.active = @ \cup {k}] : k \in StageNames \ c.stages}
    \cup {[c EXCEPT !.initial = {k}] : k \in c.stages}
    \cup {[c EXCEPT !.initial = @ \ {k}] : k \in c.stages}
    \cup {[c EXCEPT !.active = (@ \ {k}) \cup ({k} \ @)] : k \in c.stages}
    \cup {[stages |-> c.stages \ {k}, active |-> c.active \ {k}, initial |-> c.initial \ {k}] : k \in c.stages}

EditRead(p) == /\ FlowBegins(p)
               /\ draft.state = "DRAFT"
               /\ FlowStep(p, [FlowRest EXCEPT !.pc = "edit"])
               /\ UNCHANGED <<flow, applied, draft, item, refused, strayed, loose, handed>>

EditWrite(p) == /\ FlowAt(p, "edit")
                /\ \E c \in Edits(draft.content) : draft' = [draft EXCEPT !.content = c]
                /\ FlowEnds(p) /\ FlowGoes(p)
                /\ UNCHANGED <<flow, applied, item, refused, strayed, loose, handed>>

-----------------------------------------------------------------------------
(* Publication, one transaction *)

\* assertWorkflowStagesForPublish
Publishable(c) == /\ Cardinality(c.initial) = 1
                  /\ \E k \in c.stages : StatusOf[k] \in {"DONE", "CANCELLED"}

Consuming(p) == flowReq[p].pc \in {"remap", "commit"}

\* The draft is read, consumed (others wait for its row) and validated.
Publish(p) ==
    /\ FlowBegins(p)
    /\ draft.state = "DRAFT" /\ \A q \in Handlers : ~Consuming(q)
    /\ Publishable(draft.content)
    /\ FlowStep(p, [FlowRest EXCEPT !.pc = "remap", !.applied = applied, !.content = draft.content])
    /\ UNCHANGED <<flow, applied, draft, item, refused, strayed, loose, handed>>

\* The tasks are read; the request maps every stage in use, and every status of
\* a task without stage, to an active stage of the draft, or fails.
Remap(p) ==
    LET r == flowReq[p]
        inUse == {item[t].stage[2] : t \in {t \in Live : item[t].stage # NoStage}}
        bare == {item[t].status : t \in {t \in Live : item[t].stage = NoStage}}
    IN /\ FlowAt(p, "remap")
       /\ IF \A t \in Live : item[t].stage = NoStage \/ item[t].stage[1] = r.applied
          THEN \E f \in [inUse \cup bare -> r.content.active] :
                 FlowStep(p, [r EXCEPT !.pc = "commit", !.seen = item, !.mapping = f])
          ELSE FlowEnds(p)
       /\ FlowGoes(p)
       /\ UNCHANGED <<flow, applied, draft, item, refused, strayed, loose, handed>>

\* The name of the stage a task is mapped to.
MappedTo(row, r) == r.mapping[IF row.stage = NoStage THEN row.status ELSE row.stage[2]]

\* Mutant: the target is looked up among the stages of the version that is left.
RemappedInPlace(row, r) == OnStage(row, <<r.applied, MappedTo(row, r)>>)

\* Mutant: the status of the task stays behind.
RemappedStage(row, r) == [row EXCEPT !.stage = <<r.applied + 1, MappedTo(row, r)>>, !.version = @ + 1]

Remapped(row, r) == OnStage(row, <<r.applied + 1, MappedTo(row, r)>>)

\* Every task that was read must still have its version; tasks created since are
\* not in the list.
PublishCommit(p) ==
    LET r == flowReq[p]
        read == {t \in Items : r.seen[t].state = "live"}
    IN /\ FlowAt(p, "commit")
       /\ IF \A t \in read : item[t].state = "live" /\ item[t].version = r.seen[t].version
          THEN /\ item' = [t \in Items |-> IF t \in read THEN Remapped(r.seen[t], r) ELSE item[t]]
               /\ flow' = [v \in DOMAIN flow \cup {r.applied + 1} |->
                             IF v = r.applied + 1 THEN r.content ELSE flow[v]]
               /\ applied' = r.applied + 1
               /\ draft' = [draft EXCEPT !.state = "ARCHIVED"]
               /\ strayed' = strayed \cup {t \in Live \ read : item[t].stage # NoStage}
               /\ loose' = loose \ read /\ handed' = handed \ read
          ELSE UNCHANGED <<item, flow, applied, draft, strayed, loose, handed>>
       /\ FlowEnds(p) /\ FlowGoes(p)
       /\ UNCHANGED refused

FlowNext == \E p \in Handlers :
    \/ CreateItem(p) \/ InsertItem(p) \/ MoveItem(p) \/ BringItem(p) \/ MoveItemWrite(p)
    \/ LeaveItem(p) \/ DeleteItem(p) \/ RestoreItem(p)
    \/ BlockItem(p) \/ ReleaseItem(p) \/ DependencyWrite(p)
    \/ AskDraft(p) \/ CreateDraft(p) \/ EditRead(p) \/ EditWrite(p)
    \/ Publish(p) \/ Remap(p) \/ PublishCommit(p)

FlowSpec == HandlingInit /\ FlowInit /\ [][FlowNext]_<<flowVars, now, served>>

-----------------------------------------------------------------------------
(* Properties *)

\* Publication moves every task along and no move or update undoes it: a live
\* task stands on an active stage of the applied version, or has none; except a
\* task that was created, restored or brought in across a publication, which no
\* later move or publication accepts (tasks.service.ts:868, projects.service.ts:967).
OnAppliedStage == \A t \in Live \ strayed :
    item[t].stage = NoStage \/ AppliedStage(item[t].stage)

\* The legacy status of a task is the one its stage stands for, unless it was
\* created with a status the workflow has no stage for and not moved since.  A
\* dependency changes the status and leaves the stage (dependencies.service.ts:181
\* and :259, task-transitions.service.ts:179): until it is moved or a workflow is
\* published such a task shows what the dependency wrote, whatever its stage:
\* BLOCKED while it waits, TODO once released.
StatusFollowsStage == \A t \in Live \ loose :
    IF t \in handed THEN item[t].status = IF item[t].dependencyBlocked THEN "BLOCKED" ELSE "TODO"
    ELSE item[t].stage = NoStage \/ item[t].status = StatusOf[item[t].stage[2]]

\* A task is where the applied workflow says, and its status as well.
TasksFollowWorkflow == OnAppliedStage /\ StatusFollowsStage

\* A project without a draft can be given one (docs/phase-8-2-workflows.md:33-34
\* and :56, which says that publication removes the draft).
DraftObtainable == ~refused
=============================================================================
