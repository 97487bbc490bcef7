-------------------------- MODULE ProjectLifecycle --------------------------
(* The status of one project: updates that check the transition and, for a      *)
(* completion, the work that is left; archiving, deletion and their opposites,  *)
(* which check neither; and the tasks and timers that come and go meanwhile.    *)
(* Every request reads the project first and writes it by id at the end.        *)
EXTENDS Handling

VARIABLES project,  \* status, deletedAt and completionPolicy
          work,     \* its open tasks and running timers
          change,   \* where each request stands and what it has read
          unseen    \* history: the last write of the status had not seen the row it replaced, or
                    \* work appeared after its count

projectVars == <<project, work, change, unseen>>

ProjectStatuses == {"PLANNING", "ACTIVE", "ON_HOLD", "COMPLETED", "CANCELLED", "ARCHIVED"}
CompletionPolicies == {"WARN_ONLY", "BLOCK", "BLOCK_WITH_OVERRIDE"}
ProjectType == [status : ProjectStatuses, deleted : BOOLEAN, policy : CompletionPolicies]
Actions == {"archive", "unarchive", "delete", "restore"}

\* ALLOWED_TRANSITIONS
AllowedTransitions == [PLANNING |-> {"ACTIVE", "CANCELLED"},
                       ACTIVE |-> {"ON_HOLD", "COMPLETED", "CANCELLED", "ARCHIVED"},
                       ON_HOLD |-> {"ACTIVE", "CANCELLED", "ARCHIVED"},
                       COMPLETED |-> {"ARCHIVED"}, CANCELLED |-> {"ARCHIVED"}, ARCHIVED |-> {"ACTIVE"}]

NewProject(policy) == [status |-> "ACTIVE", deleted |-> FALSE, policy |-> policy]
ChangeRest == [pc |-> "idle", seen |-> NewProject("BLOCK"), to |-> "ACTIVE", policy |-> "BLOCK",
               action |-> "archive", reason |-> FALSE, grown |-> FALSE]
ProjectTypeOK ==
    /\ project \in ProjectType
    /\ work \in 0..MaxServed + 1
    /\ change \in [Handlers -> [pc : {"idle", "blockers", "update", "lifecycle", "task"}, seen : ProjectType,
                                to : ProjectStatuses, policy : CompletionPolicies, action : Actions,
                                reason : BOOLEAN, grown : BOOLEAN]]
    /\ unseen \in BOOLEAN

ProjectInit == /\ \E policy \in CompletionPolicies : project = NewProject(policy)
               /\ work = 1
               /\ change = [p \in Handlers |-> ChangeRest]
               /\ unseen = FALSE

ChangeAt(p, pc) == change[p].pc = pc
ChangeBegins(p) == ChangeAt(p, "idle") /\ Starts /\ UNCHANGED now
ChangeEnds(p) == change' = [change EXCEPT ![p] = ChangeRest]
ChangeGoes == UNCHANGED <<now, served>>

-----------------------------------------------------------------------------
(* updateProject *)

\* A request without a status writes the status it has read; a reason is only
\* looked at on completion.
UpdateProject(p) == \E to \in ProjectStatuses, policy \in CompletionPolicies, reason \in BOOLEAN :
    /\ ChangeBegins(p)
    /\ ~project.deleted
    /\ to = project.status \/ to \in AllowedTransitions[project.status]
    /\ to = "COMPLETED" \/ ~reason
    /\ change' = [change EXCEPT ![p] = [ChangeRest EXCEPT !.seen = project, !.to = to, !.policy = policy,
                    !.reason = reason,
                    !.pc = IF to = "COMPLETED" /\ project.status # to THEN "blockers" ELSE "update"]]
    /\ UNCHANGED <<project, work, unseen>>

\* assessProjectCompletion
CanComplete(policy, reason) == work = 0 \/ policy = "WARN_ONLY" \/ (policy = "BLOCK_WITH_OVERRIDE" /\ reason)

\* completionBlockers: the counts, under the policy that was read.
CountBlockers(p) ==
    /\ ChangeAt(p, "blockers")
    /\ IF CanComplete(change[p].seen.policy, change[p].reason)
       THEN change' = [change EXCEPT ![p].pc = "update", ![p].grown = FALSE] ELSE ChangeEnds(p)
    /\ ChangeGoes
    /\ UNCHANGED <<project, work, unseen>>

UpdateProjectWrite(p) ==
    LET r == change[p] IN
    /\ ChangeAt(p, "update")
    /\ project' = [project EXCEPT !.status = r.to, !.policy = r.policy]
    /\ unseen' = (r.seen # project \/ r.grown)
    /\ ChangeEnds(p) /\ ChangeGoes
    /\ UNCHANGED work

-----------------------------------------------------------------------------

\* lifecycle reads the row for access only.
Lifecycle(p) == \E a \in Actions :
    /\ ChangeBegins(p)
    /\ project.deleted => a = "restore"
    /\ change' = [change EXCEPT ![p] = [ChangeRest EXCEPT !.pc = "lifecycle", !.action = a]]
    /\ UNCHANGED <<project, work, unseen>>

\* Mutant: unarchiving a project gives it the status it was completed with.
LifecycleReverts(p) ==
    LET a == change[p].action IN
    /\ ChangeAt(p, "lifecycle")
    /\ project' = CASE a = "archive"   -> [project EXCEPT !.status = "ARCHIVED"]
                    [] a = "unarchive" -> [project EXCEPT !.status = "COMPLETED"]
                    [] a = "delete"    -> [project EXCEPT !.deleted = TRUE]
                    [] a = "restore"   -> [project EXCEPT !.deleted = FALSE]
    /\ ChangeEnds(p) /\ ChangeGoes
    /\ UNCHANGED <<work, unseen>>

LifecycleWrite(p) ==
    LET a == change[p].action IN
    /\ ChangeAt(p, "lifecycle")
    /\ project' = CASE a = "archive"   -> [project EXCEPT !.status = "ARCHIVED"]
                    [] a = "unarchive" -> [project EXCEPT !.status = "ACTIVE"]
                    [] a = "delete"    -> [project EXCEPT !.deleted = TRUE]
                    [] a = "restore"   -> [project EXCEPT !.deleted = FALSE]
    /\ ChangeEnds(p) /\ ChangeGoes
    /\ UNCHANGED <<work, unseen>>

-----------------------------------------------------------------------------
(* Work *)

\* assertProjectAccessible, and later the task or its reopening.
OpenTask(p) == /\ ChangeBegins(p)
               /\ ~project.deleted /\ project.status # "ARCHIVED"
               /\ change' = [change EXCEPT ![p].pc = "task"]
               /\ UNCHANGED <<project, work, unseen>>

OpenTaskWrite(p) == /\ ChangeAt(p, "task")
                    /\ work' = work + 1
                    /\ change' = [q \in Handlers |-> IF q = p THEN ChangeRest
                                                     ELSE [change[q] EXCEPT !.grown = ~ChangeAt(q, "idle")]]
                    /\ ChangeGoes
                    /\ UNCHANGED <<project, unseen>>

FinishTask(p) == /\ ChangeBegins(p)
                 /\ work > 0
                 /\ work' = work - 1
                 /\ UNCHANGED <<project, change, unseen>>

ProjectNext == \E p \in Handlers :
    \/ UpdateProject(p) \/ CountBlockers(p) \/ UpdateProjectWrite(p)
    \/ Lifecycle(p) \/ LifecycleWrite(p)
    \/ OpenTask(p) \/ OpenTaskWrite(p) \/ FinishTask(p)

ProjectSpec == HandlingInit /\ ProjectInit /\ [][ProjectNext]_<<projectVars, now, served>>

-----------------------------------------------------------------------------

\* A project whose policy is BLOCK becomes COMPLETED only when no work is left,
\* by whatever way it gets there.  Unless the request wrote over a row it had not
\* seen (an update of other fields brings a former status back) or a task was
\* opened between its count and its write.
CompletionGuarded == [][project'.status = "COMPLETED" /\ project.status # "COMPLETED" /\ project.policy = "BLOCK"
                        => work = 0 \/ unseen']_projectVars
=============================================================================
