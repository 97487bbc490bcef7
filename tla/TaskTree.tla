------------------------------ MODULE TaskTree ------------------------------
(* The subtask hierarchy of a workspace: tasks, the project and the parent of   *)
(* each, and the requests that create, place, delete and restore tasks.  The    *)
(* check of a placement walks up from the new parent and down from the task,    *)
(* one query per level, before and outside the transaction that writes it.      *)
EXTENDS Handling

CONSTANTS Nodes,      \* ids of tasks
          NoNode,     \* no parent; as a task: one that is about to be created
          Projects, NoProject,
          MaxLevels,  \* levels of the hierarchy: 5 in the code
          MaxAsked    \* bound: requests begun, in place of MaxServed

ASSUME TreeAssumption == /\ NoNode \notin Nodes /\ NoProject \notin Projects
                         /\ MaxLevels \in Nat \ {0} /\ MaxAsked \in Nat

VARIABLES node,     \* rows of "tasks"
          plan,     \* where each handler's check stands and what it will write
          asked,    \* requests begun
          raced,    \* a placement was written while another was being checked (history)
          regrown   \* a deleted task was restored (history)

treeVars == <<node, plan, asked, raced, regrown>>

NodeType == [state : {"none", "live", "deleted"}, project : Projects \cup {NoProject},
             parent : Nodes \cup {NoNode}, version : 0..MaxAsked]
NoTask == [state |-> "none", project |-> NoProject, parent |-> NoNode, version |-> 0]

\* t goes under parent in project; sets: the parent is in the request.  at is the
\* ancestor to be read next, front the level read last, below all read so far.
PlanRest == [pc |-> "idle", t |-> NoNode, project |-> NoProject, parent |-> NoNode, sets |-> FALSE,
             version |-> 0, at |-> NoNode, depth |-> 1, front |-> {}, below |-> {}]
TreeTypeOK ==
    /\ node \in [Nodes -> NodeType]
    /\ plan \in [Handlers ->
         [pc : {"idle", "up", "down", "write"}, t : Nodes \cup {NoNode}, project : Projects \cup {NoProject},
          parent : Nodes \cup {NoNode}, sets : BOOLEAN, version : 0..MaxAsked, at : Nodes \cup {NoNode},
          depth : 1..MaxLevels, front : SUBSET Nodes, below : SUBSET Nodes]]
    /\ asked \in 0..MaxAsked /\ raced \in BOOLEAN /\ regrown \in BOOLEAN

InState(s) == {t \in Nodes : node[t].state = s}

\* No tasks have all their parents among themselves.
NoCycle == \A S \in SUBSET Nodes \ {{}} : ~ \A t \in S : node[t].parent \in S
SameProject == \A t \in Nodes : node[t].parent # NoNode =>
    node[t].project # NoProject /\ node[node[t].parent].project = node[t].project
\* n live tasks, each but the first under the one before.
Lines(n) == {s \in [1..n -> InState("live")] : \A k \in 1..n - 1 : node[s[k + 1]].parent = s[k]}
LimitedLevels == Lines(MaxLevels + 1) = {}

\* Any legal hierarchy: creating its tasks from the roots on leads there.
TreeInit ==
    /\ node \in [Nodes -> {NoTask} \cup [state : {"live"}, project : Projects \cup {NoProject},
                                         parent : Nodes \cup {NoNode}, version : {0}]]
    /\ \A t \in Nodes : node[t].parent \in InState("live") \cup {NoNode}
    /\ NoCycle /\ SameProject /\ LimitedLevels
    /\ plan = [p \in Handlers |-> PlanRest]
    /\ asked = 0 /\ raced = FALSE /\ regrown = FALSE

-----------------------------------------------------------------------------

PlanAt(p, pc) == plan[p].pc = pc
EndPlan(p) == plan' = [plan EXCEPT ![p] = PlanRest]
Asks == asked < MaxAsked /\ asked' = asked + 1

\* assertHierarchyReferences is called, with the row that was read.
Check(p, t, version, project, parent, sets) ==
    /\ PlanAt(p, "idle") /\ Asks
    /\ parent # NoNode => project # NoProject
    /\ plan' = [plan EXCEPT ![p] = [PlanRest EXCEPT !.pc = "up", !.t = t, !.version = version, !.project = project,
                                    !.parent = parent, !.sets = sets, !.at = parent]]
    /\ UNCHANGED <<node, raced, regrown>>

Anything == {NoNode} \cup (Nodes \ InState("none"))

CreateTask(p) == \E project \in Projects \cup {NoProject}, parent \in Anything :
    Check(p, NoNode, 0, project, parent, TRUE)

\* A request that names neither project nor parent is checked with those the
\* task has; one that only changes the project takes the parent away.
UpdateTask(p) == \E t \in InState("live") :
    \/ Check(p, t, node[t].version, node[t].project, node[t].parent, FALSE)
    \/ \E project \in Projects \cup {NoProject}, parent \in Anything :
         Check(p, t, node[t].version, project, parent, TRUE)

\* Mutant: the walk ends at a deleted parent.
WalkUpToDeleted(p) == LET r == plan[p] IN
    /\ PlanAt(p, "up")
    /\ IF r.at = NoNode \/ r.at \in InState("deleted")
       THEN plan' = [plan EXCEPT ![p].pc = "down", ![p].front = {r.t} \ {NoNode}, ![p].below = {r.t} \ {NoNode}]
       ELSE IF r.at # r.t /\ node[r.at].project = r.project /\ r.depth < MaxLevels
       THEN plan' = [plan EXCEPT ![p].at = node[r.at].parent, ![p].depth = r.depth + 1]
       ELSE EndPlan(p)
    /\ UNCHANGED <<node, asked, raced, regrown>>

\* One ancestor.  A loop that does not contain t is refused for its length here,
\* in the code for being a loop.
WalkUp(p) == LET r == plan[p] IN
    /\ PlanAt(p, "up")
    /\ IF r.at = NoNode
       THEN plan' = [plan EXCEPT ![p].pc = "down", ![p].front = {r.t} \ {NoNode}, ![p].below = {r.t} \ {NoNode}]
       ELSE IF /\ r.at # r.t /\ r.at \in InState("live")
               /\ node[r.at].project = r.project
               /\ r.depth < MaxLevels
       THEN plan' = [plan EXCEPT ![p].at = node[r.at].parent, ![p].depth = r.depth + 1]
       ELSE EndPlan(p)
    /\ UNCHANGED <<node, asked, raced, regrown>>

\* One level of descendants, unless the task comes from another project: then
\* its children will be left behind.
WalkDown(p) ==
    LET r == plan[p]
        leaves == r.front = {r.t} /\ node[r.t].project # r.project
        children == {c \in InState("live") : node[c].parent \in r.front} \ r.below
    IN /\ PlanAt(p, "down")
       /\ IF r.t = NoNode \/ leaves \/ children = {}
          THEN plan' = [plan EXCEPT ![p].pc = "write", ![p].at = NoNode, ![p].front = {}, ![p].below = {},
                                    ![p].depth = 1]
          ELSE IF r.depth < MaxLevels
          THEN plan' = [plan EXCEPT ![p].depth = r.depth + 1, ![p].front = children, ![p].below = @ \cup children]
          ELSE EndPlan(p)
       /\ UNCHANGED <<node, asked, raced, regrown>>

Checking(p) == \E q \in Handlers \ {p} : ~PlanAt(q, "idle")

InsertTask(p) == \E t \in InState("none") :
    /\ PlanAt(p, "write") /\ plan[p].t = NoNode
    /\ node' = [node EXCEPT ![t] = [state |-> "live", project |-> plan[p].project, parent |-> plan[p].parent,
                                    version |-> 0]]
    /\ raced' = (raced \/ Checking(p))
    /\ EndPlan(p)
    /\ UNCHANGED <<asked, regrown>>

\* The transaction of updateTask: another project detaches all children, without
\* a new version of theirs; a task that has a new version is left as it is.
PlaceTask(p) ==
    LET r == plan[p]
        moves == node[r.t].project # r.project
        Placed(n) == [node[n] EXCEPT !.project = r.project, !.version = @ + 1,
                                     !.parent = IF r.sets THEN r.parent ELSE @]
    IN /\ PlanAt(p, "write") /\ r.t # NoNode
       /\ IF node[r.t].version = r.version
          THEN /\ node' = [n \in Nodes |-> IF n = r.t THEN Placed(n)
                                           ELSE IF moves /\ node[n].parent = r.t
                                           THEN [node[n] EXCEPT !.parent = NoNode] ELSE node[n]]
               /\ raced' = (raced \/ Checking(p))
          ELSE UNCHANGED <<node, raced>>
       /\ EndPlan(p)
       /\ UNCHANGED <<asked, regrown>>

\* Neither looks at the hierarchy.
DeleteTask == \E t \in InState("live") :
    /\ Asks
    /\ node' = [node EXCEPT ![t].state = "deleted", ![t].version = @ + 1]
    /\ UNCHANGED <<plan, raced, regrown>>

RestoreTask == \E t \in InState("deleted") :
    /\ Asks
    /\ node' = [node EXCEPT ![t].state = "live", ![t].version = @ + 1]
    /\ regrown' = TRUE
    /\ UNCHANGED <<plan, raced>>

TreeNext == \/ DeleteTask \/ RestoreTask
            \/ \E p \in Handlers : \/ CreateTask(p) \/ UpdateTask(p) \/ WalkUp(p) \/ WalkDown(p)
                                   \/ InsertTask(p) \/ PlaceTask(p)

TreeSpec == TreeInit /\ [][TreeNext]_treeVars

-----------------------------------------------------------------------------
(* Properties *)

\* Placing, moving between projects, deleting and restoring tasks in any order
\* never closes a cycle, deleted tasks included, and never puts a task under one
\* of another project, unless one placement is written while another is checked.
Forest == raced \/ (NoCycle /\ SameProject)

\* And as long as nothing deleted comes back, it makes no more than five levels.
HierarchySound == Forest /\ (raced \/ regrown \/ LimitedLevels)
=============================================================================
