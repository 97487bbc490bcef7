-------------------------- MODULE TaskDependencies --------------------------
(* Tasks, the finish-to-start edges between them, and the requests that change *)
(* both: status updates and board moves, archiving, deletion and restoration,  *)
(* adding and removing a dependency, and the handoff to successors that a      *)
(* completion performs in its own transaction.  A request is a chain of        *)
(* statements; its last part is a READ COMMITTED transaction, split between    *)
(* its reads and its commit.                                                   *)
EXTENDS Naturals, FiniteSets

CONSTANTS Tasks,        \* tasks of one workspace
          Requests,     \* request handlers, each serves one request at a time
          Statuses,     \* statuses users ask for
          Kinds,        \* kinds of requests
          InitEdges,    \* dependencies that exist at the start
          Policies,     \* dependencyCompletionPolicy of the workspace
          MaxRequests   \* bound: requests served

ASSUME TasksAssumption == Tasks # {}
ASSUME StatusesAssumption == Statuses \subseteq {"TODO", "IN_PROGRESS", "BLOCKED", "DONE", "CANCELLED"}
ASSUME KindsAssumption == Kinds \subseteq {"update", "touch", "delete", "restore", "link", "unlink"}
ASSUME EdgesAssumption == InitEdges \subseteq {e \in Tasks \X Tasks : e[1] # e[2]}
ASSUME PolicyAssumption == Policies \subseteq {"WARN_ONLY", "BLOCK", "BLOCK_WITH_OVERRIDE"}
ASSUME MaxRequestsAssumption == MaxRequests \in Nat

VARIABLES task,    \* rows of "tasks"
          edges,   \* rows of "task_dependencies": <<predecessor, successor>>
          last,    \* per task, the row of "task_status_history" with the latest changedAt
          clock,   \* new Date(): what was stamped later has a higher number
          policy,  \* of the workspace
          req,     \* where each request stands and what it has read
          served,  \* requests begun so far
          raced,   \* two requests were adding a dependency at the same time (history)
          outdated \* tasks whose last entry is a handoff's, stamped before one that the
                   \* task has already (history)

vars == <<task, edges, last, clock, policy, req, served, raced, outdated>>

-----------------------------------------------------------------------------

RowType == [status : Statuses \cup {"TODO", "BLOCKED"}, depBlocked : BOOLEAN,
            completed : BOOLEAN, deleted : BOOLEAN, version : Nat]

\* A task created with dependencies has been blocked by them.
NewRow(t) == LET waiting == \E e \in InitEdges : e[2] = t IN
    [status |-> IF waiting THEN "BLOCKED" ELSE "TODO", depBlocked |-> waiting,
     completed |-> FALSE, deleted |-> FALSE, version |-> 1]

EntryType == [to : Statuses \cup {"TODO", "BLOCKED"}, at : Nat]

\* seen and other are the rows of t and u as the request read them; at is its
\* transitionAt; hand are the successors its transaction found ready.
ReqType == [pc : {"idle", "check", "write", "commit", "life", "linkCheck", "link",
                  "unlinkWrite", "unlinkCommit"},
            kind : Kinds \cup {"none"}, t : Tasks, u : Tasks, to : Statuses \cup {"TODO"},
            seen : RowType, other : RowType, at : Nat, hand : SUBSET Tasks]

Idle == [pc |-> "idle", kind |-> "none", t |-> CHOOSE t \in Tasks : TRUE,
         u |-> CHOOSE t \in Tasks : TRUE, to |-> "TODO",
         seen |-> NewRow(CHOOSE t \in Tasks : TRUE),
         other |-> NewRow(CHOOSE t \in Tasks : TRUE), at |-> 0, hand |-> {}]

TypeOK == /\ task \in [Tasks -> RowType]
          /\ edges \subseteq {e \in Tasks \X Tasks : e[1] # e[2]}
          /\ last \in [Tasks -> EntryType]
          /\ clock \in Nat
          /\ policy \in Policies
          /\ req \in [Requests -> ReqType]
          /\ served \in 0..MaxRequests
          /\ raced \in BOOLEAN
          /\ outdated \subseteq Tasks

Init == /\ task = [t \in Tasks |-> NewRow(t)]
        /\ edges = InitEdges
        /\ last = [t \in Tasks |-> [to |-> NewRow(t).status, at |-> 0]]
        /\ clock = 0
        /\ policy \in Policies
        /\ req = [p \in Requests |-> Idle]
        /\ served = 0
        /\ raced = FALSE
        /\ outdated = {}

-----------------------------------------------------------------------------
(* What statements read *)

At(p, pc) == req[p].pc = pc

Incomplete(s, E) == {a \in Tasks : <<a, s>> \in E /\ ~task[a].deleted /\ task[a].status # "DONE"}

\* Rows an uncommitted transaction has written: others wait for them.
Locks(p) == IF At(p, "commit") THEN {req[p].t} ELSE {}
Free(p, rows) == \A q \in Requests \ {p} : Locks(q) \cap rows = {}

EnteringDone(p) == req[p].to = "DONE" /\ req[p].seen.status # "DONE"
Reopening(p) == req[p].to # "DONE" /\ req[p].seen.status = "DONE"

\* The breadth-first search of wouldCreateCycle finds a if and only if no set of
\* tasks that contains s and is closed under outgoing edges leaves a out.
Closed(S, E) == \A e \in E : e[1] \in S => e[2] \in S
WouldCreateCycle(E, a, s) == \A S \in SUBSET Tasks : s \in S /\ Closed(S, E) => a \in S

Step(p, pc) == req' = [req EXCEPT ![p].pc = pc]
Done(p) == req' = [req EXCEPT ![p] = Idle]

\* A stamp is taken, or none.
Ticks(stamps) == clock' = IF stamps THEN clock + 1 ELSE clock

\* recordTaskStatusTransition, of several rows at once: the history is read in
\* the order of changedAt, whatever the order of the commits.
Newest(row, entry) == IF row.at > entry.at THEN row ELSE entry
Recorded(entries) ==
    [t \in Tasks |-> IF t \in DOMAIN entries THEN Newest(last[t], entries[t]) ELSE last[t]]

\* A bulk request is a sequence of such requests, one per item.
Begin(p, kind) == /\ At(p, "idle")
                  /\ kind \in Kinds
                  /\ served < MaxRequests
                  /\ served' = served + 1
                  /\ UNCHANGED <<task, edges, last, policy, raced, outdated>>

-----------------------------------------------------------------------------
(* Status updates and board moves *)

\* getVisibleTask, and everything the handler derives from the row it read.  A
\* change of other fields asks for the status the task has.  The version the
\* client sends is the one read here: any other only makes the write fail.
\* transitionAt is taken before the transaction begins.
Finishes(t, to) == to = "DONE" /\ task[t].status # "DONE"
ReadForUpdate(p) == \E t \in Tasks, to \in Statuses :
    /\ Begin(p, "update")
    /\ ~task[t].deleted
    /\ Ticks(~Finishes(t, to))
    /\ req' = [req EXCEPT ![p] = [Idle EXCEPT !.kind = "update", !.t = t, !.to = to,
                 !.seen = task[t], !.at = clock', !.pc = IF Finishes(t, to) THEN "check" ELSE "write"]]

\* assertCompletionAllowed, then transitionAt.  With BLOCK_WITH_OVERRIDE the
\* actor has the permission and gives a reason, or does not.
CheckCompletion(p) ==
    /\ At(p, "check")
    /\ \/ /\ Incomplete(req[p].t, edges) = {} \/ policy # "BLOCK"
          /\ Ticks(TRUE)
          /\ req' = [req EXCEPT ![p].pc = "write", ![p].at = clock + 1]
       \/ /\ Incomplete(req[p].t, edges) # {}
          /\ policy # "WARN_ONLY"
          /\ Done(p)
          /\ Ticks(FALSE)
    /\ UNCHANGED <<task, edges, last, policy, served, raced, outdated>>

\* applySuccessorHandoffs sees the own write, other commits, and no uncommitted
\* write of another request.
Ready(p) == {s \in Tasks :
    /\ <<req[p].t, s>> \in edges
    /\ task[s].depBlocked /\ task[s].status = "BLOCKED"
    /\ Incomplete(s, edges) \subseteq {req[p].t}}

\* Mutant: the version is not part of the update's condition.
WriteUnversioned(p) ==
    /\ At(p, "write")
    /\ Free(p, {req[p].t})
    /\ req' = [req EXCEPT ![p].pc = "commit",
                          ![p].hand = IF EnteringDone(p) THEN Ready(p) ELSE {}]
    /\ UNCHANGED <<task, edges, last, clock, policy, served, raced, outdated>>

\* The updateMany on id and version, and the reads after it.
Write(p) == LET r == req[p] IN
    /\ At(p, "write")
    /\ Free(p, {r.t})
    /\ IF task[r.t].version = r.seen.version
       THEN req' = [req EXCEPT ![p].pc = "commit",
                               ![p].hand = IF EnteringDone(p) THEN Ready(p) ELSE {}]
       ELSE Done(p)
    /\ UNCHANGED <<task, edges, last, clock, policy, served, raced, outdated>>

UpdatedRow(p) == LET r == req[p] IN
    [task[r.t] EXCEPT
        !.status = r.to,
        !.depBlocked = IF r.to # "BLOCKED" THEN FALSE ELSE r.seen.depBlocked,
        !.completed = IF EnteringDone(p) THEN TRUE ELSE IF Reopening(p) THEN FALSE ELSE @,
        !.version = @ + 1]

\* Mutant: a handoff does not count as a change of the row.
HandedOverUncounted(row) == [row EXCEPT !.status = "TODO", !.depBlocked = FALSE]
\* Mutant: the successor is started at once.
HandedOverStarted(row) == [row EXCEPT !.status = "IN_PROGRESS", !.depBlocked = FALSE, !.version = @ + 1]
HandedOver(row) == [row EXCEPT !.status = "TODO", !.depBlocked = FALSE, !.version = @ + 1]

\* An entry for the task, if its status changes, and one for each successor; all
\* carry the time the request took before its transaction.
Entries(p) == LET r == req[p] IN
    [t \in r.hand \cup (IF r.to # r.seen.status THEN {r.t} ELSE {}) |->
        [to |-> IF t = r.t THEN r.to ELSE "TODO", at |-> r.at]]

Commit(p) == LET r == req[p] IN
    /\ At(p, "commit")
    /\ Free(p, r.hand)
    /\ task' = [t \in Tasks |-> IF t = r.t THEN UpdatedRow(p)
                                ELSE IF t \in r.hand THEN HandedOver(task[t]) ELSE task[t]]
    /\ last' = Recorded(Entries(p))
    /\ outdated' = (outdated \ DOMAIN Entries(p)) \cup {t \in r.hand \ {r.t} : last[t].at > r.at}
    /\ Done(p)
    /\ UNCHANGED <<edges, clock, policy, served, raced>>

\* The connection is lost, or the transaction is the victim of a deadlock.
Rollback(p) == /\ At(p, "commit") \/ At(p, "unlinkCommit")
               /\ Done(p)
               /\ UNCHANGED <<task, edges, last, clock, policy, served, raced, outdated>>

-----------------------------------------------------------------------------
(* Archiving, deletion, restoration *)

ReadForLifecycle(p) == \E t \in Tasks, kind \in {"touch", "delete", "restore"} :
    /\ Begin(p, kind)
    /\ kind = "restore" \/ ~task[t].deleted
    /\ Ticks(FALSE)
    /\ req' = [req EXCEPT ![p] = [Idle EXCEPT !.kind = kind, !.t = t, !.seen = task[t],
                                              !.pc = "life"]]

\* A deleted predecessor hands nothing over.
Lifecycle(p) == LET r == req[p] IN
    /\ At(p, "life")
    /\ Free(p, {r.t})
    /\ IF task[r.t].version = r.seen.version
       THEN task' = [task EXCEPT ![r.t].version = @ + 1,
                       ![r.t].deleted = IF r.kind = "touch" THEN @ ELSE r.kind = "delete"]
       ELSE UNCHANGED task
    /\ Done(p)
    /\ UNCHANGED <<edges, last, clock, policy, served, raced, outdated>>

-----------------------------------------------------------------------------
(* Adding and removing a dependency *)

\* Both tasks are read at once; t is the predecessor, u the successor.
ReadForLink(p) == \E t, u \in Tasks :
    /\ Begin(p, "link")
    /\ t # u
    /\ ~task[t].deleted /\ ~task[u].deleted
    /\ Ticks(FALSE)
    /\ req' = [req EXCEPT ![p] = [Idle EXCEPT !.kind = "link", !.t = t, !.u = u, !.seen = task[t],
                                              !.other = task[u], !.pc = "linkCheck"]]

\* Mutant: only the direct edge back is looked for.
CheckLinkDirect(p) == LET r == req[p] IN
    /\ At(p, "linkCheck")
    /\ IF <<r.t, r.u>> \in edges \/ <<r.u, r.t>> \in edges THEN Done(p) ELSE Step(p, "link")
    /\ raced' = (raced \/ \E q \in Requests \ {p} : At(q, "link"))
    /\ UNCHANGED <<task, edges, last, clock, policy, served, outdated>>

CheckLink(p) == LET r == req[p] IN
    /\ At(p, "linkCheck")
    /\ IF <<r.t, r.u>> \in edges \/ WouldCreateCycle(edges, r.t, r.u)
       THEN Done(p) ELSE Step(p, "link")
    /\ raced' = (raced \/ \E q \in Requests \ {p} : At(q, "link"))
    /\ UNCHANGED <<task, edges, last, clock, policy, served, outdated>>

Blocked(row) == [row EXCEPT !.status = "BLOCKED", !.depBlocked = TRUE, !.version = @ + 1]

\* The transaction: the unique index may refuse the edge; the successor is
\* blocked, whatever it is by now, because of what both were when read.  Its
\* entry is stamped in the transaction, while the row is locked.
Link(p) == LET r == req[p] IN
    /\ At(p, "link")
    /\ IF <<r.t, r.u>> \in edges
       THEN UNCHANGED <<task, edges, last, clock, outdated>>
       ELSE /\ Free(p, {r.u})
            /\ edges' = edges \cup {<<r.t, r.u>>}
            /\ IF r.seen.status # "DONE" /\ r.other.status \notin {"DONE", "BLOCKED"}
               THEN /\ task' = [task EXCEPT ![r.u] = Blocked(@)]
                    /\ Ticks(TRUE)
                    /\ last' = Recorded([t \in {r.u} |-> [to |-> "BLOCKED", at |-> clock + 1]])
                    /\ outdated' = outdated \ {r.u}
               ELSE UNCHANGED <<task, last, clock, outdated>>
    /\ Done(p)
    /\ UNCHANGED <<policy, served, raced>>

ReadForUnlink(p) == \E e \in edges :
    /\ Begin(p, "unlink")
    /\ ~task[e[1]].deleted /\ ~task[e[2]].deleted
    /\ Ticks(FALSE)
    /\ req' = [req EXCEPT ![p] = [Idle EXCEPT !.kind = "unlink", !.t = e[1], !.u = e[2],
                                     !.other = task[e[2]], !.pc = "unlinkWrite"]]

Edge(p) == <<req[p].t, req[p].u>>

\* Deletes the edge and counts the unfinished predecessors that are left.
UnlinkWrite(p) == LET r == req[p] IN
    /\ At(p, "unlinkWrite")
    /\ \A q \in Requests : At(q, "unlinkCommit") => Edge(q) # Edge(p)
    /\ IF Edge(p) \in edges
       THEN req' = [req EXCEPT ![p].pc = "unlinkCommit",
              ![p].hand = IF /\ Incomplete(r.u, edges \ {Edge(p)}) = {}
                             /\ r.other.depBlocked /\ r.other.status = "BLOCKED"
                          THEN {r.u} ELSE {}]
       ELSE Done(p)
    /\ UNCHANGED <<task, edges, last, clock, policy, served, raced, outdated>>

UnlinkCommit(p) == LET r == req[p] IN
    /\ At(p, "unlinkCommit")
    /\ Free(p, r.hand)
    /\ edges' = edges \ {Edge(p)}
    /\ task' = [t \in Tasks |-> IF t \in r.hand THEN HandedOver(task[t]) ELSE task[t]]
    /\ last' = Recorded([t \in r.hand |-> [to |-> "TODO", at |-> clock + 1]])
    /\ Ticks(r.hand # {})
    /\ outdated' = outdated \ r.hand
    /\ Done(p)
    /\ UNCHANGED <<policy, served, raced>>

-----------------------------------------------------------------------------

Update(p) == ReadForUpdate(p) \/ CheckCompletion(p) \/ Write(p) \/ Commit(p)
Relink(p) == \/ ReadForLink(p) \/ CheckLink(p) \/ Link(p)
             \/ ReadForUnlink(p) \/ UnlinkWrite(p) \/ UnlinkCommit(p)

Next == \E p \in Requests : \/ Update(p) \/ Relink(p) \/ Rollback(p)
                            \/ ReadForLifecycle(p) \/ Lifecycle(p)

Spec == Init /\ [][Next]_vars

-----------------------------------------------------------------------------
(* Properties *)

\* Optimistic locking works across every writer: what a versioned update commits
\* over is the row its decisions (completion, reopening, blocking, history) were
\* taken on, although the handler read it several statements earlier and
\* handoffs, dependency changes and lifecycle requests write the same row.
DecidesOnWhatItOverwrites == \A p \in Requests :
    At(p, "commit") => task[req[p].t] = req[p].seen

\* A task that is DONE has its completion recorded, and one marked as blocked by
\* dependencies is BLOCKED: completedAt is only written by a request that believes
\* the task was not DONE before, and the mark survives no path out of BLOCKED,
\* stale or not.
StatusIsRecorded == \A t \in Tasks :
    /\ task[t].status = "DONE" => task[t].completed
    /\ task[t].depBlocked => task[t].status = "BLOCKED"

\* The entry with the latest changedAt names the status the task has (the history
\* API computes the time in a status from it), although five paths change a status
\* and stamp their entries before their transaction or in it.  A versioned update
\* is stamped after the read its version comes from, so no entry it could sort
\* before leaves it its version.  The exception is a handoff, which writes the
\* successor without a version and stamps it with the time of the predecessor's
\* request: the task is TODO then, and its newest entry may name what it was
\* before, until the next change of its status.
HistoryTellsStatus == \A t \in Tasks :
    IF t \in outdated THEN task[t].status = "TODO" ELSE last[t].to = task[t].status

\* What a request decides holds when it is written, and what it wrote agrees with the
\* history, the completion and the mark beside it.
VersionsProtect == DecidesOnWhatItOverwrites /\ StatusIsRecorded /\ HistoryTellsStatus

\* Dependencies stay acyclic unless two requests were between their cycle check
\* and their insert at the same time; removals in between do no harm.
Acyclic(E) == \A a, s \in Tasks : <<a, s>> \in E => ~WouldCreateCycle(E, a, s)
AcyclicUnlessRaced == raced \/ Acyclic(edges)

\* A task is created with edges to it and none from it.
ASSUME AcyclicAssumption == Acyclic(InitEdges)

\* What the documentation says of handoff: "When a predecessor reaches `DONE`,
\* the backend checks every predecessor of each successor in the same
\* transaction", so that a task whose predecessors are all finished does not
\* stay blocked by them.
Quiet == \A p \in Requests : At(p, "idle")
NobodyStranded == Quiet => \A s \in Tasks :
    task[s].depBlocked => Incomplete(s, edges) # {}
=============================================================================
