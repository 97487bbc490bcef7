------------------------------ MODULE CloneJobs ------------------------------
(***************************************************************************)
(* Durable template cloning: API handlers that accept clone requests (and  *)
(* materialise small templates themselves), worker processes that claim    *)
(* jobs under expiring leases, and the PostgreSQL rows they share.         *)
(*                                                                         *)
(* One action is one database statement or one transaction, the granularity*)
(* at which processes interleave and crash.  The materialising transaction *)
(* is split where other connections can see or block it: its first read,   *)
(* the insert of the project row, the heartbeats it sends on a second      *)
(* connection, and its commit.                                             *)
(***************************************************************************)
EXTENDS Naturals, FiniteSets

CONSTANTS Workers,      \* worker processes (worker.ts)
          Requests,     \* POST .../clone requests, each handled once
          Keys,         \* idempotency keys; a job's identity
          Bodies,       \* canonical request contents (what requestHash tells apart)
          KeyOf, BodyOf,\* the key and the body a request carries
          Tasks,        \* Tasks[b]: "none", "few" (<= SYNC_TASK_THRESHOLD) or "many"
          NoBody,       \* the body of a job that does not exist
          MaxAttempts,  \* CloneJob.maxAttempts
          Batch,        \* jobs one poll may claim
          MaxRetries,   \* bound: explicit retries by a user
          MaxFaults     \* bound: crashes, lost answers and stalls past a live lease

ASSUME CloneAssumption ==
    /\ KeyOf \in [Requests -> Keys]
    /\ BodyOf \in [Requests -> Bodies]
    /\ Tasks \in [Bodies -> {"none", "few", "many"}]
    /\ NoBody \notin Bodies
    /\ Keys # {}
    /\ Workers \cap Requests = {}
    /\ MaxAttempts \in Nat \ {0}
    /\ Batch \in Nat \ {0}
    /\ MaxRetries \in Nat
    /\ MaxFaults \in Nat

VARIABLES
    job,      \* job[k]: the clone_jobs row of key k
    project,  \* project[k]: committed projects whose sourceCloneJobId is k's job
    issued,   \* issued[k]: lease tokens drawn for k (randomUUID never repeats one)
    queue,    \* queue[w]: claims of worker w's last poll it has not started
    proc,     \* proc[p]: where process p stands in its code
    reply,    \* reply[r]: what request r answered
    retries,  \* explicit retries so far
    faults    \* faults so far

vars == <<job, project, issued, queue, proc, reply, retries, faults>>

Procs == Workers \cup Requests

Statuses == {"NONE", "PENDING", "PROCESSING", "RETRY_WAIT", "COMPLETED", "FAILED", "DEAD"}
Settled == {"COMPLETED", "FAILED", "DEAD"}
Open == {"PENDING", "PROCESSING", "RETRY_WAIT"}

\* leaseExpiresAt of a PROCESSING row and nextAttemptAt of a RETRY_WAIT row:
\* null, in the future, or past.  NoToken is a null leaseToken.
Timers == {"null", "running", "over"}
NoToken == 0

Row == [status: Statuses, body: Bodies \cup {NoBody}, attempts: Nat,
        token: Nat, timer: Timers, linked: BOOLEAN]
NoJob == [status |-> "NONE", body |-> NoBody, attempts |-> 0,
          token |-> NoToken, timer |-> "null", linked |-> FALSE]

Claims == [key: Keys, token: Nat]

\* Places in the code.  "tasks" and "commit" are inside the transaction after
\* the project row was inserted: it holds a key-share lock on the job row.
PCs == {"idle", "create", "load", "replay", "insert", "tasks", "commit",
        "finish", "caught", "done", "crashed"}
InTx == {"replay", "insert", "tasks", "commit"}
Inserted == {"tasks", "commit"}
Errors == {"ok", "transient", "permanent"}
Place == [pc: PCs, key: Keys, token: Nat, err: Errors]

Replies == {"none", "notFound", "conflict", "existing", "async", "sync", "error"}

TypeOK ==
    /\ job \in [Keys -> Row]
    /\ \A k \in Keys : job[k].status # "NONE" => job[k].body \in Bodies
    /\ project \in [Keys -> Nat]
    /\ issued \in [Keys -> Nat]
    /\ queue \in [Workers -> SUBSET Claims]
    /\ proc \in [Procs -> Place]
    /\ reply \in [Requests -> Replies]
    /\ retries \in Nat
    /\ faults \in Nat

-----------------------------------------------------------------------------
(* Helpers *)

HasTasks(k) == Tasks[job[k].body] # "none"

At(p, pc) == proc[p].pc = pc
Goto(p, pc) == proc' = [proc EXCEPT ![p].pc = pc, ![p].err = "ok"]
Raise(p, e) == proc' = [proc EXCEPT ![p].pc = "caught", ![p].err = e]

\* The row still names this process's claim.  A request that materialises its
\* own job has no token: nobody else may claim a PROCESSING row without lease.
Owns(p) == LET k == proc[p].key IN
    /\ job[k].status = "PROCESSING"
    /\ job[k].token = proc[p].token

\* projects.sourceCloneJobId is unique and references clone_jobs: from the
\* insert to the end of the transaction a second insert for k waits, and
\* SELECT ... FOR UPDATE SKIP LOCKED skips the job row.
Inserting(k) == {p \in Procs : proc[p].key = k /\ proc[p].pc \in Inserted}

\* A live worker that still counts on its claim of k.
Held(k) == \E w \in Workers :
    \/ [key |-> k, token |-> job[k].token] \in queue[w]
    \/ /\ proc[w].pc \notin {"idle", "crashed"}
       /\ proc[w].key = k
       /\ proc[w].token = job[k].token

Fault == /\ faults < MaxFaults
         /\ faults' = faults + 1

Nowhere == [pc |-> "idle", key |-> CHOOSE k \in Keys : TRUE,
            token |-> NoToken, err |-> "ok"]

Init == /\ job = [k \in Keys |-> NoJob]
        /\ project = [k \in Keys |-> 0]
        /\ issued = [k \in Keys |-> 0]
        /\ queue = [w \in Workers |-> {}]
        /\ proc = [p \in Procs |->
                     IF p \in Requests THEN [Nowhere EXCEPT !.key = KeyOf[p]] ELSE Nowhere]
        /\ reply = [r \in Requests |-> "none"]
        /\ retries = 0
        /\ faults = 0

-----------------------------------------------------------------------------
(* clonePublishedTemplate: one API request *)

Answer(r, mode) == /\ proc' = [proc EXCEPT ![r].pc = "done", ![r].err = "ok"]
                   /\ reply' = [reply EXCEPT ![r] = mode]

\* Mutant: the key alone decides.
AnswerFromKeyOnly(r, row) == Answer(r, "existing")

\* existingClone: the job of this key answers a request with the same hash and
\* refuses any other.
AnswerFrom(r, row) ==
    Answer(r, IF row.body = BodyOf[r] THEN "existing" ELSE "conflict")

Submit(r) ==
    /\ At(r, "idle")
    /\ \/ Answer(r, "notFound")          \* template missing or not published
       \/ /\ job[KeyOf[r]].status # "NONE"
          /\ AnswerFrom(r, job[KeyOf[r]])
       \/ /\ job[KeyOf[r]].status = "NONE"
          /\ Goto(r, "create")
          /\ UNCHANGED reply
    /\ UNCHANGED <<job, project, issued, queue, retries, faults>>

\* Mutant: the request is not recorded with the job.
NewJobWithoutBody(r) == [NoJob EXCEPT
    !.status = IF Tasks[BodyOf[r]] = "many" THEN "PENDING" ELSE "PROCESSING"]

NewJob(r) == [NoJob EXCEPT
    !.status = IF Tasks[BodyOf[r]] = "many" THEN "PENDING" ELSE "PROCESSING",
    !.body = BodyOf[r]]

\* The unique index on (workspaceId, idempotencyKey) lets one create through;
\* the catch block answers from whatever row it then finds, be it a racing
\* request's or, when only the acknowledgement was lost, its own.
Create(r) == LET k == KeyOf[r] IN
    /\ At(r, "create")
    /\ \/ /\ job[k].status # "NONE"
          /\ AnswerFrom(r, job[k])
          /\ UNCHANGED <<job, faults>>
       \/ /\ job[k].status = "NONE"
          /\ job' = [job EXCEPT ![k] = NewJob(r)]
          /\ \/ /\ Tasks[BodyOf[r]] = "many"
                /\ Answer(r, "async")
                /\ UNCHANGED faults
             \/ /\ Tasks[BodyOf[r]] # "many"
                /\ Goto(r, "load")
                /\ UNCHANGED <<reply, faults>>
             \/ /\ Fault                 \* acknowledgement lost
                /\ AnswerFrom(r, NewJob(r))
       \/ /\ job[k].status = "NONE"
          /\ Fault                       \* insert failed
          /\ Answer(r, "error")
          /\ UNCHANGED job
    /\ UNCHANGED <<project, issued, queue, retries>>

\* The synchronous path completes and fails its job without looking at it.
SyncFinish(r) == LET k == KeyOf[r] IN
    /\ At(r, "finish")
    /\ \/ /\ job' = [job EXCEPT ![k].status = "COMPLETED", ![k].linked = TRUE]
          /\ \/ /\ Answer(r, "sync")
                /\ UNCHANGED faults
             \/ /\ Fault                 \* acknowledgement lost
                /\ Raise(r, "transient")
                /\ UNCHANGED reply
       \/ /\ Fault                       \* update failed
          /\ Raise(r, "transient")
          /\ UNCHANGED <<job, reply>>
    /\ UNCHANGED <<project, issued, queue, retries>>

SyncFail(r) == LET k == KeyOf[r] IN
    /\ At(r, "caught")
    /\ Answer(r, "error")
    /\ \/ /\ job' = [job EXCEPT ![k].status = "FAILED"]
          /\ UNCHANGED faults
       \/ /\ Fault                       \* this update fails too
          /\ UNCHANGED job
    /\ UNCHANGED <<project, issued, queue, retries>>

RequestCrash(r) ==
    /\ proc[r].pc \notin {"idle", "done", "crashed"}
    /\ Fault
    /\ Goto(r, "crashed")
    /\ UNCHANGED <<job, project, issued, queue, reply, retries>>

-----------------------------------------------------------------------------
(* materializeCloneJob, for a worker and for a request alike *)

TokenStale(p) == /\ p \in Workers
                 /\ job[proc[p].key].token # proc[p].token

\* Reads the job, an existing project, the template and the bindings.  Any of
\* the validations may refuse: the template was archived, its content no
\* longer hashes to the snapshot, a bound member left.
Load(p) ==
    /\ At(p, "load")
    /\ \/ TokenStale(p) /\ Raise(p, "permanent")
       \/ /\ ~TokenStale(p)
          /\ project[proc[p].key] > 0
          /\ Goto(p, "finish")
       \/ /\ ~TokenStale(p)
          /\ project[proc[p].key] = 0
          /\ Goto(p, "replay") \/ Raise(p, "permanent")
       \/ Raise(p, "transient")
    /\ UNCHANGED <<job, project, issued, queue, reply, retries, faults>>

\* First statement of the transaction: look again for the project.
Replay(p) ==
    /\ At(p, "replay")
    /\ Goto(p, IF project[proc[p].key] > 0 THEN "finish" ELSE "insert")
    /\ UNCHANGED <<job, project, issued, queue, reply, retries, faults>>

\* Mutant: no unique index on sourceCloneJobId.
InsertUnchecked(p) == LET k == proc[p].key IN
    /\ At(p, "insert")
    /\ Goto(p, IF p \in Workers /\ HasTasks(k) THEN "tasks" ELSE "commit")
    /\ UNCHANGED <<job, project, issued, queue, reply, retries, faults>>

\* Insert of the project row: waits for another transaction's insert, then
\* fails with a unique violation (P2002, not in the transient list) if that
\* one committed.
InsertProject(p) == LET k == proc[p].key IN
    /\ At(p, "insert")
    /\ Inserting(k) = {}
    /\ IF project[k] > 0 THEN Raise(p, "permanent")
       ELSE Goto(p, IF p \in Workers /\ HasTasks(k) THEN "tasks" ELSE "commit")
    /\ UNCHANGED <<job, project, issued, queue, reply, retries, faults>>

\* Mutant: the heartbeat does not name the lease token.
HeartbeatAnyToken(w) == LET k == proc[w].key IN
    /\ proc[w].pc \in Inserted
    /\ HasTasks(k)
    /\ \/ /\ job[k].status = "PROCESSING"
          /\ job' = [job EXCEPT ![k].timer = "running"]
          /\ Goto(w, "commit")
       \/ /\ job[k].status # "PROCESSING"
          /\ Raise(w, "permanent")
          /\ UNCHANGED job
    /\ UNCHANGED <<project, issued, queue, reply, retries, faults>>

\* onProgress after each task, on a connection of its own (heartbeatCloneJob):
\* extends the lease it still holds, or throws and so rolls the project back.
Heartbeat(w) == LET k == proc[w].key IN
    /\ proc[w].pc \in Inserted
    /\ HasTasks(k)
    /\ \/ /\ Owns(w)
          /\ job' = [job EXCEPT ![k].timer = "running"]
          /\ Goto(w, "commit")
       \/ /\ ~Owns(w)
          /\ Raise(w, "permanent")
          /\ UNCHANGED job
    /\ UNCHANGED <<project, issued, queue, reply, retries, faults>>

\* Any statement of the transaction may fail: everything it wrote is undone.
Rollback(p) ==
    /\ proc[p].pc \in InTx
    /\ \E e \in {"transient", "permanent"} : Raise(p, e)
    /\ UNCHANGED <<job, project, issued, queue, reply, retries, faults>>

\* The whole project becomes visible at once, even if the answer is lost.
Commit(p) == LET k == proc[p].key IN
    /\ At(p, "commit")
    /\ project' = [project EXCEPT ![k] = @ + 1]
    /\ \/ /\ Goto(p, "finish")
          /\ UNCHANGED faults
       \/ /\ Fault
          /\ \E e \in {"transient", "permanent"} : Raise(p, e)
    /\ UNCHANGED <<job, issued, queue, reply, retries>>

-----------------------------------------------------------------------------
(* Worker processes: pollWorkerOnce, claimPendingCloneJobs, processCloneJob *)

\* Mutants: the claim does not lock the rows it reads; expired leases are not reclaimed.
ClaimableUnlocked(k) ==
    \/ job[k].status = "PENDING"
    \/ job[k].status = "RETRY_WAIT" /\ job[k].timer # "running"
    \/ job[k].status = "PROCESSING" /\ job[k].timer = "over"
ClaimableNoReclaim(k) ==
    /\ \/ job[k].status = "PENDING"
       \/ job[k].status = "RETRY_WAIT" /\ job[k].timer # "running"
    /\ Inserting(k) = {}

Claimable(k) ==
    /\ \/ job[k].status = "PENDING"
       \/ job[k].status = "RETRY_WAIT" /\ job[k].timer # "running"
       \/ job[k].status = "PROCESSING" /\ job[k].timer = "over"
    /\ Inserting(k) = {}                 \* FOR UPDATE SKIP LOCKED

Leased(k) == [job[k] EXCEPT !.status = "PROCESSING",
                            !.attempts = @ + 1,
                            !.token = issued[k] + 1,
                            !.timer = "running"]

\* A poll claims up to Batch rows and then works them off one by one.  Rows
\* another worker's claim has locked are skipped, so any subset may be taken.
Claim(w) == \E S \in SUBSET {k \in Keys : Claimable(k)} :
    /\ At(w, "idle")
    /\ queue[w] = {}
    /\ S # {}
    /\ Cardinality(S) <= Batch
    /\ job' = [k \in Keys |-> IF k \in S THEN Leased(k) ELSE job[k]]
    /\ issued' = [k \in Keys |-> IF k \in S THEN issued[k] + 1 ELSE issued[k]]
    /\ queue' = [queue EXCEPT ![w] = {[key |-> k, token |-> issued[k] + 1] : k \in S}]
    /\ UNCHANGED <<project, proc, reply, retries, faults>>

\* First read of processCloneJob: a claim that was lost meanwhile is dropped.
Begin(w) == \E c \in queue[w] :
    /\ At(w, "idle")
    /\ queue' = [queue EXCEPT ![w] = @ \ {c}]
    /\ IF job[c.key].status = "PROCESSING" /\ job[c.key].token = c.token
       THEN proc' = [proc EXCEPT ![w] =
                        [pc |-> "load", key |-> c.key, token |-> c.token, err |-> "ok"]]
       ELSE UNCHANGED proc
    /\ UNCHANGED <<job, project, issued, reply, retries, faults>>

Rest(w) == proc' = [proc EXCEPT ![w] = Nowhere]

\* The completing update names status and token, so a stale worker changes nothing.
Finish(w) == LET k == proc[w].key IN
    /\ At(w, "finish")
    /\ \/ /\ Owns(w)
          /\ job' = [job EXCEPT ![k].status = "COMPLETED", ![k].linked = TRUE,
                                ![k].token = NoToken, ![k].timer = "null"]
          /\ Rest(w)
          /\ UNCHANGED faults
       \/ /\ ~Owns(w)
          /\ Rest(w)
          /\ UNCHANGED <<job, faults>>
       \/ /\ Fault                       \* the update fails
          /\ \E e \in {"transient", "permanent"} : Raise(w, e)
          /\ UNCHANGED job
    /\ UNCHANGED <<project, issued, queue, reply, retries>>

AfterError(row, e) ==
    LET retry == e = "transient" /\ row.attempts < MaxAttempts
        dead  == e = "transient" /\ row.attempts >= MaxAttempts
    IN  [row EXCEPT !.status = IF retry THEN "RETRY_WAIT"
                               ELSE IF dead THEN "DEAD" ELSE "FAILED",
                    !.timer = IF retry THEN "running" ELSE "null",
                    !.token = NoToken]

\* Mutant: the catch block does not ask who owns the job now.
CatchUnguarded(w) == LET k == proc[w].key IN
    /\ At(w, "caught")
    /\ job' = [job EXCEPT ![k] = AfterError(job[k], proc[w].err)]
    /\ Rest(w)
    /\ UNCHANGED <<project, issued, queue, reply, retries, faults>>

\* The catch block re-reads the job and leaves it to its new owner if the
\* token moved on.  Read and update are one step: while the token stays, no
\* other process writes the fields the block reads.
Catch(w) == LET k == proc[w].key IN
    /\ At(w, "caught")
    /\ \/ /\ Owns(w)
          /\ job' = [job EXCEPT ![k] = AfterError(job[k], proc[w].err)]
          /\ UNCHANGED faults
       \/ /\ ~Owns(w)
          /\ UNCHANGED <<job, faults>>
       \/ /\ Fault                       \* the catch block throws: logged, next claim
          /\ UNCHANGED job
    /\ Rest(w)
    /\ UNCHANGED <<project, issued, queue, reply, retries>>

\* The process dies, its open transaction is rolled back, and it is restarted.
WorkerCrash(w) ==
    /\ ~At(w, "idle") \/ queue[w] # {}
    /\ Fault
    /\ Rest(w)
    /\ queue' = [queue EXCEPT ![w] = {}]
    /\ UNCHANGED <<job, project, issued, reply, retries>>

-----------------------------------------------------------------------------
(* Time and users *)

\* A lease or a back-off runs out.  Under a live holder that is a stall of
\* more than LEASE_MS (a long batch, a paused process) and counts as a fault.
TimerEnds(k) ==
    /\ job[k].timer = "running"
    /\ job' = [job EXCEPT ![k].timer = "over"]
    /\ IF job[k].status = "PROCESSING" /\ Held(k) THEN Fault ELSE UNCHANGED faults
    /\ UNCHANGED <<project, issued, queue, proc, reply, retries>>

\* retryCloneJob
Retry(k) ==
    /\ job[k].status \in {"FAILED", "DEAD"}
    /\ retries < MaxRetries
    /\ retries' = retries + 1
    /\ job' = [job EXCEPT ![k].status = "PENDING", ![k].attempts = 0,
                          ![k].token = NoToken, ![k].timer = "null"]
    /\ UNCHANGED <<project, issued, queue, proc, reply, faults>>

-----------------------------------------------------------------------------
Materialize(p) == Load(p) \/ Replay(p) \/ InsertProject(p) \/ Rollback(p) \/ Commit(p)

RequestStep(r) == Submit(r) \/ Create(r) \/ Materialize(r) \/ SyncFinish(r) \/ SyncFail(r)

WorkerStep(w) == Claim(w) \/ Begin(w) \/ Materialize(w) \/ Heartbeat(w) \/ Finish(w) \/ Catch(w)

Next == \/ \E r \in Requests : RequestStep(r) \/ RequestCrash(r)
        \/ \E w \in Workers : WorkerStep(w) \/ WorkerCrash(w)
        \/ \E k \in Keys : TimerEnds(k) \/ Retry(k)

Spec == Init /\ [][Next]_vars
\* A worker keeps polling, a request handler keeps running, back-offs and the
\* leases of claims nobody holds any more run out.  Crashes and retries are
\* never owed.
Fairness == /\ \A w \in Workers : WF_vars(WorkerStep(w))
            /\ \A r \in Requests : WF_vars(RequestStep(r))
            /\ \A k \in Keys : WF_vars(TimerEnds(k) /\ UNCHANGED faults)

FairSpec == Spec /\ Fairness

-----------------------------------------------------------------------------
(* Safety *)

\* The transactions that commit for a job create one project.
AtMostOneProject == \A k \in Keys : project[k] <= 1

\* A transaction that has sent its last heartbeat commits as the lease holder:
\* between a heartbeat and the commit the job cannot be claimed by another
\* worker, although the lease may run out and the commit does not look at it.
CommitterOwnsLease ==
    \A w \in Workers : At(w, "commit") /\ HasTasks(proc[w].key) => Owns(w)

\* A job whose project exists is never failed by its own replay: the process
\* that owns it does not run into the unique index on sourceCloneJobId.
ReplayNeverCollides ==
    \A p \in Procs : At(p, "insert") /\ Owns(p) /\ HasTasks(proc[p].key)
                         => project[proc[p].key] = 0

\* A completed job, and a request answered with a project, have one.
CompletedHasProject ==
    /\ \A k \in Keys : job[k].status = "COMPLETED" => project[k] = 1 /\ job[k].linked
    /\ \A r \in Requests : reply[r] = "sync" => project[KeyOf[r]] = 1

\* What is told and what is there agree: one project for each job, whatever was
\* claimed, replayed, retried or raced, and one for each that was told completed.
JobsHaveTheirProject == AtMostOneProject /\ CompletedHasProject

\* All requests that were accepted under one key asked for the same thing, and
\* a refused one did not, whichever of two racing requests created the job.
AnswersAgree ==
    \A r \in Requests :
        /\ reply[r] \in {"existing", "async", "sync"} => job[KeyOf[r]].body = BodyOf[r]
        /\ reply[r] = "conflict" => job[KeyOf[r]].body # BodyOf[r]

\* A worker whose lease was taken over changes nothing on the job any more.
StaleWorkerIsHarmless ==
    [][\A w \in Workers :
        ~At(w, "idle") /\ ~Owns(w) /\ proc'[w] # proc[w] => UNCHANGED job]_vars

\* COMPLETED is final, except for the handler that lost the acknowledgement of
\* its own completing update.
CompletedIsFinal ==
    [][\A k \in Keys :
        /\ job[k].status = "COMPLETED"
        /\ ~\E r \in Requests : KeyOf[r] = k /\ At(r, "caught")
        => job'[k].status = "COMPLETED"]_vars

\* The job row and the projects, read as the abstract promise.
Phase(s) == IF s = "NONE" THEN "absent"
            ELSE IF s \in Open THEN "open"
            ELSE IF s = "COMPLETED" THEN "done" ELSE "failed"
phaseBar == [k \in Keys |-> Phase(job[k].status)]

Once == INSTANCE CloneOnce WITH phase <- phaseBar, made <- project

\* For templates with tasks the lease protocol implements CloneOnce: no worker
\* creates a project for a job that another one already closed.
ImplementsOnce == Once!OnceSpec

-----------------------------------------------------------------------------
(* Liveness *)

\* Whatever crashes and stalls, a job that a worker may claim is settled.
LeasedJobsSettle ==
    \A k \in Keys :
        (job[k].status \in Open /\ ~(job[k].status = "PROCESSING" /\ job[k].timer = "null"))
            ~> job[k].status \in Settled

\* The promise of docs/phase-8-2-workflows.md for every accepted job, small
\* templates included: abandoned work is reclaimed.
EveryJobSettles ==
    \A k \in Keys : job[k].status \in Open ~> job[k].status \in Settled
=============================================================================
