--------------------------- MODULE CloneJobsProofs ---------------------------
(***************************************************************************)
(* Proofs about CloneJobs for any number of workers, requests, keys and    *)
(* template bodies, and any bound on attempts, retries and faults.         *)
(***************************************************************************)
EXTENDS CloneJobs, TLAPS

LEMMA NowhereType == Nowhere \in Place /\ Nowhere.pc = "idle"
  <1>1. (CHOOSE k \in Keys : TRUE) \in Keys
    BY CloneAssumption
  <1> QED
    BY <1>1 DEF Nowhere, Place, PCs, Errors, NoToken

LEMMA NoJobType == NoJob \in Row /\ NoJob.status = "NONE"
  BY DEF NoJob, Row, Statuses, Timers, NoToken

-----------------------------------------------------------------------------
(* Type correctness.  TypeOK is not inductive alone: that an update never   *)
(* meets a job without a body rests on every running process having been    *)
(* handed a job that exists.                                                *)

\* Inside materializeCloneJob or the code that awaits it.
Running == {"load", "replay", "insert", "tasks", "commit", "finish", "caught"}

ProcOK == proc \in [Procs -> Place]
JobOK == /\ job \in [Keys -> Row]
         /\ \A k \in Keys : job[k].status # "NONE" => job[k].body \in Bodies
RestOK == /\ project \in [Keys -> Nat]
          /\ issued \in [Keys -> Nat]
          /\ queue \in [Workers -> SUBSET Claims]
          /\ reply \in [Requests -> Replies]
          /\ retries \in Nat
          /\ faults \in Nat

HasJob == \A p \in Procs :
    proc[p].pc \in Running => job[proc[p].key].status # "NONE"
OwnKey == \A r \in Requests : proc[r].key = KeyOf[r]
QueueHasJob == \A w \in Workers : \A c \in queue[w] : job[c.key].status # "NONE"

TypeInv == ProcOK /\ JobOK /\ RestOK /\ HasJob /\ OwnKey /\ QueueHasJob

\* What a step that only moves process p, or only writes an existing row, keeps.
JobsStay == \A k \in Keys : job[k].status # "NONE" => job'[k].status # "NONE"

LEMMA TypeInvIsTypeOK == TypeInv => TypeOK
  BY DEF TypeInv, TypeOK, ProcOK, JobOK, RestOK

LEMMA PlaceFacts ==
  ASSUME TypeInv
  PROVE  /\ \A p \in Procs : proc[p] \in Place /\ proc[p].key \in Keys
         /\ \A r \in Requests : r \in Procs /\ proc[r].key = KeyOf[r] /\ KeyOf[r] \in Keys
         /\ \A w \in Workers : w \in Procs /\ w \notin Requests
         /\ \A r \in Requests : BodyOf[r] \in Bodies
  BY CloneAssumption DEF TypeInv, ProcOK, OwnKey, Place, Procs

LEMMA MoveInv ==
  ASSUME TypeInv, NEW p \in Procs, JobsStay,
         \/ \E pc \in PCs : Goto(p, pc) /\ (pc \in Running => proc[p].pc \in Running)
         \/ \E e \in Errors : Raise(p, e) /\ proc[p].pc \in Running
  PROVE  ProcOK' /\ HasJob' /\ OwnKey'
  <1>1. /\ ProcOK'
        /\ \A q \in Procs : proc'[q].key = proc[q].key
        /\ \A q \in Procs : proc'[q].pc \in Running => proc[q].pc \in Running
    BY DEF TypeInv, ProcOK, Goto, Raise, Place, PCs, Errors, Running
  <1>2. HasJob'
    BY <1>1, PlaceFacts DEF TypeInv, HasJob, JobsStay
  <1>3. OwnKey'
    BY <1>1 DEF TypeInv, OwnKey, Procs
  <1> QED
    BY <1>1, <1>2, <1>3

LEMMA RestInv ==
  ASSUME TypeInv, NEW w \in Workers, JobsStay, Rest(w)
  PROVE  ProcOK' /\ HasJob' /\ OwnKey'
  <1>1. proc'[w] = Nowhere /\ \A q \in Procs : q # w => proc'[q] = proc[q]
    BY DEF Rest, TypeInv, ProcOK, Procs
  <1>2. ProcOK'
    BY NowhereType DEF Rest, TypeInv, ProcOK
  <1>3. HasJob'
    <2> SUFFICES ASSUME NEW q \in Procs, proc'[q].pc \in Running
                 PROVE  job'[proc'[q].key].status # "NONE"
      BY DEF HasJob
    <2>1. q # w
      BY <1>1, NowhereType DEF Running
    <2> QED
      BY <1>1, <2>1, PlaceFacts DEF TypeInv, HasJob, JobsStay
  <1>4. OwnKey'
    BY <1>1, CloneAssumption DEF TypeInv, OwnKey, Procs
  <1> QED
    BY <1>2, <1>3, <1>4

LEMMA AnswerInv ==
  ASSUME TypeInv, NEW r \in Requests, JobsStay,
         \/ \E m \in Replies : Answer(r, m)
         \/ \E row : AnswerFrom(r, row)
  PROVE  ProcOK' /\ HasJob' /\ OwnKey' /\ reply' \in [Requests -> Replies]
  <1>1. PICK m \in Replies : Answer(r, m)
    BY DEF AnswerFrom, Replies
  <1>2. Goto(r, "done") /\ r \in Procs
    BY <1>1 DEF Answer, Goto, Procs
  <1>3. reply' \in [Requests -> Replies]
    BY <1>1 DEF Answer, TypeInv, RestOK
  <1> QED
    BY <1>2, <1>3, MoveInv DEF PCs, Running

LEMMA QueueInv ==
  ASSUME TypeInv, JobsStay, UNCHANGED queue
  PROVE  QueueHasJob'
  BY DEF TypeInv, QueueHasJob, JobsStay, RestOK, Claims

LEMMA FaultType ==
  ASSUME TypeInv, Fault \/ UNCHANGED faults
  PROVE  faults' \in Nat
  BY DEF Fault, TypeInv, RestOK

LEMMA InitType == Init => TypeInv
  <1> SUFFICES ASSUME Init PROVE TypeInv
    OBVIOUS
  <1>1. \A p \in Procs : /\ proc[p] \in Place
                         /\ proc[p].pc = "idle"
                         /\ p \in Requests => proc[p].key = KeyOf[p]
    <2> TAKE p \in Procs
    <2>1. CASE p \in Requests
      <3>1. proc[p] = [Nowhere EXCEPT !.key = KeyOf[p]]
        BY <2>1, Zenon DEF Init
      <3>2. KeyOf[p] \in Keys
        BY <2>1, CloneAssumption
      <3> QED
        BY <3>1, <3>2, NowhereType DEF Place
    <2>2. CASE p \notin Requests
      <3>1. proc[p] = Nowhere
        BY <2>2, Zenon DEF Init
      <3> QED
        BY <2>2, <3>1, NowhereType
    <2> QED
      BY <2>1, <2>2
  <1>2. proc = [p \in Procs |-> proc[p]]
    BY Zenon DEF Init
  <1>3. ProcOK
    BY <1>1, <1>2, Zenon DEF ProcOK
  <1>4. JobOK /\ \A k \in Keys : job[k].status = "NONE"
    BY NoJobType DEF Init, JobOK
  <1>5. HasJob /\ OwnKey
    BY <1>1 DEF HasJob, OwnKey, Running, Procs
  <1>6. RestOK /\ QueueHasJob
    BY DEF Init, RestOK, QueueHasJob, Replies
  <1> QED
    BY <1>3, <1>4, <1>5, <1>6 DEF TypeInv

LEMMA SubmitType == ASSUME TypeInv, NEW r \in Requests, Submit(r) PROVE TypeInv'
  <1>1. JobsStay /\ JobOK'
    BY DEF Submit, JobsStay, TypeInv, JobOK
  <1>2. ProcOK' /\ HasJob' /\ OwnKey' /\ reply' \in [Requests -> Replies]
    <2>1. \/ \E m \in Replies : Answer(r, m)
          \/ \E row : AnswerFrom(r, row)
          \/ Goto(r, "create") /\ UNCHANGED reply
      BY DEF Submit, Replies
    <2> QED
      BY <1>1, <2>1, AnswerInv, MoveInv, PlaceFacts DEF PCs, Running, TypeInv, RestOK
  <1> QED
    BY <1>1, <1>2, QueueInv DEF Submit, TypeInv, RestOK

LEMMA CreateType == ASSUME TypeInv, NEW r \in Requests, Create(r) PROVE TypeInv'
  <1>1. NewJob(r) \in Row /\ NewJob(r).body \in Bodies /\ NewJob(r).status # "NONE"
    BY PlaceFacts DEF NewJob, NoJob, Row, Statuses, Timers, NoToken
  <1>2. UNCHANGED job \/ job' = [job EXCEPT ![KeyOf[r]] = NewJob(r)]
    BY DEF Create
  <1>3. JobsStay /\ JobOK'
    BY <1>1, <1>2, PlaceFacts DEF JobsStay, TypeInv, JobOK
  <1>4. ProcOK' /\ HasJob' /\ OwnKey' /\ reply' \in [Requests -> Replies]
    <2>1. CASE (\E m \in Replies : Answer(r, m)) \/ (\E row : AnswerFrom(r, row))
      BY <1>3, <2>1, AnswerInv
    <2>2. CASE Goto(r, "load") /\ UNCHANGED reply /\ job' = [job EXCEPT ![KeyOf[r]] = NewJob(r)]
      <3>1. /\ ProcOK'
            /\ \A q \in Procs : proc'[q].key = proc[q].key
            /\ \A q \in Procs : q # r => proc'[q] = proc[q]
        BY <2>2, PlaceFacts DEF TypeInv, ProcOK, Goto, Place, PCs, Errors
      <3>2. job'[KeyOf[r]].status # "NONE"
        BY <1>1, <2>2, PlaceFacts DEF TypeInv, JobOK
      <3>3. HasJob'
        BY <1>3, <3>1, <3>2, PlaceFacts DEF TypeInv, HasJob, JobsStay
      <3>4. OwnKey'
        BY <3>1 DEF TypeInv, OwnKey, Procs
      <3> QED
        BY <2>2, <3>1, <3>3, <3>4 DEF TypeInv, RestOK
    <2> QED
      BY <2>1, <2>2 DEF Create, Replies
  <1> QED
    BY <1>3, <1>4, QueueInv, FaultType DEF Create, TypeInv, RestOK

LEMMA SyncFinishType == ASSUME TypeInv, NEW r \in Requests, SyncFinish(r) PROVE TypeInv'
  <1>1. \/ UNCHANGED job
        \/ job' = [job EXCEPT ![KeyOf[r]].status = "COMPLETED", ![KeyOf[r]].linked = TRUE]
    BY DEF SyncFinish
  <1>2. job[KeyOf[r]].status # "NONE" /\ proc[r].pc \in Running
    BY PlaceFacts DEF SyncFinish, At, TypeInv, HasJob, Running
  <1>3. JobsStay /\ JobOK'
    BY <1>1, <1>2, PlaceFacts DEF JobsStay, TypeInv, JobOK, Row, Statuses
  <1>4. ProcOK' /\ HasJob' /\ OwnKey' /\ reply' \in [Requests -> Replies]
    <2>1. (\E m \in Replies : Answer(r, m)) \/ (Raise(r, "transient") /\ UNCHANGED reply)
      BY DEF SyncFinish, Replies
    <2> QED
      BY <1>2, <1>3, <2>1, AnswerInv, MoveInv, PlaceFacts DEF Errors, TypeInv, RestOK
  <1> QED
    BY <1>3, <1>4, QueueInv, FaultType DEF SyncFinish, TypeInv, RestOK

LEMMA SyncFailType == ASSUME TypeInv, NEW r \in Requests, SyncFail(r) PROVE TypeInv'
  <1>1. UNCHANGED job \/ job' = [job EXCEPT ![KeyOf[r]].status = "FAILED"]
    BY DEF SyncFail
  <1>2. job[KeyOf[r]].status # "NONE"
    BY PlaceFacts DEF SyncFail, At, TypeInv, HasJob, Running
  <1>3. JobsStay /\ JobOK'
    BY <1>1, <1>2, PlaceFacts DEF JobsStay, TypeInv, JobOK, Row, Statuses
  <1>4. ProcOK' /\ HasJob' /\ OwnKey' /\ reply' \in [Requests -> Replies]
    BY <1>3, AnswerInv DEF SyncFail, Replies
  <1> QED
    BY <1>3, <1>4, QueueInv, FaultType DEF SyncFail, TypeInv, RestOK

LEMMA RequestCrashType == ASSUME TypeInv, NEW r \in Requests, RequestCrash(r) PROVE TypeInv'
  <1>1. JobsStay /\ JobOK'
    BY DEF RequestCrash, JobsStay, TypeInv, JobOK
  <1>2. ProcOK' /\ HasJob' /\ OwnKey'
    BY <1>1, MoveInv, PlaceFacts DEF RequestCrash, PCs, Running
  <1> QED
    BY <1>1, <1>2, QueueInv, FaultType DEF RequestCrash, TypeInv, RestOK

LEMMA MaterializeType == ASSUME TypeInv, NEW p \in Procs, Materialize(p) PROVE TypeInv'
  <1>1. /\ UNCHANGED <<job, issued, queue, reply, retries>>
        /\ proc[p].pc \in Running
        /\ \/ \E pc \in PCs : Goto(p, pc)
           \/ \E e \in Errors : Raise(p, e)
    <2> USE DEF At, Running, PCs, Errors
    <2>1. CASE Load(p)
      BY <2>1 DEF Load
    <2>2. CASE Replay(p)
      BY <2>2 DEF Replay
    <2>3. CASE InsertProject(p)
      BY <2>3 DEF InsertProject
    <2>4. CASE Rollback(p)
      BY <2>4 DEF Rollback, InTx
    <2>5. CASE Commit(p)
      BY <2>5 DEF Commit
    <2> QED
      BY <2>1, <2>2, <2>3, <2>4, <2>5 DEF Materialize
  <1>2. JobsStay /\ JobOK'
    BY <1>1 DEF JobsStay, TypeInv, JobOK
  <1>3. ProcOK' /\ HasJob' /\ OwnKey'
    BY <1>1, <1>2, MoveInv
  <1>4. project' \in [Keys -> Nat] /\ faults' \in Nat
    <2>1. CASE Commit(p)
      BY <2>1, FaultType, PlaceFacts DEF Commit, TypeInv, RestOK
    <2>2. CASE UNCHANGED <<project, faults>>
      BY <2>2 DEF TypeInv, RestOK
    <2> QED
      BY <2>1, <2>2 DEF Materialize, Load, Replay, InsertProject, Rollback
  <1> QED
    BY <1>1, <1>2, <1>3, <1>4, QueueInv DEF TypeInv, RestOK

LEMMA HeartbeatType == ASSUME TypeInv, NEW w \in Workers, Heartbeat(w) PROVE TypeInv'
  <1>1. UNCHANGED job \/ job' = [job EXCEPT ![proc[w].key].timer = "running"]
    BY DEF Heartbeat
  <1>2. JobsStay /\ JobOK'
    BY <1>1, PlaceFacts DEF JobsStay, TypeInv, JobOK, Row, Timers
  <1>3. ProcOK' /\ HasJob' /\ OwnKey'
    BY <1>2, MoveInv, PlaceFacts DEF Heartbeat, Inserted, Running, PCs, Errors
  <1> QED
    BY <1>2, <1>3, QueueInv DEF Heartbeat, TypeInv, RestOK

LEMMA ClaimFacts ==
  ASSUME TypeInv, NEW w \in Workers, Claim(w)
  PROVE  \E S \in SUBSET {k \in Keys : Claimable(k)} :
           /\ job' = [k \in Keys |-> IF k \in S THEN Leased(k) ELSE job[k]]
           /\ issued' = [k \in Keys |-> IF k \in S THEN issued[k] + 1 ELSE issued[k]]
           /\ queue' = [queue EXCEPT ![w] = {[key |-> k, token |-> issued[k] + 1] : k \in S}]
           /\ queue[w] = {} /\ proc[w].pc = "idle"
           /\ \A k \in S : job[k].status # "NONE"
           /\ UNCHANGED <<project, proc, reply, retries, faults>>
  BY DEF Claim, Claimable, At

LEMMA LeasedType ==
  ASSUME TypeInv, NEW k \in Keys
  PROVE  /\ Leased(k) \in Row /\ Leased(k).status = "PROCESSING"
         /\ Leased(k).body = job[k].body /\ Leased(k).token = issued[k] + 1
         /\ Leased(k).timer = "running" /\ Leased(k).linked = job[k].linked
  <1>1. job[k] \in Row /\ issued[k] \in Nat
    BY DEF TypeInv, JobOK, RestOK
  <1>2. ASSUME NEW row \in Row, NEW n \in Nat
        PROVE  LET new == [row EXCEPT !.status = "PROCESSING", !.attempts = @ + 1,
                                      !.token = n + 1, !.timer = "running"]
               IN  /\ new \in Row /\ new.status = "PROCESSING"
                   /\ new.body = row.body /\ new.token = n + 1
                   /\ new.timer = "running" /\ new.linked = row.linked
    <2>1. row.attempts + 1 \in Nat /\ n + 1 \in Nat
      BY DEF Row
    <2> QED
      BY <2>1 DEF Row, Statuses, Timers
  <1> QED
    BY <1>1, <1>2, Zenon DEF Leased

LEMMA ClaimType == ASSUME TypeInv, NEW w \in Workers, Claim(w) PROVE TypeInv'
  <1>1. PICK S \in SUBSET {k \in Keys : Claimable(k)} :
           /\ job' = [k \in Keys |-> IF k \in S THEN Leased(k) ELSE job[k]]
           /\ issued' = [k \in Keys |-> IF k \in S THEN issued[k] + 1 ELSE issued[k]]
           /\ queue' = [queue EXCEPT ![w] = {[key |-> k, token |-> issued[k] + 1] : k \in S}]
           /\ queue[w] = {} /\ proc[w].pc = "idle"
           /\ \A k \in S : job[k].status # "NONE"
           /\ UNCHANGED <<project, proc, reply, retries, faults>>
    BY ClaimFacts
  <1>2. JobsStay
    BY <1>1, LeasedType DEF JobsStay
  <1>3. JobOK'
    <2>1. \A k \in Keys : job'[k] \in Row /\ (job'[k].status # "NONE" => job'[k].body \in Bodies)
      BY <1>1, LeasedType DEF TypeInv, JobOK
    <2> QED
      BY <1>1, <2>1 DEF JobOK
  <1>4. issued' \in [Keys -> Nat]
    BY <1>1 DEF TypeInv, RestOK
  <1>5. queue' \in [Workers -> SUBSET Claims] /\ QueueHasJob'
    <2>1. \A k \in S : [key |-> k, token |-> issued[k] + 1] \in Claims
      BY <1>1 DEF TypeInv, RestOK, Claims
    <2>2. queue' \in [Workers -> SUBSET Claims]
      BY <1>1, <2>1 DEF TypeInv, RestOK
    <2>3. \A v \in Workers : \A c \in queue'[v] : job'[c.key].status # "NONE"
      <3> TAKE v \in Workers
      <3> TAKE c \in queue'[v]
      <3>1. CASE v = w
        <4>1. PICK k \in S : c = [key |-> k, token |-> issued[k] + 1]
          BY <1>1, <3>1 DEF TypeInv, RestOK
        <4> QED
          BY <1>1, <4>1, LeasedType
      <3>2. CASE v # w
        BY <1>1, <1>2, <3>2 DEF TypeInv, RestOK, QueueHasJob, JobsStay, Claims
      <3> QED
        BY <3>1, <3>2
    <2> QED
      BY <2>2, <2>3 DEF QueueHasJob
  <1>6. ProcOK' /\ HasJob' /\ OwnKey'
    BY <1>1, <1>2, PlaceFacts DEF TypeInv, ProcOK, HasJob, OwnKey, JobsStay
  <1> QED
    BY <1>1, <1>3, <1>4, <1>5, <1>6 DEF TypeInv, RestOK

LEMMA BeginType == ASSUME TypeInv, NEW w \in Workers, Begin(w) PROVE TypeInv'
  <1>1. PICK c \in queue[w] :
          /\ queue' = [queue EXCEPT ![w] = @ \ {c}]
          /\ \/ UNCHANGED proc
             \/ proc' = [proc EXCEPT ![w] =
                           [pc |-> "load", key |-> c.key, token |-> c.token, err |-> "ok"]]
          /\ UNCHANGED <<job, project, issued, reply, retries, faults>>
    BY DEF Begin
  <1>2. c \in Claims /\ job[c.key].status # "NONE"
    BY DEF TypeInv, RestOK, QueueHasJob
  <1>3. queue' \in [Workers -> SUBSET Claims] /\ QueueHasJob'
    BY <1>1 DEF TypeInv, RestOK, QueueHasJob
  <1>4. ProcOK'
    BY <1>1, <1>2 DEF TypeInv, ProcOK, Place, PCs, Errors, Claims
  <1>5. HasJob' /\ OwnKey'
    BY <1>1, <1>2, PlaceFacts DEF TypeInv, ProcOK, HasJob, OwnKey
  <1> QED
    BY <1>1, <1>3, <1>4, <1>5 DEF TypeInv, RestOK, JobOK

LEMMA FinishType == ASSUME TypeInv, NEW w \in Workers, Finish(w) PROVE TypeInv'
  <1>1. proc[w].pc \in Running /\ job[proc[w].key].status # "NONE"
    BY PlaceFacts DEF Finish, At, Running, TypeInv, HasJob
  <1>2. \/ UNCHANGED job
        \/ job' = [job EXCEPT ![proc[w].key].status = "COMPLETED", ![proc[w].key].linked = TRUE,
                              ![proc[w].key].token = NoToken, ![proc[w].key].timer = "null"]
    BY DEF Finish
  <1>3. JobsStay /\ JobOK'
    BY <1>1, <1>2, PlaceFacts DEF JobsStay, TypeInv, JobOK, Row, Statuses, Timers, NoToken
  <1>4. ProcOK' /\ HasJob' /\ OwnKey'
    BY <1>1, <1>3, MoveInv, RestInv, PlaceFacts DEF Finish, Errors
  <1> QED
    BY <1>3, <1>4, QueueInv, FaultType DEF Finish, TypeInv, RestOK

LEMMA AfterErrorType ==
  ASSUME NEW row \in Row, NEW e
  PROVE  /\ AfterError(row, e) \in Row
         /\ AfterError(row, e).status \in {"RETRY_WAIT", "DEAD", "FAILED"}
         /\ AfterError(row, e).body = row.body
         /\ AfterError(row, e).token = NoToken
         /\ AfterError(row, e).linked = row.linked
  BY DEF AfterError, Row, Statuses, Timers, NoToken

LEMMA CatchType == ASSUME TypeInv, NEW w \in Workers, Catch(w) PROVE TypeInv'
  <1>1. job[proc[w].key].status # "NONE"
    BY PlaceFacts DEF Catch, At, Running, TypeInv, HasJob
  <1>2. \/ UNCHANGED job
        \/ job' = [job EXCEPT ![proc[w].key] = AfterError(job[proc[w].key], proc[w].err)]
    BY DEF Catch
  <1>3. JobsStay /\ JobOK'
    <2>1. job[proc[w].key] \in Row /\ job[proc[w].key].body \in Bodies
      BY <1>1, PlaceFacts DEF TypeInv, JobOK
    <2> QED
      BY <1>2, <2>1, AfterErrorType, PlaceFacts DEF JobsStay, TypeInv, JobOK
  <1>4. ProcOK' /\ HasJob' /\ OwnKey'
    BY <1>3, RestInv DEF Catch
  <1> QED
    BY <1>3, <1>4, QueueInv, FaultType DEF Catch, TypeInv, RestOK

LEMMA WorkerCrashType == ASSUME TypeInv, NEW w \in Workers, WorkerCrash(w) PROVE TypeInv'
  <1>1. JobsStay /\ JobOK'
    BY DEF WorkerCrash, JobsStay, TypeInv, JobOK
  <1>2. ProcOK' /\ HasJob' /\ OwnKey'
    BY <1>1, RestInv DEF WorkerCrash
  <1>3. queue' \in [Workers -> SUBSET Claims] /\ QueueHasJob'
    BY DEF WorkerCrash, TypeInv, RestOK, QueueHasJob
  <1> QED
    BY <1>1, <1>2, <1>3, FaultType DEF WorkerCrash, TypeInv, RestOK

LEMMA TimerType == ASSUME TypeInv, NEW k \in Keys, TimerEnds(k) PROVE TypeInv'
  <1>1. JobsStay /\ JobOK'
    BY DEF TimerEnds, JobsStay, TypeInv, JobOK, Row, Timers
  <1>2. ProcOK' /\ HasJob' /\ OwnKey'
    BY <1>1, PlaceFacts DEF TimerEnds, TypeInv, ProcOK, HasJob, OwnKey, JobsStay
  <1>3. /\ Fault \/ UNCHANGED faults
        /\ UNCHANGED <<project, issued, queue, reply, retries>>
    BY DEF TimerEnds
  <1> QED
    BY <1>1, <1>2, <1>3, QueueInv, FaultType DEF TypeInv, RestOK

LEMMA RetryType == ASSUME TypeInv, NEW k \in Keys, Retry(k) PROVE TypeInv'
  <1>1. JobsStay /\ JobOK'
    <2>1. \A row \in Row : [row EXCEPT !.status = "PENDING", !.attempts = 0,
                                       !.token = NoToken, !.timer = "null"] \in Row
      BY DEF Row, Statuses, Timers, NoToken
    <2>2. /\ job' = [job EXCEPT ![k] = job'[k]]
          /\ job'[k] = [job[k] EXCEPT !.status = "PENDING", !.attempts = 0,
                                      !.token = NoToken, !.timer = "null"]
          /\ job[k].status # "NONE"
      BY DEF Retry, TypeInv, JobOK
    <2>3. job'[k] \in Row /\ job'[k].status = "PENDING" /\ job'[k].body = job[k].body
      BY <2>1, <2>2 DEF TypeInv, JobOK, Row
    <2> QED
      BY <2>2, <2>3 DEF JobsStay, TypeInv, JobOK
  <1>2. ProcOK' /\ HasJob' /\ OwnKey'
    BY <1>1, PlaceFacts DEF Retry, TypeInv, ProcOK, HasJob, OwnKey, JobsStay
  <1> QED
    BY <1>1, <1>2, QueueInv DEF Retry, TypeInv, RestOK

LEMMA TypeStep == ASSUME TypeInv, [Next]_vars PROVE TypeInv'
  <1>1. CASE UNCHANGED vars
    BY <1>1 DEF vars, TypeInv, ProcOK, JobOK, RestOK, HasJob, OwnKey, QueueHasJob
  <1>2. ASSUME NEW r \in Requests, RequestStep(r) \/ RequestCrash(r) PROVE TypeInv'
    BY <1>2, PlaceFacts, SubmitType, CreateType, MaterializeType, SyncFinishType,
       SyncFailType, RequestCrashType DEF RequestStep
  <1>3. ASSUME NEW w \in Workers, WorkerStep(w) \/ WorkerCrash(w) PROVE TypeInv'
    BY <1>3, PlaceFacts, ClaimType, BeginType, MaterializeType, HeartbeatType,
       FinishType, CatchType, WorkerCrashType DEF WorkerStep
  <1>4. ASSUME NEW k \in Keys, TimerEnds(k) \/ Retry(k) PROVE TypeInv'
    BY <1>4, TimerType, RetryType
  <1> QED
    BY <1>1, <1>2, <1>3, <1>4 DEF Next

\* Every reachable state of the clone-job protocol is well typed.
THEOREM TypeCorrect == Spec => []TypeOK
  <1>1. Init => TypeInv
    BY InitType
  <1>2. TypeInv /\ [Next]_vars => TypeInv'
    BY TypeStep
  <1> QED
    BY <1>1, <1>2, TypeInvIsTypeOK, PTL DEF Spec

(***************************************************************************)
(* The safety of CloneJobs for every value of its constants: one project   *)
(* per job, the lease holder commits, completed jobs have their project.   *)
(***************************************************************************)

-----------------------------------------------------------------------------
(* One project per job.  This needs nothing of leases: the unique index and *)
(* the wait of a second insert suffice, whoever the two processes are.      *)

InsertInv ==
    /\ \A p \in Procs : proc[p].pc \in Inserted => project[proc[p].key] = 0
    /\ \A p, q \in Procs :
          /\ proc[p].pc \in Inserted
          /\ proc[q].pc \in Inserted
          /\ proc[p].key = proc[q].key
          => p = q
    /\ AtMostOneProject

\* How a step reaches the part of a transaction that holds an inserted project.
EntersInsert(p) == /\ proc[p].pc = "insert"
                   /\ Inserting(proc[p].key) = {}
                   /\ project[proc[p].key] = 0
                   /\ \A q \in Procs : q # p => proc'[q] = proc[q]

InsertFrame ==
    /\ \A p \in Procs : proc'[p].pc \in Inserted =>
          /\ proc'[p].key = proc[p].key
          /\ proc[p].pc \in Inserted \/ EntersInsert(p)
    /\ \/ UNCHANGED project
       \/ \E p \in Procs : Commit(p) /\ proc'[p].pc \notin Inserted

LEMMA MoveFrame ==
  ASSUME TypeInv, NEW p \in Procs, UNCHANGED project,
         \/ \E pc \in PCs : Goto(p, pc) /\ (pc \in Inserted => proc[p].pc \in Inserted)
         \/ \E e \in Errors : Raise(p, e)
  PROVE  InsertFrame
  BY DEF InsertFrame, TypeInv, ProcOK, Goto, Raise, Place, PCs, Errors, Inserted

LEMMA RestFrame ==
  ASSUME TypeInv, NEW w \in Workers, UNCHANGED project, Rest(w)
  PROVE  InsertFrame
  <1>1. \A q \in Procs : proc'[q] = IF q = w THEN Nowhere ELSE proc[q]
    BY DEF Rest, TypeInv, ProcOK, Procs
  <1> QED
    BY <1>1, NowhereType DEF InsertFrame, Inserted

LEMMA AnswerFrame ==
  ASSUME TypeInv, NEW r \in Requests, UNCHANGED project,
         \/ \E m : Answer(r, m)
         \/ \E row : AnswerFrom(r, row)
  PROVE  InsertFrame
  <1>1. Goto(r, "done") /\ r \in Procs
    BY DEF AnswerFrom, Answer, Goto, Procs
  <1> QED
    BY <1>1, MoveFrame DEF PCs, Inserted

LEMMA MaterializeFrame ==
  ASSUME TypeInv, NEW p \in Procs, Materialize(p)
  PROVE  InsertFrame
  <1> USE DEF PCs, Errors, Inserted, At
  <1>1. CASE Load(p)
    BY <1>1, MoveFrame DEF Load
  <1>2. CASE Replay(p)
    BY <1>2, MoveFrame DEF Replay
  <1>3. CASE InsertProject(p)
    <2>1. CASE \E e \in Errors : Raise(p, e)
      BY <1>3, <2>1, MoveFrame DEF InsertProject
    <2>2. CASE project[proc[p].key] = 0 /\ \E pc \in Inserted : Goto(p, pc)
      <3>1. /\ \A q \in Procs : proc'[q].key = proc[q].key
            /\ \A q \in Procs : q # p => proc'[q] = proc[q]
        BY <2>2 DEF Goto, TypeInv, ProcOK, Place
      <3> QED
        BY <1>3, <2>2, <3>1 DEF InsertProject, InsertFrame, EntersInsert
    <2> QED
      BY <1>3, <2>1, <2>2, PlaceFacts DEF InsertProject, TypeInv, RestOK
  <1>4. CASE Rollback(p)
    BY <1>4, MoveFrame DEF Rollback
  <1>5. CASE Commit(p)
    <2>1. /\ \A q \in Procs : q # p => proc'[q] = proc[q]
          /\ proc'[p].pc \notin Inserted
      BY <1>5 DEF Commit, Goto, Raise, TypeInv, ProcOK, Place
    <2> QED
      BY <1>5, <2>1 DEF InsertFrame
  <1> QED
    BY <1>1, <1>2, <1>3, <1>4, <1>5 DEF Materialize

LEMMA NextFrame == ASSUME TypeInv, Next PROVE InsertFrame
  <1> USE PlaceFacts DEF PCs, Errors, Inserted
  <1>1. ASSUME NEW r \in Requests, RequestStep(r) \/ RequestCrash(r) PROVE InsertFrame
    <2>1. CASE Submit(r)
      BY <2>1, AnswerFrame, MoveFrame DEF Submit
    <2>2. CASE Create(r)
      BY <2>2, AnswerFrame, MoveFrame DEF Create
    <2>3. CASE SyncFinish(r)
      BY <2>3, AnswerFrame, MoveFrame DEF SyncFinish
    <2>4. CASE SyncFail(r)
      BY <2>4, AnswerFrame DEF SyncFail
    <2>5. CASE RequestCrash(r)
      BY <2>5, MoveFrame DEF RequestCrash
    <2> QED
      BY <1>1, <2>1, <2>2, <2>3, <2>4, <2>5, MaterializeFrame DEF RequestStep
  <1>2. ASSUME NEW w \in Workers, WorkerStep(w) \/ WorkerCrash(w) PROVE InsertFrame
    <2>1. CASE Claim(w)
      BY <2>1 DEF Claim, InsertFrame
    <2>2. CASE Begin(w)
      BY <2>2 DEF Begin, InsertFrame, TypeInv, ProcOK
    <2>3. CASE Heartbeat(w)
      BY <2>3, MoveFrame DEF Heartbeat
    <2>4. CASE Finish(w)
      BY <2>4, MoveFrame, RestFrame DEF Finish
    <2>5. CASE Catch(w)
      BY <2>5, RestFrame DEF Catch
    <2>6. CASE WorkerCrash(w)
      BY <2>6, RestFrame DEF WorkerCrash
    <2> QED
      BY <1>2, <2>1, <2>2, <2>3, <2>4, <2>5, <2>6, MaterializeFrame DEF WorkerStep
  <1>3. ASSUME NEW k \in Keys, TimerEnds(k) \/ Retry(k) PROVE InsertFrame
    BY <1>3 DEF TimerEnds, Retry, InsertFrame
  <1> QED
    BY <1>1, <1>2, <1>3 DEF Next

LEMMA InsertStep == ASSUME TypeInv, InsertInv, [Next]_vars PROVE InsertInv'
  <1>1. CASE UNCHANGED vars
    BY <1>1 DEF vars, InsertInv, AtMostOneProject
  <1>2. CASE Next
    <2>1. InsertFrame
      BY <1>2, NextFrame
    <2>2. \A p, q \in Procs :
            /\ proc'[p].pc \in Inserted
            /\ proc'[q].pc \in Inserted
            /\ proc'[p].key = proc'[q].key
            => p = q
      BY <2>1 DEF InsertFrame, EntersInsert, InsertInv, Inserting
    <2>3. CASE UNCHANGED project
      BY <2>1, <2>2, <2>3 DEF InsertFrame, EntersInsert, InsertInv, AtMostOneProject
    <2>4. ASSUME NEW p \in Procs, Commit(p), proc'[p].pc \notin Inserted PROVE InsertInv'
      <3>1. proc[p].pc \in Inserted /\ project[proc[p].key] = 0
        BY <2>4 DEF Commit, At, Inserted, InsertInv
      <3>2. /\ project'[proc[p].key] = 1
            /\ \A k \in Keys : k # proc[p].key => project'[k] = project[k]
        BY <2>4, <3>1, PlaceFacts DEF Commit, TypeInv, RestOK
      <3>3. AtMostOneProject'
        BY <3>2 DEF InsertInv, AtMostOneProject
      <3>4. ASSUME NEW q \in Procs, proc'[q].pc \in Inserted
            PROVE  project'[proc'[q].key] = 0
        <4>1. q # p /\ proc'[q] = proc[q]
          BY <2>4, <3>4 DEF Commit, Goto, Raise, TypeInv, ProcOK
        <4>2. proc[q].key # proc[p].key
          BY <3>1, <3>4, <4>1 DEF InsertInv
        <4> QED
          BY <3>2, <3>4, <4>1, <4>2, PlaceFacts DEF InsertInv
      <3> QED
        BY <2>2, <3>3, <3>4 DEF InsertInv
    <2> QED
      BY <2>1, <2>3, <2>4 DEF InsertFrame
  <1> QED
    BY <1>1, <1>2

LEMMA InsertInit == Init => InsertInv
  BY InitType, NowhereType, CloneAssumption DEF Init, InsertInv, AtMostOneProject, Inserted,
     TypeInv, ProcOK

\* However often a job is claimed, replayed, retried or raced, one project is
\* created for it.
THEOREM OneProject == Spec => []AtMostOneProject
  <1>1. Init => TypeInv /\ InsertInv
    BY InitType, InsertInit
  <1>2. TypeInv /\ InsertInv /\ [Next]_vars => (TypeInv /\ InsertInv)'
    BY TypeStep, InsertStep
  <1>3. InsertInv => AtMostOneProject
    BY DEF InsertInv
  <1> QED
    BY <1>1, <1>2, <1>3, PTL DEF Spec

-----------------------------------------------------------------------------
(* Who writes a job row, and how a process comes to run on it.             *)

Untouched(k) == job'[k] = job[k]

ByClaim(k) == /\ Claimable(k)
              /\ job'[k] = Leased(k)
              /\ issued'[k] = issued[k] + 1

ByTime(k) == /\ job[k].timer = "running"
             /\ job'[k] = [job[k] EXCEPT !.timer = "over"]

ByOwner(k) == \E v \in Workers :
    /\ proc[v].key = k
    /\ Owns(v)
    /\ \A q \in Procs : q # v => proc'[q] = proc[q]
    /\ \/ /\ proc[v].pc \in Inserted
          /\ job'[k] = [job[k] EXCEPT !.timer = "running"]
       \/ /\ proc[v].pc = "finish"
          /\ job'[k] = [job[k] EXCEPT !.status = "COMPLETED", !.linked = TRUE,
                                      !.token = NoToken, !.timer = "null"]
       \/ /\ proc[v].pc = "caught"
          /\ job'[k] = AfterError(job[k], proc[v].err)

ByRequest(k) == \E r \in Requests :
    /\ KeyOf[r] = k
    /\ \A q \in Procs : q # r => proc'[q] = proc[q]
    /\ \/ /\ proc[r].pc = "create"
          /\ job[k].status = "NONE"
          /\ job'[k] = NewJob(r)
       \/ /\ proc[r].pc = "finish"
          /\ job'[k] = [job[k] EXCEPT !.status = "COMPLETED", !.linked = TRUE]
          /\ proc'[r].pc \in {"done", "caught"}
       \/ /\ proc[r].pc = "caught"
          /\ job'[k] = [job[k] EXCEPT !.status = "FAILED"]
          /\ proc'[r].pc = "done"

ByRetry(k) ==
    /\ job[k].status \in {"FAILED", "DEAD"}
    /\ job'[k] = [job[k] EXCEPT !.status = "PENDING", !.attempts = 0,
                                !.token = NoToken, !.timer = "null"]

JobFrame(k) == /\ \/ Untouched(k) \/ ByClaim(k) \/ ByTime(k)
                  \/ ByOwner(k) \/ ByRequest(k) \/ ByRetry(k)
               /\ ByClaim(k) \/ issued'[k] = issued[k]

LEMMA OthersStay ==
  ASSUME TypeInv, NEW p \in Procs,
         \/ \E pc : Goto(p, pc)
         \/ \E e : Raise(p, e)
         \/ p \in Workers /\ Rest(p)
         \/ p \in Requests /\ \E m : Answer(p, m)
         \/ p \in Requests /\ \E row : AnswerFrom(p, row)
  PROVE  \A q \in Procs : q # p => proc'[q] = proc[q]
  BY DEF Goto, Raise, Rest, Answer, AnswerFrom, TypeInv, ProcOK

LEMMA RequestJobFrame ==
  ASSUME TypeInv, NEW r \in Requests, RequestStep(r) \/ RequestCrash(r), NEW k \in Keys
  PROVE  JobFrame(k)
  <1> USE PlaceFacts
  <1>1. CASE Create(r)
    <2>1. \A q \in Procs : q # r => proc'[q] = proc[q]
      BY <1>1, OthersStay DEF Create
    <2>2. \/ UNCHANGED job
          \/ job[KeyOf[r]].status = "NONE" /\ job' = [job EXCEPT ![KeyOf[r]] = NewJob(r)]
      BY <1>1 DEF Create
    <2>3. Untouched(k) \/ ByRequest(k)
      BY <1>1, <2>1, <2>2 DEF Create, At, Untouched, ByRequest, TypeInv, JobOK
    <2> QED
      BY <1>1, <2>3 DEF Create, JobFrame
  <1>2. CASE SyncFinish(r)
    <2>1. \A q \in Procs : q # r => proc'[q] = proc[q]
      BY <1>2, OthersStay DEF SyncFinish
    <2>2. proc'[r].pc \in {"done", "caught"}
      BY <1>2 DEF SyncFinish, Answer, Raise, TypeInv, ProcOK, Place
    <2>3. \/ UNCHANGED job
          \/ job' = [job EXCEPT ![KeyOf[r]].status = "COMPLETED", ![KeyOf[r]].linked = TRUE]
      BY <1>2 DEF SyncFinish
    <2>4. Untouched(k) \/ ByRequest(k)
      BY <1>2, <2>1, <2>2, <2>3 DEF SyncFinish, At, Untouched, ByRequest, TypeInv, JobOK, Row
    <2> QED
      BY <1>2, <2>4 DEF SyncFinish, JobFrame
  <1>3. CASE SyncFail(r)
    <2>1. \A q \in Procs : q # r => proc'[q] = proc[q]
      BY <1>3, OthersStay DEF SyncFail
    <2>2. proc'[r].pc = "done"
      BY <1>3 DEF SyncFail, Answer, TypeInv, ProcOK, Place
    <2>3. UNCHANGED job \/ job' = [job EXCEPT ![KeyOf[r]].status = "FAILED"]
      BY <1>3 DEF SyncFail
    <2>4. Untouched(k) \/ ByRequest(k)
      BY <1>3, <2>1, <2>2, <2>3 DEF SyncFail, At, Untouched, ByRequest, TypeInv, JobOK, Row
    <2> QED
      BY <1>3, <2>4 DEF SyncFail, JobFrame
  <1>4. CASE Submit(r) \/ Materialize(r) \/ RequestCrash(r)
    BY <1>4 DEF Submit, Materialize, Load, Replay, InsertProject, Rollback, Commit,
                RequestCrash, JobFrame, Untouched
  <1> QED
    BY <1>1, <1>2, <1>3, <1>4 DEF RequestStep

LEMMA WorkerJobFrame ==
  ASSUME TypeInv, NEW w \in Workers, WorkerStep(w) \/ WorkerCrash(w), NEW k \in Keys
  PROVE  JobFrame(k)
  <1> USE PlaceFacts
  <1>1. CASE Claim(w)
    <2>1. PICK S \in SUBSET {j \in Keys : Claimable(j)} :
             /\ job' = [j \in Keys |-> IF j \in S THEN Leased(j) ELSE job[j]]
             /\ issued' = [j \in Keys |-> IF j \in S THEN issued[j] + 1 ELSE issued[j]]
      BY <1>1 DEF Claim
    <2>2. CASE k \in S
      BY <2>1, <2>2 DEF JobFrame, ByClaim
    <2>3. CASE k \notin S
      BY <2>1, <2>3 DEF JobFrame, Untouched
    <2> QED
      BY <2>2, <2>3
  <1>2. CASE Heartbeat(w)
    <2>1. \A q \in Procs : q # w => proc'[q] = proc[q]
      BY <1>2, OthersStay DEF Heartbeat
    <2>2. \/ UNCHANGED job
          \/ Owns(w) /\ job' = [job EXCEPT ![proc[w].key].timer = "running"]
      BY <1>2 DEF Heartbeat
    <2>3. Untouched(k) \/ ByOwner(k)
      BY <1>2, <2>1, <2>2 DEF Heartbeat, Untouched, ByOwner, TypeInv, JobOK, Row
    <2> QED
      BY <1>2, <2>3 DEF Heartbeat, JobFrame
  <1>3. CASE Finish(w)
    <2>1. \A q \in Procs : q # w => proc'[q] = proc[q]
      BY <1>3, OthersStay DEF Finish
    <2>2. \/ UNCHANGED job
          \/ /\ Owns(w)
             /\ job' = [job EXCEPT ![proc[w].key].status = "COMPLETED",
                                   ![proc[w].key].linked = TRUE,
                                   ![proc[w].key].token = NoToken,
                                   ![proc[w].key].timer = "null"]
      BY <1>3 DEF Finish
    <2>3. Untouched(k) \/ ByOwner(k)
      BY <1>3, <2>1, <2>2 DEF Finish, At, Untouched, ByOwner, TypeInv, JobOK, Row
    <2> QED
      BY <1>3, <2>3 DEF Finish, JobFrame
  <1>4. CASE Catch(w)
    <2>1. \A q \in Procs : q # w => proc'[q] = proc[q]
      BY <1>4, OthersStay DEF Catch
    <2>2. \/ UNCHANGED job
          \/ /\ Owns(w)
             /\ job' = [job EXCEPT ![proc[w].key] = AfterError(job[proc[w].key], proc[w].err)]
      BY <1>4 DEF Catch
    <2>3. Untouched(k) \/ ByOwner(k)
      BY <1>4, <2>1, <2>2 DEF Catch, At, Untouched, ByOwner, TypeInv, JobOK
    <2> QED
      BY <1>4, <2>3 DEF Catch, JobFrame
  <1>5. CASE Begin(w) \/ Materialize(w) \/ WorkerCrash(w)
    BY <1>5 DEF Begin, Materialize, Load, Replay, InsertProject, Rollback, Commit,
                WorkerCrash, JobFrame, Untouched
  <1> QED
    BY <1>1, <1>2, <1>3, <1>4, <1>5 DEF WorkerStep

LEMMA NextJobFrame == ASSUME TypeInv, [Next]_vars, NEW k \in Keys PROVE JobFrame(k)
  <1>1. CASE UNCHANGED vars
    BY <1>1 DEF vars, JobFrame, Untouched
  <1>2. ASSUME NEW j \in Keys, TimerEnds(j) PROVE JobFrame(k)
    BY <1>2 DEF TimerEnds, JobFrame, Untouched, ByTime, TypeInv, JobOK
  <1>3. ASSUME NEW j \in Keys, Retry(j) PROVE JobFrame(k)
    <2>1. Untouched(k) \/ ByRetry(k)
      BY <1>3 DEF Retry, Untouched, ByRetry, TypeInv, JobOK, Row
    <2> QED
      BY <1>3, <2>1 DEF Retry, JobFrame
  <1> QED
    BY <1>1, <1>2, <1>3, RequestJobFrame, WorkerJobFrame DEF Next

\* How a process comes to be running on a job: it was already, it took a claim
\* from its queue, or its request has just created the job.
Continues(p) == /\ proc[p].pc \in Running
                /\ proc'[p].key = proc[p].key
                /\ proc'[p].token = proc[p].token
                /\ proc[p].pc = "caught" => proc'[p].pc = "caught"

TakesClaim(p) == /\ p \in Workers
                 /\ [key |-> proc'[p].key, token |-> proc'[p].token] \in queue[p]

Creates(p) == /\ p \in Requests
              /\ proc[p].pc = "create"
              /\ proc'[p].pc = "load"
              /\ proc'[p].token = proc[p].token
              /\ job[KeyOf[p]].status = "NONE"
              /\ job'[KeyOf[p]] = NewJob(p)
              /\ Tasks[BodyOf[p]] # "many"
              /\ \A q \in Procs : q # p => proc'[q] = proc[q]

Starts(p) == proc'[p].pc \in Running => Continues(p) \/ TakesClaim(p) \/ Creates(p)

QueueFrame == \A w \in Workers :
    \/ queue'[w] \subseteq queue[w]
    \/ \A c \in queue'[w] : c.token = issued[c.key] + 1 /\ issued'[c.key] = issued[c.key] + 1

NewClaims == \A v, w \in Workers : v # w => queue'[v] \subseteq queue[v] \/ queue'[w] \subseteq queue[w]

ProcFrame == /\ \A p \in Procs : Starts(p)
             /\ \A r \in Requests : proc'[r].token = proc[r].token
             /\ QueueFrame
             /\ NewClaims

LEMMA MoveStarts ==
  ASSUME TypeInv, NEW p \in Procs, UNCHANGED queue,
         \/ \E pc : Goto(p, pc) /\ (pc \in Running => proc[p].pc \in Running \ {"caught"})
         \/ proc[p].pc \in Running /\ \E e : Raise(p, e)
         \/ p \in Workers /\ Rest(p)
         \/ p \in Requests /\ \E m : Answer(p, m)
         \/ p \in Requests /\ \E row : AnswerFrom(p, row)
  PROVE  ProcFrame
  <1>1. \A q \in Procs : q # p => proc'[q] = proc[q]
    BY OthersStay
  <1>2. CASE p \in Workers /\ Rest(p)
    <2>1. proc'[p].pc = "idle"
      BY <1>2, NowhereType DEF Rest, TypeInv, ProcOK
    <2>2. \A r \in Requests : proc'[r] = proc[r]
      BY <1>1, <1>2, PlaceFacts
    <2> QED
      BY <1>1, <2>1, <2>2 DEF ProcFrame, Starts, Continues, QueueFrame, NewClaims, Running
  <1>3. CASE \/ \E pc : Goto(p, pc) /\ (pc \in Running => proc[p].pc \in Running \ {"caught"})
             \/ proc[p].pc \in Running /\ \E e : Raise(p, e)
             \/ p \in Requests /\ \E m : Answer(p, m)
             \/ p \in Requests /\ \E row : AnswerFrom(p, row)
    <2>1. /\ proc'[p].key = proc[p].key
          /\ proc'[p].token = proc[p].token
          /\ proc'[p].pc \in Running => /\ proc[p].pc \in Running
                                        /\ proc[p].pc = "caught" => proc'[p].pc = "caught"
      <3>1. PICK pc, e : /\ proc' = [proc EXCEPT ![p].pc = pc, ![p].err = e]
                         /\ pc \in Running => /\ proc[p].pc \in Running
                                              /\ proc[p].pc = "caught" => pc = "caught"
        <4>1. "done" \notin Running
          BY DEF Running
        <4>2. CASE \E pc : Goto(p, pc) /\ (pc \in Running => proc[p].pc \in Running \ {"caught"})
          BY <4>2 DEF Goto
        <4>3. CASE proc[p].pc \in Running /\ \E e : Raise(p, e)
          BY <4>3 DEF Raise
        <4>4. CASE \E m : Answer(p, m)
          BY <4>1, <4>4 DEF Answer
        <4>5. CASE \E row : AnswerFrom(p, row)
          BY <4>1, <4>5 DEF AnswerFrom, Answer
        <4> QED
          BY <1>3, <4>2, <4>3, <4>4, <4>5
      <3> QED
        BY <3>1 DEF TypeInv, ProcOK, Place
    <2> QED
      BY <1>1, <2>1, PlaceFacts
         DEF ProcFrame, Starts, Continues, QueueFrame, NewClaims
  <1> QED
    BY <1>2, <1>3

LEMMA NextProcFrame == ASSUME TypeInv, [Next]_vars PROVE ProcFrame
  <1> USE PlaceFacts
  <1>0. CASE UNCHANGED <<proc, queue>>
    BY <1>0 DEF ProcFrame, Starts, Continues, QueueFrame, NewClaims
  <1>1. ASSUME NEW r \in Requests, RequestStep(r) \/ RequestCrash(r) PROVE ProcFrame
    <2>1. CASE Submit(r)
      BY <2>1, MoveStarts DEF Submit, Running
    <2>2. CASE Create(r)
      <3>1. CASE \/ \E m : Answer(r, m)
                 \/ \E row : AnswerFrom(r, row)
        BY <2>2, <3>1, MoveStarts DEF Create
      <3>2. CASE /\ Goto(r, "load")
                 /\ Tasks[BodyOf[r]] # "many"
                 /\ job[KeyOf[r]].status = "NONE"
                 /\ job' = [job EXCEPT ![KeyOf[r]] = NewJob(r)]
        <4>1. \A q \in Procs : q # r => proc'[q] = proc[q]
          BY <3>2, OthersStay
        <4>2. proc'[r].pc = "load" /\ proc'[r].token = proc[r].token
          BY <3>2 DEF Goto, TypeInv, ProcOK, Place
        <4>3. job'[KeyOf[r]] = NewJob(r)
          BY <3>2 DEF TypeInv, JobOK
        <4>4. Creates(r)
          BY <2>2, <3>2, <4>1, <4>2, <4>3 DEF Create, At, Creates
        <4> QED
          BY <2>2, <4>1, <4>2, <4>4
             DEF Create, ProcFrame, Starts, Continues, QueueFrame, NewClaims
      <3> QED
        BY <2>2, <3>1, <3>2 DEF Create
    <2>3. CASE SyncFinish(r)
      BY <2>3, MoveStarts DEF SyncFinish, At, Running
    <2>4. CASE SyncFail(r)
      BY <2>4, MoveStarts DEF SyncFail
    <2>5. CASE RequestCrash(r)
      BY <2>5, MoveStarts DEF RequestCrash, Running
    <2>6. CASE Materialize(r)
      BY <2>6, MoveStarts
         DEF Materialize, Load, Replay, InsertProject, Rollback, Commit, At, InTx, Running
    <2> QED
      BY <1>1, <2>1, <2>2, <2>3, <2>4, <2>5, <2>6 DEF RequestStep
  <1>2. ASSUME NEW w \in Workers, WorkerStep(w) \/ WorkerCrash(w) PROVE ProcFrame
    <2>1. CASE Claim(w)
      <3>1. PICK S \in SUBSET {k \in Keys : Claimable(k)} :
             /\ issued' = [k \in Keys |-> IF k \in S THEN issued[k] + 1 ELSE issued[k]]
             /\ queue' = [queue EXCEPT ![w] = {[key |-> k, token |-> issued[k] + 1] : k \in S}]
             /\ UNCHANGED proc
             /\ proc[w].pc = "idle"
        BY <2>1 DEF Claim, At
      <3>2. \A c \in queue'[w] : c.token = issued[c.key] + 1 /\ issued'[c.key] = issued[c.key] + 1
        BY <3>1 DEF TypeInv, RestOK
      <3>3. \A v \in Workers : v # w => queue'[v] = queue[v]
        BY <3>1 DEF TypeInv, RestOK
      <3> QED
        BY <3>1, <3>2, <3>3 DEF ProcFrame, Starts, Continues, QueueFrame, NewClaims, Running
    <2>2. CASE Begin(w)
      <3>1. PICK c \in queue[w] :
              /\ queue' = [queue EXCEPT ![w] = @ \ {c}]
              /\ \/ UNCHANGED proc
                 \/ proc' = [proc EXCEPT ![w] =
                               [pc |-> "load", key |-> c.key, token |-> c.token, err |-> "ok"]]
              /\ proc[w].pc = "idle"
        BY <2>2 DEF Begin, At
      <3>2. c \in Claims
        BY DEF TypeInv, RestOK
      <3>3. \A v \in Workers : queue'[v] \subseteq queue[v] /\ (v # w => queue'[v] = queue[v])
        BY <3>1 DEF TypeInv, RestOK
      <3>4. \A q \in Procs : q # w => proc'[q] = proc[q]
        BY <3>1 DEF TypeInv, ProcOK
      <3>5. Starts(w)
        <4> SUFFICES ASSUME proc'[w].pc \in Running PROVE TakesClaim(w)
          BY DEF Starts
        <4>1. proc'[w].key = c.key /\ proc'[w].token = c.token
          BY <3>1 DEF TypeInv, ProcOK, Running
        <4>2. [key |-> c.key, token |-> c.token] = c
          BY <3>2 DEF Claims
        <4> QED
          BY <4>1, <4>2 DEF TakesClaim
      <3> QED
        BY <3>3, <3>4, <3>5 DEF ProcFrame, Starts, Continues, QueueFrame, NewClaims
    <2>3. CASE Heartbeat(w)
      BY <2>3, MoveStarts DEF Heartbeat, Inserted, Running
    <2>4. CASE Finish(w)
      BY <2>4, MoveStarts DEF Finish, At, Running
    <2>5. CASE Catch(w)
      BY <2>5, MoveStarts DEF Catch
    <2>6. CASE WorkerCrash(w)
      <3>1. proc'[w].pc = "idle" /\ \A q \in Procs : q # w => proc'[q] = proc[q]
        BY <2>6, OthersStay, NowhereType DEF WorkerCrash, Rest, TypeInv, ProcOK
      <3>2. \A v \in Workers : queue'[v] \subseteq queue[v] /\ (v # w => queue'[v] = queue[v])
        BY <2>6 DEF WorkerCrash, TypeInv, RestOK
      <3> QED
        BY <3>1, <3>2 DEF ProcFrame, Starts, Continues, QueueFrame, NewClaims, Running
    <2>7. CASE Materialize(w)
      BY <2>7, MoveStarts
         DEF Materialize, Load, Replay, InsertProject, Rollback, Commit, At, InTx, Running
    <2> QED
      BY <1>2, <2>1, <2>2, <2>3, <2>4, <2>5, <2>6, <2>7 DEF WorkerStep
  <1> QED
    BY <1>0, <1>1, <1>2 DEF Next, vars, TimerEnds, Retry

-----------------------------------------------------------------------------
(* What the lease protocol guarantees.  The argument has three parts: no two *)
(* workers hold the same claim (TokenInv), a request that materialises its   *)
(* own job is alone on it (LoneInv), and a worker about to commit still owns *)
(* the job (LeaseInv), because its uncommitted project row keeps claims away. *)

-----------------------------------------------------------------------------
(* Tokens: a claim is held by one worker only.                             *)

OnJob(w) == IF proc[w].pc \in Running
            THEN {[key |-> proc[w].key, token |-> proc[w].token]} ELSE {}
Holds(w) == queue[w] \cup OnJob(w)

TokenInv ==
    /\ \A k \in Keys : job[k].token <= issued[k]
    /\ \A w \in Workers : \A c \in Holds(w) : 1 <= c.token /\ c.token <= issued[c.key]
    /\ \A v, w \in Workers : v # w => Holds(v) \cap Holds(w) = {}

Fresh(c) == c.token = issued[c.key] + 1 /\ issued'[c.key] = issued[c.key] + 1

LEMMA HoldsType == ASSUME TypeInv, NEW w \in Workers PROVE Holds(w) \subseteq Claims
  BY PlaceFacts DEF TypeInv, RestOK, Holds, OnJob, Claims, Place

LEMMA HoldsFrame ==
  ASSUME TypeInv, [Next]_vars, NEW w \in Workers, NEW c \in Holds(w)'
  PROVE  c \in Holds(w) \/ (Fresh(c) /\ ~(queue'[w] \subseteq queue[w]))
  <1>1. ProcFrame
    BY NextProcFrame
  <1>2. CASE c \in queue'[w]
    BY <1>1, <1>2 DEF ProcFrame, QueueFrame, Fresh, Holds
  <1>3. CASE c \notin queue'[w]
    <2>1. proc'[w].pc \in Running /\ c = [key |-> proc'[w].key, token |-> proc'[w].token]
      BY <1>3 DEF Holds, OnJob
    <2>2. Continues(w) \/ TakesClaim(w)
      BY <1>1, <2>1, PlaceFacts DEF ProcFrame, Starts, Creates
    <2> QED
      BY <2>1, <2>2 DEF Continues, TakesClaim, Holds, OnJob
  <1> QED
    BY <1>2, <1>3

LEMMA TokensGrow ==
  ASSUME TypeInv, [Next]_vars, NEW k \in Keys
  PROVE  issued'[k] \in Nat /\ issued[k] \in Nat /\ issued[k] <= issued'[k]
  <1>1. issued[k] \in Nat
    BY DEF TypeInv, RestOK
  <1> QED
    BY <1>1, NextJobFrame DEF JobFrame, ByClaim

LEMMA TokenStep == ASSUME TypeInv, TokenInv, [Next]_vars PROVE TokenInv'
  <1>1. ASSUME NEW k \in Keys PROVE job'[k].token <= issued'[k]
    <2>1. JobFrame(k)
      BY NextJobFrame
    <2>2. job[k] \in Row /\ issued[k] \in Nat /\ job[k].token \in Nat /\ job[k].token <= issued[k]
      BY DEF TypeInv, JobOK, RestOK, TokenInv, Row
    <2>3. CASE ByClaim(k)
      BY <2>2, <2>3, LeasedType DEF ByClaim
    <2>4. CASE ~ByClaim(k) /\ job'[k].token = job[k].token
      BY <2>1, <2>2, <2>4 DEF JobFrame
    <2>5. CASE ~ByClaim(k) /\ job'[k].token = NoToken
      BY <2>1, <2>2, <2>5 DEF JobFrame, NoToken
    <2>6. \A r \in Requests : NewJob(r).token = NoToken
      BY DEF NewJob, NoJob
    <2>7. \A e : AfterError(job[k], e).token = NoToken
      BY <2>2, AfterErrorType
    <2>8. ~ByClaim(k) => job'[k].token \in {NoToken, job[k].token}
      BY <2>1, <2>2, <2>6, <2>7
         DEF JobFrame, Untouched, ByTime, ByOwner, ByRequest, ByRetry, Row
    <2> QED
      BY <2>3, <2>4, <2>5, <2>8
  <1>2. ASSUME NEW w \in Workers, NEW c \in Holds(w)'
        PROVE  1 <= c.token /\ c.token <= issued'[c.key]
    <2>1. c \in Claims
      BY TypeStep, HoldsType DEF TypeInv, RestOK, Holds, OnJob, Claims, Place, ProcOK, Procs
    <2>2. issued[c.key] \in Nat /\ issued[c.key] <= issued'[c.key] /\ issued'[c.key] \in Nat
      BY <2>1, TokensGrow DEF Claims
    <2> QED
      BY <2>1, <2>2, HoldsFrame DEF Fresh, TokenInv, Claims
  <1>3. ASSUME NEW v \in Workers, NEW w \in Workers, v # w, NEW c \in Holds(v)' \cap Holds(w)'
        PROVE  FALSE
    <2>1. c \in Holds(v) \/ c \in Holds(w)
      BY <1>3, HoldsFrame, NextProcFrame DEF ProcFrame, NewClaims
    <2>2. c \in Claims /\ c.token <= issued[c.key]
      BY <2>1, HoldsType DEF TokenInv
    <2>3. ~Fresh(c)
      <3>1. c.token \in Nat /\ issued[c.key] \in Nat
        BY <2>2 DEF Claims, TypeInv, RestOK
      <3> QED
        BY <2>2, <3>1 DEF Fresh
    <2>4. c \in Holds(v) /\ c \in Holds(w)
      BY <2>3, HoldsFrame
    <2> QED
      BY <1>3, <2>4 DEF TokenInv
  <1>4. (\A v, w \in Workers : v # w => Holds(v) \cap Holds(w) = {})'
    BY <1>3
  <1>5. (\A w \in Workers : \A c \in Holds(w) : 1 <= c.token /\ c.token <= issued[c.key])'
    BY <1>2
  <1> QED
    BY <1>1, <1>4, <1>5 DEF TokenInv
-----------------------------------------------------------------------------
(* A request on its own job: nobody claims a PROCESSING row without lease.  *)

Alone(r) == LET row == job[KeyOf[r]] IN
    /\ row.token = NoToken
    /\ row.timer = "null"
    /\ row.body = BodyOf[r]
    /\ row.status = "PROCESSING" \/ (row.status = "COMPLETED" /\ proc[r].pc = "caught")

LoneInv ==
    /\ \A r \in Requests : proc[r].pc \in Running => Alone(r)
    /\ \A r \in Requests : proc[r].token = NoToken
    /\ \A r, s \in Requests :
          /\ proc[r].pc \in Running
          /\ proc[s].pc \in Running
          /\ KeyOf[r] = KeyOf[s]
          => r = s

LEMMA OwnerToken ==
  ASSUME TypeInv, TokenInv, NEW w \in Workers, proc[w].pc \in Running
  PROVE  proc[w].token # NoToken /\ proc[w].token <= issued[proc[w].key]
  <1>1. [key |-> proc[w].key, token |-> proc[w].token] \in Holds(w)
    BY DEF Holds, OnJob
  <1> QED
    BY <1>1 DEF TokenInv, NoToken

LEMMA LoneContinues ==
  ASSUME TypeInv, TokenInv, LoneInv, [Next]_vars,
         NEW r \in Requests, proc'[r].pc \in Running, Continues(r)
  PROVE  Alone(r)'
  <1> DEFINE k == KeyOf[r]
  <1>1. k \in Keys /\ job[k] \in Row /\ JobFrame(k)
    BY PlaceFacts, NextJobFrame DEF TypeInv, JobOK
  <1>2. Alone(r)
    BY DEF Continues, LoneInv
  <1>3. ~ByClaim(k) /\ ~ByTime(k) /\ ~ByRetry(k)
    BY <1>2 DEF Alone, ByClaim, Claimable, ByTime, ByRetry
  <1>4. ~ByOwner(k)
    <2> SUFFICES ASSUME NEW v \in Workers, proc[v].key = k, Owns(v),
                        proc[v].pc \in Inserted \cup {"finish", "caught"}
                 PROVE  FALSE
      BY DEF ByOwner
    <2> QED
      BY <1>2, OwnerToken DEF Alone, Owns, Inserted, Running
  <1>5. CASE Untouched(k)
    BY <1>2, <1>5 DEF Untouched, Alone, Continues
  <1>6. CASE ByRequest(k)
    <2>1. PICK s \in Requests :
            /\ KeyOf[s] = k
            /\ \/ proc[s].pc = "create" /\ job[k].status = "NONE"
               \/ /\ proc[s].pc = "finish"
                  /\ job'[k] = [job[k] EXCEPT !.status = "COMPLETED", !.linked = TRUE]
                  /\ proc'[s].pc \in {"done", "caught"}
               \/ proc[s].pc = "caught" /\ proc'[s].pc = "done"
      BY <1>6 DEF ByRequest
    <2>2. job[k].status # "NONE"
      BY <1>2 DEF Alone
    <2>3. s = r
      BY <2>1, <2>2 DEF LoneInv, Continues, Running
    <2>4. /\ proc'[r].pc = "caught"
          /\ job'[k] = [job[k] EXCEPT !.status = "COMPLETED", !.linked = TRUE]
      BY <2>1, <2>2, <2>3 DEF Running
    <2> QED
      BY <1>1, <1>2, <2>4 DEF Alone, Row
  <1> QED
    BY <1>1, <1>3, <1>4, <1>5, <1>6 DEF JobFrame

LEMMA LoneCreates ==
  ASSUME NEW r \in Requests, Creates(r)
  PROVE  Alone(r)'
  BY DEF Creates, Alone, NewJob, NoJob

LEMMA LoneStep == ASSUME TypeInv, TokenInv, LoneInv, [Next]_vars PROVE LoneInv'
  <1>1. ProcFrame
    BY NextProcFrame
  <1>2. \A r \in Requests : proc'[r].pc \in Running => Continues(r) \/ Creates(r)
    BY <1>1, PlaceFacts DEF ProcFrame, Starts, TakesClaim
  <1>3. \A r \in Requests : proc'[r].pc \in Running => Alone(r)'
    BY <1>2, LoneContinues, LoneCreates
  <1>4. \A r \in Requests : proc'[r].token = NoToken
    BY <1>1 DEF ProcFrame, LoneInv
  <1>5. ASSUME NEW r \in Requests, NEW s \in Requests,
               proc'[r].pc \in Running, proc'[s].pc \in Running, KeyOf[r] = KeyOf[s]
        PROVE  r = s
    <2>1. \A q \in Requests : Continues(q) => job[KeyOf[q]].status # "NONE"
      BY PlaceFacts DEF Continues, TypeInv, HasJob
    <2>2. \A q \in Requests : Creates(q) =>
            /\ job[KeyOf[q]].status = "NONE"
            /\ \A p \in Requests : p # q => proc'[p].pc = proc[p].pc
      BY PlaceFacts DEF Creates
    <2>3. \A q \in Requests : Creates(q) => proc[q].pc \notin Running
      BY DEF Creates, Running
    <2> QED
      BY <1>2, <1>5, <2>1, <2>2, <2>3 DEF Continues, LoneInv
  <1> QED
    BY <1>3, <1>4, <1>5 DEF LoneInv

-----------------------------------------------------------------------------
(* How a process reaches the insert, the commit and the finish.            *)

Flow(p) ==
    /\ proc'[p].pc = "finish" =>
          /\ proc'[p].key = proc[p].key
          /\ proc[p].pc = "finish" \/ project'[proc[p].key] > 0
    /\ proc'[p].pc = "insert" =>
          /\ proc'[p].key = proc[p].key
          /\ proc'[p].token = proc[p].token
          /\ \/ proc[p].pc = "insert"
             \/ proc[p].pc = "replay" /\ UNCHANGED project /\ project[proc[p].key] = 0
    /\ p \in Workers /\ proc'[p].pc = "commit" =>
          /\ proc'[p].key = proc[p].key
          /\ proc'[p].token = proc[p].token
          /\ \/ proc[p].pc = "commit"
             \/ proc[p].pc = "insert" /\ UNCHANGED job /\ ~HasTasks(proc[p].key)
             \/ proc[p].pc = "tasks" /\ Owns(p)'

LEMMA FlowOfOne ==
  ASSUME NEW p \in Procs, Flow(p), \A q \in Procs : q # p => proc'[q] = proc[q]
  PROVE  \A q \in Procs : Flow(q)
  BY DEF Flow

LEMMA MoveFlow ==
  ASSUME TypeInv, NEW p \in Procs,
         \/ \E pc \in PCs \ {"finish", "insert", "commit"} : Goto(p, pc)
         \/ \E e \in Errors : Raise(p, e)
         \/ p \in Workers /\ Rest(p)
         \/ p \in Requests /\ \E m : Answer(p, m)
         \/ p \in Requests /\ \E row : AnswerFrom(p, row)
  PROVE  \A q \in Procs : Flow(q)
  <1>1. \A q \in Procs : q # p => proc'[q] = proc[q]
    BY OthersStay
  <1>2. proc'[p].pc \notin {"finish", "insert", "commit"}
    <2>1. CASE p \in Workers /\ Rest(p)
      BY <2>1, NowhereType DEF Rest, TypeInv, ProcOK
    <2>2. CASE \E pc \in PCs \ {"finish", "insert", "commit"} : Goto(p, pc)
      BY <2>2 DEF Goto, TypeInv, ProcOK, Place
    <2>3. CASE \E e \in Errors : Raise(p, e)
      BY <2>3 DEF Raise, TypeInv, ProcOK, Place
    <2>4. CASE \E m : Answer(p, m)
      BY <2>4 DEF Answer, TypeInv, ProcOK, Place
    <2>5. CASE \E row : AnswerFrom(p, row)
      BY <2>5 DEF AnswerFrom, Answer, TypeInv, ProcOK, Place
    <2> QED
      BY <2>1, <2>2, <2>3, <2>4, <2>5
  <1> QED
    BY <1>1, <1>2, FlowOfOne DEF Flow

LEMMA GotoFacts ==
  ASSUME TypeInv, NEW p \in Procs, NEW pc, Goto(p, pc)
  PROVE  /\ proc'[p].pc = pc
         /\ proc'[p].key = proc[p].key
         /\ proc'[p].token = proc[p].token
         /\ \A q \in Procs : q # p => proc'[q] = proc[q]
  BY DEF Goto, TypeInv, ProcOK, Place

LEMMA MaterializeFlow ==
  ASSUME TypeInv, NEW p \in Procs, Materialize(p)
  PROVE  \A q \in Procs : Flow(q)
  <1> USE DEF PCs, Errors
  <1>1. CASE \E e \in Errors : Raise(p, e)
    BY <1>1, MoveFlow
  <1>2. CASE Load(p) /\ Goto(p, "finish") /\ project[proc[p].key] > 0
    BY <1>2, GotoFacts, FlowOfOne DEF Load, Flow
  <1>3. CASE Load(p) /\ Goto(p, "replay")
    BY <1>3, MoveFlow
  <1>4. CASE Replay(p)
    <2>1. CASE project[proc[p].key] > 0
      BY <1>4, <2>1, GotoFacts, FlowOfOne DEF Replay, Flow
    <2>2. CASE ~(project[proc[p].key] > 0)
      <3>1. project[proc[p].key] = 0
        BY <2>2, PlaceFacts DEF TypeInv, RestOK
      <3> QED
        BY <1>4, <2>2, <3>1, GotoFacts, FlowOfOne DEF Replay, At, Flow
    <2> QED
      BY <2>1, <2>2
  <1>5. CASE InsertProject(p) /\ Goto(p, "tasks")
    BY <1>5, MoveFlow
  <1>6. CASE InsertProject(p) /\ Goto(p, "commit") /\ (p \in Workers => ~HasTasks(proc[p].key))
    BY <1>6, GotoFacts, FlowOfOne DEF InsertProject, At, Flow
  <1>7. CASE Commit(p) /\ Goto(p, "finish")
    <2>1. project'[proc[p].key] > 0
      BY <1>7, PlaceFacts DEF Commit, TypeInv, RestOK
    <2> QED
      BY <1>7, <2>1, GotoFacts, FlowOfOne DEF Flow
  <1>8. Load(p) => \/ \E e \in Errors : Raise(p, e)
                   \/ Goto(p, "finish") /\ project[proc[p].key] > 0
                   \/ Goto(p, "replay")
    BY DEF Load
  <1>9. InsertProject(p) => \/ \E e \in Errors : Raise(p, e)
                            \/ Goto(p, "tasks")
                            \/ Goto(p, "commit") /\ (p \in Workers => ~HasTasks(proc[p].key))
    BY DEF InsertProject
  <1> QED
    BY <1>1, <1>2, <1>3, <1>4, <1>5, <1>6, <1>7, <1>8, <1>9 DEF Materialize, Rollback, Commit

LEMMA NextFlow == ASSUME TypeInv, [Next]_vars, NEW p \in Procs PROVE Flow(p)
  <1> USE PlaceFacts DEF PCs, Errors
  <1>0. CASE UNCHANGED proc
    BY <1>0 DEF Flow
  <1>1. ASSUME NEW r \in Requests, RequestStep(r) \/ RequestCrash(r) PROVE Flow(p)
    <2>1. CASE Submit(r) \/ Create(r) \/ SyncFinish(r) \/ SyncFail(r) \/ RequestCrash(r)
      BY <2>1, MoveFlow DEF Submit, Create, SyncFinish, SyncFail, RequestCrash
    <2> QED
      BY <1>1, <2>1, MaterializeFlow DEF RequestStep
  <1>2. ASSUME NEW w \in Workers, WorkerStep(w) \/ WorkerCrash(w) PROVE Flow(p)
    <2>1. CASE Begin(w)
      BY <2>1 DEF Begin, Flow, TypeInv, ProcOK
    <2>2. CASE Heartbeat(w)
      <3>1. CASE Raise(w, "permanent")
        BY <3>1, MoveFlow
      <3>2. CASE /\ Owns(w)
                 /\ job' = [job EXCEPT ![proc[w].key].timer = "running"]
                 /\ Goto(w, "commit")
        <4>1. Owns(w)'
          BY <3>2, GotoFacts DEF Owns, TypeInv, JobOK, Row
        <4>2. Flow(w)
          BY <2>2, <3>2, <4>1, GotoFacts DEF Heartbeat, Inserted, Flow
        <4> QED
          BY <3>2, <4>2, GotoFacts, FlowOfOne
      <3> QED
        BY <2>2, <3>1, <3>2 DEF Heartbeat
    <2>3. CASE Finish(w) \/ Catch(w) \/ WorkerCrash(w)
      BY <2>3, MoveFlow DEF Finish, Catch, WorkerCrash
    <2>4. CASE Claim(w)
      BY <1>0, <2>4 DEF Claim
    <2> QED
      BY <1>2, <2>1, <2>2, <2>3, <2>4, MaterializeFlow DEF WorkerStep
  <1> QED
    BY <1>0, <1>1, <1>2 DEF Next, vars, TimerEnds, Retry

-----------------------------------------------------------------------------
(* A process that reached the finish, and whoever it told, has a project.  *)

DoneInv ==
    /\ \A p \in Procs : proc[p].pc = "finish" => project[proc[p].key] > 0
    /\ \A k \in Keys : job[k].status = "COMPLETED" => project[k] > 0 /\ job[k].linked
    /\ \A r \in Requests : reply[r] = "sync" => project[KeyOf[r]] > 0

LEMMA ProjectsStay ==
  ASSUME TypeInv, [Next]_vars, NEW k \in Keys
  PROVE  project[k] \in Nat /\ project'[k] \in Nat /\ project[k] <= project'[k]
  <1>1. project \in [Keys -> Nat] /\ project[k] \in Nat
    BY DEF TypeInv, RestOK
  <1>2. UNCHANGED project \/ \E p \in Procs : Commit(p)
    BY NextFrame DEF InsertFrame, vars
  <1>3. CASE \E p \in Procs : Commit(p)
    <2>1. PICK p \in Procs : project' = [project EXCEPT ![proc[p].key] = @ + 1]
      BY <1>3 DEF Commit
    <2>2. \A n \in Nat : n + 1 \in Nat /\ n <= n + 1
      OBVIOUS
    <2> QED
      BY <1>1, <2>1, <2>2, PlaceFacts
  <1> QED
    BY <1>1, <1>2, <1>3

LEMMA BodyStays ==
  ASSUME TypeInv, [Next]_vars, NEW k \in Keys, job[k].status # "NONE"
  PROVE  job'[k].status # "NONE" /\ job'[k].body = job[k].body
  <1>1. JobFrame(k) /\ job[k] \in Row
    BY NextJobFrame DEF TypeInv, JobOK
  <1>2. CASE ByClaim(k)
    BY <1>2, LeasedType DEF ByClaim
  <1>3. CASE ByOwner(k)
    <2>1. PICK v \in Workers :
            /\ job[k].status = "PROCESSING"
            /\ \/ job'[k] = [job[k] EXCEPT !.timer = "running"]
               \/ job'[k] = [job[k] EXCEPT !.status = "COMPLETED", !.linked = TRUE,
                                           !.token = NoToken, !.timer = "null"]
               \/ job'[k] = AfterError(job[k], proc[v].err)
      BY <1>3 DEF ByOwner, Owns
    <2>2. /\ AfterError(job[k], proc[v].err).status # "NONE"
          /\ AfterError(job[k], proc[v].err).body = job[k].body
      BY <1>1, AfterErrorType
    <2> QED
      BY <1>1, <2>1, <2>2 DEF Row
  <1>4. CASE ByRequest(k)
    BY <1>1, <1>4 DEF ByRequest, Row
  <1>5. CASE Untouched(k) \/ ByTime(k) \/ ByRetry(k)
    BY <1>1, <1>5 DEF Untouched, ByTime, ByRetry, Row
  <1> QED
    BY <1>1, <1>2, <1>3, <1>4, <1>5 DEF JobFrame

Accepted(r) == job[KeyOf[r]].status # "NONE" /\ job[KeyOf[r]].body = BodyOf[r]
Refused(r) == job[KeyOf[r]].status # "NONE" /\ job[KeyOf[r]].body # BodyOf[r]

ReplyFlow(r) ==
    \/ reply'[r] = reply[r]
    \/ reply'[r] \in {"notFound", "error"}
    \/ reply'[r] = "sync" /\ proc[r].pc = "finish"
    \/ reply'[r] \in {"existing", "async"} /\ Accepted(r)'
    \/ reply'[r] = "conflict" /\ Refused(r)'

LEMMA AnswerFlow ==
  ASSUME TypeInv, NEW r \in Requests, NEW m, Answer(r, m)
  PROVE  reply'[r] = m /\ \A q \in Requests : q # r => reply'[q] = reply[q]
  BY DEF Answer, TypeInv, RestOK

LEMMA NextReplyFlow == ASSUME TypeInv, [Next]_vars, NEW r \in Requests PROVE ReplyFlow(r)
  <1>0. CASE UNCHANGED reply
    BY <1>0 DEF ReplyFlow
  <1>1. ASSUME NEW q \in Requests, RequestStep(q) PROVE ReplyFlow(r)
    <2> USE PlaceFacts
    <2>1. CASE Submit(q)
      <3>1. CASE Answer(q, "notFound")
        BY <3>1, AnswerFlow DEF ReplyFlow
      <3>2. CASE /\ job[KeyOf[q]].status # "NONE"
                 /\ AnswerFrom(q, job[KeyOf[q]])
                 /\ UNCHANGED job
        BY <3>2, AnswerFlow DEF AnswerFrom, ReplyFlow, Accepted, Refused
      <3> QED
        BY <1>0, <2>1, <3>1, <3>2 DEF Submit
    <2>2. CASE Create(q)
      <3>1. CASE /\ job[KeyOf[q]].status # "NONE"
                 /\ AnswerFrom(q, job[KeyOf[q]])
                 /\ UNCHANGED job
        BY <3>1, AnswerFlow DEF AnswerFrom, ReplyFlow, Accepted, Refused
      <3>2. CASE Answer(q, "error")
        BY <3>2, AnswerFlow DEF ReplyFlow
      <3>3. CASE /\ job' = [job EXCEPT ![KeyOf[q]] = NewJob(q)]
                 /\ Answer(q, "async") \/ AnswerFrom(q, NewJob(q))
        <4>1. NewJob(q).body = BodyOf[q] /\ NewJob(q).status # "NONE"
          BY DEF NewJob, NoJob
        <4>2. Accepted(q)'
          BY <3>3, <4>1 DEF Accepted, TypeInv, JobOK
        <4>3. Answer(q, "async") \/ Answer(q, "existing")
          BY <3>3, <4>1 DEF AnswerFrom
        <4> QED
          BY <4>2, <4>3, AnswerFlow DEF ReplyFlow
      <3> QED
        BY <1>0, <2>2, <3>1, <3>2, <3>3 DEF Create
    <2>3. CASE SyncFinish(q)
      BY <1>0, <2>3, AnswerFlow DEF SyncFinish, At, ReplyFlow
    <2>4. CASE SyncFail(q)
      BY <2>4, AnswerFlow DEF SyncFail, ReplyFlow
    <2>5. CASE Materialize(q)
      BY <1>0, <2>5 DEF Materialize, Load, Replay, InsertProject, Rollback, Commit
    <2> QED
      BY <1>1, <2>1, <2>2, <2>3, <2>4, <2>5 DEF RequestStep
  <1>2. CASE \E w \in Workers : WorkerStep(w) \/ WorkerCrash(w)
    BY <1>0, <1>2 DEF WorkerStep, WorkerCrash, Claim, Begin, Heartbeat, Finish, Catch,
                      Materialize, Load, Replay, InsertProject, Rollback, Commit
  <1>3. CASE \E k \in Keys : TimerEnds(k) \/ Retry(k)
    BY <1>0, <1>3 DEF TimerEnds, Retry
  <1>4. CASE \E q \in Requests : RequestCrash(q)
    BY <1>0, <1>4 DEF RequestCrash
  <1> QED
    BY <1>0, <1>1, <1>2, <1>3, <1>4 DEF Next, vars

LEMMA DoneStep == ASSUME TypeInv, DoneInv, [Next]_vars PROVE DoneInv'
  <1>1. ASSUME NEW p \in Procs, proc'[p].pc = "finish" PROVE project'[proc'[p].key] > 0
    BY <1>1, NextFlow, ProjectsStay, PlaceFacts DEF Flow, DoneInv
  <1>2. ASSUME NEW k \in Keys, job'[k].status = "COMPLETED"
        PROVE  project'[k] > 0 /\ job'[k].linked
    <2>1. JobFrame(k) /\ job[k] \in Row
      BY NextJobFrame DEF TypeInv, JobOK
    <2>2. \/ job[k].status = "COMPLETED" /\ job'[k].linked = job[k].linked
          \/ project[k] > 0 /\ job'[k].linked
      <3>1. CASE ByClaim(k)
        BY <1>2, <3>1, LeasedType DEF ByClaim
      <3>2. CASE ByOwner(k)
        <4>1. PICK v \in Workers :
                /\ proc[v].key = k
                /\ job[k].status = "PROCESSING"
                /\ \/ job'[k] = [job[k] EXCEPT !.timer = "running"]
                   \/ /\ proc[v].pc = "finish"
                      /\ job'[k] = [job[k] EXCEPT !.status = "COMPLETED", !.linked = TRUE,
                                                  !.token = NoToken, !.timer = "null"]
                   \/ job'[k] = AfterError(job[k], proc[v].err)
          BY <3>2 DEF ByOwner, Owns
        <4>2. AfterError(job[k], proc[v].err).status # "COMPLETED"
          BY <2>1, AfterErrorType
        <4> QED
          BY <1>2, <2>1, <4>1, <4>2, PlaceFacts DEF DoneInv, Row
      <3>3. CASE ByRequest(k)
        <4>1. PICK r \in Requests :
                /\ KeyOf[r] = k
                /\ \/ job'[k] = NewJob(r)
                   \/ /\ proc[r].pc = "finish"
                      /\ job'[k] = [job[k] EXCEPT !.status = "COMPLETED", !.linked = TRUE]
                   \/ job'[k] = [job[k] EXCEPT !.status = "FAILED"]
          BY <3>3 DEF ByRequest
        <4>2. NewJob(r).status # "COMPLETED"
          BY DEF NewJob, NoJob
        <4> QED
          BY <1>2, <2>1, <4>1, <4>2, PlaceFacts DEF DoneInv, Row
      <3>4. CASE Untouched(k) \/ ByTime(k) \/ ByRetry(k)
        BY <1>2, <2>1, <3>4 DEF Untouched, ByTime, ByRetry, Row
      <3> QED
        BY <2>1, <3>1, <3>2, <3>3, <3>4 DEF JobFrame
    <2> QED
      BY <2>2, ProjectsStay DEF DoneInv
  <1>3. ASSUME NEW r \in Requests, reply'[r] = "sync" PROVE project'[KeyOf[r]] > 0
    <2>1. reply[r] = "sync" \/ proc[r].pc = "finish"
      BY <1>3, NextReplyFlow DEF ReplyFlow
    <2> QED
      BY <2>1, ProjectsStay, PlaceFacts DEF DoneInv
  <1> QED
    BY <1>1, <1>2, <1>3 DEF DoneInv

AgreeInv == \A r \in Requests :
    /\ reply[r] \in {"existing", "async", "sync"} => Accepted(r)
    /\ reply[r] = "conflict" => Refused(r)

LEMMA AgreeStep == ASSUME TypeInv, LoneInv, AgreeInv, [Next]_vars PROVE AgreeInv'
  <1> SUFFICES ASSUME NEW r \in Requests
               PROVE  /\ reply'[r] \in {"existing", "async", "sync"} => Accepted(r)'
                      /\ reply'[r] = "conflict" => Refused(r)'
    BY DEF AgreeInv
  <1>1. Accepted(r) => Accepted(r)'
    BY BodyStays, PlaceFacts DEF Accepted
  <1>2. Refused(r) => Refused(r)'
    BY BodyStays, PlaceFacts DEF Refused
  <1>3. proc[r].pc = "finish" => Accepted(r)
    BY DEF LoneInv, Alone, Accepted, Running
  <1> QED
    BY <1>1, <1>2, <1>3, NextReplyFlow DEF ReplyFlow, AgreeInv

-----------------------------------------------------------------------------
(* The lease: whoever commits owns the job, and it stays so.               *)

LEMMA OnlyOwner ==
  ASSUME TypeInv, TokenInv, NEW v \in Workers, NEW w \in Workers,
         proc[v].pc \in Running, proc[w].pc \in Running,
         proc[v].key = proc[w].key, Owns(v), Owns(w)
  PROVE  v = w
  <1>1. proc[v].token = proc[w].token
    BY DEF Owns
  <1>2. [key |-> proc[v].key, token |-> proc[v].token] \in Holds(v) \cap Holds(w)
    BY <1>1 DEF Holds, OnJob
  <1> QED
    BY <1>2 DEF TokenInv

LEMMA RequestsStayOut ==
  ASSUME TypeInv, TokenInv, LoneInv, NEW w \in Workers, proc[w].pc \in Running, Owns(w)
  PROVE  ~ByRequest(proc[w].key)
  <1> SUFFICES ASSUME NEW r \in Requests, KeyOf[r] = proc[w].key,
                      \/ job[KeyOf[r]].status = "NONE"
                      \/ proc[r].pc \in {"finish", "caught"}
               PROVE  FALSE
    BY DEF ByRequest
  <1> QED
    BY OwnerToken DEF Owns, LoneInv, Alone, Running

LEMMA OwnsStays ==
  ASSUME TypeInv, TokenInv, LoneInv, [Next]_vars,
         NEW w \in Workers, proc[w].pc = "commit", Owns(w),
         proc'[w].key = proc[w].key, proc'[w].token = proc[w].token
  PROVE  Owns(w)'
  <1> DEFINE k == proc[w].key
  <1>1. k \in Keys /\ job[k] \in Row /\ JobFrame(k) /\ proc[w].pc \in Running
    BY PlaceFacts, NextJobFrame DEF TypeInv, JobOK, Running
  <1>2. ~ByClaim(k)
    BY PlaceFacts DEF ByClaim, Claimable, Inserting, Inserted
  <1>3. ~ByRequest(k) /\ ~ByRetry(k)
    BY <1>1, RequestsStayOut DEF Owns, ByRetry
  <1>4. ByOwner(k) => job'[k] = [job[k] EXCEPT !.timer = "running"]
    <2> SUFFICES ASSUME NEW v \in Workers, proc[v].key = k, Owns(v),
                        proc[v].pc \in {"finish", "caught"}
                 PROVE  FALSE
      BY DEF ByOwner
    <2> QED
      BY <1>1, OnlyOwner DEF Running
  <1> QED
    BY <1>1, <1>2, <1>3, <1>4 DEF JobFrame, Untouched, ByTime, Owns, Row

LEMMA OwnsBack ==
  ASSUME TypeInv, TokenInv, LoneInv, [Next]_vars,
         NEW p \in Procs, proc[p].pc = "insert", Owns(p)',
         proc'[p].key = proc[p].key, proc'[p].token = proc[p].token
  PROVE  Owns(p)
  <1> DEFINE k == proc[p].key
  <1>1. k \in Keys /\ job[k] \in Row /\ JobFrame(k) /\ proc[p].pc \in Running
    BY PlaceFacts, NextJobFrame DEF TypeInv, JobOK, Running
  <1>2. CASE p \in Requests
    BY <1>1, <1>2, PlaceFacts DEF LoneInv, Alone, Owns
  <1>3. CASE p \in Workers
    <2>1. proc[p].token # NoToken /\ proc[p].token <= issued[k]
      BY <1>1, <1>3, OwnerToken
    <2>2. job'[k].status = "PROCESSING" /\ job'[k].token = proc[p].token
      BY DEF Owns
    <2>3. ~ByClaim(k)
      <3>1. issued[k] \in Nat /\ proc[p].token \in Nat
        BY <1>1, PlaceFacts DEF TypeInv, RestOK, Place
      <3> QED
        BY <1>1, <2>1, <2>2, <3>1, LeasedType DEF ByClaim
    <2>4. ByOwner(k) => job'[k] = [job[k] EXCEPT !.timer = "running"]
      BY <1>1, <2>2, AfterErrorType DEF ByOwner, Row
    <2>5. ~ByRequest(k)
      <3>1. \A r \in Requests : NewJob(r).token = NoToken
        BY DEF NewJob, NoJob
      <3> QED
        BY <1>1, <2>1, <2>2, <3>1 DEF ByRequest, Row
    <2>6. ~ByRetry(k)
      BY <1>1, <2>2 DEF ByRetry, Row
    <2> QED
      BY <1>1, <2>2, <2>3, <2>4, <2>5, <2>6 DEF JobFrame, Untouched, ByTime, Owns, Row
  <1> QED
    BY <1>2, <1>3 DEF Procs

LEMMA SameTasks ==
  ASSUME TypeInv, [Next]_vars, NEW p \in Procs, proc[p].pc \in Running,
         proc'[p].key = proc[p].key
  PROVE  HasTasks(proc[p].key)' <=> HasTasks(proc[p].key)
  <1>1. job'[proc[p].key].body = job[proc[p].key].body
    BY BodyStays, PlaceFacts DEF TypeInv, HasJob
  <1> QED
    BY <1>1 DEF HasTasks

LEMMA CommitterStep ==
  ASSUME TypeInv, TokenInv, LoneInv, CommitterOwnsLease, [Next]_vars
  PROVE  CommitterOwnsLease'
  <1> SUFFICES ASSUME NEW w \in Workers, proc'[w].pc = "commit", HasTasks(proc[w].key)'
               PROVE  Owns(w)'
    BY DEF CommitterOwnsLease, At
  <1>1. Flow(w) /\ w \in Procs
    BY NextFlow, PlaceFacts
  <1>2. HasTasks(proc[w].key)
    BY <1>1, SameTasks DEF Flow, HasTasks, Running
  <1> QED
    BY <1>1, <1>2, OwnsStays DEF Flow, CommitterOwnsLease, At

LEMMA ReplayStep ==
  ASSUME TypeInv, InsertInv, TokenInv, LoneInv, CommitterOwnsLease, ReplayNeverCollides,
         [Next]_vars
  PROVE  ReplayNeverCollides'
  <1> SUFFICES ASSUME NEW p \in Procs, proc'[p].pc = "insert", Owns(p)',
                      HasTasks(proc[p].key)'
               PROVE  project'[proc'[p].key] = 0
    BY DEF ReplayNeverCollides, At
  <1> DEFINE k == proc[p].key
  <1>1. /\ proc'[p].key = k
        /\ proc'[p].token = proc[p].token
        /\ proc[p].pc = "insert" \/ (UNCHANGED project /\ project[k] = 0)
    BY NextFlow DEF Flow
  <1>2. CASE UNCHANGED project /\ project[k] = 0
    BY <1>1, <1>2
  <1>3. CASE proc[p].pc = "insert"
    <2>1. proc[p].pc \in Running /\ k \in Keys
      BY <1>3, PlaceFacts DEF Running
    <2>2. Owns(p)
      BY <1>1, <1>3, OwnsBack
    <2>3. HasTasks(k)
      BY <1>1, <2>1, SameTasks DEF HasTasks
    <2>4. project[k] = 0
      BY <1>3, <2>2, <2>3 DEF ReplayNeverCollides, At
    <2>5. ASSUME NEW q \in Procs, Commit(q), proc[q].key = k PROVE FALSE
      <3>1. proc[q].pc = "commit" /\ proc[q].pc \in Running /\ p # q
        BY <1>3, <2>5 DEF Commit, At, Running
      <3>2. CASE q \in Workers
        <4>1. Owns(q) /\ proc[q].token # NoToken
          BY <2>3, <2>5, <3>1, <3>2, OwnerToken DEF CommitterOwnsLease, At
        <4>2. p \notin Workers
          BY <2>1, <2>2, <2>5, <3>1, <3>2, <4>1, OnlyOwner
        <4>3. p \in Requests
          BY <4>2 DEF Procs
        <4> QED
          BY <2>2, <2>5, <4>1, <4>3 DEF Owns, LoneInv
      <3>3. CASE q \in Requests
        <4>1. job[k].token = NoToken
          BY <2>5, <3>1, <3>3, PlaceFacts DEF LoneInv, Alone
        <4>2. p \notin Workers
          BY <2>1, <2>2, <4>1, OwnerToken DEF Owns
        <4>3. p \in Requests
          BY <4>2 DEF Procs
        <4> QED
          BY <2>1, <2>5, <3>1, <3>3, <4>3, PlaceFacts DEF LoneInv
      <3> QED
        BY <3>2, <3>3 DEF Procs
    <2>6. UNCHANGED project \/ \E q \in Procs : Commit(q)
      BY NextFrame DEF InsertFrame, vars
    <2>7. project \in [Keys -> Nat]
      BY DEF TypeInv, RestOK
    <2> QED
      BY <1>1, <2>1, <2>4, <2>5, <2>6, <2>7, PlaceFacts DEF Commit
  <1> QED
    BY <1>1, <1>2, <1>3

-----------------------------------------------------------------------------
(* The inductive invariant and what follows from it.                       *)

LeaseInv == /\ TypeInv
            /\ InsertInv
            /\ TokenInv
            /\ LoneInv
            /\ DoneInv
            /\ AgreeInv
            /\ CommitterOwnsLease
            /\ ReplayNeverCollides

LEMMA LeaseInit == Init => LeaseInv
  <1> SUFFICES ASSUME Init PROVE LeaseInv
    OBVIOUS
  <1>1. TypeInv /\ InsertInv
    BY InitType, InsertInit
  <1>2. /\ \A k \in Keys : job[k] = NoJob /\ issued[k] = 0
        /\ \A w \in Workers : queue[w] = {}
        /\ \A r \in Requests : reply[r] = "none"
    BY Zenon DEF Init
  <1>3. \A p \in Procs : proc[p].pc = "idle" /\ proc[p].token = NoToken
    <2> TAKE p \in Procs
    <2>1. proc[p] = Nowhere \/ proc[p] = [Nowhere EXCEPT !.key = KeyOf[p]]
      BY Zenon DEF Init
    <2>2. Nowhere.pc = "idle" /\ Nowhere.token = NoToken
      BY DEF Nowhere
    <2> QED
      BY <2>1, <2>2, NowhereType DEF Place
  <1>4. TokenInv
    <2>1. \A w \in Workers : Holds(w) = {}
      BY <1>1, <1>2, <1>3, PlaceFacts DEF Holds, OnJob, Running
    <2> QED
      BY <1>2, <2>1 DEF TokenInv, NoJob, NoToken
  <1>5. LoneInv
    BY <1>1, <1>3, PlaceFacts DEF LoneInv, Running
  <1>6. DoneInv /\ AgreeInv
    BY <1>1, <1>2, <1>3 DEF DoneInv, AgreeInv, NoJob
  <1>7. CommitterOwnsLease /\ ReplayNeverCollides
    BY <1>1, <1>3, PlaceFacts DEF CommitterOwnsLease, ReplayNeverCollides, At
  <1> QED
    BY <1>1, <1>4, <1>5, <1>6, <1>7 DEF LeaseInv

LEMMA LeaseStep == ASSUME LeaseInv, [Next]_vars PROVE LeaseInv'
  BY TypeStep, InsertStep, TokenStep, LoneStep, DoneStep, AgreeStep, CommitterStep, ReplayStep
     DEF LeaseInv

LEMMA LeaseAlways == Spec => []LeaseInv
  <1>1. LeaseInv /\ [Next]_vars => LeaseInv'
    BY LeaseStep
  <1> QED
    BY <1>1, LeaseInit, PTL DEF Spec

\* Between its last heartbeat and its commit a worker cannot lose its job: the
\* commit of materializeCloneJob needs no lease check of its own.
THEOREM CommitterKeepsLease == Spec => []CommitterOwnsLease
  <1>1. LeaseInv => CommitterOwnsLease
    BY DEF LeaseInv
  <1> QED
    BY <1>1, LeaseAlways, PTL

\* The replay check at the start of the transaction suffices: the owner of a
\* job never runs into the unique index on sourceCloneJobId.
THEOREM ReplayIsSafe == Spec => []ReplayNeverCollides
  <1>1. LeaseInv => ReplayNeverCollides
    BY DEF LeaseInv
  <1> QED
    BY <1>1, LeaseAlways, PTL

\* A job row that says COMPLETED, and a request answered with a project, have
\* exactly one.
THEOREM CompletedIsReal == Spec => []CompletedHasProject
  <1>1. LeaseInv => CompletedHasProject
    <2>1. ASSUME LeaseInv, NEW k \in Keys, project[k] > 0 PROVE project[k] = 1
      BY <2>1 DEF LeaseInv, InsertInv, AtMostOneProject, TypeInv, RestOK
    <2> QED
      BY <2>1, PlaceFacts DEF LeaseInv, DoneInv, CompletedHasProject
  <1> QED
    BY <1>1, LeaseAlways, PTL

\* One project for each job, and one for each that was told completed.
THEOREM ProjectsAndJobsAgree == Spec => []JobsHaveTheirProject
  <1>1. AtMostOneProject /\ CompletedHasProject => JobsHaveTheirProject
    BY DEF JobsHaveTheirProject
  <1> QED
    BY <1>1, OneProject, CompletedIsReal, PTL

\* Requests accepted under one idempotency key asked for the same thing.
THEOREM AcceptedAgree == Spec => []AnswersAgree
  <1>1. LeaseInv => AnswersAgree
    BY DEF LeaseInv, AgreeInv, Accepted, Refused, AnswersAgree
  <1> QED
    BY <1>1, LeaseAlways, PTL

\* No step takes a job out of COMPLETED but the handler that lost the
\* acknowledgement of its own completing update.
THEOREM CompletedStays == Spec => CompletedIsFinal
  <1>1. ASSUME LeaseInv, [Next]_vars, NEW k \in Keys, job[k].status = "COMPLETED",
               ~\E r \in Requests : KeyOf[r] = k /\ At(r, "caught")
        PROVE  job'[k].status = "COMPLETED"
    <2>1. JobFrame(k) /\ job[k] \in Row
      BY <1>1, NextJobFrame DEF LeaseInv, TypeInv, JobOK
    <2>2. ~ByClaim(k) /\ ~ByOwner(k) /\ ~ByRetry(k)
      BY <1>1 DEF ByClaim, Claimable, ByOwner, Owns, ByRetry
    <2>3. ByRequest(k) => job'[k] = [job[k] EXCEPT !.status = "COMPLETED", !.linked = TRUE]
      BY <1>1 DEF ByRequest, At
    <2> QED
      BY <1>1, <2>1, <2>2, <2>3 DEF JobFrame, Untouched, ByTime, Row
  <1>2. LeaseInv /\ [Next]_vars =>
          [\A k \in Keys :
              /\ job[k].status = "COMPLETED"
              /\ ~\E r \in Requests : KeyOf[r] = k /\ At(r, "caught")
              => job'[k].status = "COMPLETED"]_vars
    BY <1>1
  <1> QED
    BY <1>2, LeaseAlways, PTL DEF Spec, CompletedIsFinal

\* Once its lease was taken over, a worker writes nothing to the job row.
THEOREM StaleIsHarmless == Spec => StaleWorkerIsHarmless
  <1>1. ASSUME LeaseInv, Next, NEW w \in Workers, ~At(w, "idle"), ~Owns(w), proc'[w] # proc[w]
        PROVE  UNCHANGED job
    <2>1. TypeInv
      BY <1>1 DEF LeaseInv
    <2>2. ASSUME NEW p \in Procs, p # w, \A q \in Procs : q # p => proc'[q] = proc[q]
          PROVE  FALSE
      BY <1>1, <2>1, <2>2, PlaceFacts
    <2>3. ASSUME NEW r \in Requests, RequestStep(r) \/ RequestCrash(r) PROVE UNCHANGED job
      <3>1. CASE Submit(r) \/ Materialize(r) \/ RequestCrash(r)
        BY <3>1 DEF Submit, Materialize, Load, Replay, InsertProject, Rollback, Commit,
                    RequestCrash
      <3>2. CASE Create(r) \/ SyncFinish(r) \/ SyncFail(r)
        <4>1. UNCHANGED job \/ \A q \in Procs : q # r => proc'[q] = proc[q]
          BY <2>1, <3>2, OthersStay, PlaceFacts DEF Create, SyncFinish, SyncFail
        <4> QED
          BY <2>1, <2>2, <4>1, PlaceFacts
      <3> QED
        BY <2>3, <3>1, <3>2 DEF RequestStep
    <2>4. ASSUME NEW v \in Workers, WorkerStep(v) \/ WorkerCrash(v) PROVE UNCHANGED job
      <3>1. CASE Claim(v) \/ Begin(v) \/ Materialize(v) \/ WorkerCrash(v)
        BY <1>1, <3>1 DEF Claim, Begin, Materialize, Load, Replay, InsertProject, Rollback,
                          Commit, WorkerCrash
      <3>2. CASE Heartbeat(v) \/ Finish(v) \/ Catch(v)
        <4>1. \A q \in Procs : q # v => proc'[q] = proc[q]
          BY <2>1, <3>2, OthersStay, PlaceFacts DEF Heartbeat, Finish, Catch
        <4>2. v = w
          BY <2>1, <2>2, <4>1, PlaceFacts
        <4> QED
          BY <1>1, <3>2, <4>2 DEF Heartbeat, Finish, Catch
      <3> QED
        BY <2>4, <3>1, <3>2 DEF WorkerStep
    <2>5. ASSUME NEW k \in Keys, TimerEnds(k) \/ Retry(k) PROVE UNCHANGED job
      BY <1>1, <2>5 DEF TimerEnds, Retry
    <2> QED
      BY <1>1, <2>3, <2>4, <2>5 DEF Next
  <1>2. LeaseInv /\ [Next]_vars =>
          [\A w \in Workers :
              ~At(w, "idle") /\ ~Owns(w) /\ proc'[w] # proc[w] => UNCHANGED job]_vars
    BY <1>1
  <1> QED
    BY <1>2, LeaseAlways, PTL DEF Spec, StaleWorkerIsHarmless

-----------------------------------------------------------------------------
(* Refinement: jobs, leases and workers implement CloneOnce.               *)

OnceStep == [Once!OnceNext]_(Once!onceVars)

LEMMA PhaseType ==
  ASSUME NEW row \in Row
  PROVE  /\ row.status \in Open => Phase(row.status) = "open"
         /\ row.status \in {"FAILED", "DEAD"} => Phase(row.status) = "failed"
         /\ row.status = "COMPLETED" => Phase(row.status) = "done"
         /\ row.status = "NONE" => Phase(row.status) = "absent"
  BY DEF Row, Statuses, Open, Phase

\* What one key's row may do without a project being made.
PhaseMoves(k) ==
    \/ Phase(job'[k].status) = Phase(job[k].status)
    \/ Phase(job[k].status) = "absent" /\ Phase(job'[k].status) = "open"
    \/ Phase(job[k].status) = "open" /\ Phase(job'[k].status) = "done" /\ project[k] = 1
    \/ Phase(job[k].status) \in {"open", "done"} /\ Phase(job'[k].status) = "failed"
    \/ Phase(job[k].status) = "failed" /\ Phase(job'[k].status) = "open"

LEMMA OneKeyMoves ==
  ASSUME NEW k \in Keys, UNCHANGED project, PhaseMoves(k),
         \A j \in Keys : j # k => job'[j] = job[j]
  PROVE  OnceStep
  <1>1. phaseBar' = [phaseBar EXCEPT ![k] = Phase(job'[k].status)]
    BY DEF phaseBar
  <1>2. phaseBar[k] = Phase(job[k].status)
    BY DEF phaseBar
  <1>3. CASE Phase(job'[k].status) = Phase(job[k].status)
    <2>1. UNCHANGED phaseBar
      BY <1>3 DEF phaseBar
    <2> QED
      BY <2>1 DEF OnceStep, Once!onceVars
  <1>4. CASE Phase(job[k].status) = "absent" /\ Phase(job'[k].status) = "open"
    <2>1. Once!Accept(k)
      BY <1>1, <1>2, <1>4 DEF Once!Accept
    <2> QED
      BY <2>1 DEF OnceStep, Once!OnceNext
  <1>5. CASE Phase(job[k].status) = "open" /\ Phase(job'[k].status) = "done" /\ project[k] = 1
    <2>1. Once!Complete(k)
      BY <1>1, <1>2, <1>5 DEF Once!Complete
    <2> QED
      BY <2>1 DEF OnceStep, Once!OnceNext
  <1>6. CASE Phase(job[k].status) \in {"open", "done"} /\ Phase(job'[k].status) = "failed"
    <2>1. Once!Fail(k)
      BY <1>1, <1>2, <1>6 DEF Once!Fail
    <2> QED
      BY <2>1 DEF OnceStep, Once!OnceNext
  <1>7. CASE Phase(job[k].status) = "failed" /\ Phase(job'[k].status) = "open"
    <2>1. Once!Reopen(k)
      BY <1>1, <1>2, <1>7 DEF Once!Reopen
    <2> QED
      BY <2>1 DEF OnceStep, Once!OnceNext
  <1> QED
    BY <1>3, <1>4, <1>5, <1>6, <1>7 DEF PhaseMoves

LEMMA NothingMoves == ASSUME UNCHANGED <<job, project>> PROVE OnceStep
  BY DEF OnceStep, Once!onceVars, phaseBar

LEMMA CommitRefines ==
  ASSUME LeaseInv, NEW p \in Procs, Commit(p), \A b \in Bodies : Tasks[b] # "none"
  PROVE  OnceStep
  <1> DEFINE k == proc[p].key
  <1>1. /\ TypeInv /\ k \in Keys /\ proc[p].pc = "commit"
        /\ proc[p].pc \in Inserted /\ proc[p].pc \in Running
    BY PlaceFacts DEF LeaseInv, Commit, At, Inserted, Running
  <1>2. project[k] = 0
    BY <1>1 DEF LeaseInv, InsertInv
  <1>3. job[k].status = "PROCESSING"
    <2>1. CASE p \in Workers
      <3>1. HasTasks(k)
        BY <1>1 DEF TypeInv, HasJob, JobOK, HasTasks
      <3> QED
        BY <1>1, <2>1, <3>1 DEF LeaseInv, CommitterOwnsLease, At, Owns
    <2>2. CASE p \in Requests
      BY <1>1, <2>2, PlaceFacts DEF LeaseInv, LoneInv, Alone
    <2> QED
      BY <2>1, <2>2 DEF Procs
  <1>4. phaseBar[k] = "open" /\ UNCHANGED phaseBar
    BY <1>1, <1>3 DEF Commit, phaseBar, Phase, Open
  <1>5. project' = [project EXCEPT ![k] = 1]
    BY <1>1, <1>2 DEF Commit, TypeInv, RestOK
  <1>6. Once!Materialise(k)
    BY <1>2, <1>4, <1>5 DEF Once!Materialise
  <1> QED
    BY <1>1, <1>6 DEF OnceStep, Once!OnceNext

LEMMA RequestRefines ==
  ASSUME LeaseInv, NEW r \in Requests, Create(r) \/ SyncFinish(r) \/ SyncFail(r)
  PROVE  OnceStep
  <1> DEFINE k == KeyOf[r]
  <1>1. TypeInv /\ k \in Keys /\ job[k] \in Row /\ proc[r].key = k /\ r \in Procs
    BY PlaceFacts DEF LeaseInv, TypeInv, JobOK
  <1>2. UNCHANGED project
    BY DEF Create, SyncFinish, SyncFail
  <1>3. CASE UNCHANGED job
    BY <1>2, <1>3, NothingMoves
  <1>4. CASE Create(r) /\ job[k].status = "NONE" /\ job' = [job EXCEPT ![k] = NewJob(r)]
    <2>1. NewJob(r).status \in {"PENDING", "PROCESSING"}
      BY DEF NewJob, NoJob
    <2>2. PhaseMoves(k)
      BY <1>1, <1>4, <2>1 DEF PhaseMoves, Phase, Open, TypeInv, JobOK
    <2> QED
      BY <1>1, <1>2, <1>4, <2>2, OneKeyMoves DEF TypeInv, JobOK
  <1>5. CASE SyncFinish(r) /\ job' = [job EXCEPT ![k].status = "COMPLETED", ![k].linked = TRUE]
    <2>1. job[k].status = "PROCESSING" /\ project[k] = 1
      <3>1. proc[r].pc = "finish" /\ proc[r].pc \in Running
        BY <1>5 DEF SyncFinish, At, Running
      <3>2. project[k] > 0
        BY <1>1, <3>1 DEF LeaseInv, DoneInv
      <3> QED
        BY <1>1, <3>1, <3>2 DEF LeaseInv, LoneInv, Alone, InsertInv, AtMostOneProject, TypeInv,
                                RestOK
    <2>2. job'[k].status = "COMPLETED" /\ \A j \in Keys : j # k => job'[j] = job[j]
      BY <1>1, <1>5 DEF TypeInv, JobOK, Row
    <2>3. PhaseMoves(k)
      BY <2>1, <2>2 DEF PhaseMoves, Phase, Open
    <2> QED
      BY <1>1, <1>2, <2>2, <2>3, OneKeyMoves
  <1>6. CASE SyncFail(r) /\ job' = [job EXCEPT ![k].status = "FAILED"]
    <2>1. job[k].status \in {"PROCESSING", "COMPLETED"}
      BY <1>1, <1>6 DEF SyncFail, At, Running, LeaseInv, LoneInv, Alone
    <2>2. job'[k].status = "FAILED" /\ \A j \in Keys : j # k => job'[j] = job[j]
      BY <1>1, <1>6 DEF TypeInv, JobOK, Row
    <2>3. PhaseMoves(k)
      BY <2>1, <2>2 DEF PhaseMoves, Phase, Open
    <2> QED
      BY <1>1, <1>2, <2>2, <2>3, OneKeyMoves
  <1> QED
    BY <1>1, <1>3, <1>4, <1>5, <1>6 DEF Create, SyncFinish, SyncFail

LEMMA WorkerRefines ==
  ASSUME LeaseInv, NEW w \in Workers, Heartbeat(w) \/ Finish(w) \/ Catch(w)
  PROVE  OnceStep
  <1> DEFINE k == proc[w].key
  <1>1. TypeInv /\ k \in Keys /\ job[k] \in Row /\ w \in Procs
    BY PlaceFacts DEF LeaseInv, TypeInv, JobOK
  <1>2. UNCHANGED project
    BY DEF Heartbeat, Finish, Catch
  <1>3. CASE UNCHANGED job
    BY <1>2, <1>3, NothingMoves
  <1>4. CASE Owns(w) /\ job' = [job EXCEPT ![k].timer = "running"]
    <2>1. job'[k].status = job[k].status /\ \A j \in Keys : j # k => job'[j] = job[j]
      BY <1>1, <1>4 DEF TypeInv, JobOK, Row
    <2> QED
      BY <1>1, <1>2, <2>1, OneKeyMoves DEF PhaseMoves
  <1>5. CASE /\ Finish(w) /\ Owns(w)
             /\ job' = [job EXCEPT ![k].status = "COMPLETED", ![k].linked = TRUE,
                                   ![k].token = NoToken, ![k].timer = "null"]
    <2>1. project[k] = 1
      BY <1>1, <1>5 DEF Finish, At, LeaseInv, DoneInv, InsertInv, AtMostOneProject, TypeInv,
                        RestOK
    <2>2. job'[k].status = "COMPLETED" /\ \A j \in Keys : j # k => job'[j] = job[j]
      BY <1>1, <1>5 DEF TypeInv, JobOK, Row
    <2>3. PhaseMoves(k)
      BY <1>5, <2>1, <2>2 DEF PhaseMoves, Phase, Open, Owns
    <2> QED
      BY <1>1, <1>2, <2>2, <2>3, OneKeyMoves
  <1>6. CASE Owns(w) /\ job' = [job EXCEPT ![k] = AfterError(job[k], proc[w].err)]
    <2>1. /\ job'[k].status \in {"RETRY_WAIT", "DEAD", "FAILED"}
          /\ \A j \in Keys : j # k => job'[j] = job[j]
      BY <1>1, <1>6, AfterErrorType DEF TypeInv, JobOK
    <2>2. PhaseMoves(k)
      BY <1>6, <2>1 DEF PhaseMoves, Phase, Open, Owns
    <2> QED
      BY <1>1, <1>2, <2>1, <2>2, OneKeyMoves
  <1> QED
    BY <1>3, <1>4, <1>5, <1>6 DEF Heartbeat, Finish, Catch

LEMMA ClaimRefines ==
  ASSUME LeaseInv, NEW w \in Workers, Claim(w)
  PROVE  OnceStep
  <1>1. TypeInv
    BY DEF LeaseInv
  <1>2. PICK S \in SUBSET {k \in Keys : Claimable(k)} :
           job' = [k \in Keys |-> IF k \in S THEN Leased(k) ELSE job[k]]
    BY DEF Claim
  <1>3. \A k \in Keys : Phase(job'[k].status) = Phase(job[k].status)
    BY <1>1, <1>2, LeasedType DEF Claimable, Phase, Open
  <1>4. UNCHANGED phaseBar
    BY <1>3 DEF phaseBar
  <1> QED
    BY <1>4 DEF Claim, OnceStep, Once!onceVars

LEMMA OtherRefines ==
  ASSUME LeaseInv, NEW k \in Keys, TimerEnds(k) \/ Retry(k)
  PROVE  OnceStep
  <1>1. job \in [Keys -> Row] /\ job[k] \in Row
    BY DEF LeaseInv, TypeInv, JobOK
  <1>2. CASE TimerEnds(k)
    <2>1. job'[k].status = job[k].status /\ \A j \in Keys : j # k => job'[j] = job[j]
      BY <1>1, <1>2 DEF TimerEnds, Row
    <2> QED
      BY <1>2, <2>1, OneKeyMoves DEF TimerEnds, PhaseMoves
  <1>3. CASE Retry(k)
    <2>1. job'[k].status = "PENDING" /\ \A j \in Keys : j # k => job'[j] = job[j]
      BY <1>1, <1>3 DEF Retry, Row
    <2>2. PhaseMoves(k)
      BY <1>3, <2>1 DEF Retry, PhaseMoves, Phase, Open
    <2> QED
      BY <1>3, <2>1, <2>2, OneKeyMoves DEF Retry
  <1> QED
    BY <1>2, <1>3

\* If every template has a task, no worker makes a project for a closed job and
\* no job is done without its project: the protocol implements CloneOnce.
THEOREM LeasesImplementOnce ==
  ASSUME \A b \in Bodies : Tasks[b] # "none"
  PROVE  Spec => ImplementsOnce
  <1>1. Init => Once!OnceInit
    BY DEF Init, NoJob, phaseBar, Phase, Once!OnceInit
  <1>2. ASSUME LeaseInv, Next PROVE OnceStep
    <2>1. TypeInv
      BY <1>2 DEF LeaseInv
    <2>2. ASSUME NEW p \in Procs, Materialize(p) PROVE OnceStep
      BY <1>2, <2>2, CommitRefines, NothingMoves
         DEF Materialize, Load, Replay, InsertProject, Rollback
    <2>3. ASSUME NEW r \in Requests, RequestStep(r) \/ RequestCrash(r) PROVE OnceStep
      BY <1>2, <2>1, <2>2, <2>3, RequestRefines, NothingMoves, PlaceFacts
         DEF RequestStep, RequestCrash, Submit
    <2>4. ASSUME NEW w \in Workers, WorkerStep(w) \/ WorkerCrash(w) PROVE OnceStep
      BY <1>2, <2>1, <2>2, <2>4, WorkerRefines, ClaimRefines, NothingMoves, PlaceFacts
         DEF WorkerStep, WorkerCrash, Begin
    <2> QED
      BY <1>2, <2>3, <2>4, OtherRefines DEF Next
  <1>3. UNCHANGED vars => OnceStep
    BY NothingMoves DEF vars
  <1>4. LeaseInv /\ [Next]_vars => [Once!OnceNext]_(Once!onceVars)
    BY <1>2, <1>3 DEF OnceStep
  <1> QED
    BY <1>1, <1>4, LeaseAlways, PTL DEF Spec, ImplementsOnce, Once!OnceSpec
=============================================================================
