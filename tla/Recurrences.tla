----------------------------- MODULE Recurrences -----------------------------
(***************************************************************************)
(* Recurring tasks: worker processes that poll for due recurrences, create *)
(* one occurrence and one task per scheduled instant, and execute the      *)
(* automation runs those occurrences leave behind, against users who edit  *)
(* the recurrence meanwhile.                                               *)
(*                                                                         *)
(* generateDueOccurrences is a chain of separate statements on a snapshot  *)
(* of the recurrence: each is an action, and the worker may fail or die    *)
(* between any two.  Instants are 1..MaxSlot; a schedule is the set of     *)
(* instants it names.                                                      *)
(***************************************************************************)
EXTENDS Naturals

CONSTANTS Workers,      \* worker processes (worker.ts)
          Recs,         \* task_recurrences rows that can ever exist
          MaxSlot,      \* bound: instants of the modelled time span
          Schedules,    \* schedules a user may ask for: sets of instants
          MaxAttempts,  \* AutomationRun.maxAttempts
          MaxEdits,     \* bound: edits of recurrences by users
          MaxRetries,   \* bound: explicit retries of runs by users
          MaxFaults     \* bound: crashes and failing statements

Slots == 1..MaxSlot

ASSUME RecurrenceAssumption ==
    /\ Recs # {}
    /\ MaxSlot \in Nat \ {0}
    /\ Schedules \subseteq SUBSET Slots
    /\ {} \notin Schedules
    /\ MaxAttempts \in Nat \ {0}
    /\ MaxEdits \in Nat
    /\ MaxRetries \in Nat
    /\ MaxFaults \in Nat

VARIABLES
    row,      \* row[c]: the task_recurrences row
    occ,      \* occ[c][s]: status of the occurrence of c at s
    made,     \* made[c][s]: tasks created for that occurrence
    open,     \* open[c][s]: its task is not finished yet
    run,      \* run[c][s]: the automation run keyed recurrence:c:s
    proc,     \* proc[w]: where worker w stands
    todo,     \* todo[w]: due recurrences of w's poll still to be generated
    claimed,  \* claimed[w]: runs w claimed and has not executed yet
    asked,    \* asked[c][s]: where a user's retry of that run stands
    now, edits, retries, faults

vars == <<row, occ, made, open, run, proc, todo, claimed, asked, now, edits, retries, faults>>

Null == 0
\* No retry was asked for; one has read the run as FAILED or DEAD; it has written.
AskType == {"no", "read", "written"}
Policies == {"CREATE_ANYWAY", "SKIP_IF_OPEN"}
RowType == [state: {"absent", "present", "gone"}, active: BOOLEAN,
            next: Slots \cup {Null}, sched: SUBSET Slots, policy: Policies,
            createdAt: 0..MaxSlot]
NoRow == [state |-> "absent", active |-> FALSE, next |-> Null,
          sched |-> {}, policy |-> "CREATE_ANYWAY", createdAt |-> 0]

OccStatuses == {"NONE", "PENDING", "CREATED", "SKIPPED", "FAILED"}
RunStatuses == {"NONE", "PENDING", "RUNNING", "SUCCEEDED", "FAILED", "SKIPPED", "DEAD"}
\* nextRetryAt: null, in the future, or reached.
RunType == [status: RunStatuses, attempts: Nat, retryAt: {"null", "later", "due"}]
NoRun == [status |-> "NONE", attempts |-> 0, retryAt |-> "null"]

\* Places in pollWorkerOnce, executeRun and generateDueOccurrences.
PCs == {"idle", "recurrences", "runs", "read", "reserve", "enqueue", "overlap", "create",
        "link", "skip", "skipNext", "skipRun", "fail", "failRun", "succeeded", "failed",
        "markDead", "markFailed"}
\* via: the instant of the run being executed, Null inside the recurrence poll.
Place == [pc: PCs, rec: Recs, via: Slots \cup {Null}, now: 0..MaxSlot, snap: RowType]

TypeOK ==
    /\ row \in [Recs -> RowType]
    /\ occ \in [Recs -> [Slots -> OccStatuses]]
    /\ made \in [Recs -> [Slots -> Nat]]
    /\ open \in [Recs -> [Slots -> BOOLEAN]]
    /\ run \in [Recs -> [Slots -> RunType]]
    /\ proc \in [Workers -> Place]
    /\ todo \in [Workers -> SUBSET Recs]
    /\ claimed \in [Workers -> SUBSET (Recs \X Slots)]
    /\ asked \in [Recs -> [Slots -> AskType]]
    /\ now \in 0..MaxSlot
    /\ edits \in Nat /\ retries \in Nat /\ faults \in Nat

-----------------------------------------------------------------------------
(* Helpers *)

\* Mutant: the end of the schedule is not looked at.
NextRunAtEndless(sched, after) == after + 1

\* computeNextRunAt: the first instant of the schedule after a given one.
NextRunAt(sched, after) ==
    LET later == {s \in sched : s > after}
    IN  IF later = {} THEN Null ELSE CHOOSE s \in later : \A t \in later : s <= t

Due(r, at) == r.state = "present" /\ r.active /\ r.next # Null /\ r.next <= at

At(w, pc) == proc[w].pc = pc
Rec(w) == proc[w].rec
Slot(w) == proc[w].snap.next       \* scheduledAt: the nextRunAt that was read
Goto(w, pc) == proc' = [proc EXCEPT ![w].pc = pc]

\* generateDueOccurrences returns, or throws, into the poll or into executeRun.
Leaves(w, pc) == proc' = [proc EXCEPT ![w].snap = NoRow,
                              ![w].pc = IF proc[w].via = Null THEN "recurrences" ELSE pc]
Returns(w) == Leaves(w, "succeeded")
Raises(w) == Leaves(w, "failed")

Fault == faults < MaxFaults /\ faults' = faults + 1

SetOcc(c, s, st) == occ' = [occ EXCEPT ![c][s] = st]
SetNext(c, s) == row' = [row EXCEPT ![c].next = s]
Exists(c, s) == occ[c][s] # "NONE"

Nowhere == [pc |-> "idle", rec |-> CHOOSE c \in Recs : TRUE, via |-> Null,
            now |-> 0, snap |-> NoRow]

Init == /\ row = [c \in Recs |-> NoRow]
        /\ occ = [c \in Recs |-> [s \in Slots |-> "NONE"]]
        /\ made = [c \in Recs |-> [s \in Slots |-> 0]]
        /\ open = [c \in Recs |-> [s \in Slots |-> FALSE]]
        /\ run = [c \in Recs |-> [s \in Slots |-> NoRun]]
        /\ proc = [w \in Workers |-> Nowhere]
        /\ todo = [w \in Workers |-> {}]
        /\ claimed = [w \in Workers |-> {}]
        /\ asked = [c \in Recs |-> [s \in Slots |-> "no"]]
        /\ now = 0 /\ edits = 0 /\ retries = 0 /\ faults = 0

-----------------------------------------------------------------------------
(* pollWorkerOnce *)

\* dueRecurrenceIds: the row locks end with its transaction, so every worker
\* sees every due recurrence.
Poll(w) ==
    /\ At(w, "idle")
    /\ proc' = [proc EXCEPT ![w].pc = "recurrences", ![w].now = now]
    /\ todo' = [todo EXCEPT ![w] = {c \in Recs : Due(row[c], now)}]
    /\ UNCHANGED <<row, occ, made, open, run, claimed, asked, now, edits, retries, faults>>

StartRecurrence(w) == \E c \in todo[w] :
    /\ At(w, "recurrences")
    /\ todo' = [todo EXCEPT ![w] = @ \ {c}]
    /\ proc' = [proc EXCEPT ![w].pc = "read", ![w].rec = c, ![w].via = Null]
    /\ UNCHANGED <<row, occ, made, open, run, claimed, asked, now, edits, retries, faults>>

\* Mutant: only failed runs are claimed.
ClaimableIfFailed(r) == /\ r.status = "FAILED" /\ r.retryAt = "due"
                        /\ r.attempts < MaxAttempts
Claimable(r) == /\ \/ r.status = "PENDING" /\ r.retryAt # "later"
                   \/ r.status = "FAILED" /\ r.retryAt = "due"
                /\ r.attempts < MaxAttempts

\* claimDueAutomationRuns, once the recurrences are done.
ClaimRuns(w) ==
    LET due == {q \in Recs \X Slots : Claimable(run[q[1]][q[2]])} IN
    /\ At(w, "recurrences")
    /\ todo[w] = {}
    /\ run' = [c \in Recs |-> [s \in Slots |->
                 IF <<c, s>> \in due
                 THEN [run[c][s] EXCEPT !.status = "RUNNING", !.attempts = @ + 1]
                 ELSE run[c][s]]]
    /\ claimed' = [claimed EXCEPT ![w] = due]
    /\ proc' = [proc EXCEPT ![w] = IF due = {} THEN Nowhere ELSE [Nowhere EXCEPT !.pc = "runs"]]
    /\ UNCHANGED <<row, occ, made, open, todo, asked, now, edits, retries, faults>>

\* executeRun: the payload names the recurrence, and the recurrence's own
\* nextRunAt decides which instant is generated.
StartRun(w) == \E q \in claimed[w] :
    /\ At(w, "runs")
    /\ claimed' = [claimed EXCEPT ![w] = @ \ {q}]
    /\ proc' = [proc EXCEPT ![w].pc = "read", ![w].rec = q[1], ![w].via = q[2], ![w].now = now]
    /\ UNCHANGED <<row, occ, made, open, run, todo, asked, now, edits, retries, faults>>

SetRun(c, s, r) == run' = [run EXCEPT ![c][s] = r]
RunDone(w) == proc' = [proc EXCEPT ![w] =
    IF claimed[w] = {} THEN Nowhere ELSE [Nowhere EXCEPT !.pc = "runs"]]

\* markAutomationRunSucceeded, whatever the run says by now.
Succeed(w) == LET c == Rec(w)  s == proc[w].via IN
    /\ At(w, "succeeded")
    /\ \/ /\ SetRun(c, s, [run[c][s] EXCEPT !.status = "SUCCEEDED", !.retryAt = "null"])
          /\ RunDone(w)
          /\ UNCHANGED faults
       \/ Fault /\ Goto(w, "failed") /\ UNCHANGED run
    /\ UNCHANGED <<row, occ, made, open, todo, claimed, asked, now, edits, retries>>

\* markAutomationRunFailed reads the attempts and then writes.  If either
\* statement throws, the rest of the poll is lost, as in Crash.
Fail(w) == LET r == run[Rec(w)][proc[w].via] IN
    /\ At(w, "failed")
    /\ Goto(w, IF r.attempts >= MaxAttempts THEN "markDead" ELSE "markFailed")
    /\ UNCHANGED <<row, occ, made, open, run, todo, claimed, asked, now, edits, retries, faults>>

MarkFailed(w) == LET c == Rec(w)  s == proc[w].via IN
    /\ \/ /\ At(w, "markDead")
          /\ SetRun(c, s, [run[c][s] EXCEPT !.status = "DEAD", !.retryAt = "null"])
       \/ /\ At(w, "markFailed")
          /\ SetRun(c, s, [run[c][s] EXCEPT !.status = "FAILED", !.retryAt = "later"])
    /\ RunDone(w)
    /\ UNCHANGED <<row, occ, made, open, todo, claimed, asked, now, edits, retries, faults>>

-----------------------------------------------------------------------------
(* generateDueOccurrences *)

Read(w) ==
    /\ At(w, "read")
    /\ IF Due(row[Rec(w)], proc[w].now)
       THEN proc' = [proc EXCEPT ![w].pc = "reserve", ![w].snap = row[Rec(w)]]
       ELSE Returns(w)
    /\ UNCHANGED <<row, occ, made, open, run, todo, claimed, asked, now, edits, retries, faults>>

\* Mutant: no look at existing occurrences, no unique index.
ReserveUnchecked(w) == LET c == Rec(w)  s == Slot(w) IN
    /\ At(w, "reserve")
    /\ SetOcc(c, s, "PENDING")
    /\ Goto(w, "enqueue")
    /\ UNCHANGED <<row, made, open, run, todo, claimed, asked, now, edits, retries, faults>>

\* One transaction under the recurrence's advisory lock.  A duplicate ends the
\* call without touching the recurrence.
Reserve(w) == LET c == Rec(w)  s == Slot(w) IN
    /\ At(w, "reserve")
    /\ \/ /\ Exists(c, s)
          /\ Returns(w)
          /\ UNCHANGED occ
       \/ /\ ~Exists(c, s)
          /\ row[c].state = "present"
          /\ SetOcc(c, s, "PENDING")
          /\ Goto(w, "enqueue")
       \/ /\ row[c].state = "gone"         \* foreign key
          /\ Raises(w)
          /\ UNCHANGED occ
    /\ UNCHANGED <<row, made, open, run, todo, claimed, asked, now, edits, retries, faults>>

\* upsertAutomationRun: from here on any worker may claim the run.
Enqueue(w) == LET c == Rec(w)  s == Slot(w) IN
    /\ At(w, "enqueue")
    /\ IF run[c][s].status = "NONE"
       THEN SetRun(c, s, [NoRun EXCEPT !.status = "PENDING"])
       ELSE UNCHANGED run
    /\ Goto(w, IF proc[w].snap.policy = "SKIP_IF_OPEN" THEN "overlap" ELSE "create")
    /\ UNCHANGED <<row, occ, made, open, todo, claimed, asked, now, edits, retries, faults>>

\* Mutant: the policy is not looked at.
OverlapUnchecked(w) ==
    /\ At(w, "overlap")
    /\ Goto(w, "create")
    /\ UNCHANGED <<row, occ, made, open, run, todo, claimed, asked, now, edits, retries, faults>>

Overlap(w) == LET c == Rec(w) IN
    /\ At(w, "overlap")
    /\ Goto(w, IF \E s \in Slots : occ[c][s] = "CREATED" /\ open[c][s] THEN "skip" ELSE "create")
    /\ UNCHANGED <<row, occ, made, open, run, todo, claimed, asked, now, edits, retries, faults>>

SkipOccurrence(w) == LET c == Rec(w)  s == Slot(w) IN
    /\ At(w, "skip")
    /\ \/ Exists(c, s) /\ SetOcc(c, s, "SKIPPED") /\ Goto(w, "skipNext")
       \/ ~Exists(c, s) /\ Raises(w) /\ UNCHANGED occ
    /\ UNCHANGED <<row, made, open, run, todo, claimed, asked, now, edits, retries, faults>>

\* Mutants: the next instant is counted from now; the pointer stays.
FollowingNow(w) == NextRunAt(proc[w].snap.sched, now)
FollowingSame(w) == Slot(w)
\* nextRunAt is computed from the snapshot and written over whatever is there.
Following(w) == NextRunAt(proc[w].snap.sched, Slot(w))

SkipNext(w) == LET c == Rec(w) IN
    /\ At(w, "skipNext")
    /\ \/ row[c].state = "present" /\ SetNext(c, Following(w)) /\ Goto(w, "skipRun")
       \/ row[c].state = "gone" /\ Raises(w) /\ UNCHANGED row
    /\ UNCHANGED <<occ, made, open, run, todo, claimed, asked, now, edits, retries, faults>>

\* The notice that follows may throw.
SkipRun(w) == LET c == Rec(w)  s == Slot(w) IN
    /\ At(w, "skipRun")
    /\ SetRun(c, s, [run[c][s] EXCEPT !.status = "SKIPPED"])
    /\ \/ Returns(w) /\ UNCHANGED faults
       \/ Raises(w) /\ Fault
    /\ UNCHANGED <<row, occ, made, open, todo, claimed, asked, now, edits, retries>>

\* createTaskFromFactory commits the task and then records the activity and
\* starts its SLA: it may throw before or after the task exists.
CreateTask(w) == LET c == Rec(w)  s == Slot(w) IN
    /\ At(w, "create")
    /\ \/ /\ made' = [made EXCEPT ![c][s] = @ + 1]
          /\ open' = [open EXCEPT ![c][s] = TRUE]
          /\ \/ Goto(w, "link") /\ UNCHANGED faults
             \/ Goto(w, "fail") /\ Fault
       \/ Fault /\ Goto(w, "fail") /\ UNCHANGED <<made, open>>
    /\ UNCHANGED <<row, occ, run, todo, claimed, asked, now, edits, retries>>

\* One transaction; its acknowledgement may be lost.
Link(w) == LET c == Rec(w)  s == Slot(w) IN
    /\ At(w, "link")
    /\ \/ /\ Exists(c, s)
          /\ SetOcc(c, s, "CREATED")
          /\ SetNext(c, Following(w))
          /\ SetRun(c, s, [run[c][s] EXCEPT !.status = "SUCCEEDED", !.attempts = @ + 1])
          /\ \/ Returns(w) /\ UNCHANGED faults
             \/ Goto(w, "fail") /\ Fault
       \/ /\ ~Exists(c, s)
          /\ Goto(w, "fail")
          /\ UNCHANGED <<row, occ, run, faults>>
       \/ /\ Fault
          /\ Goto(w, "fail")
          /\ UNCHANGED <<row, occ, run>>
    /\ UNCHANGED <<made, open, todo, claimed, asked, now, edits, retries>>

\* The catch block: two updates, then the error is thrown again.
FailOccurrence(w) == LET c == Rec(w)  s == Slot(w) IN
    /\ At(w, "fail")
    /\ \/ Exists(c, s) /\ SetOcc(c, s, "FAILED") /\ Goto(w, "failRun")
       \/ ~Exists(c, s) /\ Raises(w) /\ UNCHANGED occ
    /\ UNCHANGED <<row, made, open, run, todo, claimed, asked, now, edits, retries, faults>>

\* nextRetryAt is left as it is.
FailRun(w) == LET c == Rec(w)  s == Slot(w) IN
    /\ At(w, "failRun")
    /\ SetRun(c, s, [run[c][s] EXCEPT !.status = "FAILED"])
    /\ Raises(w)
    /\ UNCHANGED <<row, occ, made, open, todo, claimed, asked, now, edits, retries, faults>>

\* A statement outside the try block, or inside the catch block, fails.  That it
\* took effect and only its answer was lost is the failure of the next one.
StatementFails(w) ==
    /\ proc[w].pc \in {"read", "reserve", "enqueue", "overlap", "skip", "skipNext", "skipRun",
                       "fail", "failRun"}
    /\ Fault
    /\ Raises(w)
    /\ UNCHANGED <<row, occ, made, open, run, todo, claimed, asked, now, edits, retries>>

Crash(w) ==
    /\ ~At(w, "idle")
    /\ Fault
    /\ proc' = [proc EXCEPT ![w] = Nowhere]
    /\ todo' = [todo EXCEPT ![w] = {}]
    /\ claimed' = [claimed EXCEPT ![w] = {}]
    /\ UNCHANGED <<row, occ, made, open, run, asked, now, edits, retries>>

-----------------------------------------------------------------------------
(* Users, and time *)

\* upsert without a row for the task; it reads first, and two such requests
\* are taken one after the other here.
Create(c) == \E sched \in Schedules, pol \in Policies :
    /\ row[c].state = "absent"
    /\ \A d \in Recs : row[d].state # "present"
    /\ row' = [row EXCEPT ![c] = [state |-> "present", active |-> TRUE, sched |-> sched,
                                  policy |-> pol, next |-> NextRunAt(sched, now),
                                  createdAt |-> now]]
    /\ UNCHANGED <<occ, made, open, run, proc, todo, claimed, asked, now, edits, retries, faults>>

Edit(c) == /\ row[c].state = "present"
           /\ edits < MaxEdits
           /\ edits' = edits + 1
           /\ UNCHANGED <<made, open, run, proc, todo, claimed, asked, now, retries, faults>>

Upsert(c) == \E sched \in Schedules, pol \in Policies :
    /\ Edit(c)
    /\ row' = [row EXCEPT ![c].active = TRUE, ![c].sched = sched, ![c].policy = pol,
                          ![c].next = NextRunAt(sched, now)]
    /\ UNCHANGED occ

Pause(c) == /\ Edit(c)
            /\ row' = [row EXCEPT ![c].active = FALSE, ![c].next = Null]
            /\ UNCHANGED occ

Resume(c) == /\ Edit(c)
             /\ row' = [row EXCEPT ![c].active = TRUE, ![c].next = NextRunAt(row[c].sched, now)]
             /\ UNCHANGED occ

\* The occurrences go with the row; runs and tasks stay.
Remove(c) == /\ Edit(c)
             /\ row' = [row EXCEPT ![c] = [NoRow EXCEPT !.state = "gone"]]
             /\ occ' = [occ EXCEPT ![c] = [s \in Slots |-> "NONE"]]

\* retry reads the run's status and then writes, whatever it is by then.
RetryAsk(c, s) ==
    /\ run[c][s].status \in {"FAILED", "DEAD"}
    /\ retries < MaxRetries
    /\ retries' = retries + 1
    /\ asked' = [asked EXCEPT ![c][s] = "read"]
    /\ UNCHANGED <<row, occ, made, open, run, proc, todo, claimed, now, edits, faults>>

RetryApply(c, s) ==
    /\ asked[c][s] = "read"
    /\ asked' = [asked EXCEPT ![c][s] = "written"]
    /\ SetRun(c, s, [status |-> "PENDING", attempts |-> 0, retryAt |-> "due"])
    /\ UNCHANGED <<row, occ, made, open, proc, todo, claimed, now, edits, retries, faults>>

\* Somebody finishes a generated task.  Reopening one is an edit.
CloseTask(c, s) ==
    /\ open[c][s]
    /\ open' = [open EXCEPT ![c][s] = FALSE]
    /\ UNCHANGED <<row, occ, made, run, proc, todo, claimed, asked, now, edits, retries, faults>>

ReopenTask(c, s) ==
    /\ made[c][s] > 0
    /\ ~open[c][s]
    /\ edits < MaxEdits
    /\ edits' = edits + 1
    /\ open' = [open EXCEPT ![c][s] = TRUE]
    /\ UNCHANGED <<row, occ, made, run, proc, todo, claimed, asked, now, retries, faults>>

Tick == /\ now < MaxSlot
        /\ now' = now + 1
        /\ UNCHANGED <<row, occ, made, open, run, proc, todo, claimed, asked, edits, retries, faults>>

\* The exponential delay of a failed run has passed.
BackoffEnds(c, s) ==
    /\ run[c][s].retryAt = "later"
    /\ SetRun(c, s, [run[c][s] EXCEPT !.retryAt = "due"])
    /\ UNCHANGED <<row, occ, made, open, proc, todo, claimed, asked, now, edits, retries, faults>>

-----------------------------------------------------------------------------

Generate(w) == \/ Read(w) \/ Reserve(w) \/ Enqueue(w) \/ Overlap(w)
               \/ SkipOccurrence(w) \/ SkipNext(w) \/ SkipRun(w)
               \/ CreateTask(w) \/ Link(w) \/ FailOccurrence(w) \/ FailRun(w)

WorkerStep(w) == \/ Poll(w) \/ StartRecurrence(w) \/ ClaimRuns(w) \/ StartRun(w)
                 \/ Succeed(w) \/ Fail(w) \/ MarkFailed(w) \/ Generate(w)

UserStep(c) == \/ Create(c) \/ Upsert(c) \/ Pause(c) \/ Resume(c) \/ Remove(c)

RunStep(c, s) == \/ RetryAsk(c, s) \/ RetryApply(c, s) \/ BackoffEnds(c, s)
                 \/ CloseTask(c, s) \/ ReopenTask(c, s)

Next == \/ \E w \in Workers : WorkerStep(w) \/ StatementFails(w) \/ Crash(w)
        \/ \E c \in Recs : UserStep(c)
        \/ \E c \in Recs, s \in Slots : RunStep(c, s)
        \/ Tick

Spec == Init /\ [][Next]_vars

\* A worker process keeps polling (main never leaves its loop), accepted
\* requests are answered, and time passes.
Fairness == /\ \A w \in Workers : WF_vars(WorkerStep(w))
            /\ \A c \in Recs, s \in Slots : WF_vars(RetryApply(c, s)) /\ WF_vars(BackoffEnds(c, s))
            /\ WF_vars(Tick)

FairSpec == Spec /\ Fairness

-----------------------------------------------------------------------------
(* Properties *)

\* However many workers poll, crash and retry, an occurrence gets at most one
\* task, and none if it was skipped: the unique index behind Reserve is the
\* only thing that stands between two workers with the same snapshot.
OneTaskPerOccurrence == \A c \in Recs, s \in Slots :
    /\ made[c][s] <= 1
    /\ occ[c][s] = "SKIPPED" => made[c][s] = 0

\* Unless users edit the recurrence, the pointer never passes an instant that
\* has neither a task nor a recorded skip, however late the workers are.
NoInstantLost == edits = 0 => \A c \in Recs : \A s \in row[c].sched :
    s > row[c].createdAt /\ (row[c].next = Null \/ s < row[c].next)
        => made[c][s] = 1 \/ occ[c][s] = "SKIPPED"

\* SKIP_IF_OPEN: of the tasks the recurrence counts as created, one is open at
\* most, although the check and the creation are separate statements.
NoOverlap == edits = 0 => \A c \in Recs :
    row[c].policy = "SKIP_IF_OPEN"
        => \A s, t \in {u \in Slots : occ[c][u] = "CREATED" /\ open[c][u]} : s = t

\* As long as nothing fails and nobody edits it, a due recurrence moves on:
\* workers that meet each other's occurrence as a duplicate leave it, so the
\* one that reserved it has to get through.
DueAdvances == \A c \in Recs, s \in Slots :
    row[c].next = s /\ now >= s ~> row[c].next # s \/ edits > 0 \/ faults > 0

\* As long as nothing fails, every run that waits or is being executed ends.
RunsSettle == \A c \in Recs, s \in Slots :
    run[c][s].status \in {"PENDING", "RUNNING"}
        ~> run[c][s].status \in {"SUCCEEDED", "SKIPPED", "FAILED", "DEAD"} \/ faults > 0

\* What the documentation says of edits (pause, resume and update recompute
\* nextRunAt): a due, active recurrence moves on whatever users did to it.
NeverStuck == \A c \in Recs, s \in Slots :
    row[c].active /\ row[c].next = s /\ now >= s
        ~> ~row[c].active \/ row[c].next # s \/ faults > 0

\* What the documentation says of retries: a failed run can be retried, so a
\* run that was retried and ends as succeeded has not left its occurrence failed
\* and without a task.
InHand(c, s) == \E w \in Workers : Rec(w) = c /\ ~At(w, "idle")
RetryRepairs == \A c \in Recs, s \in Slots :
    asked[c][s] = "written" /\ run[c][s].status = "SUCCEEDED" /\ ~InHand(c, s)
        => made[c][s] = 1 \/ occ[c][s] # "FAILED"
=============================================================================
