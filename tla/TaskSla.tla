------------------------------ MODULE TaskSla ------------------------------
(* The SLA instance of one task under one policy: it is started with the task,  *)
(* paused and resumed by users, settled when an update finishes the task, and   *)
(* warned about and breached by the worker's polls.                              *)
EXTENDS Handling, BusinessTime

CONSTANTS Target,      \* targetDurationMinutes of the policy, in hours
          Warning,     \* warningBeforeMinutes, in hours; 0 for no warning
          NoCalendar,  \* the policy has no business calendar
          Never        \* null, for an instant

ASSUME SlaAssumption == Target \in Nat /\ Warning \in Nat /\ NoCalendar \notin Calendars

\* The bounds: the days of the model outlast its clock by the target.
ASSUME DaysAssumption == /\ LastHour < End
                         /\ \A c \in Calendars : ClosesByNight(c) => Target <= Worked(c, LastHour, End)

VARIABLES cal,      \* calendar of the policy
          inst,     \* the row of "task_sla_instances"
          status,   \* status of the task
          sla,      \* what each handler is about to do, and what it has read
          ran,      \* history: working hours the instance spent ACTIVE
          revived   \* history: a resume wrote over a row that had changed since its read

slaVars == <<cal, inst, status, sla, ran, revived>>

\* A warning longer than the target lies before the first hour.
Instants == Int \cup {Never}
Finals == {"MET", "BREACHED", "CANCELLED"}
Notices == {"warning", "breach"}
InstanceType == [status : {"ACTIVE", "PAUSED"} \cup Finals, dueAt : Instants, warningAt : Instants,
                 pausedAt : Instants, warned : BOOLEAN, breached : BOOLEAN]

-----------------------------------------------------------------------------
(* Elapsed time under the policy *)

After(t, n) == IF cal = NoCalendar THEN t + n ELSE AddBusiness(cal, t, n)
Before(t, n) == IF cal = NoCalendar THEN t - n ELSE SubtractBusiness(cal, t, n)
Between(t, u) == IF cal = NoCalendar THEN Later(0, u - t) ELSE BusinessBetween(cal, t, u)
Counts(t) == cal = NoCalendar \/ t \in Working(cal)

\* initializeTaskSla
NewInstance == LET due == After(now, Target) IN
    [status |-> "ACTIVE", dueAt |-> due, warningAt |-> IF Warning > 0 THEN Before(due, Warning) ELSE Never,
     pausedAt |-> Never, warned |-> FALSE, breached |-> FALSE]

NoInstance == [status |-> "ACTIVE", dueAt |-> Never, warningAt |-> Never, pausedAt |-> Never,
               warned |-> FALSE, breached |-> FALSE]

SlaRest == [pc |-> "idle", seen |-> NoInstance, picked |-> {}, to |-> "TODO"]
SlaTypeOK ==
    /\ cal \in Calendars \cup {NoCalendar}
    /\ inst \in InstanceType
    /\ status \in {"TODO", "DONE", "CANCELLED"}
    /\ sla \in [Handlers -> [pc : {"idle", "resume", "notify", "finalize"}, seen : InstanceType,
                             picked : SUBSET Notices, to : {"TODO", "DONE", "CANCELLED"}]]
    /\ ran \in 0..LastHour /\ revived \in BOOLEAN

SlaInit == /\ cal \in Calendars \cup {NoCalendar}
           /\ inst = NewInstance
           /\ status = "TODO"
           /\ sla = [p \in Handlers |-> SlaRest]
           /\ ran = 0 /\ revived = FALSE

SlaAt(p, pc) == sla[p].pc = pc
SlaBegins(p) == SlaAt(p, "idle") /\ Starts /\ UNCHANGED now
SlaEnds(p) == sla' = [sla EXCEPT ![p] = SlaRest]

-----------------------------------------------------------------------------
(* The task *)

\* An update that finishes the task has committed; the SLA is settled by the
\* next statement.
FinishByUpdate(p) == \E to \in {"DONE", "CANCELLED"} :
    /\ SlaBegins(p)
    /\ status # to
    /\ status' = to
    /\ sla' = [sla EXCEPT ![p].pc = "finalize", ![p].to = to]
    /\ UNCHANGED <<cal, inst, ran, revived>>

\* A board move commits the same change and settles nothing.
FinishByMove(p) == \E to \in {"DONE", "CANCELLED"} :
    /\ SlaBegins(p)
    /\ status # to
    /\ status' = to
    /\ UNCHANGED <<cal, inst, sla, ran, revived>>

Reopen(p) == /\ SlaBegins(p)
             /\ status # "TODO"
             /\ status' = "TODO"
             /\ UNCHANGED <<cal, inst, sla, ran, revived>>

\* Mutant: breached instances are settled as well.
FinalizeAll(p) ==
    /\ SlaAt(p, "finalize")
    /\ inst' = [inst EXCEPT !.status = IF sla[p].to = "DONE" THEN "MET" ELSE "CANCELLED",
                            !.pausedAt = Never]
    /\ SlaEnds(p)
    /\ UNCHANGED <<cal, status, ran, revived, now, served>>

FinalizeTaskSla(p) ==
    /\ SlaAt(p, "finalize")
    /\ inst' = IF inst.status \in {"ACTIVE", "PAUSED"}
               THEN [inst EXCEPT !.status = IF sla[p].to = "DONE" THEN "MET" ELSE "CANCELLED",
                                 !.pausedAt = Never]
               ELSE inst
    /\ SlaEnds(p)
    /\ UNCHANGED <<cal, status, ran, revived, now, served>>

-----------------------------------------------------------------------------
(* Pause and resume *)

Pause(p) == /\ SlaBegins(p)
            /\ inst.status = "ACTIVE"
            /\ inst' = [inst EXCEPT !.status = "PAUSED", !.pausedAt = now]
            /\ UNCHANGED <<cal, status, sla, ran, revived>>

ResumeRead(p) == /\ SlaBegins(p)
                 /\ inst.status = "PAUSED"
                 /\ sla' = [sla EXCEPT ![p].pc = "resume", ![p].seen = inst]
                 /\ UNCHANGED <<cal, inst, status, ran, revived>>

\* Mutant: the instants are moved by what remained when the instance started.
ResumedAfresh(seen) ==
    [seen EXCEPT !.status = "ACTIVE", !.pausedAt = Never, !.dueAt = After(now, Target),
        !.warningAt = IF @ = Never THEN Never ELSE After(now, Between(seen.pausedAt, @))]

\* What was left at the pause is left from now on.
Resumed(seen) ==
    [seen EXCEPT !.status = "ACTIVE", !.pausedAt = Never,
        !.dueAt = After(now, Between(seen.pausedAt, @)),
        !.warningAt = IF @ = Never THEN Never ELSE After(now, Between(seen.pausedAt, @))]

\* The write is unconditional; it leaves the two marks of the worker alone.
ResumeWrite(p) ==
    /\ SlaAt(p, "resume")
    /\ inst' = [Resumed(sla[p].seen) EXCEPT !.warned = inst.warned, !.breached = inst.breached]
    /\ revived' = (revived \/ inst # sla[p].seen)
    /\ SlaEnds(p)
    /\ UNCHANGED <<cal, status, ran, now, served>>

-----------------------------------------------------------------------------
(* The worker *)

\* processDueSlaNotifications: one query picks what is due.
PollSla(p) ==
    LET warning == ~inst.warned /\ inst.warningAt # Never /\ inst.warningAt <= now
                   /\ inst.status \in {"ACTIVE", "BREACHED"}
        breach == inst.status = "ACTIVE" /\ ~inst.breached /\ inst.dueAt <= now
    IN /\ SlaBegins(p)
       /\ warning \/ breach
       /\ sla' = [sla EXCEPT ![p].pc = "notify", ![p].picked =
                    {k \in Notices : IF k = "warning" THEN warning ELSE breach}]
       /\ UNCHANGED <<cal, inst, status, ran, revived>>

\* One transaction per row, warnings first; the claim is conditional, the notice
\* is deduplicated by the instance and its kind.
NotifySla(p) == \E k \in sla[p].picked :
    /\ SlaAt(p, "notify")
    /\ k = "breach" => "warning" \notin sla[p].picked
    /\ inst' = IF k = "warning"
               THEN [inst EXCEPT !.warned = @ \/ inst.status \in {"ACTIVE", "BREACHED"}]
               ELSE IF inst.status = "ACTIVE" /\ ~inst.breached
                    THEN [inst EXCEPT !.breached = TRUE, !.status = "BREACHED"] ELSE inst
    /\ IF sla[p].picked = {k} THEN SlaEnds(p) ELSE sla' = [sla EXCEPT ![p].picked = @ \ {k}]
    /\ UNCHANGED <<cal, status, ran, revived, now, served>>

-----------------------------------------------------------------------------

\* A handler or worker dies between two statements.
SlaCrash(p) == /\ ~SlaAt(p, "idle")
               /\ SlaEnds(p)
               /\ UNCHANGED <<cal, inst, status, ran, revived, now, served>>

\* An instance runs while nobody does anything about it.
SlaRuns == /\ ran' = IF now' > now /\ inst.status = "ACTIVE" /\ Counts(now) THEN ran + 1 ELSE ran
           /\ UNCHANGED <<cal, inst, status, sla, revived>>

\* A handler takes much less than an hour.
SlaTick == /\ now < LastHour
           /\ \A p \in Handlers : ~SlaAt(p, "resume")
           /\ now' = now + 1
           /\ SlaRuns
           /\ UNCHANGED served

SlaNext == \/ SlaTick
           \/ \E p \in Handlers :
                \/ FinishByUpdate(p) \/ FinishByMove(p) \/ Reopen(p) \/ FinalizeTaskSla(p)
                \/ Pause(p) \/ ResumeRead(p) \/ ResumeWrite(p)
                \/ PollSla(p) \/ NotifySla(p) \/ SlaCrash(p)

SlaSpec == HandlingInit /\ SlaInit /\ [][SlaNext]_<<slaVars, now, served>>

-----------------------------------------------------------------------------
(* Properties *)

\* Under the policy's calendar, whatever the instant: the interval between two
\* instants counts the hours the calendar declares as working; n hours after an
\* instant is the end of the n-th working hour, n hours before it the start of
\* the n-th one back.  For calendars that close before midnight: a window that
\* ends at 24:00 loses its last hour (lib/business-time.ts:54-65).
BusinessTimeExact == cal \in Calendars /\ ClosesByNight(cal) => Exact[cal]

\* The time an instance has run and the time that remains are together the
\* policy's target, through any number of pauses; an instance is overdue, and is
\* breached, only when the target is used up.  Unless a resume wrote over a
\* change it had not seen.
BudgetKept == ~revived /\ (cal \in Calendars => ClosesByNight(cal)) =>
    /\ inst.status = "ACTIVE" /\ now < inst.dueAt => ran + Between(now, inst.dueAt) = Target
    /\ inst.status = "ACTIVE" /\ inst.dueAt <= now => ran >= Target
    /\ inst.status = "BREACHED" => ran >= Target

\* A settled instance stays as it was settled, whatever the worker, a second
\* completion, a pause or a resume still do; only a resume that read it before
\* may start it again.
FinalStays == [][inst.status \in Finals /\ (\A p \in Handlers : SlaAt(p, "resume") => sla'[p] = sla[p])
                 => inst'.status = inst.status]_slaVars
=============================================================================
