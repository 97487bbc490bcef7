------------------------------ MODULE TaskRisk ------------------------------
(* The risk of one task: a manual level and the workspace's rule decide it with *)
(* the task's situation; recalculations are requested by a due time on the task *)
(* and done by the request itself or by the worker.                             *)
EXTENDS Handling

CONSTANTS Situations,  \* what a recalculation can read of a task
          Rules        \* weights and thresholds a workspace may set

Levels == {"LOW", "MEDIUM", "HIGH", "CRITICAL"}
Unset == "NONE"
Factors == {"overdue", "blockedOverThreeDays", "dependencyLateOrIncomplete", "unassigned"}

ASSUME RiskAssumption ==
    /\ Situations \subseteq [factors : SUBSET Factors, terminal : BOOLEAN]
    /\ \A r \in Rules : Factors \cup {"medium", "high", "critical"} \subseteq DOMAIN r

VARIABLES facts,     \* the situation of the task
          rule,      \* the active rule
          manual,    \* manualRiskLevel
          level,     \* riskLevel
          due,       \* riskRecalculateAt: "none", "due", "leased" (a minute ahead)
          risk,      \* where each handler stands and what it has read
          notified,  \* levels with an escalation notice (deduplicated by task and level)
          basis,     \* history: the situation behind the stored level
          overtaken, \* history: a recalculation read the rule or the manual level before a change
                     \* and wrote after it
          unasked    \* history: a rule changed and nobody asked for its recalculation yet

riskVars == <<facts, rule, manual, level, due, risk, notified, basis, overtaken, unasked>>

-----------------------------------------------------------------------------
(* calculateTaskRisk *)

Weight(r, s, f) == IF f \in s.factors /\ ~s.terminal THEN r[f] ELSE 0
Score(r, s) == Weight(r, s, "overdue") + Weight(r, s, "blockedOverThreeDays")
               + Weight(r, s, "dependencyLateOrIncomplete") + Weight(r, s, "unassigned")
CalculatedLevel(r, s) == IF Score(r, s) >= r.critical THEN "CRITICAL"
                         ELSE IF Score(r, s) >= r.high THEN "HIGH"
                         ELSE IF Score(r, s) >= r.medium THEN "MEDIUM" ELSE "LOW"

Rank(l) == CASE l = "LOW" -> 0 [] l = "MEDIUM" -> 1 [] l = "HIGH" -> 2 [] l = "CRITICAL" -> 3

\* The manual level, when there is one, replaces the calculated one.
Assess(r, s, m) == IF m = Unset THEN CalculatedLevel(r, s) ELSE m

\* Defaults for weights and thresholds the rule leaves out.
DefaultRule == [overdue |-> 40, blockedOverThreeDays |-> 25, dependencyLateOrIncomplete |-> 20,
                unassigned |-> 15, medium |-> 20, high |-> 40, critical |-> 70]

-----------------------------------------------------------------------------

RiskRest == [pc |-> "idle", facts |-> CHOOSE s \in Situations : TRUE, rule |-> DefaultRule,
             manual |-> Unset, level |-> Unset]
RiskTypeOK ==
    /\ facts \in Situations /\ basis \in Situations
    /\ rule \in Rules \cup {DefaultRule}
    /\ manual \in Levels \cup {Unset} /\ level \in Levels \cup {Unset}
    /\ due \in {"none", "due", "leased"}
    /\ risk \in [Handlers -> [pc : {"idle", "read", "write", "notify", "ask"}, facts : Situations,
                              rule : Rules \cup {DefaultRule}, manual : Levels \cup {Unset},
                              level : Levels \cup {Unset}]]
    /\ notified \subseteq Levels
    /\ overtaken \in BOOLEAN /\ unasked \in BOOLEAN

\* A new task asks for its first calculation.
RiskInit == /\ facts \in Situations /\ basis = facts
            /\ rule = DefaultRule /\ manual = Unset /\ level = Unset
            /\ due = "due"
            /\ risk = [p \in Handlers |-> RiskRest]
            /\ notified = {}
            /\ overtaken = FALSE /\ unasked = FALSE

RiskAt(p, pc) == risk[p].pc = pc
RiskBegins(p) == RiskAt(p, "idle") /\ Starts
RiskEnds(p) == risk' = [risk EXCEPT ![p] = RiskRest]
RiskStep(p, pc) == risk' = [risk EXCEPT ![p].pc = pc]

\* Updates, dependencies and time change what a calculation would find; none of
\* them asks for one.
SituationChanges == \E s \in Situations :
    /\ Starts
    /\ s # facts /\ facts' = s
    /\ UNCHANGED <<rule, manual, level, due, risk, notified, basis, overtaken, unasked>>

-----------------------------------------------------------------------------
(* Requests *)

\* get calculates when nothing was calculated yet.
GetRisk(p) == /\ RiskBegins(p)
              /\ level = Unset
              /\ RiskStep(p, "read")
              /\ UNCHANGED <<facts, rule, manual, level, due, notified, basis, overtaken, unasked>>

SetManual(p) == \E m \in Levels \cup {Unset} :
    /\ RiskBegins(p)
    /\ manual' = m
    /\ due' = "due"
    /\ RiskStep(p, "read")
    /\ UNCHANGED <<facts, rule, level, notified, basis, overtaken, unasked>>

\* The rule is written, and the tasks are flagged by the next statement.
UpsertRule(p) == \E r \in Rules :
    /\ RiskBegins(p)
    /\ rule' = r
    /\ unasked' = (unasked \/ r # rule)
    /\ RiskStep(p, "ask")
    /\ UNCHANGED <<facts, manual, level, due, notified, basis, overtaken>>

AskForAll(p) == /\ RiskAt(p, "ask")
                /\ due' = "due"
                /\ unasked' = FALSE
                /\ RiskEnds(p)
                /\ UNCHANGED <<facts, rule, manual, level, notified, basis, overtaken, served>>

-----------------------------------------------------------------------------
(* Recalculation *)

\* Mutant: the worker's claim takes the request off the task.
ClaimForGood(p) == /\ RiskBegins(p)
                   /\ due = "due"
                   /\ due' = "none"
                   /\ RiskStep(p, "read")
                   /\ UNCHANGED <<facts, rule, manual, level, notified, basis, overtaken, unasked>>

\* recalculateDueTaskRisks: the claim leaves the task due again in a minute.
ClaimDue(p) == /\ RiskBegins(p)
               /\ due = "due"
               /\ due' = "leased"
               /\ RiskStep(p, "read")
               /\ UNCHANGED <<facts, rule, manual, level, notified, basis, overtaken, unasked>>

LeaseRunsOut == /\ due = "leased"
                /\ due' = "due"
                /\ UNCHANGED <<facts, rule, manual, level, risk, notified, basis, overtaken, unasked, served>>

ReadTask(p) == /\ RiskAt(p, "read")
               /\ risk' = [risk EXCEPT ![p] = [pc |-> "write", facts |-> facts, rule |-> rule,
                                               manual |-> manual, level |-> level]]
               /\ UNCHANGED <<facts, rule, manual, level, due, notified, basis, overtaken, unasked, served>>

Escalates(from, to) == from # Unset /\ Rank(to) > Rank(from)

\* Level, snapshot and the cleared request are one transaction.
WriteRisk(p) ==
    LET r == risk[p]
        assessed == Assess(r.rule, r.facts, r.manual)
    IN /\ RiskAt(p, "write")
       /\ level' = assessed
       /\ due' = "none"
       /\ basis' = r.facts
       /\ overtaken' = (r.rule # rule \/ r.manual # manual)
       /\ IF Escalates(r.level, assessed) THEN risk' = [risk EXCEPT ![p].pc = "notify", ![p].level = assessed]
                                          ELSE RiskEnds(p)
       /\ UNCHANGED <<facts, rule, manual, notified, unasked, served>>

NotifyEscalation(p) == /\ RiskAt(p, "notify")
                       /\ notified' = notified \cup {risk[p].level}
                       /\ RiskEnds(p)
                       /\ UNCHANGED <<facts, rule, manual, level, due, basis, overtaken, unasked, served>>

RiskCrash(p) == /\ ~RiskAt(p, "idle")
                /\ RiskEnds(p)
                /\ UNCHANGED <<facts, rule, manual, level, due, notified, basis, overtaken, unasked, served>>

RiskNext == /\ UNCHANGED now
            /\ \/ SituationChanges \/ LeaseRunsOut
               \/ \E p \in Handlers :
                    \/ GetRisk(p) \/ SetManual(p) \/ UpsertRule(p) \/ AskForAll(p) \/ ClaimDue(p)
                    \/ ReadTask(p) \/ WriteRisk(p) \/ NotifyEscalation(p) \/ RiskCrash(p)

RiskSpec == HandlingInit /\ RiskInit /\ [][RiskNext]_<<riskVars, now, served>>

-----------------------------------------------------------------------------

\* No request for a recalculation is forgotten: while none is due, the stored
\* level is what the present rule and manual level make of the situation it was
\* calculated from, however many handlers died on the way.  Except after a
\* recalculation that had read before the last change of the two
\* (risk.service.ts:89 clears a request it has not served), and after a rule
\* whose request died before it flagged the tasks.
RiskRequestKept == due = "none" /\ ~overtaken /\ ~unasked => level = Assess(rule, basis, manual)
=============================================================================
