------------------------------- MODULE MCWork -------------------------------
(* The work of a workspace: SLA and risk of a task, time logs, a board column,  *)
(* the workflow, the status and the members of a project, a series of           *)
(* templates, subtasks.                                                         *)
(* They share the handlers, the clock and the bound on requests, and no state:  *)
(* a behaviour follows one of them while nothing is asked of the others.        *)
EXTENDS TaskSla, TaskRisk, TimeLogs, ColumnRanks, WorkflowPublish, ProjectLifecycle, TemplateSeries, TaskTree,
        ProjectMembers, TLC

CONSTANTS p1, p2, r1, r2, r3
VARIABLE part

\* A short and a long day; a day off, and a week that runs to midnight.
Hours2(s, e) == [start |-> s, end |-> e]
TwoDayWeek == [d \in {0, 1} |-> IF d = 0 THEN Hours2(1, 3) ELSE Hours2(0, 2)]
DayOff == [d \in {0, 1} |-> IF d = 0 THEN Hours2(0, 3) ELSE Hours2(0, 0)]
ToMidnight == [d \in {0} |-> Hours2(2, 4)]
Weeks == {TwoDayWeek, DayOff, ToMidnight}

SomeSituations == [factors : {{}, {"overdue"}, {"overdue", "blockedOverThreeDays", "unassigned"}}, terminal : {FALSE}]
                  \cup [factors : {{"overdue"}}, terminal : {TRUE}]
StrictRule == [DefaultRule EXCEPT !.high = 30, !.unassigned = 0]
SomeRules == {StrictRule, DefaultRule}

StageStatus == [s \in StageNames |-> CASE s = "todo" -> "TODO" [] s = "doing" -> "IN_PROGRESS" [] s = "done" -> "DONE"]

Parts == {"sla", "risk", "time", "rank", "flow", "project", "template", "tree", "crew"}

\* A project without a creator, the same for every person.
CrewRests == /\ role = [u \in Crew |-> "owner"] /\ lead = NoManager /\ founder = NoManager
             /\ duty = [p \in Handlers |-> DutyRest] /\ adrift = TRUE /\ headless = FALSE

\* What rests does so in one of its initial states.
WorkInit == /\ part \in Parts
            /\ HandlingInit
            /\ TreeInit /\ (part = "tree" \/ Nodes = InState("none"))
            /\ IF part = "crew" THEN CrewInit ELSE CrewRests
            /\ SlaInit /\ (part = "sla" \/ cal = NoCalendar)
            /\ RiskInit /\ (part = "risk" \/ facts.factors = {})
            /\ TimeInit
            /\ RankInit /\ (part = "rank" \/ Here = {})
            /\ FlowInit /\ (part = "flow" \/ \A t \in Items : item[t] = AbsentItem)
            /\ ProjectInit /\ (part = "project" \/ project.policy = "BLOCK")
            /\ TemplateInit /\ (part = "template" \/ row[0].content = NoRow.content)

WorkNext ==
    \/ part = "sla" /\ SlaNext /\ UNCHANGED <<part, riskVars, timeVars, rankVars, flowVars, projectVars, templateVars, treeVars, crewVars>>
    \/ part = "risk" /\ RiskNext /\ UNCHANGED <<part, slaVars, timeVars, rankVars, flowVars, projectVars, templateVars, treeVars, crewVars>>
    \/ part = "time" /\ TimeNext /\ SlaRuns /\ UNCHANGED <<part, riskVars, rankVars, flowVars, projectVars, templateVars, treeVars, crewVars>>
    \/ part = "rank" /\ RankNext /\ UNCHANGED <<part, slaVars, riskVars, timeVars, flowVars, projectVars, templateVars, treeVars, crewVars>>
    \/ part = "flow" /\ FlowNext /\ UNCHANGED <<part, slaVars, riskVars, timeVars, rankVars, projectVars, templateVars, treeVars, crewVars>>
    \/ part = "project" /\ ProjectNext /\ UNCHANGED <<part, slaVars, riskVars, timeVars, rankVars, flowVars, templateVars, treeVars, crewVars>>
    \/ part = "template" /\ TemplateNext /\ UNCHANGED <<part, slaVars, riskVars, timeVars, rankVars, flowVars, projectVars, treeVars, crewVars>>
    \/ part = "tree" /\ TreeNext /\ UNCHANGED <<part, now, served, slaVars, riskVars, timeVars, rankVars, flowVars, projectVars, templateVars, crewVars>>
    \/ part = "crew" /\ CrewNext /\ UNCHANGED <<part, slaVars, riskVars, timeVars, rankVars, flowVars, projectVars, templateVars, treeVars>>

WorkSpec == WorkInit /\ [][WorkNext]_<<part, now, served, slaVars, riskVars, timeVars, rankVars, flowVars, projectVars, templateVars, treeVars, crewVars>>

WorkTypesOK == /\ HandlingTypeOK
               /\ SlaTypeOK /\ RiskTypeOK /\ TimeTypeOK /\ RankTypeOK /\ FlowTypeOK
               /\ ProjectTypeOK /\ TemplateTypeOK /\ TreeTypeOK /\ CrewTypeOK

WorkSymmetry == Permutations({p1, p2}) \cup Permutations({r1, r2, r3})
=============================================================================
