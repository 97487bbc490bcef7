-------------------------- MODULE WorkTypesProofs --------------------------
(***************************************************************************)
(* Proofs about the work of a workspace as a whole: under MCWork, where one   *)
(* component is asked something while the others rest, every variable keeps   *)
(* its type, bounds of the model included, and every component its promises.  *)
(***************************************************************************)
EXTENDS WorkProofs, MCWork

-----------------------------------------------------------------------------
(* Types, with the bounds of the model.  Each component's types rest on what is   *)
(* kept above and on what a request can add to a counter.                         *)

\* The clock and the count of requests never leave their ranges.
Runs == /\ now' = now \/ (now < LastHour /\ now' = now + 1)
        /\ served' = served \/ Starts

LEMMA RunsTyped == ASSUME HandlingTypeOK, Runs PROVE HandlingTypeOK' /\ now <= now' /\ served <= served'
  BY HandlingAssumption DEF HandlingTypeOK, Runs, Starts

LEMMA ComponentsRun ==
  /\ SlaNext => Runs
  /\ RiskNext => Runs
  /\ TimeNext => Runs
  /\ RankNext => Runs
  /\ FlowNext => Runs
  /\ ProjectNext => Runs
  /\ TemplateNext => Runs
  /\ CrewNext => Runs
  <1>1. SlaNext => Runs
    BY DEF Runs, SlaNext, SlaTick, SlaBegins, FinishByUpdate, FinishByMove, Reopen, FinalizeTaskSla, Pause, ResumeRead,
           ResumeWrite, PollSla, NotifySla, SlaCrash
  <1>2. RiskNext => Runs
    BY DEF Runs, RiskNext, RiskBegins, SituationChanges, LeaseRunsOut, GetRisk, SetManual, UpsertRule, AskForAll,
           ClaimDue, ReadTask, WriteRisk, NotifyEscalation, RiskCrash
  <1>3. TimeNext => Runs
    BY DEF Runs, TimeNext, TimeTick, EntryBegins, StartTimer, StartWrite, StopTimer, StopWrite, EnterLog, CheckOverlap,
           WriteLog, RemoveLog, RemoveWrite
  <1>4. RankNext => Runs
    BY DEF Runs, RankNext, MoveBegins, CreateRead, CreateWrite, Leave, MoveRead, MoveWrite, RenumberWrite
  <1>5. FlowNext => Runs
    BY DEF Runs, FlowNext, FlowBegins, FlowGoes, CreateItem, InsertItem, MoveItem, BringItem, MoveItemWrite,
           LeaveItem, DeleteItem, RestoreItem, BlockItem, ReleaseItem, DependencyWrite, AskDraft, CreateDraft, EditRead, EditWrite, Publish, Remap, PublishCommit
  <1>6. ProjectNext => Runs
    BY DEF Runs, ProjectNext, ChangeBegins, ChangeGoes, UpdateProject, CountBlockers, UpdateProjectWrite, Lifecycle,
           LifecycleWrite, OpenTask, OpenTaskWrite, FinishTask
  <1>7. TemplateNext => Runs
    BY DEF Runs, TemplateNext, EditBegins, EditEnds, UpdateTemplate, UpdateTemplateWrite, PublishTemplate, NumberVersion,
           PublishVersion, ArchiveTemplate, ArchiveWrite, CreateVersion, CreateVersionWrite
  <1>8. CrewNext => Runs
    BY DEF Runs, CrewNext, DutyBegins, DutyGoes, AddMember, UpdateMemberRole, RemoveMember, MemberWrite, ReplaceMembers,
           UpdateVisibility, NameManager, SyncRead, SyncWrite, DutyCrash
  <1> QED
    BY <1>1, <1>2, <1>3, <1>4, <1>5, <1>6, <1>7, <1>8

-----------------------------------------------------------------------------
(* Members, logs and templates *)

CrewTyped == CrewInv /\ lead \in Crew \cup {NoManager}

LEMMA CrewTypes ==
  /\ CrewInit => CrewTyped
  /\ CrewTyped => CrewTypeOK
  /\ CrewTyped /\ CrewNext => CrewTyped'
  <1>1. CrewInit => CrewTyped
    BY CrewInitial DEF CrewInit, CrewTyped
  <1>2. CrewTyped => CrewTypeOK
    BY DEF CrewTyped, CrewInv, CrewRows, DutyType, CrewTypeOK
  <1>3. ASSUME CrewTyped, CrewNext PROVE lead' \in Crew \cup {NoManager}
    <2>1. PICK p \in Handlers :
            \/ AddMember(p) \/ UpdateMemberRole(p) \/ RemoveMember(p) \/ MemberWrite(p) \/ ReplaceMembers(p)
            \/ UpdateVisibility(p) \/ NameManager(p) \/ SyncRead(p) \/ SyncWrite(p) \/ DutyCrash(p)
      BY <1>3 DEF CrewNext
    <2>2. duty[p] \in DutyType
      BY <1>3 DEF CrewTyped, CrewInv, CrewRows
    <2>3. lead' = lead \/ lead' = duty[p].best \/ \E u \in Crew \cup {NoManager} : lead' = u
      BY <2>1 DEF AddMember, UpdateMemberRole, RemoveMember, MemberWrite, ReplaceMembers, UpdateVisibility, NameManager,
         SyncRead, SyncWrite, DutyCrash, Assign
    <2> QED
      BY <1>3, <2>2, <2>3 DEF CrewTyped, DutyType
  <1>4. CrewTyped /\ CrewNext => CrewTyped'
    BY <1>3, CrewSteps DEF CrewTyped
  <1> QED
    BY <1>1, <1>2, <1>4

LEMMA TimeTypes == TimeInv => TimeTypeOK
  BY DEF TimeInv, TimeRows, EntryType, TimeTypeOK

SeriesTyped == SeriesInv /\ \A p \in Handlers : edit[p].version \in 0..MaxServed + 1

LEMMA SeriesTypes ==
  /\ TemplateInit => SeriesTyped
  /\ SeriesTyped => TemplateTypeOK
  /\ SeriesTyped /\ TemplateNext => SeriesTyped'
  <1>0. MaxServed \in Nat /\ SeriesVersions = 0..MaxServed
    BY HandlingAssumption DEF SeriesVersions
  <1>1. TemplateInit => SeriesTyped
    BY <1>0, SeriesInitial DEF TemplateInit, SeriesTyped, EditRest
  <1>2. SeriesTyped => TemplateTypeOK
    <2> SUFFICES ASSUME SeriesTyped PROVE TemplateTypeOK
      OBVIOUS
    <2>1. row \in [SeriesVersions -> RowType] /\ edit \in [Handlers -> EditType]
      BY DEF SeriesTyped, SeriesInv
    <2>2. \A p \in Handlers : edit[p] \in [pc : {"idle", "update", "number", "publish", "archive", "revive"},
                                           version : 0..MaxServed + 1, content : Contents]
      BY <2>1 DEF SeriesTyped, EditType
    <2> QED
      BY <2>1, <2>2 DEF TemplateTypeOK
  <1>3. ASSUME SeriesTyped, TemplateNext, NEW q \in Handlers PROVE edit'[q].version \in 0..MaxServed + 1
    <2>1. PICK p \in Handlers :
            \/ UpdateTemplate(p) \/ UpdateTemplateWrite(p) \/ PublishTemplate(p) \/ NumberVersion(p) \/ PublishVersion(p)
            \/ ArchiveTemplate(p) \/ ArchiveWrite(p) \/ CreateVersion(p) \/ CreateVersionWrite(p)
      BY <1>3 DEF TemplateNext
    <2>2. edit \in [Handlers -> EditType] /\ edit[q].version \in 0..MaxServed + 1
      BY <1>3 DEF SeriesTyped, SeriesInv
    <2>3. CASE NumberVersion(p)
      <3>1. \E v \in SeriesVersions : Exists(v) /\ \A w \in SeriesVersions : Exists(w) => w <= v
        <4>1. PICK k \in SeriesVersions : \A v \in SeriesVersions : Exists(v) <=> v <= k
          BY <1>3 DEF SeriesTyped, SeriesInv, Gapless
        <4>2. Exists(k)
          BY <1>0, <4>1
        <4> QED
          BY <4>1, <4>2
      <3> DEFINE v == CHOOSE v \in SeriesVersions : Exists(v) /\ \A w \in SeriesVersions : Exists(w) => w <= v
      <3>2. v \in SeriesVersions
        BY <3>1
      <3>3. edit' = [edit EXCEPT ![p] = [pc |-> "publish", version |-> 1 + v, content |-> edit[p].content]]
        BY <2>3 DEF NumberVersion, EditStep
      <3> HIDE DEF v
      <3> QED
        BY <1>0, <2>2, <3>2, <3>3
    <2>4. CASE ~NumberVersion(p)
      <3>1. EditEnds(p) \/ \E pc, c : \E v \in SeriesVersions : EditStep(p, pc, v, c)
        BY <1>0, <2>1, <2>4 DEF UpdateTemplate, UpdateTemplateWrite, PublishTemplate, PublishVersion, ArchiveTemplate,
           ArchiveWrite, CreateVersion, CreateVersionWrite
      <3>2. CASE EditEnds(p)
        BY <1>0, <2>2, <3>2 DEF EditEnds, EditRest
      <3>3. CASE \E pc, c : \E v \in SeriesVersions : EditStep(p, pc, v, c)
        BY <1>0, <2>2, <3>3 DEF EditStep
      <3> QED
        BY <3>1, <3>2, <3>3
    <2> QED
      BY <2>3, <2>4
  <1>4. SeriesTyped /\ TemplateNext => SeriesTyped'
    BY <1>3, SeriesSteps DEF SeriesTyped
  <1> QED
    BY <1>1, <1>2, <1>4
-----------------------------------------------------------------------------
(* Risk *)

RiskType == [pc : {"idle", "read", "write", "notify", "ask"}, facts : Situations, rule : Rules \cup {DefaultRule},
             manual : Levels \cup {Unset}, level : Levels \cup {Unset}]

LEMMA RiskRestTyped == ASSUME NEW s \in Situations PROVE RiskRest \in RiskType
  <1>1. (CHOOSE x \in Situations : TRUE) \in Situations
    OBVIOUS
  <1> QED
    BY <1>1 DEF RiskRest, RiskType

LEMMA LevelTyped == \A r, s : \A m \in Levels \cup {Unset} : Assess(r, s, m) \in Levels
  BY DEF Assess, CalculatedLevel, Levels, Unset

\* Whoever is about to notify has assessed.
RiskTyped == RiskTypeOK /\ \A p \in Handlers : RiskAt(p, "notify") => risk[p].level \in Levels

LEMMA RiskTypes ==
  /\ RiskInit => RiskTyped
  /\ RiskTyped /\ RiskNext => RiskTyped'
  <1>1. ASSUME RiskInit PROVE RiskTyped
    <2>1. RiskRest \in RiskType
      BY <1>1, RiskRestTyped DEF RiskInit
    <2> HIDE DEF RiskType
    <2>2. risk \in [Handlers -> RiskType]
      BY <1>1, <2>1 DEF RiskInit
    <2> QED
      BY <1>1, <2>2 DEF RiskInit, RiskTypeOK, RiskType, RiskTyped, RiskAt, RiskRest
  <1>2. ASSUME RiskTyped, RiskNext PROVE RiskTyped'
    <2>1. risk \in [Handlers -> RiskType] /\ RiskRest \in RiskType
      BY <1>2, RiskRestTyped DEF RiskTyped, RiskTypeOK, RiskType
    <2>2. /\ facts' \in Situations /\ basis' \in Situations
          /\ rule' \in Rules \cup {DefaultRule} /\ manual' \in Levels \cup {Unset}
          /\ due' \in {"none", "due", "leased"} /\ unasked' \in BOOLEAN /\ overtaken' \in BOOLEAN
      BY <1>2, <2>1 DEF RiskNext, RiskTyped, RiskTypeOK, SituationChanges, LeaseRunsOut, GetRisk, SetManual, UpsertRule, AskForAll,
         ClaimDue, ReadTask, WriteRisk, NotifyEscalation, RiskCrash, RiskType
    <2> DEFINE Row(r) == r \in RiskType /\ (r.pc = "notify" => r.level \in Levels)
               Steps(p) == \E r : Row(r) /\ risk' = [risk EXCEPT ![p] = r]
    <2>0. \A p \in Handlers : Row(risk[p])
      BY <1>2, <2>1 DEF RiskTyped, RiskAt
    <2>00. Row(RiskRest)
      BY <2>1 DEF RiskRest
    <2>3. ASSUME NEW p \in Handlers,
                 \/ GetRisk(p) \/ SetManual(p) \/ UpsertRule(p) \/ AskForAll(p) \/ ClaimDue(p) \/ RiskCrash(p)
          PROVE  Steps(p) /\ level' = level /\ notified' = notified
      <3>1. RiskStep(p, "read") \/ RiskStep(p, "ask") \/ RiskEnds(p)
        BY <2>3 DEF GetRisk, SetManual, UpsertRule, AskForAll, ClaimDue, RiskCrash
      <3>2. \A pc \in {"read", "ask"} : Row([risk[p] EXCEPT !.pc = pc])
        BY <2>1 DEF RiskType
      <3> HIDE DEF Row
      <3>3. Steps(p)
        BY <2>00, <3>1, <3>2 DEF RiskStep, RiskEnds
      <3> QED
        BY <2>3, <3>3 DEF GetRisk, SetManual, UpsertRule, AskForAll, ClaimDue, RiskCrash
    <2>4. ASSUME NEW p \in Handlers, ReadTask(p)
          PROVE  Steps(p) /\ level' = level /\ notified' = notified
      <3>1. Row([pc |-> "write", facts |-> facts, rule |-> rule, manual |-> manual, level |-> level])
        BY <1>2 DEF RiskTyped, RiskTypeOK, RiskType
      <3> HIDE DEF Row
      <3> QED
        BY <2>4, <3>1 DEF ReadTask
    <2>5. ASSUME NEW p \in Handlers, WriteRisk(p)
          PROVE  Steps(p) /\ level' \in Levels /\ notified' = notified
      <3> DEFINE assessed == Assess(risk[p].rule, risk[p].facts, risk[p].manual)
      <3>1. assessed \in Levels
        BY <2>1, LevelTyped DEF RiskType
      <3>2. level' = assessed /\ notified' = notified
            /\ (risk' = [risk EXCEPT ![p] = [@ EXCEPT !.pc = "notify", !.level = assessed]] \/ RiskEnds(p))
        BY <2>5 DEF WriteRisk
      <3> HIDE DEF assessed
      <3>3. Row([risk[p] EXCEPT !.pc = "notify", !.level = assessed])
        BY <2>1, <3>1 DEF RiskType
      <3> HIDE DEF Row
      <3> QED
        BY <2>00, <3>1, <3>2, <3>3 DEF RiskEnds
    <2>6. ASSUME NEW p \in Handlers, NotifyEscalation(p)
          PROVE  Steps(p) /\ level' = level /\ notified' = notified \cup {risk[p].level} /\ risk[p].level \in Levels
      <3>1. risk[p].level \in Levels
        BY <2>0, <2>6 DEF NotifyEscalation, RiskAt
      <3> HIDE DEF Row
      <3> QED
        BY <2>00, <2>6, <3>1 DEF NotifyEscalation, RiskEnds
    <2>7. /\ risk' = risk \/ \E p \in Handlers : Steps(p)
          /\ level' = level \/ level' \in Levels
          /\ notified' = notified \/ \E l \in Levels : notified' = notified \cup {l}
      <3> HIDE DEF Row, Steps
      <3>1. CASE SituationChanges \/ LeaseRunsOut
        BY <3>1 DEF SituationChanges, LeaseRunsOut
      <3> QED
        BY <1>2, <2>3, <2>4, <2>5, <2>6, <3>1 DEF RiskNext
    <2>8. \A p \in Handlers : Row(risk'[p])
      <3> HIDE DEF Row
      <3> QED
        BY <2>0, <2>1, <2>7
    <2>9. risk' \in [Handlers -> RiskType]
      BY <2>1, <2>7
    <2>10. level' \in Levels \cup {Unset} /\ notified' \subseteq Levels
      BY <1>2, <2>7 DEF RiskTyped, RiskTypeOK
    <2>11. RiskTypeOK'
      BY <2>2, <2>9, <2>10 DEF RiskTypeOK, RiskType
    <2> QED
      BY <2>8, <2>11 DEF RiskTyped, RiskAt
  <1> QED
    BY <1>1, <1>2
-----------------------------------------------------------------------------
(* Projects: whoever is about to open a task has been counted as served.        *)

LEMMA OneMoreOrLess ==
  ASSUME NEW S, IsFiniteSet(S), NEW x
  PROVE  /\ Cardinality(S) \in Nat
         /\ IsFiniteSet(S \cup {x}) /\ IsFiniteSet(S \ {x})
         /\ x \notin S => Cardinality(S \cup {x}) = Cardinality(S) + 1
         /\ x \in S => Cardinality(S \ {x}) = Cardinality(S) - 1
  BY FS_CardinalityType, FS_AddElement, FS_RemoveElement

Opening == {p \in Handlers : ChangeAt(p, "task")}
ProjectTyped == /\ ProjectInv
                /\ IsFiniteSet(Opening) /\ work + Cardinality(Opening) <= served + 1

LEMMA ProjectTypes ==
  /\ HandlingInit /\ ProjectInit => ProjectTyped
  /\ ProjectTyped /\ HandlingTypeOK => ProjectTypeOK
  /\ ProjectTyped /\ HandlingTypeOK /\ ProjectNext => ProjectTyped'
  <1>1. ASSUME HandlingInit, ProjectInit PROVE ProjectTyped
    <2>1. Opening = {}
      BY <1>1 DEF ProjectInit, Opening, ChangeAt, ChangeRest
    <2>2. work = 1 /\ served = 0
      BY <1>1 DEF HandlingInit, ProjectInit
    <2> QED
      BY <1>1, <2>1, <2>2, FS_EmptySet, ProjectInitial DEF ProjectTyped
  <1>2. ASSUME ProjectTyped, HandlingTypeOK PROVE ProjectTypeOK
    <2>1. Cardinality(Opening) \in Nat
      BY <1>2, OneMoreOrLess DEF ProjectTyped
    <2>2. work \in 0..MaxServed + 1
      BY <1>2, <2>1, HandlingAssumption DEF ProjectTyped, ProjectInv, ProjectRows, HandlingTypeOK
    <2> QED
      BY <1>2, <2>2 DEF ProjectTyped, ProjectInv, ProjectRows, ChangeType, ProjectTypeOK
  <1>3. ASSUME ProjectTyped, HandlingTypeOK, ProjectNext PROVE ProjectTyped'
    <2>1. ProjectInv'
      BY <1>3, ProjectSteps DEF ProjectTyped
    <2>2. /\ work \in Nat /\ served \in Nat /\ IsFiniteSet(Opening) /\ work + Cardinality(Opening) <= served + 1
          /\ change \in [Handlers -> ChangeType]
      BY <1>3, HandlingAssumption DEF ProjectTyped, ProjectInv, ProjectRows, HandlingTypeOK
    <2>3. PICK p \in Handlers :
            \/ UpdateProject(p) \/ CountBlockers(p) \/ UpdateProjectWrite(p) \/ Lifecycle(p) \/ LifecycleWrite(p)
            \/ OpenTask(p) \/ OpenTaskWrite(p) \/ FinishTask(p)
      BY <1>3 DEF ProjectNext
    <2> DEFINE n == Cardinality(Opening)
    <2>4. n \in Nat
      BY <2>2, OneMoreOrLess
    <2>5. CASE OpenTask(p)
      <3>1. Opening' = Opening \cup {p} /\ p \notin Opening /\ work' = work /\ served' = served + 1
        BY <2>2, <2>5 DEF OpenTask, ChangeBegins, Starts, Opening, ChangeAt, ChangeType
      <3>2. IsFiniteSet(Opening') /\ Cardinality(Opening') = n + 1
        BY <2>2, <3>1, OneMoreOrLess
      <3> HIDE DEF n
      <3> QED
        BY <2>1, <2>2, <2>4, <3>1, <3>2 DEF ProjectTyped, n
    <2>6. CASE OpenTaskWrite(p)
      <3>1. Opening' = Opening \ {p} /\ p \in Opening /\ work' = work + 1 /\ served' = served
        BY <2>2, <2>6 DEF OpenTaskWrite, ChangeGoes, Opening, ChangeAt, ChangeType, ChangeRest
      <3>2. IsFiniteSet(Opening') /\ Cardinality(Opening') = n - 1
        BY <2>2, <3>1, OneMoreOrLess
      <3> HIDE DEF n
      <3> QED
        BY <2>1, <2>2, <2>4, <3>1, <3>2 DEF ProjectTyped, n
    <2>7. CASE ~OpenTask(p) /\ ~OpenTaskWrite(p)
      <3>1. ~ChangeAt(p, "task") /\ work' <= work
            /\ (served' = served \/ served' = served + 1)
        <4>1. CASE UpdateProject(p)
          BY <2>2, <4>1 DEF UpdateProject, ChangeBegins, Starts, ChangeAt
        <4>2. CASE CountBlockers(p)
          BY <2>2, <4>2 DEF CountBlockers, ChangeGoes, ChangeAt
        <4>4. CASE UpdateProjectWrite(p)
          BY <2>2, <4>4 DEF UpdateProjectWrite, ChangeGoes, ChangeAt
        <4>5. CASE LifecycleWrite(p)
          BY <2>2, <4>5 DEF LifecycleWrite, ChangeGoes, ChangeAt
        <4>3. CASE Lifecycle(p)
          BY <2>2, <4>3 DEF Lifecycle, ChangeBegins, Starts, ChangeAt
        <4>6. CASE FinishTask(p)
          BY <2>2, <4>6 DEF FinishTask, ChangeBegins, Starts, ChangeAt
        <4> QED
          BY <2>3, <2>7, <4>1, <4>2, <4>3, <4>4, <4>5, <4>6
      <3>2. change' = change \/ \E r : r.pc # "task" /\ change' = [change EXCEPT ![p] = r]
        <4>1. CASE UpdateProject(p) \/ Lifecycle(p)
          BY <4>1 DEF UpdateProject, Lifecycle, ChangeRest
        <4>2. CASE CountBlockers(p)
          BY <2>2, <4>2 DEF CountBlockers, ChangeEnds, ChangeRest, ChangeType
        <4>3. CASE UpdateProjectWrite(p) \/ LifecycleWrite(p) \/ FinishTask(p)
          BY <4>3 DEF UpdateProjectWrite, LifecycleWrite, FinishTask, ChangeEnds, ChangeRest
        <4> QED
          BY <2>3, <2>7, <4>1, <4>2, <4>3
      <3>3. Opening' = Opening
        BY <2>2, <3>1, <3>2 DEF Opening, ChangeAt
      <3> HIDE DEF n
      <3>4. IsFiniteSet(Opening') /\ Cardinality(Opening') = n
        BY <2>2, <3>3 DEF n
      <3>5. work' \in Nat
        BY <2>1 DEF ProjectInv, ProjectRows
      <3> QED
        BY <2>1, <2>2, <2>4, <3>1, <3>4, <3>5 DEF ProjectTyped, n
    <2> QED
      BY <2>5, <2>6, <2>7
  <1> QED
    BY <1>1, <1>2, <1>3
-----------------------------------------------------------------------------
(* Subtasks: what is written next was read when fewer requests had begun.       *)

PlanBounded(r, n) == /\ r.version < n \/ (r.pc = "idle" /\ r.version = 0)
                     /\ r.depth \in 1..MaxLevels
TreeTyped == /\ LevelsInv
             /\ asked \in 0..MaxAsked
             /\ \A t \in Nodes : node[t].version <= asked
             /\ \A p \in Handlers : PlanBounded(plan[p], asked)

LEMMA TreeTypes ==
  /\ TreeInit => TreeTyped
  /\ TreeTyped => TreeTypeOK
  /\ TreeTyped /\ TreeNext => TreeTyped'
  <1>0. MaxAsked \in Nat /\ MaxLevels \in Nat /\ 1 \in 1..MaxLevels
    BY TreeAssumption
  <1>1. ASSUME TreeInit PROVE TreeTyped
    <2>1. LevelsInv /\ asked = 0 /\ plan = [p \in Handlers |-> PlanRest]
      BY <1>1, LevelsInitial DEF TreeInit
    <2>2. \A t \in Nodes : node[t].version = 0
      BY <1>1 DEF TreeInit, NoTask
    <2>3. PlanBounded(PlanRest, 0)
      BY <1>0 DEF PlanBounded, PlanRest
    <2> QED
      BY <1>0, <2>1, <2>2, <2>3 DEF TreeTyped
  <1>2. ASSUME TreeTyped PROVE TreeTypeOK
    <2>1. node \in [Nodes -> TreeNode] /\ plan \in [Handlers -> TreePlan] /\ raced \in BOOLEAN /\ regrown \in BOOLEAN
      BY <1>2 DEF TreeTyped, LevelsInv, TreeInv, TreeRows
    <2>2. asked \in Nat /\ asked <= MaxAsked /\ asked \in 0..MaxAsked
      BY <1>0, <1>2 DEF TreeTyped
    <2>3. \A t \in Nodes : node[t] \in NodeType
      BY <1>0, <1>2, <2>1, <2>2 DEF TreeTyped, TreeNode, NodeType
    <2>4. ASSUME NEW p \in Handlers
          PROVE  plan[p] \in
                   [pc : {"idle", "up", "down", "write"}, t : Nodes \cup {NoNode}, project : Projects \cup {NoProject},
                    parent : Nodes \cup {NoNode}, sets : BOOLEAN, version : 0..MaxAsked, at : Nodes \cup {NoNode},
                    depth : 1..MaxLevels, front : SUBSET Nodes, below : SUBSET Nodes]
      <3>1. plan[p] \in TreePlan /\ PlanBounded(plan[p], asked)
        BY <1>2, <2>1 DEF TreeTyped
      <3>2. plan[p].version \in Nat
        BY <3>1 DEF TreePlan
      <3>3. plan[p].version \in 0..MaxAsked /\ plan[p].depth \in 1..MaxLevels
        BY <1>0, <2>2, <3>1, <3>2 DEF PlanBounded
      <3> QED
        BY <3>1, <3>3 DEF TreePlan
    <2> QED
      BY <2>1, <2>2, <2>3, <2>4 DEF TreeTypeOK
  <1>3. ASSUME TreeTyped, TreeNext PROVE TreeTyped'
    <2>1. LevelsInv'
      BY <1>3, LevelsSteps DEF TreeTyped
    <2>2. node \in [Nodes -> TreeNode] /\ plan \in [Handlers -> TreePlan]
      BY <1>3 DEF TreeTyped, LevelsInv, TreeInv, TreeRows
    <2>3. asked \in Nat /\ asked <= MaxAsked /\ asked \in 0..MaxAsked
          /\ (\A t \in Nodes : node[t].version <= asked /\ node[t].version \in Nat)
          /\ (\A p \in Handlers : PlanBounded(plan[p], asked) /\ plan[p].version \in Nat)
      BY <1>0, <1>3, <2>2 DEF TreeTyped, TreeNode, TreePlan
    <2>4. \A n : PlanBounded(PlanRest, n)
      BY <1>0 DEF PlanBounded, PlanRest
    <2>5. ASSUME Asks PROVE /\ asked' = asked + 1 /\ asked' \in 0..MaxAsked
                            /\ \A t \in Nodes : node[t].version + 1 <= asked'
                            /\ \A p \in Handlers : PlanBounded(plan[p], asked')
      BY <1>0, <2>3, <2>5 DEF Asks, PlanBounded
    <2>6. CASE DeleteTask \/ RestoreTask
      <3>1. PICK t \in Nodes : \E s : node' = [node EXCEPT ![t].state = s, ![t].version = @ + 1]
        BY <2>6 DEF DeleteTask, RestoreTask, InState
      <3>2. Asks /\ plan' = plan
        BY <2>6 DEF DeleteTask, RestoreTask
      <3>3. \A u \in Nodes : node'[u].version <= asked'
        <4>1. PICK s : node' = [node EXCEPT ![t].state = s, ![t].version = @ + 1]
          BY <3>1
        <4>2. node'[t].version = node[t].version + 1 /\ \A u \in Nodes \ {t} : node'[u] = node[u]
          BY <2>2, <4>1 DEF TreeNode
        <4> QED
          BY <2>3, <2>5, <3>2, <4>2
      <3> QED
        BY <2>1, <2>5, <3>2, <3>3 DEF TreeTyped
    <2>7. ASSUME NEW p \in Handlers, CreateTask(p) \/ UpdateTask(p) PROVE TreeTyped'
      <3>1. \E t, version, home, parent, sets :
              Check(p, t, version, home, parent, sets) /\ (version = 0 \/ \E u \in Nodes : version = node[u].version)
        <4>1. CASE CreateTask(p)
          BY <4>1 DEF CreateTask
        <4>2. CASE UpdateTask(p)
          BY <4>2 DEF UpdateTask, InState
        <4> QED
          BY <2>7, <4>1, <4>2
      <3>2. PICK t, version, home, parent, sets :
              Check(p, t, version, home, parent, sets) /\ (version = 0 \/ \E u \in Nodes : version = node[u].version)
        BY <3>1
      <3> DEFINE r == [PlanRest EXCEPT !.pc = "up", !.t = t, !.version = version, !.project = home,
                                       !.parent = parent, !.sets = sets, !.at = parent]
      <3>3. Asks /\ node' = node /\ plan' = [plan EXCEPT ![p] = r]
        BY <3>2 DEF Check
      <3>4. r.version = version /\ r.depth = 1
        BY DEF PlanRest
      <3> HIDE DEF r
      <3>5. PlanBounded(r, asked')
        BY <1>0, <2>3, <2>5, <3>2, <3>3, <3>4 DEF PlanBounded
      <3>6. \A q \in Handlers : PlanBounded(plan'[q], asked')
        BY <2>2, <2>5, <3>3, <3>5
      <3>7. \A u \in Nodes : node'[u].version <= asked'
        BY <2>3, <2>5, <3>3
      <3> QED
        BY <2>1, <2>5, <3>3, <3>6, <3>7 DEF TreeTyped
    <2>8. ASSUME NEW p \in Handlers, WalkUp(p) \/ WalkDown(p) PROVE TreeTyped'
      <3>1. plan' = [plan EXCEPT ![p] = PlanRest] \/ \E r : /\ plan' = [plan EXCEPT ![p] = r]
                       /\ r.version = plan[p].version
                       /\ \/ r.depth = plan[p].depth \/ r.depth = 1
                          \/ plan[p].depth < MaxLevels /\ r.depth = plan[p].depth + 1
        <4>0. plan[p] \in TreePlan /\ plan = [q \in Handlers |-> plan[q]]
          BY <2>2
        <4>1. CASE WalkUp(p)
          BY <4>0, <4>1 DEF WalkUp, EndPlan, TreePlan
        <4>2. CASE WalkDown(p)
          BY <4>0, <4>2 DEF WalkDown, EndPlan, TreePlan
        <4> QED
          BY <2>8, <4>1, <4>2
      <3>2. UNCHANGED <<node, asked>> /\ plan[p].pc # "idle"
        BY <2>8 DEF WalkUp, WalkDown, PlanAt
      <3>3. \A q \in Handlers : PlanBounded(plan'[q], asked)
        <4>1. PlanBounded(plan[p], asked) /\ plan[p].version < asked
          BY <2>3, <3>2 DEF PlanBounded
        <4>2. CASE plan' = [plan EXCEPT ![p] = PlanRest]
          BY <2>2, <2>3, <2>4, <4>2
        <4>3. ASSUME NEW r, plan' = [plan EXCEPT ![p] = r], r.version = plan[p].version,
                     r.depth = plan[p].depth \/ r.depth = 1 \/ (plan[p].depth < MaxLevels /\ r.depth = plan[p].depth + 1)
              PROVE  \A q \in Handlers : PlanBounded(plan'[q], asked)
          <5>1. PlanBounded(r, asked)
            BY <1>0, <4>1, <4>3 DEF PlanBounded
          <5> QED
            BY <2>2, <2>3, <4>3, <5>1
        <4> QED
          BY <3>1, <4>2, <4>3
      <3> QED
        BY <2>1, <2>3, <3>2, <3>3 DEF TreeTyped
    <2>9. ASSUME NEW p \in Handlers, InsertTask(p) \/ PlaceTask(p) PROVE TreeTyped'
      <3>1. asked' = asked /\ plan' = [plan EXCEPT ![p] = PlanRest] /\ plan[p].pc = "write"
        BY <2>9 DEF InsertTask, PlaceTask, EndPlan, PlanAt
      <3>2. \A q \in Handlers : PlanBounded(plan'[q], asked)
        BY <2>2, <2>3, <2>4, <3>1
      <3>3. \A u \in Nodes : node'[u].version <= asked
        <4>1. CASE InsertTask(p)
          BY <2>2, <2>3, <4>1 DEF InsertTask
        <4>2. CASE PlaceTask(p)
          <5> DEFINE r == plan[p]
          <5>1. r.version < asked
            BY <2>3, <3>1 DEF PlanBounded
          <5>2. CASE node[r.t].version = r.version
            <6>1. \A n \in Nodes : IF n = r.t THEN node'[n].version = node[n].version + 1
                                   ELSE node'[n].version = node[n].version
              <7> SUFFICES ASSUME NEW n \in Nodes
                           PROVE  IF n = r.t THEN node'[n].version = node[n].version + 1
                                  ELSE node'[n].version = node[n].version
                OBVIOUS
              <7>1. node[n] \in TreeNode
                BY <2>2
              <7>2. node'[n] = IF n = r.t
                               THEN [node[n] EXCEPT !.project = r.project, !.version = @ + 1,
                                                    !.parent = IF r.sets THEN r.parent ELSE @]
                               ELSE IF node[r.t].project # r.project /\ node[n].parent = r.t
                               THEN [node[n] EXCEPT !.parent = NoNode] ELSE node[n]
                BY <4>2, <5>2 DEF PlaceTask
              <7> QED
                BY <7>1, <7>2 DEF TreeNode
            <6> QED
              BY <2>3, <5>1, <5>2, <6>1
          <5>3. CASE node[r.t].version # r.version
            BY <2>3, <4>2, <5>3 DEF PlaceTask
          <5> QED
            BY <5>2, <5>3
        <4> QED
          BY <2>9, <4>1, <4>2
      <3> QED
        BY <2>1, <2>3, <3>1, <3>2, <3>3 DEF TreeTyped
    <2> QED
      BY <1>3, <2>6, <2>7, <2>8, <2>9 DEF TreeNext
  <1> QED
    BY <1>1, <1>2, <1>3
-----------------------------------------------------------------------------
(* Ranks: a request adds a gap to the highest at most, when it writes; till then *)
(* it is counted as served and has added none.                                   *)

Moving == {p \in Handlers : ~MoveAt(p, "idle")}
Room == (Cardinality(Cards) + served - Cardinality(Moving)) * RankGap
CardWithin(r, b, s) == r.rank <= b /\ r.version <= s + 1
MoveWithin(m, b, s) == /\ m.beforeRank <= b /\ m.afterRank <= b /\ m.version <= s
                       /\ \A c \in DOMAIN m.order : m.order[c] <= b
Within(b, s) == /\ \A c \in Cards : CardWithin(card[c], b, s)
                /\ \A p \in Handlers : MoveWithin(move[p], b, s)
RankBounds == IsFiniteSet(Moving) /\ Cardinality(Moving) <= served /\ Within(Room, served)
RankTyped == RankInv /\ RankBounds

LEMMA RoomAdds ==
  ASSUME NEW n \in Nat, NEW k \in Nat
  PROVE  /\ n * RankGap \in Nat /\ (n + 1) * RankGap = n * RankGap + RankGap
         /\ k <= n => k * RankGap <= n * RankGap
  <1>1. RankGap \in Nat
    BY CardAssumption
  <1>2. n * RankGap \in Nat /\ (n + 1) * RankGap = n * RankGap + RankGap
    BY <1>1
  <1>3. ASSUME k <= n PROVE k * RankGap <= n * RankGap
    <2>1. n = k + (n - k) /\ n - k \in Nat
      BY <1>3
    <2>2. (n - k) * RankGap \in Nat
      BY <1>1, <2>1
    <2>3. n * RankGap = k * RankGap + (n - k) * RankGap
      BY <1>1
    <2> QED
      BY <1>1, <2>2, <2>3
  <1> QED
    BY <1>2, <1>3

LEMMA BetweenBounded ==
  ASSUME NEW k \in Nat, NEW b \in 0..k, NEW a \in 0..k
  PROVE  RankBetween(b, a) <= k + RankGap /\ NextRankAfter(b) <= k + RankGap
  <1>1. RankGap \in Nat /\ b \in Nat /\ a \in Nat /\ b <= k /\ a <= k
    BY CardAssumption
  <1>2. (b + a) \div 2 <= k
    BY <1>1, SMT
  <1>3. (b + a) \div 2 \in Nat
    BY <1>1, SMT
  <1> QED
    BY <1>1, <1>2, <1>3 DEF RankBetween, NextRankAfter

\* How many cards there are is all that numbering afresh uses.
LEMMA CountsFew ==
  ASSUME IsFiniteSet(Cards), NEW S \in SUBSET Cards, NEW n \in Nat, Cardinality(Cards) <= n
  PROVE  Cardinality(S) * RankGap \in Nat /\ Cardinality(S) * RankGap <= n * RankGap
  <1>1. Cardinality(S) \in Nat /\ Cardinality(S) <= Cardinality(Cards) /\ Cardinality(Cards) \in Nat
    BY FS_Subset, FS_CardinalityType
  <1> QED
    BY <1>1, RoomAdds

LEMMA RestWithin == \A b, s \in Nat : MoveWithin(MoveRest, b, s)
  BY DEF MoveWithin, MoveRest

LEMMA WithinMore ==
  ASSUME RankInv, NEW b \in Nat, NEW s \in Nat, Within(b, s), NEW d \in Nat, NEW n \in Nat, b <= d, s <= n
  PROVE  Within(d, n)
  <1>1. ASSUME NEW c \in Cards PROVE CardWithin(card[c], d, n)
    <2>1. card[c].rank \in Nat /\ card[c].version \in Nat
      BY DEF RankInv, RankedCard
    <2> QED
      BY <2>1 DEF Within, CardWithin
  <1>2. ASSUME NEW p \in Handlers PROVE MoveWithin(move[p], d, n)
    <2>1. move[p] \in MoveType
      BY DEF RankInv
    <2>2. move[p].beforeRank \in Nat /\ move[p].afterRank \in Nat /\ move[p].version \in Nat
          /\ \A c \in DOMAIN move[p].order : move[p].order[c] \in Nat
      BY <2>1 DEF MoveType, Orders
    <2> QED
      BY <2>2 DEF Within, MoveWithin
  <1> QED
    BY <1>1, <1>2 DEF Within

LEMMA RanksTyped ==
  ASSUME IsFiniteSet(Cards), HandlingTypeOK, RankTyped
  PROVE  RankTypeOK
  <1> DEFINE n == Cardinality(Cards) + served - Cardinality(Moving)
             top == MaxServed + Cardinality(Cards) + 1
  <1>1. n \in Nat /\ top \in Nat /\ n <= top /\ served \in Nat /\ served <= MaxServed /\ MaxServed \in Nat
    BY FS_CardinalityType, HandlingAssumption DEF HandlingTypeOK, RankTyped, RankBounds
  <1>2. Room = n * RankGap /\ Ranks = 1..top * RankGap
    BY DEF Room, Ranks
  <1> HIDE DEF n, top
  <1>3. Room \in Nat /\ Room <= top * RankGap /\ top * RankGap \in Nat
    BY <1>1, <1>2, RoomAdds
  <1>4. \A r \in Nat : r <= Room => r \in Ranks \cup {0}
    BY <1>2, <1>3
  <1>5. ASSUME NEW c \in Cards PROVE card[c] \in CardType
    <2>1. card[c] \in RankedCard /\ CardWithin(card[c], Room, served)
      BY DEF RankTyped, RankBounds, RankInv, Within
    <2>2. card[c].rank \in Ranks \cup {0}
      BY <1>4, <2>1 DEF RankedCard, CardWithin
    <2>3. card[c].version \in 0..MaxServed + 1
      BY <1>1, <2>1 DEF RankedCard, CardWithin
    <2> QED
      BY <2>1, <2>2, <2>3 DEF RankedCard, CardType
  <1>6. ASSUME NEW p \in Handlers
        PROVE  /\ move[p].pc \in {"idle", "create", "place", "renumber"}
               /\ {move[p].card, move[p].before, move[p].after} \subseteq Cards \cup {NoCard}
               /\ {move[p].beforeRank, move[p].afterRank} \subseteq Ranks \cup {0}
               /\ DOMAIN move[p].order \subseteq Cards
    <2>1. move[p] \in MoveType /\ MoveWithin(move[p], Room, served)
      BY DEF RankTyped, RankBounds, RankInv, Within
    <2>2. move[p].beforeRank \in Ranks \cup {0} /\ move[p].afterRank \in Ranks \cup {0}
      BY <1>4, <2>1 DEF MoveType, MoveWithin
    <2>3. DOMAIN move[p].order \subseteq Cards
      BY <2>1 DEF MoveType, Orders
    <2> QED
      BY <2>1, <2>2, <2>3 DEF MoveType, Neighbours
  <1> QED
    BY <1>5, <1>6 DEF RankTyped, RankInv, RankTypeOK
LEMMA Rooms ==
  ASSUME IsFiniteSet(Cards), IsFiniteSet(Moving), served \in Nat, Cardinality(Moving) <= served, NEW p \in Handlers
  PROVE  /\ Room \in Nat /\ Cardinality(Cards) * RankGap <= Room
         /\ p \notin Moving /\ Moving' = Moving \cup {p} /\ served' = served + 1 =>
              IsFiniteSet(Moving') /\ Cardinality(Moving') <= served' /\ Room' = Room
         /\ p \in Moving /\ Moving' = Moving \ {p} /\ served' = served =>
              IsFiniteSet(Moving') /\ Cardinality(Moving') <= served' /\ Room' = Room + RankGap
         /\ Moving' = Moving /\ served' = served + 1 =>
              IsFiniteSet(Moving') /\ Cardinality(Moving') <= served' /\ Room' = Room + RankGap
         /\ Moving' = Moving /\ served' = served =>
              IsFiniteSet(Moving') /\ Cardinality(Moving') <= served' /\ Room' = Room
  <1> DEFINE all == Cardinality(Cards)
             m == Cardinality(Moving)
  <1>1. all \in Nat /\ m \in Nat /\ RankGap \in Nat
    BY FS_CardinalityType, CardAssumption
  <1>2. Room = (all + served - m) * RankGap
    BY DEF Room
  <1>3. \A k : Cardinality(Moving') = k => Room' = (all + served' - k) * RankGap
    BY DEF Room
  <1>4. /\ IsFiniteSet(Moving \cup {p}) /\ IsFiniteSet(Moving \ {p})
        /\ p \notin Moving => Cardinality(Moving \cup {p}) = m + 1
        /\ p \in Moving => Cardinality(Moving \ {p}) = m - 1
    BY OneMoreOrLess
  <1>5. m <= served
    OBVIOUS
  <1> HIDE DEF all, m
  <1>6. PICK n \in Nat : n = all + served - m /\ all <= n
    BY <1>1, <1>5
  <1>7. Room = n * RankGap /\ n * RankGap \in Nat /\ (n + 1) * RankGap = n * RankGap + RankGap /\ all * RankGap <= n * RankGap
    BY <1>1, <1>2, <1>6, RoomAdds
  <1>8. ASSUME p \notin Moving, Moving' = Moving \cup {p}, served' = served + 1
        PROVE  IsFiniteSet(Moving') /\ Cardinality(Moving') <= served' /\ Room' = Room
    <2>1. Cardinality(Moving') = m + 1 /\ IsFiniteSet(Moving')
      BY <1>4, <1>8
    <2>2. Room' = (all + served' - (m + 1)) * RankGap
      BY <1>3, <2>1
    <2>3. all + served' - (m + 1) = n
      BY <1>1, <1>6, <1>8
    <2> QED
      BY <1>1, <1>5, <1>7, <1>8, <2>1, <2>2, <2>3
  <1>9. ASSUME p \in Moving, Moving' = Moving \ {p}, served' = served
        PROVE  IsFiniteSet(Moving') /\ Cardinality(Moving') <= served' /\ Room' = Room + RankGap
    <2>1. Cardinality(Moving') = m - 1 /\ IsFiniteSet(Moving')
      BY <1>4, <1>9
    <2>2. Room' = (all + served' - (m - 1)) * RankGap
      BY <1>3, <2>1
    <2>3. all + served' - (m - 1) = n + 1
      BY <1>1, <1>6, <1>9
    <2> QED
      BY <1>1, <1>5, <1>7, <1>9, <2>1, <2>2, <2>3
  <1>10. ASSUME Moving' = Moving, served' = served + 1
         PROVE  IsFiniteSet(Moving') /\ Cardinality(Moving') <= served' /\ Room' = Room + RankGap
    <2>1. Cardinality(Moving') = m /\ IsFiniteSet(Moving')
      BY <1>10 DEF m
    <2>2. Room' = (all + served' - m) * RankGap
      BY <1>3, <2>1
    <2>3. all + served' - m = n + 1
      BY <1>1, <1>6, <1>10
    <2> QED
      BY <1>1, <1>5, <1>7, <1>10, <2>1, <2>2, <2>3
  <1>11. ASSUME Moving' = Moving, served' = served
         PROVE  IsFiniteSet(Moving') /\ Cardinality(Moving') <= served' /\ Room' = Room
    BY <1>11 DEF Room
  <1> QED
    BY <1>7, <1>8, <1>9, <1>10, <1>11 DEF all

LEMMA RankKept ==
  ASSUME RankTyped, Room \in Nat, served \in Nat, Room' \in Nat, served' \in Nat, Room <= Room', served <= served',
         \A c \in Cards : card'[c] = card[c] \/ CardWithin(card'[c], Room', served'),
         \A p \in Handlers : move'[p] = move[p] \/ MoveWithin(move'[p], Room', served')
  PROVE  Within(Room, served)'
  <1>1. PICK d, n : d = Room' /\ n = served'
    OBVIOUS
  <1>2. Within(d, n)
    BY <1>1, WithinMore DEF RankTyped, RankBounds
  <1>3. /\ \A c \in Cards : CardWithin(card'[c], d, n)
        /\ \A p \in Handlers : MoveWithin(move'[p], d, n)
    BY <1>1, <1>2 DEF Within
  <1> QED
    BY <1>1, <1>3 DEF Within

\* What becomes of the moves under way.
LEMMA MovingNext ==
  ASSUME RankInv, NEW p \in Handlers
  PROVE  /\ MoveEnds(p) => Moving' = Moving \ {p} /\ move'[p] = MoveRest
         /\ \A m : m.pc # "idle" /\ move' = [move EXCEPT ![p] = m] => Moving' = Moving \cup {p} /\ move'[p] = m
         /\ \A m : MoveEnds(p) \/ move' = [move EXCEPT ![p] = m] => \A q \in Handlers \ {p} : move'[q] = move[q]
  <1>1. move \in [Handlers -> MoveType]
    BY DEF RankInv
  <1>2. MoveEnds(p) => Moving' = Moving \ {p} /\ move'[p] = MoveRest
    BY <1>1, RestKnows DEF MoveEnds, Moving, MoveAt
  <1>3. ASSUME NEW m, m.pc # "idle", move' = [move EXCEPT ![p] = m]
        PROVE  Moving' = Moving \cup {p} /\ move'[p] = m
    BY <1>1, <1>3 DEF Moving, MoveAt
  <1>4. \A m : MoveEnds(p) \/ move' = [move EXCEPT ![p] = m] => \A q \in Handlers \ {p} : move'[q] = move[q]
    BY <1>1 DEF MoveEnds
  <1> QED
    BY <1>2, <1>3, <1>4

LEMMA HighestInColumn ==
  ASSUME RankInv, IsFiniteSet(Cards), Here # {}
  PROVE  \E r \in {card[d].rank : d \in Here} : \A d \in Here : card[d].rank <= r
  <1> DEFINE rank == [d \in Here |-> card[d].rank]
  <1>1. IsFiniteSet(Here) /\ rank \in [Here -> Nat]
    BY FS_Subset DEF Here, RankInv, RankedCard
  <1>2. \E r \in {rank[d] : d \in Here} : \A d \in Here : rank[d] <= r
    <2> HIDE DEF rank
    <2> QED
      BY <1>1, HighestExists
  <1> QED
    BY <1>2

LEMMA RankBegins ==
  ASSUME RankTyped, HandlingTypeOK, IsFiniteSet(Cards), NEW p \in Handlers, MoveBegins(p), card' = card, NEW m,
         move' = [move EXCEPT ![p] = m], m.pc # "idle", MoveWithin(m, Room, served + 1)
  PROVE  RankBounds'
  <1>1. RankInv /\ served \in Nat /\ served' = served + 1 /\ p \notin Moving
    BY HandlingAssumption DEF RankTyped, HandlingTypeOK, MoveBegins, Starts, Moving
  <1>2. Moving' = Moving \cup {p} /\ move'[p] = m /\ \A q \in Handlers \ {p} : move'[q] = move[q]
    BY <1>1, MovingNext
  <1>3. Room \in Nat /\ IsFiniteSet(Moving') /\ Cardinality(Moving') <= served' /\ Room' = Room
    BY <1>1, <1>2, Rooms DEF RankTyped, RankBounds
  <1>4. \A q \in Handlers : move'[q] = move[q] \/ MoveWithin(move'[q], Room', served')
    BY <1>1, <1>2, <1>3
  <1>5. Within(Room, served)'
    BY <1>1, <1>3, <1>4, RankKept
  <1> QED
    BY <1>3, <1>5 DEF RankBounds

LEMMA RankEnds ==
  ASSUME RankTyped, HandlingTypeOK, IsFiniteSet(Cards), NEW p \in Handlers, ~MoveAt(p, "idle"), MoveEnds(p),
         served' = served,
         \A c \in Cards : card'[c] = card[c] \/ CardWithin(card'[c], Room + RankGap, served)
  PROVE  RankBounds'
  <1>1. RankInv /\ served \in Nat /\ served' \in Nat /\ served <= served' /\ p \in Moving
    BY HandlingAssumption DEF RankTyped, HandlingTypeOK, Moving
  <1>2. Moving' = Moving \ {p} /\ move'[p] = MoveRest /\ \A q \in Handlers \ {p} : move'[q] = move[q]
    BY <1>1, MovingNext
  <1>3. /\ Room \in Nat /\ IsFiniteSet(Moving') /\ Cardinality(Moving') <= served' /\ Room' = Room + RankGap
        /\ Room' \in Nat /\ Room <= Room'
    BY <1>1, <1>2, Rooms, CardAssumption DEF RankTyped, RankBounds
  <1>4. \A q \in Handlers : move'[q] = move[q] \/ MoveWithin(move'[q], Room', served')
    BY <1>1, <1>2, <1>3, RestWithin
  <1>5. Within(Room, served)'
    BY <1>1, <1>3, <1>4, RankKept
  <1> QED
    BY <1>3, <1>5 DEF RankBounds

LEMMA RankReads ==
  ASSUME RankTyped, HandlingTypeOK, IsFiniteSet(Cards), NEW p \in Handlers, CreateRead(p) \/ MoveRead(p) \/ Leave(p)
  PROVE  RankBounds'
  <1>0. MoveBegins(p)
    BY DEF CreateRead, MoveRead, Leave
  <1>1. RankInv /\ served \in Nat /\ served' = served + 1 /\ MoveBegins(p) /\ Within(Room, served)
    <2>1. served' = served + 1
      BY <1>0 DEF MoveBegins, Starts
    <2>2. served \in Nat
      BY HandlingAssumption DEF HandlingTypeOK
    <2> QED
      BY <1>0, <2>1, <2>2 DEF RankTyped, RankBounds
  <1>2. Room \in Nat /\ (Moving' = Moving => IsFiniteSet(Moving') /\ Cardinality(Moving') <= served' /\ Room' = Room + RankGap)
    BY <1>1, Rooms DEF RankTyped, RankBounds
  <1>3. \A c \in Cards : card[c].rank \in 0..Room /\ card[c].version \in 0..served + 1
    BY <1>1, <1>2 DEF RankInv, RankedCard, Within, CardWithin
  <1>4. CASE CreateRead(p)
    <2> DEFINE last == IF Here = {} THEN 0
                       ELSE CHOOSE r \in {card[d].rank : d \in Here} : \A d \in Here : card[d].rank <= r
    <2>1. PICK c \in Cards : move' = [move EXCEPT ![p] =
              [MoveRest EXCEPT !.pc = "create", !.card = c, !.beforeRank = last]] /\ card' = card
      BY <1>4 DEF CreateRead
    <2>2. last \in 0..Room
      <3>1. CASE Here = {}
        BY <1>2, <3>1
      <3>2. CASE Here # {}
        <4>1. \E r \in {card[d].rank : d \in Here} : \A d \in Here : card[d].rank <= r
          BY <3>2, HighestInColumn DEF RankTyped
        <4>2. last \in {card[d].rank : d \in Here}
          BY <3>2, <4>1
        <4> HIDE DEF last
        <4> QED
          BY <1>3, <4>2 DEF Here
      <3> QED
        BY <3>1, <3>2
    <2> HIDE DEF last
    <2> DEFINE m == [MoveRest EXCEPT !.pc = "create", !.card = c, !.beforeRank = last]
    <2>3. m.pc # "idle" /\ MoveWithin(m, Room, served + 1)
      BY <1>1, <1>2, <2>2 DEF MoveWithin, MoveRest
    <2> HIDE DEF m
    <2>4. move' = [move EXCEPT ![p] = m] /\ card' = card
      BY <2>1 DEF m
    <2> QED
      BY <1>1, <2>3, <2>4, RankBegins
  <1>5. CASE MoveRead(p)
    <2>1. PICK c \in Cards, b \in Here \cup {NoCard}, a \in Here \cup {NoCard} :
            /\ move' = [move EXCEPT ![p] = Placing(c, card[c].version, b, a, Neighbour(b), Neighbour(a))]
            /\ card' = card
      BY <1>5 DEF MoveRead, Placing
    <2>2. \A n \in Here \cup {NoCard} : Neighbour(n) \in 0..Room
      BY <1>2, <1>3 DEF Neighbour, Here
    <2>3. PICK k, i, j : k = card[c].version /\ i = Neighbour(b) /\ j = Neighbour(a)
      OBVIOUS
    <2>4. k \in 0..served + 1 /\ i \in 0..Room /\ j \in 0..Room
      BY <1>3, <2>2, <2>3
    <2> DEFINE m == Placing(c, k, b, a, i, j)
    <2>5. m.pc # "idle" /\ MoveWithin(m, Room, served + 1)
      BY <1>1, <1>2, <2>4 DEF MoveWithin, MoveRest, Placing
    <2>6. move' = [move EXCEPT ![p] = m] /\ card' = card
      BY <2>1, <2>3
    <2> HIDE DEF m
    <2> QED
      BY <1>1, <2>5, <2>6, RankBegins
  <1>6. CASE Leave(p)
    <2>1. PICK c \in Here : card' = [card EXCEPT ![c].state = "away", ![c].version = @ + 1] /\ move' = move
      BY <1>6 DEF Leave
    <2>2. Moving' = Moving /\ Room' = Room + RankGap
      BY <1>2, <2>1 DEF Moving, MoveAt
    <2>3. Room' \in Nat /\ Room <= Room' /\ served' \in Nat /\ served <= served'
      BY <1>1, <1>2, <2>2, CardAssumption
    <2>4. card'[c].rank = card[c].rank /\ card'[c].version = card[c].version + 1
          /\ \A d \in Cards \ {c} : card'[d] = card[d]
      BY <1>1, <2>1 DEF RankInv, RankedCard, Here
    <2>5. CardWithin(card'[c], Room', served')
      BY <1>1, <1>2, <1>3, <2>2, <2>3, <2>4 DEF CardWithin, Here
    <2>6. Within(Room, served)'
      BY <1>1, <1>2, <2>1, <2>3, <2>4, <2>5, RankKept
    <2> QED
      BY <1>2, <2>2, <2>6 DEF RankBounds
  <1> QED
    BY <1>4, <1>5, <1>6
LEMMA RankWrites ==
  ASSUME RankTyped, HandlingTypeOK, IsFiniteSet(Cards), NEW p \in Handlers,
         CreateWrite(p) \/ MoveWrite(p) \/ RenumberWrite(p)
  PROVE  RankBounds'
  <1> DEFINE m == move[p]
  <1>1. RankInv /\ served \in Nat /\ served' = served /\ ~MoveAt(p, "idle") /\ m \in MoveType /\ MoveKnows(m)
        /\ MoveWithin(m, Room, served)
    BY HandlingAssumption DEF RankTyped, RankBounds, RankInv, Within, HandlingTypeOK, CreateWrite, MoveWrite,
       RenumberWrite, MoveAt
  <1>2. /\ Room \in Nat /\ Cardinality(Cards) * RankGap <= Room
        /\ Moving' = Moving => IsFiniteSet(Moving') /\ Cardinality(Moving') <= served' /\ Room' = Room
    BY <1>1, Rooms DEF RankTyped, RankBounds
  <1>3. m.card \in Cards /\ m.beforeRank \in 0..Room /\ m.afterRank \in 0..Room /\ m.version \in 0..served
    BY <1>1, <1>2 DEF MoveType, MoveKnows, MoveWithin, MoveAt
  <1>4. \A c \in Cards : card[c] \in RankedCard /\ card[c].rank \in 0..Room /\ card[c].version \in 0..served + 1
    BY <1>1, <1>2 DEF RankTyped, RankBounds, RankInv, RankedCard, Within, CardWithin
  <1>5. ASSUME NEW r, MoveEnds(p), r.rank <= Room + RankGap, r.version <= served + 1, card' = [card EXCEPT ![m.card] = r]
        PROVE  RankBounds'
    <2>1. \A c \in Cards : card'[c] = card[c] \/ CardWithin(card'[c], Room + RankGap, served)
      BY <1>1, <1>3, <1>5 DEF RankInv, CardWithin
    <2> QED
      BY <1>1, <1>5, <2>1, RankEnds
  <1>6. CASE CreateWrite(p)
    <2> DEFINE r == [state |-> "here", rank |-> NextRankAfter(m.beforeRank), version |-> 1]
    <2>1. r.rank <= Room + RankGap /\ r.version <= served + 1
      BY <1>1, <1>2, <1>3, BetweenBounded
    <2>2. MoveEnds(p) /\ card' = [card EXCEPT ![m.card] = r]
      BY <1>6 DEF CreateWrite
    <2> HIDE DEF r, m
    <2> QED
      BY <1>5, <2>1, <2>2
  <1>7. CASE MoveWrite(p)
    <2> DEFINE rank == RankBetween(m.beforeRank, m.afterRank)
    <2>1. rank <= Room + RankGap
      BY <1>2, <1>3, BetweenBounded
    <2>2. CASE rank # 0
      <3> DEFINE r == [state |-> "here", rank |-> rank, version |-> card[m.card].version + 1]
      <3>1. MoveEnds(p) /\ card' = Place(p, rank)
        BY <1>7, <2>2 DEF MoveWrite
      <3>2. CASE card[m.card].version = m.version
        <4>1. card' = [card EXCEPT ![m.card] = r]
          BY <1>1, <3>1, <3>2 DEF Place, RankInv
        <4>2. r.rank <= Room + RankGap /\ r.version <= served + 1
          BY <1>1, <1>3, <2>1, <3>2
        <4> HIDE DEF r, m
        <4> QED
          BY <1>5, <3>1, <4>1, <4>2
      <3>3. CASE card[m.card].version # m.version
        <4>1. card' = card
          BY <3>1, <3>3 DEF Place
        <4> QED
          BY <1>1, <3>1, <4>1, RankEnds
      <3> QED
        BY <3>2, <3>3
    <2>3. CASE rank = 0
      <3>1. move' = [move EXCEPT ![p].pc = "renumber", ![p].order = Renumbered] /\ card' = card
        BY <1>7, <2>3 DEF MoveWrite
      <3> DEFINE n == [m EXCEPT !.pc = "renumber", !.order = Renumbered]
      <3>2. \A c \in DOMAIN Renumbered : Renumbered[c] <= Room
        <4>1. \A S \in SUBSET Cards : Cardinality(S) * RankGap \in Nat /\ Cardinality(S) * RankGap <= Cardinality(Cards) * RankGap
          BY CountsFew, FS_CardinalityType
        <4>2. Cardinality(Cards) * RankGap \in Nat
          BY <4>1
        <4>3. \A S \in SUBSET Cards : Cardinality(S) * RankGap <= Room
          BY <1>2, <4>1, <4>2
        <4>4. \A c \in Here : {d \in Here : Precedes(d, c)} \in SUBSET Cards
          BY DEF Here
        <4> QED
          BY <4>3, <4>4 DEF Renumbered
      <3>3. n.pc = "renumber" /\ n.order = Renumbered /\ n.beforeRank = m.beforeRank /\ n.afterRank = m.afterRank
            /\ n.version = m.version
        BY <1>1 DEF MoveType
      <3>4. move' = [move EXCEPT ![p] = n]
        BY <1>1, <3>1 DEF RankInv
      <3> HIDE DEF n
      <3>5. MoveWithin(n, Room, served)
        BY <1>1, <3>2, <3>3 DEF MoveWithin
      <3>6. Moving' = Moving \cup {p} /\ p \in Moving /\ move'[p] = n /\ \A q \in Handlers \ {p} : move'[q] = move[q]
        BY <1>1, <3>3, <3>4, MovingNext DEF Moving
      <3>7. Moving' = Moving
        BY <3>6
      <3>8. Room' = Room /\ IsFiniteSet(Moving') /\ Cardinality(Moving') <= served'
        BY <1>2, <3>7
      <3>9. Within(Room, served)'
        <4>1. \A q \in Handlers : move'[q] = move[q] \/ MoveWithin(move'[q], Room', served')
          BY <1>1, <3>5, <3>6, <3>8
        <4>2. \A c \in Cards : card'[c] = card[c]
          BY <3>1
        <4>3. Room' \in Nat /\ served' \in Nat /\ Room <= Room' /\ served <= served'
          BY <1>1, <1>2, <3>8
        <4> QED
          BY <1>1, <1>2, <4>1, <4>2, <4>3, RankKept
      <3> QED
        BY <3>8, <3>9 DEF RankBounds
    <2> QED
      BY <2>2, <2>3
  <1>8. CASE RenumberWrite(p)
    <2>1. /\ MoveAt(p, "renumber") /\ MoveEnds(p)
          /\ card' = IF card[m.card].version # m.version THEN card ELSE [c \in Cards |-> Renumbers(m, c)]
      BY <1>8, RenumberWrites
    <2>2. \A c \in Cards : NewRank(m, c) \in 0..Room
      <3>1. \A c \in DOMAIN m.order : m.order[c] \in 0..Room
        BY <1>1, <1>2 DEF MoveType, Orders, MoveWithin
      <3> QED
        BY <1>4, <3>1 DEF NewRank
    <2>3. Lands(m) <= Room + RankGap
      <3> DEFINE b == NewNeighbour(m, m.before)
                 a == NewNeighbour(m, m.after)
      <3>1. m.before \in Neighbours /\ m.after \in Neighbours
        BY <1>1 DEF MoveType
      <3>2. b \in 0..Room /\ a \in 0..Room
        BY <1>2, <2>2, <3>1 DEF NewNeighbour, Neighbours
      <3>3. RankBetween(b, a) <= Room + RankGap /\ NextRankAfter(b) <= Room + RankGap
        <4> HIDE DEF b, a
        <4> QED
          BY <1>2, <3>2, BetweenBounded
      <3> QED
        BY <3>3 DEF Lands
    <2>4. ASSUME NEW c \in Cards PROVE card'[c] = card[c] \/ CardWithin(card'[c], Room + RankGap, served)
      <3>1. CASE card[m.card].version # m.version
        BY <2>1, <3>1
      <3>2. CASE card[m.card].version = m.version
        <4>1. card'[c] = Renumbers(m, c)
          BY <2>1, <3>2
        <4>2. card[c] \in RankedCard /\ NewRank(m, c) \in 0..Room /\ card[c].version <= served + 1
          BY <1>4, <2>2
        <4>3. Renumbers(m, c).rank <= Room + RankGap /\ Renumbers(m, c).version <= served + 1
          <5> HIDE DEF m
          <5>1. CASE c = m.card
            BY <1>1, <1>3, <2>3, <5>1 DEF Renumbers
          <5>2. CASE c # m.card
            BY <1>2, <4>2, <5>2, CardAssumption DEF Renumbers, RankedCard
          <5> QED
            BY <5>1, <5>2
        <4> QED
          BY <4>1, <4>3 DEF CardWithin
      <3> QED
        BY <3>1, <3>2
    <2> QED
      BY <1>1, <2>1, <2>4, RankEnds
  <1> QED
    BY <1>6, <1>7, <1>8

LEMMA RankBoundsInitial == ASSUME IsFiniteSet(Cards), HandlingInit, RankInit PROVE RankTyped
  <1>1. RankInv /\ served = 0
    BY RankInitial DEF HandlingInit
  <1>2. Moving = {} /\ IsFiniteSet(Moving) /\ Cardinality(Moving) = 0
    BY FS_EmptySet, RestKnows DEF RankInit, Moving, MoveAt
  <1>3. Room = Cardinality(Cards) * RankGap /\ Room \in Nat
    BY <1>1, <1>2, FS_CardinalityType, CardAssumption DEF Room
  <1>4. \A p \in Handlers : MoveWithin(move[p], Room, served)
    BY <1>1, <1>3, RestWithin DEF RankInit
  <1>5. ASSUME NEW c \in Cards PROVE CardWithin(card[c], Room, served)
    <2>1. PICK here \in SUBSET Cards : card =
            [d \in Cards |-> IF d \in here
              THEN [state |-> "here", rank |-> Cardinality({e \in here : e <= d}) * RankGap, version |-> 1]
              ELSE [state |-> "unborn", rank |-> 0, version |-> 0]]
      BY DEF RankInit
    <2>2. Cardinality({e \in here : e <= c}) * RankGap <= Cardinality(Cards) * RankGap
      <3>1. {e \in here : e <= c} \in SUBSET Cards
        OBVIOUS
      <3> QED
        BY <3>1, CountsFew, FS_CardinalityType
    <2>3. CASE c \in here
      <3>1. card[c].rank = Cardinality({e \in here : e <= c}) * RankGap /\ card[c].version = 1
        BY <2>1, <2>3
      <3> QED
        BY <1>1, <1>3, <2>2, <3>1 DEF CardWithin
    <2>4. CASE c \notin here
      <3>1. card[c].rank = 0 /\ card[c].version = 0
        BY <2>1, <2>4
      <3> QED
        BY <1>1, <1>3, <3>1 DEF CardWithin
    <2> QED
      BY <2>3, <2>4
  <1> QED
    BY <1>1, <1>2, <1>4, <1>5 DEF RankTyped, RankBounds, Within

LEMMA RankTypes ==
  ASSUME IsFiniteSet(Cards)
  PROVE  /\ HandlingInit /\ RankInit => RankTyped
         /\ RankTyped /\ HandlingTypeOK => RankTypeOK
         /\ RankTyped /\ HandlingTypeOK /\ RankNext => RankTyped'
  <1>1. ASSUME RankTyped, HandlingTypeOK, RankNext PROVE RankBounds'
    <2>1. PICK p \in Handlers :
            CreateRead(p) \/ CreateWrite(p) \/ Leave(p) \/ MoveRead(p) \/ MoveWrite(p) \/ RenumberWrite(p)
      BY <1>1 DEF RankNext
    <2> QED
      BY <1>1, <2>1, RankReads, RankWrites
  <1>2. RankTyped /\ HandlingTypeOK /\ RankNext => RankTyped'
    BY <1>1, RankSteps DEF RankTyped
  <1> QED
    BY <1>2, RankBoundsInitial, RanksTyped
-----------------------------------------------------------------------------
(* The workflow.  A publication is one of the requests counted.                   *)

FlowKnows(r) == /\ r.seen \in [Items -> ItemType] /\ r.applied \in Versions /\ r.to \in Stages
                /\ r.status \in TaskStatuses /\ DOMAIN r.mapping \subseteq StageNames \cup TaskStatuses
FlowWithin(r, a, s) == r.pc \in {"remap", "commit"} => a <= s
FlowBounds == /\ applied <= served + 1
              /\ \A t \in Items : item[t].status \in TaskStatuses
              /\ \A p \in Handlers : FlowKnows(flowReq[p]) /\ FlowWithin(flowReq[p], applied, served)
              /\ refused \in BOOLEAN /\ strayed \subseteq Items /\ loose \subseteq Items /\ handed \subseteq Items
FlowTyped == FlowInv /\ FlowBounds

LEMMA FlowNumbers ==
  ASSUME FlowTyped, HandlingTypeOK
  PROVE  /\ served \in 0..MaxServed /\ served \in Nat /\ MaxServed \in Nat /\ applied \in Nat /\ applied >= 1
         /\ applied \in Versions /\ flow[applied] \in ContentType
         /\ item \in [Items -> ItemType]
  <1>1. served \in 0..MaxServed /\ MaxServed \in Nat /\ applied \in Nat /\ applied >= 1 /\ applied <= served + 1
    BY HandlingAssumption DEF HandlingTypeOK, FlowTyped, FlowInv, FlowRows, FlowBounds
  <1>2. applied \in Versions /\ 1..applied \subseteq Versions /\ applied \in 1..applied
    BY <1>1 DEF Versions
  <1>3. flow[applied] \in ContentType /\ \A v \in 1..applied : flow[v].active \subseteq StageNames
    BY <1>2 DEF FlowTyped, FlowInv, FlowRows, ContentType
  <1>4. ASSUME NEW t \in Items PROVE item[t] \in ItemType
    <2>1. /\ item[t] \in ItemRow /\ item[t].status \in TaskStatuses
          /\ item[t].stage = NoStage \/ Known(item[t].stage)
      BY DEF FlowTyped, FlowInv, FlowRows, FlowBounds, Placed
    <2>2. item[t].version \in Nat /\ item[t].stage \in (Nat \X StageNames) \cup {NoStage} /\ item[t].state \in TaskStates
      BY <2>1 DEF ItemRow, AnyStage
    <2>4. item[t].stage \in Stages
      <3>1. CASE item[t].stage = NoStage
        BY <3>1 DEF Stages
      <3>2. CASE item[t].stage # NoStage
        <4>1. PICK s : s = item[t].stage /\ s \in Nat \X StageNames /\ s[1] \in 1..applied
          BY <2>1, <2>2, <3>2 DEF Known, KnownTo
        <4>2. s \in Versions \X StageNames
          BY <1>2, <4>1
        <4> QED
          BY <4>1, <4>2 DEF Stages
      <3> QED
        BY <3>1, <3>2
    <2> QED
      BY <2>1, <2>2, <2>4 DEF ItemType, ItemRow, TaskStates
  <1>5. item \in [Items -> ItemType]
    BY <1>4 DEF FlowTyped, FlowInv, FlowRows
  <1> QED
    BY <1>1, <1>2, <1>3, <1>5

LEMMA FlowTypes == FlowTyped /\ HandlingTypeOK => FlowTypeOK
  <1> SUFFICES ASSUME FlowTyped, HandlingTypeOK PROVE FlowTypeOK
    OBVIOUS
  <1>1. /\ applied \in Nat /\ applied >= 1 /\ applied \in Versions /\ item \in [Items -> ItemType]
        /\ served \in 0..MaxServed /\ MaxServed \in Nat /\ applied <= served + 1
    BY FlowNumbers DEF FlowTyped, FlowBounds
  <1>2. DOMAIN flow \subseteq Versions /\ (\A v \in DOMAIN flow : flow[v] \in ContentType) /\ applied \in DOMAIN flow
    <2>1. 1..applied \subseteq Versions /\ applied \in 1..applied
      BY <1>1 DEF Versions
    <2> QED
      BY <2>1 DEF FlowTyped, FlowInv, FlowRows
  <1>3. draft.state \in {"none", "DRAFT", "ARCHIVED"} /\ draft.content \in ContentType
    BY DEF FlowTyped, FlowInv, FlowRows
  <1>4. ASSUME NEW p \in Handlers
        PROVE  LET r == flowReq[p] IN
                 /\ r.pc \in {"idle", "draft", "edit", "create", "move", "depend", "remap", "commit"}
                 /\ r.t \in Items /\ r.seen \in [Items -> ItemType] /\ r.applied \in Versions
                 /\ r.content \in ContentType /\ r.to \in Stages
                 /\ DOMAIN r.mapping \subseteq StageNames \cup TaskStatuses
    <2>1. flowReq[p] \in FlowReqType /\ FlowKnows(flowReq[p])
      BY DEF FlowTyped, FlowInv, FlowRows, FlowBounds
    <2> QED
      BY <2>1 DEF FlowReqType, FlowKnows
  <1> QED
    BY <1>1, <1>2, <1>3, <1>4 DEF FlowTypeOK, FlowTyped, FlowBounds

LEMMA RestKnown ==
  FlowKnows(FlowRest) /\ FlowRest.pc = "idle" /\ \A a, s : FlowWithin(FlowRest, a, s)
  <1>1. AbsentItem \in ItemType
    <2>1. "TODO" \in TaskStatuses
      BY StageAssumption DEF TaskStatuses
    <2>2. NoStage \in Stages
      BY DEF Stages
    <2> QED
      BY <2>1, <2>2 DEF AbsentItem, ItemType
  <1>2. /\ FlowRest.seen = [t \in Items |-> AbsentItem] /\ FlowRest.applied = 1 /\ FlowRest.to = NoStage
        /\ FlowRest.status = "TODO" /\ DOMAIN FlowRest.mapping = {} /\ FlowRest.pc = "idle"
    BY DEF FlowRest
  <1>3. 1 \in Versions /\ NoStage \in Stages /\ "TODO" \in TaskStatuses
    BY HandlingAssumption, StageAssumption DEF Versions, Stages, TaskStatuses
  <1> QED
    BY <1>1, <1>2, <1>3 DEF FlowKnows, FlowWithin
\* A request comes to stand elsewhere, and nothing else that is bounded changes.
LEMMA FlowAsked ==
  ASSUME FlowTyped, HandlingTypeOK, FlowInv', NEW p \in Handlers, served' = served \/ served' = served + 1,
         UNCHANGED <<applied, item, strayed, loose, handed>>, refused' \in BOOLEAN,
         NEW r, flowReq' = [flowReq EXCEPT ![p] = r], FlowKnows(r), FlowWithin(r, applied, served')
  PROVE  FlowTyped'
  <1>1. served \in Nat /\ applied \in Nat /\ applied <= served + 1 /\ served <= served' /\ served' \in Nat
    BY FlowNumbers DEF FlowTyped, FlowBounds
  <1>2. ASSUME NEW q \in Handlers PROVE FlowKnows(flowReq'[q]) /\ FlowWithin(flowReq'[q], applied, served')
    <2>1. CASE q = p
      BY <2>1 DEF FlowTyped, FlowInv, FlowRows
    <2>2. CASE q # p
      <3>1. flowReq'[q] = flowReq[q] /\ FlowKnows(flowReq[q]) /\ FlowWithin(flowReq[q], applied, served)
            /\ flowReq[q] \in FlowReqType
        BY <2>2 DEF FlowTyped, FlowInv, FlowRows, FlowBounds
      <3>3. FlowWithin(flowReq[q], applied, served')
        BY <1>1, <3>1 DEF FlowWithin
      <3> QED
        BY <3>1, <3>3
    <2> QED
      BY <2>1, <2>2
  <1>3. \A t \in Items : item'[t].status \in TaskStatuses
    BY DEF FlowTyped, FlowBounds
  <1>4. applied' <= served' + 1 /\ strayed' \subseteq Items /\ loose' \subseteq Items /\ handed' \subseteq Items
    <2>0. PICK a \in Nat, n \in Nat, m \in Nat : a = applied /\ n = served /\ m = served'
      BY <1>1
    <2>1. a <= n + 1 /\ n <= m
      BY <1>1, <2>0
    <2>3. a <= m + 1
      BY <2>1
    <2>4. applied' <= served' + 1
      BY <2>0, <2>3
    <2>2. strayed \subseteq Items /\ loose \subseteq Items /\ handed \subseteq Items
      BY DEF FlowTyped, FlowBounds
    <2> QED
      BY <2>2, <2>4
  <1>5. \A q \in Handlers : FlowKnows(flowReq[q])' /\ FlowWithin(flowReq'[q], applied', served')
    BY <1>2 DEF FlowKnows
  <1>6. FlowBounds'
    BY <1>3, <1>4, <1>5 DEF FlowBounds
  <1> QED
    BY <1>6 DEF FlowTyped

\* A task is written.
LEMMA FlowWritten ==
  ASSUME FlowTyped, HandlingTypeOK, FlowInv', NEW p \in Handlers, served' = served \/ served' = served + 1,
         applied' = applied, refused' = refused, strayed' \subseteq Items, loose' \subseteq Items,
         handed' \subseteq Items,
         flowReq' = [flowReq EXCEPT ![p] = FlowRest] \/ flowReq' = flowReq,
         NEW t \in Items, NEW new, item' = [item EXCEPT ![t] = new],
         new.status \in TaskStatuses
  PROVE  FlowTyped'
  <1>1. served \in Nat /\ applied \in Nat /\ applied <= served + 1 /\ served <= served' /\ served' \in Nat
    BY FlowNumbers DEF FlowTyped, FlowBounds
  <1>2. ASSUME NEW q \in Handlers PROVE FlowKnows(flowReq'[q]) /\ FlowWithin(flowReq'[q], applied, served')
    <2>1. flowReq'[q] = FlowRest \/ flowReq'[q] = flowReq[q]
      BY DEF FlowTyped, FlowInv, FlowRows
    <2>2. CASE flowReq'[q] = FlowRest
      BY <2>2, RestKnown
    <2>3. CASE flowReq'[q] = flowReq[q]
      <3>1. FlowKnows(flowReq[q]) /\ FlowWithin(flowReq[q], applied, served) /\ flowReq[q] \in FlowReqType
        BY DEF FlowTyped, FlowInv, FlowRows, FlowBounds
      <3>3. FlowWithin(flowReq[q], applied, served')
        BY <1>1, <3>1 DEF FlowWithin
      <3> QED
        BY <2>3, <3>1, <3>3
    <2> QED
      BY <2>1, <2>2, <2>3
  <1>3. ASSUME NEW u \in Items PROVE item'[u].status \in TaskStatuses
    BY DEF FlowTyped, FlowInv, FlowRows, FlowBounds
  <1>4. applied' <= served' + 1 /\ refused' \in BOOLEAN
    <2>0. PICK a \in Nat, n \in Nat, m \in Nat : a = applied /\ n = served /\ m = served'
      BY <1>1
    <2>1. a <= n + 1 /\ n <= m
      BY <1>1, <2>0
    <2>3. a <= m + 1
      BY <2>1
    <2>4. applied' <= served' + 1
      BY <2>0, <2>3
    <2>2. refused \in BOOLEAN
      BY DEF FlowTyped, FlowBounds
    <2> QED
      BY <2>2, <2>4
  <1>5. \A q \in Handlers : FlowKnows(flowReq[q])' /\ FlowWithin(flowReq'[q], applied', served')
    BY <1>2 DEF FlowKnows
  <1>6. FlowBounds'
    BY <1>3, <1>4, <1>5 DEF FlowBounds
  <1> QED
    BY <1>6 DEF FlowTyped

LEMMA FlowAsks ==
  ASSUME FlowTyped, HandlingTypeOK, FlowInv', NEW p \in Handlers,
         TaskRead(p) \/ Publish(p) \/ DraftStep(p)
  PROVE  FlowTyped'
  <1>1. /\ applied \in Nat /\ served \in Nat /\ applied \in Versions /\ flow[applied] \in ContentType
        /\ item \in [Items -> ItemType] /\ applied <= served + 1 /\ refused \in BOOLEAN
        /\ FlowKnows(FlowRest) /\ FlowRest.pc = "idle"
    BY FlowNumbers, RestKnown DEF FlowTyped, FlowBounds
  <1>2. /\ FlowRest = [pc |-> "idle", t |-> FlowRest.t, seen |-> FlowRest.seen, applied |-> 1, content |-> Empty,
                       to |-> NoStage, status |-> "TODO", mapping |-> FlowRest.mapping]
    BY DEF FlowRest
  <1>3. CASE CreateItem(p)
    <2>1. PICK t \in Items, st \in TaskStatuses : LET fit == StageFor(applied, st) IN
            \E to \in IF fit = {} THEN {NoStage} ELSE {applied} \X fit :
              FlowStep(p, [FlowRest EXCEPT !.pc = "create", !.t = t, !.applied = applied, !.to = to, !.status = st])
      BY <1>3 DEF CreateItem
    <2> DEFINE fit == StageFor(applied, st)
    <2>2. fit \subseteq StageNames
      BY <1>1, StageForActive DEF ContentType
    <2>3. PICK to \in IF fit = {} THEN {NoStage} ELSE {applied} \X fit :
            FlowStep(p, [FlowRest EXCEPT !.pc = "create", !.t = t, !.applied = applied, !.to = to, !.status = st])
      BY <2>1
    <2> HIDE DEF fit
    <2>4. to \in Stages
      BY <1>1, <2>2, <2>3 DEF Stages
    <2> DEFINE r == [FlowRest EXCEPT !.pc = "create", !.t = t, !.applied = applied, !.to = to, !.status = st]
    <2>5. r.pc = "create" /\ r.seen = FlowRest.seen /\ r.applied = applied /\ r.to = to /\ r.status = st
          /\ r.mapping = FlowRest.mapping
      BY <1>2
    <2>6. flowReq' = [flowReq EXCEPT ![p] = r] /\ UNCHANGED <<applied, item, strayed, loose, handed, refused>> /\ served' = served + 1
      BY <1>3, <2>3 DEF CreateItem, FlowStep, FlowBegins, Starts
    <2> HIDE DEF r
    <2>7. FlowKnows(r) /\ FlowWithin(r, applied, served')
      BY <1>1, <2>4, <2>5 DEF FlowKnows, FlowWithin
    <2> QED
      BY <1>1, <2>6, <2>7, FlowAsked
  <1>4. CASE MoveItem(p) \/ BringItem(p)
    <2>1. PICK t \in Items, k \in flow[applied].active :
            FlowStep(p, [FlowRest EXCEPT !.pc = "move", !.t = t, !.seen = item, !.to = <<applied, k>>])
      BY <1>4 DEF MoveItem, BringItem, Live
    <2>2. k \in StageNames /\ t \in Items /\ <<applied, k>> \in Stages
      BY <1>1, <2>1 DEF ContentType, Stages
    <2> DEFINE r == [FlowRest EXCEPT !.pc = "move", !.t = t, !.seen = item, !.to = <<applied, k>>]
    <2>3. r.pc = "move" /\ r.t = t /\ r.seen = item /\ r.applied = FlowRest.applied /\ r.to = <<applied, k>>
          /\ r.status = FlowRest.status /\ r.mapping = FlowRest.mapping
      BY <1>2
    <2>4. flowReq' = [flowReq EXCEPT ![p] = r] /\ UNCHANGED <<applied, item, strayed, loose, handed, refused>> /\ served' = served + 1
      BY <1>4, <2>1 DEF MoveItem, BringItem, FlowStep, FlowBegins, Starts
    <2> HIDE DEF r
    <2>6. FlowKnows(r) /\ FlowWithin(r, applied, served')
      BY <1>1, <2>2, <2>3 DEF FlowKnows, FlowWithin
    <2> QED
      BY <1>1, <2>4, <2>6, FlowAsked
  <1>5. CASE Publish(p)
    <2> DEFINE r == [FlowRest EXCEPT !.pc = "remap", !.applied = applied, !.content = draft.content]
    <2>1. r.pc = "remap" /\ r.seen = FlowRest.seen /\ r.applied = applied /\ r.to = FlowRest.to
          /\ r.status = FlowRest.status /\ r.mapping = FlowRest.mapping
      BY <1>2
    <2>2. flowReq' = [flowReq EXCEPT ![p] = r] /\ UNCHANGED <<applied, item, strayed, loose, handed, refused>> /\ served' = served + 1
      BY <1>5 DEF Publish, FlowStep, FlowBegins, Starts
    <2> HIDE DEF r
    <2>3. FlowKnows(r) /\ FlowWithin(r, applied, served')
      BY <1>1, <2>1, <2>2 DEF FlowKnows, FlowWithin
    <2> QED
      BY <1>1, <2>2, <2>3, FlowAsked
  <1>6. ASSUME NEW r, FlowKnows(r), r.pc \in {"draft", "edit", "idle"}, flowReq' = [flowReq EXCEPT ![p] = r], DraftStep(p)
        PROVE  FlowTyped'
    <2>1. /\ UNCHANGED <<applied, item, strayed, loose, handed>> /\ refused' \in BOOLEAN
          /\ served' = served \/ served' = served + 1
      BY <1>1, <1>6 DEF DraftStep, AskDraft, CreateDraft, EditRead, EditWrite, FlowBegins, FlowGoes, Starts
    <2>2. FlowWithin(r, applied, served')
      BY <1>6 DEF FlowWithin
    <2> QED
      BY <1>6, <2>1, <2>2, FlowAsked
  <1>7. CASE AskDraft(p)
    <2> DEFINE r == [FlowRest EXCEPT !.pc = "draft", !.content = flow[applied]]
    <2>1. r.pc = "draft" /\ r.seen = FlowRest.seen /\ r.applied = FlowRest.applied /\ r.to = FlowRest.to
          /\ r.status = FlowRest.status /\ r.mapping = FlowRest.mapping
      BY <1>2
    <2>2. flowReq' = [flowReq EXCEPT ![p] = r] /\ DraftStep(p)
      BY <1>7 DEF AskDraft, FlowStep, DraftStep
    <2> HIDE DEF r
    <2>3. FlowKnows(r)
      BY <1>1, <2>1 DEF FlowKnows
    <2> QED
      BY <1>6, <2>1, <2>2, <2>3
  <1>8. CASE EditRead(p)
    <2> DEFINE r == [FlowRest EXCEPT !.pc = "edit"]
    <2>1. r.pc = "edit" /\ r.seen = FlowRest.seen /\ r.applied = FlowRest.applied /\ r.to = FlowRest.to
          /\ r.status = FlowRest.status /\ r.mapping = FlowRest.mapping
      BY <1>2
    <2>2. flowReq' = [flowReq EXCEPT ![p] = r] /\ DraftStep(p)
      BY <1>8 DEF EditRead, FlowStep, DraftStep
    <2> HIDE DEF r
    <2>3. FlowKnows(r)
      BY <1>1, <2>1 DEF FlowKnows
    <2> QED
      BY <1>6, <2>1, <2>2, <2>3
  <1>9. CASE CreateDraft(p) \/ EditWrite(p)
    <2>1. flowReq' = [flowReq EXCEPT ![p] = FlowRest] /\ DraftStep(p)
      BY <1>9 DEF CreateDraft, EditWrite, FlowEnds, DraftStep
    <2> QED
      BY <1>1, <1>6, <2>1
  <1>10. CASE BlockItem(p) \/ ReleaseItem(p)
    <2>1. PICK t \in Items, st \in {"BLOCKED", "TODO"} :
            FlowStep(p, [FlowRest EXCEPT !.pc = "depend", !.t = t, !.status = st])
      BY <1>10 DEF BlockItem, ReleaseItem
    <2> DEFINE r == [FlowRest EXCEPT !.pc = "depend", !.t = t, !.status = st]
    <2>2. r.pc = "depend" /\ r.seen = FlowRest.seen /\ r.applied = FlowRest.applied /\ r.to = FlowRest.to
          /\ r.status = st /\ r.mapping = FlowRest.mapping
      BY <1>2
    <2>3. flowReq' = [flowReq EXCEPT ![p] = r] /\ UNCHANGED <<applied, item, strayed, loose, handed, refused>> /\ served' = served + 1
      BY <1>10, <2>1 DEF BlockItem, ReleaseItem, FlowStep, FlowBegins, Starts
    <2> HIDE DEF r
    <2>4. st \in TaskStatuses
      BY StageAssumption DEF TaskStatuses
    <2>5. FlowKnows(r) /\ FlowWithin(r, applied, served')
      BY <1>1, <2>2, <2>4 DEF FlowKnows, FlowWithin
    <2> QED
      BY <1>1, <2>3, <2>5, FlowAsked
  <1> QED
    BY <1>3, <1>4, <1>5, <1>7, <1>8, <1>9, <1>10 DEF TaskRead, DraftStep
TaskWrite(p) == \/ InsertItem(p) \/ MoveItemWrite(p) \/ LeaveItem(p) \/ DeleteItem(p) \/ RestoreItem(p)
                \/ DependencyWrite(p)
LEMMA FlowWrites == ASSUME FlowTyped, HandlingTypeOK, FlowInv', NEW p \in Handlers, TaskWrite(p) PROVE FlowTyped'
  <1> DEFINE r == flowReq[p]
  <1>1. /\ applied \in Nat /\ served \in Nat /\ item \in [Items -> ItemRow] /\ FlowRows
        /\ r \in FlowReqType /\ FlowKnows(r) /\ FlowWithin(r, applied, served) /\ Safely(r)
        /\ \A t \in Items : item[t].status \in TaskStatuses
        /\ strayed \subseteq Items /\ loose \subseteq Items /\ handed \subseteq Items /\ refused \in BOOLEAN
    <2>1. applied \in Nat /\ served \in Nat
      BY FlowNumbers
    <2> QED
      BY <2>1 DEF FlowTyped, FlowInv, FlowRows, FlowBounds
  <1>2. FlowKnows(FlowRest) /\ FlowWithin(FlowRest, applied, served') /\ r.t \in Items
    BY <1>1, RestKnown DEF FlowReqType
  <1>3. CASE InsertItem(p)
    <2> DEFINE new == [AbsentItem EXCEPT !.state = "live", !.stage = r.to, !.status = r.status, !.version = 1]
    <2>1. /\ item' = [item EXCEPT ![r.t] = new] /\ flowReq' = [flowReq EXCEPT ![p] = FlowRest]
          /\ applied' = applied /\ refused' = refused /\ served' = served /\ handed' = handed
      BY <1>3 DEF InsertItem, FlowEnds, FlowGoes
    <2>2. new.status \in TaskStatuses
      BY <1>1 DEF FlowKnows, AbsentItem
    <2>3. strayed' \subseteq Items /\ loose' \subseteq Items /\ handed' \subseteq Items
      BY <1>1, <1>2, <1>3, <2>1 DEF InsertItem
    <2> HIDE DEF new, r
    <2> QED
      BY <1>2, <2>1, <2>2, <2>3, FlowWritten
  <1>4. CASE MoveItemWrite(p)
    <2> DEFINE fresh == item[r.t].version = r.seen[r.t].version
               new == OnStage(item[r.t], r.to)
    <2>1. flowReq' = [flowReq EXCEPT ![p] = FlowRest] /\ UNCHANGED <<applied, refused, served>> /\ r.pc = "move"
      BY <1>4 DEF MoveItemWrite, FlowEnds, FlowGoes, FlowAt
    <2>2. CASE ~fresh
      <3>1. UNCHANGED <<item, strayed, loose, handed>>
        BY <1>4, <2>2 DEF MoveItemWrite
      <3> QED
        BY <1>1, <1>2, <2>1, <3>1, FlowAsked
    <2>3. CASE fresh
      <3>1. item[r.t] \in ItemRow /\ r.to \in AnyStage /\ Known(r.to)
        BY <1>1, <1>2, <2>1 DEF FlowReqType, Safely, MovesSafely
      <3>2. r.to[2] \in StageNames
        BY <1>1, <3>1 DEF Known, KnownTo, FlowRows, ContentType
      <3>3. new.status = StatusOf[r.to[2]]
        BY <3>1, <3>2, RowMoved
      <3>4. new.status \in TaskStatuses
        BY <3>2, <3>3 DEF TaskStatuses
      <3>5. item' = [item EXCEPT ![r.t] = new]
        BY <1>4, <2>3 DEF MoveItemWrite
      <3>6. strayed' \subseteq Items /\ loose' \subseteq Items /\ handed' \subseteq Items
        BY <1>1, <1>2, <1>4 DEF MoveItemWrite
      <3> HIDE DEF new, r
      <3>7. served' = served /\ applied' = applied /\ refused' = refused
        BY <2>1
      <3> QED
        BY <1>2, <2>1, <3>4, <3>5, <3>6, <3>7, FlowWritten
    <2> QED
      BY <2>2, <2>3
  <1>5. CASE DeleteItem(p) \/ RestoreItem(p)
    <2>1. PICK t \in Items, state \in {"live", "deleted"} :
            item' = [item EXCEPT ![t].state = state, ![t].version = @ + 1]
      BY <1>5 DEF DeleteItem, RestoreItem, Live
    <2>2. /\ flowReq' = flowReq /\ applied' = applied /\ refused' = refused /\ served' = served + 1
          /\ loose' \subseteq Items /\ strayed' \subseteq Items /\ handed' \subseteq Items
      BY <1>1, <1>5 DEF DeleteItem, RestoreItem, FlowBegins, Starts
    <2> DEFINE new == KeptRow(item[t], state)
    <2>3. new.status = item[t].status /\ item[t].status \in TaskStatuses
      BY <1>1, <2>1 DEF KeptRow, ItemRow
    <2>4. item' = [item EXCEPT ![t] = new]
      BY <1>1, <2>1 DEF ItemRow, KeptRow
    <2>5. new.status \in TaskStatuses
      BY <2>3
    <2> HIDE DEF new, r
    <2> QED
      BY <2>1, <2>2, <2>4, <2>5, FlowWritten
  <1>6. CASE LeaveItem(p)
    <2>1. PICK t \in Items : item' = [item EXCEPT ![t].state = "away", ![t].stage = NoStage, ![t].version = @ + 1]
      BY <1>6 DEF LeaveItem, Live
    <2>2. /\ flowReq' = flowReq /\ applied' = applied /\ refused' = refused /\ served' = served + 1
          /\ loose' \subseteq Items /\ strayed' \subseteq Items /\ handed' \subseteq Items
      BY <1>1, <1>6 DEF LeaveItem, FlowBegins, Starts
    <2> DEFINE new == LeftRow(item[t])
    <2>3. new.status = item[t].status /\ item[t].status \in TaskStatuses
      BY <1>1, <2>1 DEF LeftRow, ItemRow
    <2>4. item' = [item EXCEPT ![t] = new]
      BY <1>1, <2>1 DEF ItemRow, LeftRow
    <2>5. new.status \in TaskStatuses
      BY <2>3
    <2> HIDE DEF new, r
    <2> QED
      BY <2>1, <2>2, <2>4, <2>5, FlowWritten
  <1>7. CASE DependencyWrite(p)
    <2> DEFINE new == Handed(item[r.t], r.status)
    <2>1. /\ item' = [item EXCEPT ![r.t] = new] /\ flowReq' = [flowReq EXCEPT ![p] = FlowRest]
          /\ applied' = applied /\ refused' = refused /\ served' = served
      BY <1>7 DEF DependencyWrite, FlowEnds, FlowGoes
    <2>2. new.status \in TaskStatuses
      BY <1>1, <1>2 DEF FlowKnows, Handed, ItemRow
    <2>3. strayed' \subseteq Items /\ loose' \subseteq Items /\ handed' \subseteq Items
      BY <1>1, <1>2, <1>7 DEF DependencyWrite
    <2> HIDE DEF new, r
    <2> QED
      BY <1>2, <2>1, <2>2, <2>3, FlowWritten
  <1> QED
    BY <1>3, <1>4, <1>5, <1>6, <1>7 DEF TaskWrite

\* The statuses and stages in use are among those of the model.
LEMMA FlowMaps == ASSUME FlowTyped, HandlingTypeOK, FlowInv', NEW p \in Handlers, Remap(p) PROVE FlowTyped'
  <1> DEFINE old == flowReq[p]
             staged == {item[t].stage[2] : t \in {t \in Live : item[t].stage # NoStage}}
             bare == {item[t].status : t \in {t \in Live : item[t].stage = NoStage}}
  <1>1. /\ applied \in Nat /\ served \in Nat /\ item \in [Items -> ItemType] /\ refused \in BOOLEAN
        /\ old \in FlowReqType /\ FlowKnows(old) /\ FlowWithin(old, applied, served)
    BY FlowNumbers DEF FlowTyped, FlowBounds, FlowInv, FlowRows
  <1>2. UNCHANGED <<applied, item, strayed, loose, handed, refused, served>> /\ old.pc = "remap"
    BY DEF Remap, FlowGoes, FlowAt
  <1>3. CASE FlowEnds(p)
    <2>1. flowReq' = [flowReq EXCEPT ![p] = FlowRest] /\ FlowKnows(FlowRest) /\ FlowWithin(FlowRest, applied, served')
      BY <1>3, RestKnown DEF FlowEnds
    <2>2. served' = served /\ UNCHANGED <<applied, item, strayed, loose, handed>> /\ refused' \in BOOLEAN
      BY <1>1, <1>2
    <2> QED
      BY <2>1, <2>2, FlowAsked
  <1>4. CASE ~FlowEnds(p)
    <2>1. PICK f \in [staged \cup bare -> old.content.active] :
            flowReq' = [flowReq EXCEPT ![p] = [old EXCEPT !.pc = "commit", !.seen = item, !.mapping = f]]
      BY <1>4 DEF Remap, FlowStep
    <2>2. ASSUME NEW t \in Live PROVE item[t].status \in TaskStatuses /\ (item[t].stage # NoStage => item[t].stage[2] \in StageNames)
      <3>1. item[t] \in ItemType
        BY <1>1 DEF Live
      <3>2. item[t].stage # NoStage => item[t].stage \in Versions \X StageNames
        BY <3>1 DEF ItemType, Stages
      <3> QED
        BY <3>1, <3>2 DEF ItemType
    <2>3. staged \cup bare \subseteq StageNames \cup TaskStatuses
      BY <2>2
    <2> HIDE DEF staged, bare
    <2> DEFINE r == [old EXCEPT !.pc = "commit", !.seen = item, !.mapping = f]
    <2>4. r.pc = "commit" /\ r.seen = item /\ r.mapping = f /\ r.applied = old.applied /\ r.to = old.to /\ r.status = old.status
      BY <1>1 DEF FlowReqType
    <2>5. DOMAIN f \subseteq StageNames \cup TaskStatuses
      BY <2>1, <2>3
    <2>6. flowReq' = [flowReq EXCEPT ![p] = r]
      BY <2>1
    <2> HIDE DEF r
    <2>7. FlowKnows(r)
      BY <1>1, <2>4, <2>5 DEF FlowKnows
    <2>8. FlowWithin(r, applied, served')
      BY <1>1, <1>2, <2>4 DEF FlowWithin
    <2>9. served' = served /\ UNCHANGED <<applied, item, strayed, loose, handed>> /\ refused' \in BOOLEAN
      BY <1>1, <1>2
    <2> HIDE DEF old
    <2> QED
      BY <2>6, <2>7, <2>8, <2>9, FlowAsked
  <1> QED
    BY <1>3, <1>4

\* The publication, which no other is beside.
LEMMA FlowCommits == ASSUME FlowTyped, HandlingTypeOK, FlowInv', NEW p \in Handlers, PublishCommit(p) PROVE FlowTyped'
  <1> DEFINE r == flowReq[p]
             read == {t \in Items : r.seen[t].state = "live"}
             unmoved == \A t \in read : item[t].state = "live" /\ item[t].version = r.seen[t].version
  <1>1. /\ r \in FlowReqType /\ Safely(r) /\ r.pc = "commit" /\ r.applied = applied /\ Consuming(p)
        /\ item \in [Items -> ItemRow] /\ flowReq \in [Handlers -> FlowReqType]
        /\ FlowWithin(r, applied, served) /\ refused \in BOOLEAN /\ strayed \subseteq Items /\ loose \subseteq Items
        /\ handed \subseteq Items
    BY DEF FlowTyped, FlowBounds, FlowInv, FlowRows, PublishCommit, FlowAt, Safely, PublishesSafely, Consuming
  <1>2. applied \in Nat /\ served \in Nat /\ applied <= served
    BY <1>1, FlowNumbers DEF FlowWithin
  <1>3. flowReq' = [flowReq EXCEPT ![p] = FlowRest] /\ served' = served /\ refused' = refused
    BY DEF PublishCommit, FlowEnds, FlowGoes
  <1>4. CASE ~unmoved
    <2>1. UNCHANGED <<item, applied, strayed, loose, handed>>
      BY <1>4 DEF PublishCommit
    <2>2. FlowKnows(FlowRest) /\ FlowWithin(FlowRest, applied, served')
      BY RestKnown
    <2>3. refused' \in BOOLEAN
      BY <1>1, <1>3
    <2> HIDE DEF unmoved, r, read
    <2> QED
      BY <1>3, <2>1, <2>2, <2>3, FlowAsked
  <1>5. CASE unmoved
    <2>1. /\ item' = [t \in Items |-> IF t \in read THEN Remapped(r.seen[t], r) ELSE item[t]]
          /\ applied' = applied + 1
          /\ strayed' = strayed \cup {t \in Live \ read : item[t].stage # NoStage}
          /\ loose' = loose \ read /\ handed' = handed \ read
      BY <1>1, <1>5 DEF PublishCommit
    <2>2. r.seen \in [Items -> ItemRow] /\ r.content.active \subseteq StageNames
      BY <1>1 DEF FlowReqType, ContentType
    <2>3. ASSUME NEW t \in Items PROVE item'[t].status \in TaskStatuses
      <3>1. CASE t \in read
        <4>1. r.seen[t] \in ItemRow /\ r.mapping[Source(r.seen[t])] \in StageNames
          BY <1>1, <2>2, <3>1 DEF Safely, PublishesSafely
        <4> DEFINE k == r.mapping[Source(r.seen[t])]
        <4>2. item'[t] = Remapped(r.seen[t], r)
          BY <2>1, <3>1
        <4>3. item'[t].status = StatusOf[k]
          BY <1>1, <1>2, <4>1, <4>2, RemappedRow
        <4> HIDE DEF k
        <4>4. StatusOf[k] \in TaskStatuses
          BY <4>1 DEF TaskStatuses, k
        <4> QED
          BY <4>3, <4>4
      <3>2. CASE t \notin read
        BY <2>1, <3>2 DEF FlowTyped, FlowBounds
      <3> QED
        BY <3>1, <3>2
    <2>4. ASSUME NEW q \in Handlers PROVE FlowKnows(flowReq'[q]) /\ FlowWithin(flowReq'[q], applied', served')
      <3>1. CASE q = p
        BY <1>1, <1>3, <3>1, RestKnown
      <3>2. CASE q # p
        <4>1. /\ flowReq'[q] = flowReq[q] /\ flowReq[q] \in FlowReqType /\ FlowKnows(flowReq[q])
              /\ FlowWithin(flowReq[q], applied, served) /\ ~Consuming(q)
          BY <1>1, <1>3, <3>2 DEF FlowTyped, FlowBounds, FlowInv, OnePublisher
        <4>3. FlowWithin(flowReq[q], applied', served')
          BY <4>1 DEF FlowWithin, Consuming
        <4> QED
          BY <4>1, <4>3
      <3> QED
        BY <3>1, <3>2
    <2>5. /\ applied' <= served' + 1 /\ refused' \in BOOLEAN
          /\ strayed' \subseteq Items /\ loose' \subseteq Items /\ handed' \subseteq Items
      <3>1. applied' <= served' + 1
        BY <1>2, <1>3, <2>1
      <3>2. Live \subseteq Items
        BY DEF Live
      <3> QED
        BY <1>1, <1>3, <2>1, <3>1, <3>2
    <2>6. \A q \in Handlers : FlowKnows(flowReq[q])' /\ FlowWithin(flowReq'[q], applied', served')
      BY <2>4 DEF FlowKnows
    <2>7. FlowBounds'
      BY <2>3, <2>5, <2>6 DEF FlowBounds
    <2> QED
      BY <2>7 DEF FlowTyped
  <1> QED
    BY <1>4, <1>5

LEMMA FlowKept ==
  /\ HandlingInit /\ FlowInit => FlowTyped
  /\ FlowTyped /\ HandlingTypeOK /\ FlowNext => FlowTyped'
  <1>1. ASSUME HandlingInit, FlowInit PROVE FlowTyped
    <2>1. FlowInv /\ applied = 1 /\ served = 0 /\ refused = FALSE /\ strayed = {} /\ loose = {} /\ handed = {}
          /\ flowReq = [p \in Handlers |-> FlowRest]
      BY <1>1, FlowInitial DEF HandlingInit, FlowInit
    <2>2. item \in [Items -> {AbsentItem} \cup {[AbsentItem EXCEPT !.state = st, !.version = 1] : st \in {"live", "away"}}]
      BY <1>1 DEF FlowInit
    <2>3. "TODO" \in TaskStatuses
      BY StageAssumption DEF TaskStatuses
    <2>4. ASSUME NEW t \in Items PROVE item[t].status = "TODO"
      <3>1. item[t] \in {AbsentItem} \cup {[AbsentItem EXCEPT !.state = st, !.version = 1] : st \in {"live", "away"}}
        BY <2>2
      <3>2. AbsentItem.status = "TODO"
        BY DEF AbsentItem
      <3>3. ASSUME NEW st \in {"live", "away"}
            PROVE  [AbsentItem EXCEPT !.state = st, !.version = 1].status = AbsentItem.status
        BY DEF AbsentItem
      <3> QED
        BY <3>1, <3>2, <3>3
    <2>5. \A t \in Items : item[t].status \in TaskStatuses
      BY <2>3, <2>4
    <2>6. served + applied = 1 /\ applied <= served + 1
      BY <2>1
    <2>7. \A p \in Handlers : FlowKnows(flowReq[p]) /\ FlowWithin(flowReq[p], applied, served)
      BY <2>1, RestKnown
    <2>8. FlowBounds
      BY <2>1, <2>5, <2>6, <2>7 DEF FlowBounds
    <2> QED
      BY <2>1, <2>8 DEF FlowTyped
  <1>2. ASSUME FlowTyped, HandlingTypeOK, FlowNext PROVE FlowTyped'
    <2>1. FlowInv'
      BY <1>2, FlowSteps DEF FlowTyped
    <2>2. PICK p \in Handlers :
            TaskRead(p) \/ TaskWrite(p) \/ DraftStep(p) \/ Publish(p) \/ Remap(p) \/ PublishCommit(p)
      BY <1>2 DEF FlowNext, TaskRead, TaskWrite, DraftStep
    <2> QED
      BY <1>2, <2>1, <2>2, FlowAsks, FlowWrites, FlowMaps, FlowCommits
  <1> QED
    BY <1>1, <1>2
-----------------------------------------------------------------------------
(* Elapsed time, for any calendar: the searches of BusinessTime end on an         *)
(* instant.  What holds on a first day, and on a day after one on which it holds, *)
(* holds on all; so a count that goes from day to day exists, and counts in       *)
(* integers.                                                                       *)

LEMMA EachDayUp ==
  ASSUME NEW a \in Int, NEW b \in Int, NEW days, a \in days, \A d \in a..b : d # a /\ d - 1 \in days => d \in days
  PROVE  a..b \subseteq days
  <1> DEFINE wrong == {i \in Nat : a + i <= b /\ a + i \notin days}
  <1>1. ASSUME NEW e \in wrong PROVE FALSE
    <2>1. PICK k \in wrong : \A j \in wrong : k <= j
      <3>1. wrong \in SUBSET Nat
        OBVIOUS
      <3> HIDE DEF wrong
      <3> QED
        BY <1>1, <3>1, LeastDay
    <2>2. k \in Nat /\ a + k \in a..b /\ a + k \notin days /\ k # 0
      BY <2>1
    <2>3. k - 1 \in Nat /\ a + (k - 1) <= b /\ a + (k - 1) = (a + k) - 1 /\ ~ k <= k - 1 /\ a + k # a
      BY <2>2
    <2>4. k - 1 \notin wrong
      <3> HIDE DEF wrong
      <3> QED
        BY <2>1, <2>3
    <2>5. (a + k) - 1 \in days
      BY <2>3, <2>4
    <2> QED
      BY <2>2, <2>3, <2>5
  <1>2. \A e \in a..b : e - a \in Nat /\ a + (e - a) = e /\ e <= b
    OBVIOUS
  <1> QED
    BY <1>1, <1>2

LEMMA EachDayDown ==
  ASSUME NEW a \in Int, NEW b \in Int, NEW days, b \in days, \A d \in a..b : d # b /\ d + 1 \in days => d \in days
  PROVE  a..b \subseteq days
  <1> DEFINE back == {d \in Int : 0 - d \in days}
  <1>1. 0 - b \in back
    BY DEF back
  <1>2. ASSUME NEW d \in (0 - b)..(0 - a), d # 0 - b, d - 1 \in back PROVE d \in back
    <2>1. 0 - d \in a..b /\ 0 - d # b /\ (0 - d) + 1 = 0 - (d - 1)
      BY <1>2
    <2> QED
      BY <1>2, <2>1
  <1>3. 0 - b \in Int /\ 0 - a \in Int
    OBVIOUS
  <1>4. (0 - b)..(0 - a) \subseteq back
    <2> HIDE DEF back
    <2> QED
      BY <1>1, <1>2, <1>3, EachDayUp
  <1>5. ASSUME NEW e \in a..b PROVE e \in days
    <2>1. 0 - e \in (0 - b)..(0 - a) /\ 0 - (0 - e) = e
      OBVIOUS
    <2>2. 0 - e \in back
      BY <1>4, <2>1
    <2> QED
      BY <2>1, <2>2
  <1> QED
    BY <1>5

CountUp(a, b, begins, n, step) ==
    \E f \in [a..b -> Int] : \A d \in a..b : f[d] = IF d \in begins THEN n ELSE f[d - 1] + step[d]
CountDown(a, b, begins, n, step) ==
    \E f \in [a..b -> Int] : \A d \in a..b : f[d] = IF d \in begins THEN n ELSE f[d + 1] + step[d]

LEMMA CountsUp ==
  ASSUME NEW a \in Int, NEW b \in Int, NEW begins, a \in begins, NEW n \in Int, NEW step \in [a..b -> Int]
  PROVE  CountUp(a, b, begins, n, step)
  <1> DEFINE Upto(k) == \E f \in [a..k -> Int] : \A d \in a..k : f[d] = IF d \in begins THEN n ELSE f[d - 1] + step[d]
             days == {k \in Int : Upto(k)}
  <1> SUFFICES Upto(b)
    BY DEF CountUp
  <1>1. CASE b < a
    <2>1. a..b = {}
      BY <1>1
    <2>2. [d \in a..b |-> n] \in [a..b -> Int]
      BY <2>1
    <2> QED
      BY <2>1, <2>2
  <1>2. CASE a <= b
    <2>1. a \in days
      <3>1. [d \in a..a |-> n] \in [a..a -> Int] /\ \A d \in a..a : d = a
        OBVIOUS
      <3> QED
        BY <3>1
    <2>2. ASSUME NEW m \in a..b, m # a, m - 1 \in days PROVE m \in days
      <3>1. PICK f \in [a..m - 1 -> Int] : \A d \in a..m - 1 : f[d] = IF d \in begins THEN n ELSE f[d - 1] + step[d]
        BY <2>2
      <3>2. m \in Int /\ a <= m - 1 /\ step[m] \in Int /\ f[m - 1] \in Int
        BY <2>2, <3>1
      <3> DEFINE g == [d \in a..m |-> IF d \in a..m - 1 THEN f[d] ELSE IF m \in begins THEN n ELSE f[m - 1] + step[m]]
      <3>3. g \in [a..m -> Int]
        BY <3>1, <3>2
      <3>4. ASSUME NEW d \in a..m PROVE g[d] = IF d \in begins THEN n ELSE g[d - 1] + step[d]
        <4>1. CASE d = m
          <5>1. g[d] = (IF m \in begins THEN n ELSE f[m - 1] + step[m]) /\ g[m - 1] = f[m - 1]
            BY <3>2, <4>1
          <5> QED
            BY <4>1, <5>1
        <4>2. CASE d # m
          <5>1. d \in a..m - 1 /\ g[d] = f[d] /\ (d # a => d - 1 \in a..m - 1 /\ g[d - 1] = f[d - 1])
            BY <3>2, <4>2
          <5> QED
            BY <3>1, <5>1
        <4> QED
          BY <4>1, <4>2
      <3> HIDE DEF g
      <3>5. Upto(m)
        BY <3>3, <3>4
      <3> QED
        BY <3>2, <3>5
    <2>3. a..b \subseteq days
      <3> HIDE DEF days
      <3> QED
        BY <2>1, <2>2, EachDayUp
    <2>4. b \in days
      <3> HIDE DEF days
      <3> QED
        BY <1>2, <2>3
    <2> QED
      BY <2>4
  <1> HIDE DEF Upto
  <1> QED
    BY <1>1, <1>2

LEMMA CountsDown ==
  ASSUME NEW a \in Int, NEW b \in Int, NEW begins, b \in begins, NEW n \in Int, NEW step \in [a..b -> Int]
  PROVE  CountDown(a, b, begins, n, step)
  <1> DEFINE first == {0 - d : d \in begins \cap Int}
             low == 0 - b
             high == 0 - a
             over == [d \in low..high |-> step[0 - d]]
  <1>1. low \in Int /\ high \in Int /\ low \in first /\ over \in [low..high -> Int]
    <2>1. \A d \in low..high : 0 - d \in a..b
      OBVIOUS
    <2> QED
      BY <2>1
  <1>2. PICK f \in [low..high -> Int] : \A d \in low..high : f[d] = IF d \in first THEN n ELSE f[d - 1] + over[d]
    <2> HIDE DEF low, high, first, over
    <2>1. CountUp(low, high, first, n, over)
      BY <1>1, CountsUp
    <2> QED
      BY <2>1 DEF CountUp
  <1> DEFINE g == [d \in a..b |-> f[0 - d]]
  <1>3. \A d \in a..b : 0 - d \in low..high
    OBVIOUS
  <1>4. g \in [a..b -> Int]
    BY <1>2, <1>3
  <1>5. ASSUME NEW d \in a..b PROVE g[d] = IF d \in begins THEN n ELSE g[d + 1] + step[d]
    <2>1. 0 - d \in low..high /\ 0 - (0 - d) = d /\ over[0 - d] = step[d] /\ g[d] = f[0 - d]
      BY <1>3
    <2>2. 0 - d \in first <=> d \in begins
      <3>1. \A e \in Int : 0 - e = 0 - d => e = d
        OBVIOUS
      <3> QED
        BY <3>1
    <2>3. CASE d \in begins
      BY <1>2, <2>1, <2>2, <2>3
    <2>4. CASE d \notin begins
      <3>1. d + 1 \in a..b /\ 0 - (d + 1) = (0 - d) - 1
        BY <2>4
      <3>2. g[d + 1] = f[(0 - d) - 1]
        BY <3>1
      <3> HIDE DEF g, first, over, low, high
      <3> QED
        BY <1>2, <2>1, <2>2, <2>4, <3>2
    <2> QED
      BY <2>3, <2>4
  <1> HIDE DEF g
  <1> QED
    BY <1>4, <1>5 DEF CountDown

LEMMA DayHours ==
  ASSUME NEW c \in Calendars, NEW d \in Int, NEW t \in Int
  PROVE  Opens(c, d) \in Int /\ Closes(c, d) \in Int /\ Ahead(c, d, t) \in Int /\ Behind(c, d, t) \in Int
  <1>1. PICK last \in 0..6 : c \in [0..last -> [start : 0..DayLength, end : 0..DayLength]]
    BY CalendarAssumption
  <1>2. Cardinality(DOMAIN c) = last + 1
    BY <1>1, FS_Interval
  <1>3. d % (last + 1) \in 0..last
    BY <1>1
  <1>4. Window(c, d) \in [start : 0..DayLength, end : 0..DayLength]
    BY <1>1, <1>2, <1>3 DEF Window
  <1>5. DayLength \in Nat /\ Window(c, d).start \in Int /\ Window(c, d).end \in Int /\ Midnight(d) \in Int
    BY <1>4, CalendarAssumption, Midnights
  <1>6. Opens(c, d) \in Int /\ Closes(c, d) \in Int
    <2> HIDE DEF Window
    <2> QED
      BY <1>5 DEF Opens, Closes, AtHour
  <1>7. Ahead(c, d, t) \in Int /\ Behind(c, d, t) \in Int
    BY <1>6 DEF Ahead, Behind, Later, Earlier
  <1> QED
    BY <1>6, <1>7
LEMMA AddTyped ==
  ASSUME NEW c \in Calendars, NEW t \in 0..End - 1, NEW n \in Int
  PROVE  AddBusiness(c, t, n) \in Int
  <1>1. t \in Int /\ LastDay \in Nat /\ Day(t) \in 0..LastDay /\ End \in Int
    BY EndIsNat, CalendarAssumption, DaysOfTheModel
  <1>2. PICK a \in Int, b \in Int : a = Day(t) /\ b = LastDay + 1 /\ a <= b
    BY <1>1
  <1>3. \A d \in a..b : d - 1 \in Int /\ Ahead(c, d - 1, t) \in Int
    BY <1>1, DayHours
  <1> DEFINE step == [d \in a..b |-> 0 - Ahead(c, d - 1, t)]
  <1>4. step \in [a..b -> Int]
    BY <1>3
  <1>5. PICK f \in [a..b -> Int] : \A d \in a..b : f[d] = IF d \in {a} THEN n ELSE f[d - 1] + step[d]
    <2> HIDE DEF step
    <2>1. a \in {a}
      OBVIOUS
    <2>2. CountUp(a, b, {a}, n, step)
      BY <1>4, <2>1, CountsUp
    <2> QED
      BY <2>2 DEF CountUp
  <1>6. \A d \in a..b : f[d] = IF d = a THEN n ELSE f[d - 1] - Ahead(c, d - 1, t)
    <2> SUFFICES ASSUME NEW d \in a..b PROVE f[d] = IF d = a THEN n ELSE f[d - 1] - Ahead(c, d - 1, t)
      OBVIOUS
    <2>1. CASE d = a
      BY <1>5, <2>1
    <2>2. CASE d # a
      <3>1. d - 1 \in a..b /\ step[d] = 0 - Ahead(c, d - 1, t)
        BY <2>2
      <3>2. f[d - 1] \in Int
        BY <3>1
      <3> HIDE DEF step
      <3>3. f[d] = f[d - 1] + step[d]
        BY <1>5, <2>2
      <3> QED
        BY <1>3, <2>2, <3>1, <3>2, <3>3
    <2> QED
      BY <2>1, <2>2
  <1>7. f = Leaves(c, t, n, f)
    BY <1>2, <1>6 DEF Leaves
  <1>8. PICK left : left = Leaves(c, t, n, left) /\ left = CHOOSE other : other = Leaves(c, t, n, other)
    BY <1>7
  <1>9. \A d \in a..b : left[d] \in Int
    <2> DEFINE days == {d \in Int : left[d] \in Int}
    <2>1. \A d \in a..b : left[d] = IF d = a THEN n ELSE left[d - 1] - Ahead(c, d - 1, t)
      BY <1>2, <1>8 DEF Leaves
    <2>2. a \in days
      BY <1>2, <2>1
    <2>3. \A d \in a..b : d # a /\ d - 1 \in days => d \in days
      BY <1>3, <2>1
    <2>4. a..b \subseteq days
      <3> HIDE DEF days
      <3> QED
        BY <2>2, <2>3, EachDayUp
    <2> QED
      BY <2>4
  <1> DEFINE fitting == {d \in Day(t)..LastDay : Ahead(c, d, t) > 0 /\ left[d] <= Ahead(c, d, t)}
             day == CHOOSE d \in fitting : \A e \in fitting : d <= e
  <1>10. AddBusiness(c, t, n) = IF n = 0 THEN t ELSE IF fitting = {} THEN End ELSE Later(t, Opens(c, day)) + left[day]
    <2>1. AddBusiness(c, t, n) = EndsOn(c, t, n, CHOOSE other : other = Leaves(c, t, n, other))
      BY DEF AddBusiness, Leaves, EndsOn
    <2>2. AddBusiness(c, t, n) = EndsOn(c, t, n, left)
      BY <1>8, <2>1
    <2> QED
      BY <2>2 DEF EndsOn
  <1>11. fitting # {} => day \in fitting
    <2> SUFFICES ASSUME NEW e \in fitting PROVE day \in fitting
      OBVIOUS
    <2>1. fitting \in SUBSET Nat
      BY <1>1
    <2>2. \E d \in fitting : \A k \in fitting : d <= k
      <3> HIDE DEF fitting
      <3> QED
        BY <2>1, LeastDay
    <2> QED
      BY <2>2
  <1>12. fitting # {} => day \in a..b /\ day \in Int
    BY <1>1, <1>2, <1>11
  <1> HIDE DEF day, fitting
  <1>13. fitting # {} => left[day] \in Int /\ Opens(c, day) \in Int
    BY <1>1, <1>9, <1>12, DayHours
  <1>14. fitting # {} => Later(t, Opens(c, day)) \in Int
    BY <1>1, <1>13 DEF Later
  <1> QED
    BY <1>1, <1>10, <1>13, <1>14

LEMMA SubtractTyped ==
  ASSUME NEW c \in Calendars, NEW t \in Int, NEW n \in Int
  PROVE  SubtractBusiness(c, t, n) \in Int
  <1>1. PICK b \in Int : b = Day(t)
    BY DayOf
  <1>2. \A d \in 0..b : d + 1 \in Int /\ Behind(c, d + 1, t) \in Int
    BY DayHours
  <1> DEFINE step == [d \in 0..b |-> 0 - Behind(c, d + 1, t)]
  <1>3. step \in [0..b -> Int]
    BY <1>2
  <1>4. PICK f \in [0..b -> Int] : \A d \in 0..b : f[d] = IF d \in {b} THEN n ELSE f[d + 1] + step[d]
    <2> HIDE DEF step
    <2>1. b \in {b} /\ 0 \in Int
      OBVIOUS
    <2>2. CountDown(0, b, {b}, n, step)
      BY <1>3, <2>1, CountsDown
    <2> QED
      BY <2>2 DEF CountDown
  <1>5. \A d \in 0..b : f[d] = IF d = b THEN n ELSE f[d + 1] - Behind(c, d + 1, t)
    <2> SUFFICES ASSUME NEW d \in 0..b PROVE f[d] = IF d = b THEN n ELSE f[d + 1] - Behind(c, d + 1, t)
      OBVIOUS
    <2>1. CASE d = b
      BY <1>4, <2>1
    <2>2. CASE d # b
      <3>1. d + 1 \in 0..b /\ step[d] = 0 - Behind(c, d + 1, t)
        BY <2>2
      <3>2. f[d + 1] \in Int
        BY <3>1
      <3> HIDE DEF step
      <3>3. f[d] = f[d + 1] + step[d]
        BY <1>4, <2>2
      <3> QED
        BY <1>2, <2>2, <3>1, <3>2, <3>3
    <2> QED
      BY <2>1, <2>2
  <1>6. f = LeavesBack(c, t, n, f)
    BY <1>1, <1>5 DEF LeavesBack
  <1>7. PICK left : left = LeavesBack(c, t, n, left) /\ left = CHOOSE other : other = LeavesBack(c, t, n, other)
    BY <1>6
  <1>8. \A d \in 0..b : left[d] \in Int
    <2> DEFINE days == {d \in Int : d \notin 0..b \/ left[d] \in Int}
    <2>1. \A d \in 0..b : left[d] = IF d = b THEN n ELSE left[d + 1] - Behind(c, d + 1, t)
      BY <1>1, <1>7 DEF LeavesBack
    <2>2. b \in days
      BY <2>1
    <2>3. \A d \in 0..b : d # b /\ d + 1 \in days => d \in days
      <3> SUFFICES ASSUME NEW d \in 0..b, d # b, d + 1 \in days PROVE left[d] \in Int
        OBVIOUS
      <3>1. d + 1 \in 0..b
        BY <1>1
      <3>2. left[d + 1] \in Int
        BY <3>1
      <3> HIDE DEF days
      <3> QED
        BY <1>2, <2>1, <3>2
    <2>4. 0..b \subseteq days
      <3>1. 0 \in Int
        OBVIOUS
      <3> HIDE DEF days
      <3> QED
        BY <2>2, <2>3, <3>1, EachDayDown
    <2> QED
      BY <2>4
  <1> DEFINE fitting == {d \in 0..Day(t) : Behind(c, d, t) > 0 /\ left[d] <= Behind(c, d, t)}
             day == CHOOSE d \in fitting : \A e \in fitting : e <= d
  <1>9. SubtractBusiness(c, t, n) = IF n = 0 THEN t ELSE IF fitting = {} THEN 0 ELSE Earlier(t, Closes(c, day)) - left[day]
    <2>1. SubtractBusiness(c, t, n) = EndsBackOn(c, t, n, CHOOSE other : other = LeavesBack(c, t, n, other))
      BY DEF SubtractBusiness, LeavesBack, EndsBackOn
    <2>2. SubtractBusiness(c, t, n) = EndsBackOn(c, t, n, left)
      BY <1>7, <2>1
    <2> QED
      BY <2>2 DEF EndsBackOn
  <1>10. fitting # {} => day \in fitting
    <2> SUFFICES ASSUME NEW e \in fitting PROVE day \in fitting
      OBVIOUS
    <2>1. b \in Nat /\ fitting \in SUBSET (0..b)
      BY <1>1
    <2>2. \E d \in fitting : \A k \in fitting : k <= d
      <3> HIDE DEF fitting
      <3> QED
        BY <2>1, GreatestDay
    <2> QED
      BY <2>2
  <1>11. fitting # {} => day \in 0..b /\ day \in Int
    BY <1>1, <1>10
  <1> HIDE DEF day, fitting
  <1>12. fitting # {} => left[day] \in Int /\ Closes(c, day) \in Int
    BY <1>8, <1>11, DayHours
  <1>13. fitting # {} => Earlier(t, Closes(c, day)) \in Int
    BY <1>12 DEF Earlier
  <1> QED
    BY <1>9, <1>12, <1>13

LEMMA BetweenTyped ==
  ASSUME NEW c \in Calendars, NEW t \in 0..End - 1, NEW u \in Int
  PROVE  BusinessBetween(c, t, u) \in Int
  <1>1. t \in Int /\ LastDay \in Nat /\ Day(t) \in 0..LastDay /\ Day(u) \in Int
    BY EndIsNat, CalendarAssumption, DaysOfTheModel, DayOf
  <1>2. PICK b \in Nat : b = LastDay + 1
    BY <1>1
  <1> DEFINE begins == {d \in Int : d > Day(u) \/ d > LastDay}
             gain(d) == Later(0, Ahead(c, d, t) - Ahead(c, d, u))
             step == [d \in 0..b |-> gain(d)]
  <1>3. \A d \in 0..b : gain(d) \in Int
    <2> SUFFICES ASSUME NEW d \in 0..b PROVE gain(d) \in Int
      OBVIOUS
    <2>1. Ahead(c, d, t) \in Int /\ Ahead(c, d, u) \in Int
      BY <1>1, DayHours
    <2> QED
      BY <2>1 DEF Later
  <1>4. step \in [0..b -> Int] /\ b \in begins
    <2> HIDE DEF gain
    <2> QED
      BY <1>1, <1>2, <1>3
  <1>5. PICK f \in [0..b -> Int] : \A d \in 0..b : f[d] = IF d \in begins THEN 0 ELSE f[d + 1] + step[d]
    <2> HIDE DEF step, begins
    <2>1. 0 \in Int /\ b \in Int
      OBVIOUS
    <2>2. CountDown(0, b, begins, 0, step)
      BY <1>4, <2>1, CountsDown
    <2> QED
      BY <2>2 DEF CountDown
  <1>6. \A d \in 0..b : f[d] = IF d > Day(u) \/ d > LastDay THEN 0 ELSE gain(d) + f[d + 1]
    <2> SUFFICES ASSUME NEW d \in 0..b PROVE f[d] = IF d > Day(u) \/ d > LastDay THEN 0 ELSE gain(d) + f[d + 1]
      OBVIOUS
    <2>1. (d \in begins <=> d > Day(u) \/ d > LastDay) /\ step[d] = gain(d)
      OBVIOUS
    <2> HIDE DEF begins, step, gain
    <2>2. CASE d \in begins
      BY <1>5, <2>1, <2>2
    <2>3. CASE d \notin begins
      <3>1. d + 1 \in 0..b
        BY <1>1, <1>2, <2>1, <2>3
      <3>2. f[d + 1] \in Int /\ gain(d) \in Int
        BY <1>3, <3>1
      <3> QED
        BY <1>5, <2>1, <2>3, <3>2
    <2> QED
      BY <2>2, <2>3
  <1>7. f = Totals(c, t, u, f)
    BY <1>2, <1>6 DEF Totals
  <1>8. t < u => BusinessBetween(c, t, u) = (CHOOSE total : total = Totals(c, t, u, total))[Day(t)]
    BY <1>1 DEF BusinessBetween, Totals
  <1>9. PICK total : total = Totals(c, t, u, total) /\ (t < u => BusinessBetween(c, t, u) = total[Day(t)])
    BY <1>7, <1>8
  <1>10. \A d \in 0..b : total[d] = IF d > Day(u) \/ d > LastDay THEN 0 ELSE gain(d) + total[d + 1]
    BY <1>2, <1>9 DEF Totals
  <1>11. \A d \in 0..b : total[d] \in Int
    <2> DEFINE days == {d \in Int : total[d] \in Int}
    <2> HIDE DEF gain
    <2>1. b \in days
      BY <1>1, <1>2, <1>10
    <2>2. \A d \in 0..b : d # b /\ d + 1 \in days => d \in days
      BY <1>3, <1>10
    <2>3. 0..b \subseteq days
      <3>1. 0 \in Int /\ b \in Int
        OBVIOUS
      <3> HIDE DEF days
      <3> QED
        BY <2>1, <2>2, <3>1, EachDayDown
    <2> QED
      BY <2>3
  <1>12. CASE t < u
    BY <1>1, <1>2, <1>9, <1>11, <1>12
  <1>13. CASE u <= t
    <2>1. BusinessBetween(c, t, u) = 0
      BY <1>13 DEF BusinessBetween
    <2> QED
      BY <2>1
  <1> QED
    BY <1>1, <1>12, <1>13
-----------------------------------------------------------------------------
(* The SLA instance, under any calendar: a row that is paused says since when,    *)
(* and so does what a resume has read of it.                                      *)

StepType == [pc : {"idle", "resume", "notify", "finalize"}, seen : InstanceType,
             picked : SUBSET Notices, to : {"TODO", "DONE", "CANCELLED"}]
Dated(r) == r \in InstanceType /\ r.dueAt \in Int
Paused(r) == Dated(r) /\ r.pausedAt \in 0..LastHour
Scheduled == /\ cal \in Calendars \cup {NoCalendar}
             /\ Dated(inst) /\ (inst.status = "PAUSED" => Paused(inst))
             /\ status \in {"TODO", "DONE", "CANCELLED"} /\ revived \in BOOLEAN
             /\ sla \in [Handlers -> StepType]
             /\ \A p \in Handlers : SlaAt(p, "resume") => Paused(sla[p].seen)
SlaTyped == Scheduled /\ ran \in 0..now

LEMMA SlaTypes == SlaTyped /\ HandlingTypeOK => SlaTypeOK
  <1> SUFFICES ASSUME SlaTyped, HandlingTypeOK PROVE SlaTypeOK
    OBVIOUS
  <1>1. ran \in 0..LastHour
    BY HandlingAssumption DEF SlaTyped, HandlingTypeOK
  <1> QED
    BY <1>1 DEF SlaTyped, Scheduled, Dated, StepType, SlaTypeOK

LEMMA TimesTyped ==
  ASSUME cal \in Calendars \cup {NoCalendar}, NEW t \in 0..LastHour
  PROVE  /\ \A n \in Int : After(t, n) \in Int
         /\ \A u \in Int : Between(t, u) \in Int
  <1>1. t \in Int /\ t \in 0..End - 1
    BY HandlingAssumption, DaysAssumption, EndIsNat
  <1>2. \A n \in Int : After(t, n) \in Int
    BY <1>1, AddTyped DEF After
  <1>3. \A u \in Int : Between(t, u) \in Int
    <2>1. cal # NoCalendar => \A u \in Int : BusinessBetween(cal, t, u) \in Int
      BY <1>1, BetweenTyped
    <2> QED
      BY <1>1, <2>1 DEF Between, Later
  <1> QED
    BY <1>2, <1>3

LEMMA SlaRestTyped == SlaRest \in StepType /\ SlaRest.pc = "idle"
  BY DEF SlaRest, NoInstance, StepType, InstanceType, Instants

LEMMA SlaBegun == HandlingInit /\ SlaInit => SlaTyped
  <1> SUFFICES ASSUME HandlingInit, SlaInit PROVE SlaTyped
    OBVIOUS
  <1>1. now = 0 /\ now \in 0..LastHour /\ cal \in Calendars \cup {NoCalendar} /\ Target \in Int /\ Warning \in Int
    BY HandlingAssumption, SlaAssumption DEF HandlingInit, SlaInit
  <1>2. PICK dueNow \in Int : dueNow = After(now, Target)
    BY <1>1, TimesTyped
  <1>3. PICK warnNow \in Instants : warnNow = IF Warning > 0 THEN Before(dueNow, Warning) ELSE Never
    <2>1. cal # NoCalendar => SubtractBusiness(cal, dueNow, Warning) \in Int
      BY <1>1, SubtractTyped
    <2>2. Before(dueNow, Warning) \in Int
      BY <1>1, <2>1 DEF Before
    <2> QED
      BY <2>2 DEF Instants
  <1>4. inst = [status |-> "ACTIVE", dueAt |-> dueNow, warningAt |-> warnNow, pausedAt |-> Never, warned |-> FALSE, breached |-> FALSE]
    BY <1>2, <1>3 DEF SlaInit, NewInstance
  <1>5. Dated(inst) /\ inst.status = "ACTIVE"
    BY <1>4 DEF Dated, InstanceType, Instants
  <1>6. sla \in [Handlers -> StepType] /\ \A p \in Handlers : SlaAt(p, "idle")
    BY SlaRestTyped DEF SlaInit, SlaAt
  <1>7. ran \in 0..now /\ status = "TODO" /\ revived = FALSE
    BY <1>1 DEF SlaInit
  <1> QED
    BY <1>1, <1>5, <1>6, <1>7 DEF SlaTyped, Scheduled, SlaAt

\* The row that a resume writes.
LEMMA ResumedTyped ==
  ASSUME cal \in Calendars \cup {NoCalendar}, now \in 0..LastHour, NEW r, Paused(r), NEW w \in BOOLEAN, NEW b \in BOOLEAN
  PROVE  Dated([Resumed(r) EXCEPT !.warned = w, !.breached = b]) /\ [Resumed(r) EXCEPT !.warned = w, !.breached = b].status = "ACTIVE"
  <1>1. r \in InstanceType /\ r.dueAt \in Int /\ r.pausedAt \in 0..LastHour /\ r.warningAt \in Instants
    BY DEF Paused, Dated, InstanceType
  <1>2. PICK dueNow \in Int : dueNow = After(now, Between(r.pausedAt, r.dueAt))
    <2>1. Between(r.pausedAt, r.dueAt) \in Int
      BY <1>1, TimesTyped
    <2> QED
      BY <2>1, TimesTyped
  <1>3. PICK warnNow \in Instants : warnNow = IF r.warningAt = Never THEN Never ELSE After(now, Between(r.pausedAt, r.warningAt))
    <2>1. CASE r.warningAt = Never
      BY <2>1 DEF Instants
    <2>2. CASE r.warningAt # Never
      <3>1. r.warningAt \in Int
        BY <1>1, <2>2 DEF Instants
      <3>2. Between(r.pausedAt, r.warningAt) \in Int
        BY <1>1, <3>1, TimesTyped
      <3>3. After(now, Between(r.pausedAt, r.warningAt)) \in Int
        BY <3>2, TimesTyped
      <3> QED
        BY <2>2, <3>3 DEF Instants
    <2> QED
      BY <2>1, <2>2
  <1>4. Resumed(r) = [r EXCEPT !.status = "ACTIVE", !.pausedAt = Never, !.dueAt = dueNow, !.warningAt = warnNow]
    BY <1>2, <1>3, Zenon DEF Resumed
  <1>5. Resumed(r) = [status |-> "ACTIVE", dueAt |-> dueNow, warningAt |-> warnNow, pausedAt |-> Never,
                      warned |-> r.warned, breached |-> r.breached]
    BY <1>1, <1>4 DEF InstanceType
  <1>6. Resumed(r) \in InstanceType /\ Resumed(r).dueAt = dueNow /\ Resumed(r).status = "ACTIVE"
    <2>1. Never \in Instants /\ dueNow \in Instants /\ r.warned \in BOOLEAN /\ r.breached \in BOOLEAN
      BY <1>1 DEF Instants, InstanceType
    <2> QED
      BY <1>5, <2>1 DEF InstanceType
  <1> DEFINE y == Resumed(r)
             x == [y EXCEPT !.warned = w, !.breached = b]
  <1>7. y \in InstanceType /\ y.dueAt = dueNow /\ y.status = "ACTIVE"
    BY <1>6
  <1> HIDE DEF y
  <1>8. x \in InstanceType /\ x.dueAt = y.dueAt /\ x.status = y.status
    BY <1>7 DEF InstanceType
  <1> QED
    BY <1>7, <1>8 DEF Dated, y

LEMMA StepsTyped ==
  ASSUME Scheduled, NEW p \in Handlers, NEW r \in StepType, sla' = [sla EXCEPT ![p] = r],
         r.pc = "resume" => Paused(r.seen)
  PROVE  sla' \in [Handlers -> StepType] /\ \A q \in Handlers : sla'[q].pc = "resume" => Paused(sla'[q].seen)
  BY DEF Scheduled, SlaAt

LEMMA SlaAsked ==
  ASSUME Scheduled, now \in 0..LastHour, NEW p \in Handlers, SlaRequest(p)
  PROVE  Scheduled'
  <1>1. sla[p] \in StepType /\ Dated(inst) /\ inst \in InstanceType
    BY DEF Scheduled, Dated
  <1>2. CASE Pause(p)
    <2>1. inst' = [inst EXCEPT !.status = "PAUSED", !.pausedAt = now] /\ UNCHANGED <<cal, status, sla, revived>>
      BY <1>2 DEF Pause
    <2>2. now \in Instants
      BY DEF Instants
    <2>3. inst' \in InstanceType /\ inst'.dueAt = inst.dueAt /\ inst'.pausedAt = now
      BY <1>1, <2>1, <2>2 DEF InstanceType
    <2>4. Paused(inst') /\ Dated(inst')
      BY <1>1, <2>3 DEF Paused, Dated
    <2> QED
      BY <2>1, <2>4 DEF Scheduled, SlaAt
  <1>3. CASE FinishByMove(p) \/ Reopen(p)
    BY <1>3 DEF FinishByMove, Reopen, Scheduled, SlaAt
  <1>4. ASSUME NEW r \in StepType, sla' = [sla EXCEPT ![p] = r], r.pc = "resume" => Paused(r.seen),
               UNCHANGED <<cal, inst, revived>>, status' \in {"TODO", "DONE", "CANCELLED"}
        PROVE  Scheduled'
    <2>1. sla' \in [Handlers -> StepType] /\ \A q \in Handlers : sla'[q].pc = "resume" => Paused(sla'[q].seen)
      BY <1>4, StepsTyped
    <2> QED
      BY <1>4, <2>1 DEF Scheduled, SlaAt
  <1>5. CASE FinishByUpdate(p)
    <2>1. PICK to \in {"DONE", "CANCELLED"} :
            status' = to /\ sla' = [sla EXCEPT ![p].pc = "finalize", ![p].to = to] /\ UNCHANGED <<cal, inst, revived>>
      BY <1>5 DEF FinishByUpdate
    <2> DEFINE r == [sla[p] EXCEPT !.pc = "finalize", !.to = to]
    <2>2. r \in StepType /\ r.pc = "finalize" /\ sla' = [sla EXCEPT ![p] = r]
      BY <1>1, <2>1 DEF StepType
    <2> HIDE DEF r
    <2> QED
      BY <1>4, <2>1, <2>2
  <1>6. CASE ResumeRead(p)
    <2>1. sla' = [sla EXCEPT ![p].pc = "resume", ![p].seen = inst] /\ UNCHANGED <<cal, inst, status, revived>>
          /\ inst.status = "PAUSED" /\ status \in {"TODO", "DONE", "CANCELLED"}
      BY <1>6 DEF ResumeRead, Scheduled
    <2> DEFINE r == [sla[p] EXCEPT !.pc = "resume", !.seen = inst]
    <2>2. r \in StepType /\ r.seen = inst /\ sla' = [sla EXCEPT ![p] = r]
      BY <1>1, <2>1 DEF StepType
    <2>3. Paused(inst)
      BY <2>1 DEF Scheduled
    <2> HIDE DEF r
    <2> QED
      BY <1>4, <2>1, <2>2, <2>3
  <1>7. CASE PollSla(p)
    <2>1. PICK k \in SUBSET Notices :
            sla' = [sla EXCEPT ![p].pc = "notify", ![p].picked = k] /\ UNCHANGED <<cal, inst, status, revived>>
      BY <1>7 DEF PollSla
    <2> DEFINE r == [sla[p] EXCEPT !.pc = "notify", !.picked = k]
    <2>2. r \in StepType /\ r.pc = "notify" /\ sla' = [sla EXCEPT ![p] = r] /\ status \in {"TODO", "DONE", "CANCELLED"}
      BY <1>1, <2>1 DEF StepType, Scheduled
    <2> HIDE DEF r
    <2> QED
      BY <1>4, <2>1, <2>2
  <1> QED
    BY <1>2, <1>3, <1>5, <1>6, <1>7 DEF SlaRequest

LEMMA SlaWrote ==
  ASSUME Scheduled, now \in 0..LastHour, NEW p \in Handlers, SlaWrite(p)
  PROVE  Scheduled'
  <1>1. sla[p] \in StepType /\ Dated(inst) /\ inst \in InstanceType /\ inst.dueAt \in Int
        /\ cal \in Calendars \cup {NoCalendar} /\ status \in {"TODO", "DONE", "CANCELLED"} /\ revived \in BOOLEAN
    BY DEF Scheduled, Dated
  <1>2. /\ sla' \in [Handlers -> StepType]
        /\ \A q \in Handlers : sla'[q].pc = "resume" => Paused(sla'[q].seen)
    <2>1. SlaEnds(p) \/ (SlaAt(p, "notify") /\ \E k : sla' = [sla EXCEPT ![p].picked = @ \ {k}])
      BY Zenon DEF SlaWrite, FinalizeTaskSla, ResumeWrite, NotifySla, SlaCrash
    <2>2. CASE SlaEnds(p)
      <3>1. sla' = [sla EXCEPT ![p] = SlaRest] /\ SlaRest \in StepType /\ SlaRest.pc = "idle"
        BY <2>2, SlaRestTyped DEF SlaEnds
      <3> QED
        BY <3>1, StepsTyped
    <2>3. ASSUME NEW k, SlaAt(p, "notify"), sla' = [sla EXCEPT ![p].picked = @ \ {k}]
          PROVE  /\ sla' \in [Handlers -> StepType]
                 /\ \A q \in Handlers : sla'[q].pc = "resume" => Paused(sla'[q].seen)
      <3> DEFINE r == [sla[p] EXCEPT !.picked = sla[p].picked \ {k}]
      <3>1. r \in StepType /\ r.pc = "notify" /\ sla' = [sla EXCEPT ![p] = r]
        BY <1>1, <2>3 DEF StepType, SlaAt
      <3> HIDE DEF r
      <3> QED
        BY <3>1, StepsTyped
    <2> QED
      BY <2>1, <2>2, <2>3
  <1>3. ASSUME Dated(inst'), inst'.status = "PAUSED" => Paused(inst'), cal' = cal, status' = status, revived' \in BOOLEAN
        PROVE  Scheduled'
    BY <1>1, <1>2, <1>3 DEF Scheduled, SlaAt
  <1>4. CASE FinalizeTaskSla(p)
    <2>1. /\ inst' = inst \/ \E s \in {"MET", "CANCELLED"} : inst' = [inst EXCEPT !.status = s, !.pausedAt = Never]
          /\ UNCHANGED <<cal, status, revived>>
      BY <1>4 DEF FinalizeTaskSla
    <2>2. Dated(inst') /\ (inst'.status = "PAUSED" => Paused(inst'))
      <3>1. CASE inst' = inst
        BY <3>1 DEF Scheduled
      <3>2. ASSUME NEW s \in {"MET", "CANCELLED"}, inst' = [inst EXCEPT !.status = s, !.pausedAt = Never]
            PROVE  Dated(inst') /\ inst'.status # "PAUSED"
        BY <1>1, <3>2 DEF Dated, InstanceType, Instants, Finals
      <3> QED
        BY <2>1, <3>1, <3>2
    <2> QED
      BY <1>1, <1>3, <2>1, <2>2
  <1>5. CASE ResumeWrite(p)
    <2>1. /\ inst' = [Resumed(sla[p].seen) EXCEPT !.warned = inst.warned, !.breached = inst.breached]
          /\ SlaAt(p, "resume") /\ UNCHANGED <<cal, status>>
      BY <1>5 DEF ResumeWrite
    <2>2. Paused(sla[p].seen) /\ inst.warned \in BOOLEAN /\ inst.breached \in BOOLEAN
      BY <1>1, <2>1 DEF Scheduled, InstanceType
    <2>3. Dated(inst') /\ inst'.status = "ACTIVE"
      BY <1>1, <2>1, <2>2, ResumedTyped
    <2>4. revived' \in BOOLEAN
      BY <1>1, <1>5 DEF ResumeWrite
    <2> QED
      BY <1>3, <2>1, <2>3, <2>4
  <1>6. CASE NotifySla(p)
    <2>1. UNCHANGED <<cal, status, revived>>
      BY <1>6 DEF NotifySla
    <2>2. \/ inst' = inst
          \/ inst' = [inst EXCEPT !.warned = @ \/ inst.status \in {"ACTIVE", "BREACHED"}]
          \/ inst' = [inst EXCEPT !.breached = TRUE, !.status = "BREACHED"]
      BY <1>6, Zenon DEF NotifySla
    <2>3. CASE inst' = inst
      BY <1>1, <1>3, <2>1, <2>3 DEF Scheduled
    <2>4. CASE inst' = [inst EXCEPT !.warned = @ \/ inst.status \in {"ACTIVE", "BREACHED"}]
      <3>1. Dated(inst') /\ inst'.status = inst.status /\ inst'.pausedAt = inst.pausedAt
        <4>1. PICK w \in BOOLEAN : inst' = [inst EXCEPT !.warned = w]
          BY <1>1, <2>4
        <4> QED
          BY <1>1, <4>1 DEF Dated, InstanceType
      <3>2. inst'.status = "PAUSED" => Paused(inst')
        BY <3>1 DEF Scheduled, Paused
      <3> QED
        BY <1>1, <1>3, <2>1, <3>1, <3>2
    <2>5. CASE inst' = [inst EXCEPT !.breached = TRUE, !.status = "BREACHED"]
      <3>1. Dated(inst') /\ inst'.status # "PAUSED"
        BY <1>1, <2>5 DEF Dated, InstanceType, Finals
      <3> QED
        BY <1>1, <1>3, <2>1, <3>1
    <2> QED
      BY <2>2, <2>3, <2>4, <2>5
  <1>7. CASE SlaCrash(p)
    <2>1. UNCHANGED <<cal, inst, status, revived>>
      BY <1>7 DEF SlaCrash
    <2> QED
      BY <1>1, <1>3, <2>1 DEF Scheduled
  <1> QED
    BY <1>4, <1>5, <1>6, <1>7 DEF SlaWrite

\* The hours an instance ran are among those that passed.
LEMMA RunsOn ==
  ASSUME ran \in 0..now, HandlingTypeOK, Runs, SlaRuns \/ ran' = ran
  PROVE  ran' \in 0..now'
  <1>1. now \in Nat /\ ran \in Nat /\ ran <= now /\ (now' = now \/ now' = now + 1)
    BY DEF HandlingTypeOK, Runs
  <1>2. ran' = ran \/ (ran' = ran + 1 /\ now' > now)
    BY DEF SlaRuns
  <1> QED
    BY <1>1, <1>2

LEMMA SlaKept ==
  /\ SlaTyped /\ HandlingTypeOK /\ SlaNext => SlaTyped'
  /\ SlaTyped /\ HandlingTypeOK /\ Runs /\ (SlaRuns \/ UNCHANGED slaVars) => SlaTyped'
  <1>1. ASSUME Scheduled, UNCHANGED <<cal, inst, status, sla, revived>> PROVE Scheduled'
    BY <1>1 DEF Scheduled, SlaAt
  <1>2. ASSUME SlaTyped, HandlingTypeOK, Runs, SlaRuns \/ UNCHANGED slaVars PROVE SlaTyped'
    <2>1. UNCHANGED <<cal, inst, status, sla, revived>> /\ (SlaRuns \/ ran' = ran)
      BY <1>2 DEF SlaRuns, slaVars
    <2> QED
      BY <1>1, <1>2, <2>1, RunsOn DEF SlaTyped
  <1>3. ASSUME SlaTyped, HandlingTypeOK, SlaNext PROVE SlaTyped'
    <2>1. Runs /\ now \in 0..LastHour
      BY <1>3, ComponentsRun DEF HandlingTypeOK
    <2>2. SlaTick \/ \E p \in Handlers : SlaRequest(p) \/ SlaWrite(p)
      BY <1>3 DEF SlaNext, SlaRequest, SlaWrite
    <2>3. CASE SlaTick
      BY <1>2, <1>3, <2>1, <2>3 DEF SlaTick
    <2>4. ASSUME NEW p \in Handlers, SlaRequest(p) \/ SlaWrite(p) PROVE SlaTyped'
      <3>1. Scheduled'
        BY <1>3, <2>1, <2>4, SlaAsked, SlaWrote DEF SlaTyped
      <3>2. ran' = ran
        BY <2>4 DEF SlaRequest, SlaWrite, FinishByUpdate, FinishByMove, Reopen, FinalizeTaskSla, Pause, ResumeRead,
           ResumeWrite, PollSla, NotifySla, SlaCrash
      <3> QED
        BY <1>3, <2>1, <3>1, <3>2, RunsOn DEF SlaTyped
    <2> QED
      BY <2>2, <2>3, <2>4
  <1> QED
    BY <1>2, <1>3
-----------------------------------------------------------------------------
(* The components beside one another: what rests keeps the types it began with. *)

AllTyped == /\ RiskTypeOK /\ TimeTypeOK /\ RankTypeOK /\ FlowTypeOK
            /\ ProjectTypeOK /\ TemplateTypeOK /\ TreeTypeOK /\ CrewTypeOK

PartTyped == /\ part = "risk" => RiskTyped
             /\ part = "time" => TimeInv
             /\ part = "rank" => RankTyped
             /\ part = "flow" => FlowTyped
             /\ part = "project" => ProjectTyped
             /\ part = "template" => SeriesTyped
             /\ part = "tree" => TreeTyped
             /\ part = "crew" => CrewTyped

WorkInv == HandlingTypeOK /\ SlaTyped /\ AllTyped /\ PartTyped

LEMMA CrewRested == CrewRests => CrewTypeOK
  BY DutyRestTyped DEF CrewRests, CrewTypeOK, DutyType, ProjectRoles

LEMMA WorkBegun == ASSUME IsFiniteSet(Cards), WorkInit PROVE WorkInv
  <1>1. HandlingInit /\ HandlingTypeOK
    BY HandlingAssumption DEF WorkInit, HandlingInit, HandlingTypeOK
  <1>2. SlaTyped
    BY SlaBegun DEF WorkInit
  <1>3. RiskTyped /\ TimeInv /\ RankTyped /\ FlowTyped /\ ProjectTyped /\ SeriesTyped /\ TreeTyped
    BY <1>1, RiskTypes, TimeInitial, RankTypes, FlowKept, ProjectTypes, SeriesTypes, TreeTypes DEF WorkInit
  <1>4. (part = "crew" => CrewTyped) /\ CrewTypeOK
    BY CrewTypes, CrewRested DEF WorkInit
  <1>5. RiskTypeOK
    BY <1>3 DEF RiskTyped
  <1> QED
    BY <1>1, <1>2, <1>3, <1>4, <1>5, TimeTypes, RankTypes, FlowTypes, ProjectTypes, SeriesTypes, TreeTypes
    DEF WorkInv, AllTyped, PartTyped

\* Types and bounds speak of a component's own variables.
LEMMA TypesRest ==
  /\ RiskTypeOK /\ UNCHANGED riskVars => RiskTypeOK'
  /\ TimeTypeOK /\ UNCHANGED timeVars => TimeTypeOK'
  /\ RankTypeOK /\ UNCHANGED rankVars => RankTypeOK'
  /\ FlowTypeOK /\ UNCHANGED flowVars => FlowTypeOK'
  /\ ProjectTypeOK /\ UNCHANGED projectVars => ProjectTypeOK'
  /\ TemplateTypeOK /\ UNCHANGED templateVars => TemplateTypeOK'
  /\ TreeTypeOK /\ UNCHANGED treeVars => TreeTypeOK'
  /\ CrewTypeOK /\ UNCHANGED crewVars => CrewTypeOK'
  <1>1. RiskTypeOK /\ UNCHANGED riskVars => RiskTypeOK'
    BY DEF RiskTypeOK, riskVars
  <1>2. TimeTypeOK /\ UNCHANGED timeVars => TimeTypeOK'
    BY DEF TimeTypeOK, timeVars
  <1>3. RankTypeOK /\ UNCHANGED rankVars => RankTypeOK'
    BY DEF RankTypeOK, rankVars
  <1>4. FlowTypeOK /\ UNCHANGED flowVars => FlowTypeOK'
    BY DEF FlowTypeOK, flowVars
  <1>5. ProjectTypeOK /\ UNCHANGED projectVars => ProjectTypeOK'
    BY DEF ProjectTypeOK, projectVars
  <1>6. TemplateTypeOK /\ UNCHANGED templateVars => TemplateTypeOK'
    BY DEF TemplateTypeOK, templateVars
  <1>7. TreeTypeOK /\ UNCHANGED treeVars => TreeTypeOK'
    BY DEF TreeTypeOK, treeVars
  <1>8. CrewTypeOK /\ UNCHANGED crewVars => CrewTypeOK'
    BY DEF CrewTypeOK, crewVars
  <1> QED
    BY <1>1, <1>2, <1>3, <1>4, <1>5, <1>6, <1>7, <1>8

LEMMA TypesFollow ==
  /\ TimeInv => TimeTypeOK
  /\ IsFiniteSet(Cards) /\ RankTyped /\ HandlingTypeOK => RankTypeOK
  /\ FlowTyped /\ HandlingTypeOK => FlowTypeOK
  /\ ProjectTyped /\ HandlingTypeOK => ProjectTypeOK
  /\ SeriesTyped => TemplateTypeOK
  /\ TreeTyped => TreeTypeOK
  /\ CrewTyped => CrewTypeOK
  BY TimeTypes, RanksTyped, FlowTypes, ProjectTypes, SeriesTypes, TreeTypes, CrewTypes

\* What is asked of one component is seen by its own invariant alone.
LEMMA WorkStep == ASSUME IsFiniteSet(Cards), WorkInv, WorkNext PROVE WorkInv'
  <1>0. HandlingTypeOK /\ SlaTyped /\ AllTyped /\ PartTyped
    BY DEF WorkInv
  <1>1. Runs
    <2>1. UNCHANGED <<now, served>> => Runs
      BY DEF Runs
    <2> QED
      BY <2>1, ComponentsRun DEF WorkNext
  <1>2. HandlingTypeOK' /\ part' = part
    BY <1>0, <1>1, RunsTyped DEF WorkNext
  <1>3. ASSUME SlaRuns \/ UNCHANGED slaVars PROVE SlaTyped'
    BY <1>0, <1>1, <1>3, SlaKept
  <1>4. CASE part = "sla" /\ SlaNext /\ UNCHANGED <<part, riskVars, timeVars, rankVars, flowVars, projectVars, templateVars, treeVars, crewVars>>
    <2>1. SlaTyped'
      BY <1>0, <1>4, SlaKept
    <2> QED
      BY <1>0, <1>2, <1>4, <2>1, TypesRest DEF WorkInv, AllTyped, PartTyped
  <1>5. CASE part = "risk" /\ RiskNext /\ UNCHANGED <<part, slaVars, timeVars, rankVars, flowVars, projectVars, templateVars, treeVars, crewVars>>
    <2>1. RiskTyped' /\ RiskTypeOK'
      BY <1>0, <1>5, RiskTypes DEF PartTyped, RiskTyped
    <2> QED
      BY <1>0, <1>2, <1>3, <1>5, <2>1, TypesRest DEF WorkInv, AllTyped, PartTyped
  <1>6. CASE part = "time" /\ TimeNext /\ SlaRuns /\ UNCHANGED <<part, riskVars, rankVars, flowVars, projectVars, templateVars, treeVars, crewVars>>
    <2>1. TimeInv'
      BY <1>0, <1>6, TimeSteps DEF PartTyped
    <2>2. TimeTypeOK'
      BY <2>1, TypesFollow, PTL
    <2> QED
      BY <1>0, <1>2, <1>3, <1>6, <2>1, <2>2, TypesRest DEF WorkInv, AllTyped, PartTyped
  <1>7. CASE part = "rank" /\ RankNext /\ UNCHANGED <<part, slaVars, riskVars, timeVars, flowVars, projectVars, templateVars, treeVars, crewVars>>
    <2>1. RankTyped'
      BY <1>0, <1>7, RankTypes DEF PartTyped
    <2>2. RankTypeOK'
      BY <1>2, <2>1, TypesFollow, PTL
    <2> QED
      BY <1>0, <1>2, <1>3, <1>7, <2>1, <2>2, TypesRest DEF WorkInv, AllTyped, PartTyped
  <1>8. CASE part = "flow" /\ FlowNext /\ UNCHANGED <<part, slaVars, riskVars, timeVars, rankVars, projectVars, templateVars, treeVars, crewVars>>
    <2>1. FlowTyped'
      BY <1>0, <1>8, FlowKept DEF PartTyped
    <2>2. FlowTypeOK'
      BY <1>2, <2>1, TypesFollow, PTL
    <2> QED
      BY <1>0, <1>2, <1>3, <1>8, <2>1, <2>2, TypesRest DEF WorkInv, AllTyped, PartTyped
  <1>9. CASE part = "project" /\ ProjectNext /\ UNCHANGED <<part, slaVars, riskVars, timeVars, rankVars, flowVars, templateVars, treeVars, crewVars>>
    <2>1. ProjectTyped'
      BY <1>0, <1>9, ProjectTypes DEF PartTyped
    <2>2. ProjectTypeOK'
      BY <1>2, <2>1, TypesFollow, PTL
    <2> QED
      BY <1>0, <1>2, <1>3, <1>9, <2>1, <2>2, TypesRest DEF WorkInv, AllTyped, PartTyped
  <1>10. CASE part = "template" /\ TemplateNext /\ UNCHANGED <<part, slaVars, riskVars, timeVars, rankVars, flowVars, projectVars, treeVars, crewVars>>
    <2>1. SeriesTyped'
      BY <1>0, <1>10, SeriesTypes DEF PartTyped
    <2>2. TemplateTypeOK'
      BY <1>2, <2>1, TypesFollow, PTL
    <2> QED
      BY <1>0, <1>2, <1>3, <1>10, <2>1, <2>2, TypesRest DEF WorkInv, AllTyped, PartTyped
  <1>11. CASE part = "tree" /\ TreeNext /\ UNCHANGED <<part, now, served, slaVars, riskVars, timeVars, rankVars, flowVars, projectVars, templateVars, crewVars>>
    <2>1. TreeTyped'
      BY <1>0, <1>11, TreeTypes DEF PartTyped
    <2>2. TreeTypeOK'
      BY <1>2, <2>1, TypesFollow, PTL
    <2> QED
      BY <1>0, <1>2, <1>3, <1>11, <2>1, <2>2, TypesRest DEF WorkInv, AllTyped, PartTyped
  <1>12. CASE part = "crew" /\ CrewNext /\ UNCHANGED <<part, slaVars, riskVars, timeVars, rankVars, flowVars, projectVars, templateVars, treeVars>>
    <2>1. CrewTyped'
      BY <1>0, <1>12, CrewTypes DEF PartTyped
    <2>2. CrewTypeOK'
      BY <1>2, <2>1, TypesFollow, PTL
    <2> QED
      BY <1>0, <1>2, <1>3, <1>12, <2>1, <2>2, TypesRest DEF WorkInv, AllTyped, PartTyped
  <1> QED
    BY <1>4, <1>5, <1>6, <1>7, <1>8, <1>9, <1>10, <1>11, <1>12 DEF WorkNext
\* Nor does it when nothing is asked of anyone.
LEMMA WorkRests ==
  ASSUME IsFiniteSet(Cards), WorkInv,
         UNCHANGED <<part, now, served, slaVars, riskVars, timeVars, rankVars, flowVars, projectVars, templateVars,
                     treeVars, crewVars>>
  PROVE  WorkInv'
  <1>0. HandlingTypeOK /\ SlaTyped /\ AllTyped /\ PartTyped /\ part' = part
    BY DEF WorkInv
  <1>1. Runs /\ HandlingTypeOK'
    BY <1>0 DEF Runs, HandlingTypeOK
  <1>2. SlaTyped' /\ AllTyped'
    BY <1>0, <1>1, SlaKept, TypesRest DEF AllTyped
  <1>3. /\ RiskTyped => RiskTyped'
        /\ TimeInv => TimeInv'
        /\ FlowTyped => FlowTyped'
        /\ SeriesTyped => SeriesTyped'
        /\ CrewTyped => CrewTyped'
    <2>1. RiskTyped => RiskTyped'
      BY TypesRest DEF RiskTyped, RiskAt, riskVars
    <2>2. FlowTyped => FlowTyped'
      BY FlowSteps DEF FlowTyped, FlowBounds, FlowKnows, FlowWithin, flowVars
    <2>3. SeriesTyped => SeriesTyped'
      BY SeriesSteps DEF SeriesTyped, templateVars
    <2>4. CrewTyped => CrewTyped'
      BY CrewSteps DEF CrewTyped, crewVars
    <2>5. TimeInv => TimeInv'
      BY TimeSteps
    <2> QED
      BY <2>1, <2>2, <2>3, <2>4, <2>5
  <1>4. ProjectTyped => ProjectTyped'
    <2>1. work' = work /\ served' = served /\ Opening' = Opening
      BY DEF projectVars, Opening, ChangeAt
    <2> QED
      BY <2>1, ProjectSteps DEF ProjectTyped
  <1>5. TreeTyped => TreeTyped'
    BY LevelsSteps DEF TreeTyped, PlanBounded, treeVars
  <1>6. RankTyped => RankTyped'
    <2>1. Room' = Room /\ Moving' = Moving /\ served' = served /\ UNCHANGED <<card, move>>
      BY DEF rankVars, Room, Moving, MoveAt
    <2> QED
      BY <2>1, RankSteps DEF RankTyped, RankBounds, Within, CardWithin, MoveWithin
  <1> QED
    BY <1>0, <1>1, <1>2, <1>3, <1>4, <1>5, <1>6 DEF WorkInv, PartTyped

\* Over any behaviour of the composition, every variable of every component keeps its type: counters that
\* requests drive (ranks, versions, instants, levels) never outgrow what the requests made can add to them.
THEOREM TypesHold == ASSUME IsFiniteSet(Cards) PROVE WorkSpec => []WorkTypesOK
  <1>1. WorkInit => WorkInv
    BY WorkBegun
  <1>2. WorkInv /\ [WorkNext]_<<part, now, served, slaVars, riskVars, timeVars, rankVars, flowVars, projectVars,
                               templateVars, treeVars, crewVars>> => WorkInv'
    <2> SUFFICES ASSUME WorkInv, [WorkNext]_<<part, now, served, slaVars, riskVars, timeVars, rankVars, flowVars,
                                              projectVars, templateVars, treeVars, crewVars>>
                 PROVE  WorkInv'
      OBVIOUS
    <2>1. CASE WorkNext
      BY <2>1, WorkStep
    <2>2. CASE UNCHANGED <<part, now, served, slaVars, riskVars, timeVars, rankVars, flowVars, projectVars,
                           templateVars, treeVars, crewVars>>
      BY <2>2, WorkRests
    <2> QED
      BY <2>1, <2>2
  <1>3. WorkInv => WorkTypesOK
    BY SlaTypes DEF WorkInv, AllTyped, WorkTypesOK
  <1> QED
    BY <1>1, <1>2, <1>3, PTL DEF WorkSpec
-----------------------------------------------------------------------------
(* The promises beside one another.  What rests keeps what it promised; only the *)
(* clock of the time logs runs on for the SLA, which nobody is handling then.     *)

Promised == RiskRequestKept /\ LogsAreSound /\ TasksFollowWorkflow /\ HierarchySound /\ ProjectIsLed
PromiseInv == WorkInv /\ Promised /\ BudgetInv /\ (part # "sla" => \A p \in Handlers : SlaAt(p, "idle"))

LEMMA PromisesRest ==
  /\ RiskRequestKept /\ UNCHANGED riskVars => RiskRequestKept'
  /\ LogsAreSound /\ UNCHANGED timeVars => LogsAreSound'
  /\ TasksFollowWorkflow /\ UNCHANGED flowVars => TasksFollowWorkflow'
  /\ HierarchySound /\ UNCHANGED treeVars => HierarchySound'
  /\ ProjectIsLed /\ UNCHANGED crewVars => ProjectIsLed'
  <1>1. RiskRequestKept /\ UNCHANGED riskVars => RiskRequestKept'
    BY DEF RiskRequestKept, riskVars, Assess, CalculatedLevel, Score, Weight
  <1>2. LogsAreSound /\ UNCHANGED timeVars => LogsAreSound'
    BY DEF LogsAreSound, CheckedDuration, ManualLogsApart, Kept, timeVars
  <1>3. TasksFollowWorkflow /\ UNCHANGED flowVars => TasksFollowWorkflow'
    BY DEF TasksFollowWorkflow, OnAppliedStage, StatusFollowsStage, Live, AppliedStage, flowVars
  <1>4. HierarchySound /\ UNCHANGED treeVars => HierarchySound'
    <2>1. UNCHANGED treeVars => (LimitedLevels' <=> LimitedLevels)
      BY DEF LimitedLevels, Lines, InState, treeVars
    <2>2. UNCHANGED treeVars => (Forest' <=> Forest)
      BY DEF Forest, NoCycle, SameProject, treeVars
    <2> QED
      BY <2>1, <2>2 DEF HierarchySound, treeVars
  <1>5. ProjectIsLed /\ UNCHANGED crewVars => ProjectIsLed'
    BY DEF ProjectIsLed, ManagerFollows, SomebodyManages, Managing, Best, With, DutyAt, crewVars
  <1> QED
    BY <1>1, <1>2, <1>3, <1>4, <1>5

LEMMA PromisesFollow ==
  /\ TimeInv => LogsAreSound
  /\ FlowTyped => TasksFollowWorkflow
  /\ TreeTyped => HierarchySound
  /\ CrewTyped => ProjectIsLed
  BY LogsSound, TasksFollow, LevelsSound, CrewLed DEF FlowTyped, TreeTyped, CrewTyped

LEMMA PromisesBegun == ASSUME IsFiniteSet(Cards), Crew # {}, WorkInit PROVE PromiseInv
  <1>1. WorkInv
    BY WorkBegun
  <1>2. TimeInv /\ FlowTyped /\ TreeTyped
    BY TimeInitial, FlowKept, TreeTypes DEF WorkInit
  <1>3. RiskRequestKept
    BY DEF WorkInit, RiskInit, RiskRequestKept
  <1>4. ProjectIsLed
    <2>1. CASE CrewInit
      BY <2>1, CrewTypes, PromisesFollow
    <2>2. CASE CrewRests
      BY <2>2 DEF CrewRests, ProjectIsLed, ManagerFollows, SomebodyManages, Managing, With
    <2> QED
      BY <2>1, <2>2 DEF WorkInit
  <1>5. BudgetInv
    BY BudgetInitial DEF WorkInit
  <1>6. \A p \in Handlers : SlaAt(p, "idle")
    BY SlaRestTyped DEF WorkInit, SlaInit, SlaAt
  <1> QED
    BY <1>1, <1>2, <1>3, <1>4, <1>5, <1>6, PromisesFollow DEF PromiseInv, Promised

LEMMA BudgetRests == BudgetInv /\ UNCHANGED <<slaVars, now>> => BudgetInv'
  <1> SUFFICES ASSUME BudgetInv, UNCHANGED <<slaVars, now>> PROVE BudgetInv'
    OBVIOUS
  <1>1. UNCHANGED <<cal, inst, status, sla, ran, revived, now>>
    BY DEF slaVars
  <1>2. SlaInv'
    BY <1>1 DEF BudgetInv, SlaInv
  <1> QED
    BY <1>1, <1>2, InstanceRests DEF BudgetInv, OnBudget, SlaAt

\* Only two clocks run, and the handlers of the others take no time.
Stands == now' = now /\ (served' = served \/ Starts)

LEMMA TimeStands ==
  /\ RiskNext \/ RankNext \/ FlowNext \/ ProjectNext \/ TemplateNext \/ CrewNext => Stands
  /\ TimeNext => TimeTick \/ Stands
  <1>1. RiskNext => Stands
    BY DEF Stands, RiskNext, RiskBegins, SituationChanges, LeaseRunsOut, GetRisk, SetManual, UpsertRule, AskForAll,
           ClaimDue, ReadTask, WriteRisk, NotifyEscalation, RiskCrash
  <1>2. TimeNext => TimeTick \/ Stands
    BY DEF Stands, TimeNext, EntryBegins, StartTimer, StartWrite, StopTimer, StopWrite, EnterLog, CheckOverlap,
           WriteLog, RemoveLog, RemoveWrite
  <1>3. RankNext => Stands
    BY DEF Stands, RankNext, MoveBegins, CreateRead, CreateWrite, Leave, MoveRead, MoveWrite, RenumberWrite
  <1>4. FlowNext => Stands
    BY DEF Stands, FlowNext, FlowBegins, FlowGoes, CreateItem, InsertItem, MoveItem, BringItem, MoveItemWrite,
           LeaveItem, DeleteItem, RestoreItem, BlockItem, ReleaseItem, DependencyWrite, AskDraft, CreateDraft, EditRead, EditWrite, Publish, Remap, PublishCommit
  <1>5. ProjectNext => Stands
    BY DEF Stands, ProjectNext, ChangeBegins, ChangeGoes, UpdateProject, CountBlockers, UpdateProjectWrite, Lifecycle,
           LifecycleWrite, OpenTask, OpenTaskWrite, FinishTask
  <1>6. TemplateNext => Stands
    BY DEF Stands, TemplateNext, EditBegins, EditEnds, UpdateTemplate, UpdateTemplateWrite, PublishTemplate, NumberVersion,
           PublishVersion, ArchiveTemplate, ArchiveWrite, CreateVersion, CreateVersionWrite
  <1>7. CrewNext => Stands
    BY DEF Stands, CrewNext, DutyBegins, DutyGoes, AddMember, UpdateMemberRole, RemoveMember, MemberWrite, ReplaceMembers,
           UpdateVisibility, NameManager, SyncRead, SyncWrite, DutyCrash
  <1> QED
    BY <1>1, <1>2, <1>3, <1>4, <1>5, <1>6, <1>7

\* A step of one component as the others see it.
LEMMA OneMoves ==
  ASSUME WorkNext
  PROVE  /\ part' = part /\ (part # "time" => part = "sla" \/ UNCHANGED <<slaVars, now>>)
         /\ part = "sla" => SlaNext
         /\ part = "time" => TimeNext /\ SlaRuns
         /\ (part = "risk" /\ RiskNext) \/ UNCHANGED riskVars
         /\ (part = "time" /\ TimeNext) \/ UNCHANGED timeVars
         /\ (part = "rank" /\ RankNext) \/ UNCHANGED rankVars
         /\ (part = "flow" /\ FlowNext) \/ UNCHANGED flowVars
         /\ (part = "project" /\ ProjectNext) \/ UNCHANGED projectVars
         /\ (part = "template" /\ TemplateNext) \/ UNCHANGED templateVars
         /\ (part = "tree" /\ TreeNext) \/ UNCHANGED treeVars
         /\ (part = "crew" /\ CrewNext) \/ UNCHANGED crewVars
  BY TimeStands DEF WorkNext, Stands

LEMMA PromiseStep == ASSUME IsFiniteSet(Cards), PromiseInv, WorkNext PROVE PromiseInv'
  <1>0. /\ WorkInv /\ PartTyped /\ Promised /\ BudgetInv /\ part' = part
        /\ part # "sla" => \A p \in Handlers : SlaAt(p, "idle")
    BY OneMoves DEF PromiseInv, WorkInv
  <1>1. WorkInv' /\ PartTyped'
    BY <1>0, WorkStep DEF WorkInv
  <1>2. BudgetInv' /\ (part' # "sla" => \A p \in Handlers : SlaAt(p, "idle")')
    <2>1. CASE part = "sla"
      BY <1>0, <2>1, OneMoves, BudgetSteps
    <2>2. CASE part # "sla" /\ UNCHANGED <<slaVars, now>>
      BY <1>0, <2>2, BudgetRests DEF slaVars, SlaAt
    <2>3. CASE part = "time" /\ now' = now
      <3>1. SlaRuns /\ ~(now' > now)
        BY <1>0, <2>3, OneMoves DEF BudgetInv
      <3>2. UNCHANGED <<slaVars, now>>
        BY <2>3, <3>1 DEF SlaRuns, slaVars
      <3> QED
        BY <1>0, <2>3, <3>2, BudgetRests DEF slaVars, SlaAt
    <2>4. CASE part = "time" /\ TimeTick
      <3>1. SlaTick /\ sla' = sla
        BY <1>0, <2>4, OneMoves DEF TimeTick, SlaTick, SlaRuns, SlaAt
      <3> QED
        BY <1>0, <2>4, <3>1, SlaTicks DEF SlaAt
    <2> QED
      BY <2>1, <2>2, <2>3, <2>4, OneMoves, TimeStands DEF Stands
  <1>3. RiskRequestKept'
    BY <1>0, OneMoves, PromisesRest, RiskSteps DEF Promised
  <1>4. part = "time" => TimeInv'
    BY <1>0, <1>1 DEF PartTyped
  <1>5. part = "flow" => FlowTyped'
    BY <1>0, <1>1 DEF PartTyped
  <1>6. part = "tree" => TreeTyped'
    BY <1>0, <1>1 DEF PartTyped
  <1>7. part = "crew" => CrewTyped'
    BY <1>0, <1>1 DEF PartTyped
  <1>8. /\ TimeInv' => LogsAreSound'
        /\ FlowTyped' => TasksFollowWorkflow'
        /\ TreeTyped' => HierarchySound'
        /\ CrewTyped' => ProjectIsLed'
    BY PromisesFollow, PTL
  <1>9. Promised'
    BY <1>0, <1>3, <1>4, <1>5, <1>6, <1>7, <1>8, OneMoves, PromisesRest DEF Promised
  <1> QED
    BY <1>1, <1>2, <1>9 DEF PromiseInv

LEMMA PromisesStand ==
  ASSUME IsFiniteSet(Cards), PromiseInv,
         UNCHANGED <<part, now, served, slaVars, riskVars, timeVars, rankVars, flowVars, projectVars, templateVars,
                     treeVars, crewVars>>
  PROVE  PromiseInv'
  <1>1. WorkInv'
    BY WorkRests DEF PromiseInv
  <1>2. BudgetInv'
    BY BudgetRests DEF PromiseInv
  <1>3. Promised'
    BY PromisesRest DEF PromiseInv, Promised
  <1> QED
    BY <1>1, <1>2, <1>3 DEF PromiseInv, slaVars, SlaAt

\* No step breaks what the components promise of their steps.
LEMMA StepsPromised ==
  ASSUME PromiseInv, WorkNext
  PROVE  /\ inst' = inst \/ SettledStays
         /\ UNCHANGED rankVars \/ (RankInv /\ RankNext)
         /\ UNCHANGED projectVars \/ (ProjectInv /\ ProjectNext)
         /\ UNCHANGED templateVars \/ (SeriesInv /\ Newest' /\ Shown)
  <1>0. PartTyped /\ SlaInv
    BY DEF PromiseInv, WorkInv, BudgetInv
  <1>1. inst' = inst \/ SettledStays
    <2>1. CASE part = "sla"
      BY <1>0, <2>1, OneMoves, SlaSteps
    <2>2. CASE part # "sla"
      BY <2>2, OneMoves DEF SlaRuns, slaVars
    <2> QED
      BY <2>1, <2>2
  <1>2. UNCHANGED rankVars \/ (RankInv /\ RankNext)
    BY <1>0, OneMoves DEF PartTyped, RankTyped
  <1>3. UNCHANGED projectVars \/ (ProjectInv /\ ProjectNext)
    BY <1>0, OneMoves DEF PartTyped, ProjectTyped
  <1>4. UNCHANGED templateVars \/ (SeriesInv /\ Newest' /\ Shown)
    <2>1. CASE part = "template" /\ TemplateNext
      <3>1. SeriesInv
        BY <1>0, <2>1 DEF PartTyped, SeriesTyped
      <3>2. SeriesInv' /\ Shown
        BY <2>1, <3>1, SeriesSteps
      <3> QED
        BY <3>1, <3>2 DEF SeriesInv
    <2> QED
      BY <2>1, OneMoves
  <1> QED
    BY <1>1, <1>2, <1>3, <1>4

\* What each component promises it keeps among the others: the exact dates and
\* budgets of an SLA, the request for an assessment, sound logs, tasks that follow
\* their workflow, a sound hierarchy, a project that is led; a settled instance
\* stays, a move lands between its neighbours, a project is completed without
\* work, one version of a series is current.
THEOREM WorkKeepsPromises ==
    ASSUME IsFiniteSet(Cards), Crew # {}
    PROVE  WorkSpec => /\ [](/\ BusinessTimeExact /\ BudgetKept /\ RiskRequestKept /\ LogsAreSound
                             /\ TasksFollowWorkflow /\ HierarchySound /\ ProjectIsLed)
                       /\ FinalStays /\ LandsBetween /\ CompletionGuarded /\ OneCurrent
  <1> DEFINE Step == [WorkNext]_<<part, now, served, slaVars, riskVars, timeVars, rankVars, flowVars, projectVars,
                            templateVars, treeVars, crewVars>>
  <1>1. WorkInit => PromiseInv
    BY PromisesBegun
  <1>2. PromiseInv /\ Step => PromiseInv'
    BY PromiseStep, PromisesStand
  <1>3. PromiseInv => BusinessTimeExact /\ BudgetKept /\ RiskRequestKept /\ LogsAreSound
                      /\ TasksFollowWorkflow /\ HierarchySound /\ ProjectIsLed
    BY CalendarsAreExact, BudgetHolds DEF PromiseInv, Promised, BusinessTimeExact
  <1>4. PromiseInv /\ Step =>
          [inst.status \in Finals /\ (\A p \in Handlers : SlaAt(p, "resume") => sla'[p] = sla[p])
             => inst'.status = inst.status]_slaVars
    BY StepsPromised DEF SettledStays, slaVars
  <1>5. PromiseInv /\ Step =>
          [\A p \in Handlers : LET m == move[p] IN
             m.pc \in {"place", "renumber"} /\ Undisturbed(p)
             /\ move'[p].pc = "idle" /\ card'[m.card] # card[m.card]
               => /\ m.before # NoCard => card'[m.before].rank < card'[m.card].rank
                  /\ m.after # NoCard => card'[m.card].rank < card'[m.after].rank]_rankVars
    BY StepsPromised, LandsStep
  <1>6. PromiseInv /\ Step =>
          [project'.status = "COMPLETED" /\ project.status # "COMPLETED" /\ project.policy = "BLOCK"
             => work = 0 \/ unseen']_projectVars
    BY StepsPromised, CompletionStep
  <1>7. PromiseInv /\ Step =>
          [/\ \A v \in Published' : \A w \in SeriesVersions : Exists(w)' => w <= v
           /\ \A v \in SeriesVersions \ {0} : Exists(v) => row'[v].content = row[v].content]_templateVars
    BY StepsPromised DEF Newest, Shown
  <1> QED
    BY <1>1, <1>2, <1>3, <1>4, <1>5, <1>6, <1>7, PTL
    DEF WorkSpec, FinalStays, LandsBetween, CompletionGuarded, OneCurrent
=============================================================================
