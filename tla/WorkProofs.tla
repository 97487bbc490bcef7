----------------------------- MODULE WorkProofs -----------------------------
(***************************************************************************)
(* Proofs about the status and the members of projects, the versions of      *)
(* templates, time logs, SLA instances and their budgets, subtasks and their  *)
(* levels, risk scores and the ranks of a board column, for any handlers,     *)
(* people, contents, logs, calendars, policies and tasks and any number of    *)
(* requests.                                                                  *)
(***************************************************************************)
EXTENDS ProjectLifecycle, ProjectMembers, TemplateSeries, TimeLogs, TaskSla, TaskTree, TaskRisk, ColumnRanks, WorkflowPublish,
        FiniteSetTheorems, WellFoundedInduction, TLAPS

-----------------------------------------------------------------------------
(* ProjectLifecycle.  The handler that is about to write COMPLETED has       *)
(* counted no work under the policy it read, unless work appeared since.     *)

ChangeType == [pc : {"idle", "blockers", "update", "lifecycle", "task"}, seen : ProjectType,
               to : ProjectStatuses, policy : CompletionPolicies, action : Actions,
               reason : BOOLEAN, grown : BOOLEAN]
ProjectRows == /\ project \in ProjectType
               /\ work \in Nat
               /\ change \in [Handlers -> ChangeType]
               /\ unseen \in BOOLEAN
Completes(r) == r.pc = "update" /\ r.to = "COMPLETED" /\ r.seen.status # "COMPLETED"
Counted == \A p \in Handlers :
    Completes(change[p]) /\ change[p].seen.policy = "BLOCK" /\ ~change[p].grown => work = 0
ProjectInv == ProjectRows /\ Counted

LEMMA RestTyped == ChangeRest \in ChangeType /\ ~Completes(ChangeRest)
  BY DEF ChangeRest, ChangeType, NewProject, ProjectType, ProjectStatuses, CompletionPolicies, Actions, Completes

LEMMA ProjectInitial == ProjectInit => ProjectInv
  <1> SUFFICES ASSUME ProjectInit PROVE ProjectInv
    OBVIOUS
  <1>1. project \in ProjectType
    BY DEF ProjectInit, NewProject, ProjectType, ProjectStatuses
  <1>2. work \in Nat /\ unseen \in BOOLEAN
    BY DEF ProjectInit
  <1>3. change \in [Handlers -> ChangeType] /\ Counted
    BY RestTyped DEF ProjectInit, Counted
  <1> QED
    BY <1>1, <1>2, <1>3 DEF ProjectInv, ProjectRows

\* A request that reads asks for no completion before the blockers are counted.
LEMMA ReadsSafely ==
  ASSUME ProjectInv, NEW p \in Handlers, UpdateProject(p) \/ Lifecycle(p) \/ OpenTask(p)
  PROVE  ProjectInv'
  <1>1. CASE UpdateProject(p)
    <2>1. PICK to \in ProjectStatuses, policy \in CompletionPolicies, reason \in BOOLEAN :
            change' = [change EXCEPT ![p] = [ChangeRest EXCEPT !.seen = project, !.to = to, !.policy = policy,
                         !.reason = reason,
                         !.pc = IF to = "COMPLETED" /\ project.status # to THEN "blockers" ELSE "update"]]
      BY <1>1 DEF UpdateProject
    <2>2. UNCHANGED <<project, work, unseen>>
      BY <1>1 DEF UpdateProject
    <2>3. change' \in [Handlers -> ChangeType]
      BY <2>1, RestTyped DEF ProjectInv, ProjectRows, ChangeType
    <2>4. ~Completes(change'[p])
      BY <2>1, RestTyped DEF ProjectInv, ProjectRows, ChangeType, Completes
    <2>5. \A q \in Handlers : q # p => change'[q] = change[q]
      BY <2>1 DEF ProjectInv, ProjectRows
    <2> QED
      BY <2>2, <2>3, <2>4, <2>5 DEF ProjectInv, ProjectRows, Counted
  <1>2. CASE Lifecycle(p)
    <2>1. PICK a \in Actions :
            change' = [change EXCEPT ![p] = [ChangeRest EXCEPT !.pc = "lifecycle", !.action = a]]
      BY <1>2 DEF Lifecycle
    <2>2. UNCHANGED <<project, work, unseen>>
      BY <1>2 DEF Lifecycle
    <2>3. change' \in [Handlers -> ChangeType] /\ ~Completes(change'[p])
      BY <2>1, RestTyped DEF ProjectInv, ProjectRows, ChangeType, Completes
    <2>4. \A q \in Handlers : q # p => change'[q] = change[q]
      BY <2>1 DEF ProjectInv, ProjectRows
    <2> QED
      BY <2>2, <2>3, <2>4 DEF ProjectInv, ProjectRows, Counted
  <1>3. CASE OpenTask(p)
    <2>1. /\ change' = [change EXCEPT ![p].pc = "task"]
          /\ UNCHANGED <<project, work, unseen>>
      BY <1>3 DEF OpenTask
    <2>2. change' \in [Handlers -> ChangeType] /\ ~Completes(change'[p])
      BY <2>1 DEF ProjectInv, ProjectRows, ChangeType, Completes
    <2>3. \A q \in Handlers : q # p => change'[q] = change[q]
      BY <2>1 DEF ProjectInv, ProjectRows
    <2> QED
      BY <2>1, <2>2, <2>3 DEF ProjectInv, ProjectRows, Counted
  <1> QED
    BY <1>1, <1>2, <1>3

\* The count lets a project under BLOCK pass only without work.
LEMMA CountsHold ==
  ASSUME ProjectInv, NEW p \in Handlers, CountBlockers(p)
  PROVE  ProjectInv'
  <1>1. UNCHANGED <<project, work, unseen>>
    BY DEF CountBlockers
  <1>2. CASE CanComplete(change[p].seen.policy, change[p].reason)
    <2>1. change' = [change EXCEPT ![p].pc = "update", ![p].grown = FALSE]
      BY <1>2 DEF CountBlockers
    <2>2. change' \in [Handlers -> ChangeType] /\ change'[p].seen = change[p].seen
      BY <2>1 DEF ProjectInv, ProjectRows, ChangeType
    <2>3. change[p].seen.policy = "BLOCK" => work = 0
      BY <1>2 DEF CanComplete
    <2>4. \A q \in Handlers : q # p => change'[q] = change[q]
      BY <2>1 DEF ProjectInv, ProjectRows
    <2> QED
      BY <1>1, <2>2, <2>3, <2>4 DEF ProjectInv, ProjectRows, Counted
  <1>3. CASE ~CanComplete(change[p].seen.policy, change[p].reason)
    <2>1. change' = [change EXCEPT ![p] = ChangeRest]
      BY <1>3 DEF CountBlockers, ChangeEnds
    <2> QED
      BY <1>1, <2>1, RestTyped DEF ProjectInv, ProjectRows, Counted
  <1> QED
    BY <1>2, <1>3

\* A handler that writes the project forgets what it has read.
LEMMA WritesHold ==
  ASSUME ProjectInv, NEW p \in Handlers, UpdateProjectWrite(p) \/ LifecycleWrite(p)
  PROVE  ProjectInv'
  <1>1. change' = [change EXCEPT ![p] = ChangeRest] /\ UNCHANGED work
    BY DEF UpdateProjectWrite, LifecycleWrite, ChangeEnds
  <1>2. change' \in [Handlers -> ChangeType] /\ Counted'
    BY <1>1, RestTyped DEF ProjectInv, ProjectRows, Counted
  <1>3. CASE UpdateProjectWrite(p)
    <2>1. /\ project' = [project EXCEPT !.status = change[p].to, !.policy = change[p].policy]
          /\ unseen' = (change[p].seen # project \/ change[p].grown)
      BY <1>3 DEF UpdateProjectWrite
    <2>2. change[p] \in ChangeType
      BY DEF ProjectInv, ProjectRows
    <2>3. project' \in ProjectType
      BY <2>1, <2>2 DEF ProjectInv, ProjectRows, ProjectType, ChangeType
    <2>4. unseen' \in BOOLEAN
      BY <2>1, <2>2 DEF ChangeType
    <2> QED
      BY <1>1, <1>2, <2>3, <2>4 DEF ProjectInv, ProjectRows
  <1>4. CASE LifecycleWrite(p)
    <2>1. UNCHANGED unseen /\ change[p].action \in Actions
      BY <1>4 DEF LifecycleWrite, ProjectInv, ProjectRows, ChangeType
    <2>2. project' \in ProjectType
      BY <1>4, <2>1 DEF LifecycleWrite, ProjectInv, ProjectRows, ProjectType, ProjectStatuses, Actions
    <2> QED
      BY <1>1, <1>2, <2>1, <2>2 DEF ProjectInv, ProjectRows
  <1> QED
    BY <1>3, <1>4

\* Work that appears marks every handler that may have counted it.
LEMMA WorkHolds ==
  ASSUME ProjectInv, NEW p \in Handlers, OpenTaskWrite(p) \/ FinishTask(p)
  PROVE  ProjectInv'
  <1>1. CASE OpenTaskWrite(p)
    <2>1. /\ work' = work + 1
          /\ change' = [q \in Handlers |-> IF q = p THEN ChangeRest
                                            ELSE [change[q] EXCEPT !.grown = ~ChangeAt(q, "idle")]]
          /\ UNCHANGED <<project, unseen>>
      BY <1>1 DEF OpenTaskWrite
    <2>2. ASSUME NEW q \in Handlers
          PROVE  change'[q] \in ChangeType /\ (change'[q].grown \/ ~Completes(change'[q]))
      BY <2>1, RestTyped DEF ProjectInv, ProjectRows, ChangeType, ChangeAt, Completes
    <2>3. change' \in [Handlers -> ChangeType]
      BY <2>1, <2>2
    <2> QED
      BY <2>1, <2>2, <2>3 DEF ProjectInv, ProjectRows, Counted
  <1>2. CASE FinishTask(p)
    BY <1>2 DEF FinishTask, ProjectInv, ProjectRows, Counted
  <1> QED
    BY <1>1, <1>2

LEMMA ProjectSteps == ProjectInv /\ [ProjectNext]_<<projectVars, now, served>> => ProjectInv'
  <1> SUFFICES ASSUME ProjectInv, [ProjectNext]_<<projectVars, now, served>> PROVE ProjectInv'
    OBVIOUS
  <1>1. CASE ProjectNext
    BY <1>1, ReadsSafely, CountsHold, WritesHold, WorkHolds DEF ProjectNext
  <1>2. CASE UNCHANGED <<projectVars, now, served>>
    BY <1>2 DEF ProjectInv, ProjectRows, Counted, projectVars
  <1> QED
    BY <1>1, <1>2

\* Only the write of an update can set COMPLETED, and it has counted.
LEMMA CompletionStep ==
  ProjectInv /\ [ProjectNext]_<<projectVars, now, served>> =>
    (project'.status = "COMPLETED" /\ project.status # "COMPLETED" /\ project.policy = "BLOCK" => work = 0 \/ unseen')
  <1> SUFFICES ASSUME ProjectInv, [ProjectNext]_<<projectVars, now, served>>,
                      project'.status = "COMPLETED", project.status # "COMPLETED", project.policy = "BLOCK"
               PROVE  work = 0 \/ unseen'
    OBVIOUS
  <1>1. project' # project
    OBVIOUS
  <1>2. PICK p \in Handlers : UpdateProjectWrite(p) \/ LifecycleWrite(p)
    BY <1>1 DEF ProjectNext, projectVars, UpdateProject, CountBlockers, Lifecycle, OpenTask, OpenTaskWrite, FinishTask
  <1>3. CASE UpdateProjectWrite(p)
    <2>1. /\ project' = [project EXCEPT !.status = change[p].to, !.policy = change[p].policy]
          /\ unseen' = (change[p].seen # project \/ change[p].grown)
          /\ change[p].pc = "update"
      BY <1>3 DEF UpdateProjectWrite, ChangeAt
    <2>2. change[p].to = "COMPLETED"
      BY <2>1 DEF ProjectInv, ProjectRows, ProjectType
    <2>3. CASE change[p].seen = project /\ ~change[p].grown
      BY <2>1, <2>2, <2>3 DEF ProjectInv, Counted, Completes
    <2> QED
      BY <2>1, <2>3
  <1>4. CASE LifecycleWrite(p)
    BY <1>4 DEF LifecycleWrite, ProjectInv, ProjectRows, ProjectType, ChangeType, Actions
  <1> QED
    BY <1>2, <1>3, <1>4

\* Of every project, whatever its handlers and however many requests there are:
\* under BLOCK it is completed only without work (assessProjectCompletion),
\* unless its row changed or work appeared after they were read.
THEOREM CompletionIsGuarded == ProjectSpec => CompletionGuarded
  <1>1. ProjectInit => ProjectInv
    BY ProjectInitial
  <1>2. ProjectInv /\ [ProjectNext]_<<projectVars, now, served>> => ProjectInv'
    BY ProjectSteps
  <1>3. ProjectInv /\ [ProjectNext]_<<projectVars, now, served>> =>
          [project'.status = "COMPLETED" /\ project.status # "COMPLETED" /\ project.policy = "BLOCK"
             => work = 0 \/ unseen']_projectVars
    BY CompletionStep
  <1> QED
    BY <1>1, <1>2, <1>3, PTL DEF ProjectSpec, CompletionGuarded

-----------------------------------------------------------------------------
(* TemplateSeries.  The numbers of a series have no gaps, and a publication  *)
(* holds the number after the last it saw: either it is the next one still,  *)
(* or the index refuses it.                                                   *)

EditType == [pc : {"idle", "update", "number", "publish", "archive", "revive"}, version : Nat, content : Contents]
Gapless == \E k \in SeriesVersions : \A v \in SeriesVersions : Exists(v) <=> v <= k
Newest == \A v \in Published : \A w \in SeriesVersions : Exists(w) => w <= v
\* What a handler relies on: the row it archives, the rows before the one it adds.
Relies(r) == /\ r.pc = "archive" => r.version \in SeriesVersions /\ Exists(r.version)
             /\ r.pc = "publish" => r.version >= 1 /\ \A v \in SeriesVersions : v < r.version => Exists(v)
Shown == \A v \in SeriesVersions \ {0} : Exists(v) => row'[v].content = row[v].content

SeriesInv == /\ row \in [SeriesVersions -> RowType]
             /\ edit \in [Handlers -> EditType]
             /\ Gapless /\ Newest
             /\ \A p \in Handlers : Relies(edit[p])

LEMMA SeriesFacts == SeriesVersions \subseteq Nat /\ 0 \in SeriesVersions
  BY HandlingAssumption DEF SeriesVersions

LEMMA SeriesInitial == TemplateInit => SeriesInv
  <1> SUFFICES ASSUME TemplateInit PROVE SeriesInv
    OBVIOUS
  <1>1. PICK c \in Contents : row = [v \in SeriesVersions |-> IF v = 0 THEN [status |-> "DRAFT", content |-> c] ELSE NoRow]
    BY DEF TemplateInit
  <1>2. (CHOOSE d \in Contents : TRUE) \in Contents
    OBVIOUS
  <1>3. row \in [SeriesVersions -> RowType]
    BY <1>1, <1>2 DEF RowType, RowStatuses, NoRow
  <1>4. \A v \in SeriesVersions : (Exists(v) <=> v = 0) /\ row[v].status # "PUBLISHED"
    BY <1>1 DEF Exists, NoRow
  <1>5. Gapless /\ Newest
    <2>1. ASSUME NEW v \in SeriesVersions PROVE Exists(v) <=> v <= 0
      <3>1. v \in Nat /\ (v <= 0 <=> v = 0)
        BY SeriesFacts
      <3> QED
        BY <1>4, <3>1
    <2>2. Gapless
      BY <2>1, SeriesFacts DEF Gapless
    <2>3. Published = {}
      BY <1>4 DEF Published
    <2>4. Newest
      BY <2>3 DEF Newest
    <2> QED
      BY <2>2, <2>4
  <1>6. edit \in [Handlers -> EditType] /\ \A p \in Handlers : Relies(edit[p])
    BY <1>2 DEF TemplateInit, EditRest, EditType, Relies
  <1> QED
    BY <1>3, <1>5, <1>6 DEF SeriesInv

\* Steps that add no row and publish none.
LEMMA QuietStep ==
  ASSUME SeriesInv, row' \in [SeriesVersions -> RowType], edit' \in [Handlers -> EditType],
         \A v \in SeriesVersions : Exists(v)' <=> Exists(v),
         \A v \in SeriesVersions : row'[v].status = "PUBLISHED" => row[v].status = "PUBLISHED",
         \A q \in Handlers : edit'[q] = edit[q] \/ Relies(edit'[q])
  PROVE  SeriesInv'
  <1>1. Gapless' /\ Newest'
    BY DEF SeriesInv, Gapless, Newest, Published
  <1>2. ASSUME NEW q \in Handlers PROVE Relies(edit[q])'
    <2>1. Relies(edit'[q])
      BY DEF SeriesInv
    <2> QED
      BY <2>1, SeriesFacts DEF Relies, Exists
  <1> QED
    BY <1>1, <1>2 DEF SeriesInv

\* The first step of a request, and the numbering of a publication.
LEMMA SeriesReads ==
  ASSUME SeriesInv, NEW p \in Handlers,
         UpdateTemplate(p) \/ PublishTemplate(p) \/ ArchiveTemplate(p) \/ CreateVersion(p)
  PROVE  SeriesInv' /\ Shown
  <1>1. UNCHANGED row
    BY DEF UpdateTemplate, PublishTemplate, ArchiveTemplate, CreateVersion
  <1>2. PICK pc \in {"update", "number", "archive", "revive"}, v \in SeriesVersions, c \in Contents :
          EditStep(p, pc, v, c) /\ (pc = "archive" => Exists(v))
    <2>1. \A v \in SeriesVersions : row[v].content \in Contents
      BY DEF SeriesInv, RowType
    <2>2. CASE UpdateTemplate(p)
      BY <2>2, SeriesFacts DEF UpdateTemplate
    <2>3. CASE PublishTemplate(p)
      BY <2>1, <2>3, SeriesFacts DEF PublishTemplate
    <2>4. CASE ArchiveTemplate(p)
      BY <2>1, <2>4 DEF ArchiveTemplate
    <2>5. CASE CreateVersion(p)
      BY <2>1, <2>5 DEF CreateVersion
    <2> QED
      BY <2>2, <2>3, <2>4, <2>5
  <1>3. edit' = [edit EXCEPT ![p] = [pc |-> pc, version |-> v, content |-> c]]
    BY <1>2 DEF EditStep
  <1>4. edit' \in [Handlers -> EditType]
    BY <1>3, SeriesFacts DEF SeriesInv, EditType
  <1>5. \A q \in Handlers : edit'[q] = edit[q] \/ Relies(edit'[q])
    BY <1>2, <1>3 DEF SeriesInv, Relies
  <1>6. SeriesInv'
    <2>1. row' \in [SeriesVersions -> RowType] /\ \A w \in SeriesVersions : Exists(w)' <=> Exists(w)
      BY <1>1 DEF SeriesInv, Exists
    <2> QED
      BY <1>1, <1>4, <1>5, <2>1, QuietStep
  <1> QED
    BY <1>1, <1>6 DEF Shown

LEMMA SeriesNumbers ==
  ASSUME SeriesInv, NEW p \in Handlers, NumberVersion(p)
  PROVE  SeriesInv' /\ Shown
  <1> DEFINE last(v) == Exists(v) /\ \A w \in SeriesVersions : Exists(w) => w <= v
             n == CHOOSE v \in SeriesVersions : last(v)
  <1>1. n \in SeriesVersions /\ last(n)
    <2>1. PICK k \in SeriesVersions : \A v \in SeriesVersions : Exists(v) <=> v <= k
      BY DEF SeriesInv, Gapless
    <2>2. last(k)
      BY <2>1, SeriesFacts
    <2> HIDE DEF last
    <2> QED
      BY <2>2
  <1>2. edit' = [edit EXCEPT ![p] = [pc |-> "publish", version |-> 1 + n, content |-> edit[p].content]] /\ UNCHANGED row
    BY DEF NumberVersion, EditStep
  <1> HIDE DEF n
  <1>3. \A v \in SeriesVersions : v < 1 + n => Exists(v)
    <2>1. PICK k \in SeriesVersions : \A v \in SeriesVersions : Exists(v) <=> v <= k
      BY DEF SeriesInv, Gapless
    <2>2. n = k
      BY <1>1, <2>1, SeriesFacts
    <2> QED
      BY <2>1, <2>2, SeriesFacts
  <1>4. edit' \in [Handlers -> EditType]
    BY <1>1, <1>2, SeriesFacts DEF SeriesInv, EditType
  <1>5. \A q \in Handlers : edit'[q] = edit[q] \/ Relies(edit'[q])
    BY <1>1, <1>2, <1>3, SeriesFacts DEF SeriesInv, Relies
  <1>6. row' \in [SeriesVersions -> RowType] /\ \A w \in SeriesVersions : Exists(w)' <=> Exists(w)
    BY <1>2 DEF SeriesInv, Exists
  <1>7. SeriesInv'
    BY <1>2, <1>4, <1>5, <1>6, QuietStep
  <1> QED
    BY <1>2, <1>7 DEF Shown

\* A handler that has answered relies on nothing.
LEMMA Answers ==
  ASSUME SeriesInv, NEW p \in Handlers, EditEnds(p)
  PROVE  edit' \in [Handlers -> EditType] /\ \A q \in Handlers : edit'[q] = edit[q] \/ Relies(edit'[q])
  <1>1. (CHOOSE c \in Contents : TRUE) \in Contents
    BY SeriesFacts DEF SeriesInv, RowType
  <1> QED
    BY <1>1 DEF SeriesInv, EditEnds, EditRest, EditType, Relies

\* Updates, archivings and new drafts write one existing row.
LEMMA SeriesWrites ==
  ASSUME SeriesInv, NEW p \in Handlers, UpdateTemplateWrite(p) \/ ArchiveWrite(p) \/ CreateVersionWrite(p)
  PROVE  SeriesInv' /\ Shown
  <1>1. EditEnds(p) /\ edit[p] \in EditType
    BY DEF UpdateTemplateWrite, ArchiveWrite, CreateVersionWrite, SeriesInv
  <1>2. edit' \in [Handlers -> EditType] /\ \A q \in Handlers : edit'[q] = edit[q] \/ Relies(edit'[q])
    BY <1>1, Answers
  <1>3. Exists(0)
    BY SeriesFacts DEF SeriesInv, Gapless
  <1>4. /\ row' \in [SeriesVersions -> RowType]
        /\ \A v \in SeriesVersions : Exists(v)' <=> Exists(v)
        /\ \A v \in SeriesVersions : row'[v].status = "PUBLISHED" => row[v].status = "PUBLISHED"
        /\ Shown
    <2>1. CASE UpdateTemplateWrite(p)
      BY <1>1, <2>1, SeriesFacts DEF UpdateTemplateWrite, SeriesInv, EditType, RowType, RowStatuses, Exists, Shown
    <2>2. CASE ArchiveWrite(p)
      <3>1. edit[p].version \in SeriesVersions /\ Exists(edit[p].version)
        BY <2>2 DEF ArchiveWrite, EditAt, SeriesInv, Relies
      <3> QED
        BY <2>2, <3>1 DEF ArchiveWrite, SeriesInv, RowType, RowStatuses, Exists, Shown
    <2>3. CASE CreateVersionWrite(p)
      BY <1>1, <1>3, <2>3, SeriesFacts DEF CreateVersionWrite, SeriesInv, EditType, RowType, RowStatuses, Exists, Shown
    <2> QED
      BY <2>1, <2>2, <2>3
  <1>5. SeriesInv'
    BY <1>2, <1>4, QuietStep
  <1> QED
    BY <1>4, <1>5

\* A publication archives what is published and adds the next row, or neither.
LEMMA SeriesPublishes ==
  ASSUME SeriesInv, NEW p \in Handlers, PublishVersion(p)
  PROVE  SeriesInv' /\ Shown
  <1> DEFINE n == edit[p].version
  <1>1. EditEnds(p) /\ edit[p] \in EditType /\ n >= 1 /\ \A v \in SeriesVersions : v < n => Exists(v)
    BY DEF PublishVersion, EditAt, SeriesInv, Relies
  <1>2. edit' \in [Handlers -> EditType] /\ \A q \in Handlers : edit'[q] = edit[q] \/ Relies(edit'[q])
    BY <1>1, Answers
  <1>3. CASE row' = row
    <2>1. row' \in [SeriesVersions -> RowType] /\ \A v \in SeriesVersions : Exists(v)' <=> Exists(v)
      BY <1>3 DEF SeriesInv, Exists
    <2> QED
      BY <1>2, <1>3, <2>1, QuietStep DEF Shown
  <1>4. CASE row' # row
    <2>1. /\ ~Exists(n)
          /\ row' = [v \in SeriesVersions |->
                      IF v = n THEN [status |-> "PUBLISHED", content |-> edit[p].content]
                      ELSE IF v \in Published THEN [row[v] EXCEPT !.status = "ARCHIVED"] ELSE row[v]]
      BY <1>4 DEF PublishVersion
    <2> HIDE DEF n
    <2>2. row' \in [SeriesVersions -> RowType]
      BY <1>1, <2>1 DEF SeriesInv, EditType, RowType, RowStatuses
    <2>3. \A v \in SeriesVersions : (Exists(v)' <=> Exists(v) \/ v = n) /\ (row'[v].status = "PUBLISHED" => v = n)
      BY <2>1 DEF SeriesInv, RowType, Exists, Published
    <2>4. \A v \in SeriesVersions : Exists(v) => v < n
      <3>1. PICK k \in SeriesVersions : \A v \in SeriesVersions : Exists(v) <=> v <= k
        BY DEF SeriesInv, Gapless
      <3>2. n \in Nat
        BY <1>1 DEF EditType, n
      <3>3. CASE n \in SeriesVersions
        BY <2>1, <3>1, <3>2, <3>3, SeriesFacts
      <3>4. CASE n \notin SeriesVersions
        BY <3>2, <3>4, HandlingAssumption DEF SeriesVersions
      <3> QED
        BY <3>3, <3>4
    <2>5. Newest'
      BY <2>3, <2>4, SeriesFacts, <1>1 DEF Newest, Published, EditType, n
    <2>6. Gapless'
      <3>1. PICK k \in SeriesVersions : \A v \in SeriesVersions : Exists(v) <=> v <= k
        BY DEF SeriesInv, Gapless
      <3>2. CASE n \in SeriesVersions
        <4>1. \A v \in SeriesVersions : Exists(v)' <=> v <= n
          BY <1>1, <2>3, <2>4, <3>2, SeriesFacts
        <4> QED
          BY <3>2, <4>1 DEF Gapless
      <3>3. CASE n \notin SeriesVersions
        BY <2>3, <3>1, <3>3 DEF Gapless
      <3> QED
        BY <3>2, <3>3
    <2>7. ASSUME NEW q \in Handlers PROVE Relies(edit[q])'
      <3>1. Relies(edit'[q])
        BY <1>2 DEF SeriesInv
      <3>2. \A v \in SeriesVersions : Exists(v) => Exists(v)'
        BY <2>3
      <3> QED
        BY <3>1, <3>2, SeriesFacts DEF Relies
    <2>8. Shown
      BY <2>1, <2>4, SeriesFacts, <1>1 DEF Shown, SeriesInv, EditType, n
    <2> QED
      BY <1>2, <2>2, <2>5, <2>6, <2>7, <2>8 DEF SeriesInv
  <1> QED
    BY <1>3, <1>4

LEMMA SeriesSteps == SeriesInv /\ [TemplateNext]_<<templateVars, now, served>> => SeriesInv' /\ Shown
  <1> SUFFICES ASSUME SeriesInv, [TemplateNext]_<<templateVars, now, served>> PROVE SeriesInv' /\ Shown
    OBVIOUS
  <1>1. CASE TemplateNext
    BY <1>1, SeriesReads, SeriesNumbers, SeriesWrites, SeriesPublishes DEF TemplateNext
  <1>2. CASE UNCHANGED <<templateVars, now, served>>
    BY <1>2 DEF templateVars, SeriesInv, Gapless, Newest, Published, Exists, Relies, Shown
  <1> QED
    BY <1>1, <1>2

\* Of every series, however many publications, archivings and new drafts
\* interleave: one version at most is published, the newest, and what was
\* published keeps its content (publishTemplate, createVersion).
THEOREM OneVersionCurrent == TemplateSpec => OneCurrent
  <1>1. TemplateInit => SeriesInv
    BY SeriesInitial
  <1>2. SeriesInv /\ [TemplateNext]_<<templateVars, now, served>> => SeriesInv'
    BY SeriesSteps
  <1>3. SeriesInv /\ [TemplateNext]_<<templateVars, now, served>> =>
          [/\ \A v \in Published' : \A w \in SeriesVersions : Exists(w)' => w <= v
           /\ \A v \in SeriesVersions \ {0} : Exists(v) => row'[v].content = row[v].content]_templateVars
    BY SeriesSteps DEF SeriesInv, Newest, Shown
  <1> QED
    BY <1>1, <1>2, <1>3, PTL DEF TemplateSpec, OneCurrent

-----------------------------------------------------------------------------
(* TimeLogs.  Until one request checks its interval while another is about   *)
(* to write, at most one handler is about to write, and its interval is      *)
(* still apart from every interval checked before.                           *)

EntryType == [pc : {"idle", "start", "stop", "check", "write", "delete"},
              id : Logs \cup {New}, start : Hours, end : Hours]
Ordered(r) == r.pc \in {"stop", "check", "write"} => r.start <= r.end
TimeRows == /\ log \in [Logs -> LogType]
            /\ entry \in [Handlers -> EntryType]
            /\ crowded \in BOOLEAN
            /\ now \in Hours
TimersPast == \A l \in Kept : log[l].end = Running => log[l].start <= now
Sound == \A l \in Kept : log[l].checked => log[l].end # Running /\ log[l].duration = log[l].end - log[l].start
Apart(a, b) == a.end <= b.start \/ b.end <= a.start
Alone == \A p, q \in Handlers : EntryAt(p, "write") /\ EntryAt(q, "write") => p = q
WriterApart == \A p \in Handlers : EntryAt(p, "write") =>
    \A o \in Kept \ {entry[p].id} : log[o].checked => Apart(entry[p], log[o])
LogsApart == \A a, b \in Kept : log[a].checked /\ log[b].checked /\ a # b => Apart(log[a], log[b])
TimeInv == /\ TimeRows /\ TimersPast /\ Sound
           /\ \A p \in Handlers : Ordered(entry[p])
           /\ ~crowded => Alone /\ WriterApart /\ LogsApart

LEMMA HourFacts == /\ Hours \subseteq Nat /\ 0 \in Hours /\ Running \notin Hours
                   /\ LastHour \in Nat /\ \A h \in Nat : h <= LastHour => h \in Hours
  BY HandlingAssumption, LogAssumption DEF Hours

LEMMA EntryRestTyped == EntryRest \in EntryType /\ EntryRest.pc = "idle" /\ Ordered(EntryRest)
  BY HourFacts DEF EntryRest, EntryType, Ordered

LEMMA TimeInitial == HandlingInit /\ TimeInit => TimeInv
  <1> SUFFICES ASSUME HandlingInit, TimeInit PROVE TimeInv
    OBVIOUS
  <1>1. NoLog \in LogType /\ NoLog.state # "kept"
    BY HourFacts DEF NoLog, LogType
  <1>2. Kept = {}
    BY <1>1 DEF TimeInit, Kept
  <1>3. TimeRows
    BY <1>1, EntryRestTyped, HourFacts DEF TimeInit, HandlingInit, TimeRows
  <1>4. \A p \in Handlers : Ordered(entry[p]) /\ ~EntryAt(p, "write")
    BY EntryRestTyped DEF TimeInit, EntryAt
  <1> QED
    BY <1>2, <1>3, <1>4 DEF TimeInv, TimersPast, Sound, Alone, WriterApart, LogsApart

\* Steps of a handler that leave it elsewhere than at its write, and add no
\* checked interval.
LEMMA NoIntervalAdded ==
  ASSUME TimeInv, NEW p \in Handlers,
         entry' \in [Handlers -> EntryType], Ordered(entry'[p]), entry'[p].pc # "write",
         \A q \in Handlers : q # p => entry'[q] = entry[q],
         log' \in [Logs -> LogType], UNCHANGED <<crowded, now>>, TimersPast', Sound',
         \A l \in Kept' : log'[l].checked => l \in Kept /\ log'[l] = log[l]
  PROVE  TimeInv'
  <1>1. TimeRows' /\ \A q \in Handlers : Ordered(entry[q])'
    BY DEF TimeInv, TimeRows
  <1>2. ASSUME ~crowded' PROVE Alone' /\ WriterApart' /\ LogsApart'
    <2>1. Alone /\ WriterApart /\ LogsApart
      BY <1>2 DEF TimeInv
    <2>2. \A q \in Handlers : EntryAt(q, "write")' => q # p /\ EntryAt(q, "write") /\ entry'[q] = entry[q]
      BY DEF EntryAt
    <2>3. Alone'
      BY <2>1, <2>2 DEF Alone
    <2>4. WriterApart'
      BY <2>1, <2>2 DEF WriterApart
    <2>5. LogsApart'
      BY <2>1 DEF LogsApart
    <2> QED
      BY <2>3, <2>4, <2>5
  <1> QED
    BY <1>1, <1>2 DEF TimeInv

\* The first step of a request.
LEMMA TimeReads ==
  ASSUME TimeInv, NEW p \in Handlers, StartTimer(p) \/ StopTimer(p) \/ EnterLog(p) \/ RemoveLog(p)
  PROVE  TimeInv'
  <1>1. UNCHANGED <<log, crowded, now>>
    BY DEF StartTimer, StopTimer, EnterLog, RemoveLog, EntryBegins
  <1>2. PICK pc \in {"start", "stop", "check", "delete"}, l \in Logs \cup {New}, s \in Hours, e \in Hours :
          EntryStep(p, pc, l, s, e) /\ s <= e
    <2>1. CASE StartTimer(p)
      BY <2>1, HourFacts DEF StartTimer
    <2>2. CASE StopTimer(p)
      <3>1. PICK l \in Kept : log[l].end = Running /\ EntryStep(p, "stop", l, log[l].start, now)
        BY <2>2 DEF StopTimer
      <3>2. l \in Logs /\ log[l].start \in Hours /\ now \in Hours /\ log[l].start <= now
        BY <3>1 DEF TimeInv, TimeRows, TimersPast, LogType, Kept
      <3> QED
        BY <3>1, <3>2
    <2>3. CASE EnterLog(p)
      BY <2>3, LogAssumption DEF EnterLog, Kept, Hours
    <2>4. CASE RemoveLog(p)
      BY <2>4, HourFacts DEF RemoveLog, Kept
    <2> QED
      BY <2>1, <2>2, <2>3, <2>4
  <1>3. entry' = [entry EXCEPT ![p] = [pc |-> pc, id |-> l, start |-> s, end |-> e]]
    BY <1>2 DEF EntryStep
  <1>4. /\ entry' \in [Handlers -> EntryType] /\ Ordered(entry'[p]) /\ entry'[p].pc # "write"
        /\ \A q \in Handlers : q # p => entry'[q] = entry[q]
    BY <1>2, <1>3 DEF TimeInv, TimeRows, EntryType, Ordered
  <1>5. log' \in [Logs -> LogType] /\ TimersPast' /\ Sound' /\ Kept' = Kept
    BY <1>1 DEF TimeInv, TimeRows, TimersPast, Sound, Kept
  <1> QED
    BY <1>1, <1>4, <1>5, NoIntervalAdded

\* The writes of the timer and of a removal.
LEMMA TimerWrites ==
  ASSUME TimeInv, NEW p \in Handlers, StartWrite(p) \/ StopWrite(p) \/ RemoveWrite(p)
  PROVE  TimeInv'
  <1>1. entry' = [entry EXCEPT ![p] = EntryRest] /\ UNCHANGED <<crowded, now>>
    BY DEF StartWrite, StopWrite, RemoveWrite, EntryEnds
  <1>2. /\ entry' \in [Handlers -> EntryType] /\ Ordered(entry'[p]) /\ entry'[p].pc # "write"
        /\ \A q \in Handlers : q # p => entry'[q] = entry[q]
    BY <1>1, EntryRestTyped DEF TimeInv, TimeRows
  <1>3. entry[p] \in EntryType /\ now \in Hours /\ log \in [Logs -> LogType]
    BY DEF TimeInv, TimeRows
  <1>4. CASE log' = log
    <2>1. log' \in [Logs -> LogType] /\ TimersPast' /\ Sound' /\ Kept' = Kept
      BY <1>1, <1>4 DEF TimeInv, TimeRows, TimersPast, Sound, Kept
    <2> QED
      BY <1>1, <1>2, <1>4, <2>1, NoIntervalAdded
  <1>5. ASSUME NEW l \in Logs, log' = [log EXCEPT ![l] = log'[l]], log'[l] \in LogType,
               ~(log'[l].state = "kept" /\ log'[l].checked),
               log'[l].state = "kept" /\ log'[l].end = Running => log'[l].start <= now
        PROVE  TimeInv'
    <2>1. log' \in [Logs -> LogType] /\ \A k \in Logs : k # l => log'[k] = log[k]
      BY <1>3, <1>5
    <2>2. \A k \in Kept' : k \in Logs /\ (k # l => k \in Kept /\ log'[k] = log[k])
      BY <2>1 DEF Kept
    <2>3. \A k \in Kept' : log'[k].checked => k \in Kept /\ log'[k] = log[k]
      BY <1>5, <2>2 DEF Kept
    <2>4. TimersPast' /\ Sound'
      BY <1>1, <1>5, <2>2, <2>3 DEF TimeInv, TimersPast, Sound, Kept
    <2> QED
      BY <1>1, <1>2, <2>1, <2>3, <2>4, NoIntervalAdded
  <1>6. CASE StartWrite(p) /\ log' # log
    <2>1. PICK l \in Unused :
            log' = [log EXCEPT ![l] = [state |-> "kept", start |-> now, end |-> Running, duration |-> 0, checked |-> FALSE]]
      BY <1>6 DEF StartWrite
    <2>2. l \in Logs
      BY DEF Unused
    <2>3. log'[l] = [state |-> "kept", start |-> now, end |-> Running, duration |-> 0, checked |-> FALSE]
      BY <1>3, <2>1, <2>2
    <2>4. log'[l] \in LogType /\ ~log'[l].checked /\ log'[l].start <= now
      BY <1>3, <2>3, HourFacts DEF LogType
    <2> QED
      BY <1>5, <2>1, <2>2, <2>3, <2>4
  <1>7. CASE StopWrite(p) /\ log' # log
    <2> DEFINE l == entry[p].id
    <2>1. /\ l \in Kept
          /\ log' = [log EXCEPT ![l].end = entry[p].end, ![l].duration = entry[p].end - entry[p].start, ![l].checked = FALSE]
      BY <1>7 DEF StopWrite
    <2>2. l \in Logs /\ log[l] \in LogType
      BY <1>3, <2>1 DEF Kept
    <2>3. entry[p].start <= entry[p].end
      BY <1>7 DEF TimeInv, StopWrite, EntryAt, Ordered
    <2>4. entry[p].end \in Hours /\ entry[p].end - entry[p].start \in Hours
      BY <1>3, <2>3, HourFacts DEF EntryType, Hours
    <2> HIDE DEF l
    <2>5. log'[l] = [log[l] EXCEPT !.end = entry[p].end, !.duration = entry[p].end - entry[p].start, !.checked = FALSE]
      BY <1>3, <2>1, <2>2 DEF LogType
    <2>6. log'[l] \in LogType /\ ~log'[l].checked /\ log'[l].end # Running
      BY <2>2, <2>4, <2>5, HourFacts DEF LogType
    <2>7. log' = [log EXCEPT ![l] = log'[l]]
      BY <1>3, <2>1, <2>2, <2>5
    <2> QED
      BY <1>5, <2>2, <2>6, <2>7
  <1>8. CASE RemoveWrite(p) /\ log' # log
    <2> DEFINE l == entry[p].id
    <2>1. log' = [log EXCEPT ![l].state = "deleted"]
      BY <1>8 DEF RemoveWrite
    <2>2. l \in Logs
      BY <1>3, <1>8, <2>1
    <2> HIDE DEF l
    <2>3. log'[l] \in LogType /\ log'[l].state = "deleted" /\ log' = [log EXCEPT ![l] = log'[l]]
      BY <1>3, <2>1, <2>2 DEF LogType
    <2> QED
      BY <1>5, <2>2, <2>3
  <1> QED
    BY <1>4, <1>6, <1>7, <1>8

\* An interval that passes the check is apart from every checked one.
LEMMA OverlapChecked ==
  ASSUME TimeInv, NEW p \in Handlers, CheckOverlap(p)
  PROVE  TimeInv'
  <1> DEFINE e == entry[p]
  <1>1. e \in EntryType /\ Ordered(e) /\ EntryAt(p, "check") /\ UNCHANGED <<log, now>>
    BY DEF CheckOverlap, TimeInv, TimeRows
  <1>2. crowded' = (crowded \/ \E q \in Handlers \ {p} : EntryAt(q, "write"))
    BY DEF CheckOverlap
  <1>3. TimersPast' /\ Sound' /\ Kept' = Kept /\ (LogsApart => LogsApart')
    BY <1>1 DEF TimeInv, TimersPast, Sound, Kept, LogsApart
  <1>4. crowded' \in BOOLEAN
    BY <1>2 DEF TimeInv, TimeRows
  <1>5. CASE Overlaps(e.id, e.start, e.end)
    <2>1. entry' = [entry EXCEPT ![p] = EntryRest]
      BY <1>5 DEF CheckOverlap, EntryEnds
    <2>2. entry' \in [Handlers -> EntryType] /\ \A q \in Handlers : Ordered(entry'[q])
      BY <2>1, EntryRestTyped DEF TimeInv, TimeRows
    <2>3. \A q \in Handlers : EntryAt(q, "write")' => EntryAt(q, "write") /\ entry'[q] = entry[q]
      BY <2>1, EntryRestTyped DEF TimeInv, TimeRows, EntryAt
    <2>4. ~crowded' => Alone' /\ WriterApart'
      BY <1>1, <1>2, <1>3, <2>3 DEF TimeInv, Alone, WriterApart
    <2> QED
      BY <1>1, <1>2, <1>3, <1>4, <2>2, <2>4 DEF TimeInv, TimeRows
  <1>6. CASE ~Overlaps(e.id, e.start, e.end)
    <2>1. entry' = [entry EXCEPT ![p] = [pc |-> "write", id |-> e.id, start |-> e.start, end |-> e.end]]
      BY <1>6 DEF CheckOverlap, EntryStep
    <2>2. entry' \in [Handlers -> EntryType] /\ \A q \in Handlers : Ordered(entry'[q])
      BY <1>1, <2>1 DEF TimeInv, TimeRows, EntryType, Ordered, EntryAt
    <2>3. \A o \in Kept \ {e.id} : log[o].start < e.end => log[o].end # Running /\ ~(log[o].end > e.start)
      BY <1>6 DEF Overlaps
    <2>4. \A o \in Kept \ {e.id} : log[o].checked => Apart(e, log[o])
      <3> SUFFICES ASSUME NEW o \in Kept \ {e.id}, log[o].checked PROVE Apart(e, log[o])
        OBVIOUS
      <3>1. log[o].start \in Nat /\ e.start \in Nat /\ e.end \in Nat
        BY <1>1, HourFacts DEF TimeInv, TimeRows, LogType, EntryType, Kept
      <3>2. CASE log[o].start < e.end
        <4>1. log[o].end \in Nat
          BY <2>3, <3>2, HourFacts DEF TimeInv, TimeRows, LogType, Kept
        <4> QED
          BY <2>3, <3>1, <3>2, <4>1 DEF Apart
      <3>3. CASE ~(log[o].start < e.end)
        BY <3>1, <3>3 DEF Apart
      <3> QED
        BY <3>2, <3>3
    <2>5. ASSUME ~crowded' PROVE Alone' /\ WriterApart'
      <3>1. \A q \in Handlers : EntryAt(q, "write")' => q = p
        BY <1>2, <2>1, <2>5 DEF TimeInv, TimeRows, EntryAt
      <3>2. entry'[p].id = e.id /\ Apart(entry'[p], log[e.id]) = Apart(e, log[e.id])
        BY <2>1 DEF TimeInv, TimeRows, Apart
      <3>3. \A o \in Kept \ {e.id} : log[o].checked => Apart(entry'[p], log[o])
        BY <2>1, <2>4 DEF TimeInv, TimeRows, Apart
      <3> QED
        BY <1>1, <1>3, <3>1, <3>2, <3>3 DEF Alone, WriterApart
    <2> QED
      BY <1>1, <1>2, <1>3, <1>4, <2>2, <2>5 DEF TimeInv, TimeRows
  <1> QED
    BY <1>5, <1>6

\* The writer is alone, and its interval has stayed apart.
LEMMA IntervalWritten ==
  ASSUME TimeInv, NEW p \in Handlers, WriteLog(p)
  PROVE  TimeInv'
  <1> DEFINE e == entry[p]
  <1>1. e \in EntryType /\ Ordered(e) /\ EntryAt(p, "write") /\ UNCHANGED <<crowded, now>>
    BY DEF WriteLog, TimeInv, TimeRows
  <1>2. entry' = [entry EXCEPT ![p] = EntryRest]
    BY DEF WriteLog, EntryEnds
  <1>3. /\ entry' \in [Handlers -> EntryType] /\ Ordered(entry'[p]) /\ entry'[p].pc # "write"
        /\ \A q \in Handlers : q # p => entry'[q] = entry[q]
    BY <1>2, EntryRestTyped DEF TimeInv, TimeRows
  <1>4. CASE log' = log
    <2>1. log' \in [Logs -> LogType] /\ TimersPast' /\ Sound' /\ Kept' = Kept
      BY <1>1, <1>4 DEF TimeInv, TimeRows, TimersPast, Sound, Kept
    <2> QED
      BY <1>1, <1>3, <1>4, <2>1, NoIntervalAdded
  <1>5. CASE log' # log
    <2> DEFINE new == [state |-> "kept", start |-> e.start, end |-> e.end, duration |-> e.end - e.start, checked |-> TRUE]
    <2>1. PICK l \in Logs : /\ log' = [log EXCEPT ![l] = new]
                            /\ l \in Kept \cup Unused /\ l \notin Kept \ {e.id}
      BY <1>1, <1>5, LogAssumption DEF WriteLog, Unused, Kept, EntryType
    <2>2. e.start <= e.end /\ e.start \in Hours /\ e.end \in Hours
      BY <1>1 DEF Ordered, EntryAt, EntryType
    <2>3. new \in LogType /\ new.end # Running
      BY <2>2, HourFacts DEF LogType, Hours
    <2> HIDE DEF new
    <2>4. /\ log' \in [Logs -> LogType] /\ log'[l] = new
          /\ \A k \in Logs : k # l => log'[k] = log[k]
      BY <2>1, <2>3 DEF TimeInv, TimeRows
    <2>5. \A k \in Kept' : k \in Logs /\ (k # l => k \in Kept \ {e.id, l} /\ log'[k] = log[k])
      <3>1. \A k \in Kept : k # l => k # e.id \/ l \notin Kept
        BY <2>1
      <3>2. ASSUME NEW k \in Kept', k # l PROVE k # e.id
        <4>1. k \in Kept
          BY <2>4, <3>2 DEF Kept
        <4>2. CASE e.id = New
          BY <4>1, <4>2, LogAssumption DEF Kept
        <4>3. CASE e.id # New
          <5>1. l = e.id
            BY <1>5, <2>1, <4>3, <1>1 DEF WriteLog, TimeInv, TimeRows, Unused, Kept
          <5> QED
            BY <3>2, <5>1
        <4> QED
          BY <4>2, <4>3
      <3> QED
        BY <2>4, <3>2 DEF Kept
    <2>6. TimersPast' /\ Sound'
      <3>1. TimersPast'
        BY <1>1, <2>3, <2>4, <2>5 DEF TimeInv, TimersPast
      <3>2. new.duration = new.end - new.start
        BY DEF new
      <3>3. Sound'
        BY <2>3, <2>4, <2>5, <3>2 DEF TimeInv, Sound
      <3> QED
        BY <3>1, <3>3
    <2>7. ASSUME ~crowded' PROVE Alone' /\ WriterApart' /\ LogsApart'
      <3>1. Alone /\ WriterApart /\ LogsApart
        BY <1>1, <2>7 DEF TimeInv
      <3>2. \A q \in Handlers : ~EntryAt(q, "write")'
        BY <1>1, <1>3, <3>1 DEF Alone, EntryAt
      <3>3. Alone' /\ WriterApart'
        BY <3>2 DEF Alone, WriterApart
      <3>4. \A k \in Kept' : k # l /\ log'[k].checked => Apart(log'[l], log'[k]) /\ Apart(log'[k], log'[l])
        <4> SUFFICES ASSUME NEW k \in Kept', k # l, log'[k].checked
                     PROVE  Apart(log'[l], log'[k]) /\ Apart(log'[k], log'[l])
          OBVIOUS
        <4>1. k \in Kept \ {e.id} /\ log'[k] = log[k]
          BY <2>5
        <4>2. Apart(e, log[k])
          BY <1>1, <3>1, <4>1 DEF WriterApart
        <4>3. log'[l].start = e.start /\ log'[l].end = e.end
          BY <2>4 DEF new
        <4> QED
          BY <4>1, <4>2, <4>3 DEF Apart
      <3>5. LogsApart'
        BY <2>5, <3>1, <3>4 DEF LogsApart
      <3> QED
        BY <3>3, <3>5
    <2>8. TimeRows' /\ \A q \in Handlers : Ordered(entry[q])'
      BY <1>1, <1>3, <2>4 DEF TimeInv, TimeRows
    <2> QED
      BY <2>6, <2>7, <2>8 DEF TimeInv
  <1> QED
    BY <1>4, <1>5

LEMMA TimeSteps == TimeInv /\ [TimeNext]_<<timeVars, now, served>> => TimeInv'
  <1> SUFFICES ASSUME TimeInv, [TimeNext]_<<timeVars, now, served>> PROVE TimeInv'
    OBVIOUS
  <1>1. CASE TimeTick
    <2>1. UNCHANGED <<log, entry, crowded>> /\ now' = now + 1 /\ now < LastHour
      BY <1>1 DEF TimeTick, timeVars
    <2>2. now \in Nat /\ now' \in Hours
      BY <2>1, HourFacts DEF TimeInv, TimeRows
    <2>3. TimersPast'
      <3> SUFFICES ASSUME NEW l \in Kept, log[l].end = Running PROVE log[l].start <= now + 1
        BY <2>1 DEF TimersPast, Kept
      <3>1. log[l].start \in Nat /\ log[l].start <= now
        BY HourFacts DEF TimeInv, TimeRows, TimersPast, LogType, Kept
      <3> QED
        BY <2>2, <3>1
    <2> QED
      BY <2>1, <2>2, <2>3 DEF TimeInv, TimeRows, Sound, Kept, Alone, WriterApart, LogsApart, EntryAt
  <1>2. CASE \E p \in Handlers : StartTimer(p) \/ StopTimer(p) \/ EnterLog(p) \/ RemoveLog(p)
    BY <1>2, TimeReads
  <1>3. CASE \E p \in Handlers : StartWrite(p) \/ StopWrite(p) \/ RemoveWrite(p)
    BY <1>3, TimerWrites
  <1>4. CASE \E p \in Handlers : CheckOverlap(p) \/ WriteLog(p)
    BY <1>4, OverlapChecked, IntervalWritten
  <1>5. CASE UNCHANGED <<timeVars, now, served>>
    BY <1>5 DEF timeVars, TimeInv, TimeRows, TimersPast, Sound, Kept, Alone, WriterApart, LogsApart, EntryAt
  <1> QED
    BY <1>1, <1>2, <1>3, <1>4, <1>5 DEF TimeNext

LEMMA LogsSound == TimeInv => LogsAreSound
  <1>1. TimeInv => CheckedDuration
    BY DEF TimeInv, Sound, CheckedDuration
  <1>2. TimeInv => ManualLogsApart
    BY DEF TimeInv, LogsApart, Apart, ManualLogsApart
  <1> QED
    BY <1>1, <1>2 DEF LogsAreSound

\* Of all logs, whatever the order of stops, edits and removals: the duration of
\* a log entered or edited by hand is the length of its interval (update), and
\* such intervals stay apart as long as no two requests are between their check
\* and their write together (assertNoOverlap and what follows it).
THEOREM LogsStaySound == TimeSpec => []LogsAreSound
  <1>1. HandlingInit /\ TimeInit => TimeInv
    BY TimeInitial
  <1>2. TimeInv /\ [TimeNext]_<<timeVars, now, served>> => TimeInv'
    BY TimeSteps
  <1> QED
    BY <1>1, <1>2, LogsSound, PTL DEF TimeSpec

-----------------------------------------------------------------------------
(* TaskSla.  No type is needed for the instants, only the shape of the rows. *)

IsInstance(r) == r = [status |-> r.status, dueAt |-> r.dueAt, warningAt |-> r.warningAt,
                      pausedAt |-> r.pausedAt, warned |-> r.warned, breached |-> r.breached]
IsStep(r) == r = [i \in {"pc", "seen", "picked", "to"} |-> r[i]] /\ IsInstance(r.seen)
SlaInv == /\ IsInstance(inst)
          /\ sla = [p \in Handlers |-> sla[p]] /\ \A p \in Handlers : IsStep(sla[p])

LEMMA InstanceShape ==
  ASSUME NEW s, NEW d, NEW w, NEW u, NEW m, NEW b
  PROVE  IsInstance([status |-> s, dueAt |-> d, warningAt |-> w, pausedAt |-> u, warned |-> m, breached |-> b])
  BY DEF IsInstance

LEMMA SlaRestShape == IsStep(SlaRest) /\ SlaRest.pc = "idle"
  <1>1. SlaRest = [pc |-> "idle", seen |-> NoInstance, picked |-> {}, to |-> "TODO"] /\ IsInstance(NoInstance)
    BY InstanceShape DEF SlaRest, NoInstance
  <1> QED
    BY <1>1 DEF IsStep

LEMMA SlaInitial == HandlingInit /\ SlaInit => SlaInv
  BY InstanceShape, SlaRestShape DEF SlaInit, SlaInv, NewInstance

LEMMA StepChanged ==
  ASSUME NEW r, IsStep(r), NEW pc, NEW x
  PROVE  /\ IsStep([r EXCEPT !.pc = pc, !.to = x])
         /\ IsInstance(x) => IsStep([r EXCEPT !.pc = pc, !.seen = x])
         /\ IsStep([r EXCEPT !.pc = pc, !.picked = x])
  <1>1. r = [i \in {"pc", "seen", "picked", "to"} |-> r[i]] /\ IsInstance(r.seen)
    BY DEF IsStep
  <1>2. IsStep([r EXCEPT !.pc = pc, !.to = x])
    BY <1>1 DEF IsStep
  <1>3. IsInstance(x) => IsStep([r EXCEPT !.pc = pc, !.seen = x])
    BY <1>1 DEF IsStep
  <1>4. IsStep([r EXCEPT !.pc = pc, !.picked = x])
    BY <1>1 DEF IsStep
  <1> QED
    BY <1>2, <1>3, <1>4

LEMMA ResumedShape == ASSUME NEW r, IsInstance(r) PROVE IsInstance(Resumed(r))
  <1> DEFINE dueNow == After(now, Between(r.pausedAt, r.dueAt))
             warnNow == IF r.warningAt = Never THEN Never ELSE After(now, Between(r.pausedAt, r.warningAt))
  <1>1. Resumed(r) = [r EXCEPT !.status = "ACTIVE", !.pausedAt = Never, !.dueAt = dueNow, !.warningAt = warnNow]
    BY Zenon DEF Resumed
  <1> HIDE DEF dueNow, warnNow
  <1>2. Resumed(r) = [status |-> "ACTIVE", dueAt |-> dueNow, warningAt |-> warnNow,
                      pausedAt |-> Never, warned |-> r.warned, breached |-> r.breached]
    BY <1>1 DEF IsInstance
  <1> QED
    BY <1>2, InstanceShape

\* Requests that change the task, or read the instance, or pause it.
SlaRequest(p) == \/ FinishByUpdate(p) \/ FinishByMove(p) \/ Reopen(p) \/ Pause(p) \/ ResumeRead(p) \/ PollSla(p)
SettledStays == inst.status \in Finals /\ (\A p \in Handlers : SlaAt(p, "resume") => sla'[p] = sla[p])
                => inst'.status = inst.status

LEMMA SlaRequests ==
  ASSUME SlaInv, NEW p \in Handlers, SlaRequest(p)
  PROVE  SlaInv' /\ SettledStays
  <1>1. CASE Pause(p)
    <2>1. inst' = [inst EXCEPT !.status = "PAUSED", !.pausedAt = now] /\ UNCHANGED sla /\ inst.status = "ACTIVE"
      BY <1>1 DEF Pause
    <2>2. IsInstance(inst')
      BY <2>1 DEF SlaInv, IsInstance
    <2> QED
      BY <2>1, <2>2 DEF SlaInv, SettledStays, Finals
  <1>2. CASE ~Pause(p)
    <2>1. UNCHANGED inst
      BY <1>2 DEF SlaRequest, FinishByUpdate, FinishByMove, Reopen, ResumeRead, PollSla
    <2>2. \/ UNCHANGED sla
          \/ \E to : sla' = [sla EXCEPT ![p].pc = "finalize", ![p].to = to]
          \/ sla' = [sla EXCEPT ![p].pc = "resume", ![p].seen = inst]
          \/ \E k : sla' = [sla EXCEPT ![p].pc = "notify", ![p].picked = k]
      BY <1>2, Zenon DEF SlaRequest, FinishByUpdate, FinishByMove, Reopen, ResumeRead, PollSla
    <2>3. IsStep(sla[p]) /\ IsInstance(inst) /\ sla = [q \in Handlers |-> sla[q]]
      BY DEF SlaInv
    <2>4. ASSUME NEW r, IsStep(r), sla' = [sla EXCEPT ![p] = r] PROVE SlaInv'
      <3>1. sla' = [q \in Handlers |-> IF q = p THEN r ELSE sla[q]]
        BY <2>3, <2>4
      <3> QED
        BY <2>1, <2>4, <3>1 DEF SlaInv
    <2>5. ASSUME NEW to, sla' = [sla EXCEPT ![p].pc = "finalize", ![p].to = to] PROVE SlaInv'
      <3> DEFINE r == [sla[p] EXCEPT !.pc = "finalize", !.to = to]
      <3>1. IsStep(r)
        BY <2>3, StepChanged
      <3>2. sla' = [sla EXCEPT ![p] = r]
        BY <2>3, <2>5
      <3> QED
        BY <2>4, <3>1, <3>2
    <2>6. ASSUME sla' = [sla EXCEPT ![p].pc = "resume", ![p].seen = inst] PROVE SlaInv'
      <3> DEFINE r == [sla[p] EXCEPT !.pc = "resume", !.seen = inst]
      <3>1. IsStep(r)
        BY <2>3, StepChanged
      <3>2. sla' = [sla EXCEPT ![p] = r]
        BY <2>3, <2>6
      <3> QED
        BY <2>4, <3>1, <3>2
    <2>7. ASSUME NEW k, sla' = [sla EXCEPT ![p].pc = "notify", ![p].picked = k] PROVE SlaInv'
      <3> DEFINE r == [sla[p] EXCEPT !.pc = "notify", !.picked = k]
      <3>1. IsStep(r)
        BY <2>3, StepChanged
      <3>2. sla' = [sla EXCEPT ![p] = r]
        BY <2>3, <2>7
      <3> QED
        BY <2>4, <3>1, <3>2
    <2>8. UNCHANGED sla => SlaInv'
      BY <2>1 DEF SlaInv
    <2> QED
      BY <2>1, <2>2, <2>5, <2>6, <2>7, <2>8 DEF SettledStays
  <1> QED
    BY <1>1, <1>2

\* The statements that follow.  A resume is the only one that revives, and the
\* handler then stands elsewhere.
SlaWrite(p) == FinalizeTaskSla(p) \/ ResumeWrite(p) \/ NotifySla(p) \/ SlaCrash(p)
LEMMA SlaWrites ==
  ASSUME SlaInv, NEW p \in Handlers, SlaWrite(p)
  PROVE  SlaInv' /\ SettledStays
  <1>1. IsStep(sla[p]) /\ IsInstance(inst) /\ sla = [q \in Handlers |-> sla[q]]
    BY DEF SlaInv
  <1>2. sla' = [sla EXCEPT ![p] = SlaRest] \/ \E k : sla' = [sla EXCEPT ![p].picked = k]
    BY Zenon DEF SlaWrite, FinalizeTaskSla, ResumeWrite, NotifySla, SlaCrash, SlaEnds
  <1>3. sla' = [q \in Handlers |-> sla'[q]] /\ \A q \in Handlers : IsStep(sla'[q])
    <2>1. CASE sla' = [sla EXCEPT ![p] = SlaRest]
      BY <1>1, <2>1, SlaRestShape DEF SlaInv
    <2>2. ASSUME NEW k, sla' = [sla EXCEPT ![p].picked = k]
          PROVE  sla' = [q \in Handlers |-> sla'[q]] /\ \A q \in Handlers : IsStep(sla'[q])
      <3> DEFINE r == [sla[p] EXCEPT !.picked = k]
      <3>1. IsStep(r)
        BY <1>1 DEF IsStep
      <3>2. sla' = [q \in Handlers |-> IF q = p THEN r ELSE sla[q]]
        BY <1>1, <2>2
      <3> HIDE DEF r
      <3> QED
        BY <3>1, <3>2 DEF SlaInv
    <2> QED
      BY <1>2, <2>1, <2>2
  <1>4. CASE FinalizeTaskSla(p)
    <2>1. inst' = inst \/ (inst.status \in {"ACTIVE", "PAUSED"} /\ \E s : inst' = [inst EXCEPT !.status = s, !.pausedAt = Never])
      BY <1>4, Zenon DEF FinalizeTaskSla
    <2>2. IsInstance(inst')
      BY <1>1, <2>1 DEF IsInstance
    <2> QED
      BY <1>3, <2>1, <2>2 DEF SlaInv, SettledStays, Finals
  <1>5. CASE ResumeWrite(p)
    <2>1. /\ inst' = [Resumed(sla[p].seen) EXCEPT !.warned = inst.warned, !.breached = inst.breached]
          /\ sla[p].pc = "resume" /\ sla' = [sla EXCEPT ![p] = SlaRest]
      BY <1>5 DEF ResumeWrite, SlaAt, SlaEnds
    <2>2. IsInstance(Resumed(sla[p].seen))
      BY <1>1, ResumedShape DEF IsStep
    <2>3. IsInstance(inst')
      <3> DEFINE r == Resumed(sla[p].seen)
      <3>1. IsInstance(r) /\ inst' = [r EXCEPT !.warned = inst.warned, !.breached = inst.breached]
        BY <2>1, <2>2
      <3> HIDE DEF r
      <3> QED
        BY <3>1 DEF IsInstance
    <2>4. sla'[p] # sla[p]
      BY <1>1, <2>1, SlaRestShape
    <2> QED
      BY <1>3, <2>1, <2>3, <2>4 DEF SlaInv, SettledStays, SlaAt
  <1>6. CASE NotifySla(p)
    <2>1. \/ inst' = inst
          \/ \E b : inst' = [inst EXCEPT !.warned = b]
          \/ inst.status = "ACTIVE" /\ inst' = [inst EXCEPT !.breached = TRUE, !.status = "BREACHED"]
      BY <1>6, Zenon DEF NotifySla
    <2>2. IsInstance(inst') /\ (inst.status = "ACTIVE" \/ inst'.status = inst.status)
      BY <1>1, <2>1 DEF IsInstance
    <2> QED
      BY <1>3, <2>2 DEF SlaInv, SettledStays, Finals
  <1>7. CASE SlaCrash(p)
    <2>1. UNCHANGED inst
      BY <1>7 DEF SlaCrash
    <2> QED
      BY <1>1, <1>3, <2>1 DEF SlaInv, SettledStays
  <1> QED
    BY <1>4, <1>5, <1>6, <1>7 DEF SlaWrite

LEMMA SlaSteps == SlaInv /\ [SlaNext]_<<slaVars, now, served>> => SlaInv' /\ SettledStays
  <1> SUFFICES ASSUME SlaInv, [SlaNext]_<<slaVars, now, served>> PROVE SlaInv' /\ SettledStays
    OBVIOUS
  <1>1. CASE UNCHANGED <<inst, sla>>
    BY <1>1 DEF SlaInv, SettledStays
  <1>2. CASE \E p \in Handlers : SlaRequest(p)
    BY <1>2, SlaRequests
  <1>3. CASE \E p \in Handlers : SlaWrite(p)
    BY <1>3, SlaWrites
  <1> QED
    BY <1>1, <1>2, <1>3 DEF SlaNext, SlaTick, SlaRuns, slaVars, SlaRequest, SlaWrite

\* Of every instance, under any policy and calendar: what settled it, in time,
\* late or not at all, stands (finalizeTaskSlaOnStatusChange, claimBreach),
\* unless a resume that read it before writes it.
THEOREM SettledForGood == SlaSpec => FinalStays
  <1>1. HandlingInit /\ SlaInit => SlaInv
    BY SlaInitial
  <1>2. SlaInv /\ [SlaNext]_<<slaVars, now, served>> => SlaInv'
    BY SlaSteps
  <1>3. SlaInv /\ [SlaNext]_<<slaVars, now, served>> =>
          [inst.status \in Finals /\ (\A p \in Handlers : SlaAt(p, "resume") => sla'[p] = sla[p])
             => inst'.status = inst.status]_slaVars
    BY SlaSteps DEF SettledStays
  <1> QED
    BY <1>1, <1>2, <1>3, PTL DEF SlaSpec, FinalStays

-----------------------------------------------------------------------------
(* TaskTree.  While no placement is written, a walk leaves a trace: every set *)
(* of tasks that holds the new parent and the parents of all its members but  *)
(* the task itself holds the ancestor to be read next.  When there is none    *)
(* left there is no such set, and the task can be put there: a cycle would be *)
(* one.                                                                       *)

TreeNode == [state : {"none", "live", "deleted"}, project : Projects \cup {NoProject},
             parent : Nodes \cup {NoNode}, version : Nat]
TreePlan == [pc : {"idle", "up", "down", "write"}, t : Nodes \cup {NoNode}, project : Projects \cup {NoProject},
             parent : Nodes \cup {NoNode}, sets : BOOLEAN, version : Nat, at : Nodes \cup {NoNode},
             depth : Nat, front : SUBSET Nodes, below : SUBSET Nodes]
TreeRows == node \in [Nodes -> TreeNode] /\ plan \in [Handlers -> TreePlan] /\ raced \in BOOLEAN

\* A parent is a task that was created.
Grown(t) == t # NoNode => node[t].state # "none"
Encloses(S, r) == r.parent \in S /\ \A x \in S : x # r.t => node[x].parent \in S
Fits(r) == r.parent # NoNode => node[r.parent].project = r.project
Planned(r) ==
    /\ r.parent # NoNode => r.project # NoProject
    /\ Grown(r.parent)
    /\ ~r.sets => r.t # NoNode /\ node[r.t].parent = r.parent /\ node[r.t].project = r.project
    /\ r.pc = "up" => /\ r.at = r.parent \/ Fits(r)
                      /\ \A S \in SUBSET Nodes : Encloses(S, r) => r.at \in S
    /\ r.pc \in {"down", "write"} => Fits(r) /\ \A S \in SUBSET Nodes : ~Encloses(S, r)
Trees == /\ NoCycle /\ SameProject
         /\ \A t \in Nodes : Grown(node[t].parent)
         /\ \A p \in Handlers : plan[p].pc # "idle" => Planned(plan[p])
TreeInv == TreeRows /\ (raced \/ Trees)

LEMMA PlanRestTyped == PlanRest \in TreePlan /\ PlanRest.pc = "idle"
  BY DEF PlanRest, TreePlan

LEMMA TreeInitial == TreeInit => TreeInv
  <1> SUFFICES ASSUME TreeInit PROVE TreeInv
    OBVIOUS
  <1>1. node \in [Nodes -> TreeNode]
    <2>1. {NoTask} \cup [state : {"live"}, project : Projects \cup {NoProject}, parent : Nodes \cup {NoNode}, version : {0}]
            \subseteq TreeNode
      BY DEF NoTask, TreeNode
    <2> QED
      BY <2>1 DEF TreeInit
  <1>2. \A t \in Nodes : Grown(node[t].parent)
    BY <1>1, TreeAssumption DEF TreeInit, Grown, InState
  <1>3. plan \in [Handlers -> TreePlan] /\ \A p \in Handlers : plan[p].pc = "idle"
    BY PlanRestTyped DEF TreeInit
  <1> QED
    BY <1>1, <1>2, <1>3 DEF TreeInit, TreeInv, TreeRows, Trees

\* A step that changes no parent and no project keeps what the plans rest on.
LEMMA SameShape ==
  ASSUME TreeInv, ~raced, raced' = raced,
         node' \in [Nodes -> TreeNode], plan' \in [Handlers -> TreePlan],
         \A t \in Nodes : node'[t].parent = node[t].parent /\ node'[t].project = node[t].project,
         \A t \in Nodes : node[t].state # "none" => node'[t].state # "none",
         \A p \in Handlers : plan'[p] = plan[p] \/ plan'[p].pc = "idle" \/ Planned(plan'[p])
  PROVE  TreeInv'
  <1>1. Trees
    BY DEF TreeInv
  <1>2. NoCycle'
    BY <1>1 DEF Trees, NoCycle
  <1>3. SameProject'
    BY <1>1 DEF Trees, SameProject, TreeInv, TreeRows, TreeNode
  <1>4. \A t \in Nodes : Grown(node[t].parent)'
    BY <1>1 DEF Trees, Grown, TreeInv, TreeRows, TreeNode
  <1>5. ASSUME NEW p \in Handlers, plan'[p].pc # "idle"
        PROVE  Planned(plan[p])'
    <2>1. Planned(plan'[p])
      BY <1>1, <1>5 DEF Trees
    <2>2. plan'[p] \in TreePlan
      OBVIOUS
    <2>3. \A S \in SUBSET Nodes : Encloses(S, plan[p])' <=> Encloses(S, plan'[p])
      BY DEF Encloses
    <2>4. Fits(plan[p])' <=> Fits(plan'[p])
      BY <2>2 DEF Fits, TreePlan
    <2>5. Grown(plan[p].parent)'
      BY <2>1, <2>2 DEF Grown, TreePlan, Planned
    <2>6. ~plan'[p].sets => plan'[p].t # NoNode /\ node'[plan'[p].t].parent = plan'[p].parent
                            /\ node'[plan'[p].t].project = plan'[p].project
      BY <2>1, <2>2 DEF Planned, TreePlan
    <2> QED
      BY <2>1, <2>3, <2>4, <2>5, <2>6 DEF Planned
  <1>6. Trees'
    BY <1>2, <1>3, <1>4, <1>5 DEF Trees
  <1> QED
    BY <1>6 DEF TreeInv, TreeRows

\* A handler that begins to check stands at the parent itself.
LEMMA PlanBegins ==
  ASSUME TreeInv, NEW p \in Handlers, CreateTask(p) \/ UpdateTask(p)
  PROVE  TreeInv'
  <1>1. PICK t \in Nodes \cup {NoNode}, version \in Nat, place \in Projects \cup {NoProject},
             parent \in Nodes \cup {NoNode}, sets \in BOOLEAN :
          /\ Check(p, t, version, place, parent, sets)
          /\ parent # NoNode => node[parent].state # "none" \/ (~sets /\ parent = node[t].parent)
          /\ ~sets => t \in Nodes /\ place = node[t].project /\ parent = node[t].parent
    <2>1. CASE CreateTask(p)
      BY <2>1 DEF CreateTask, Anything, InState
    <2>2. CASE UpdateTask(p)
      <3>1. PICK t \in InState("live") :
              \/ Check(p, t, node[t].version, node[t].project, node[t].parent, FALSE)
              \/ \E place \in Projects \cup {NoProject}, parent \in Anything :
                   Check(p, t, node[t].version, place, parent, TRUE)
        BY <2>2 DEF UpdateTask
      <3>2. t \in Nodes /\ node[t] \in TreeNode
        BY <3>1 DEF InState, TreeInv, TreeRows
      <3>3. /\ node[t].version \in Nat /\ node[t].project \in Projects \cup {NoProject}
            /\ node[t].parent \in Nodes \cup {NoNode}
        BY <3>2 DEF TreeNode
      <3> QED
        BY <3>1, <3>2, <3>3 DEF Anything, InState
    <2> QED
      BY <2>1, <2>2
  <1> DEFINE r == [PlanRest EXCEPT !.pc = "up", !.t = t, !.version = version, !.project = place,
                                   !.parent = parent, !.sets = sets, !.at = parent]
  <1>2. /\ parent # NoNode => place # NoProject
        /\ plan' = [plan EXCEPT ![p] = r]
        /\ UNCHANGED <<node, raced>>
    BY <1>1 DEF Check
  <1>3. r \in TreePlan
    BY <1>1, PlanRestTyped DEF TreePlan
  <1>4. /\ r.pc = "up" /\ r.t = t /\ r.project = place /\ r.parent = parent /\ r.sets = sets /\ r.at = parent
    BY PlanRestTyped DEF TreePlan
  <1>5. plan' \in [Handlers -> TreePlan]
    BY <1>2, <1>3 DEF TreeInv, TreeRows
  <1>6. CASE raced
    BY <1>2, <1>5, <1>6 DEF TreeInv, TreeRows
  <1>7. CASE ~raced
    <2>1. Grown(parent)
      BY <1>1, <1>7 DEF TreeInv, Trees, Grown
    <2>2. Planned(r)
      BY <1>1, <1>2, <1>4, <2>1, TreeAssumption DEF Planned, Encloses
    <2>3. \A q \in Handlers : plan'[q] = plan[q] \/ Planned(plan'[q])
      BY <1>2, <2>2 DEF TreeInv, TreeRows
    <2> HIDE DEF r
    <2> QED
      BY <1>2, <1>5, <1>7, <2>3, SameShape DEF TreeInv, TreeRows
  <1> QED
    BY <1>6, <1>7

\* A walk goes on from a task that is not t, to a parent that every set with the
\* task holds; or it has reached a root, which no set holds.
LEMMA WalksOn ==
  ASSUME TreeInv, NEW p \in Handlers, WalkUp(p) \/ WalkDown(p)
  PROVE  TreeInv'
  <1> DEFINE r == plan[p]
  <1>1. /\ UNCHANGED <<node, raced>>
        /\ r \in TreePlan
    BY DEF WalkUp, WalkDown, TreeInv, TreeRows
  <1>2. /\ plan' \in [Handlers -> TreePlan]
        /\ \A q \in Handlers : q # p => plan'[q] = plan[q]
        /\ ~raced => plan'[p].pc = "idle" \/ Planned(plan'[p])
    <2>1. CASE WalkUp(p)
      <3>1. CASE r.at = NoNode
        <4> DEFINE s == [r EXCEPT !.pc = "down", !.front = {r.t} \ {NoNode}, !.below = {r.t} \ {NoNode}]
        <4>1. plan' = [plan EXCEPT ![p] = s]
          BY <2>1, <3>1 DEF WalkUp, TreeInv, TreeRows
        <4>2. s \in TreePlan
          BY <1>1 DEF TreePlan
        <4>3. /\ s.pc = "down" /\ s.t = r.t /\ s.parent = r.parent /\ s.project = r.project
              /\ s.sets = r.sets
          BY <1>1 DEF TreePlan
        <4>4. ASSUME ~raced PROVE Planned(s)
          <5>1. Planned(r) /\ r.pc = "up"
            BY <2>1, <4>4 DEF WalkUp, PlanAt, TreeInv, Trees
          <5>2. \A S \in SUBSET Nodes : ~Encloses(S, r)
            BY <5>1, <3>1, TreeAssumption DEF Planned
          <5>3. Fits(r)
            BY <5>1, <3>1 DEF Planned, Fits
          <5> QED
            BY <4>3, <5>1, <5>2, <5>3 DEF Planned, Fits, Encloses
        <4> HIDE DEF s
        <4> QED
          BY <4>1, <4>2, <4>4 DEF TreeInv, TreeRows
      <3>2. CASE r.at # NoNode /\ r.at # r.t /\ r.at \in InState("live") /\ node[r.at].project = r.project
                 /\ r.depth < MaxLevels
        <4> DEFINE s == [r EXCEPT !.at = node[r.at].parent, !.depth = r.depth + 1]
        <4>1. plan' = [plan EXCEPT ![p] = s]
          BY <2>1, <3>2 DEF WalkUp, TreeInv, TreeRows
        <4>2. r.at \in Nodes /\ node[r.at].parent \in Nodes \cup {NoNode}
          BY <3>2 DEF InState, TreeInv, TreeRows, TreeNode
        <4>3. s \in TreePlan
          <5>1. r.depth + 1 \in Nat
            BY <1>1 DEF TreePlan
          <5> QED
            BY <1>1, <4>2, <5>1 DEF TreePlan
        <4>4. /\ s.pc = r.pc /\ s.t = r.t /\ s.parent = r.parent /\ s.project = r.project
              /\ s.sets = r.sets /\ s.at = node[r.at].parent
          BY <1>1 DEF TreePlan
        <4>5. ASSUME ~raced PROVE Planned(s)
          <5>1. Planned(r) /\ r.pc = "up"
            BY <2>1, <4>5 DEF WalkUp, PlanAt, TreeInv, Trees
          <5>2. \A S \in SUBSET Nodes : Encloses(S, r) => node[r.at].parent \in S
            BY <5>1, <3>2 DEF Planned, Encloses
          <5>3. Fits(r)
            BY <5>1, <3>2 DEF Planned, Fits
          <5> QED
            BY <4>4, <5>1, <5>2, <5>3 DEF Planned, Fits, Encloses
        <4> HIDE DEF s
        <4> QED
          BY <4>1, <4>3, <4>5 DEF TreeInv, TreeRows
      <3>3. CASE ~(r.at = NoNode) /\ ~(r.at # r.t /\ r.at \in InState("live") /\ node[r.at].project = r.project
                                       /\ r.depth < MaxLevels)
        <4>1. plan' = [plan EXCEPT ![p] = PlanRest]
          BY <2>1, <3>3 DEF WalkUp, EndPlan
        <4> QED
          BY <4>1, PlanRestTyped DEF TreeInv, TreeRows
      <3> QED
        BY <3>1, <3>2, <3>3
    <2>2. CASE WalkDown(p)
      <3> DEFINE children == {c \in InState("live") : node[c].parent \in r.front} \ r.below
                 s1 == [r EXCEPT !.pc = "write", !.at = NoNode, !.front = {}, !.below = {}, !.depth = 1]
                 s2 == [r EXCEPT !.depth = r.depth + 1, !.front = children, !.below = r.below \cup children]
      <3>1. \/ plan' = [plan EXCEPT ![p] = s1]
            \/ plan' = [plan EXCEPT ![p] = s2]
            \/ plan' = [plan EXCEPT ![p] = PlanRest]
        BY <2>2 DEF WalkDown, EndPlan, TreeInv, TreeRows
      <3>2. r.pc = "down"
        BY <2>2 DEF WalkDown, PlanAt
      <3>3. children \in SUBSET Nodes
        BY DEF InState
      <3>4. s1 \in TreePlan /\ s2 \in TreePlan
        <4>1. r.depth + 1 \in Nat /\ 1 \in Nat /\ r.below \cup children \in SUBSET Nodes
          BY <1>1, <3>3 DEF TreePlan
        <4>2. s1 \in TreePlan
          BY <1>1, <4>1 DEF TreePlan
        <4> HIDE DEF children
        <4>3. s2 \in TreePlan
          BY <1>1, <3>3, <4>1 DEF TreePlan
        <4> QED
          BY <4>2, <4>3
      <3>5. /\ s1.pc = "write" /\ s1.t = r.t /\ s1.parent = r.parent /\ s1.project = r.project /\ s1.sets = r.sets
            /\ s2.pc = "down" /\ s2.t = r.t /\ s2.parent = r.parent /\ s2.project = r.project /\ s2.sets = r.sets
        BY <1>1, <3>2 DEF TreePlan
      <3>6. ASSUME ~raced PROVE Planned(s1) /\ Planned(s2)
        <4>1. Planned(r)
          BY <3>2, <3>6 DEF TreeInv, Trees
        <4> QED
          BY <3>2, <3>5, <4>1 DEF Planned, Fits, Encloses
      <3> HIDE DEF s1, s2
      <3> QED
        BY <3>1, <3>4, <3>6, PlanRestTyped DEF TreeInv, TreeRows
    <2> QED
      BY <2>1, <2>2
  <1>3. CASE raced
    BY <1>1, <1>2, <1>3 DEF TreeInv, TreeRows
  <1>4. CASE ~raced
    BY <1>1, <1>2, <1>4, SameShape DEF TreeInv, TreeRows
  <1> QED
    BY <1>3, <1>4

\* When p writes and raced stays FALSE, no other handler is checking.
LEMMA NobodyChecks ==
  ASSUME NEW p \in Handlers, ~Checking(p), NEW q \in Handlers, q # p
  PROVE  plan[q].pc = "idle"
  BY DEF Checking, PlanAt

\* A task that did not exist has no children, so a cycle through it would close
\* without it.
LEMMA Inserts ==
  ASSUME TreeInv, NEW p \in Handlers, InsertTask(p)
  PROVE  TreeInv'
  <1> DEFINE r == plan[p]
  <1>1. PICK t \in InState("none") :
          /\ r.pc = "write" /\ r.t = NoNode
          /\ node' = [node EXCEPT ![t] = [state |-> "live", project |-> r.project, parent |-> r.parent, version |-> 0]]
          /\ raced' = (raced \/ Checking(p))
          /\ plan' = [plan EXCEPT ![p] = PlanRest]
    BY DEF InsertTask, PlanAt, EndPlan
  <1>2. r \in TreePlan /\ t \in Nodes /\ node[t].state = "none"
    BY <1>1 DEF TreeInv, TreeRows, InState
  <1>3. node' \in [Nodes -> TreeNode]
    <2>1. [state |-> "live", project |-> r.project, parent |-> r.parent, version |-> 0] \in TreeNode
      BY <1>2 DEF TreePlan, TreeNode
    <2> QED
      BY <1>1, <2>1 DEF TreeInv, TreeRows
  <1>4. plan' \in [Handlers -> TreePlan] /\ plan'[p].pc = "idle" /\ raced' \in BOOLEAN
    BY <1>1, PlanRestTyped DEF TreeInv, TreeRows
  <1>5. ASSUME ~raced' PROVE Trees'
    <2>1. Trees /\ Planned(r)
      BY <1>1, <1>5 DEF TreeInv, Trees
    <2>2. \A q \in Handlers : plan'[q].pc = "idle"
      BY <1>1, <1>4, <1>5, NobodyChecks DEF TreeInv, TreeRows
    <2>3. \A x \in Nodes : x # t => node'[x] = node[x]
      BY <1>1 DEF TreeInv, TreeRows
    <2>4. node'[t].parent = r.parent /\ node'[t].project = r.project /\ node'[t].state = "live"
      BY <1>1, <1>2 DEF TreeInv, TreeRows
    <2>5. \A x \in Nodes : node[x].parent # t
      BY <1>2, <2>1, TreeAssumption DEF Trees, Grown
    <2>6. r.parent # t
      BY <1>2, <2>1, TreeAssumption DEF Planned, Grown
    <2>7. NoCycle'
      <3>1. SUFFICES ASSUME NEW S \in SUBSET Nodes \ {{}}, \A x \in S : node'[x].parent \in S
                     PROVE  FALSE
        BY DEF NoCycle
      <3>2. CASE t \notin S
        BY <2>1, <2>3, <3>1, <3>2 DEF Trees, NoCycle
      <3>3. CASE t \in S
        <4>1. r.parent \in S \ {t}
          BY <2>4, <2>6, <3>1, <3>3
        <4>2. \A x \in S \ {t} : node[x].parent \in S \ {t}
          BY <2>3, <2>5, <3>1
        <4> QED
          BY <2>1, <4>1, <4>2 DEF Trees, NoCycle
      <3> QED
        BY <3>2, <3>3
    <2>8. SameProject'
      <3>1. ASSUME NEW x \in Nodes, node'[x].parent # NoNode
            PROVE  node'[x].project # NoProject /\ node'[node'[x].parent].project = node'[x].project
        <4>1. CASE x = t
          BY <1>1, <1>2, <2>1, <2>3, <2>4, <2>6, <3>1, <4>1 DEF Planned, Fits, TreePlan
        <4>2. CASE x # t
          <5>1. node[x].parent \in Nodes /\ node[x].parent # t
            BY <2>3, <2>5, <3>1, <4>2 DEF TreeInv, TreeRows, TreeNode
          <5> QED
            BY <2>1, <2>3, <3>1, <4>2, <5>1 DEF Trees, SameProject
        <4> QED
          BY <4>1, <4>2
      <3> QED
        BY <3>1 DEF SameProject
    <2>9. \A x \in Nodes : Grown(node[x].parent)'
      <3>1. \A x \in Nodes : node[x].state # "none" => node'[x].state # "none"
        BY <1>2, <2>3
      <3>2. ASSUME NEW x \in Nodes PROVE Grown(node'[x].parent)
        BY <2>1, <2>3, <2>4 DEF Trees, Planned
      <3> QED
        BY <1>3, <3>1, <3>2 DEF Grown, TreeNode
    <2> QED
      BY <2>2, <2>7, <2>8, <2>9 DEF Trees
  <1> QED
    BY <1>3, <1>4, <1>5 DEF TreeInv, TreeRows

\* A cycle that a new parent closes goes through the task, and is a set that the
\* walk has excluded.
LEMMA Places ==
  ASSUME TreeInv, NEW p \in Handlers, PlaceTask(p)
  PROVE  TreeInv'
  <1> DEFINE r == plan[p]
             t == r.t
             home == IF r.sets THEN r.parent ELSE node[t].parent
             placed == [node[t] EXCEPT !.project = r.project, !.version = node[t].version + 1, !.parent = home]
             moves == node[t].project # r.project
             after == [n \in Nodes |-> IF n = t THEN placed
                                       ELSE IF moves /\ node[n].parent = t
                                       THEN [node[n] EXCEPT !.parent = NoNode] ELSE node[n]]
  <1>1. /\ r.pc = "write" /\ t # NoNode /\ r \in TreePlan /\ t \in Nodes
        /\ plan' = [plan EXCEPT ![p] = PlanRest]
        /\ \/ UNCHANGED <<node, raced>>
           \/ node' = after /\ raced' = (raced \/ Checking(p))
    BY DEF PlaceTask, PlanAt, EndPlan, TreeInv, TreeRows, TreePlan
  <1>2. plan' \in [Handlers -> TreePlan] /\ plan'[p].pc = "idle"
    BY <1>1, PlanRestTyped DEF TreeInv, TreeRows
  <1>3. CASE UNCHANGED <<node, raced>>
    <2>1. CASE raced
      BY <1>2, <1>3, <2>1 DEF TreeInv, TreeRows
    <2>2. CASE ~raced
      BY <1>1, <1>2, <1>3, <2>2, SameShape DEF TreeInv, TreeRows
    <2> QED
      BY <2>1, <2>2
  <1>4. CASE node' = after /\ raced' = (raced \/ Checking(p))
    <2>1. node \in [Nodes -> TreeNode] /\ raced \in BOOLEAN
      BY DEF TreeInv, TreeRows
    <2>2. node[t].version + 1 \in Nat /\ home \in Nodes \cup {NoNode}
      BY <1>1, <2>1 DEF TreeNode, TreePlan
    <2>3. placed \in TreeNode
      <3>1. node[t] \in TreeNode /\ r.project \in Projects \cup {NoProject}
        BY <1>1, <2>1 DEF TreePlan
      <3> HIDE DEF home
      <3> QED
        BY <2>2, <3>1 DEF TreeNode
    <2>4. \A n \in Nodes : [node[n] EXCEPT !.parent = NoNode] \in TreeNode
      BY <2>1 DEF TreeNode
    <2>5. /\ placed.project = r.project /\ placed.state = node[t].state
          /\ placed.parent = home
      <3> HIDE DEF home
      <3> QED
        BY <1>1, <2>1 DEF TreeNode
    <2>6. \A n \in Nodes : /\ [node[n] EXCEPT !.parent = NoNode].parent = NoNode
                           /\ [node[n] EXCEPT !.parent = NoNode].project = node[n].project
                           /\ [node[n] EXCEPT !.parent = NoNode].state = node[n].state
      BY <2>1 DEF TreeNode
    <2>7. node' \in [Nodes -> TreeNode]
      BY <1>4, <2>1, <2>3, <2>4
    <2> HIDE DEF home, placed
    <2>8. /\ node'[t].parent = home /\ node'[t].project = r.project
          /\ \A x \in Nodes : node'[x].state = node[x].state
          /\ \A x \in Nodes : x # t => /\ node'[x].project = node[x].project
                                       /\ node'[x].parent = node[x].parent
                                          \/ (moves /\ node[x].parent = t /\ node'[x].parent = NoNode)
      <3>1. node'[t] = placed
        BY <1>1, <1>4
      <3>2. ASSUME NEW x \in Nodes, x # t
            PROVE  \/ node'[x] = node[x]
                   \/ moves /\ node[x].parent = t /\ node'[x] = [node[x] EXCEPT !.parent = NoNode]
        BY <1>4, <3>2
      <3>3. /\ node'[t].parent = home /\ node'[t].project = r.project /\ node'[t].state = node[t].state
        BY <2>5, <3>1
      <3>4. ASSUME NEW x \in Nodes, x # t
            PROVE  /\ node'[x].state = node[x].state /\ node'[x].project = node[x].project
                   /\ node'[x].parent = node[x].parent \/ (moves /\ node[x].parent = t /\ node'[x].parent = NoNode)
        <4>1. CASE node'[x] = node[x]
          BY <4>1
        <4>2. CASE moves /\ node[x].parent = t /\ node'[x] = [node[x] EXCEPT !.parent = NoNode]
          BY <2>6, <4>2
        <4> QED
          BY <3>2, <3>4, <4>1, <4>2
      <3> QED
        BY <1>1, <3>3, <3>4
    <2>10. ASSUME NEW x \in Nodes, x # t, moves PROVE node'[x].parent # t
      <3>1. node'[x] = IF node[x].parent = t THEN [node[x] EXCEPT !.parent = NoNode] ELSE node[x]
        BY <1>4, <2>10
      <3> QED
        BY <1>1, <2>6, <3>1
    <2> HIDE DEF after
    <2>9. ASSUME ~raced' PROVE Trees'
      <3>1. Trees /\ Planned(r)
        BY <1>1, <1>4, <2>9 DEF TreeInv, Trees
      <3>2. \A q \in Handlers : plan'[q].pc = "idle"
        BY <1>1, <1>2, <1>4, <2>9, NobodyChecks DEF TreeInv, TreeRows
      <3>3. node'[t].parent = r.parent
        BY <2>8, <3>1 DEF Planned, home
      <3>4. NoCycle'
        <4>1. SUFFICES ASSUME NEW S \in SUBSET Nodes \ {{}}, \A x \in S : node'[x].parent \in S
                       PROVE  FALSE
          BY DEF NoCycle
        <4>2. \A x \in S : x # t => node[x].parent \in S
          BY <2>8, <4>1, TreeAssumption
        <4>3. CASE t \notin S
          BY <3>1, <4>1, <4>2, <4>3 DEF Trees, NoCycle
        <4>4. CASE t \in S
          BY <1>1, <3>1, <3>3, <4>1, <4>2, <4>4 DEF Planned, Encloses
        <4> QED
          BY <4>3, <4>4
      <3>5. SameProject'
        <4>1. ASSUME NEW x \in Nodes, node'[x].parent # NoNode
              PROVE  node'[x].project # NoProject /\ node'[node'[x].parent].project = node'[x].project
          <5>1. CASE x = t
            BY <1>1, <2>8, <3>1, <3>3, <4>1, <5>1 DEF Planned, Fits, TreePlan
          <5>2. CASE x # t
            <6>1. /\ node'[x].parent = node[x].parent /\ node[x].parent \in Nodes
                  /\ node'[x].project = node[x].project
              BY <2>1, <2>8, <4>1, <5>2 DEF TreeNode
            <6>2. node[x].project # NoProject /\ node[node[x].parent].project = node[x].project
              BY <3>1, <4>1, <6>1 DEF Trees, SameProject
            <6>3. node'[node[x].parent].project = node[node[x].parent].project
              BY <2>10, <2>8, <5>2, <6>1
            <6> QED
              BY <6>1, <6>2, <6>3
          <5> QED
            BY <5>1, <5>2
        <4> QED
          BY <4>1 DEF SameProject
      <3>6. \A x \in Nodes : Grown(node[x].parent)'
        BY <2>1, <2>7, <2>8, <3>1, <3>3 DEF Trees, Planned, Grown, TreeNode
      <3> QED
        BY <3>2, <3>4, <3>5, <3>6 DEF Trees
    <2> QED
      BY <1>2, <1>4, <2>1, <2>7, <2>9 DEF TreeInv, TreeRows
  <1> QED
    BY <1>1, <1>3, <1>4

LEMMA Buries ==
  ASSUME TreeInv, DeleteTask \/ RestoreTask
  PROVE  TreeInv'
  <1>1. PICK t \in Nodes, s \in {"live", "deleted"} :
          /\ node' = [node EXCEPT ![t].state = s, ![t].version = @ + 1]
          /\ UNCHANGED <<plan, raced>>
    BY DEF DeleteTask, RestoreTask, InState
  <1>2. node \in [Nodes -> TreeNode]
    BY DEF TreeInv, TreeRows
  <1>3. node[t].version + 1 \in Nat
    BY <1>2 DEF TreeNode
  <1>4. node' \in [Nodes -> TreeNode]
    BY <1>1, <1>2, <1>3 DEF TreeNode
  <1>5. \A x \in Nodes : /\ node'[x].parent = node[x].parent /\ node'[x].project = node[x].project
                         /\ node[x].state # "none" => node'[x].state # "none"
    BY <1>1, <1>2 DEF TreeNode
  <1>6. CASE raced
    BY <1>1, <1>4, <1>6 DEF TreeInv, TreeRows
  <1>7. CASE ~raced
    BY <1>1, <1>4, <1>5, <1>7, SameShape DEF TreeInv, TreeRows
  <1> QED
    BY <1>6, <1>7

\* Of any number of tasks, projects, levels and handlers: whatever is created,
\* placed, moved between projects, deleted and restored (createTask, updateTask
\* and lifecycle of tasks.service.ts), no task is its own ancestor and none stands
\* under a task of another project, unless one placement was written while
\* another was being checked.
THEOREM HierarchyIsForest == TreeSpec => []Forest
  <1>1. TreeInit => TreeInv
    BY TreeInitial
  <1>2. TreeInv /\ [TreeNext]_treeVars => TreeInv'
    <2> SUFFICES ASSUME TreeInv, [TreeNext]_treeVars PROVE TreeInv'
      OBVIOUS
    <2>1. CASE UNCHANGED treeVars
      <3>1. UNCHANGED <<node, plan, raced>>
        BY <2>1 DEF treeVars
      <3>2. CASE raced
        BY <3>1, <3>2 DEF TreeInv, TreeRows
      <3>3. CASE ~raced
        BY <3>1, <3>3, SameShape DEF TreeInv, TreeRows
      <3> QED
        BY <3>2, <3>3
    <2>2. CASE TreeNext
      BY <2>2, PlanBegins, WalksOn, Inserts, Places, Buries DEF TreeNext
    <2> QED
      BY <2>1, <2>2
  <1>3. TreeInv => Forest
    BY DEF TreeInv, Trees, Forest
  <1> QED
    BY <1>1, <1>2, <1>3, PTL DEF TreeSpec

-----------------------------------------------------------------------------
(* TaskTree, the levels.  While no placement is written and nothing deleted       *)
(* comes back, lines of live tasks only get shorter.  A walk up knows who stands  *)
(* at its depth above the new parent; a walk down that has read e levels knows    *)
(* who can stand on the e-th, and that the lines to the parent leave room for e.  *)

UpTrace(r) == \A n \in Nat : \A s \in Lines(n) : r.depth <= n /\ s[n] = r.parent => s[n - r.depth + 1] = r.at
\* No more than b tasks down to the new parent, no more than b from the task on.
AboveAtMost(r, b) == \A n \in Nat : \A s \in Lines(n) : 1 <= n /\ s[n] = r.parent => n <= b
BelowAtMost(r, b) == \A n \in Nat : \A s \in Lines(n) : 1 <= n /\ s[1] = r.t => n <= b
DownTrace(r) == \E e \in 1..r.depth :
    /\ AboveAtMost(r, r.depth - e)
    /\ r.t # NoNode => \A n \in Nat : \A s \in Lines(n) : e <= n /\ s[1] = r.t => s[e] \in r.front
    /\ r.front \subseteq r.below
    /\ \A x \in r.below : x = r.t \/ node[x].parent \in r.below \ r.front
WriteTrace(r) == \E b \in 0..MaxLevels - 1 :
    /\ AboveAtMost(r, b)
    /\ r.t # NoNode /\ node[r.t].project = r.project => BelowAtMost(r, MaxLevels - b)
Traced(r) ==
    /\ r.pc # "idle" => r.depth \in 1..MaxLevels
    /\ r.pc = "up" => UpTrace(r)
    /\ r.pc = "down" => DownTrace(r)
    /\ r.pc = "write" => WriteTrace(r)
Leveled == LimitedLevels /\ \A p \in Handlers : Traced(plan[p])
LevelsInv == TreeInv /\ regrown \in BOOLEAN /\ (raced \/ regrown \/ Leveled)

LEMMA LineOf ==
  ASSUME NEW n, NEW s \in Lines(n)
  PROVE  /\ \A k \in 1..n : s[k] \in InState("live") /\ s[k] \in Nodes
         /\ \A k \in 1..n - 1 : node[s[k + 1]].parent = s[k]
         /\ s \in [1..n -> InState("live")]
  BY DEF Lines, InState

LEMMA SomeLevels == MaxLevels \in Nat /\ MaxLevels >= 1 /\ NoNode \notin Nodes
  BY TreeAssumption

LEMMA RestTraced == Traced(PlanRest)
  BY PlanRestTyped DEF Traced

LEMMA LevelsInitial == TreeInit => LevelsInv
  <1> SUFFICES ASSUME TreeInit PROVE LevelsInv
    OBVIOUS
  <1>1. \A p \in Handlers : plan[p] = PlanRest
    BY DEF TreeInit
  <1> QED
    BY <1>1, TreeInitial, RestTraced DEF TreeInit, LevelsInv, Leveled

\* Lines that get no longer keep what is known of them.
LEMMA TraceKept ==
  ASSUME \A n \in Nat : Lines(n)' \subseteq Lines(n),
         \A x \in Nodes : node'[x].parent = node[x].parent /\ node'[x].project = node[x].project,
         NEW r \in TreePlan, Traced(r)
  PROVE  Traced(r)'
  <1>1. r.t \in Nodes \cup {NoNode} /\ r.below \subseteq Nodes
    BY DEF TreePlan
  <1>2. r.pc = "up" => UpTrace(r)'
    BY DEF Traced, UpTrace
  <1>3. \A b : AboveAtMost(r, b) => AboveAtMost(r, b)'
    BY DEF AboveAtMost
  <1>4. \A b : BelowAtMost(r, b) => BelowAtMost(r, b)'
    BY DEF BelowAtMost
  <1>5. ASSUME r.pc = "down" PROVE DownTrace(r)'
    <2>1. PICK e \in 1..r.depth :
            /\ AboveAtMost(r, r.depth - e)
            /\ r.t # NoNode => \A n \in Nat : \A s \in Lines(n) : e <= n /\ s[1] = r.t => s[e] \in r.front
            /\ r.front \subseteq r.below
            /\ \A x \in r.below : x = r.t \/ node[x].parent \in r.below \ r.front
      BY <1>5 DEF Traced, DownTrace
    <2>2. AboveAtMost(r, r.depth - e)'
      BY <1>3, <2>1
    <2>3. \A x \in r.below : x = r.t \/ node'[x].parent \in r.below \ r.front
      BY <1>1, <2>1
    <2>4. r.t # NoNode => \A n \in Nat : \A s \in Lines(n)' : e <= n /\ s[1] = r.t => s[e] \in r.front
      BY <2>1
    <2> QED
      BY <2>1, <2>2, <2>3, <2>4 DEF DownTrace
  <1>6. ASSUME r.pc = "write" PROVE WriteTrace(r)'
    <2>1. PICK b \in 0..MaxLevels - 1 :
            /\ AboveAtMost(r, b)
            /\ r.t # NoNode /\ node[r.t].project = r.project => BelowAtMost(r, MaxLevels - b)
      BY <1>6 DEF Traced, WriteTrace
    <2>2. AboveAtMost(r, b)' /\ (BelowAtMost(r, MaxLevels - b) => BelowAtMost(r, MaxLevels - b)')
      BY <1>3, <1>4, <2>1
    <2>3. r.t # NoNode => node'[r.t].project = node[r.t].project
      BY <1>1
    <2> QED
      BY <2>1, <2>2, <2>3 DEF WriteTrace
  <1> QED
    BY <1>2, <1>5, <1>6 DEF Traced

\* A step that writes no placement: some handler may have gone on.
LEMMA LinesShrink ==
  ASSUME LevelsInv, TreeInv', UNCHANGED <<raced, regrown>>,
         \A n \in Nat : Lines(n)' \subseteq Lines(n),
         \A x \in Nodes : node'[x].parent = node[x].parent /\ node'[x].project = node[x].project,
         ~raced /\ ~regrown => \A p \in Handlers : plan'[p] = plan[p] \/ Traced(plan'[p])
  PROVE  LevelsInv'
  <1>1. CASE raced \/ regrown
    BY <1>1 DEF LevelsInv
  <1>2. CASE ~raced /\ ~regrown
    <2>1. Leveled
      BY <1>2 DEF LevelsInv
    <2>2. LimitedLevels'
      BY <2>1, SomeLevels DEF Leveled, LimitedLevels
    <2>3. ASSUME NEW p \in Handlers PROVE Traced(plan[p])'
      <3>1. PICK r : r = plan'[p]
        OBVIOUS
      <3>2. r \in TreePlan
        BY <3>1 DEF TreeInv, TreeRows
      <3>3. Traced(r)
        <4>1. CASE plan'[p] = plan[p]
          <5>1. Traced(plan[p]) /\ r = plan[p]
            BY <2>1, <3>1, <4>1 DEF Leveled
          <5> QED
            BY <5>1
        <4>2. CASE Traced(plan'[p])
          BY <3>1, <4>2
        <4> QED
          BY <1>2, <4>1, <4>2
      <3>4. Traced(r)'
        BY <3>2, <3>3, TraceKept
      <3> QED
        BY <3>1, <3>4 DEF Traced, UpTrace, DownTrace, WriteTrace, AboveAtMost, BelowAtMost
    <2> QED
      BY <2>2, <2>3 DEF LevelsInv, Leveled
  <1> QED
    BY <1>1, <1>2 DEF LevelsInv

\* The requests that begin a check, and those that write no placement.
LEMMA LevelsBegin ==
  ASSUME LevelsInv, NEW p \in Handlers, CreateTask(p) \/ UpdateTask(p)
  PROVE  LevelsInv'
  <1>1. PICK t, version, place, parent, sets : Check(p, t, version, place, parent, sets)
    BY DEF CreateTask, UpdateTask
  <1> DEFINE r == [PlanRest EXCEPT !.pc = "up", !.t = t, !.version = version, !.project = place,
                                   !.parent = parent, !.sets = sets, !.at = parent]
  <1>2. plan' = [plan EXCEPT ![p] = r] /\ UNCHANGED <<node, raced, regrown>>
    BY <1>1 DEF Check
  <1>3. r.pc = "up" /\ r.depth = 1 /\ r.at = r.parent
    BY DEF PlanRest
  <1> HIDE DEF r
  <1>4. Traced(r)
    <2>1. UpTrace(r)
      BY <1>3 DEF UpTrace
    <2> QED
      BY <1>3, <2>1, SomeLevels DEF Traced
  <1>5. \A q \in Handlers : plan'[q] = plan[q] \/ Traced(plan'[q])
    BY <1>2, <1>4 DEF LevelsInv, TreeInv, TreeRows
  <1>6. \A n : Lines(n)' = Lines(n)
    BY <1>2 DEF Lines, InState
  <1> QED
    BY <1>2, <1>5, <1>6, LinesShrink, PlanBegins DEF LevelsInv

LEMMA GoesUp ==
  ASSUME LevelsInv, ~raced, ~regrown, NEW p \in Handlers, WalkUp(p)
  PROVE  Traced(plan'[p])
  <1> DEFINE r == plan[p]
  <1>1. /\ r \in TreePlan /\ r.pc = "up" /\ UpTrace(r) /\ r.depth \in 1..MaxLevels
        /\ plan \in [Handlers -> TreePlan] /\ node \in [Nodes -> TreeNode]
    BY DEF WalkUp, PlanAt, LevelsInv, Leveled, Traced, TreeInv, TreeRows
  <1>2. CASE r.at = NoNode
    <2> DEFINE d == [r EXCEPT !.pc = "down", !.front = {r.t} \ {NoNode}, !.below = {r.t} \ {NoNode}]
    <2>1. plan'[p] = d
      BY <1>1, <1>2 DEF WalkUp
    <2>2. /\ d.pc = "down" /\ d.t = r.t /\ d.parent = r.parent /\ d.depth = r.depth
          /\ d.front = {r.t} \ {NoNode} /\ d.below = {r.t} \ {NoNode}
      BY <1>1 DEF TreePlan
    <2> HIDE DEF d
    <2>3. AboveAtMost(d, d.depth - 1)
      <3> SUFFICES ASSUME NEW n \in Nat, NEW s \in Lines(n), 1 <= n, s[n] = r.parent, n >= r.depth PROVE FALSE
        BY <1>1, <2>2, SomeLevels DEF AboveAtMost
      <3>1. s[n - r.depth + 1] = NoNode
        BY <1>1, <1>2 DEF UpTrace
      <3>2. n - r.depth + 1 \in 1..n
        BY <1>1, SomeLevels
      <3> QED
        BY <3>1, <3>2, LineOf, SomeLevels
    <2>4. DownTrace(d)
      <3>1. d.t # NoNode => \A n \in Nat : \A s \in Lines(n) : 1 <= n /\ s[1] = d.t => s[1] \in d.front
        BY <2>2
      <3>2. d.front \subseteq d.below /\ \A x \in d.below : x = d.t
        BY <2>2
      <3>3. 1 \in 1..d.depth
        BY <1>1, <2>2, SomeLevels
      <3> QED
        BY <2>3, <3>1, <3>2, <3>3 DEF DownTrace
    <2> QED
      BY <1>1, <2>1, <2>2, <2>4 DEF Traced
  <1>3. CASE r.at # NoNode /\ r.at # r.t /\ r.at \in InState("live") /\ node[r.at].project = r.project
             /\ r.depth < MaxLevels
    <2> DEFINE u == [r EXCEPT !.at = node[r.at].parent, !.depth = r.depth + 1]
    <2>1. plan'[p] = u
      BY <1>1, <1>3 DEF WalkUp
    <2>2. u.pc = "up" /\ u.parent = r.parent /\ u.at = node[r.at].parent /\ u.depth = r.depth + 1
      BY <1>1 DEF TreePlan
    <2> HIDE DEF u
    <2>3. UpTrace(u)
      <3> SUFFICES ASSUME NEW n \in Nat, NEW s \in Lines(n), r.depth + 1 <= n, s[n] = r.parent
                   PROVE  s[n - (r.depth + 1) + 1] = node[r.at].parent
        BY <2>2 DEF UpTrace
      <3> DEFINE k == n - r.depth
      <3>1. k \in 1..n - 1 /\ n - r.depth + 1 = k + 1 /\ n - (r.depth + 1) + 1 = k /\ r.depth <= n
        BY <1>1, SomeLevels
      <3>2. s[k + 1] = r.at
        BY <1>1, <3>1 DEF UpTrace
      <3> QED
        BY <3>1, <3>2, LineOf
    <2>4. u.depth \in 1..MaxLevels
      BY <1>1, <1>3, <2>2, SomeLevels
    <2> QED
      BY <2>1, <2>2, <2>3, <2>4 DEF Traced
  <1>4. CASE ~(r.at = NoNode) /\ ~(r.at # r.t /\ r.at \in InState("live") /\ node[r.at].project = r.project
                                   /\ r.depth < MaxLevels)
    BY <1>1, <1>4, RestTraced DEF WalkUp, EndPlan
  <1> QED
    BY <1>2, <1>3, <1>4

LEMMA GoesDown ==
  ASSUME LevelsInv, ~raced, ~regrown, NEW p \in Handlers, WalkDown(p)
  PROVE  Traced(plan'[p])
  <1> DEFINE r == plan[p]
             leaves == r.front = {r.t} /\ node[r.t].project # r.project
             children == {c \in InState("live") : node[c].parent \in r.front} \ r.below
  <1>1. /\ r \in TreePlan /\ r.pc = "down" /\ DownTrace(r) /\ r.depth \in 1..MaxLevels
        /\ plan \in [Handlers -> TreePlan] /\ node \in [Nodes -> TreeNode]
    BY DEF WalkDown, PlanAt, LevelsInv, Leveled, Traced, TreeInv, TreeRows
  <1>2. PICK e \in 1..r.depth :
          /\ AboveAtMost(r, r.depth - e)
          /\ r.t # NoNode => \A n \in Nat : \A s \in Lines(n) : e <= n /\ s[1] = r.t => s[e] \in r.front
          /\ r.front \subseteq r.below
          /\ \A x \in r.below : x = r.t \/ node[x].parent \in r.below \ r.front
    BY <1>1 DEF DownTrace
  <1>3. e \in Nat /\ 1 <= e /\ e <= r.depth /\ r.depth \in Nat /\ r.depth <= MaxLevels
    BY <1>1, <1>2, SomeLevels
  \* Who stands below the e-th level of a line is a child that was not read.
  <1>4. ASSUME r.t # NoNode, NEW n \in Nat, NEW s \in Lines(n), e + 1 <= n, s[1] = r.t
        PROVE  s[e + 1] \in children
    <2>1. e \in 1..n - 1 /\ e + 1 \in 1..n /\ e <= n
      BY <1>3, <1>4
    <2>2. s[e] \in r.front
      BY <1>2, <1>4, <2>1
    <2>3. s[e + 1] \in InState("live") /\ node[s[e + 1]].parent = s[e]
      BY <2>1, LineOf
    <2>4. s[e + 1] # r.t
      <3> SUFFICES ASSUME s[e + 1] = r.t PROVE FALSE
        OBVIOUS
      <3> DEFINE S == {s[k] : k \in 1..e}
      <3>1. S \in SUBSET Nodes
        BY <2>1, LineOf
      <3>2. ASSUME NEW k \in 1..e PROVE node[s[k]].parent \in S
        <4>1. CASE k = 1
          BY <1>3, <1>4, <2>3, <4>1
        <4>2. CASE k # 1
          <5>1. k - 1 \in 1..n - 1 /\ k - 1 \in 1..e /\ (k - 1) + 1 = k
            BY <2>1, <3>2, <4>2, <1>3
          <5>2. node[s[k]].parent = s[k - 1]
            BY <5>1, LineOf
          <5> QED
            BY <5>1, <5>2
        <4> QED
          BY <4>1, <4>2
      <3>3. s[1] \in S
        BY <1>3
      <3>4. NoCycle
        BY DEF LevelsInv, TreeInv, Trees
      <3> QED
        BY <3>1, <3>2, <3>3, <3>4 DEF NoCycle
    <2>5. s[e + 1] \notin r.below
      BY <1>2, <2>2, <2>3, <2>4
    <2> QED
      BY <2>2, <2>3, <2>5
  <1>5. CASE r.t = NoNode \/ leaves \/ children = {}
    <2> DEFINE w == [r EXCEPT !.pc = "write", !.at = NoNode, !.front = {}, !.below = {}, !.depth = 1]
               b == r.depth - e
    <2>1. plan'[p] = w
      BY <1>1, <1>5 DEF WalkDown
    <2>2. w.pc = "write" /\ w.t = r.t /\ w.parent = r.parent /\ w.project = r.project /\ w.depth = 1
      BY <1>1 DEF TreePlan
    <2> HIDE DEF w
    <2>3. b \in 0..MaxLevels - 1 /\ e <= MaxLevels - b
      BY <1>3, SomeLevels
    <2>4. AboveAtMost(w, b)
      BY <1>2, <2>2 DEF AboveAtMost
    <2>5. ASSUME w.t # NoNode, node[w.t].project = w.project PROVE BelowAtMost(w, MaxLevels - b)
      <3>1. children = {} /\ r.t # NoNode
        BY <1>5, <2>2, <2>5
      <3> SUFFICES ASSUME NEW n \in Nat, NEW s \in Lines(n), 1 <= n, s[1] = r.t PROVE n <= MaxLevels - b
        BY <2>2 DEF BelowAtMost
      <3>2. ~(e + 1 <= n)
        BY <1>4, <3>1
      <3> QED
        BY <1>3, <2>3, <3>2, SomeLevels
    <2>6. WriteTrace(w)
      <3> HIDE DEF b
      <3> QED
        BY <2>3, <2>4, <2>5 DEF WriteTrace
    <2> QED
      BY <2>1, <2>2, <2>6, SomeLevels DEF Traced
  <1>6. CASE ~(r.t = NoNode \/ leaves \/ children = {}) /\ r.depth < MaxLevels
    <2> DEFINE d == [r EXCEPT !.depth = r.depth + 1, !.front = children, !.below = r.below \cup children]
    <2>1. plan'[p] = d
      BY <1>1, <1>6 DEF WalkDown
    <2>2. /\ d.pc = "down" /\ d.t = r.t /\ d.parent = r.parent /\ d.depth = r.depth + 1
          /\ d.front = children /\ d.below = r.below \cup children
      <3> HIDE DEF children
      <3> QED
        BY <1>1 DEF TreePlan
    <2> HIDE DEF d
    <2>3. e + 1 \in 1..d.depth /\ d.depth - (e + 1) = r.depth - e /\ d.depth \in 1..MaxLevels
      BY <1>3, <1>6, <2>2, SomeLevels
    <2>4. AboveAtMost(d, d.depth - (e + 1))
      BY <1>2, <2>2, <2>3 DEF AboveAtMost
    <2>5. d.t # NoNode => \A n \in Nat : \A s \in Lines(n) : e + 1 <= n /\ s[1] = d.t => s[e + 1] \in d.front
      BY <1>4, <2>2
    <2>6. d.front \subseteq d.below
      BY <2>2
    <2>7. \A x \in d.below : x = d.t \/ node[x].parent \in d.below \ d.front
      BY <1>2, <2>2
    <2>8. DownTrace(d)
      BY <2>3, <2>4, <2>5, <2>6, <2>7 DEF DownTrace
    <2> QED
      BY <2>1, <2>2, <2>3, <2>8 DEF Traced
  <1>7. CASE ~(r.t = NoNode \/ leaves \/ children = {}) /\ ~(r.depth < MaxLevels)
    BY <1>1, <1>7, RestTraced DEF WalkDown, EndPlan
  <1> QED
    BY <1>5, <1>6, <1>7

LEMMA LevelsWalk ==
  ASSUME LevelsInv, NEW p \in Handlers, WalkUp(p) \/ WalkDown(p)
  PROVE  LevelsInv'
  <1>1. UNCHANGED <<node, raced, regrown>> /\ TreeInv'
    BY WalksOn DEF WalkUp, WalkDown, LevelsInv
  <1>2. \A q \in Handlers : q # p => plan'[q] = plan[q]
    BY DEF WalkUp, WalkDown, EndPlan, LevelsInv, TreeInv, TreeRows
  <1>3. ~raced /\ ~regrown => Traced(plan'[p])
    BY GoesUp, GoesDown
  <1>4. \A n : Lines(n)' = Lines(n)
    BY <1>1 DEF Lines, InState
  <1> QED
    BY <1>1, <1>2, <1>3, <1>4, LinesShrink

LEMMA LevelsBury ==
  ASSUME LevelsInv, DeleteTask \/ RestoreTask
  PROVE  LevelsInv'
  <1>1. TreeInv' /\ UNCHANGED <<plan, raced>>
    BY Buries DEF LevelsInv, DeleteTask, RestoreTask
  <1>2. CASE RestoreTask
    BY <1>1, <1>2 DEF RestoreTask, LevelsInv
  <1>3. CASE DeleteTask
    <2>1. PICK t \in InState("live") : node' = [node EXCEPT ![t].state = "deleted", ![t].version = @ + 1]
      BY <1>3 DEF DeleteTask
    <2>2. regrown' = regrown
      BY <1>3 DEF DeleteTask
    <2>3. node \in [Nodes -> TreeNode] /\ node' \in [Nodes -> TreeNode]
      BY <1>1 DEF LevelsInv, TreeInv, TreeRows
    <2>4. \A x \in Nodes : /\ node'[x].parent = node[x].parent /\ node'[x].project = node[x].project
                           /\ node'[x].state = "live" => node[x].state = "live"
      BY <2>1, <2>3 DEF TreeNode, InState
    <2>5. InState("live")' \subseteq InState("live")
      BY <2>4 DEF InState
    <2>6. ASSUME NEW n \in Nat, NEW s \in Lines(n)' PROVE s \in Lines(n)
      <3>1. s \in [1..n -> InState("live")'] /\ \A k \in 1..n - 1 : node'[s[k + 1]].parent = s[k]
        BY DEF Lines
      <3>2. \A k \in 1..n : s[k] \in InState("live") /\ s[k] \in Nodes
        BY <2>5, <3>1 DEF InState
      <3>3. s \in [1..n -> InState("live")]
        BY <3>1, <3>2
      <3>4. \A k \in 1..n - 1 : k + 1 \in 1..n
        OBVIOUS
      <3>5. \A k \in 1..n - 1 : node[s[k + 1]].parent = s[k]
        BY <2>4, <3>1, <3>2, <3>4
      <3> QED
        BY <3>3, <3>5 DEF Lines
    <2> QED
      BY <1>1, <2>2, <2>4, <2>6, LinesShrink
  <1> QED
    BY <1>2, <1>3

Falls(s, i, j) == /\ \A k \in i..j : s[k] \in InState("live")
                  /\ \A k \in i..j - 1 : node[s[k + 1]].parent = s[k]
Loopless(par) == \A S \in SUBSET Nodes \ {{}} : ~ \A x \in S : par[x] \in S
Climbs(par, s, n) == (\A k \in 1..n : s[k] \in Nodes) /\ \A k \in 1..n - 1 : par[s[k + 1]] = s[k]

\* Part of a line is a line.
LEMMA Segment ==
  ASSUME NEW i \in Nat, NEW j \in Nat, 1 <= i, i <= j, NEW s, Falls(s, i, j)
  PROVE  \E u \in Lines(j - i + 1) : u[1] = s[i] /\ u[j - i + 1] = s[j]
  <1> DEFINE n == j - i + 1
             u == [k \in 1..n |-> s[k + i - 1]]
  <1>1. n \in Nat /\ 1 \in 1..n /\ n \in 1..n /\ 1 + i - 1 = i /\ n + i - 1 = j
    OBVIOUS
  <1>2. \A k \in 1..n : k + i - 1 \in i..j
    OBVIOUS
  <1>3. u \in [1..n -> InState("live")]
    BY <1>2 DEF Falls
  <1>4. ASSUME NEW k \in 1..n - 1 PROVE node[u[k + 1]].parent = u[k]
    <2>1. k + i - 1 \in i..j - 1 /\ (k + 1) + i - 1 = (k + i - 1) + 1 /\ k \in 1..n /\ k + 1 \in 1..n
      OBVIOUS
    <2>2. u[k + 1] = s[(k + i - 1) + 1] /\ u[k] = s[k + i - 1]
      BY <2>1
    <2> QED
      BY <2>1, <2>2 DEF Falls
  <1>5. u \in Lines(n)
    BY <1>3, <1>4 DEF Lines
  <1>6. u[1] = s[i] /\ u[n] = s[j]
    BY <1>1
  <1> QED
    BY <1>5, <1>6

\* No task stands twice in a line.
LEMMA NoReturn ==
  ASSUME NEW par, Loopless(par), NEW n \in Nat, NEW s, Climbs(par, s, n),
         NEW i \in 1..n, NEW j \in 1..n, i < j
  PROVE  s[i] # s[j]
  <1> SUFFICES ASSUME s[i] = s[j] PROVE FALSE
    OBVIOUS
  <1> DEFINE S == {s[k] : k \in i..j - 1}
  <1>1. S \in SUBSET Nodes
    <2>1. i..j - 1 \subseteq 1..n
      OBVIOUS
    <2> QED
      BY <2>1 DEF Climbs
  <1>2. ASSUME NEW k \in i..j - 1 PROVE par[s[k]] \in S
    <2>1. CASE k = i
      <3>1. j - 1 \in i..j - 1 /\ j - 1 \in 1..n - 1 /\ (j - 1) + 1 = j
        OBVIOUS
      <3>2. par[s[j]] = s[j - 1]
        BY <3>1 DEF Climbs
      <3> QED
        BY <2>1, <3>1, <3>2
    <2>2. CASE k # i
      <3>1. k - 1 \in i..j - 1 /\ k - 1 \in 1..n - 1 /\ (k - 1) + 1 = k
        BY <2>2
      <3>2. par[s[k]] = s[k - 1]
        BY <3>1 DEF Climbs
      <3> QED
        BY <3>1, <3>2
    <2> QED
      BY <2>1, <2>2
  <1>3. s[i] \in S
    OBVIOUS
  <1>4. \A x \in S : par[x] \in S
    BY <1>2
  <1> QED
    BY <1>1, <1>3, <1>4 DEF Loopless

\* When all handlers are idle no trace is to be kept.
LEMMA LevelsAfterWrite ==
  ASSUME LevelsInv, TreeInv', NEW p \in Handlers, ~Checking(p), regrown' = regrown,
         plan' = [plan EXCEPT ![p] = PlanRest], LimitedLevels'
  PROVE  LevelsInv'
  <1>1. \A q \in Handlers : plan'[q].pc = "idle"
    BY PlanRestTyped, NobodyChecks DEF LevelsInv, TreeInv, TreeRows
  <1>2. \A q \in Handlers : Traced(plan[q])'
    BY <1>1 DEF Traced
  <1> QED
    BY <1>2 DEF LevelsInv, Leveled

\* A new task has no children: a line that is new ends with it.
LEMMA LevelsInsert ==
  ASSUME LevelsInv, NEW p \in Handlers, InsertTask(p)
  PROVE  LevelsInv'
  <1> DEFINE r == plan[p]
             m == MaxLevels
  <1>1. PICK t \in InState("none") :
          /\ r.pc = "write" /\ r.t = NoNode
          /\ node' = [node EXCEPT ![t] = [state |-> "live", project |-> r.project, parent |-> r.parent, version |-> 0]]
          /\ raced' = (raced \/ Checking(p))
          /\ plan' = [plan EXCEPT ![p] = PlanRest]
          /\ regrown' = regrown
    BY DEF InsertTask, PlanAt, EndPlan
  <1>2. TreeInv' /\ regrown' \in BOOLEAN
    BY <1>1, Inserts DEF LevelsInv
  <1>3. CASE raced' \/ regrown'
    BY <1>2, <1>3 DEF LevelsInv
  <1>4. CASE ~raced' /\ ~regrown'
    <2>1. ~raced /\ ~regrown /\ ~Checking(p)
      BY <1>1, <1>4 DEF LevelsInv, TreeInv, TreeRows
    <2>2. Leveled /\ Trees
      BY <2>1 DEF LevelsInv, TreeInv
    <2>3. Planned(r) /\ WriteTrace(r) /\ r \in TreePlan
      BY <1>1, <2>2 DEF Leveled, Traced, Trees, LevelsInv, TreeInv, TreeRows
    <2>4. PICK b \in 0..MaxLevels - 1 : AboveAtMost(r, b)
      BY <2>3 DEF WriteTrace
    <2>5. node \in [Nodes -> TreeNode] /\ t \in Nodes /\ node[t].state = "none"
      BY <1>1 DEF LevelsInv, TreeInv, TreeRows, InState
    <2>6. \A x \in Nodes : x # t => node'[x] = node[x]
      BY <1>1, <2>5
    <2>7. node'[t].parent = r.parent /\ node'[t].state = "live"
      BY <1>1, <2>5
    <2>8. \A x \in Nodes : node'[x].parent # t
      <3>1. \A x \in Nodes : node[x].parent # t
        BY <2>2, <2>5, TreeAssumption DEF Trees, Grown
      <3>2. r.parent # t
        BY <2>3, <2>5, TreeAssumption DEF Planned, Grown
      <3> QED
        BY <2>6, <2>7, <3>1, <3>2
    <2>9. LimitedLevels'
      <3> SUFFICES ASSUME NEW s \in Lines(m + 1)' PROVE FALSE
        BY DEF LimitedLevels
      <3>1. s \in [1..m + 1 -> InState("live")'] /\ \A k \in 1..m : node'[s[k + 1]].parent = s[k]
        BY SomeLevels DEF Lines
      <3>2. \A k \in 1..m + 1 : s[k] \in Nodes /\ node'[s[k]].state = "live"
        BY <3>1 DEF InState
      <3>3. \A k \in 1..m : s[k] # t
        <4>1. \A k \in 1..m : k + 1 \in 1..m + 1
          BY SomeLevels
        <4> QED
          BY <2>8, <3>1, <3>2, <4>1
      <3>4. \A k \in 1..m : s[k] \in InState("live")
        <4>1. \A k \in 1..m : k \in 1..m + 1
          BY SomeLevels
        <4> QED
          BY <2>6, <3>2, <3>3, <4>1 DEF InState
      <3>5. \A k \in 1..m - 1 : node[s[k + 1]].parent = s[k]
        <4>1. \A k \in 1..m - 1 : k \in 1..m /\ k + 1 \in 1..m /\ k + 1 \in 1..m + 1
          BY SomeLevels
        <4> QED
          BY <2>6, <3>1, <3>2, <3>3, <4>1
      <3>6. m \in 1..m /\ m + 1 \in 1..m + 1 /\ 1 \in Nat /\ m - 1 + 1 = m
        BY SomeLevels
      <3>7. CASE s[m + 1] = t
        <4>1. s[m] = r.parent
          BY <2>7, <3>1, <3>6, <3>7
        <4>2. \E u \in Lines(m) : u[m] = s[m]
          <5>1. m \in Nat /\ 1 \in Nat /\ 1 <= 1 /\ 1 <= m /\ m - 1 + 1 = m
            BY SomeLevels
          <5> HIDE DEF m
          <5>3. Falls(s, 1, m)
            BY <3>4, <3>5 DEF Falls
          <5>2. \E u \in Lines(m - 1 + 1) : u[1] = s[1] /\ u[m - 1 + 1] = s[m]
            BY <5>1, <5>3, Segment
          <5> QED
            BY <5>1, <5>2
        <4>3. m <= b
          BY <2>4, <3>6, <4>1, <4>2, SomeLevels DEF AboveAtMost
        <4> QED
          BY <2>4, <4>3, SomeLevels
      <3>8. CASE s[m + 1] # t
        <4>1. s[m + 1] \in InState("live") /\ node[s[m + 1]].parent = s[m]
          BY <2>6, <3>1, <3>2, <3>6, <3>8 DEF InState
        <4>2. \A k \in 1..m + 1 : s[k] \in InState("live")
          <5>1. \A k \in 1..m + 1 : k \in 1..m \/ k = m + 1
            BY SomeLevels
          <5> QED
            BY <3>4, <4>1, <5>1
        <4>3. \A k \in 1..m : node[s[k + 1]].parent = s[k]
          <5>1. \A k \in 1..m : k \in 1..m - 1 \/ k = m
            BY SomeLevels
          <5> QED
            BY <3>5, <4>1, <5>1
        <4>4. s \in Lines(m + 1)
          BY <3>1, <4>2, <4>3, SomeLevels DEF Lines
        <4> QED
          BY <2>2, <4>4 DEF Leveled, LimitedLevels
      <3> QED
        BY <3>7, <3>8
    <2> QED
      BY <1>1, <1>2, <2>1, <2>9, LevelsAfterWrite
  <1> QED
    BY <1>3, <1>4

\* A placement joins a line to the parent and a line from the task; the children
\* of one that comes from another project stay behind.
LEMMA LevelsPlace ==
  ASSUME LevelsInv, NEW p \in Handlers, PlaceTask(p)
  PROVE  LevelsInv'
  <1> DEFINE r == plan[p]
             t == r.t
             home == IF r.sets THEN r.parent ELSE node[t].parent
             placed == [node[t] EXCEPT !.project = r.project, !.version = node[t].version + 1, !.parent = home]
             moves == node[t].project # r.project
             after == [n \in Nodes |-> IF n = t THEN placed
                                       ELSE IF moves /\ node[n].parent = t
                                       THEN [node[n] EXCEPT !.parent = NoNode] ELSE node[n]]
  <1>0. PICK m \in Nat : m = MaxLevels /\ m >= 1
    BY SomeLevels
  <1>1. /\ r.pc = "write" /\ t # NoNode /\ r \in TreePlan /\ t \in Nodes
        /\ plan' = [plan EXCEPT ![p] = PlanRest]
        /\ \/ UNCHANGED <<node, raced>>
           \/ node' = after /\ raced' = (raced \/ Checking(p))
        /\ regrown' = regrown
    BY DEF PlaceTask, PlanAt, EndPlan, LevelsInv, TreeInv, TreeRows, TreePlan
  <1>2. TreeInv'
    BY Places DEF LevelsInv
  <1>3. CASE UNCHANGED <<node, raced>>
    <2>1. \A q \in Handlers : plan'[q] = plan[q] \/ Traced(plan'[q])
      BY <1>1, RestTraced DEF LevelsInv, TreeInv, TreeRows
    <2>2. \A n : Lines(n)' = Lines(n)
      BY <1>3 DEF Lines, InState
    <2> QED
      BY <1>1, <1>2, <1>3, <2>1, <2>2, LinesShrink
  <1>4. CASE node' = after /\ raced' = (raced \/ Checking(p)) /\ (raced' \/ regrown')
    BY <1>1, <1>2, <1>4 DEF LevelsInv
  <1>5. CASE node' = after /\ raced' = (raced \/ Checking(p)) /\ ~raced' /\ ~regrown'
    <2>1. ~raced /\ ~regrown /\ ~Checking(p)
      BY <1>1, <1>5 DEF LevelsInv, TreeInv, TreeRows
    <2>2. Leveled /\ Trees /\ NoCycle'
      BY <1>2, <1>5, <2>1 DEF LevelsInv, TreeInv, Trees
    <2>3. Planned(r) /\ WriteTrace(r)
      BY <1>1, <2>2 DEF Leveled, Traced, Trees
    <2>4. PICK b \in 0..m - 1 : AboveAtMost(r, b) /\ (~moves => BelowAtMost(r, m - b))
      BY <1>0, <1>1, <2>3 DEF WriteTrace
    <2>5. node \in [Nodes -> TreeNode]
      BY DEF LevelsInv, TreeInv, TreeRows
    <2>6. node'[t].parent = r.parent /\ \A x \in Nodes : node'[x].state = node[x].state
      <3>1. home = r.parent
        BY <2>3 DEF Planned
      <3> HIDE DEF home
      <3>2. placed.parent = home /\ placed.state = node[t].state
        BY <1>1, <2>5 DEF TreeNode
      <3>3. \A x \in Nodes : [node[x] EXCEPT !.parent = NoNode].state = node[x].state
        BY <2>5 DEF TreeNode
      <3> HIDE DEF placed
      <3>4. node'[t] = placed
        BY <1>1, <1>5
      <3>5. \A x \in Nodes : (node'[x] = placed /\ x = t) \/ node'[x] = node[x] \/ node'[x] = [node[x] EXCEPT !.parent = NoNode]
        BY <1>5
      <3> QED
        BY <3>1, <3>2, <3>3, <3>4, <3>5
    <2>7. \A x \in Nodes : x # t => node'[x].parent = node[x].parent \/ node'[x].parent = NoNode
      <3>1. \A x \in Nodes : [node[x] EXCEPT !.parent = NoNode].parent = NoNode
        BY <2>5 DEF TreeNode
      <3> HIDE DEF placed
      <3>2. \A x \in Nodes : x # t => node'[x] = node[x] \/ node'[x] = [node[x] EXCEPT !.parent = NoNode]
        BY <1>5
      <3> QED
        BY <3>1, <3>2
    <2>8. ASSUME NEW x \in Nodes, x # t, moves PROVE node'[x].parent # t
      <3>1. [node[x] EXCEPT !.parent = NoNode].parent = NoNode
        BY <2>5 DEF TreeNode
      <3> HIDE DEF placed
      <3>2. node'[x] = IF node[x].parent = t THEN [node[x] EXCEPT !.parent = NoNode] ELSE node[x]
        BY <1>5, <2>8
      <3> QED
        BY <1>1, <3>1, <3>2
    <2> HIDE DEF after, placed, home
    <2>9. LimitedLevels'
      <3> SUFFICES ASSUME NEW s \in Lines(m + 1)' PROVE FALSE
        BY <1>0 DEF LimitedLevels
      <3>1. s \in [1..m + 1 -> InState("live")'] /\ \A k \in 1..m : node'[s[k + 1]].parent = s[k]
        BY <1>0 DEF Lines
      <3>2. \A k \in 1..m + 1 : s[k] \in Nodes /\ s[k] \in InState("live")
        BY <2>6, <3>1 DEF InState
      <3>3. \A k \in 1..m : k \in 1..m + 1 /\ k + 1 \in 1..m + 1
        BY <1>0
      <3>4. \A k \in 1..m : s[k + 1] # t => node[s[k + 1]].parent = s[k]
        BY <2>7, <3>1, <3>2, <3>3, SomeLevels
      <3>5. CASE \A k \in 1..m : s[k + 1] # t
        <4>1. s \in Lines(m + 1)
          BY <3>1, <3>2, <3>4, <3>5, <1>0 DEF Lines
        <4> QED
          BY <1>0, <2>2, <4>1 DEF Leveled, LimitedLevels
      <3>6. ASSUME NEW j \in 1..m + 1, s[j] = t PROVE FALSE
        <4>1. j \in Nat /\ 1 <= j /\ j <= m + 1 /\ m \in Nat /\ m >= 1
          BY <1>0
        <4>0. PICK par : par = [x \in Nodes |-> node'[x].parent]
          OBVIOUS
        <4>2. \A S \in SUBSET Nodes \ {{}} : ~ \A x \in S : par[x] \in S
          BY <2>2, <4>0 DEF NoCycle
        <4>3. \A k \in 1..m : par[s[k + 1]] = s[k]
          BY <3>1, <3>2, <3>3, <4>0
        <4>4. \A k \in 1..m + 1 : k # j => s[k] # t
          <5>1. PICK n \in Nat : n = m + 1 /\ n - 1 = m
            BY <4>1
          <5>4. Climbs(par, s, n) /\ Loopless(par)
            BY <3>2, <4>2, <4>3, <5>1 DEF Climbs, Loopless
          <5>5. \A i \in 1..n : \A k \in 1..n : i < k => s[i] # s[k]
            BY <5>4, NoReturn
          <5>6. \A i \in 1..m + 1 : \A k \in 1..m + 1 : i < k => s[i] # s[k]
            BY <5>1, <5>5
          <5>7. \A k \in 1..m + 1 : k # j => k < j \/ j < k
            BY <4>1
          <5> QED
            BY <3>6, <5>6, <5>7
        <4>5. \A k \in 1..m : k + 1 # j => node[s[k + 1]].parent = s[k]
          BY <3>3, <3>4, <4>4
        \* The line to the new parent.
        <4>6. j - 1 <= b
          <5>1. CASE j = 1
            BY <2>4, <5>1
          <5>2. CASE j # 1
            <6>1. j - 1 \in Nat /\ 1 <= j - 1 /\ 1 \in Nat /\ 1 <= 1 /\ j - 1 - 1 + 1 = j - 1 /\ j - 1 \in 1..m /\ (j - 1) + 1 = j
              BY <4>1, <5>2
            <6>2. \A k \in 1..j - 1 : s[k] \in InState("live")
              BY <3>2, <4>1
            <6>3. \A k \in 1..j - 1 - 1 : node[s[k + 1]].parent = s[k]
              BY <4>1, <4>5
            <6>6. Falls(s, 1, j - 1)
              BY <6>2, <6>3 DEF Falls
            <6>4. \E u \in Lines(j - 1 - 1 + 1) : u[1] = s[1] /\ u[j - 1 - 1 + 1] = s[j - 1]
              BY <6>1, <6>6, Segment
            <6>5. s[j - 1] = r.parent
              BY <2>6, <3>1, <3>6, <6>1
            <6> QED
              BY <2>4, <6>1, <6>4, <6>5 DEF AboveAtMost
          <5> QED
            BY <5>1, <5>2
        \* The line from the task.
        <4>7. ~moves => m - j + 2 <= m - b
          <5> SUFFICES ASSUME ~moves PROVE m + 1 - j + 1 <= m - b
            OBVIOUS
          <5>1. m + 1 \in Nat /\ 1 <= m + 1 - j + 1 /\ m + 1 - j + 1 \in Nat
            BY <4>1
          <5>2. \A k \in j..m + 1 : s[k] \in InState("live")
            BY <3>2, <4>1
          <5>3. \A k \in j..m + 1 - 1 : node[s[k + 1]].parent = s[k]
            BY <4>1, <4>5
          <5>5. PICK n \in Nat : n = m + 1 /\ j <= n
            BY <4>1
          <5>6. Falls(s, j, n)
            BY <5>2, <5>3, <5>5 DEF Falls
          <5>7. \E u \in Lines(n - j + 1) : u[1] = s[j] /\ u[n - j + 1] = s[n]
            BY <4>1, <5>5, <5>6, Segment
          <5>4. \E u \in Lines(m + 1 - j + 1) : u[1] = s[j]
            BY <5>5, <5>7
          <5> QED
            BY <2>4, <3>6, <5>1, <5>4 DEF BelowAtMost
        <4>8. moves => j = m + 1
          <5> SUFFICES ASSUME moves, j # m + 1 PROVE FALSE
            OBVIOUS
          <5>1. j \in 1..m /\ j + 1 \in 1..m + 1 /\ j + 1 # j
            BY <4>1
          <5>2. node'[s[j + 1]].parent = t
            BY <3>1, <3>6, <5>1
          <5>3. s[j + 1] # t /\ s[j + 1] \in Nodes
            BY <3>2, <4>4, <5>1
          <5> QED
            BY <2>8, <5>2, <5>3
        <4>9. b \in Nat /\ b <= m - 1
          BY <2>4, <4>1
        <4> QED
          BY <4>1, <4>6, <4>7, <4>8, <4>9
      <3>7. \A k \in 1..m : s[k + 1] # t
        BY <3>3, <3>6
      <3> QED
        BY <3>5, <3>7
    <2> QED
      BY <1>1, <1>2, <2>1, <2>9, LevelsAfterWrite
  <1> QED
    BY <1>1, <1>3, <1>4, <1>5

LEMMA LevelsSteps == LevelsInv /\ [TreeNext]_treeVars => LevelsInv'
  <1> SUFFICES ASSUME LevelsInv, [TreeNext]_treeVars PROVE LevelsInv'
    OBVIOUS
  <1>1. CASE UNCHANGED treeVars
    <2>1. UNCHANGED <<node, plan, raced, regrown>>
      BY <1>1 DEF treeVars
    <2>2. \A n : Lines(n)' = Lines(n)
      BY <2>1 DEF Lines, InState
    <2>3. TreeInv'
      <3>1. CASE raced
        BY <2>1, <3>1 DEF LevelsInv, TreeInv, TreeRows
      <3>2. CASE ~raced
        BY <2>1, <3>2, SameShape DEF LevelsInv, TreeInv, TreeRows
      <3> QED
        BY <3>1, <3>2
    <2> QED
      BY <2>1, <2>2, <2>3, LinesShrink
  <1>2. CASE TreeNext
    BY <1>2, LevelsBegin, LevelsWalk, LevelsInsert, LevelsPlace, LevelsBury DEF TreeNext
  <1> QED
    BY <1>1, <1>2

LEMMA LevelsSound == LevelsInv => HierarchySound
  BY DEF LevelsInv, TreeInv, Trees, Forest, HierarchySound, Leveled

\* Of any number of tasks, projects and levels: and as long as nothing deleted is
\* restored, no line of live tasks is longer than the hierarchy may be deep
\* (assertHierarchyReferences of tasks.service.ts), unless one placement was
\* written while another was being checked.
THEOREM HierarchyStaysSound == TreeSpec => []HierarchySound
  BY LevelsInitial, LevelsSteps, LevelsSound, PTL DEF TreeSpec

-----------------------------------------------------------------------------
(* ProjectMembers.  The row follows the roles unless a sync is still to come;  *)
(* what a handler has found of the roles holds as long as none has changed.    *)

DutyType == [pc : {"idle", "role", "remove", "sync", "save"}, u : Crew \cup {NoManager},
             to : ProjectRoles \cup {"none"}, best : Crew \cup {NoManager}, fresh : BOOLEAN]
CrewRows == /\ role \in [Crew -> ProjectRoles \cup {"none"}] /\ founder \in Crew
            /\ duty \in [Handlers -> DutyType] /\ adrift \in BOOLEAN /\ headless \in BOOLEAN
Syncing(p) == DutyAt(p, "sync") \/ DutyAt(p, "save")
Follows == adrift \/ (\E p \in Handlers : Syncing(p)) \/ lead \in Best(role)
\* It is another who goes on managing.
Spares(r) == role[r.u] = "manager" /\ r.to # "manager" => Managing(role) # {r.u}
Found(r) == /\ r.pc \in {"role", "remove"} => r.u \in Crew /\ (r.fresh => Spares(r))
            /\ r.pc = "save" /\ r.fresh => r.best \in Best(role)
CrewInv == CrewRows /\ Follows /\ SomebodyManages /\ \A p \in Handlers : Found(duty[p])

LEMMA DutyRestTyped == DutyRest \in DutyType /\ DutyRest.pc = "idle"
  BY DEF DutyRest, DutyType

LEMMA BestTyped == ASSUME NEW roles PROVE Best(roles) \subseteq Crew \cup {NoManager} /\ Best(roles) # {}
  BY DEF Best, With

LEMMA OwnerManages == ASSUME NEW u \in Crew, NEW roles, roles[u] \in {"owner", "manager"} PROVE u \in Managing(roles)
  BY DEF Managing, With

LEMMA CrewInitial == CrewInit => CrewInv
  <1> SUFFICES ASSUME CrewInit PROVE CrewInv
    OBVIOUS
  <1>1. CrewRows
    BY DutyRestTyped DEF CrewInit, CrewRows
  <1>2. \A p \in Handlers : Found(duty[p])
    BY DutyRestTyped DEF CrewInit, Found
  <1>3. SomebodyManages
    BY OwnerManages DEF CrewInit, SomebodyManages
  <1>4. Follows
    BY DEF CrewInit, Follows
  <1> QED
    BY <1>1, <1>2, <1>3, <1>4 DEF CrewInv

\* A handler moves on and leaves the roles alone.
LEMMA DutyMoves ==
  ASSUME CrewInv, NEW p \in Handlers, NEW r \in DutyType, duty' = [duty EXCEPT ![p] = r],
         UNCHANGED <<role, founder, headless>>, Found(r), adrift' \in BOOLEAN, Follows'
  PROVE  CrewInv'
  <1>1. CrewRows' /\ SomebodyManages'
    BY DEF CrewInv, CrewRows, SomebodyManages, Managing, With
  <1>2. ASSUME NEW q \in Handlers PROVE Found(duty[q])'
    <2>1. Found(duty'[q])
      BY DEF CrewInv, CrewRows
    <2> QED
      BY <2>1 DEF Found, Spares, Managing, Best, With
  <1> QED
    BY <1>1, <1>2 DEF CrewInv

LEMMA Assigns ==
  ASSUME CrewInv, NEW p \in Handlers, NEW new \in [Crew -> ProjectRoles \cup {"none"}],
         NEW pc \in {"idle", "sync"}, NEW checked \in BOOLEAN, Assign(p, new, pc, checked),
         checked => Managing(new) # {} \/ Managing(role) = {},
         adrift' \in BOOLEAN, adrift => adrift', pc = "idle" => ~Syncing(p) /\ (new = role \/ adrift')
  PROVE  CrewInv'
  <1> DEFINE at == [DutyRest EXCEPT !.pc = pc]
             other(q) == [duty[q] EXCEPT !.fresh = @ /\ new = role]
  <1>1. at \in DutyType /\ at.pc = pc /\ Found(at)'
    BY DutyRestTyped DEF DutyRest, DutyType, Found
  <1>2. \A q \in Handlers : /\ other(q) \in DutyType
                            /\ other(q).pc = duty[q].pc /\ other(q).u = duty[q].u /\ other(q).to = duty[q].to
                            /\ other(q).best = duty[q].best
                            /\ (other(q).fresh => duty[q].fresh /\ new = role)
    <2>1. SUFFICES ASSUME NEW d \in DutyType, NEW b \in BOOLEAN
                   PROVE  LET o == [d EXCEPT !.fresh = b]
                          IN  o \in DutyType /\ o.pc = d.pc /\ o.u = d.u /\ o.to = d.to /\ o.best = d.best /\ o.fresh = b
      BY DEF CrewInv, CrewRows, DutyType
    <2> QED
      BY DEF DutyType
  <1>3. /\ role' = new /\ UNCHANGED <<lead, founder>>
        /\ duty' = [q \in Handlers |-> IF q = p THEN at ELSE other(q)]
        /\ headless' = (headless \/ (~checked /\ Managing(role) # {} /\ Managing(new) = {}))
    BY DEF Assign
  <1> HIDE DEF at, other
  <1>4. CrewRows'
    BY <1>1, <1>2, <1>3 DEF CrewInv, CrewRows
  <1>5. SomebodyManages'
    BY <1>3 DEF CrewInv, SomebodyManages, Managing, With
  <1>6. ASSUME NEW q \in Handlers PROVE Found(duty[q])'
    <2>1. CASE q = p
      BY <1>1, <1>3, <2>1 DEF Found, Spares, Managing, Best, With
    <2>2. CASE q # p
      <3>1. duty'[q] = other(q) /\ Found(duty[q])
        BY <1>3, <2>2 DEF CrewInv
      <3>2. CASE other(q).fresh
        BY <1>2, <1>3, <3>1, <3>2 DEF Found, Spares, Managing, Best, With
      <3>3. CASE ~other(q).fresh
        BY <1>2, <1>3, <3>1, <3>3 DEF Found
      <3> QED
        BY <3>2, <3>3
    <2> QED
      BY <2>1, <2>2
  <1>7. Follows'
    <2>1. CASE pc = "sync"
      <3>1. duty'[p].pc = "sync"
        BY <1>1, <1>3, <2>1
      <3> QED
        BY <3>1 DEF Follows, Syncing, DutyAt
    <2>2. CASE pc = "idle"
      <3>1. CASE \E q \in Handlers : Syncing(q)
        <4>1. PICK q \in Handlers : Syncing(q) /\ q # p
          BY <2>2, <3>1
        <4>2. duty'[q].pc = duty[q].pc
          BY <1>2, <1>3, <4>1
        <4> QED
          BY <4>1, <4>2 DEF Follows, Syncing, DutyAt
      <3>2. CASE ~\E q \in Handlers : Syncing(q)
        <4>1. adrift \/ lead \in Best(role)
          BY <3>2 DEF CrewInv, Follows
        <4>2. CASE adrift'
          BY <4>2 DEF Follows
        <4>3. CASE ~adrift'
          BY <1>3, <2>2, <4>1, <4>3 DEF Follows, Best, With
        <4> QED
          BY <4>2, <4>3
      <3> QED
        BY <3>1, <3>2
    <2> QED
      BY <2>1, <2>2
  <1> QED
    BY <1>4, <1>5, <1>6, <1>7 DEF CrewInv

\* What a handler that decides reads of the roles.
LEMMA DutyReads ==
  ASSUME CrewInv, NEW p \in Handlers, UpdateMemberRole(p) \/ RemoveMember(p) \/ NameManager(p) \/ SyncRead(p)
  PROVE  CrewInv'
  <1>0. ASSUME NEW r \in DutyType, r.pc \in {"role", "remove"}, r.u \in Crew, Spares(r),
               duty' = [duty EXCEPT ![p] = r], DutyAt(p, "idle"),
               UNCHANGED <<role, lead, founder, adrift, headless>>
        PROVE  CrewInv'
    <2>1. Found(r)
      BY <1>0 DEF Found
    <2>2. \A q \in Handlers : Syncing(q) => Syncing(q)'
      BY <1>0 DEF Syncing, DutyAt, CrewInv, CrewRows
    <2>3. Follows'
      BY <1>0, <2>2 DEF CrewInv, Follows, Best, With
    <2> QED
      BY <1>0, <2>1, <2>3, DutyMoves DEF CrewInv, CrewRows
  <1>1. CASE UpdateMemberRole(p)
    <2>1. PICK u \in Crew, to \in ProjectRoles :
            /\ DutyAt(p, "idle")
            /\ ~(role[u] = "manager" /\ to # "manager" /\ Managing(role) = {u})
            /\ duty' = [duty EXCEPT ![p] = [DutyRest EXCEPT !.pc = "role", !.u = u, !.to = to, !.fresh = TRUE]]
            /\ UNCHANGED <<role, lead, founder, adrift, headless>>
      BY <1>1 DEF UpdateMemberRole, DutyBegins
    <2> DEFINE r == [DutyRest EXCEPT !.pc = "role", !.u = u, !.to = to, !.fresh = TRUE]
    <2>2. r \in DutyType /\ r.pc = "role" /\ r.u = u /\ r.to = to /\ duty' = [duty EXCEPT ![p] = r]
      BY <2>1, DutyRestTyped DEF DutyRest, DutyType
    <2> HIDE DEF r
    <2> QED
      BY <1>0, <2>1, <2>2 DEF Spares
  <1>4. CASE RemoveMember(p)
    <2>1. PICK u \in Crew :
            /\ DutyAt(p, "idle")
            /\ ~(role[u] = "manager" /\ Managing(role) = {u})
            /\ duty' = [duty EXCEPT ![p] = [DutyRest EXCEPT !.pc = "remove", !.u = u, !.fresh = TRUE]]
            /\ UNCHANGED <<role, lead, founder, adrift, headless>>
      BY <1>4 DEF RemoveMember, DutyBegins
    <2> DEFINE r == [DutyRest EXCEPT !.pc = "remove", !.u = u, !.fresh = TRUE]
    <2>2. r \in DutyType /\ r.pc = "remove" /\ r.u = u /\ duty' = [duty EXCEPT ![p] = r]
      BY <2>1, DutyRestTyped DEF DutyRest, DutyType
    <2> HIDE DEF r
    <2> QED
      BY <1>0, <2>1, <2>2 DEF Spares
  <1>2. CASE NameManager(p)
    <2> DEFINE r == [DutyRest EXCEPT !.pc = "sync"]
    <2>1. r \in DutyType /\ r.pc = "sync"
      BY DutyRestTyped DEF DutyRest, DutyType
    <2>2. duty' = [duty EXCEPT ![p] = r] /\ UNCHANGED <<role, founder, adrift, headless>>
      BY <1>2 DEF NameManager
    <2> HIDE DEF r
    <2>3. Found(r)
      BY <2>1 DEF Found
    <2>4. Follows'
      BY <2>1, <2>2 DEF Follows, Syncing, DutyAt, CrewInv, CrewRows
    <2> QED
      BY <2>1, <2>2, <2>3, <2>4, DutyMoves DEF CrewInv, CrewRows
  <1>3. CASE SyncRead(p)
    <2>1. PICK u \in Best(role) :
            /\ duty' = [duty EXCEPT ![p] = [DutyRest EXCEPT !.pc = "save", !.best = u, !.fresh = TRUE]]
            /\ UNCHANGED <<role, lead, founder, adrift, headless>>
      BY <1>3 DEF SyncRead
    <2> DEFINE r == [DutyRest EXCEPT !.pc = "save", !.best = u, !.fresh = TRUE]
    <2>2. u \in Crew \cup {NoManager}
      BY BestTyped
    <2>3. r \in DutyType /\ r.pc = "save" /\ r.best = u
      BY <2>2, DutyRestTyped DEF DutyRest, DutyType
    <2>4. duty' = [duty EXCEPT ![p] = r]
      BY <2>1
    <2> HIDE DEF r
    <2>5. Found(r)
      BY <2>1, <2>3 DEF Found
    <2>6. Follows'
      BY <2>3, <2>4 DEF Follows, Syncing, DutyAt, CrewInv, CrewRows
    <2> QED
      BY <2>1, <2>3, <2>4, <2>5, <2>6, DutyMoves DEF CrewInv, CrewRows
  <1> QED
    BY <1>1, <1>2, <1>3, <1>4

LEMMA DutyEnds ==
  ASSUME CrewInv, NEW p \in Handlers, SyncWrite(p) \/ DutyCrash(p) \/ (MemberWrite(p) /\ role[duty[p].u] = "none")
  PROVE  CrewInv'
  <1>1. duty' = [duty EXCEPT ![p] = DutyRest] /\ UNCHANGED <<role, founder, headless>>
    BY DEF SyncWrite, DutyCrash, MemberWrite
  <1>2. Found(DutyRest)
    BY DutyRestTyped DEF Found
  <1>3. \A q \in Handlers : q # p /\ Syncing(q) => Syncing(q)'
    BY <1>1 DEF Syncing, DutyAt, CrewInv, CrewRows
  <1>4. adrift' \in BOOLEAN /\ Follows'
    <2>1. CASE SyncWrite(p)
      <3>1. DutyAt(p, "save") /\ lead' = duty[p].best /\ adrift' = ~duty[p].fresh
        BY <2>1 DEF SyncWrite
      <3>2. duty[p].fresh => duty[p].best \in Best(role)
        BY <3>1 DEF CrewInv, Found, DutyAt
      <3>3. Best(role)' = Best(role)
        BY <1>1 DEF Best, With
      <3> QED
        BY <3>1, <3>2, <3>3 DEF Follows, CrewInv, CrewRows, DutyType
    <2>2. CASE DutyCrash(p)
      <3>1. adrift' = (adrift \/ Syncing(p)) /\ lead' = lead
        BY <2>2 DEF DutyCrash, Syncing
      <3> QED
        BY <1>1, <1>3, <3>1 DEF CrewInv, CrewRows, Follows, Best, With
    <2>3. CASE MemberWrite(p) /\ role[duty[p].u] = "none"
      <3>1. UNCHANGED <<lead, adrift>> /\ ~Syncing(p)
        BY <2>3 DEF MemberWrite, Syncing, DutyAt
      <3> QED
        BY <1>1, <1>3, <3>1 DEF CrewInv, CrewRows, Follows, Best, With
    <2> QED
      BY <2>1, <2>2, <2>3
  <1> QED
    BY <1>1, <1>2, <1>4, DutyRestTyped, DutyMoves

LEMMA DutyAssigns ==
  ASSUME CrewInv, NEW p \in Handlers,
         \/ AddMember(p) \/ ReplaceMembers(p) \/ UpdateVisibility(p)
         \/ MemberWrite(p) /\ role[duty[p].u] # "none"
  PROVE  CrewInv'
  <1>1. CASE AddMember(p)
    <2>1. PICK u \in Crew, r \in ProjectRoles : Assign(p, [role EXCEPT ![u] = r], "sync", FALSE) /\ UNCHANGED adrift
      BY <1>1 DEF AddMember
    <2>2. [role EXCEPT ![u] = r] \in [Crew -> ProjectRoles \cup {"none"}] /\ adrift \in BOOLEAN
      BY DEF CrewInv, CrewRows
    <2> DEFINE new == [role EXCEPT ![u] = r]
    <2> HIDE DEF new
    <2> QED
      BY <2>1, <2>2, Assigns DEF new
  <1>2. CASE ReplaceMembers(p)
    <2>1. PICK wanted \in [Crew -> ProjectRoles \cup {"none"}] :
            /\ Assign(p, IF With(wanted, "owner") # {} THEN wanted ELSE [wanted EXCEPT ![founder] = "owner"], "sync", TRUE)
            /\ UNCHANGED adrift
      BY <1>2 DEF ReplaceMembers
    <2> DEFINE new == IF With(wanted, "owner") # {} THEN wanted ELSE [wanted EXCEPT ![founder] = "owner"]
    <2>2. founder \in Crew /\ adrift \in BOOLEAN
      BY DEF CrewInv, CrewRows
    <2>3. new \in [Crew -> ProjectRoles \cup {"none"}]
      BY <2>2 DEF ProjectRoles
    <2>4. Managing(new) # {}
      BY <2>2 DEF Managing, With
    <2> HIDE DEF new
    <2> QED
      BY <2>1, <2>2, <2>3, <2>4, Assigns DEF new
  <1>3. CASE UpdateVisibility(p)
    <2> DEFINE new == [role EXCEPT ![founder] = "owner"]
    <2>1. DutyAt(p, "idle") /\ Assign(p, new, "idle", TRUE) /\ adrift' = (adrift \/ role' # role)
      BY <1>3 DEF UpdateVisibility, DutyBegins
    <2>2. founder \in Crew /\ adrift \in BOOLEAN /\ new \in [Crew -> ProjectRoles \cup {"none"}] /\ new[founder] = "owner"
      BY DEF CrewInv, CrewRows, ProjectRoles
    <2>3. role' = new
      BY <2>1 DEF Assign
    <2> HIDE DEF new
    <2>4. Managing(new) # {}
      BY <2>2, OwnerManages
    <2>5. ~Syncing(p)
      BY <2>1 DEF Syncing, DutyAt
    <2>6. adrift' \in BOOLEAN /\ (adrift => adrift') /\ (new = role \/ adrift')
      BY <2>1, <2>2, <2>3
    <2> QED
      BY <2>1, <2>2, <2>4, <2>5, <2>6, Assigns
  <1>4. CASE MemberWrite(p) /\ role[duty[p].u] # "none"
    <2> DEFINE u == duty[p].u
               to == duty[p].to
               new == [role EXCEPT ![u] = to]
               checked == duty[p].fresh /\ role[u] # "owner"
    <2>1. duty[p].pc \in {"role", "remove"} /\ Assign(p, new, "sync", checked) /\ UNCHANGED adrift
      BY <1>4 DEF MemberWrite, DutyAt
    <2>2. u \in Crew /\ to \in ProjectRoles \cup {"none"} /\ (duty[p].fresh => Spares(duty[p]))
      BY <2>1 DEF CrewInv, CrewRows, Found, DutyType
    <2>3. new \in [Crew -> ProjectRoles \cup {"none"}] /\ adrift \in BOOLEAN /\ checked \in BOOLEAN
      BY <2>2 DEF CrewInv, CrewRows, DutyType
    <2>4. ASSUME checked, Managing(role) # {} PROVE Managing(new) # {}
      <3>1. \A v \in Crew : v # u => new[v] = role[v]
        BY DEF CrewInv, CrewRows
      <3>2. CASE u \in Managing(role) /\ to # "manager"
        <4>1. role[u] = "manager"
          BY <2>4, <3>2 DEF Managing, With
        <4>2. PICK v \in Managing(role) : v # u
          BY <2>2, <2>4, <3>2, <4>1 DEF Spares
        <4>3. v \in Managing(new)
          BY <3>1, <4>2 DEF Managing, With
        <4> QED
          BY <4>3
      <3>3. CASE u \notin Managing(role)
        <4>1. PICK v \in Managing(role) : v # u
          BY <2>4, <3>3
        <4>2. v \in Managing(new)
          BY <3>1, <4>1 DEF Managing, With
        <4> QED
          BY <4>2
      <3>4. CASE to = "manager"
        <4>1. new[u] = "manager"
          BY <2>2, <3>4 DEF CrewInv, CrewRows
        <4> HIDE DEF new
        <4> QED
          BY <2>2, <4>1, OwnerManages
      <3> QED
        BY <3>2, <3>3, <3>4
    <2> HIDE DEF new, checked
    <2> QED
      BY <2>1, <2>3, <2>4, Assigns
  <1> QED
    BY <1>1, <1>2, <1>3, <1>4

LEMMA CrewSteps == CrewInv /\ [CrewNext]_<<crewVars, now, served>> => CrewInv'
  <1> SUFFICES ASSUME CrewInv, [CrewNext]_<<crewVars, now, served>> PROVE CrewInv'
    OBVIOUS
  <1>1. CASE UNCHANGED <<crewVars, now, served>>
    BY <1>1 DEF crewVars, CrewInv, CrewRows, Follows, Syncing, DutyAt, SomebodyManages, Found, Spares, Managing, Best, With
  <1>2. CASE CrewNext
    BY <1>2, DutyReads, DutyEnds, DutyAssigns DEF CrewNext
  <1> QED
    BY <1>1, <1>2

LEMMA CrewLed == CrewInv => ProjectIsLed
  BY DEF CrewInv, Follows, Syncing, DutyAt, ProjectIsLed, ManagerFollows

\* Of any crew and any number of requests at once: when every request about the
\* members has ended and no sync was disturbed, the row names whom syncManagerId
\* would name (projects.service.ts), and the last owner or manager goes
\* only by the ways that do not look.
THEOREM ProjectsAreLed == CrewSpec => []ProjectIsLed
  <1>1. CrewInit => CrewInv
    BY CrewInitial
  <1> QED
    BY <1>1, CrewSteps, CrewLed, PTL DEF CrewSpec

-----------------------------------------------------------------------------
(* TaskRisk.  What is kept needs no strengthening: who writes a level takes the *)
(* request off the task only for the rule and the manual level it has read.     *)

LEMMA RiskSteps == RiskRequestKept /\ [RiskNext]_<<riskVars, now, served>> => RiskRequestKept'
  <1> SUFFICES ASSUME RiskRequestKept, [RiskNext]_<<riskVars, now, served>> PROVE RiskRequestKept'
    OBVIOUS
  <1> DEFINE Keeps == UNCHANGED <<rule, manual, level, basis, overtaken>>
  <1>1. ASSUME Keeps, due' # "none" \/ (due' = due /\ (unasked => unasked'))
        PROVE  RiskRequestKept'
    <2>1. Assess(rule, basis, manual)' = Assess(rule, basis, manual)
      BY <1>1 DEF Assess, CalculatedLevel, Score, Weight
    <2> QED
      BY <1>1, <2>1 DEF RiskRequestKept
  <1>2. CASE \E p \in Handlers : WriteRisk(p)
    <2>1. PICK p \in Handlers : WriteRisk(p)
      BY <1>2
    <2> DEFINE r == risk[p]
    <2>2. /\ level' = Assess(r.rule, r.facts, r.manual) /\ basis' = r.facts
          /\ overtaken' = (r.rule # rule \/ r.manual # manual) /\ UNCHANGED <<rule, manual>>
      BY <2>1 DEF WriteRisk
    <2>3. ASSUME ~overtaken' PROVE level' = Assess(rule', basis', manual')
      BY <2>2, <2>3
    <2>4. Assess(rule, basis, manual)' = Assess(rule', basis', manual')
      BY DEF Assess, CalculatedLevel, Score, Weight
    <2> QED
      BY <2>3, <2>4 DEF RiskRequestKept
  <1>3. CASE \E p \in Handlers : SetManual(p)
    BY <1>3 DEF SetManual, RiskRequestKept
  <1>4. CASE \E p \in Handlers : UpsertRule(p)
    <2>1. PICK r \in Rules : /\ rule' = r /\ unasked' = (unasked \/ r # rule)
                             /\ UNCHANGED <<manual, level, due, basis, overtaken>>
      BY <1>4 DEF UpsertRule
    <2>2. CASE r = rule
      BY <1>1, <2>1, <2>2
    <2>3. CASE r # rule
      BY <2>1, <2>3 DEF RiskRequestKept
    <2> QED
      BY <2>2, <2>3
  <1>5. CASE \E p \in Handlers : AskForAll(p)
    BY <1>5 DEF AskForAll, RiskRequestKept
  <1>6. CASE \E p \in Handlers : ClaimDue(p)
    BY <1>6 DEF ClaimDue, RiskRequestKept
  <1>7. CASE \/ SituationChanges \/ LeaseRunsOut \/ UNCHANGED <<riskVars, now, served>>
             \/ \E p \in Handlers : GetRisk(p) \/ ReadTask(p) \/ NotifyEscalation(p) \/ RiskCrash(p)
    BY <1>1, <1>7 DEF SituationChanges, LeaseRunsOut, GetRisk, ReadTask, NotifyEscalation, RiskCrash, riskVars
  <1> QED
    BY <1>2, <1>3, <1>4, <1>5, <1>6, <1>7 DEF RiskNext

\* Of any rules, situations and handlers, with crashes anywhere: a recalculation
\* that was asked for (setManual, upsertRule, the first one) is not lost, except
\* as RiskRequestKept says.
THEOREM NoRequestForgotten == RiskSpec => []RiskRequestKept
  <1>1. RiskInit => RiskRequestKept
    BY DEF RiskInit, RiskRequestKept
  <1> QED
    BY <1>1, RiskSteps, PTL DEF RiskSpec

-----------------------------------------------------------------------------
(* ColumnRanks.  A task in the column has a rank; what a move has read of its   *)
(* neighbours are ranks, of other tasks than its own; a column numbered afresh  *)
(* has gaps.                                                                    *)

Neighbours == Cards \cup {NoCard}
RankedCard == [state : {"unborn", "here", "away"}, rank : Nat, version : Nat]
Orders == UNION {[S -> Nat] : S \in SUBSET Cards}
MoveType == [pc : {"idle", "create", "place", "renumber"}, card : Neighbours, version : Nat,
             before : Neighbours, after : Neighbours, beforeRank : Nat, afterRank : Nat, order : Orders]
Spaced(order) == \A c, d \in DOMAIN order :
    order[c] >= RankGap /\ (order[c] < order[d] => order[d] - order[c] >= RankGap)
MoveKnows(m) ==
    /\ m.pc # "idle" => m.card \in Cards
    /\ m.pc \in {"place", "renumber"} => /\ m.card \notin {m.before, m.after}
                                         /\ m.before = NoCard => m.beforeRank = 0
                                         /\ m.after = NoCard <=> m.afterRank = 0
    /\ m.pc = "renumber" => Spaced(m.order)
RankInv == /\ card \in [Cards -> RankedCard]
           /\ move \in [Handlers -> MoveType]
           /\ \A c \in Here : card[c].rank > 0
           /\ \A p \in Handlers : MoveKnows(move[p])

LEMMA RestKnows == MoveRest \in MoveType /\ MoveKnows(MoveRest) /\ MoveRest.pc = "idle"
  <1>1. [c \in {} |-> 0] \in [{} -> Nat] /\ {} \in SUBSET Cards
    OBVIOUS
  <1>2. [c \in {} |-> 0] \in Orders
    BY <1>1 DEF Orders
  <1> QED
    BY <1>2 DEF MoveRest, MoveType, MoveKnows, Neighbours

\* RankBetween: a rank between two others leaves room on both sides, one below a
\* rank is positive, one above it is larger; and it is exhausted only by a gap of one.
LEMMA BetweenIsBetween ==
  ASSUME NEW b \in Nat, NEW a \in Nat
  PROVE  /\ RankBetween(b, a) \in Nat
         /\ a = 0 => RankBetween(b, a) > b
         /\ b < a /\ RankBetween(b, a) # 0 => b < RankBetween(b, a) /\ RankBetween(b, a) < a
         /\ a - b >= 2 => RankBetween(b, a) # 0
  <1>1. RankGap \in Nat /\ RankGap >= 2
    BY CardAssumption
  <1>2. (b + a) \div 2 \in Nat
    BY SMT
  <1>3. a - b > 1 => b < (b + a) \div 2 /\ (b + a) \div 2 < a
    BY SMT
  <1> QED
    BY <1>1, <1>2, <1>3 DEF RankBetween

\* A finite set of tasks has one that ranks highest.
LEMMA HighestExists ==
  ASSUME NEW S, IsFiniteSet(S), S # {}, NEW rank \in [S -> Nat]
  PROVE  \E r \in {rank[d] : d \in S} : \A d \in S : rank[d] <= r
  <1> DEFINE Above(c) == {d \in S : rank[d] > rank[c]}
             Sets == {Above(c) : c \in S}
  <1>1. Sets \subseteq FiniteSubsetsOf(S) /\ Sets # {}
    <2>1. \A c \in S : Above(c) \subseteq S /\ IsFiniteSet(Above(c))
      BY FS_Subset
    <2>2. \A c \in S : Above(c) \in FiniteSubsetsOf(S)
      <3> HIDE DEF Above
      <3> QED
        BY <2>1 DEF FiniteSubsetsOf
    <2> HIDE DEF Above
    <2> QED
      BY <2>2
  <1>2. PICK A \in Sets : \A B \in Sets : <<B, A>> \notin StrictSubsetOrdering(S)
    <2> HIDE DEF Sets
    <2> QED
      BY <1>1, WFMin, FS_StrictSubsetOrderingWellFounded
  <1>3. PICK c \in S : A = Above(c)
    BY <1>2
  <1>4. ASSUME NEW d \in S, rank[d] > rank[c] PROVE FALSE
    <2>1. Above(d) \subseteq Above(c) /\ d \in Above(c) /\ d \notin Above(d)
      BY <1>4
    <2>2. <<Above(d), Above(c)>> \in StrictSubsetOrdering(S)
      BY <2>1 DEF StrictSubsetOrdering
    <2> QED
      BY <1>2, <1>3, <2>2
  <1>5. \A d \in S : rank[d] <= rank[c]
    BY <1>4
  <1> QED
    BY <1>5

\* Multiples of a gap are the gap apart.
LEMMA MultiplesSpaced ==
  ASSUME NEW k \in Nat, NEW l \in Nat, k > 0
  PROVE  /\ k * RankGap \in Nat /\ k * RankGap >= RankGap
         /\ k * RankGap < l * RankGap => l * RankGap - k * RankGap >= RankGap
  BY CardAssumption, SMT

\* A finite set that has c in it counts one at least.
LEMMA CountsOne ==
  ASSUME NEW S, IsFiniteSet(S), NEW T \in SUBSET S, NEW c \in T PROVE Cardinality(T) \in Nat /\ Cardinality(T) > 0
  <1>1. IsFiniteSet(T) /\ T # {}
    BY FS_Subset
  <1>2. Cardinality(T) \in Nat /\ Cardinality(T) # 0
    BY <1>1, FS_CardinalityType, FS_EmptySet
  <1> QED
    BY <1>2

\* A column that is numbered afresh has gaps.
LEMMA RenumberedSpaced ==
  ASSUME IsFiniteSet(Cards), RankInv PROVE Renumbered \in [Here -> Nat] /\ Spaced(Renumbered)
  <1> DEFINE Upto(c) == {d \in Here : Precedes(d, c)}
  <1>1. \A c \in Here : Cardinality(Upto(c)) \in Nat /\ Cardinality(Upto(c)) > 0
    <2> SUFFICES ASSUME NEW c \in Here PROVE Cardinality(Upto(c)) \in Nat /\ Cardinality(Upto(c)) > 0
      OBVIOUS
    <2>0. c \in Nat
      BY CardAssumption DEF Here
    <2>1. Precedes(c, c)
      BY <2>0 DEF Precedes
    <2>2. Upto(c) \in SUBSET Cards /\ c \in Upto(c)
      BY <2>1 DEF Here
    <2> HIDE DEF Upto
    <2> QED
      BY <2>2, CountsOne
  <1>2. Renumbered = [c \in Here |-> Cardinality(Upto(c)) * RankGap]
    BY DEF Renumbered
  <1> HIDE DEF Upto
  <1>3. Renumbered \in [Here -> Nat]
    BY <1>1, <1>2, MultiplesSpaced
  <1>4. Spaced(Renumbered)
    BY <1>1, <1>2, MultiplesSpaced DEF Spaced
  <1> QED
    BY <1>3, <1>4

LEMMA RankInitial == ASSUME IsFiniteSet(Cards) PROVE RankInit => RankInv
  <1> SUFFICES ASSUME RankInit PROVE RankInv
    OBVIOUS
  <1>1. PICK here \in SUBSET Cards : card =
          [c \in Cards |-> IF c \in here
            THEN [state |-> "here", rank |-> Cardinality({d \in here : d <= c}) * RankGap, version |-> 1]
            ELSE [state |-> "unborn", rank |-> 0, version |-> 0]]
    BY DEF RankInit
  <1> DEFINE upto(c) == Cardinality({d \in here : d <= c})
  <1>2. \A c \in here : upto(c) * RankGap \in Nat /\ upto(c) * RankGap > 0
    <2> SUFFICES ASSUME NEW c \in here PROVE upto(c) * RankGap \in Nat /\ upto(c) * RankGap > 0
      OBVIOUS
    <2>0. c \in Nat
      BY CardAssumption
    <2>1. {d \in here : d <= c} \in SUBSET Cards
      OBVIOUS
    <2>3. c \in {d \in here : d <= c}
      BY <2>0
    <2>2. upto(c) \in Nat /\ upto(c) > 0
      BY <2>1, <2>3, CountsOne
    <2> HIDE DEF upto
    <2> QED
      BY <2>2, MultiplesSpaced, CardAssumption
  <1>3. card = [c \in Cards |-> IF c \in here
            THEN [state |-> "here", rank |-> upto(c) * RankGap, version |-> 1]
            ELSE [state |-> "unborn", rank |-> 0, version |-> 0]]
    BY <1>1
  <1> HIDE DEF upto
  <1>4. card \in [Cards -> RankedCard] /\ \A c \in Here : card[c].rank > 0
    BY <1>2, <1>3 DEF RankedCard, Here
  <1>5. move \in [Handlers -> MoveType] /\ \A p \in Handlers : MoveKnows(move[p])
    BY RestKnows DEF RankInit
  <1> QED
    BY <1>4, <1>5 DEF RankInv

\* What one request is about to do becomes m, and the column is left alone.
LEMMA MovesOn ==
  ASSUME RankInv, NEW p \in Handlers, NEW m \in MoveType, MoveKnows(m),
         move' = [move EXCEPT ![p] = m], card' = card
  PROVE  RankInv'
  BY DEF RankInv, Here

\* A request ends, and leaves ranks in the column.
LEMMA MovesEnd ==
  ASSUME RankInv, NEW p \in Handlers, MoveEnds(p), card' \in [Cards -> RankedCard],
         \A c \in Cards : card'[c].state = "here" => card'[c].rank > 0
  PROVE  RankInv'
  <1>1. move' \in [Handlers -> MoveType] /\ \A q \in Handlers : MoveKnows(move'[q])
    BY RestKnows DEF RankInv, MoveEnds
  <1> QED
    BY <1>1 DEF RankInv, Here

\* A rank that is positive is put at the card of a move.
LEMMA PlaceRanks ==
  ASSUME RankInv, NEW p \in Handlers, MoveAt(p, "place"), NEW r \in Nat, r > 0
  PROVE  /\ Place(p, r) \in [Cards -> RankedCard]
         /\ \A c \in Cards : Place(p, r)[c].state = "here" => Place(p, r)[c].rank > 0
  <1> DEFINE c == move[p].card
             new == [state |-> "here", rank |-> r, version |-> card[c].version + 1]
  <1>1. c \in Cards /\ card[c] \in RankedCard
    BY DEF MoveAt, RankInv, MoveKnows
  <1>2. new \in RankedCard /\ new.rank = r
    BY <1>1 DEF RankedCard
  <1>3. Place(p, r) = card \/ Place(p, r) = [card EXCEPT ![c] = new]
    BY <1>1 DEF Place, RankInv
  <1> HIDE DEF c, new
  <1> QED
    BY <1>1, <1>2, <1>3 DEF RankInv, Here

LEMMA CreatesRanked == ASSUME RankInv, IsFiniteSet(Cards), NEW p \in Handlers, CreateRead(p) PROVE RankInv'
  <1> DEFINE last == IF Here = {} THEN 0
                     ELSE CHOOSE r \in {card[d].rank : d \in Here} : \A d \in Here : card[d].rank <= r
  <1>1. last \in Nat
    <2>1. CASE Here = {}
      BY <2>1
    <2>2. CASE Here # {}
      <3> DEFINE rank == [d \in Here |-> card[d].rank]
      <3>1. IsFiniteSet(Here) /\ rank \in [Here -> Nat]
        BY FS_Subset DEF Here, RankInv, RankedCard
      <3>2. \E r \in {rank[d] : d \in Here} : \A d \in Here : rank[d] <= r
        <4> HIDE DEF rank
        <4> QED
          BY <2>2, <3>1, HighestExists
      <3>3. \E r \in {card[d].rank : d \in Here} : \A d \in Here : card[d].rank <= r
        BY <3>2
      <3>4. last \in {card[d].rank : d \in Here}
        BY <2>2, <3>3
      <3>5. \A d \in Here : card[d].rank \in Nat
        BY DEF Here, RankInv, RankedCard
      <3> HIDE DEF last
      <3> QED
        BY <3>4, <3>5
    <2> QED
      BY <2>1, <2>2
  <1>2. PICK c \in Cards : move' = [move EXCEPT ![p] =
            [MoveRest EXCEPT !.pc = "create", !.card = c, !.beforeRank = last]] /\ card' = card
    BY DEF CreateRead
  <1> HIDE DEF last
  <1> DEFINE m == [MoveRest EXCEPT !.pc = "create", !.card = c, !.beforeRank = last]
  <1>3. m \in MoveType /\ m.pc = "create" /\ m.card = c
    BY <1>1, RestKnows DEF MoveType, Neighbours
  <1>4. MoveKnows(m)
    BY <1>3 DEF MoveKnows
  <1> HIDE DEF m
  <1>5. move' = [move EXCEPT ![p] = m] /\ card' = card
    BY <1>2 DEF m
  <1> QED
    BY <1>3, <1>4, <1>5, MovesOn

LEMMA InsertRanked == ASSUME RankInv, NEW p \in Handlers, CreateWrite(p) PROVE RankInv'
  <1> DEFINE c == move[p].card
             new == [state |-> "here", rank |-> NextRankAfter(move[p].beforeRank), version |-> 1]
  <1>1. c \in Cards /\ move[p].beforeRank \in Nat
    BY DEF CreateWrite, MoveAt, RankInv, MoveKnows, MoveType
  <1>2. new \in RankedCard /\ new.rank > 0
    BY <1>1, CardAssumption DEF NextRankAfter, RankedCard
  <1>3. card' = [card EXCEPT ![c] = new] /\ MoveEnds(p)
    BY DEF CreateWrite
  <1> HIDE DEF c, new
  <1>4. card' \in [Cards -> RankedCard] /\ \A d \in Cards : card'[d].state = "here" => card'[d].rank > 0
    BY <1>1, <1>2, <1>3 DEF RankInv, Here
  <1> QED
    BY <1>3, <1>4, MovesEnd

LEMMA LeavesTyped ==
  ASSUME NEW r \in RankedCard, NEW k \in Nat
  PROVE  LET new == [r EXCEPT !.state = "away", !.version = k] IN new \in RankedCard /\ new.state = "away"
  BY DEF RankedCard

\* What moveTask knows when it has read.
Placing(c, k, b, a, i, j) == [MoveRest EXCEPT !.pc = "place", !.card = c, !.version = k, !.before = b, !.after = a,
                                              !.beforeRank = i, !.afterRank = j]

LEMMA PlacingTyped ==
  ASSUME NEW c \in Cards, NEW k \in Nat, NEW b \in Neighbours, NEW a \in Neighbours, NEW i \in Nat, NEW j \in Nat,
         NEW m, m = Placing(c, k, b, a, i, j)
  PROVE  /\ m \in MoveType /\ m.pc = "place" /\ m.card = c
         /\ m.before = b /\ m.after = a /\ m.beforeRank = i /\ m.afterRank = j
  BY RestKnows DEF Placing, MoveType, Neighbours

LEMMA LeaveRanked == ASSUME RankInv, NEW p \in Handlers, Leave(p) PROVE RankInv'
  <1>1. PICK c \in Here : card' = [card EXCEPT ![c].state = "away", ![c].version = @ + 1] /\ move' = move
    BY DEF Leave
  <1>2. c \in Cards /\ card[c] \in RankedCard
    BY DEF Here, RankInv
  <1> DEFINE k == card[c].version + 1
             new == [card[c] EXCEPT !.state = "away", !.version = k]
  <1>6. k \in Nat
    BY <1>2 DEF RankedCard
  <1>3. new \in RankedCard /\ new.state = "away"
    <2> HIDE DEF k
    <2> QED
      BY <1>2, <1>6, LeavesTyped
  <1>4. card' = [card EXCEPT ![c] = new]
    BY <1>1, <1>2 DEF RankInv
  <1> HIDE DEF new
  <1>5. card' \in [Cards -> RankedCard] /\ \A d \in Cards : card'[d].state = "here" => card'[d].rank > 0
    BY <1>2, <1>3, <1>4 DEF RankInv, Here
  <1> QED
    BY <1>1, <1>5 DEF RankInv, Here

LEMMA MoveReadKnows == ASSUME RankInv, NEW p \in Handlers, MoveRead(p) PROVE RankInv'
  <1>1. PICK c \in Cards, b \in Here \cup {NoCard}, a \in Here \cup {NoCard} :
          /\ b # c /\ a # c
          /\ move' = [move EXCEPT ![p] = Placing(c, card[c].version, b, a, Neighbour(b), Neighbour(a))]
          /\ card' = card
    BY DEF MoveRead, Placing
  <1>2. \A n \in Here \cup {NoCard} : Neighbour(n) \in Nat /\ n \in Neighbours /\ (n = NoCard <=> Neighbour(n) = 0)
    BY CardAssumption DEF Neighbour, Here, Neighbours, RankInv, RankedCard
  <1>3. card[c].version \in Nat
    BY DEF RankInv, RankedCard
  <1> DEFINE m == Placing(c, card[c].version, b, a, Neighbour(b), Neighbour(a))
  <1>4. /\ m \in MoveType /\ m.pc = "place" /\ m.card = c
        /\ m.before = b /\ m.after = a /\ m.beforeRank = Neighbour(b) /\ m.afterRank = Neighbour(a)
    <2>1. b \in Neighbours /\ a \in Neighbours /\ Neighbour(b) \in Nat /\ Neighbour(a) \in Nat
      BY <1>2
    <2>2. m = Placing(c, card[c].version, b, a, Neighbour(b), Neighbour(a))
      OBVIOUS
    <2> HIDE DEF m
    <2> QED
      BY <1>3, <2>1, <2>2, PlacingTyped
  <1>5. move' = [move EXCEPT ![p] = m]
    BY <1>1
  <1> HIDE DEF m
  <1>6. MoveKnows(m)
    BY <1>1, <1>2, <1>4 DEF MoveKnows
  <1> QED
    BY <1>1, <1>4, <1>5, <1>6, MovesOn

LEMMA MoveWriteRanked == ASSUME RankInv, IsFiniteSet(Cards), NEW p \in Handlers, MoveWrite(p) PROVE RankInv'
  <1> DEFINE r == RankBetween(move[p].beforeRank, move[p].afterRank)
  <1>1. MoveAt(p, "place") /\ move[p] \in MoveType /\ MoveKnows(move[p])
    BY DEF MoveWrite, RankInv
  <1>2. r \in Nat
    BY <1>1, BetweenIsBetween DEF MoveType
  <1>3. CASE r # 0
    <2>1. card' = Place(p, r) /\ MoveEnds(p)
      BY <1>3 DEF MoveWrite
    <2> HIDE DEF r
    <2>2. card' \in [Cards -> RankedCard] /\ \A d \in Cards : card'[d].state = "here" => card'[d].rank > 0
      BY <1>1, <1>2, <1>3, <2>1, PlaceRanks
    <2> QED
      BY <2>1, <2>2, MovesEnd
  <1>4. CASE r = 0
    <2>1. move' = [move EXCEPT ![p].pc = "renumber", ![p].order = Renumbered] /\ card' = card
      BY <1>4 DEF MoveWrite
    <2>3. Renumbered \in [Here -> Nat] /\ Spaced(Renumbered) /\ Here \in SUBSET Cards
      BY RenumberedSpaced DEF Here
    <2>4. Renumbered \in Orders
      BY <2>3 DEF Orders
    <2> DEFINE m == [move[p] EXCEPT !.pc = "renumber", !.order = Renumbered]
    <2>5. /\ m \in MoveType /\ m.order = Renumbered /\ m.card = move[p].card
          /\ m.before = move[p].before /\ m.after = move[p].after
          /\ m.beforeRank = move[p].beforeRank /\ m.afterRank = move[p].afterRank /\ m.pc = "renumber"
      BY <1>1, <2>4 DEF MoveType
    <2>6. move' = [move EXCEPT ![p] = m]
      BY <2>1 DEF RankInv
    <2> HIDE DEF m
    <2>7. MoveKnows(m)
      BY <1>1, <2>3, <2>5 DEF MoveKnows, MoveAt
    <2> QED
      BY <2>1, <2>5, <2>6, <2>7, MovesOn
  <1> QED
    BY <1>3, <1>4

\* The order a transaction has read, and the ranks it leaves alone.
NewRank(m, c) == IF c \in DOMAIN m.order THEN m.order[c] ELSE card[c].rank
NewNeighbour(m, n) == IF n = NoCard THEN 0 ELSE NewRank(m, n)
Lands(m) == LET b == NewNeighbour(m, m.before)
                a == NewNeighbour(m, m.after)
            IN  IF RankBetween(b, a) = 0 THEN NextRankAfter(b) ELSE RankBetween(b, a)
Renumbers(m, c) == IF c = m.card THEN [state |-> "here", rank |-> Lands(m), version |-> m.version + 1]
                   ELSE [card[c] EXCEPT !.rank = NewRank(m, c)]

LEMMA RenumberWrites ==
  ASSUME NEW p \in Handlers, RenumberWrite(p)
  PROVE  /\ MoveAt(p, "renumber") /\ MoveEnds(p)
         /\ card' = IF card[move[p].card].version # move[p].version THEN card
                    ELSE [c \in Cards |-> Renumbers(move[p], c)]
  BY Zenon DEF RenumberWrite, Renumbers, Lands, NewNeighbour, NewRank

LEMMA NewRanksTyped ==
  ASSUME RankInv, NEW p \in Handlers, MoveAt(p, "renumber")
  PROVE  LET m == move[p]
         IN  /\ \A c \in Cards : NewRank(m, c) \in Nat /\ (card[c].state = "here" => NewRank(m, c) > 0)
             /\ NewNeighbour(m, m.before) \in Nat /\ NewNeighbour(m, m.after) \in Nat
             /\ Lands(m) \in Nat /\ Lands(m) > 0
  <1> DEFINE m == move[p]
  <1>1. m \in MoveType /\ MoveKnows(m) /\ m.pc = "renumber"
    BY DEF RankInv, MoveAt
  <1>2. PICK S \in SUBSET Cards : m.order \in [S -> Nat]
    BY <1>1 DEF MoveType, Orders
  <1>3. \A c \in S : m.order[c] \in Nat /\ m.order[c] > 0
    BY <1>1, <1>2, CardAssumption DEF MoveKnows, Spaced
  <1>4. \A c \in Cards : card[c].rank \in Nat /\ (card[c].state = "here" => card[c].rank > 0)
    BY DEF RankInv, RankedCard, Here
  <1>5. \A c \in Cards : NewRank(m, c) \in Nat /\ (card[c].state = "here" => NewRank(m, c) > 0)
    BY <1>2, <1>3, <1>4 DEF NewRank
  <1>6. m.before \in Cards \cup {NoCard} /\ m.after \in Cards \cup {NoCard}
    BY <1>1 DEF MoveType, Neighbours
  <1> HIDE DEF m
  <1>7. NewNeighbour(m, m.before) \in Nat /\ NewNeighbour(m, m.after) \in Nat
    BY <1>5, <1>6 DEF NewNeighbour
  <1>8. Lands(m) \in Nat /\ Lands(m) > 0
    <2> DEFINE b == NewNeighbour(m, m.before)
               a == NewNeighbour(m, m.after)
    <2>1. b \in Nat /\ a \in Nat
      BY <1>7
    <2>2. Lands(m) = IF RankBetween(b, a) = 0 THEN NextRankAfter(b) ELSE RankBetween(b, a)
      BY DEF Lands
    <2> HIDE DEF b, a
    <2>3. RankBetween(b, a) \in Nat /\ NextRankAfter(b) \in Nat /\ NextRankAfter(b) > 0
      BY <2>1, BetweenIsBetween, CardAssumption DEF NextRankAfter
    <2> QED
      BY <2>2, <2>3
  <1> QED
    BY <1>5, <1>7, <1>8 DEF m

LEMMA RenumberRanked == ASSUME RankInv, NEW p \in Handlers, RenumberWrite(p) PROVE RankInv'
  <1> DEFINE m == move[p]
  <1>1. MoveAt(p, "renumber") /\ MoveEnds(p)
    BY RenumberWrites
  <1>2. CASE card[m.card].version # m.version
    <2>1. card' = card
      BY <1>2, RenumberWrites
    <2> QED
      BY <1>1, <2>1, MovesEnd DEF RankInv, Here
  <1>3. CASE card[m.card].version = m.version
    <2>1. card' = [c \in Cards |-> Renumbers(m, c)]
      BY <1>3, RenumberWrites
    <2>2. m.version \in Nat
      BY DEF RankInv, MoveType
    <2>3. ASSUME NEW c \in Cards
          PROVE  Renumbers(m, c) \in RankedCard /\ (Renumbers(m, c).state = "here" => Renumbers(m, c).rank > 0)
      <3>1. card[c] \in RankedCard
        BY DEF RankInv
      <3>2. /\ NewRank(m, c) \in Nat /\ (card[c].state = "here" => NewRank(m, c) > 0)
            /\ Lands(m) \in Nat /\ Lands(m) > 0
        BY <1>1, NewRanksTyped
      <3> HIDE DEF m
      <3>3. CASE c = m.card
        BY <2>2, <3>2, <3>3 DEF Renumbers, RankedCard
      <3>4. CASE c # m.card
        BY <3>1, <3>2, <3>4 DEF Renumbers, RankedCard
      <3> QED
        BY <3>3, <3>4
    <2> HIDE DEF m
    <2>4. card' \in [Cards -> RankedCard] /\ \A c \in Cards : card'[c].state = "here" => card'[c].rank > 0
      BY <2>1, <2>3
    <2> QED
      BY <1>1, <2>4, MovesEnd
  <1> QED
    BY <1>2, <1>3

LEMMA RankSteps == ASSUME IsFiniteSet(Cards), RankInv, [RankNext]_<<rankVars, now, served>> PROVE RankInv'
  <1>1. CASE RankNext
    <2>1. PICK p \in Handlers :
            CreateRead(p) \/ CreateWrite(p) \/ Leave(p) \/ MoveRead(p) \/ MoveWrite(p) \/ RenumberWrite(p)
      BY <1>1 DEF RankNext
    <2> QED
      BY <2>1, CreatesRanked, InsertRanked, LeaveRanked, MoveReadKnows, MoveWriteRanked, RenumberRanked
  <1>2. CASE UNCHANGED <<rankVars, now, served>>
    BY <1>2 DEF rankVars, RankInv, Here
  <1> QED
    BY <1>1, <1>2

\* Who ends a move is its own handler.
LEMMA OnlyTheMover ==
  ASSUME RankInv, NEW p \in Handlers, move[p].pc \in {"place", "renumber"}, move'[p].pc = "idle", RankNext
  PROVE  MoveWrite(p) \/ RenumberWrite(p)
  <1>1. PICK q \in Handlers :
          CreateRead(q) \/ CreateWrite(q) \/ Leave(q) \/ MoveRead(q) \/ MoveWrite(q) \/ RenumberWrite(q)
    BY DEF RankNext
  <1>2. q = p
    BY <1>1 DEF CreateRead, CreateWrite, Leave, MoveRead, MoveWrite, RenumberWrite, MoveEnds, RankInv
  <1>3. ~(CreateRead(p) \/ CreateWrite(p) \/ MoveRead(p) \/ Leave(p))
    BY DEF CreateRead, CreateWrite, MoveRead, Leave, MoveBegins, MoveAt
  <1> QED
    BY <1>1, <1>2, <1>3

LEMMA PlaceLands ==
  ASSUME RankInv, NEW p \in Handlers, MoveWrite(p), move'[p].pc = "idle", Undisturbed(p),
         card'[move[p].card] # card[move[p].card]
  PROVE  /\ move[p].before # NoCard => card'[move[p].before].rank < card'[move[p].card].rank
         /\ move[p].after # NoCard => card'[move[p].card].rank < card'[move[p].after].rank
  <1> DEFINE m == move[p]
             r == RankBetween(m.beforeRank, m.afterRank)
  <1>1. m \in MoveType /\ MoveKnows(m) /\ m.pc = "place"
    BY DEF RankInv, MoveWrite, MoveAt
  <1>2. r # 0
    <2>1. ASSUME r = 0 PROVE FALSE
      <3>1. move' = [move EXCEPT ![p].pc = "renumber", ![p].order = Renumbered]
        BY <2>1 DEF MoveWrite
      <3> QED
        BY <1>1, <3>1 DEF RankInv, MoveType
    <2> QED
      BY <2>1
  <1>3. card' = Place(p, r)
    BY <1>2 DEF MoveWrite
  <1>4. m.card \in Cards /\ m.card # m.before /\ m.card # m.after /\ m.before \in Neighbours /\ m.after \in Neighbours
        /\ m.beforeRank \in Nat /\ m.afterRank \in Nat
        /\ (m.before = NoCard => m.beforeRank = 0) /\ (m.after = NoCard <=> m.afterRank = 0)
    BY <1>1 DEF MoveKnows, MoveType
  <1>5. card'[m.card].rank = r /\ \A c \in Cards : c # m.card => card'[c] = card[c]
    <2> HIDE DEF r
    <2>1. card[m.card].version = m.version
      BY <1>3 DEF Place
    <2> DEFINE new == [state |-> "here", rank |-> r, version |-> card[m.card].version + 1]
    <2>2. card' = [card EXCEPT ![m.card] = new] /\ new.rank = r
      BY <1>3, <2>1 DEF Place
    <2> HIDE DEF new
    <2> QED
      BY <1>4, <2>2 DEF RankInv
  <1>6. /\ m.before # NoCard => card'[m.before].rank = m.beforeRank
        /\ m.after # NoCard => card'[m.after].rank = m.afterRank
        /\ m.before # NoCard /\ m.after # NoCard => m.beforeRank < m.afterRank
    BY <1>4, <1>5 DEF Undisturbed, Neighbours
  <1>7. /\ m.afterRank = 0 => r > m.beforeRank
        /\ m.beforeRank < m.afterRank => m.beforeRank < r /\ r < m.afterRank
    BY <1>2, <1>4, BetweenIsBetween
  <1> HIDE DEF m, r
  <1>8. /\ m.before # NoCard => card'[m.before].rank < card'[m.card].rank
        /\ m.after # NoCard => card'[m.card].rank < card'[m.after].rank
    BY <1>4, <1>5, <1>6, <1>7
  <1> QED
    BY <1>8 DEF m

LEMMA RenumberLands ==
  ASSUME RankInv, NEW p \in Handlers, RenumberWrite(p), Undisturbed(p), card'[move[p].card] # card[move[p].card]
  PROVE  /\ move[p].before # NoCard => card'[move[p].before].rank < card'[move[p].card].rank
         /\ move[p].after # NoCard => card'[move[p].card].rank < card'[move[p].after].rank
  <1> DEFINE m == move[p]
             b == NewNeighbour(m, m.before)
             a == NewNeighbour(m, m.after)
  <1>1. m \in MoveType /\ MoveKnows(m) /\ m.pc = "renumber" /\ MoveAt(p, "renumber")
    BY RenumberWrites DEF RankInv, MoveAt
  <1>2. card' = [c \in Cards |-> Renumbers(m, c)]
    BY RenumberWrites
  <1>3. m.card \in Cards /\ m.card # m.before /\ m.card # m.after /\ m.before \in Neighbours /\ m.after \in Neighbours
    BY <1>1 DEF MoveKnows, MoveType
  <1>4. b \in Nat /\ a \in Nat /\ Spaced(m.order)
    BY <1>1, NewRanksTyped DEF MoveKnows
  <1>5. /\ {m.before, m.after} \ {NoCard} \subseteq DOMAIN m.order
        /\ m.before # NoCard /\ m.after # NoCard => m.order[m.before] < m.order[m.after]
    BY <1>1 DEF Undisturbed
  <1>6. /\ \A c \in Cards : card[c] \in RankedCard
        /\ \A c \in DOMAIN m.order : m.order[c] \in Nat
    <2>1. PICK S \in SUBSET Cards : m.order \in [S -> Nat]
      BY <1>1 DEF MoveType, Orders
    <2> QED
      BY <2>1 DEF RankInv
  <1> HIDE DEF m
  <1>7. \A c \in Cards : c # m.card => card'[c].rank = NewRank(m, c)
    BY <1>2, <1>6 DEF Renumbers, RankedCard
  <1>8. card'[m.card].rank = Lands(m)
    BY <1>2, <1>3 DEF Renumbers
  <1>9. /\ m.before # NoCard => b = m.order[m.before] /\ card'[m.before].rank = b
        /\ m.after # NoCard => a = m.order[m.after] /\ card'[m.after].rank = a
        /\ m.before = NoCard => b = 0
        /\ m.after = NoCard => a = 0
    BY <1>3, <1>5, <1>7 DEF NewNeighbour, NewRank, Neighbours
  <1>10. m.after # NoCard => a - b >= RankGap
    <2>1. CASE m.before = NoCard
      BY <1>4, <1>5, <1>9, <2>1 DEF Spaced
    <2>2. CASE m.before # NoCard
      BY <1>4, <1>5, <1>9, <2>2 DEF Spaced
    <2> QED
      BY <2>1, <2>2
  <1>11. Lands(m) = IF RankBetween(b, a) = 0 THEN NextRankAfter(b) ELSE RankBetween(b, a)
    BY DEF Lands
  <1> HIDE DEF b, a
  <1>12. m.after # NoCard => b < Lands(m) /\ Lands(m) < a
    <2>1. m.after # NoCard => b < a /\ RankBetween(b, a) # 0
      BY <1>4, <1>10, BetweenIsBetween, CardAssumption
    <2> QED
      BY <1>4, <1>11, <2>1, BetweenIsBetween
  <1>13. m.after = NoCard => b < Lands(m)
    <2>1. m.after = NoCard => RankBetween(b, a) > b /\ RankBetween(b, a) \in Nat
      BY <1>4, <1>9, BetweenIsBetween
    <2> QED
      BY <1>4, <1>11, <2>1
  <1>14. /\ m.before # NoCard => card'[m.before].rank < card'[m.card].rank
         /\ m.after # NoCard => card'[m.card].rank < card'[m.after].rank
    BY <1>8, <1>9, <1>12, <1>13
  <1> QED
    BY <1>14 DEF m

LEMMA LandsStep ==
  ASSUME RankInv, [RankNext]_<<rankVars, now, served>>, NEW p \in Handlers,
         move[p].pc \in {"place", "renumber"}, Undisturbed(p), move'[p].pc = "idle",
         card'[move[p].card] # card[move[p].card]
  PROVE  /\ move[p].before # NoCard => card'[move[p].before].rank < card'[move[p].card].rank
         /\ move[p].after # NoCard => card'[move[p].card].rank < card'[move[p].after].rank
  <1>1. RankNext
    BY DEF rankVars
  <1> QED
    BY <1>1, OnlyTheMover, PlaceLands, RenumberLands

\* A move of a task on the board (moveTask, and rebalanceColumn when the gap is
\* used up) puts it strictly between the neighbours the client named, for every
\* RANK_GAP of two or more, any number of tasks and of requests under way, as
\* long as nobody moved a neighbour between the read and the write.
THEOREM MovesLandBetween == ASSUME IsFiniteSet(Cards) PROVE RankSpec => LandsBetween
  <1>1. RankInit => RankInv
    BY RankInitial
  <1>2. RankInv /\ [RankNext]_<<rankVars, now, served>> => RankInv'
    BY RankSteps
  <1>3. RankInv /\ [RankNext]_<<rankVars, now, served>> =>
          [\A p \in Handlers : LET m == move[p] IN
             m.pc \in {"place", "renumber"} /\ Undisturbed(p)
             /\ move'[p].pc = "idle" /\ card'[m.card] # card[m.card]
               => /\ m.before # NoCard => card'[m.before].rank < card'[m.card].rank
                  /\ m.after # NoCard => card'[m.card].rank < card'[m.after].rank]_rankVars
    BY LandsStep
  <1> QED
    BY <1>1, <1>2, <1>3, PTL DEF RankSpec, LandsBetween

-----------------------------------------------------------------------------
(* BusinessTime.  A day of a calendar is an interval of hours, and its working   *)
(* hours are one within it; between two instants of a day they are counted by a  *)
(* difference.  Days add up, as the loops of the three functions have it.         *)

LEMMA EndIsNat == End \in Nat
  <1>1. DayLength \in Nat /\ LastDay + 1 \in Nat
    BY CalendarAssumption
  <1>2. (LastDay + 1) * DayLength \in Nat
    BY <1>1
  <1> QED
    BY <1>2 DEF End, Midnight

LEMMA Midnights ==
  ASSUME NEW d \in Int, NEW e \in Int
  PROVE  /\ Midnight(d) \in Int /\ Midnight(0) = 0
         /\ Midnight(d + 1) = Midnight(d) + DayLength /\ Midnight(d) <= Midnight(d + 1)
         /\ d <= e => Midnight(d) <= Midnight(e)
         /\ d < e => Midnight(d + 1) <= Midnight(e)
  <1>1. DayLength \in Nat \ {0}
    BY CalendarAssumption
  <1>2. \A a, b \in Int : a <= b => a * DayLength <= b * DayLength
    <2> SUFFICES ASSUME NEW a \in Int, NEW b \in Int, a <= b PROVE a * DayLength <= b * DayLength
      OBVIOUS
    <2>1. b - a \in Nat /\ (b - a) * DayLength \in Nat
      BY <1>1
    <2>2. (b - a) * DayLength = b * DayLength - a * DayLength
      BY <1>1
    <2>3. a * DayLength \in Int /\ b * DayLength \in Int
      BY <1>1
    <2> QED
      BY <2>1, <2>2, <2>3
  <1>3. d * DayLength \in Int /\ (d + 1) * DayLength = d * DayLength + DayLength /\ 0 * DayLength = 0
    BY <1>1
  <1>4. d < e => d + 1 <= e
    OBVIOUS
  <1> QED
    BY <1>2, <1>3, <1>4 DEF Midnight

LEMMA DayOf ==
  ASSUME NEW t \in Int
  PROVE  /\ Day(t) \in Int /\ t % DayLength \in Int
         /\ Midnight(Day(t)) <= t /\ t < Midnight(Day(t) + 1)
         /\ t = Midnight(Day(t)) + (t % DayLength)
  <1>1. DayLength \in Nat \ {0}
    BY CalendarAssumption
  <1>2. t \div DayLength \in Int /\ t % DayLength \in 0..DayLength - 1
    BY <1>1
  <1>3. t % DayLength = t - (t \div DayLength) * DayLength /\ (t \div DayLength) * DayLength \in Int
    BY <1>1
  <1>4. PICK hour \in 0..DayLength - 1, start \in Int : hour = t % DayLength /\ start = (t \div DayLength) * DayLength
    BY <1>2, <1>3
  <1>5. hour = t - start
    BY <1>3, <1>4
  <1>6. Day(t) \in Int /\ Midnight(Day(t)) = start
    BY <1>2, <1>4 DEF Day, Midnight
  <1>7. Midnight(Day(t) + 1) = Midnight(Day(t)) + DayLength
    BY <1>6, Midnights
  <1>8. Midnight(Day(t)) <= t /\ t < Midnight(Day(t) + 1) /\ t = Midnight(Day(t)) + hour
    BY <1>1, <1>5, <1>6, <1>7
  <1> QED
    BY <1>4, <1>6, <1>8

LEMMA InItsDay ==
  ASSUME NEW t \in Int
  PROVE  Later(t, Midnight(Day(t))) = t /\ Earlier(t, Midnight(Day(t) + 1)) = t
  <1>1. Day(t) \in Int /\ Midnight(Day(t)) <= t /\ t < Midnight(Day(t) + 1)
    BY DayOf
  <1>2. Midnight(Day(t)) \in Int /\ Midnight(Day(t) + 1) \in Int
    BY <1>1, Midnights
  <1> QED
    BY <1>1, <1>2 DEF Later, Earlier

LEMMA DayIs ==
  ASSUME NEW t \in Int, NEW d \in Int, Midnight(d) <= t, t < Midnight(d + 1)
  PROVE  Day(t) = d
  <1>1. Day(t) \in Int /\ Midnight(Day(t)) <= t /\ t < Midnight(Day(t) + 1)
    BY DayOf
  <1>2. Midnight(d) \in Int /\ Midnight(d + 1) \in Int /\ Midnight(Day(t)) \in Int /\ Midnight(Day(t) + 1) \in Int
    BY <1>1, Midnights
  <1>3. ~ d < Day(t)
    BY <1>1, <1>2, Midnights
  <1>4. ~ Day(t) < d
    BY <1>1, <1>2, Midnights
  <1> QED
    BY <1>1, <1>3, <1>4

LEMMA DaysOfTheModel == ASSUME NEW t \in 0..End - 1 PROVE Day(t) \in 0..LastDay
  <1>1. t \in Int /\ Day(t) \in Int /\ Midnight(Day(t)) <= t /\ t < Midnight(Day(t) + 1)
    BY EndIsNat, DayOf
  <1>2. LastDay \in Nat /\ End = Midnight(LastDay + 1)
    BY CalendarAssumption DEF End
  <1>3. /\ Midnight(0) = 0 /\ Midnight(Day(t)) \in Int /\ Midnight(Day(t) + 1) \in Int
        /\ Day(t) + 1 <= 0 => Midnight(Day(t) + 1) <= Midnight(0)
        /\ LastDay + 1 <= Day(t) => Midnight(LastDay + 1) <= Midnight(Day(t))
    <2>1. Day(t) + 1 \in Int /\ LastDay + 1 \in Int /\ 0 \in Int
      BY <1>1, <1>2
    <2> HIDE DEF Midnight, Day
    <2> QED
      BY <1>1, <2>1, Midnights, Zenon
  <1>4. ~ Day(t) + 1 <= 0
    BY <1>1, <1>3, EndIsNat
  <1>5. ~ LastDay + 1 <= Day(t)
    <2>1. End \in Nat /\ t < End
      BY EndIsNat
    <2> QED
      BY <1>1, <1>2, <1>3, <2>1
  <1> QED
    BY <1>1, <1>2, <1>4, <1>5

\* On a working day of a calendar that closes before midnight, the window of the
\* day is the one declared.
LEMMA WindowOfDay ==
  ASSUME NEW c \in Calendars, ClosesByNight(c), NEW d \in Int
  PROVE  /\ Opens(c, d) \in Int /\ Closes(c, d) \in Int /\ WorkingDay(c, d) \in BOOLEAN
         /\ Window(c, d).start \in Int /\ Window(c, d).end \in Int
         /\ WorkingDay(c, d) => /\ Opens(c, d) = Midnight(d) + Window(c, d).start
                                /\ Closes(c, d) = Midnight(d) + Window(c, d).end
                                /\ Midnight(d) <= Opens(c, d) /\ Opens(c, d) < Closes(c, d)
                                /\ Closes(c, d) < Midnight(d + 1)
  <1>1. PICK last \in 0..6 : c \in [0..last -> [start : 0..DayLength, end : 0..DayLength]]
    BY CalendarAssumption
  <1>2. Cardinality(DOMAIN c) = last + 1
    BY <1>1, FS_Interval
  <1>3. d % (last + 1) \in 0..last
    BY <1>1
  <1>4. /\ Window(c, d) \in [start : 0..DayLength, end : 0..DayLength]
        /\ Window(c, d).end < DayLength
    BY <1>1, <1>2, <1>3 DEF Window, ClosesByNight
  <1>5. /\ DayLength \in Nat /\ Window(c, d).start \in 0..DayLength /\ Window(c, d).end \in 0..DayLength
        /\ Midnight(d) \in Int /\ Midnight(d + 1) = Midnight(d) + DayLength
    BY <1>4, CalendarAssumption, Midnights
  <1> HIDE DEF Window
  <1> QED
    BY <1>4, <1>5 DEF Opens, Closes, AtHour, WorkingDay

\* The working hours of a day are those of its window.
LEMMA HoursOfDay ==
  ASSUME NEW c \in Calendars, ClosesByNight(c), NEW d \in 0..LastDay,
         NEW t \in Int, Midnight(d) <= t, t < Midnight(d + 1)
  PROVE  t \in Working(c) <=> WorkingDay(c, d) /\ Opens(c, d) <= t /\ t < Closes(c, d)
  <1>1. d \in Int /\ LastDay \in Nat
    BY CalendarAssumption
  <1>2. Day(t) = d
    BY <1>1, DayIs
  <1>3. t % DayLength \in Int /\ t = Midnight(d) + (t % DayLength)
    BY <1>2, DayOf
  <1>4. t \in 0..End - 1
    <2>1. Midnight(0) = 0 /\ Midnight(0) <= Midnight(d) /\ Midnight(d + 1) <= Midnight(LastDay + 1)
      BY <1>1, Midnights
    <2>2. Midnight(d) \in Int /\ Midnight(d + 1) \in Int
      BY <1>1, Midnights
    <2> QED
      BY <2>1, <2>2, EndIsNat DEF End
  <1>5. t \in Working(c) <=> t % DayLength \in Window(c, d).start..Window(c, d).end - 1
    BY <1>2, <1>4 DEF Working
  <1>6. /\ Midnight(d) \in Int /\ Window(c, d).start \in Int /\ Window(c, d).end \in Int
        /\ WorkingDay(c, d) => /\ Opens(c, d) = Midnight(d) + Window(c, d).start
                               /\ Closes(c, d) = Midnight(d) + Window(c, d).end
    BY <1>1, WindowOfDay, Midnights
  <1>7. WorkingDay(c, d) <=> Window(c, d).end > Window(c, d).start
    BY DEF WorkingDay
  <1>8. PICK hour \in Int : hour = t % DayLength
    BY <1>3
  <1>9. t = Midnight(d) + hour /\ (t \in Working(c) <=> hour \in Window(c, d).start..Window(c, d).end - 1)
    BY <1>3, <1>5, <1>8
  <1> HIDE DEF Window, WorkingDay
  <1>10. CASE WorkingDay(c, d)
    BY <1>6, <1>9, <1>10
  <1>11. CASE ~WorkingDay(c, d)
    BY <1>6, <1>7, <1>9, <1>11
  <1> QED
    BY <1>10, <1>11

WorkedHours(c, t, u) == {x \in Working(c) : t <= x /\ x < u}

LEMMA WorkedHoursFinite ==
  ASSUME NEW c, NEW t, NEW u
  PROVE  /\ WorkedHours(c, t, u) \subseteq 0..End - 1 /\ IsFiniteSet(WorkedHours(c, t, u))
         /\ Worked(c, t, u) = Cardinality(WorkedHours(c, t, u)) /\ Worked(c, t, u) \in Nat
  <1>1. WorkedHours(c, t, u) \subseteq 0..End - 1
    BY DEF WorkedHours, Working
  <1>2. IsFiniteSet(0..End - 1)
    BY EndIsNat, FS_Interval
  <1>3. IsFiniteSet(WorkedHours(c, t, u))
    BY <1>1, <1>2, FS_Subset
  <1>4. Cardinality(WorkedHours(c, t, u)) \in Nat
    BY <1>3, FS_CardinalityType
  <1> QED
    BY <1>1, <1>3, <1>4 DEF Worked, WorkedHours

LEMMA NoneWorked == ASSUME NEW c, NEW t \in Int, NEW u \in Int, u <= t PROVE Worked(c, t, u) = 0
  <1>1. WorkedHours(c, t, u) \subseteq 0..End - 1
    BY WorkedHoursFinite
  <1>2. WorkedHours(c, t, u) = {}
    BY <1>1, EndIsNat DEF WorkedHours
  <1> QED
    BY <1>2, WorkedHoursFinite, FS_EmptySet

\* The hour at t is worked, or it is not.
LEMMA HourWorked ==
  ASSUME NEW c, NEW t \in Int, NEW u \in Int, t < u
  PROVE  Worked(c, t, u) = Worked(c, t + 1, u) + (IF t \in Working(c) THEN 1 ELSE 0)
  <1> DEFINE after == WorkedHours(c, t + 1, u)
  <1>1. \A x \in Working(c) : x \in Int
    BY EndIsNat DEF Working
  <1>2. WorkedHours(c, t, u) = IF t \in Working(c) THEN after \cup {t} ELSE after
    BY <1>1 DEF WorkedHours
  <1>3. t \notin after /\ IsFiniteSet(after) /\ Cardinality(after) \in Nat
    <2>1. t \notin after
      BY DEF WorkedHours
    <2>2. IsFiniteSet(after)
      BY WorkedHoursFinite
    <2> QED
      BY <2>1, <2>2, FS_CardinalityType
  <1>4. Worked(c, t, u) = Cardinality(WorkedHours(c, t, u)) /\ Worked(c, t + 1, u) = Cardinality(after)
    BY WorkedHoursFinite
  <1>5. Cardinality(after \cup {t}) = Cardinality(after) + 1
    BY <1>3, FS_AddElement
  <1> HIDE DEF after
  <1>6. CASE t \in Working(c)
    BY <1>2, <1>3, <1>4, <1>5, <1>6
  <1>7. CASE t \notin Working(c)
    BY <1>2, <1>3, <1>4, <1>7
  <1> QED
    BY <1>6, <1>7

\* Working hours add up.
LEMMA Splits ==
  ASSUME NEW c, NEW a \in Int, NEW b \in Int, NEW e \in Int, a <= b, b <= e
  PROVE  Worked(c, a, e) = Worked(c, a, b) + Worked(c, b, e)
  <1>1. \A x \in Working(c) : x \in Int
    BY EndIsNat DEF Working
  <1>2. /\ WorkedHours(c, a, e) = WorkedHours(c, a, b) \cup WorkedHours(c, b, e)
        /\ WorkedHours(c, a, b) \cap WorkedHours(c, b, e) = {}
    BY <1>1 DEF WorkedHours
  <1>3. IsFiniteSet(WorkedHours(c, a, b)) /\ IsFiniteSet(WorkedHours(c, b, e))
    BY WorkedHoursFinite
  <1>4. Cardinality(WorkedHours(c, a, e)) = Cardinality(WorkedHours(c, a, b)) + Cardinality(WorkedHours(c, b, e))
    <2>1. Cardinality({}) = 0
      BY FS_EmptySet
    <2>2. Cardinality(WorkedHours(c, a, b)) \in Nat /\ Cardinality(WorkedHours(c, b, e)) \in Nat
      BY <1>3, FS_CardinalityType
    <2>3. Cardinality(WorkedHours(c, a, b) \cup WorkedHours(c, b, e))
            = Cardinality(WorkedHours(c, a, b)) + Cardinality(WorkedHours(c, b, e))
                - Cardinality(WorkedHours(c, a, b) \cap WorkedHours(c, b, e))
      BY <1>3, FS_Union
    <2>4. Cardinality(WorkedHours(c, a, e)) = Cardinality(WorkedHours(c, a, b)) + Cardinality(WorkedHours(c, b, e)) - 0
      BY <1>2, <2>1, <2>3, Zenon
    <2> QED
      BY <2>2, <2>4
  <1> QED
    BY <1>4, WorkedHoursFinite

\* Within a day, the hours worked are a difference.
LEMMA DayCount ==
  ASSUME NEW c \in Calendars, ClosesByNight(c), NEW d \in 0..LastDay,
         NEW a \in Int, NEW b \in Int, Midnight(d) <= a, b <= Midnight(d + 1)
  PROVE  Worked(c, a, b) = IF WorkingDay(c, d) THEN Later(0, Earlier(b, Closes(c, d)) - Later(a, Opens(c, d))) ELSE 0
  <1>1. d \in Int
    OBVIOUS
  <1>2. /\ Midnight(d) \in Int /\ Midnight(d + 1) \in Int /\ Opens(c, d) \in Int /\ Closes(c, d) \in Int
    BY <1>1, WindowOfDay, Midnights
  <1> DEFINE from == Later(a, Opens(c, d))
             to == Earlier(b, Closes(c, d))
  <1>3. from \in Int /\ to \in Int /\ a <= from /\ to <= b
    BY <1>2 DEF Later, Earlier
  <1>4. \A x \in Working(c) : x \in Int
    BY EndIsNat DEF Working
  <1>5. CASE WorkingDay(c, d)
    <2>1. WorkedHours(c, a, b) \subseteq from..to - 1
      <3> SUFFICES ASSUME NEW x \in Working(c), a <= x, x < b PROVE x \in from..to - 1
        BY DEF WorkedHours
      <3>1. x \in Int /\ Midnight(d) <= x /\ x < Midnight(d + 1)
        BY <1>2, <1>4
      <3>2. Opens(c, d) <= x /\ x < Closes(c, d)
        BY <3>1, HoursOfDay
      <3> QED
        BY <1>2, <3>1, <3>2 DEF Later, Earlier
    <2>2. from..to - 1 \subseteq WorkedHours(c, a, b)
      <3> SUFFICES ASSUME NEW x \in from..to - 1 PROVE x \in Working(c) /\ a <= x /\ x < b
        BY DEF WorkedHours
      <3>1. x \in Int /\ from <= x /\ x < to
        BY <1>3
      <3>2. a <= x /\ x < b /\ Opens(c, d) <= x /\ x < Closes(c, d)
        BY <1>2, <3>1 DEF Later, Earlier
      <3>3. Midnight(d) <= x /\ x < Midnight(d + 1)
        BY <1>2, <3>1, <3>2
      <3> QED
        BY <1>5, <3>1, <3>2, <3>3, HoursOfDay
    <2>3. WorkedHours(c, a, b) = from..to - 1
      BY <2>1, <2>2, Zenon
    <2>4. Cardinality(from..to - 1) = IF from > to - 1 THEN 0 ELSE (to - 1) - from + 1
      <3> HIDE DEF from, to
      <3>1. to - 1 \in Int
        BY <1>3
      <3> QED
        BY <1>3, <3>1, FS_Interval
    <2>5. Worked(c, a, b) = IF from > to - 1 THEN 0 ELSE (to - 1) - from + 1
      BY <2>3, <2>4, WorkedHoursFinite
    <2> HIDE DEF from, to
    <2>6. Worked(c, a, b) = Later(0, to - from)
      BY <1>3, <2>5 DEF Later
    <2> QED
      BY <1>5, <2>6 DEF from, to
  <1>6. CASE ~WorkingDay(c, d)
    <2>1. WorkedHours(c, a, b) = {}
      <3> SUFFICES ASSUME NEW x \in Working(c), a <= x, x < b PROVE FALSE
        BY DEF WorkedHours
      <3>1. x \in Int /\ Midnight(d) <= x /\ x < Midnight(d + 1)
        BY <1>2, <1>4
      <3> QED
        BY <1>6, <3>1, HoursOfDay
    <2> QED
      BY <1>6, <2>1, WorkedHoursFinite, FS_EmptySet
  <1> QED
    BY <1>5, <1>6

\* What is ahead in a day, and what is behind.
LEMMA AheadIs ==
  ASSUME NEW c \in Calendars, ClosesByNight(c), NEW d \in 0..LastDay, NEW t \in Int
  PROVE  /\ Ahead(c, d, t) \in Nat
         /\ Ahead(c, d, t) = Worked(c, Later(t, Midnight(d)), Later(t, Midnight(d + 1)))
         /\ Ahead(c, d, t) = Worked(c, Later(t, Midnight(d)), Midnight(d + 1))
  <1>1. d \in Int
    OBVIOUS
  <1>2. /\ Midnight(d) \in Int /\ Midnight(d + 1) \in Int /\ Opens(c, d) \in Int /\ Closes(c, d) \in Int
        /\ Midnight(d) <= Midnight(d + 1)
        /\ WorkingDay(c, d) => Midnight(d) <= Opens(c, d) /\ Closes(c, d) < Midnight(d + 1)
    BY <1>1, WindowOfDay, Midnights
  <1> DEFINE a == Later(t, Midnight(d))
  <1>3. a \in Int /\ Midnight(d) <= a
    BY <1>2 DEF Later
  <1>4. Worked(c, a, Midnight(d + 1))
          = IF WorkingDay(c, d) THEN Later(0, Earlier(Midnight(d + 1), Closes(c, d)) - Later(a, Opens(c, d))) ELSE 0
    BY <1>2, <1>3, DayCount
  <1>5. WorkingDay(c, d) => /\ Earlier(Midnight(d + 1), Closes(c, d)) = Closes(c, d)
                            /\ Later(a, Opens(c, d)) = Later(t, Opens(c, d))
    BY <1>2 DEF Later, Earlier
  <1>6. Ahead(c, d, t) = Worked(c, a, Midnight(d + 1))
    BY <1>4, <1>5 DEF Ahead
  <1>7. Worked(c, a, Later(t, Midnight(d + 1))) = Worked(c, a, Midnight(d + 1))
    <2>1. CASE t <= Midnight(d + 1)
      <3>1. Later(t, Midnight(d + 1)) = Midnight(d + 1)
        BY <1>2, <2>1 DEF Later
      <3> QED
        BY <3>1
    <2>2. CASE t > Midnight(d + 1)
      <3>1. Later(t, Midnight(d + 1)) = t /\ a = t
        BY <1>2, <2>2 DEF Later
      <3>2. Worked(c, t, t) = 0 /\ Worked(c, t, Midnight(d + 1)) = 0
        BY <1>2, <2>2, NoneWorked
      <3> QED
        BY <3>1, <3>2
    <2> QED
      BY <1>2, <2>1, <2>2
  <1> QED
    BY <1>6, <1>7, WorkedHoursFinite

LEMMA BehindIs ==
  ASSUME NEW c \in Calendars, ClosesByNight(c), NEW d \in 0..LastDay, NEW t \in Int
  PROVE  /\ Behind(c, d, t) \in Nat
         /\ Behind(c, d, t) = Worked(c, Earlier(t, Midnight(d)), Earlier(t, Midnight(d + 1)))
  <1>1. d \in Int
    OBVIOUS
  <1>2. /\ Midnight(d) \in Int /\ Midnight(d + 1) \in Int /\ Opens(c, d) \in Int /\ Closes(c, d) \in Int
        /\ Midnight(d) <= Midnight(d + 1)
        /\ WorkingDay(c, d) => Midnight(d) <= Opens(c, d) /\ Closes(c, d) < Midnight(d + 1)
    BY <1>1, WindowOfDay, Midnights
  <1> DEFINE b == Earlier(t, Midnight(d + 1))
  <1>3. b \in Int /\ b <= Midnight(d + 1)
    BY <1>2 DEF Earlier
  <1>4. Worked(c, Midnight(d), b)
          = IF WorkingDay(c, d) THEN Later(0, Earlier(b, Closes(c, d)) - Later(Midnight(d), Opens(c, d))) ELSE 0
    BY <1>2, <1>3, DayCount
  <1>5. WorkingDay(c, d) => /\ Earlier(b, Closes(c, d)) = Earlier(t, Closes(c, d))
                            /\ Later(Midnight(d), Opens(c, d)) = Opens(c, d)
    BY <1>2 DEF Later, Earlier
  <1>6. Behind(c, d, t) = Worked(c, Midnight(d), b)
    BY <1>4, <1>5 DEF Behind
  <1>7. Worked(c, Earlier(t, Midnight(d)), b) = Worked(c, Midnight(d), b)
    <2>1. CASE Midnight(d) <= t
      <3>1. Earlier(t, Midnight(d)) = Midnight(d)
        BY <1>2, <2>1 DEF Earlier
      <3> QED
        BY <3>1
    <2>2. CASE t < Midnight(d)
      <3>1. Earlier(t, Midnight(d)) = t /\ b = t
        BY <1>2, <2>2 DEF Earlier
      <3>2. Worked(c, t, t) = 0 /\ Worked(c, Midnight(d), t) = 0
        BY <1>2, <2>2, NoneWorked
      <3> QED
        BY <3>1, <3>2
    <2> QED
      BY <1>2, <2>1, <2>2
  <1> QED
    BY <1>6, <1>7, WorkedHoursFinite

LEMMA LeastDay ==
  ASSUME NEW days \in SUBSET Nat, NEW e \in days
  PROVE  \E d \in days : \A k \in days : d <= k
  <1>1. PICK d \in days : \A k \in days : <<k, d>> \notin OpToRel(<, Nat)
    BY NatLessThanWellFounded, WFMin
  <1>2. \A k \in days : ~ k < d
    BY <1>1 DEF OpToRel
  <1> QED
    BY <1>2

LEMMA GreatestDay ==
  ASSUME NEW last \in Nat, NEW days \in SUBSET (0..last), NEW e \in days
  PROVE  \E d \in days : \A k \in days : k <= d
  <1> DEFINE back == {last - d : d \in days}
  <1>1. back \in SUBSET Nat /\ last - e \in back
    OBVIOUS
  <1>2. PICK b \in back : \A k \in back : b <= k
    BY <1>1, LeastDay
  <1>3. PICK d \in days : b = last - d
    BY <1>2
  <1>4. \A k \in days : last - d <= last - k
    BY <1>2, <1>3
  <1> QED
    BY <1>4

\* Counting between two instants: a day adds what the rest of the interval has
\* of it.
Totals(c, from, to, total) ==
    [d \in 0..LastDay + 1 |->
        IF d > Day(to) \/ d > LastDay THEN 0
        ELSE Later(0, Ahead(c, d, from) - Ahead(c, d, to)) + total[d + 1]]
Rest(c, from, to) == [d \in 0..LastDay + 1 |-> Worked(c, Later(from, Midnight(d)), to)]

LEMMA DayAdds ==
  ASSUME NEW c \in Calendars, ClosesByNight(c), NEW t \in 0..End - 1, NEW u \in 0..End, t < u,
         NEW d \in 0..LastDay + 1
  PROVE  /\ d > Day(u) \/ d > LastDay => Worked(c, Later(t, Midnight(d)), u) = 0
         /\ ~(d > Day(u) \/ d > LastDay) =>
              Worked(c, Later(t, Midnight(d)), u)
                = Later(0, Ahead(c, d, t) - Ahead(c, d, u)) + Worked(c, Later(t, Midnight(d + 1)), u)
  <1>1. t \in Int /\ u \in Int /\ u <= End /\ End \in Nat /\ d \in Int /\ LastDay \in Nat /\ End = Midnight(LastDay + 1)
    BY EndIsNat, CalendarAssumption DEF End
  <1>2. Day(u) \in Int /\ Midnight(Day(u)) <= u /\ u < Midnight(Day(u) + 1)
    BY <1>1, DayOf
  <1>3. Midnight(d) \in Int /\ Midnight(d + 1) \in Int /\ Midnight(d) <= Midnight(d + 1)
    <2>1. d + 1 \in Int
      BY <1>1
    <2> QED
      BY <1>1, <2>1, Midnights
  <1>4. Later(t, Midnight(d)) \in Int /\ Later(t, Midnight(d + 1)) \in Int
    BY <1>1, <1>3 DEF Later
  <1>5. ASSUME d > Day(u) \/ d > LastDay PROVE Worked(c, Later(t, Midnight(d)), u) = 0
    <2>1. u <= Midnight(d)
      <3>1. CASE d > Day(u)
        <4>1. Midnight(Day(u)) \in Int /\ Midnight(Day(u) + 1) \in Int /\ Midnight(Day(u) + 1) <= Midnight(d)
          BY <1>1, <1>2, <3>1, Midnights
        <4> QED
          BY <1>1, <1>2, <1>3, <4>1
      <3>2. CASE d > LastDay
        <4>1. d = LastDay + 1
          BY <1>1, <3>2
        <4> QED
          BY <1>1, <4>1
      <3> QED
        BY <1>5, <3>1, <3>2
    <2>2. u <= Later(t, Midnight(d))
      BY <1>1, <1>3, <2>1 DEF Later
    <2> QED
      BY <1>1, <1>4, <2>2, NoneWorked
  <1>6. ASSUME ~(d > Day(u) \/ d > LastDay)
        PROVE  Worked(c, Later(t, Midnight(d)), u)
                 = Later(0, Ahead(c, d, t) - Ahead(c, d, u)) + Worked(c, Later(t, Midnight(d + 1)), u)
    <2>1. d \in 0..LastDay /\ d <= Day(u)
      BY <1>1, <1>2, <1>6
    <2>2. Midnight(d) <= u
      <3>1. Midnight(d) <= Midnight(Day(u)) /\ Midnight(Day(u)) \in Int
        BY <1>1, <1>2, <2>1, Midnights
      <3> QED
        BY <1>1, <1>2, <1>3, <3>1
    <2>3. /\ Ahead(c, d, t) \in Nat /\ Ahead(c, d, u) \in Nat
          /\ Ahead(c, d, t) = Worked(c, Later(t, Midnight(d)), Later(t, Midnight(d + 1)))
          /\ Ahead(c, d, t) = Worked(c, Later(t, Midnight(d)), Midnight(d + 1))
          /\ Ahead(c, d, u) = Worked(c, Later(u, Midnight(d)), Later(u, Midnight(d + 1)))
          /\ Ahead(c, d, u) = Worked(c, Later(u, Midnight(d)), Midnight(d + 1))
      BY <1>1, <2>1, AheadIs
    <2>4. PICK a \in Int, z \in Int : a = Later(t, Midnight(d)) /\ z = Later(t, Midnight(d + 1)) /\ a <= z
      BY <1>1, <1>3, <1>4 DEF Later
    <2>5. Worked(c, a, u) \in Nat /\ Worked(c, z, u) \in Nat
      BY WorkedHoursFinite
    <2>6. a <= u /\ (u >= Midnight(d + 1) => z <= u) /\ (u < Midnight(d + 1) => u <= z)
      BY <1>1, <1>3, <2>2, <2>4 DEF Later
    <2>7. Later(u, Midnight(d)) = u
      BY <1>1, <1>3, <2>2 DEF Later
    <2>8. CASE u >= Midnight(d + 1)
      <3>1. Ahead(c, d, u) = 0
        BY <1>1, <1>3, <2>3, <2>7, <2>8, NoneWorked
      <3>2. Worked(c, a, u) = Worked(c, a, z) + Worked(c, z, u)
        BY <1>1, <2>4, <2>6, <2>8, Splits
      <3>3. Later(0, Ahead(c, d, t) - Ahead(c, d, u)) = Ahead(c, d, t)
        BY <2>3, <3>1 DEF Later
      <3> QED
        BY <2>3, <2>4, <3>2, <3>3
    <2>9. CASE u < Midnight(d + 1)
      <3>1. Worked(c, z, u) = 0
        BY <1>1, <2>4, <2>6, <2>9, NoneWorked
      <3>2. Worked(c, a, Midnight(d + 1)) = Worked(c, a, u) + Worked(c, u, Midnight(d + 1))
        BY <1>1, <1>3, <2>4, <2>6, <2>9, Splits
      <3>3. Ahead(c, d, t) = Worked(c, a, u) + Ahead(c, d, u)
        BY <2>3, <2>4, <2>7, <3>2
      <3>4. Later(0, Ahead(c, d, t) - Ahead(c, d, u)) = Worked(c, a, u)
        BY <2>3, <2>5, <3>3 DEF Later
      <3> QED
        BY <2>4, <2>5, <3>1, <3>4
    <2> QED
      BY <1>1, <1>3, <2>8, <2>9
  <1> QED
    BY <1>5, <1>6

LEMMA BetweenIs ==
  ASSUME NEW c \in Calendars, ClosesByNight(c), NEW t \in 0..End - 1, NEW u \in 0..End
  PROVE  BusinessBetween(c, t, u) = Worked(c, t, u)
  <1>1. t \in Int /\ u \in Int /\ LastDay \in Nat /\ Day(t) \in 0..LastDay /\ Day(u) \in Int
    BY EndIsNat, CalendarAssumption, DaysOfTheModel, DayOf
  <1>2. CASE u <= t
    <2>1. BusinessBetween(c, t, u) = 0
      BY <1>2 DEF BusinessBetween
    <2> QED
      BY <1>1, <1>2, <2>1, NoneWorked
  <1>3. CASE t < u
    <2> DEFINE rest == Rest(c, t, u)
    <2>1. \A d \in 0..LastDay + 1 : rest[d] = Worked(c, Later(t, Midnight(d)), u)
      BY DEF Rest
    <2>2. ASSUME NEW d \in 0..LastDay + 1
          PROVE  rest[d] = IF d > Day(u) \/ d > LastDay THEN 0
                           ELSE Later(0, Ahead(c, d, t) - Ahead(c, d, u)) + rest[d + 1]
      <3>1. CASE d > Day(u) \/ d > LastDay
        BY <1>3, <2>1, <3>1, DayAdds
      <3>2. CASE ~(d > Day(u) \/ d > LastDay)
        <4>1. d + 1 \in 0..LastDay + 1
          BY <1>1, <3>2
        <4>2. rest[d + 1] = Worked(c, Later(t, Midnight(d + 1)), u)
          BY <2>1, <4>1
        <4>3. Worked(c, Later(t, Midnight(d)), u)
                = Later(0, Ahead(c, d, t) - Ahead(c, d, u)) + Worked(c, Later(t, Midnight(d + 1)), u)
          BY <1>3, <3>2, DayAdds
        <4> QED
          BY <2>1, <3>2, <4>2, <4>3
      <3> QED
        BY <3>1, <3>2
    <2>3. rest = Totals(c, t, u, rest)
      BY <2>2 DEF Totals, Rest
    <2>4. BusinessBetween(c, t, u) = (CHOOSE total : total = Totals(c, t, u, total))[Day(t)]
      BY <1>1, <1>3 DEF BusinessBetween, Totals
    <2>5. PICK total : total = Totals(c, t, u, total) /\ BusinessBetween(c, t, u) = total[Day(t)]
      BY <2>3, <2>4
    <2>6. total[Day(t)] = rest[Day(t)]
      <3> DEFINE wrong == {d \in 0..LastDay + 1 : total[d] # rest[d]}
      <3> SUFFICES ASSUME Day(t) \in wrong PROVE FALSE
        BY <1>1
      <3>1. wrong \in SUBSET (0..LastDay + 1) /\ LastDay + 1 \in Nat
        BY <1>1
      <3>2. PICK d \in wrong : \A k \in wrong : k <= d
        BY <3>1, GreatestDay
      <3>3. d \in 0..LastDay + 1 /\ total[d] # rest[d]
        BY <3>2
      <3>4. total[d] = IF d > Day(u) \/ d > LastDay THEN 0
                       ELSE Later(0, Ahead(c, d, t) - Ahead(c, d, u)) + total[d + 1]
        BY <2>5, <3>3 DEF Totals
      <3>5. ~(d > Day(u) \/ d > LastDay)
        BY <2>2, <3>3, <3>4
      <3>6. d + 1 \in 0..LastDay + 1 /\ ~ d + 1 <= d
        BY <1>1, <3>3, <3>5
      <3>7. total[d + 1] = rest[d + 1]
        BY <3>2, <3>6
      <3> QED
        BY <2>2, <3>3, <3>4, <3>7
    <2>7. Later(t, Midnight(Day(t))) = t
      BY <1>1, InItsDay
    <2>8. Day(t) \in 0..LastDay + 1
      BY <1>1
    <2> QED
      BY <2>1, <2>5, <2>6, <2>7, <2>8
  <1> QED
    BY <1>1, <1>2, <1>3

\* Going forwards: what is left when the search comes to a day is n less the
\* hours worked until then.
Leaves(c, from, n, left) ==
    [d \in Day(from)..LastDay + 1 |-> IF d = Day(from) THEN n ELSE left[d - 1] - Ahead(c, d - 1, from)]

LEMMA LeftForwards ==
  ASSUME NEW c \in Calendars, ClosesByNight(c), NEW t \in 0..End - 1, NEW n \in Nat
  PROVE  LET left == CHOOSE left : left = Leaves(c, t, n, left)
         IN  \A d \in Day(t)..LastDay + 1 : left[d] = n - Worked(c, t, Later(t, Midnight(d)))
  <1>1. t \in Int /\ LastDay \in Nat /\ Day(t) \in 0..LastDay /\ Midnight(Day(t)) <= t
    BY EndIsNat, CalendarAssumption, DaysOfTheModel, DayOf
  <1> DEFINE days == Day(t)..LastDay + 1
             rest == [d \in days |-> n - Worked(c, t, Later(t, Midnight(d)))]
  <1>2. ASSUME NEW d \in days
        PROVE  rest[d] = IF d = Day(t) THEN n ELSE rest[d - 1] - Ahead(c, d - 1, t)
    <2>1. CASE d = Day(t)
      <3>1. Later(t, Midnight(d)) = t
        BY <1>1, <2>1, InItsDay
      <3>2. Worked(c, t, t) = 0
        BY <1>1, NoneWorked
      <3> QED
        BY <2>1, <3>1, <3>2
    <2>2. CASE d # Day(t)
      <3>1. d \in Int /\ d - 1 \in days /\ d - 1 \in 0..LastDay /\ (d - 1) + 1 = d
        BY <1>1, <2>2
      <3>2. Midnight(d - 1) \in Int /\ Midnight(d) \in Int /\ Midnight(d - 1) <= Midnight(d)
        <4>1. d - 1 \in Int /\ d - 1 <= d
          BY <3>1
        <4> QED
          BY <3>1, <4>1, Midnights
      <3>3. Ahead(c, d - 1, t) = Worked(c, Later(t, Midnight(d - 1)), Later(t, Midnight((d - 1) + 1)))
        BY <1>1, <3>1, AheadIs
      <3>4. PICK a \in Int, z \in Int : a = Later(t, Midnight(d - 1)) /\ z = Later(t, Midnight(d)) /\ t <= a /\ a <= z
        BY <1>1, <3>2 DEF Later
      <3>5. Worked(c, t, z) = Worked(c, t, a) + Worked(c, a, z)
        BY <1>1, <3>4, Splits
      <3>6. Worked(c, t, a) \in Nat /\ Worked(c, a, z) \in Nat
        BY WorkedHoursFinite
      <3>7. Ahead(c, d - 1, t) = Worked(c, a, z)
        BY <3>1, <3>3, <3>4
      <3>8. rest[d] = n - Worked(c, t, z) /\ rest[d - 1] = n - Worked(c, t, a)
        BY <3>1, <3>4
      <3> HIDE DEF rest
      <3> QED
        BY <2>2, <3>5, <3>6, <3>7, <3>8
    <2> QED
      BY <2>1, <2>2
  <1>3. rest = Leaves(c, t, n, rest)
    BY <1>2 DEF Leaves
  <1> HIDE DEF rest
  <1>4. PICK left : left = Leaves(c, t, n, left) /\ left = CHOOSE other : other = Leaves(c, t, n, other)
    BY <1>3
  <1>5. ASSUME NEW e \in days, left[e] # rest[e] PROVE FALSE
    <2> DEFINE wrong == {d \in days : left[d] # rest[d]}
    <2>1. wrong \in SUBSET Nat /\ e \in wrong
      BY <1>1, <1>5
    <2>2. PICK d \in wrong : \A k \in wrong : d <= k
      BY <2>1, LeastDay
    <2>3. d \in days /\ left[d] # rest[d]
      BY <2>2
    <2>4. left[d] = IF d = Day(t) THEN n ELSE left[d - 1] - Ahead(c, d - 1, t)
      BY <1>4, <2>3 DEF Leaves
    <2>5. d # Day(t)
      BY <1>2, <2>3, <2>4
    <2>6. d - 1 \in days /\ ~ d <= d - 1
      BY <1>1, <2>3, <2>5
    <2>7. left[d - 1] = rest[d - 1]
      BY <2>2, <2>6
    <2> QED
      BY <1>2, <2>3, <2>4, <2>7
  <1>6. \A d \in days : left[d] = n - Worked(c, t, Later(t, Midnight(d)))
    BY <1>5 DEF rest
  <1> QED
    BY <1>4, <1>6

EndsOn(c, from, n, left) ==
    LET fitting == {d \in Day(from)..LastDay : Ahead(c, d, from) > 0 /\ left[d] <= Ahead(c, d, from)}
        day == CHOOSE d \in fitting : \A e \in fitting : d <= e
    IN IF n = 0 THEN from ELSE IF fitting = {} THEN End ELSE Later(from, Opens(c, day)) + left[day]

LEMMA AddIs ==
  ASSUME NEW c \in Calendars, ClosesByNight(c), NEW t \in 0..End - 1, NEW n \in 1..Worked(c, t, End)
  PROVE  LET u == AddBusiness(c, t, n) IN u \in 1..End /\ u - 1 \in Working(c) /\ Worked(c, t, u) = n
  <1>1. /\ t \in Int /\ t >= 0 /\ LastDay \in Nat /\ Day(t) \in 0..LastDay /\ End = Midnight(LastDay + 1)
        /\ End \in Nat /\ t < End /\ Worked(c, t, End) \in Nat /\ n \in Nat /\ n > 0
    <2>1. End \in Nat /\ Worked(c, t, End) \in Nat
      BY EndIsNat, WorkedHoursFinite
    <2> QED
      BY <2>1, CalendarAssumption, DaysOfTheModel DEF End
  <1>2. PICK left : /\ left = CHOOSE other : other = Leaves(c, t, n, other)
                    /\ \A d \in Day(t)..LastDay + 1 : left[d] = n - Worked(c, t, Later(t, Midnight(d)))
    BY <1>1, LeftForwards
  <1> DEFINE days == Day(t)..LastDay
             fitting == {d \in days : Ahead(c, d, t) > 0 /\ left[d] <= Ahead(c, d, t)}
             day == CHOOSE d \in fitting : \A e \in fitting : d <= e
             until(d) == Worked(c, t, Later(t, Midnight(d)))
  \* What the hours worked until two midnights have to do with a day.
  <1>3. ASSUME NEW d \in days
        PROVE  /\ until(d) \in Nat /\ Ahead(c, d, t) \in Nat /\ until(d + 1) = until(d) + Ahead(c, d, t)
               /\ left[d] = n - until(d) /\ d \in 0..LastDay /\ d + 1 \in Day(t)..LastDay + 1
    <2>1. d \in Int /\ d \in 0..LastDay /\ d \in Day(t)..LastDay + 1 /\ d + 1 \in Day(t)..LastDay + 1
      BY <1>1
    <2>2. Midnight(d) \in Int /\ Midnight(d + 1) \in Int /\ Midnight(d) <= Midnight(d + 1)
      <3>1. d + 1 \in Int
        BY <2>1
      <3> QED
        BY <2>1, <3>1, Midnights
    <2>3. /\ Ahead(c, d, t) \in Nat
          /\ Ahead(c, d, t) = Worked(c, Later(t, Midnight(d)), Later(t, Midnight(d + 1)))
      BY <1>1, <2>1, AheadIs
    <2>4. PICK a \in Int, z \in Int : a = Later(t, Midnight(d)) /\ z = Later(t, Midnight(d + 1)) /\ t <= a /\ a <= z
      BY <1>1, <2>2 DEF Later
    <2>5. Worked(c, t, z) = Worked(c, t, a) + Worked(c, a, z)
      BY <1>1, <2>4, Splits
    <2>6. until(d) \in Nat
      BY WorkedHoursFinite
    <2> QED
      BY <1>2, <2>1, <2>3, <2>4, <2>5, <2>6
  <1>4. until(Day(t)) = 0 /\ until(LastDay + 1) = Worked(c, t, End)
    <2>1. Later(t, Midnight(Day(t))) = t /\ Later(t, End) = End
      BY <1>1, InItsDay DEF Later
    <2> QED
      BY <1>1, <2>1, NoneWorked
  <1> HIDE DEF until
  <1>5. PICK d \in days : n <= until(d + 1) /\ \A k \in days : n <= until(k + 1) => d <= k
    <2> DEFINE reached == {k \in days : n <= until(k + 1)}
    <2>1. reached \in SUBSET Nat /\ LastDay \in reached
      BY <1>1, <1>4
    <2>2. PICK d \in reached : \A k \in reached : d <= k
      BY <2>1, LeastDay
    <2> QED
      BY <2>2
  <1>6. until(d) < n
    <2>1. CASE d = Day(t)
      BY <1>1, <1>4, <2>1
    <2>2. CASE d # Day(t)
      <3>1. d - 1 \in days /\ (d - 1) + 1 = d /\ ~ d <= d - 1
        BY <1>1, <2>2
      <3>2. ~ n <= until(d)
        BY <1>5, <3>1
      <3> QED
        BY <1>1, <1>3, <3>2
    <2> QED
      BY <2>1, <2>2
  <1>7. d \in fitting
    BY <1>1, <1>3, <1>5, <1>6
  <1>8. \A k \in fitting : d <= k
    <2> SUFFICES ASSUME NEW k \in days, left[k] <= Ahead(c, k, t) PROVE d <= k
      OBVIOUS
    <2>1. n <= until(k + 1)
      BY <1>1, <1>3
    <2> QED
      BY <1>5, <2>1
  <1>9. day = d
    <2>1. day \in fitting /\ \A e \in fitting : day <= e
      BY <1>7, <1>8
    <2>2. day <= d /\ d <= day /\ day \in Int /\ d \in Int
      BY <1>1, <1>7, <1>8, <2>1
    <2> HIDE DEF day
    <2> QED
      BY <2>2
  <1>10. AddBusiness(c, t, n) = Later(t, Opens(c, d)) + left[d]
    <2>1. AddBusiness(c, t, n) = EndsOn(c, t, n, CHOOSE other : other = Leaves(c, t, n, other))
      BY DEF AddBusiness, Leaves, EndsOn
    <2>2. AddBusiness(c, t, n) = EndsOn(c, t, n, left)
      BY <1>2, <2>1
    <2>3. AddBusiness(c, t, n) = IF n = 0 THEN t ELSE IF fitting = {} THEN End ELSE Later(t, Opens(c, day)) + left[day]
      BY <2>2 DEF EndsOn
    <2> HIDE DEF day, fitting
    <2> QED
      BY <1>1, <1>7, <1>9, <2>3
  <1> DEFINE a == Later(t, Midnight(d))
             o == Later(t, Opens(c, d))
             u == o + left[d]
  <1>11. left[d] \in 1..Ahead(c, d, t) /\ left[d] = n - until(d) /\ until(d) \in Nat /\ d \in 0..LastDay
    BY <1>1, <1>3, <1>6, <1>7
  <1>12. Ahead(c, d, t) > 0 /\ Ahead(c, d, t) = (IF WorkingDay(c, d) THEN Later(0, Closes(c, d) - o) ELSE 0)
    BY <1>7 DEF Ahead
  <1>13. WorkingDay(c, d)
    BY <1>12
  <1>14. /\ Opens(c, d) \in Int /\ Closes(c, d) \in Int /\ Midnight(d) \in Int /\ Midnight(d + 1) \in Int
         /\ Midnight(d) <= Opens(c, d) /\ Closes(c, d) < Midnight(d + 1) /\ 0 <= Midnight(d) /\ Midnight(d + 1) <= End
    <2>1. d \in Int /\ d + 1 \in Int /\ LastDay + 1 \in Int /\ 0 \in Int /\ 0 <= d /\ d + 1 <= LastDay + 1
      BY <1>1, <1>11
    <2>2. Midnight(d) \in Int /\ Midnight(d + 1) \in Int /\ 0 <= Midnight(d) /\ Midnight(d + 1) <= Midnight(LastDay + 1)
      <3>1. Midnight(0) = 0 /\ Midnight(0) <= Midnight(d)
        BY <2>1, Midnights
      <3>2. Midnight(d + 1) <= Midnight(LastDay + 1) /\ Midnight(d) \in Int /\ Midnight(d + 1) \in Int
        BY <2>1, Midnights
      <3> QED
        BY <3>1, <3>2
    <2> QED
      BY <1>1, <1>13, <2>1, <2>2, WindowOfDay
  <1>15. /\ o \in Int /\ o >= t /\ o >= Opens(c, d) /\ a \in Int /\ a <= o /\ a >= t /\ Midnight(d) <= a
         /\ Later(a, Opens(c, d)) = o
    BY <1>1, <1>14 DEF Later
  <1> HIDE DEF o, a
  <1>16. Ahead(c, d, t) = Closes(c, d) - o
    BY <1>12, <1>13, <1>14, <1>15 DEF Later
  <1>17. /\ u \in Int /\ u - 1 >= o /\ u <= Closes(c, d) /\ u = o + left[d] /\ left[d] \in Int
    BY <1>11, <1>14, <1>15, <1>16
  <1> HIDE DEF u
  <1>18. u \in 1..End
    BY <1>1, <1>14, <1>15, <1>17
  <1>19. u - 1 \in Working(c)
    BY <1>11, <1>13, <1>14, <1>15, <1>17, HoursOfDay
  <1>20. Worked(c, a, u) = left[d]
    <2>1. Earlier(u, Closes(c, d)) = u
      BY <1>14, <1>17 DEF Earlier
    <2>2. u <= Midnight(d + 1)
      BY <1>14, <1>17
    <2>3. Worked(c, a, u) = IF WorkingDay(c, d) THEN Later(0, Earlier(u, Closes(c, d)) - Later(a, Opens(c, d))) ELSE 0
      BY <1>11, <1>15, <1>17, <2>2, DayCount
    <2>4. Worked(c, a, u) = Later(0, u - o)
      BY <1>13, <1>15, <2>1, <2>3
    <2> QED
      BY <1>15, <1>17, <2>4 DEF Later
  <1>21. Worked(c, t, u) = n
    <2>1. a <= u
      BY <1>15, <1>17
    <2>2. Worked(c, t, u) = Worked(c, t, a) + Worked(c, a, u)
      BY <1>1, <1>15, <1>17, <2>1, Splits
    <2>3. Worked(c, t, a) = until(d)
      BY DEF until, a
    <2> QED
      BY <1>1, <1>11, <1>20, <2>2, <2>3
  <1> QED
    BY <1>10, <1>18, <1>19, <1>21 DEF u, o

\* Going back: what is left when the search comes to a day is n less the hours
\* worked since its end.
LeavesBack(c, from, n, left) ==
    [d \in 0..Day(from) |-> IF d = Day(from) THEN n ELSE left[d + 1] - Behind(c, d + 1, from)]
EndsBackOn(c, from, n, left) ==
    LET fitting == {d \in 0..Day(from) : Behind(c, d, from) > 0 /\ left[d] <= Behind(c, d, from)}
        day == CHOOSE d \in fitting : \A e \in fitting : e <= d
    IN IF n = 0 THEN from ELSE IF fitting = {} THEN 0 ELSE Earlier(from, Closes(c, day)) - left[day]

LEMMA LeftBackwards ==
  ASSUME NEW c \in Calendars, ClosesByNight(c), NEW t \in 0..End - 1, NEW n \in Nat
  PROVE  LET left == CHOOSE left : left = LeavesBack(c, t, n, left)
         IN  \A d \in 0..Day(t) : left[d] = n - Worked(c, Earlier(t, Midnight(d + 1)), t)
  <1>1. t \in Int /\ LastDay \in Nat /\ Day(t) \in 0..LastDay
    BY EndIsNat, CalendarAssumption, DaysOfTheModel, DayOf
  <1> DEFINE days == 0..Day(t)
             rest == [d \in days |-> n - Worked(c, Earlier(t, Midnight(d + 1)), t)]
  <1>2. ASSUME NEW d \in days
        PROVE  rest[d] = IF d = Day(t) THEN n ELSE rest[d + 1] - Behind(c, d + 1, t)
    <2>1. CASE d = Day(t)
      <3>1. Earlier(t, Midnight(d + 1)) = t
        BY <1>1, <2>1, InItsDay
      <3>2. Worked(c, t, t) = 0
        BY <1>1, NoneWorked
      <3> QED
        BY <2>1, <3>1, <3>2
    <2>2. CASE d # Day(t)
      <3>1. d + 1 \in Int /\ d + 1 \in days /\ d + 1 \in 0..LastDay
        BY <1>1, <2>2
      <3>2. PICK e \in days : e = d + 1
        BY <3>1
      <3>3. Midnight(e) \in Int /\ Midnight(e + 1) \in Int /\ Midnight(e) <= Midnight(e + 1)
        <4>1. e \in Int /\ e + 1 \in Int
          BY <3>1, <3>2
        <4> QED
          BY <4>1, Midnights
      <3>4. Behind(c, e, t) = Worked(c, Earlier(t, Midnight(e)), Earlier(t, Midnight(e + 1)))
        BY <1>1, <3>1, <3>2, BehindIs
      <3>5. PICK a \in Int, z \in Int : a = Earlier(t, Midnight(e)) /\ z = Earlier(t, Midnight(e + 1)) /\ a <= z /\ z <= t
        BY <1>1, <3>3 DEF Earlier
      <3>6. Worked(c, a, t) = Worked(c, a, z) + Worked(c, z, t)
        BY <1>1, <3>5, Splits
      <3>7. Worked(c, a, z) \in Nat /\ Worked(c, z, t) \in Nat
        BY WorkedHoursFinite
      <3>8. rest[d] = n - Worked(c, a, t) /\ rest[e] = n - Worked(c, z, t)
        BY <3>2, <3>5
      <3> HIDE DEF rest
      <3>9. rest[d] = rest[e] - Behind(c, e, t)
        BY <3>4, <3>5, <3>6, <3>7, <3>8
      <3> QED
        BY <2>2, <3>2, <3>9
    <2> QED
      BY <2>1, <2>2
  <1>3. rest = LeavesBack(c, t, n, rest)
    BY <1>2 DEF LeavesBack
  <1> HIDE DEF rest
  <1>4. PICK left : left = LeavesBack(c, t, n, left) /\ left = CHOOSE other : other = LeavesBack(c, t, n, other)
    BY <1>3
  <1>5. ASSUME NEW e \in days, left[e] # rest[e] PROVE FALSE
    <2> DEFINE wrong == {d \in days : left[d] # rest[d]}
    <2>1. wrong \in SUBSET (0..Day(t)) /\ e \in wrong /\ Day(t) \in Nat
      BY <1>1, <1>5
    <2>2. PICK d \in wrong : \A k \in wrong : k <= d
      BY <2>1, GreatestDay
    <2>3. d \in days /\ left[d] # rest[d]
      BY <2>2
    <2>4. left[d] = IF d = Day(t) THEN n ELSE left[d + 1] - Behind(c, d + 1, t)
      BY <1>4, <2>3 DEF LeavesBack
    <2>5. d # Day(t)
      BY <1>2, <2>3, <2>4
    <2>6. d + 1 \in days /\ ~ d + 1 <= d
      BY <1>1, <2>3, <2>5
    <2>7. left[d + 1] = rest[d + 1]
      BY <2>2, <2>6
    <2> QED
      BY <1>2, <2>3, <2>4, <2>7
  <1>6. \A d \in days : left[d] = n - Worked(c, Earlier(t, Midnight(d + 1)), t)
    BY <1>5 DEF rest
  <1> QED
    BY <1>4, <1>6

LEMMA SubtractIs ==
  ASSUME NEW c \in Calendars, ClosesByNight(c), NEW t \in 0..End - 1, NEW n \in 1..Worked(c, 0, t)
  PROVE  LET u == SubtractBusiness(c, t, n) IN u \in Working(c) /\ Worked(c, u, t) = n
  <1>1. /\ t \in Int /\ t >= 0 /\ LastDay \in Nat /\ Day(t) \in 0..LastDay
        /\ Worked(c, 0, t) \in Nat /\ n \in Nat /\ n > 0
    <2>1. End \in Nat /\ Worked(c, 0, t) \in Nat
      BY EndIsNat, WorkedHoursFinite
    <2> QED
      BY <2>1, CalendarAssumption, DaysOfTheModel
  <1>2. PICK left : /\ left = CHOOSE other : other = LeavesBack(c, t, n, other)
                    /\ \A d \in 0..Day(t) : left[d] = n - Worked(c, Earlier(t, Midnight(d + 1)), t)
    BY <1>1, LeftBackwards
  <1> DEFINE days == 0..Day(t)
             fitting == {d \in days : Behind(c, d, t) > 0 /\ left[d] <= Behind(c, d, t)}
             day == CHOOSE d \in fitting : \A e \in fitting : e <= d
             since(d) == Worked(c, Earlier(t, Midnight(d)), t)
  <1>3. ASSUME NEW d \in days
        PROVE  /\ since(d + 1) \in Nat /\ Behind(c, d, t) \in Nat /\ since(d) = since(d + 1) + Behind(c, d, t)
               /\ left[d] = n - since(d + 1) /\ d \in 0..LastDay
    <2>1. d \in Int /\ d \in 0..LastDay
      BY <1>1
    <2>2. Midnight(d) \in Int /\ Midnight(d + 1) \in Int /\ Midnight(d) <= Midnight(d + 1)
      <3>1. d + 1 \in Int
        BY <2>1
      <3> QED
        BY <2>1, <3>1, Midnights
    <2>3. /\ Behind(c, d, t) \in Nat
          /\ Behind(c, d, t) = Worked(c, Earlier(t, Midnight(d)), Earlier(t, Midnight(d + 1)))
      BY <1>1, <2>1, BehindIs
    <2>4. PICK a \in Int, z \in Int : a = Earlier(t, Midnight(d)) /\ z = Earlier(t, Midnight(d + 1)) /\ a <= z /\ z <= t
      BY <1>1, <2>2 DEF Earlier
    <2>5. Worked(c, a, t) = Worked(c, a, z) + Worked(c, z, t)
      BY <1>1, <2>4, Splits
    <2>6. since(d + 1) \in Nat
      BY WorkedHoursFinite
    <2> QED
      BY <1>2, <2>1, <2>3, <2>4, <2>5, <2>6
  <1>4. since(Day(t) + 1) = 0 /\ since(0) = Worked(c, 0, t)
    <2>1. Earlier(t, Midnight(Day(t) + 1)) = t
      BY <1>1, InItsDay
    <2>2. Midnight(0) = 0
      BY Midnights
    <2>3. Earlier(t, Midnight(0)) = 0
      BY <1>1, <2>2 DEF Earlier
    <2> QED
      BY <1>1, <2>1, <2>3, NoneWorked
  <1> HIDE DEF since
  <1>5. PICK d \in days : n <= since(d) /\ \A k \in days : n <= since(k) => k <= d
    <2> DEFINE reached == {k \in days : n <= since(k)}
    <2>1. reached \in SUBSET (0..Day(t)) /\ 0 \in reached /\ Day(t) \in Nat
      BY <1>1, <1>4
    <2>2. PICK d \in reached : \A k \in reached : k <= d
      BY <2>1, GreatestDay
    <2> QED
      BY <2>2
  <1>6. since(d + 1) < n
    <2>1. CASE d = Day(t)
      BY <1>1, <1>4, <2>1
    <2>2. CASE d # Day(t)
      <3>1. d + 1 \in days /\ ~ d + 1 <= d
        BY <1>1, <2>2
      <3>2. ~ n <= since(d + 1)
        BY <1>5, <3>1
      <3> QED
        BY <1>1, <1>3, <3>2
    <2> QED
      BY <2>1, <2>2
  <1>7. d \in fitting
    BY <1>1, <1>3, <1>5, <1>6
  <1>8. \A k \in fitting : k <= d
    <2> SUFFICES ASSUME NEW k \in days, left[k] <= Behind(c, k, t) PROVE k <= d
      OBVIOUS
    <2>1. n <= since(k)
      BY <1>1, <1>3
    <2> QED
      BY <1>5, <2>1
  <1>9. day = d
    <2>1. day \in fitting /\ \A e \in fitting : e <= day
      BY <1>7, <1>8
    <2>2. day <= d /\ d <= day /\ day \in Int /\ d \in Int
      BY <1>1, <1>7, <1>8, <2>1
    <2> HIDE DEF day
    <2> QED
      BY <2>2
  <1>10. SubtractBusiness(c, t, n) = Earlier(t, Closes(c, d)) - left[d]
    <2>1. SubtractBusiness(c, t, n) = EndsBackOn(c, t, n, CHOOSE other : other = LeavesBack(c, t, n, other))
      BY DEF SubtractBusiness, LeavesBack, EndsBackOn
    <2>2. SubtractBusiness(c, t, n) = EndsBackOn(c, t, n, left)
      BY <1>2, <2>1
    <2>3. SubtractBusiness(c, t, n) = IF n = 0 THEN t ELSE IF fitting = {} THEN 0 ELSE Earlier(t, Closes(c, day)) - left[day]
      BY <2>2 DEF EndsBackOn
    <2> HIDE DEF day, fitting
    <2> QED
      BY <1>1, <1>7, <1>9, <2>3
  <1> DEFINE z == Earlier(t, Midnight(d + 1))
             o == Earlier(t, Closes(c, d))
             u == o - left[d]
  <1>11. left[d] \in 1..Behind(c, d, t) /\ left[d] = n - since(d + 1) /\ since(d + 1) \in Nat /\ d \in 0..LastDay
    BY <1>1, <1>3, <1>6, <1>7
  <1>12. Behind(c, d, t) > 0 /\ Behind(c, d, t) = (IF WorkingDay(c, d) THEN Later(0, o - Opens(c, d)) ELSE 0)
    BY <1>7 DEF Behind
  <1>13. WorkingDay(c, d)
    BY <1>12
  <1>14. /\ Opens(c, d) \in Int /\ Closes(c, d) \in Int /\ Midnight(d) \in Int /\ Midnight(d + 1) \in Int
         /\ Midnight(d) <= Opens(c, d) /\ Closes(c, d) < Midnight(d + 1)
    <2>1. d \in Int /\ d + 1 \in Int
      BY <1>11
    <2> QED
      BY <1>13, <2>1, WindowOfDay, Midnights
  <1>15. /\ o \in Int /\ o <= t /\ o <= Closes(c, d) /\ z \in Int /\ o <= z /\ z <= t /\ z <= Midnight(d + 1)
         /\ Earlier(z, Closes(c, d)) = o
    BY <1>1, <1>14 DEF Earlier
  <1> HIDE DEF o, z
  <1>16. Behind(c, d, t) = o - Opens(c, d)
    BY <1>12, <1>13, <1>14, <1>15 DEF Later
  <1>17. /\ u \in Int /\ u < o /\ u >= Opens(c, d) /\ u = o - left[d] /\ left[d] \in Int
    BY <1>11, <1>14, <1>15, <1>16
  <1> HIDE DEF u
  <1>18. u \in Working(c)
    BY <1>11, <1>13, <1>14, <1>15, <1>17, HoursOfDay
  <1>19. Worked(c, u, z) = left[d]
    <2>1. Later(u, Opens(c, d)) = u
      BY <1>14, <1>17 DEF Later
    <2>2. Midnight(d) <= u
      BY <1>14, <1>17
    <2>3. Worked(c, u, z) = IF WorkingDay(c, d) THEN Later(0, Earlier(z, Closes(c, d)) - Later(u, Opens(c, d))) ELSE 0
      BY <1>11, <1>15, <1>17, <2>2, DayCount
    <2>4. Worked(c, u, z) = Later(0, o - u)
      BY <1>13, <1>15, <2>1, <2>3
    <2> QED
      BY <1>15, <1>17, <2>4 DEF Later
  <1>20. Worked(c, u, t) = n
    <2>1. u <= z
      BY <1>15, <1>17
    <2>2. Worked(c, u, t) = Worked(c, u, z) + Worked(c, z, t)
      BY <1>1, <1>15, <1>17, <2>1, Splits
    <2>3. Worked(c, z, t) = since(d + 1)
      BY DEF since, z
    <2> QED
      BY <1>1, <1>11, <1>19, <2>2, <2>3
  <1> QED
    BY <1>10, <1>18, <1>20 DEF u, o

\* Of every calendar that closes before midnight, whatever its week and whatever
\* the length of a day: counting, adding and subtracting agree with the hours it
\* declares (lib/business-time.ts addBusinessMinutes, businessMinutesBetween,
\* subtractBusinessMinutes).
THEOREM CalendarsAreExact == \A c \in Calendars : ClosesByNight(c) => Exact[c]
  <1> SUFFICES ASSUME NEW c \in Calendars, ClosesByNight(c), NEW t \in 0..End - 1
               PROVE  /\ \A u \in 0..End : BusinessBetween(c, t, u) = Worked(c, t, u)
                      /\ \A n \in 1..Worked(c, t, End) : LET u == AddBusiness(c, t, n) IN
                           u \in 1..End /\ u - 1 \in Working(c) /\ Worked(c, t, u) = n
                      /\ \A n \in 1..Worked(c, 0, t) : LET u == SubtractBusiness(c, t, n) IN
                           u \in Working(c) /\ Worked(c, u, t) = n
    BY DEF Exact
  <1>1. \A u \in 0..End : BusinessBetween(c, t, u) = Worked(c, t, u)
    BY BetweenIs
  <1>2. ASSUME NEW n \in 1..Worked(c, t, End)
        PROVE  LET u == AddBusiness(c, t, n) IN u \in 1..End /\ u - 1 \in Working(c) /\ Worked(c, t, u) = n
    BY AddIs
  <1>3. ASSUME NEW n \in 1..Worked(c, 0, t)
        PROVE  LET u == SubtractBusiness(c, t, n) IN u \in Working(c) /\ Worked(c, u, t) = n
    BY SubtractIs
  <1> QED
    BY <1>1, <1>2, <1>3

\* What an SLA policy is asked about time it is told exactly (sla.service.ts
\* initializeTaskSla, pause and resume).
THEOREM DatesAreExact == SlaSpec => []BusinessTimeExact
  <1>1. BusinessTimeExact
    BY CalendarsAreExact DEF BusinessTimeExact
  <1> QED
    BY <1>1, PTL

-----------------------------------------------------------------------------
(* TaskSla, the budget.  Working hours are counted as the calendar has them, and  *)
(* the instance keeps an account of them: what it ran and what it has left make   *)
(* the target, at the pause as well while it is paused.                           *)

\* There are enough hours to come.
LEMMA TargetFits ==
  ASSUME NEW c \in Calendars, ClosesByNight(c), NEW t \in 0..LastHour
  PROVE  t \in 0..End - 1 /\ Target <= Worked(c, t, End)
  <1>1. t \in Int /\ LastHour \in Int /\ t <= LastHour /\ End \in Nat /\ t < End
    BY HandlingAssumption, DaysAssumption, EndIsNat
  <1>2. \A x \in Working(c) : x \in Int
    BY EndIsNat DEF Working
  <1>3. WorkedHours(c, LastHour, End) \subseteq WorkedHours(c, t, End)
    BY <1>1, <1>2 DEF WorkedHours
  <1>4. Cardinality(WorkedHours(c, LastHour, End)) <= Cardinality(WorkedHours(c, t, End))
    BY <1>3, WorkedHoursFinite, FS_Subset
  <1>5. Worked(c, LastHour, End) <= Worked(c, t, End)
    BY <1>4, WorkedHoursFinite
  <1>6. Worked(c, LastHour, End) \in Nat /\ Worked(c, t, End) \in Nat /\ Target <= Worked(c, LastHour, End)
    BY WorkedHoursFinite, DaysAssumption
  <1> QED
    BY <1>1, <1>5, <1>6, SlaAssumption

Legal == cal \in Calendars \cup {NoCalendar} /\ (cal \in Calendars => ClosesByNight(cal))
Dues == IF cal = NoCalendar THEN Nat ELSE 0..End

\* Under the policy: what is between two instants, and what is after one.
LEMMA BetweenCounts ==
  ASSUME Legal, NEW t \in 0..LastHour, NEW u \in Dues
  PROVE  /\ u \in Int /\ Between(t, u) \in Nat
         /\ u <= t => Between(t, u) = 0
         /\ t < u /\ t + 1 \in 0..LastHour => Between(t, u) = Between(t + 1, u) + (IF Counts(t) THEN 1 ELSE 0)
  <1>1. t \in Int /\ u \in Int
    BY EndIsNat DEF Dues
  <1>2. CASE cal = NoCalendar
    BY <1>1, <1>2 DEF Between, Later, Counts
  <1>3. CASE cal # NoCalendar
    <2>1. cal \in Calendars /\ ClosesByNight(cal) /\ u \in 0..End
      BY <1>3 DEF Legal, Dues
    <2>2. Exact[cal]
      BY <2>1, CalendarsAreExact
    <2>3. \A s \in 0..End - 1 : BusinessBetween(cal, s, u) = Worked(cal, s, u)
      BY <2>1, <2>2 DEF Exact
    <2>4. \A s \in 0..LastHour : s \in 0..End - 1
      BY <2>1, TargetFits
    <2>5. \A s \in 0..LastHour : Between(s, u) = Worked(cal, s, u)
      BY <1>3, <2>3, <2>4 DEF Between
    <2>6. Counts(t) <=> t \in Working(cal)
      BY <1>3 DEF Counts
    <2>7. Worked(cal, t, u) \in Nat /\ (u <= t => Worked(cal, t, u) = 0)
      BY <1>1, WorkedHoursFinite, NoneWorked
    <2>8. t < u => Worked(cal, t, u) = Worked(cal, t + 1, u) + (IF t \in Working(cal) THEN 1 ELSE 0)
      BY <1>1, HourWorked
    <2> QED
      BY <1>1, <2>5, <2>6, <2>7, <2>8
  <1> QED
    BY <1>2, <1>3

LEMMA AfterCounts ==
  ASSUME Legal, NEW t \in 0..LastHour, NEW n \in 0..Target
  PROVE  /\ After(t, n) \in Dues
         /\ t < After(t, n) => Between(t, After(t, n)) = n
         /\ After(t, n) <= t <=> n = 0
  <1>1. t \in Nat /\ n \in Nat /\ LastHour \in Nat /\ Target \in Nat
    BY SlaAssumption, HandlingAssumption
  <1>2. CASE cal = NoCalendar
    BY <1>1, <1>2 DEF After, Between, Later, Dues
  <1>3. CASE cal # NoCalendar
    <2>1. cal \in Calendars /\ ClosesByNight(cal) /\ Dues = 0..End
      BY <1>3 DEF Legal, Dues
    <2>2. t \in 0..End - 1 /\ Target <= Worked(cal, t, End) /\ Worked(cal, t, End) \in Nat
      BY <2>1, TargetFits, WorkedHoursFinite
    <2>3. CASE n = 0
      <3>1. After(t, n) = t
        BY <1>3, <2>3 DEF After, AddBusiness
      <3> QED
        BY <1>1, <2>1, <2>2, <2>3, <3>1, EndIsNat
    <2>4. CASE n # 0
      <3> DEFINE u == AddBusiness(cal, t, n)
      <3>1. n \in 1..Worked(cal, t, End)
        BY <1>1, <2>2, <2>4
      <3>2. Exact[cal]
        BY <2>1, CalendarsAreExact
      <3>3. u \in 1..End /\ Worked(cal, t, u) = n
        BY <2>1, <2>2, <3>1, <3>2 DEF Exact
      <3>4. After(t, n) = u
        BY <1>3 DEF After
      <3> HIDE DEF u
      <3>5. u \in Dues /\ u \in Int /\ (t < u => Between(t, u) = Worked(cal, t, u))
        <4>1. \A v \in 0..End : BusinessBetween(cal, t, v) = Worked(cal, t, v)
          BY <2>1, <2>2, <3>2 DEF Exact
        <4>2. u \in 0..End /\ u \in Int
          BY <3>3, EndIsNat
        <4> QED
          BY <1>3, <2>1, <4>1, <4>2 DEF Between
      <3>6. u <= t => n = 0
        BY <1>1, <3>3, <3>5, NoneWorked
      <3> QED
        BY <1>1, <2>4, <3>3, <3>4, <3>5, <3>6
    <2> QED
      BY <2>3, <2>4
  <1> QED
    BY <1>2, <1>3

\* The account of an instance that is due at d and stands at t.
Account(d, t) == /\ t < d => ran + Between(t, d) = Target
                 /\ d <= t => ran >= Target
OnBudget ==
    /\ inst.dueAt \in Dues
    /\ inst.status = "ACTIVE" => Account(inst.dueAt, now)
    /\ inst.status = "PAUSED" => inst.pausedAt \in 0..LastHour /\ Account(inst.dueAt, inst.pausedAt)
    /\ inst.status = "BREACHED" => ran >= Target
    /\ \A p \in Handlers : SlaAt(p, "notify") /\ ~(sla[p].picked \subseteq {"warning"}) => ran >= Target
BudgetInv == /\ SlaInv /\ cal \in Calendars \cup {NoCalendar} /\ now \in 0..LastHour /\ ran \in Nat
             /\ \A p \in Handlers : SlaAt(p, "resume") => sla[p].seen.status = "PAUSED"
             /\ ~revived /\ Legal => OnBudget

LEMMA BudgetInitial == ASSUME HandlingInit, SlaInit PROVE BudgetInv
  <1>1. SlaInv /\ cal \in Calendars \cup {NoCalendar} /\ now = 0 /\ ran = 0 /\ \A p \in Handlers : SlaAt(p, "idle")
    BY SlaInitial, SlaRestShape DEF HandlingInit, SlaInit, SlaAt
  <1>2. now \in 0..LastHour /\ Target \in 0..Target
    BY <1>1, HandlingAssumption, SlaAssumption
  <1>3. inst.status = "ACTIVE" /\ inst.dueAt = After(now, Target)
    BY DEF SlaInit, NewInstance
  <1>4. ASSUME Legal PROVE OnBudget
    <2> DEFINE d == After(now, Target)
    <2>1. d \in Dues /\ (now < d => Between(now, d) = Target) /\ (d <= now => Target = 0)
      BY <1>2, <1>4, AfterCounts
    <2> HIDE DEF d
    <2>2. Account(d, now)
      BY <1>1, <2>1, SlaAssumption DEF Account
    <2> QED
      BY <1>1, <1>3, <2>1, <2>2 DEF OnBudget, SlaAt, d
  <1> QED
    BY <1>1, <1>2, <1>4 DEF BudgetInv, SlaAt

\* The next state's account, while the policy is the same.
LEMMA SamePolicy ==
  ASSUME cal' = cal
  PROVE  /\ Legal' <=> Legal
         /\ Dues' = Dues
         /\ \A t, d : Between(t, d)' = Between(t, d)
  BY DEF Legal, Dues, Between

\* What a step has to show.
LEMMA AccountsKept ==
  ASSUME BudgetInv, SlaInv', cal' = cal, now' \in 0..LastHour, ran' \in Nat, ~revived' => ~revived,
         \A p \in Handlers : SlaAt(p, "resume")' => sla'[p].seen.status = "PAUSED",
         ~revived' /\ Legal =>
             /\ inst'.dueAt \in Dues
             /\ inst'.status = "ACTIVE" => /\ now' < inst'.dueAt => ran' + Between(now', inst'.dueAt) = Target
                                           /\ inst'.dueAt <= now' => ran' >= Target
             /\ inst'.status = "PAUSED" =>
                  /\ inst'.pausedAt \in 0..LastHour
                  /\ inst'.pausedAt < inst'.dueAt => ran' + Between(inst'.pausedAt, inst'.dueAt) = Target
                  /\ inst'.dueAt <= inst'.pausedAt => ran' >= Target
             /\ inst'.status = "BREACHED" => ran' >= Target
             /\ \A p \in Handlers : SlaAt(p, "notify")' /\ ~(sla'[p].picked \subseteq {"warning"}) => ran' >= Target
  PROVE  BudgetInv'
  <1>1. ASSUME ~revived', Legal PROVE OnBudget'
    <2>1. PICK n, d, t : n = now' /\ d = inst'.dueAt /\ t = inst'.pausedAt
      OBVIOUS
    <2>2. inst'.status = "ACTIVE" => Account(inst.dueAt, now)'
      <3>1. Between(n, d)' = Between(n, d)
        BY SamePolicy
      <3>2. Between(now, inst.dueAt)' = Between(n, d)
        BY <2>1 DEF Between
      <3> QED
        BY <1>1, <2>1, <3>2 DEF Account
    <2>3. inst'.status = "PAUSED" => Account(inst.dueAt, inst.pausedAt)'
      <3>1. Between(inst.pausedAt, inst.dueAt)' = Between(t, d)
        BY <2>1 DEF Between
      <3> QED
        BY <1>1, <2>1, <3>1 DEF Account
    <2>4. inst'.dueAt \in Dues'
      BY <1>1, SamePolicy
    <2> QED
      BY <1>1, <2>2, <2>3, <2>4 DEF OnBudget, SlaAt
  <1>2. Legal' <=> Legal
    BY SamePolicy
  <1> QED
    BY <1>1, <1>2 DEF BudgetInv, SlaAt

LEMMA SlaTicks == ASSUME BudgetInv, SlaTick PROVE BudgetInv'
  <1>1. /\ now \in Int /\ now' = now + 1 /\ now' \in 0..LastHour /\ \A p \in Handlers : ~SlaAt(p, "resume")
        /\ cal' = cal /\ inst' = inst /\ sla' = sla /\ revived' = revived
        /\ ran' = IF inst.status = "ACTIVE" /\ Counts(now) THEN ran + 1 ELSE ran
        /\ ran \in Nat /\ ran' \in Nat /\ ran <= ran'
    BY HandlingAssumption DEF SlaTick, SlaRuns, BudgetInv
  <1>2. SlaInv'
    BY <1>1 DEF BudgetInv, SlaInv
  <1>3. ASSUME ~revived, Legal, inst.status = "ACTIVE"
        PROVE  /\ now' < inst.dueAt => ran' + Between(now', inst.dueAt) = Target
               /\ inst.dueAt <= now' => ran' >= Target
    <2> DEFINE d == inst.dueAt
               hour == IF Counts(now) THEN 1 ELSE 0
    <2>1. d \in Dues /\ now \in 0..LastHour /\ Account(d, now)
      BY <1>3 DEF BudgetInv, OnBudget
    <2>2. /\ d \in Int /\ Between(now', d) \in Nat /\ (d <= now' => Between(now', d) = 0)
          /\ now < d => Between(now, d) = Between(now', d) + hour
      BY <1>1, <1>3, <2>1, BetweenCounts
    <2>3. ran' = ran + hour
      BY <1>1, <1>3
    <2>4. hour \in Nat
      OBVIOUS
    <2> HIDE DEF d, hour
    <2>5. CASE now < d
      <3>1. ran' + Between(now', d) = Target
        BY <1>1, <2>1, <2>2, <2>3, <2>4, <2>5 DEF Account
      <3> QED
        BY <1>1, <2>2, <3>1, SlaAssumption DEF d
    <2>6. CASE d <= now
      <3>1. ran' >= Target /\ d <= now'
        BY <1>1, <2>1, <2>2, <2>6, SlaAssumption DEF Account
      <3> QED
        BY <1>1, <2>2, <3>1 DEF d
    <2> QED
      BY <1>1, <2>2, <2>5, <2>6
  <1>4. ASSUME ~revived, Legal
        PROVE  /\ inst.dueAt \in Dues
               /\ inst.status = "PAUSED" =>
                    /\ inst.pausedAt \in 0..LastHour
                    /\ inst.pausedAt < inst.dueAt => ran' + Between(inst.pausedAt, inst.dueAt) = Target
                    /\ inst.dueAt <= inst.pausedAt => ran' >= Target
               /\ inst.status = "BREACHED" => ran' >= Target
               /\ \A p \in Handlers : SlaAt(p, "notify") /\ ~(sla[p].picked \subseteq {"warning"}) => ran' >= Target
    <2>1. OnBudget
      BY <1>4 DEF BudgetInv
    <2>2. inst.status # "ACTIVE" => ran' = ran
      BY <1>1
    <2>3. ran >= Target => ran' >= Target
      BY <1>1, SlaAssumption
    <2> QED
      BY <2>1, <2>2, <2>3 DEF OnBudget, Account
  <1> QED
    BY <1>1, <1>2, <1>3, <1>4, AccountsKept DEF SlaAt

\* Nothing is said of the instance: it, the clock and the account are as before.
LEMMA InstanceRests ==
  ASSUME BudgetInv, SlaInv', UNCHANGED <<cal, inst, now, ran, revived>>,
         \A p \in Handlers : SlaAt(p, "resume")' => sla'[p].seen.status = "PAUSED",
         ~revived /\ Legal => \A p \in Handlers : SlaAt(p, "notify")' /\ ~(sla'[p].picked \subseteq {"warning"}) => ran >= Target
  PROVE  BudgetInv'
  <1>1. now' \in 0..LastHour /\ ran' \in Nat
    BY DEF BudgetInv
  <1>2. ~revived /\ Legal => OnBudget
    BY DEF BudgetInv
  <1> QED
    BY <1>1, <1>2, AccountsKept DEF OnBudget, Account

\* A handler's next statement; the others stand where they stood.
LEMMA OthersStand ==
  ASSUME SlaInv, NEW p \in Handlers, NEW r, sla' = [sla EXCEPT ![p] = r]
  PROVE  sla'[p] = r /\ \A q \in Handlers : q # p => sla'[q] = sla[q]
  <1>1. sla = [q \in Handlers |-> sla[q]]
    BY DEF SlaInv
  <1>2. sla' = [q \in Handlers |-> IF q = p THEN r ELSE sla[q]]
    BY <1>1
  <1> QED
    BY <1>2

LEMMA Requested == ASSUME BudgetInv, NEW p \in Handlers, SlaRequest(p) \/ SlaCrash(p) PROVE BudgetInv'
  <1>0. SlaInv /\ IsStep(sla[p]) /\ now \in 0..LastHour /\ ran \in Nat
        /\ \A q \in Handlers : SlaAt(q, "resume") => sla[q].seen.status = "PAUSED"
    BY DEF BudgetInv, SlaInv
  <1>1. SlaInv'
    BY <1>0, SlaRequests, SlaWrites DEF SlaWrite
  <1>2. ~revived /\ Legal => OnBudget
    BY DEF BudgetInv
  <1>3. CASE UNCHANGED sla /\ UNCHANGED <<cal, inst, now, ran, revived>>
    BY <1>0, <1>1, <1>2, <1>3, InstanceRests DEF OnBudget, SlaAt
  <1>4. ASSUME NEW r, sla' = [sla EXCEPT ![p] = r], UNCHANGED <<cal, inst, now, ran, revived>>,
               r.pc = "resume" => r.seen.status = "PAUSED",
               ~revived /\ Legal => (r.pc = "notify" /\ ~(r.picked \subseteq {"warning"}) => ran >= Target)
        PROVE  BudgetInv'
    <2>1. sla'[p] = r /\ \A q \in Handlers : q # p => sla'[q] = sla[q]
      BY <1>0, <1>4, OthersStand
    <2>2. \A q \in Handlers : SlaAt(q, "resume")' => sla'[q].seen.status = "PAUSED"
      BY <1>0, <1>4, <2>1 DEF SlaAt
    <2>3. ~revived /\ Legal => \A q \in Handlers : SlaAt(q, "notify")' /\ ~(sla'[q].picked \subseteq {"warning"}) => ran >= Target
      BY <1>2, <1>4, <2>1 DEF SlaAt, OnBudget
    <2> QED
      BY <1>1, <1>4, <2>2, <2>3, InstanceRests
  <1>5. sla[p] = [i \in {"pc", "seen", "picked", "to"} |-> sla[p][i]] /\ sla = [q \in Handlers |-> sla[q]]
    BY <1>0 DEF IsStep, SlaInv
  <1>6. CASE FinishByUpdate(p)
    <2>1. PICK to : sla' = [sla EXCEPT ![p].pc = "finalize", ![p].to = to]
      BY <1>6 DEF FinishByUpdate
    <2> DEFINE r == [sla[p] EXCEPT !.pc = "finalize", !.to = to]
    <2>2. sla' = [sla EXCEPT ![p] = r] /\ r.pc = "finalize"
      BY <1>5, <2>1
    <2>3. UNCHANGED <<cal, inst, now, ran, revived>>
      BY <1>6 DEF FinishByUpdate, SlaBegins
    <2> HIDE DEF r
    <2> QED
      BY <1>4, <2>2, <2>3
  <1>7. CASE FinishByMove(p) \/ Reopen(p)
    BY <1>3, <1>7 DEF FinishByMove, Reopen, SlaBegins
  <1>8. CASE ResumeRead(p)
    <2>1. sla' = [sla EXCEPT ![p].pc = "resume", ![p].seen = inst] /\ inst.status = "PAUSED"
      BY <1>8 DEF ResumeRead
    <2> DEFINE r == [sla[p] EXCEPT !.pc = "resume", !.seen = inst]
    <2>2. sla' = [sla EXCEPT ![p] = r] /\ r.pc = "resume" /\ r.seen = inst
      BY <1>5, <2>1
    <2>3. UNCHANGED <<cal, inst, now, ran, revived>>
      BY <1>8 DEF ResumeRead, SlaBegins
    <2> HIDE DEF r
    <2> QED
      BY <1>4, <2>1, <2>2, <2>3
  <1>9. CASE PollSla(p)
    <2> DEFINE ripe == inst.status = "ACTIVE" /\ ~inst.breached /\ inst.dueAt <= now
    <2>1. PICK warning : sla' = [sla EXCEPT ![p].pc = "notify", ![p].picked =
                                   {k \in Notices : IF k = "warning" THEN warning ELSE ripe}]
      BY <1>9 DEF PollSla
    <2> DEFINE picks == {k \in Notices : IF k = "warning" THEN warning ELSE ripe}
               r == [sla[p] EXCEPT !.pc = "notify", !.picked = picks]
    <2>2. sla' = [sla EXCEPT ![p] = r] /\ r.pc = "notify" /\ r.picked = picks
      BY <1>5, <2>1
    <2>3. ~(picks \subseteq {"warning"}) => inst.status = "ACTIVE" /\ inst.dueAt <= now
      BY DEF Notices
    <2>4. ~revived /\ Legal /\ ~(picks \subseteq {"warning"}) => ran >= Target
      BY <1>2, <2>3 DEF OnBudget, Account
    <2>5. UNCHANGED <<cal, inst, now, ran, revived>>
      BY <1>9 DEF PollSla, SlaBegins
    <2> HIDE DEF picks, r
    <2> QED
      BY <1>4, <2>2, <2>4, <2>5
  <1>10. CASE SlaCrash(p)
    <2>1. sla' = [sla EXCEPT ![p] = SlaRest] /\ UNCHANGED <<cal, inst, now, ran, revived>>
      BY <1>10 DEF SlaCrash, SlaEnds
    <2> QED
      BY <1>4, <2>1, SlaRestShape
  <1>11. CASE Pause(p)
    <2>1. /\ inst' = [inst EXCEPT !.status = "PAUSED", !.pausedAt = now] /\ inst.status = "ACTIVE"
          /\ UNCHANGED <<cal, sla, ran, revived, now>>
      BY <1>11 DEF Pause, SlaBegins
    <2>2. IsInstance(inst)
      BY <1>0 DEF SlaInv
    <2>3. inst'.status = "PAUSED" /\ inst'.pausedAt = now /\ inst'.dueAt = inst.dueAt
      BY <2>1, <2>2 DEF IsInstance
    <2> QED
      BY <1>0, <1>1, <1>2, <2>1, <2>3, AccountsKept DEF OnBudget, Account, SlaAt
  <1> QED
    BY <1>6, <1>7, <1>8, <1>9, <1>10, <1>11 DEF SlaRequest

\* A row of the same due time, under the same clock and account.
LEMMA RowChanges ==
  ASSUME BudgetInv, SlaInv', UNCHANGED <<cal, now, ran, revived>>, inst'.dueAt = inst.dueAt,
         \/ inst'.status = inst.status /\ inst'.pausedAt = inst.pausedAt
         \/ inst'.status \in {"MET", "CANCELLED"}
         \/ inst'.status = "BREACHED" /\ (~revived /\ Legal => ran >= Target),
         \A q \in Handlers : /\ SlaAt(q, "resume")' => sla'[q] = sla[q]
                             /\ SlaAt(q, "notify")' => SlaAt(q, "notify") /\ sla'[q].picked \subseteq sla[q].picked
  PROVE  BudgetInv'
  <1>1. now' \in 0..LastHour /\ ran' \in Nat
        /\ \A q \in Handlers : SlaAt(q, "resume")' => sla'[q].seen.status = "PAUSED"
    BY DEF BudgetInv, SlaAt
  <1>2. ~revived /\ Legal => OnBudget
    BY DEF BudgetInv
  <1>3. ~revived /\ Legal => \A q \in Handlers : SlaAt(q, "notify")' /\ ~(sla'[q].picked \subseteq {"warning"}) => ran >= Target
    BY <1>2 DEF OnBudget
  <1>4. ~revived /\ Legal =>
          /\ inst.dueAt \in Dues
          /\ inst.status = "ACTIVE" => Account(inst.dueAt, now)
          /\ inst.status = "PAUSED" => inst.pausedAt \in 0..LastHour /\ Account(inst.dueAt, inst.pausedAt)
          /\ inst.status = "BREACHED" => ran >= Target
    BY <1>2 DEF OnBudget
  <1> QED
    BY <1>1, <1>3, <1>4, AccountsKept DEF Account

LEMMA Written ==
  ASSUME BudgetInv, NEW p \in Handlers, FinalizeTaskSla(p) \/ ResumeWrite(p) \/ NotifySla(p)
  PROVE  BudgetInv'
  <1>0. SlaInv /\ IsStep(sla[p]) /\ IsInstance(inst) /\ now \in 0..LastHour /\ ran \in Nat
        /\ sla = [q \in Handlers |-> sla[q]]
        /\ \A q \in Handlers : SlaAt(q, "resume") => sla[q].seen.status = "PAUSED"
    BY DEF BudgetInv, SlaInv
  <1>1. SlaInv'
    BY <1>0, SlaWrites DEF SlaWrite
  <1>2. ~revived /\ Legal => OnBudget
    BY DEF BudgetInv
  <1>3. ASSUME sla' = [sla EXCEPT ![p] = SlaRest]
        PROVE  \A q \in Handlers : /\ SlaAt(q, "resume")' => sla'[q] = sla[q] /\ q # p
                                   /\ SlaAt(q, "notify")' => sla'[q] = sla[q]
    BY <1>0, <1>3, OthersStand, SlaRestShape DEF SlaAt
  <1>4. CASE FinalizeTaskSla(p)
    <2>1. /\ sla' = [sla EXCEPT ![p] = SlaRest] /\ UNCHANGED <<cal, now, ran, revived>>
          /\ \/ inst' = inst
             \/ \E s \in {"MET", "CANCELLED"} : inst' = [inst EXCEPT !.status = s, !.pausedAt = Never]
      BY <1>4 DEF FinalizeTaskSla, SlaEnds
    <2>2. inst'.dueAt = inst.dueAt /\ (inst' = inst \/ inst'.status \in {"MET", "CANCELLED"})
      BY <1>0, <2>1 DEF IsInstance
    <2> QED
      BY <1>1, <1>3, <2>1, <2>2, RowChanges DEF SlaAt
  <1>5. CASE NotifySla(p)
    <2>1. PICK k \in sla[p].picked :
            /\ sla[p].pc = "notify" /\ UNCHANGED <<cal, now, ran, revived>>
            /\ sla' = [sla EXCEPT ![p] = SlaRest] \/ sla' = [sla EXCEPT ![p].picked = @ \ {k}]
            /\ \/ inst' = inst
               \/ \E b : inst' = [inst EXCEPT !.warned = b]
               \/ k # "warning" /\ inst' = [inst EXCEPT !.breached = TRUE, !.status = "BREACHED"]
      BY <1>5, Zenon DEF NotifySla, SlaEnds, SlaAt
    <2>2. \A q \in Handlers : /\ SlaAt(q, "resume")' => sla'[q] = sla[q]
                              /\ SlaAt(q, "notify")' => SlaAt(q, "notify") /\ sla'[q].picked \subseteq sla[q].picked
      <3>1. CASE sla' = [sla EXCEPT ![p] = SlaRest]
        BY <1>3, <3>1 DEF SlaAt
      <3>2. CASE sla' = [sla EXCEPT ![p].picked = @ \ {k}]
        <4> DEFINE r == [sla[p] EXCEPT !.picked = @ \ {k}]
        <4>1. sla' = [sla EXCEPT ![p] = r]
          BY <1>0, <3>2
        <4>2. r.pc = "notify" /\ r.picked = sla[p].picked \ {k}
          BY <1>0, <2>1 DEF IsStep
        <4> HIDE DEF r
        <4>3. sla'[p] = r /\ \A q \in Handlers : q # p => sla'[q] = sla[q]
          BY <1>0, <4>1, OthersStand
        <4> QED
          BY <2>1, <4>2, <4>3 DEF SlaAt
      <3> QED
        BY <2>1, <3>1, <3>2
    <2>3. /\ inst'.dueAt = inst.dueAt
          /\ \/ inst'.status = inst.status /\ inst'.pausedAt = inst.pausedAt
             \/ inst'.status = "BREACHED" /\ k # "warning"
      <3>1. \A b : LET i == [inst EXCEPT !.warned = b] IN
              i.dueAt = inst.dueAt /\ i.status = inst.status /\ i.pausedAt = inst.pausedAt
        BY <1>0 DEF IsInstance
      <3>2. LET i == [inst EXCEPT !.breached = TRUE, !.status = "BREACHED"] IN
              i.dueAt = inst.dueAt /\ i.status = "BREACHED"
        BY <1>0 DEF IsInstance
      <3> QED
        BY <2>1, <3>1, <3>2
    <2>4. ~revived /\ Legal /\ k # "warning" => ran >= Target
      BY <1>2, <2>1 DEF OnBudget, SlaAt
    <2> QED
      BY <1>1, <2>1, <2>2, <2>3, <2>4, RowChanges
  <1>6. CASE ResumeWrite(p)
    <2> DEFINE r == sla[p].seen
               d == After(now, Between(r.pausedAt, r.dueAt))
               w == IF r.warningAt = Never THEN Never ELSE After(now, Between(r.pausedAt, r.warningAt))
    <2>1. /\ sla' = [sla EXCEPT ![p] = SlaRest] /\ UNCHANGED <<cal, now, ran>> /\ SlaAt(p, "resume")
          /\ inst' = [Resumed(r) EXCEPT !.warned = inst.warned, !.breached = inst.breached]
          /\ revived' = (revived \/ inst # r)
      BY <1>6 DEF ResumeWrite, SlaEnds
    <2>2. IsInstance(r)
      BY <1>0 DEF IsStep
    <2>3. Resumed(r) = [r EXCEPT !.status = "ACTIVE", !.pausedAt = Never, !.dueAt = d, !.warningAt = w]
      BY Zenon DEF Resumed
    <2>4. inst'.status = "ACTIVE" /\ inst'.dueAt = d
      <3> HIDE DEF d, w, r
      <3> QED
        BY <2>1, <2>2, <2>3 DEF IsInstance
    <2>5. ~revived' => ~revived /\ inst = r
      BY <2>1
    <2>6. \A q \in Handlers : /\ SlaAt(q, "resume")' => sla'[q] = sla[q]
                              /\ SlaAt(q, "notify")' => sla'[q] = sla[q]
      BY <1>3, <2>1
    <2>7. ASSUME ~revived', Legal
          PROVE  /\ d \in Dues
                 /\ now < d => ran + Between(now, d) = Target
                 /\ d <= now => ran >= Target
                 /\ \A q \in Handlers : SlaAt(q, "notify")' /\ ~(sla'[q].picked \subseteq {"warning"}) => ran >= Target
      <3> DEFINE n == Between(inst.pausedAt, inst.dueAt)
      <3>1. OnBudget /\ inst = r /\ inst.status = "PAUSED"
        BY <1>0, <1>2, <2>1, <2>5, <2>7
      <3>2. inst.dueAt \in Dues /\ inst.pausedAt \in 0..LastHour /\ Account(inst.dueAt, inst.pausedAt)
        BY <3>1 DEF OnBudget
      <3>3. inst.dueAt \in Int /\ n \in Nat /\ (inst.dueAt <= inst.pausedAt => n = 0)
        BY <2>7, <3>2, BetweenCounts
      <3>4. n \in 0..Target /\ (ran + n = Target \/ (n = 0 /\ ran >= Target))
        <4>1. inst.pausedAt \in Int /\ (inst.pausedAt < inst.dueAt \/ inst.dueAt <= inst.pausedAt)
          BY <3>2, <3>3
        <4>2. inst.pausedAt < inst.dueAt => ran + n = Target
          BY <3>2 DEF Account
        <4>3. inst.dueAt <= inst.pausedAt => n = 0 /\ ran >= Target
          BY <3>2, <3>3 DEF Account
        <4> HIDE DEF n
        <4> QED
          BY <1>0, <3>3, <4>1, <4>2, <4>3, SlaAssumption
      <3>5. d = After(now, n)
        BY <3>1
      <3> HIDE DEF n, d
      <3>6. d \in Dues /\ (now < d => Between(now, d) = n) /\ (d <= now <=> n = 0)
        BY <1>0, <2>7, <3>4, <3>5, AfterCounts
      <3>7. (now < d => ran + Between(now, d) = Target) /\ (d <= now => ran >= Target)
        <4>1. CASE ran + n = Target
          BY <1>0, <3>6, <4>1, SlaAssumption
        <4>2. CASE n = 0 /\ ran >= Target
          <5>1. d \in Int /\ now \in Int
            BY <1>0, <3>6, EndIsNat DEF Dues
          <5> QED
            BY <3>6, <4>2, <5>1
        <4> QED
          BY <3>4, <4>1, <4>2
      <3>8. \A q \in Handlers : SlaAt(q, "notify")' /\ ~(sla'[q].picked \subseteq {"warning"}) => ran >= Target
        BY <2>6, <3>1 DEF OnBudget, SlaAt
      <3> QED
        BY <3>6, <3>7, <3>8
    <2> HIDE DEF d, w, r
    <2>8. \A q \in Handlers : SlaAt(q, "resume")' => sla'[q].seen.status = "PAUSED"
      BY <1>0, <2>6 DEF SlaAt
    <2> QED
      BY <1>0, <1>1, <2>1, <2>4, <2>5, <2>7, <2>8, AccountsKept
  <1> QED
    BY <1>4, <1>5, <1>6

LEMMA BudgetSteps == BudgetInv /\ [SlaNext]_<<slaVars, now, served>> => BudgetInv'
  <1> SUFFICES ASSUME BudgetInv, [SlaNext]_<<slaVars, now, served>> PROVE BudgetInv'
    OBVIOUS
  <1>1. CASE UNCHANGED <<slaVars, now, served>>
    <2>1. UNCHANGED <<cal, inst, status, sla, ran, revived, now>>
      BY <1>1 DEF slaVars
    <2>2. SlaInv'
      BY <2>1 DEF BudgetInv, SlaInv
    <2> QED
      BY <2>1, <2>2, InstanceRests DEF BudgetInv, OnBudget, SlaAt
  <1>2. CASE SlaTick
    BY <1>2, SlaTicks
  <1>3. ASSUME NEW p \in Handlers, SlaRequest(p) \/ SlaCrash(p) PROVE BudgetInv'
    BY <1>3, Requested
  <1>4. ASSUME NEW p \in Handlers, FinalizeTaskSla(p) \/ ResumeWrite(p) \/ NotifySla(p) PROVE BudgetInv'
    BY <1>4, Written
  <1> QED
    BY <1>1, <1>2, <1>3, <1>4 DEF SlaNext, SlaRequest

LEMMA BudgetHolds == BudgetInv => BudgetKept
  BY DEF BudgetInv, OnBudget, Account, BudgetKept, Legal

\* Of every instance, under any policy and any calendar that closes before
\* midnight: what it ran and what it has left make the target, and it is
\* breached when that is used up (sla.service.ts pause, resume and the
\* worker's poll).
THEOREM BudgetsAreKept == SlaSpec => []BudgetKept
  <1>1. HandlingInit /\ SlaInit => BudgetInv
    BY BudgetInitial
  <1>2. BudgetInv /\ [SlaNext]_<<slaVars, now, served>> => BudgetInv'
    BY BudgetSteps
  <1> QED
    BY <1>1, <1>2, BudgetHolds, PTL DEF SlaSpec

-----------------------------------------------------------------------------
(* Workflows: for any tasks, stages, handlers and any number of edits and       *)
(* publications, every live task stands where the applied version has a stage,  *)
(* and its status says which.                                                   *)

-----------------------------------------------------------------------------
(* The invariant *)

TaskStates == {"absent", "away", "live", "deleted"}
AllStatuses == {"TODO", "IN_PROGRESS", "BLOCKED", "DONE", "CANCELLED"}
AnyStage == (Nat \X StageNames) \cup {NoStage}
ItemRow == [state : TaskStates, stage : AnyStage, status : AllStatuses, dependencyBlocked : BOOLEAN, version : Nat]
Mappings == UNION {[S -> StageNames] : S \in SUBSET (StageNames \cup AllStatuses)}
FlowReqType == [pc : {"idle", "draft", "edit", "create", "move", "depend", "remap", "commit"}, t : Items,
                seen : [Items -> ItemRow], applied : Nat, content : ContentType, to : AnyStage,
                status : AllStatuses, mapping : Mappings]

FlowRows == /\ item \in [Items -> ItemRow]
            /\ flowReq \in [Handlers -> FlowReqType]
            /\ draft \in [state : {"none", "DRAFT", "ARCHIVED"}, content : ContentType]
            /\ applied \in Nat \ {0} /\ DOMAIN flow = 1..applied
            /\ \A v \in 1..applied : flow[v] \in ContentType

\* A stage some published version has.
KnownTo(f, a, s) == s[1] \in 1..a /\ s[2] \in f[s[1]].active
Known(s) == KnownTo(flow, applied, s)
Placed == \A t \in Items : item[t].stage = NoStage \/ Known(item[t].stage)
Carried == \A t \in Items \ strayed :
    item[t].state = "live" => item[t].stage = NoStage \/ item[t].stage[1] = applied
\* The status a task shows: what a dependency wrote, or what its stage stands for.
StatusShown(itm, byDependency) ==
    IF byDependency THEN itm.status = IF itm.dependencyBlocked THEN "BLOCKED" ELSE "TODO"
    ELSE itm.stage = NoStage \/ itm.status = StatusOf[itm.stage[2]]
StatusFollows == \A t \in Items \ loose : StatusShown(item[t], t \in handed)

HandedThere == \A t \in Items : t \in handed => item[t].state # "absent"

\* A handler that creates a task is the only one to, and has resolved its stage.
CreatesSafely(r) == r.pc = "create" =>
    /\ item[r.t].state = "absent"
    /\ r.to = NoStage \/ (r.to[1] = r.applied /\ Known(r.to))
\* A task that is moved stood on a stage, one that is brought in has none here.
StillThere(r, itm, astray, v) ==
    /\ itm.state = r.seen[r.t].state /\ itm.state \in {"live", "away"}
    /\ itm.state = "live" => itm.stage # NoStage /\ (astray \/ r.to[1] = v)
\* A task whose version is still the one that was read has not been carried to
\* another workflow since.
MovesSafely(r) == r.pc = "move" =>
    /\ item[r.t].state # "absent" /\ Known(r.to)
    /\ r.seen[r.t].version <= item[r.t].version
    /\ r.seen[r.t].version = item[r.t].version => StillThere(r, item[r.t], r.t \in strayed, applied)
\* What a dependency blocks or releases is a task.
DependsSafely(r) == r.pc = "depend" => item[r.t].state # "absent" /\ r.status \in {"BLOCKED", "TODO"}
Source(itm) == IF itm.stage = NoStage THEN itm.status ELSE itm.stage[2]
PublishesSafely(r) ==
    /\ r.pc \in {"remap", "commit"} => r.applied = applied
    /\ r.pc = "commit" => \A t \in Items : r.seen[t].state = "live" =>
         Source(r.seen[t]) \in DOMAIN r.mapping /\ r.mapping[Source(r.seen[t])] \in r.content.active
Safely(r) == CreatesSafely(r) /\ MovesSafely(r) /\ DependsSafely(r) /\ PublishesSafely(r)

OneCreator == \A p, q \in Handlers :
    FlowAt(p, "create") /\ FlowAt(q, "create") /\ flowReq[p].t = flowReq[q].t => p = q
OnePublisher == \A p, q \in Handlers : Consuming(p) /\ Consuming(q) => p = q

FlowInv == /\ FlowRows /\ Placed /\ Carried /\ StatusFollows /\ HandedThere
           /\ \A p \in Handlers : Safely(flowReq[p])
           /\ OneCreator /\ OnePublisher

-----------------------------------------------------------------------------
(* Rows *)

LEMMA RestRow == AbsentItem \in ItemRow
  BY DEF AbsentItem, ItemRow, TaskStates, AnyStage, AllStatuses

LEMMA EmptyContent == Empty \in ContentType
  BY DEF Empty, ContentType

LEMMA RestRequest == FlowRest \in FlowReqType /\ FlowRest.pc = "idle" /\ FlowRest.applied = 1
  <1>1. (CHOOSE t \in Items : TRUE) \in Items
    BY StageAssumption
  <1>2. [t \in Items |-> AbsentItem] \in [Items -> ItemRow]
    BY RestRow
  <1>3. [k \in {} |-> k] \in Mappings
    <2>1. [k \in {} |-> k] \in [{} -> StageNames]
      OBVIOUS
    <2> QED
      BY <2>1 DEF Mappings
  <1> QED
    BY <1>1, <1>2, <1>3, EmptyContent DEF FlowRest, FlowReqType, AnyStage, AllStatuses

LEMMA DefaultContent == Default \in ContentType
  <1>1. (CHOOSE k \in StageNames : StatusOf[k] = "TODO") \in StageNames
    BY StageAssumption
  <1> QED
    BY <1>1 DEF Default, ContentType

LEMMA FlowInitial == HandlingInit /\ FlowInit => FlowInv
  <1> SUFFICES ASSUME FlowInit PROVE FlowInv
    OBVIOUS
  <1>1. /\ flow = [v \in {1} |-> Default] /\ applied = 1
        /\ draft = [state |-> "none", content |-> Empty]
        /\ flowReq = [p \in Handlers |-> FlowRest]
    BY DEF FlowInit
  <1>2. item \in [Items -> {AbsentItem} \cup {[AbsentItem EXCEPT !.state = s, !.version = 1] : s \in {"live", "away"}}]
    BY DEF FlowInit
  <1>3. item \in [Items -> ItemRow] /\ \A t \in Items : item[t].stage = NoStage
    <2>1. ASSUME NEW st \in {"live", "away"}
          PROVE  /\ [AbsentItem EXCEPT !.state = st, !.version = 1] \in ItemRow
                 /\ [AbsentItem EXCEPT !.state = st, !.version = 1].stage = NoStage
      BY RestRow DEF ItemRow, TaskStates, AbsentItem
    <2>2. AbsentItem.stage = NoStage
      BY DEF AbsentItem
    <2>3. ASSUME NEW t \in Items PROVE item[t] \in ItemRow /\ item[t].stage = NoStage
      <3>1. item[t] \in {AbsentItem} \cup {[AbsentItem EXCEPT !.state = st, !.version = 1] : st \in {"live", "away"}}
        BY <1>2
      <3> QED
        BY <2>1, <2>2, <3>1, RestRow
    <2> QED
      BY <1>2, <2>3
  <1>4. FlowRows
    <2>1. DOMAIN flow = 1..applied /\ \A v \in 1..applied : flow[v] \in ContentType
      BY <1>1, DefaultContent
    <2> QED
      BY <1>1, <1>3, <2>1, RestRequest, EmptyContent DEF FlowRows
  <1>5. \A p \in Handlers : flowReq[p].pc = "idle"
    BY <1>1, RestRequest
  <1>6. handed = {}
    BY DEF FlowInit
  <1> QED
    BY <1>1, <1>3, <1>4, <1>5, <1>6 DEF FlowInv, Placed, Carried, StatusFollows, StatusShown, Safely, CreatesSafely, MovesSafely,
       DependsSafely, PublishesSafely, HandedThere, OneCreator, OnePublisher, FlowAt, Consuming

-----------------------------------------------------------------------------
(* Steps that change neither tasks nor versions *)

LEMMA RequestStep ==
  ASSUME FlowInv, NEW p \in Handlers, UNCHANGED <<flow, applied, item, strayed, loose, handed>>,
         draft' \in [state : {"none", "DRAFT", "ARCHIVED"}, content : ContentType],
         NEW r \in FlowReqType, flowReq' = [flowReq EXCEPT ![p] = r], Safely(r),
         r.pc = "create" => \A q \in Handlers : FlowAt(q, "create") => flowReq[q].t # r.t,
         r.pc \in {"remap", "commit"} => \A q \in Handlers : Consuming(q) => q = p
  PROVE  FlowInv'
  <1>1. flowReq' \in [Handlers -> FlowReqType] /\ \A q \in Handlers : flowReq'[q] = IF q = p THEN r ELSE flowReq[q]
    BY DEF FlowInv, FlowRows
  <1>2. FlowRows' /\ Placed' /\ Carried' /\ StatusFollows' /\ HandedThere'
    BY <1>1 DEF FlowInv, FlowRows, Placed, Carried, StatusFollows, StatusShown, HandedThere, Known, KnownTo
  <1>3. ASSUME NEW q \in Handlers PROVE Safely(flowReq[q])'
    <2>1. Safely(flowReq'[q])
      BY <1>1 DEF FlowInv
    <2> QED
      BY <2>1 DEF Safely, CreatesSafely, MovesSafely, StillThere, DependsSafely, PublishesSafely, Known, KnownTo
  <1>4. OneCreator' /\ OnePublisher'
    BY <1>1 DEF FlowInv, OneCreator, OnePublisher, FlowAt, Consuming
  <1> QED
    BY <1>2, <1>3, <1>4 DEF FlowInv

LEMMA RestSafely == Safely(FlowRest)
  BY RestRequest DEF Safely, CreatesSafely, MovesSafely, StillThere, DependsSafely, PublishesSafely

\* Every stage a status resolves to is active.
LEMMA StageForActive == ASSUME NEW v, NEW st PROVE StageFor(v, st) \subseteq flow[v].active
  BY DEF StageFor

DraftRow == [state : {"none", "DRAFT", "ARCHIVED"}, content : ContentType]

\* A request that ends without touching tasks and versions.
LEMMA RestStep ==
  ASSUME FlowInv, NEW p \in Handlers, UNCHANGED <<flow, applied, item, strayed, loose, handed>>,
         draft' \in DraftRow, FlowEnds(p)
  PROVE  FlowInv'
  BY RequestStep, RestRequest, RestSafely DEF FlowEnds, DraftRow

LEMMA EditsTyped == ASSUME NEW d \in ContentType PROVE Edits(d) \subseteq ContentType
  <1>1. ASSUME NEW k \in StageNames PROVE [d EXCEPT !.stages = @ \cup {k}, !.active = @ \cup {k}] \in ContentType
    BY DEF ContentType
  <1>2. ASSUME NEW k \in StageNames PROVE [d EXCEPT !.initial = {k}] \in ContentType
    BY DEF ContentType
  <1>3. ASSUME NEW k \in StageNames PROVE [d EXCEPT !.initial = @ \ {k}] \in ContentType
    BY DEF ContentType
  <1>4. ASSUME NEW k \in StageNames PROVE [d EXCEPT !.active = (@ \ {k}) \cup ({k} \ @)] \in ContentType
    BY DEF ContentType
  <1>5. ASSUME NEW k \in StageNames
        PROVE  [stages |-> d.stages \ {k}, active |-> d.active \ {k}, initial |-> d.initial \ {k}] \in ContentType
    BY DEF ContentType
  <1>6. d.stages \subseteq StageNames
    BY DEF ContentType
  <1> QED
    BY <1>1, <1>2, <1>3, <1>4, <1>5, <1>6 DEF Edits

\* The first reads of a request, and edits of the draft.
DraftStep(p) == AskDraft(p) \/ CreateDraft(p) \/ EditRead(p) \/ EditWrite(p)
LEMMA DraftSteps == ASSUME FlowInv, NEW p \in Handlers, DraftStep(p) PROVE FlowInv'
  <1>1. draft \in DraftRow /\ draft.content \in ContentType /\ flowReq[p] \in FlowReqType /\ flow[applied] \in ContentType
    BY DEF FlowInv, FlowRows, DraftRow
  <1>2. CASE AskDraft(p)
    <2> DEFINE r == [FlowRest EXCEPT !.pc = "draft", !.content = flow[applied]]
    <2>1. r \in FlowReqType /\ r.pc = "draft"
      BY <1>1, RestRequest DEF FlowReqType
    <2>2. Safely(r)
      BY <2>1 DEF Safely, CreatesSafely, MovesSafely, StillThere, DependsSafely, PublishesSafely
    <2>3. flowReq' = [flowReq EXCEPT ![p] = r] /\ UNCHANGED <<flow, applied, draft, item, strayed, loose, handed>>
      BY <1>2 DEF AskDraft, FlowStep
    <2> HIDE DEF r
    <2> QED
      BY <1>1, <2>1, <2>2, <2>3, RequestStep DEF DraftRow
  <1>3. CASE EditRead(p)
    <2> DEFINE r == [FlowRest EXCEPT !.pc = "edit"]
    <2>1. r \in FlowReqType /\ r.pc = "edit"
      BY RestRequest DEF FlowReqType
    <2>2. Safely(r)
      BY <2>1 DEF Safely, CreatesSafely, MovesSafely, StillThere, DependsSafely, PublishesSafely
    <2>3. flowReq' = [flowReq EXCEPT ![p] = r] /\ UNCHANGED <<flow, applied, draft, item, strayed, loose, handed>>
      BY <1>3 DEF EditRead, FlowStep
    <2> HIDE DEF r
    <2> QED
      BY <1>1, <2>1, <2>2, <2>3, RequestStep DEF DraftRow
  <1>4. CASE CreateDraft(p)
    <2>1. draft' \in DraftRow
      BY <1>1, <1>4 DEF CreateDraft, DraftRow, FlowReqType
    <2> QED
      BY <1>4, <2>1, RestStep DEF CreateDraft
  <1>5. CASE EditWrite(p)
    <2>1. PICK c \in Edits(draft.content) : draft' = [draft EXCEPT !.content = c]
      BY <1>5 DEF EditWrite
    <2>2. c \in ContentType
      BY <1>1, <2>1, EditsTyped
    <2>3. draft' \in DraftRow
      BY <1>1, <2>1, <2>2 DEF DraftRow
    <2> QED
      BY <1>5, <2>3, RestStep DEF EditWrite
  <1> QED
    BY <1>2, <1>3, <1>4, <1>5 DEF DraftStep

\* A task is about to be created on, moved or brought to a stage of the applied
\* version, or to be blocked or released by a dependency.
TaskRead(p) == CreateItem(p) \/ MoveItem(p) \/ BringItem(p) \/ BlockItem(p) \/ ReleaseItem(p)
LEMMA TaskReads == ASSUME FlowInv, NEW p \in Handlers, TaskRead(p) PROVE FlowInv'
  <1>1. draft \in DraftRow /\ applied \in 1..applied /\ applied \in Nat /\ flow[applied] \in ContentType
    BY DEF FlowInv, FlowRows, DraftRow
  <1>2. CASE CreateItem(p)
    <2>1. PICK t \in Items, st \in TaskStatuses, to \in AnyStage :
            /\ item[t].state = "absent" /\ \A q \in Handlers : FlowAt(q, "create") => flowReq[q].t # t
            /\ to = NoStage \/ (to[1] = applied /\ to[2] \in flow[applied].active)
            /\ FlowStep(p, [FlowRest EXCEPT !.pc = "create", !.t = t, !.applied = applied, !.to = to, !.status = st])
            /\ UNCHANGED <<flow, applied, draft, item, strayed, loose, handed>>
      <3>1. PICK t \in Items, st \in TaskStatuses : LET fit == StageFor(applied, st) IN
              /\ item[t].state = "absent" /\ \A q \in Handlers : FlowAt(q, "create") => flowReq[q].t # t
              /\ \E to \in IF fit = {} THEN {NoStage} ELSE {applied} \X fit :
                   FlowStep(p, [FlowRest EXCEPT !.pc = "create", !.t = t, !.applied = applied, !.to = to, !.status = st])
        BY <1>2 DEF CreateItem
      <3> DEFINE fit == StageFor(applied, st)
      <3>2. fit \subseteq flow[applied].active /\ flow[applied].active \subseteq StageNames
        BY <1>1, StageForActive DEF ContentType
      <3>3. PICK to \in IF fit = {} THEN {NoStage} ELSE {applied} \X fit :
              FlowStep(p, [FlowRest EXCEPT !.pc = "create", !.t = t, !.applied = applied, !.to = to, !.status = st])
        BY <3>1
      <3> HIDE DEF fit
      <3>4. to \in AnyStage /\ (to = NoStage \/ (to[1] = applied /\ to[2] \in flow[applied].active))
        BY <1>1, <3>2, <3>3 DEF AnyStage
      <3> QED
        BY <1>2, <3>1, <3>3, <3>4 DEF CreateItem
    <2> DEFINE r == [FlowRest EXCEPT !.pc = "create", !.t = t, !.applied = applied, !.to = to, !.status = st]
    <2>2. /\ r \in FlowReqType
          /\ r.pc = "create" /\ r.t = t /\ r.applied = applied /\ r.to = to
      BY <1>1, RestRequest, StageAssumption DEF FlowReqType, TaskStatuses, AllStatuses
    <2>3. flowReq' = [flowReq EXCEPT ![p] = r] /\ UNCHANGED <<flow, applied, draft, item, strayed, loose, handed>>
      BY <2>1 DEF FlowStep
    <2> HIDE DEF r
    <2>4. Safely(r)
      BY <1>1, <2>1, <2>2 DEF Safely, CreatesSafely, MovesSafely, StillThere, DependsSafely, PublishesSafely, Known, KnownTo
    <2> QED
      BY <1>1, <2>1, <2>2, <2>3, <2>4, RequestStep DEF DraftRow
  <1>3. CASE MoveItem(p) \/ BringItem(p)
    <2>1. PICK t \in Items, k \in flow[applied].active :
            /\ item[t].state \in {"live", "away"} /\ (item[t].state = "live" => AppliedStage(item[t].stage))
            /\ FlowStep(p, [FlowRest EXCEPT !.pc = "move", !.t = t, !.seen = item, !.to = <<applied, k>>])
            /\ UNCHANGED <<flow, applied, draft, item, strayed, loose, handed>>
      <3>1. CASE MoveItem(p)
        BY <3>1 DEF MoveItem, Live
      <3>2. CASE BringItem(p)
        BY <3>2 DEF BringItem
      <3> QED
        BY <1>3, <3>1, <3>2
    <2> DEFINE r == [FlowRest EXCEPT !.pc = "move", !.t = t, !.seen = item, !.to = <<applied, k>>]
    <2>2. /\ item[t].state \in {"live", "away"} /\ (item[t].state = "live" => item[t].stage # NoStage)
          /\ k \in StageNames /\ item \in [Items -> ItemRow]
      BY <1>1, <2>1 DEF AppliedStage, ContentType, FlowInv, FlowRows
    <2>3. /\ r \in FlowReqType
          /\ r.pc = "move" /\ r.t = t /\ r.seen = item /\ r.to = <<applied, k>>
      BY <1>1, <2>2, RestRequest DEF FlowReqType, AnyStage
    <2>4. flowReq' = [flowReq EXCEPT ![p] = r] /\ UNCHANGED <<flow, applied, draft, item, strayed, loose, handed>>
      BY <2>1 DEF FlowStep
    <2> HIDE DEF r
    <2>5. Safely(r)
      <3>1. item[t].version \in Nat
        BY <2>2 DEF ItemRow
      <3> QED
        BY <1>1, <2>1, <2>2, <2>3, <3>1 DEF Safely, CreatesSafely, MovesSafely, StillThere, DependsSafely, PublishesSafely, Known, KnownTo
    <2> QED
      BY <1>1, <2>3, <2>4, <2>5, RequestStep DEF DraftRow
  <1>4. CASE BlockItem(p) \/ ReleaseItem(p)
    <2>1. PICK t \in Items, st \in {"BLOCKED", "TODO"} :
            /\ item[t].state # "absent"
            /\ FlowStep(p, [FlowRest EXCEPT !.pc = "depend", !.t = t, !.status = st])
            /\ UNCHANGED <<flow, applied, draft, item, strayed, loose, handed>>
      <3>1. CASE BlockItem(p)
        BY <3>1 DEF BlockItem
      <3>2. CASE ReleaseItem(p)
        BY <3>2 DEF ReleaseItem
      <3> QED
        BY <1>4, <3>1, <3>2
    <2> DEFINE r == [FlowRest EXCEPT !.pc = "depend", !.t = t, !.status = st]
    <2>2. r \in FlowReqType /\ r.pc = "depend" /\ r.t = t /\ r.status = st
      BY RestRequest DEF FlowReqType, AllStatuses
    <2>3. flowReq' = [flowReq EXCEPT ![p] = r] /\ UNCHANGED <<flow, applied, draft, item, strayed, loose, handed>>
      BY <2>1 DEF FlowStep
    <2> HIDE DEF r
    <2>4. Safely(r)
      BY <2>1, <2>2 DEF Safely, CreatesSafely, MovesSafely, StillThere, DependsSafely, PublishesSafely
    <2> QED
      BY <1>1, <2>2, <2>3, <2>4, RequestStep DEF DraftRow
  <1> QED
    BY <1>2, <1>3, <1>4 DEF TaskRead

\* The publisher is the only one, and maps what it has read to active stages.
LEMMA PublishReads == ASSUME FlowInv, NEW p \in Handlers, Publish(p) \/ Remap(p) PROVE FlowInv'
  <1>1. /\ draft \in DraftRow /\ draft.content \in ContentType /\ applied \in Nat
        /\ item \in [Items -> ItemRow] /\ flowReq[p] \in FlowReqType
    BY DEF FlowInv, FlowRows, DraftRow
  <1>2. CASE Publish(p)
    <2> DEFINE r == [FlowRest EXCEPT !.pc = "remap", !.applied = applied, !.content = draft.content]
    <2>1. r \in FlowReqType /\ r.pc = "remap" /\ r.applied = applied
      BY <1>1, RestRequest DEF FlowReqType
    <2>2. /\ flowReq' = [flowReq EXCEPT ![p] = r] /\ UNCHANGED <<flow, applied, draft, item, strayed, loose, handed>>
          /\ \A q \in Handlers : ~Consuming(q)
      BY <1>2 DEF Publish, FlowStep
    <2> HIDE DEF r
    <2>3. Safely(r)
      BY <2>1 DEF Safely, CreatesSafely, MovesSafely, StillThere, DependsSafely, PublishesSafely
    <2> QED
      BY <1>1, <2>1, <2>2, <2>3, RequestStep DEF DraftRow
  <1>3. CASE Remap(p) /\ FlowEnds(p)
    <2>1. UNCHANGED <<flow, applied, draft, item, strayed, loose, handed>>
      BY <1>3 DEF Remap
    <2> QED
      BY <1>1, <1>3, <2>1, RestStep
  <1>4. CASE Remap(p) /\ ~FlowEnds(p)
    <2> DEFINE old == flowReq[p]
               staged == {item[t].stage[2] : t \in {t \in Live : item[t].stage # NoStage}}
               bare == {item[t].status : t \in {t \in Live : item[t].stage = NoStage}}
    <2>1. PICK f \in [staged \cup bare -> old.content.active] :
            flowReq' = [flowReq EXCEPT ![p] = [old EXCEPT !.pc = "commit", !.seen = item, !.mapping = f]]
      BY <1>4 DEF Remap, FlowStep
    <2>2. /\ UNCHANGED <<flow, applied, draft, item, strayed, loose, handed>> /\ old.pc = "remap"
          /\ old.applied = applied /\ Consuming(p)
      BY <1>4 DEF Remap, FlowAt, FlowInv, Safely, PublishesSafely, Consuming
    <2>3. \A t \in Live : Source(item[t]) \in staged \cup bare
      BY DEF Source
    <2>4. staged \cup bare \in SUBSET (StageNames \cup AllStatuses)
      <3>1. ASSUME NEW t \in Live, item[t].stage # NoStage PROVE item[t].stage[2] \in StageNames
        <4>1. item[t].stage \in Nat \X StageNames
          BY <1>1, <3>1 DEF Live, ItemRow, AnyStage
        <4> QED
          BY <4>1
      <3>2. ASSUME NEW t \in Live PROVE item[t].status \in AllStatuses
        BY <1>1, <3>2 DEF Live, ItemRow
      <3> QED
        BY <3>1, <3>2
    <2> HIDE DEF staged, bare
    <2>5. old.content.active \subseteq StageNames
      BY <1>1 DEF FlowReqType, ContentType
    <2>6. f \in Mappings
      <3>1. f \in [staged \cup bare -> StageNames]
        BY <2>1, <2>5
      <3> QED
        BY <2>4, <3>1 DEF Mappings
    <2> DEFINE r == [old EXCEPT !.pc = "commit", !.seen = item, !.mapping = f]
    <2>7. /\ r \in FlowReqType
          /\ r.pc = "commit" /\ r.seen = item /\ r.mapping = f /\ r.applied = old.applied /\ r.content = old.content
      BY <1>1, <2>6 DEF FlowReqType
    <2>8. flowReq' = [flowReq EXCEPT ![p] = r]
      BY <2>1
    <2> HIDE DEF r
    <2>9. Safely(r)
      <3>1. \A t \in Items : item[t].state = "live" => Source(item[t]) \in DOMAIN f /\ f[Source(item[t])] \in old.content.active
        BY <2>1, <2>3 DEF Live
      <3> QED
        BY <2>2, <2>7, <3>1 DEF Safely, CreatesSafely, MovesSafely, StillThere, DependsSafely, PublishesSafely
    <2> QED
      BY <1>1, <2>2, <2>7, <2>8, <2>9, RequestStep DEF DraftRow, FlowInv, OnePublisher
  <1> QED
    BY <1>2, <1>3, <1>4

-----------------------------------------------------------------------------
(* Steps that write a task *)

\* One task changes: it existed and its version grows, or its only creator
\* inserts it; the handler rests or keeps what it was doing.
LEMMA ItemStep ==
  ASSUME FlowInv, NEW p \in Handlers, UNCHANGED <<flow, applied, draft>>,
         flowReq' = [flowReq EXCEPT ![p] = FlowRest] \/ UNCHANGED flowReq,
         NEW t \in Items, NEW new \in ItemRow, item' = [item EXCEPT ![t] = new], new.state # "absent",
         \/ item[t].state # "absent" /\ new.version > item[t].version
         \/ item[t].state = "absent" /\ FlowAt(p, "create") /\ flowReq[p].t = t
             /\ flowReq' = [flowReq EXCEPT ![p] = FlowRest],
         strayed \subseteq strayed' \cup {t}, loose \subseteq loose' \cup {t},
         \A u \in Items \ {t} : u \in handed' <=> u \in handed,
         new.stage = NoStage \/ Known(new.stage),
         t \notin strayed' /\ new.state = "live" => new.stage = NoStage \/ new.stage[1] = applied,
         t \notin loose' => StatusShown(new, t \in handed')
  PROVE  FlowInv'
  <1>1. /\ item \in [Items -> ItemRow]
        /\ flowReq \in [Handlers -> FlowReqType]
    BY DEF FlowInv, FlowRows
  <1>2. item' \in [Items -> ItemRow] /\ item'[t] = new /\ \A u \in Items : u # t => item'[u] = item[u]
    BY <1>1
  <1>3. /\ flowReq' \in [Handlers -> FlowReqType]
        /\ \A q \in Handlers : flowReq'[q] = flowReq[q] \/ flowReq'[q] = FlowRest
    BY <1>1, RestRequest
  <1>4. FlowRows'
    BY <1>2, <1>3 DEF FlowInv, FlowRows
  <1>5. Placed' /\ Carried' /\ StatusFollows' /\ HandedThere'
    <2>1. Placed' /\ Carried'
      BY <1>2 DEF FlowInv, Placed, Carried, Known, KnownTo
    <2>3. HandedThere'
      BY <1>2 DEF FlowInv, HandedThere
    <2>2. ASSUME NEW u \in Items, u \notin loose' PROVE StatusShown(item'[u], u \in handed')
      <3>1. CASE u = t
        BY <1>2, <2>2, <3>1
      <3>2. CASE u # t
        <4>1. item'[u] = item[u] /\ (u \in handed' <=> u \in handed) /\ u \notin loose
          BY <1>2, <2>2, <3>2
        <4> QED
          BY <4>1 DEF FlowInv, StatusFollows, StatusShown
      <3> QED
        BY <3>1, <3>2
    <2> QED
      BY <2>1, <2>2, <2>3 DEF StatusFollows, StatusShown
  <1>6. ASSUME NEW q \in Handlers PROVE Safely(flowReq[q])'
    <2>1. CASE flowReq'[q] = FlowRest
      <3>1. FlowRest.pc = "idle"
        BY RestRequest
      <3> QED
        BY <2>1, <3>1 DEF Safely, CreatesSafely, MovesSafely, StillThere, DependsSafely, PublishesSafely
    <2>2. CASE flowReq'[q] = flowReq[q] /\ flowReq'[q] # FlowRest
      <3> DEFINE r == flowReq[q]
      <3>1. r \in FlowReqType /\ Safely(r)
        BY <1>1 DEF FlowInv
      <3>2. CreatesSafely(r)'
        <4>1. CASE r.pc = "create" /\ r.t = t
          <5>1. ~(item[t].state # "absent" /\ new.version > item[t].version)
            BY <3>1, <4>1 DEF Safely, CreatesSafely
          <5>2. q = p
            BY <4>1, <5>1 DEF FlowInv, OneCreator, FlowAt
          <5> QED
            BY <1>1, <2>2, <5>1, <5>2
        <4>2. CASE ~(r.pc = "create" /\ r.t = t)
          <5>1. r.t \in Items
            BY <3>1 DEF FlowReqType
          <5> QED
            BY <1>2, <2>2, <3>1, <4>2, <5>1 DEF Safely, CreatesSafely, Known, KnownTo
        <4> QED
          BY <4>1, <4>2
      <3>3. MovesSafely(r)'
        <4>1. r.t \in Items /\ r.seen[r.t].version \in Nat /\ item[r.t].version \in Nat /\ new.version \in Nat
          BY <1>1, <3>1 DEF FlowReqType, ItemRow
        <4>2. CASE r.pc = "move" /\ r.t = t
          <5>1. item[t].state # "absent" /\ new.version > item[t].version
            BY <3>1, <4>2 DEF Safely, MovesSafely
          <5> QED
            BY <1>2, <2>2, <3>1, <4>1, <4>2, <5>1 DEF Safely, MovesSafely, Known, KnownTo
        <4>3. CASE ~(r.pc = "move" /\ r.t = t)
          BY <1>2, <2>2, <3>1, <4>1, <4>3 DEF Safely, MovesSafely, StillThere, Known, KnownTo
        <4> QED
          BY <4>2, <4>3
      <3>4. PublishesSafely(r)'
        BY <2>2, <3>1 DEF Safely, PublishesSafely
      <3>5. DependsSafely(r)'
        <4>1. r.t \in Items
          BY <3>1 DEF FlowReqType
        <4> QED
          BY <1>2, <2>2, <3>1, <4>1 DEF Safely, DependsSafely
      <3> QED
        BY <3>2, <3>3, <3>4, <3>5 DEF Safely
    <2> QED
      BY <1>3, <2>1, <2>2
  <1>7. OneCreator' /\ OnePublisher'
    BY <1>3, RestRequest DEF FlowInv, OneCreator, OnePublisher, FlowAt, Consuming
  <1> QED
    BY <1>4, <1>5, <1>6, <1>7 DEF FlowInv

KeptRow(itm, state) == [itm EXCEPT !.state = state, !.version = @ + 1]

\* What a move, and a publication, makes of a row.
LEMMA RowMoved ==
  ASSUME NEW itm \in ItemRow, NEW s \in AnyStage, s[2] \in StageNames
  PROVE  /\ OnStage(itm, s) \in ItemRow /\ OnStage(itm, s).state = "live"
         /\ OnStage(itm, s).stage = s /\ OnStage(itm, s).status = StatusOf[s[2]]
         /\ OnStage(itm, s).version = itm.version + 1 /\ OnStage(itm, s).version > itm.version
  <1> DEFINE st == StatusOf[s[2]]
             held == itm.dependencyBlocked /\ st = "BLOCKED"
             new == [itm EXCEPT !.state = "live", !.stage = s, !.status = st, !.dependencyBlocked = held,
                                !.version = itm.version + 1]
  <1>1. itm.version + 1 \in Nat /\ itm.version + 1 > itm.version
    BY DEF ItemRow
  <1>2. st \in AllStatuses /\ held \in BOOLEAN
    BY StageAssumption DEF AllStatuses
  <1>3. OnStage(itm, s) = new
    BY DEF OnStage, ItemRow
  <1> HIDE DEF st, held
  <1>4. new \in ItemRow
    BY <1>1, <1>2 DEF ItemRow, TaskStates
  <1>5. new.state = "live" /\ new.stage = s /\ new.status = st /\ new.version = itm.version + 1
    BY DEF ItemRow
  <1> HIDE DEF new
  <1> QED
    BY <1>1, <1>3, <1>4, <1>5 DEF st

\* What a dependency makes of it.
LEMMA RowHanded ==
  ASSUME NEW itm \in ItemRow, NEW st \in {"BLOCKED", "TODO"}
  PROVE  /\ Handed(itm, st) \in ItemRow /\ Handed(itm, st).state = itm.state
         /\ Handed(itm, st).stage = itm.stage /\ StatusShown(Handed(itm, st), TRUE)
         /\ Handed(itm, st).status = st /\ Handed(itm, st).version = itm.version + 1
         /\ Handed(itm, st).version > itm.version
  <1> DEFINE new == [itm EXCEPT !.status = st, !.dependencyBlocked = (st = "BLOCKED"), !.version = itm.version + 1]
  <1>1. itm.version + 1 \in Nat /\ itm.version + 1 > itm.version
    BY DEF ItemRow
  <1>2. Handed(itm, st) = new
    BY DEF Handed, ItemRow
  <1>3. new \in ItemRow
    BY <1>1 DEF ItemRow, AllStatuses
  <1>4. /\ new.state = itm.state /\ new.stage = itm.stage /\ new.status = st
        /\ new.dependencyBlocked = (st = "BLOCKED") /\ new.version = itm.version + 1
    BY DEF ItemRow
  <1> HIDE DEF new
  <1> QED
    BY <1>1, <1>2, <1>3, <1>4 DEF StatusShown

LEMMA RowKept ==
  ASSUME NEW itm \in ItemRow, NEW state \in TaskStates
  PROVE  /\ KeptRow(itm, state) \in ItemRow /\ KeptRow(itm, state).state = state
         /\ KeptRow(itm, state).stage = itm.stage /\ KeptRow(itm, state).status = itm.status
         /\ KeptRow(itm, state).dependencyBlocked = itm.dependencyBlocked
         /\ KeptRow(itm, state).version > itm.version
  <1> DEFINE new == [itm EXCEPT !.state = state, !.version = itm.version + 1]
  <1>1. itm.version + 1 \in Nat /\ itm.version + 1 > itm.version
    BY DEF ItemRow
  <1>2. new \in ItemRow
    BY <1>1 DEF ItemRow
  <1>3. /\ new.state = state /\ new.stage = itm.stage /\ new.status = itm.status
        /\ new.dependencyBlocked = itm.dependencyBlocked /\ new.version = itm.version + 1
    BY DEF ItemRow
  <1> QED
    BY <1>1, <1>2, <1>3 DEF KeptRow

LEMMA RowsInserted == ASSUME FlowInv, NEW p \in Handlers, InsertItem(p) PROVE FlowInv'
  <1> DEFINE r == flowReq[p]
             new == [AbsentItem EXCEPT !.state = "live", !.stage = r.to, !.status = r.status, !.version = 1]
  <1>1. r \in FlowReqType /\ Safely(r) /\ r.pc = "create" /\ item \in [Items -> ItemRow] /\ applied \in Nat
    BY DEF FlowInv, FlowRows, InsertItem, FlowAt
  <1>2. new \in ItemRow /\ r.t \in Items
    BY <1>1, RestRow DEF ItemRow, FlowReqType, TaskStates
  <1>3. item[r.t].state = "absent" /\ (r.to = NoStage \/ (r.to[1] = r.applied /\ Known(r.to)))
    BY <1>1 DEF Safely, CreatesSafely
  <1>4. /\ item' = [item EXCEPT ![r.t] = new] /\ flowReq' = [flowReq EXCEPT ![p] = FlowRest]
        /\ strayed' = IF r.to # NoStage /\ r.applied # applied THEN strayed \cup {r.t} ELSE strayed
        /\ loose' = IF r.to = NoStage \/ StatusOf[r.to[2]] # r.status THEN loose \cup {r.t} ELSE loose
        /\ UNCHANGED <<flow, applied, draft, handed>>
    BY DEF InsertItem, FlowEnds
  <1>5. /\ new.state = "live" /\ new.stage = r.to /\ new.status = r.status /\ ~new.dependencyBlocked
        /\ FlowAt(p, "create") /\ r = flowReq[p]
    BY <1>1 DEF FlowAt, AbsentItem
  <1>6. r.t \notin handed
    BY <1>1, <1>2, <1>3 DEF FlowInv, HandedThere
  <1> HIDE DEF new, r
  <1>7. r.t \notin loose' => StatusShown(new, r.t \in handed')
    BY <1>4, <1>5, <1>6 DEF StatusShown
  <1> QED
    BY <1>2, <1>3, <1>4, <1>5, <1>6, <1>7, ItemStep

LEMMA Moves == ASSUME FlowInv, NEW p \in Handlers, MoveItemWrite(p) PROVE FlowInv'
  <1> DEFINE r == flowReq[p]
             fresh == item[r.t].version = r.seen[r.t].version
             late == r.seen[r.t].state = "away" /\ r.to[1] # applied
             new == OnStage(item[r.t], r.to)
  <1>1. r \in FlowReqType /\ Safely(r) /\ r.pc = "move" /\ item \in [Items -> ItemRow] /\ applied \in Nat
    BY DEF FlowInv, FlowRows, MoveItemWrite, FlowAt
  <1>2. r.t \in Items /\ r.to \in AnyStage
    BY <1>1 DEF FlowReqType
  <1>3. flowReq' = [flowReq EXCEPT ![p] = FlowRest] /\ UNCHANGED <<flow, applied, draft>>
    BY DEF MoveItemWrite, FlowEnds
  <1>4. CASE ~fresh
    <2>1. UNCHANGED <<item, strayed, loose, handed>> /\ FlowEnds(p)
      BY <1>4 DEF MoveItemWrite
    <2>2. draft' \in DraftRow
      BY <1>3 DEF FlowInv, FlowRows, DraftRow
    <2> QED
      BY <1>3, <2>1, <2>2, RestStep
  <1>5. CASE fresh
    <2>1. /\ item[r.t].state = r.seen[r.t].state /\ item[r.t].state \in {"live", "away"} /\ Known(r.to)
          /\ item[r.t].state = "live" => r.t \in strayed \/ r.to[1] = applied
      BY <1>1, <1>5 DEF Safely, MovesSafely, StillThere
    <2>2. r.to[2] \in StageNames
      BY <2>1 DEF Known, KnownTo, FlowInv, FlowRows, ContentType
    <2>3. /\ new \in ItemRow /\ new.state = "live" /\ new.stage = r.to
          /\ new.status = StatusOf[r.to[2]] /\ new.version > item[r.t].version
      BY <1>1, <1>2, <2>2, RowMoved
    <2>4. /\ item' = [item EXCEPT ![r.t] = new]
          /\ loose' = loose \ {r.t} /\ handed' = handed \ {r.t}
          /\ strayed' = IF late THEN strayed \cup {r.t} ELSE strayed
      BY <1>5 DEF MoveItemWrite
    <2>5. item[r.t].state # "absent"
      BY <2>1
    <2>6. r.t \notin strayed' => r.to[1] = applied
      BY <2>1, <2>4
    <2> HIDE DEF new, r
    <2>7. r.t \notin loose' => StatusShown(new, r.t \in handed')
      BY <2>3, <2>4 DEF StatusShown
    <2>8. strayed \subseteq strayed' \cup {r.t} /\ loose \subseteq loose' \cup {r.t}
          /\ \A u \in Items \ {r.t} : u \in handed' <=> u \in handed
      BY <2>4
    <2>9. /\ new.stage = NoStage \/ Known(new.stage)
          /\ r.t \notin strayed' /\ new.state = "live" => new.stage = NoStage \/ new.stage[1] = applied
      BY <2>1, <2>3, <2>6
    <2>10. PICK u \in Items : u = r.t
      BY <1>2
    <2>11. item' = [item EXCEPT ![u] = new] /\ item[u].state # "absent" /\ new.version > item[u].version
      BY <2>3, <2>4, <2>5, <2>10
    <2> HIDE DEF late, fresh
    <2> QED
      BY <1>3, <2>3, <2>7, <2>8, <2>9, <2>10, <2>11, ItemStep
  <1> QED
    BY <1>4, <1>5

LEMMA DependsItem == ASSUME FlowInv, NEW p \in Handlers, DependencyWrite(p) PROVE FlowInv'
  <1> DEFINE r == flowReq[p]
             new == Handed(item[r.t], r.status)
  <1>1. r \in FlowReqType /\ Safely(r) /\ r.pc = "depend" /\ item \in [Items -> ItemRow]
    BY DEF FlowInv, FlowRows, DependencyWrite, FlowAt
  <1>2. r.t \in Items /\ item[r.t] \in ItemRow /\ item[r.t].version \in Nat
    BY <1>1 DEF FlowReqType, ItemRow
  <1>3. item[r.t].state # "absent" /\ r.status \in {"BLOCKED", "TODO"}
    BY <1>1 DEF Safely, DependsSafely
  <1>4. /\ new \in ItemRow /\ new.state = item[r.t].state /\ new.stage = item[r.t].stage
        /\ StatusShown(new, TRUE) /\ new.version > item[r.t].version
    BY <1>2, <1>3, RowHanded
  <1>5. /\ item' = [item EXCEPT ![r.t] = new] /\ flowReq' = [flowReq EXCEPT ![p] = FlowRest]
        /\ loose' = loose \ {r.t} /\ handed' = handed \cup {r.t}
        /\ UNCHANGED <<flow, applied, draft, strayed>>
    BY DEF DependencyWrite, FlowEnds
  <1>6. new.stage = NoStage \/ Known(new.stage)
    BY <1>2, <1>4 DEF FlowInv, Placed
  <1>7. r.t \notin strayed' /\ new.state = "live" => new.stage = NoStage \/ new.stage[1] = applied
    BY <1>2, <1>4, <1>5 DEF FlowInv, Carried
  <1>8. r.t \in handed' /\ StatusShown(new, r.t \in handed')
    BY <1>4, <1>5 DEF StatusShown
  <1> HIDE DEF new, r
  <1> QED
    BY <1>2, <1>3, <1>4, <1>5, <1>6, <1>7, <1>8, ItemStep

\* Leaving, deleting and restoring; a task that leaves has no stage behind it.
LEMMA Deletes == ASSUME FlowInv, NEW p \in Handlers, DeleteItem(p) \/ RestoreItem(p) PROVE FlowInv'
  <1>1. item \in [Items -> ItemRow] /\ applied \in Nat
    BY DEF FlowInv, FlowRows
  <1>2. PICK t \in Items, state \in {"live", "deleted"} :
          /\ item[t].state # "absent"
          /\ item' = [item EXCEPT ![t].state = state, ![t].version = @ + 1]
          /\ strayed' = IF state = "live" /\ item[t].stage # NoStage /\ item[t].stage[1] # applied
                        THEN strayed \cup {t} ELSE strayed
          /\ UNCHANGED <<flow, applied, draft, flowReq, loose, handed>>
    <2>1. CASE DeleteItem(p)
      BY <2>1 DEF DeleteItem, Live
    <2>2. CASE RestoreItem(p)
      BY <2>2 DEF RestoreItem
    <2> QED
      BY <2>1, <2>2
  <1> DEFINE new == KeptRow(item[t], state)
  <1>3. /\ new \in ItemRow /\ new.state = state /\ new.stage = item[t].stage /\ new.status = item[t].status
        /\ new.dependencyBlocked = item[t].dependencyBlocked /\ new.version > item[t].version
    BY <1>1, RowKept DEF TaskStates
  <1>4. item' = [item EXCEPT ![t] = new]
    BY <1>1, <1>2 DEF ItemRow, KeptRow
  <1> HIDE DEF new
  <1>5. new.stage = NoStage \/ Known(new.stage)
    BY <1>3 DEF FlowInv, Placed
  <1>6. t \notin strayed' /\ new.state = "live" => new.stage = NoStage \/ new.stage[1] = applied
    BY <1>2, <1>3
  <1>7. t \notin loose' => StatusShown(new, t \in handed')
    BY <1>2, <1>3 DEF FlowInv, StatusFollows, StatusShown
  <1>8. strayed \subseteq strayed' \cup {t} /\ loose \subseteq loose' \cup {t}
        /\ \A u \in Items \ {t} : u \in handed' <=> u \in handed
    BY <1>2
  <1> QED
    BY <1>2, <1>3, <1>4, <1>5, <1>6, <1>7, <1>8, ItemStep

LeftRow(itm) == [itm EXCEPT !.state = "away", !.stage = NoStage, !.version = @ + 1]

LEMMA RowLeft ==
  ASSUME NEW itm \in ItemRow
  PROVE  /\ LeftRow(itm) \in ItemRow /\ LeftRow(itm).state = "away" /\ LeftRow(itm).stage = NoStage
         /\ LeftRow(itm).version > itm.version
  <1> DEFINE new == [itm EXCEPT !.state = "away", !.stage = NoStage, !.version = itm.version + 1]
  <1>1. itm.version + 1 \in Nat /\ itm.version + 1 > itm.version
    BY DEF ItemRow
  <1>2. new \in ItemRow
    BY <1>1 DEF ItemRow, TaskStates, AnyStage
  <1>3. new.state = "away" /\ new.stage = NoStage /\ new.version = itm.version + 1
    BY DEF ItemRow
  <1> QED
    BY <1>1, <1>2, <1>3 DEF LeftRow

LEMMA LeavesItem == ASSUME FlowInv, NEW p \in Handlers, LeaveItem(p) PROVE FlowInv'
  <1>1. item \in [Items -> ItemRow] /\ applied \in Nat
    BY DEF FlowInv, FlowRows
  <1>2. PICK t \in Items :
          /\ item[t].state # "absent"
          /\ item' = [item EXCEPT ![t].state = "away", ![t].stage = NoStage, ![t].version = @ + 1]
          /\ strayed' = strayed \ {t} /\ loose' = loose \ {t} /\ handed' = handed \ {t}
          /\ UNCHANGED <<flow, applied, draft, flowReq>>
    BY DEF LeaveItem, Live
  <1> DEFINE new == LeftRow(item[t])
  <1>3. new \in ItemRow /\ new.state = "away" /\ new.stage = NoStage /\ new.version > item[t].version
    BY <1>1, RowLeft
  <1>4. item' = [item EXCEPT ![t] = new]
    BY <1>1, <1>2 DEF ItemRow, LeftRow
  <1> HIDE DEF new
  <1>5. t \notin loose' => StatusShown(new, t \in handed')
    BY <1>2, <1>3 DEF StatusShown
  <1>6. strayed \subseteq strayed' \cup {t} /\ loose \subseteq loose' \cup {t}
        /\ \A u \in Items \ {t} : u \in handed' <=> u \in handed
    BY <1>2
  <1> QED
    BY <1>2, <1>3, <1>4, <1>5, <1>6, ItemStep

-----------------------------------------------------------------------------
(* Publication *)

LEMMA RemappedRow ==
  ASSUME NEW v \in Nat, NEW r \in FlowReqType, r.applied = v, NEW itm \in ItemRow, r.mapping[Source(itm)] \in StageNames
  PROVE  LET k == r.mapping[Source(itm)]  new == Remapped(itm, r) IN
           /\ new \in ItemRow /\ new.state = "live" /\ new.version = itm.version + 1
           /\ new.stage = <<v + 1, k>> /\ new.status = StatusOf[k]
  <1> DEFINE k == r.mapping[Source(itm)]
  <1>1. Remapped(itm, r) = OnStage(itm, <<v + 1, k>>)
    BY DEF Remapped, MappedTo, Source
  <1> HIDE DEF k
  <1>2. k \in StageNames
    BY DEF k
  <1>3. <<v + 1, k>> \in AnyStage /\ <<v + 1, k>>[2] = k
    BY <1>2 DEF AnyStage
  <1>4. /\ Remapped(itm, r) \in ItemRow /\ Remapped(itm, r).state = "live" /\ Remapped(itm, r).version = itm.version + 1
        /\ Remapped(itm, r).stage = <<v + 1, k>> /\ Remapped(itm, r).status = StatusOf[k]
    BY <1>1, <1>2, <1>3, RowMoved
  <1> QED
    BY <1>4 DEF k

\* Every live task that was read goes to the new version; the others stray.
LEMMA Commits == ASSUME FlowInv, NEW p \in Handlers, PublishCommit(p) PROVE FlowInv'
  <1> DEFINE r == flowReq[p]
             read == {t \in Items : r.seen[t].state = "live"}
             unmoved == \A t \in read : item[t].state = "live" /\ item[t].version = r.seen[t].version
  <1>1. /\ r \in FlowReqType /\ Safely(r) /\ r.pc = "commit" /\ r.applied = applied /\ Consuming(p)
        /\ item \in [Items -> ItemRow] /\ applied \in Nat \ {0} /\ flowReq \in [Handlers -> FlowReqType]
    BY DEF FlowInv, FlowRows, PublishCommit, FlowAt, Safely, PublishesSafely, Consuming
  <1>2. flowReq' = [flowReq EXCEPT ![p] = FlowRest] /\ FlowEnds(p)
    BY DEF PublishCommit, FlowEnds
  <1>3. CASE ~unmoved
    <2>1. UNCHANGED <<item, flow, applied, draft, strayed, loose, handed>>
      BY <1>3 DEF PublishCommit
    <2>2. draft' \in DraftRow
      BY <2>1 DEF FlowInv, FlowRows, DraftRow
    <2> QED
      BY <1>2, <2>1, <2>2, RestStep
  <1>4. CASE unmoved
    <2>1. /\ item' = [t \in Items |-> IF t \in read THEN Remapped(r.seen[t], r) ELSE item[t]]
          /\ flow' = [v \in DOMAIN flow \cup {applied + 1} |-> IF v = applied + 1 THEN r.content ELSE flow[v]]
          /\ applied' = applied + 1
          /\ draft' = [draft EXCEPT !.state = "ARCHIVED"]
          /\ strayed' = strayed \cup {t \in Live \ read : item[t].stage # NoStage}
          /\ loose' = loose \ read /\ handed' = handed \ read
      BY <1>1, <1>4 DEF PublishCommit
    <2>2. r.seen \in [Items -> ItemRow] /\ r.content \in ContentType /\ r.content.active \subseteq StageNames
      BY <1>1 DEF FlowReqType, ContentType
    <2>3. ASSUME NEW t \in read
          PROVE  /\ t \in Items /\ item[t].state = "live" /\ item'[t] \in ItemRow /\ item'[t].state = "live"
                 /\ item'[t].version = item[t].version + 1
                 /\ item'[t].stage[1] = applied + 1 /\ item'[t].stage[2] \in r.content.active
                 /\ item'[t].status = StatusOf[item'[t].stage[2]]
      <3>1. r.mapping[Source(r.seen[t])] \in r.content.active /\ r.seen[t] \in ItemRow /\ r.seen[t].state = "live"
        BY <1>1, <2>2 DEF Safely, PublishesSafely
      <3>2. item'[t] = Remapped(r.seen[t], r) /\ item[t].version = r.seen[t].version /\ item[t].state = "live"
        BY <1>4, <2>1
      <3> DEFINE k == r.mapping[Source(r.seen[t])]
      <3>3. /\ item'[t] \in ItemRow /\ item'[t].state = "live" /\ item'[t].version = item[t].version + 1
            /\ item'[t].stage = <<applied + 1, k>> /\ item'[t].status = StatusOf[k]
        BY <1>1, <2>2, <3>1, <3>2, RemappedRow
      <3> HIDE DEF k
      <3>4. item'[t].stage[1] = applied + 1 /\ item'[t].stage[2] = k
        BY <3>3
      <3> QED
        BY <3>1, <3>2, <3>3, <3>4 DEF k
    <2>4. \A t \in Items \ read : item'[t] = item[t]
      BY <2>1
    <2> HIDE DEF r, read
    <2>5. /\ DOMAIN flow' = 1..applied' /\ flow'[applied'] = r.content
          /\ \A v \in 1..applied : v \in 1..applied' /\ v # applied' /\ flow'[v] = flow[v]
      <3>1. DOMAIN flow = 1..applied
        BY DEF FlowInv, FlowRows
      <3> QED
        BY <1>1, <2>1, <3>1
    <2>6. \A s : Known(s) => KnownTo(flow', applied', s)
      BY <2>5 DEF Known, KnownTo
    <2>7. FlowRows'
      <3>1. item' \in [Items -> ItemRow]
        BY <1>1, <2>1, <2>3, <2>4
      <3>2. flowReq' \in [Handlers -> FlowReqType]
        BY <1>1, <1>2, RestRequest
      <3>3. draft' \in [state : {"none", "DRAFT", "ARCHIVED"}, content : ContentType]
        BY <2>1 DEF FlowInv, FlowRows
      <3>4. \A v \in 1..applied' : flow'[v] \in ContentType
        <4>1. \A v \in 1..applied' : v \in 1..applied \/ v = applied'
          BY <1>1, <2>1
        <4> QED
          BY <2>2, <2>5, <4>1 DEF FlowInv, FlowRows
      <3>5. applied' \in Nat \ {0} /\ DOMAIN flow' = 1..applied'
        BY <1>1, <2>1, <2>5
      <3> QED
        BY <3>1, <3>2, <3>3, <3>4, <3>5 DEF FlowRows
    <2>8. Placed'
      <3> SUFFICES ASSUME NEW t \in Items PROVE item'[t].stage = NoStage \/ KnownTo(flow', applied', item'[t].stage)
        BY DEF Placed, Known
      <3>1. CASE t \in read
        <4>1. applied' \in 1..applied'
          BY <1>1, <2>1
        <4> QED
          BY <2>1, <2>3, <2>5, <3>1, <4>1 DEF KnownTo
      <3>2. CASE t \notin read
        BY <2>4, <2>6, <3>2 DEF FlowInv, Placed
      <3> QED
        BY <3>1, <3>2
    <2>9. Carried'
      <3> SUFFICES ASSUME NEW t \in Items \ strayed', item'[t].state = "live"
                   PROVE  item'[t].stage = NoStage \/ item'[t].stage[1] = applied'
        BY DEF Carried
      <3> QED
        BY <2>1, <2>3, <2>4 DEF Live
    <2>10. StatusFollows' /\ HandedThere'
      <3>1. ASSUME NEW t \in Items, t \notin loose' PROVE StatusShown(item'[t], t \in handed')
        <4>1. CASE t \in read
          BY <2>1, <2>3, <4>1 DEF StatusShown
        <4>2. CASE t \notin read
          <5>1. item'[t] = item[t] /\ (t \in handed' <=> t \in handed) /\ t \notin loose
            BY <2>1, <2>4, <3>1, <4>2
          <5> QED
            BY <5>1 DEF FlowInv, StatusFollows, StatusShown
        <4> QED
          BY <4>1, <4>2
      <3>2. HandedThere'
        BY <2>1, <2>3, <2>4 DEF FlowInv, HandedThere
      <3> QED
        BY <3>1, <3>2 DEF StatusFollows, StatusShown
    <2>11. ASSUME NEW q \in Handlers PROVE Safely(flowReq[q])'
      <3>1. CASE q = p
        BY <1>1, <1>2, <3>1, RestRequest DEF Safely, CreatesSafely, MovesSafely, StillThere, DependsSafely, PublishesSafely
      <3>2. CASE q # p
        <4> DEFINE s == flowReq[q]
        <4>1. flowReq'[q] = s /\ s \in FlowReqType /\ Safely(s) /\ ~Consuming(q)
          BY <1>1, <1>2, <3>2 DEF FlowInv, OnePublisher
        <4>2. s.t \in Items /\ s.seen[s.t].version \in Nat /\ item[s.t].version \in Nat
          BY <1>1, <4>1 DEF FlowReqType, ItemRow
        <4>3. CreatesSafely(s)'
          <5> SUFFICES ASSUME s.pc = "create"
                       PROVE  item'[s.t].state = "absent" /\ (s.to = NoStage \/ (s.to[1] = s.applied /\ KnownTo(flow', applied', s.to)))
            BY <4>1 DEF CreatesSafely, Known
          <5>1. item[s.t].state = "absent" /\ (s.to = NoStage \/ (s.to[1] = s.applied /\ Known(s.to)))
            BY <4>1 DEF Safely, CreatesSafely
          <5>2. s.t \notin read
            BY <2>3, <5>1
          <5> QED
            BY <2>4, <2>6, <4>2, <5>1, <5>2
        <4>4. MovesSafely(s)'
          <5> SUFFICES ASSUME s.pc = "move"
                       PROVE  /\ item'[s.t].state # "absent" /\ KnownTo(flow', applied', s.to)
                              /\ s.seen[s.t].version <= item'[s.t].version
                              /\ s.seen[s.t].version = item'[s.t].version =>
                                   StillThere(s, item'[s.t], s.t \in strayed', applied')
            BY <4>1 DEF MovesSafely, StillThere, Known
          <5>1. /\ item[s.t].state # "absent" /\ Known(s.to)
                /\ s.seen[s.t].version <= item[s.t].version
                /\ s.seen[s.t].version = item[s.t].version =>
                     StillThere(s, item[s.t], s.t \in strayed, applied)
            BY <4>1 DEF Safely, MovesSafely
          <5>2. CASE s.t \in read
            BY <2>3, <2>6, <4>2, <5>1, <5>2
          <5>3. CASE s.t \notin read
            BY <2>1, <2>4, <2>6, <4>2, <5>1, <5>3 DEF Live, StillThere
          <5> QED
            BY <5>2, <5>3
        <4>5. PublishesSafely(s)'
          BY <4>1 DEF PublishesSafely, Consuming
        <4>6. DependsSafely(s)'
          <5>1. s.pc = "depend" => item[s.t].state # "absent" /\ s.status \in {"BLOCKED", "TODO"}
            BY <4>1 DEF Safely, DependsSafely
          <5>2. item[s.t].state # "absent" => item'[s.t].state # "absent"
            BY <2>3, <2>4, <4>2
          <5> QED
            BY <4>1, <5>1, <5>2 DEF DependsSafely
        <4> QED
          BY <4>1, <4>3, <4>4, <4>5, <4>6 DEF Safely
      <3> QED
        BY <3>1, <3>2
    <2>12. OneCreator' /\ OnePublisher'
      BY <1>1, <1>2, RestRequest DEF FlowInv, OneCreator, OnePublisher, FlowAt, Consuming
    <2> QED
      BY <2>7, <2>8, <2>9, <2>10, <2>11, <2>12 DEF FlowInv
  <1> QED
    BY <1>3, <1>4

-----------------------------------------------------------------------------

LEMMA FlowSteps == FlowInv /\ [FlowNext]_<<flowVars, now, served>> => FlowInv'
  <1> SUFFICES ASSUME FlowInv, [FlowNext]_<<flowVars, now, served>> PROVE FlowInv'
    OBVIOUS
  <1>1. CASE FlowNext
    BY <1>1, TaskReads, RowsInserted, Moves, LeavesItem, Deletes, DependsItem, DraftSteps, PublishReads, Commits
    DEF FlowNext, TaskRead, DraftStep
  <1>2. CASE UNCHANGED <<flowVars, now, served>>
    BY <1>2 DEF flowVars, FlowInv, FlowRows, Placed, Carried, StatusFollows, StatusShown, HandedThere, Known, KnownTo, Safely, CreatesSafely, MovesSafely,
       StillThere, DependsSafely, PublishesSafely, OneCreator, OnePublisher, FlowAt, Consuming
  <1> QED
    BY <1>1, <1>2

LEMMA TasksFollow == FlowInv => TasksFollowWorkflow
  <1>1. FlowInv => OnAppliedStage
    BY DEF FlowInv, Placed, Carried, Known, KnownTo, OnAppliedStage, AppliedStage, Live
  <1>2. FlowInv => StatusFollowsStage
    BY DEF FlowInv, StatusFollows, StatusShown, StatusFollowsStage, Live
  <1> QED
    BY <1>1, <1>2 DEF TasksFollowWorkflow

\* Of every workflow: a live task stands on an active stage of the applied
\* version or on none (publishWorkflow, moveTask, updateTask), unless it was
\* created, restored or brought in from another project across a publication; and
\* its legacy status is that of its stage (legacyStatusForStage), unless the
\* workflow had no stage for the status it was created with, or, until it is moved
\* or carried along, a dependency has written it: then BLOCKED or TODO.
THEOREM WorkflowCarriesTasks == FlowSpec => []TasksFollowWorkflow
  <1>1. HandlingInit /\ FlowInit => FlowInv
    BY FlowInitial
  <1>2. FlowInv /\ [FlowNext]_<<flowVars, now, served>> => FlowInv'
    BY FlowSteps
  <1> QED
    BY <1>1, <1>2, TasksFollow, PTL DEF FlowSpec
=============================================================================
