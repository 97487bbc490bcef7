---------------------------- MODULE ClientScreens ----------------------------
(* What the screens of the web client let a member do: the calls each screen makes  *)
(* as it opens and those behind its controls, as far as the client's own copy of    *)
(* the role's permissions, the role, and what it knows of the thing on the screen    *)
(* let the control appear.  A viewer v is [role, holds], "holds" as in the server's   *)
(* answers; an offer is a pair of a call and the case of it.  How a control looks,    *)
(* and modules that are switched off, are left out.                                    *)
EXTENDS Roles

Whenever(visible, some) == IF visible THEN {<<c, "any">> : c \in some} ELSE {}
InCase(case, visible, some) == IF visible THEN {<<c, case>> : c \in some} ELSE {}
May(v, key) == Can(v.role, key)
Is(v, fact) == fact \in v.holds

\* The helpers that mirror the server's.
hasWorkspaceTaskScope(v) == v.role \in {"owner", "admin", "manager"}
canMutateTask(v) == hasWorkspaceTaskScope(v) \/ Is(v, "party")
isAdmin(v) == v.role \in {"owner", "admin"}

-----------------------------------------------------------------------------
(* The drawer of one task *)

canUpdate(v) == May(v, "tasks:update") /\ canMutateTask(v)
detailLoads(v) ==
    Whenever(TRUE, {"getTask", "getTaskActivity", "listEligibleAssignees"})
    \cup Whenever(May(v, "projects:read"), {"listProjects"})
    \cup Whenever(May(v, "members:read"), {"listMembers"})
detailFooter(v) ==
    Whenever(canUpdate(v) /\ Is(v, "there"),
             {"updateTask", "updateTaskStatus", IF Is(v, "kept") THEN "archiveTask" ELSE "unarchiveTask"})
    \cup Whenever(May(v, "tasks:delete") /\ Is(v, "there"), {"deleteTask"})
    \cup Whenever(isAdmin(v) /\ ~ Is(v, "there") /\ (canUpdate(v) \/ May(v, "tasks:delete")),
                  {"restoreTask"})
assigneePicker(v) ==
    InCase("to another",
           canUpdate(v) /\ Is(v, "there") /\ May(v, "tasks:assign") /\ hasWorkspaceTaskScope(v),
           {"updateTask"})

\* The panels of collaboration.
canChecklist(v) == canMutateTask(v) /\ May(v, "checklist.manage")
collaborationLoads(v) ==
    Whenever(canChecklist(v), {"listChecklist"})
    \cup Whenever(May(v, "tag.view"), {"listTaskTags", "listTags"})
    \cup Whenever(May(v, "custom_field.view"), {"listCustomFieldValues"})
    \cup Whenever(May(v, "custom_field.configure"), {"listCustomFields"})
    \cup Whenever(May(v, "comment.view"), {"listComments"})
    \cup Whenever(May(v, "attachment.view"), {"listAttachments"})
checklistPanel(v) ==
    Whenever(canChecklist(v), {"createChecklistItem", "updateChecklistItem", "deleteChecklistItem",
                               "reorderChecklist"})
tagsPanel(v) ==
    Whenever(May(v, "tag.view") /\ canMutateTask(v) /\ May(v, "task.tag.manage"), {"setTaskTags"})
    \cup Whenever(May(v, "tag.view") /\ May(v, "tag.create"), {"createTag"})
fieldsPanel(v) ==
    Whenever(/\ May(v, "custom_field.view") /\ canMutateTask(v)
             /\ May(v, "custom_field.value.update"), {"setCustomFieldValues"})
fieldsConfiguration(v) ==
    Whenever(May(v, "custom_field.view") /\ May(v, "custom_field.configure"),
             {"createCustomField", "updateCustomField", "deleteCustomField"})
attachmentsPanel(v) ==
    Whenever(May(v, "attachment.view"), {"getAttachmentDownload"})
    \cup Whenever(May(v, "attachment.view") /\ canMutateTask(v) /\ May(v, "attachment.upload"),
                  {"uploadAttachment"})
    \cup Whenever(/\ May(v, "attachment.view")
                  /\ \/ May(v, "attachment.manage")
                     \/ May(v, "attachment.delete_own") /\ Is(v, "wrote"), {"deleteAttachment"})
commentsPanel(v) ==
    LET moderates == May(v, "comment.moderate")
    IN  Whenever(May(v, "comment.view") /\ May(v, "comment.create"), {"createComment"})
        \cup Whenever(/\ May(v, "comment.view") /\ May(v, "comment.create")
                      /\ moderates \/ (May(v, "comment.update_own") /\ Is(v, "wrote")),
                      {"updateComment"})
        \cup Whenever(/\ May(v, "comment.view")
                      /\ moderates \/ (May(v, "comment.delete_own") /\ Is(v, "wrote")),
                      {"deleteComment"})

\* The panels of dependencies, time and history.
workflowLoads(v) ==
    Whenever(May(v, "task_dependency.view"), {"listDependencies"})
    \cup Whenever(May(v, "time_log.view_own"), {"listTimeLogs", "getRunningTimer"})
    \cup Whenever(May(v, "task_history.view"), {"listStatusHistory"})
dependenciesPanel(v) ==
    Whenever(May(v, "task_dependency.view") /\ May(v, "task_dependency.manage"),
             {"listTasks", "createDependency", "deleteDependency"})
    \cup InCase("override",
                /\ May(v, "task_dependency.view") /\ May(v, "task_dependency.override") /\ canUpdate(v),
                {"updateTaskStatus"})
timePanel(v) ==
    Whenever(May(v, "time_log.view_own") /\ May(v, "time_log.create"),
             {"startTimer", "stopTimer", "createManualTimeLog"})
    \cup InCase("team", May(v, "time_log.view_own") /\ May(v, "time_log.view_all"), {"listTimeLogs"})
timeLogRows(v) ==
    LET all == May(v, "time_log.manage_all")
    IN  Whenever(May(v, "time_log.view_own")
                 /\ (all \/ (May(v, "time_log.update_own") /\ Is(v, "wrote"))), {"updateTimeLog"})
        \cup Whenever(May(v, "time_log.view_own")
                      /\ (all \/ (May(v, "time_log.delete_own") /\ Is(v, "wrote"))), {"deleteTimeLog"})

\* The panels of automation.
automationLoads(v) ==
    Whenever(May(v, "recurrence.view"), {"getRecurrence"})
    \cup Whenever(May(v, "risk.view"), {"getTaskRisk"})
    \cup Whenever(May(v, "sla.view"), {"listTaskSla"})
    \cup Whenever(May(v, "automation.view"), {"listAutomationRuns"})
recurrencePanel(v) ==
    Whenever(May(v, "recurrence.view") /\ May(v, "recurrence.manage"),
             {"upsertRecurrence", "previewRecurrence", "pauseRecurrence", "resumeRecurrence",
              "deleteRecurrence"})
riskPanel(v) == Whenever(May(v, "risk.view") /\ May(v, "risk.update"), {"updateManualRisk"})
slaPanel(v) ==
    Whenever(May(v, "sla.view") /\ May(v, "sla.override"), {"pauseSlaInstance", "resumeSlaInstance"})
runsPanel(v) ==
    Whenever(May(v, "automation.view") /\ May(v, "automation.retry"), {"retryAutomationRun"})

TaskDetailDialog(v) ==
    detailLoads(v) \cup detailFooter(v) \cup assigneePicker(v) \cup collaborationLoads(v)
    \cup checklistPanel(v) \cup tagsPanel(v) \cup fieldsPanel(v) \cup fieldsConfiguration(v)
    \cup attachmentsPanel(v) \cup commentsPanel(v) \cup workflowLoads(v) \cup dependenciesPanel(v)
    \cup timePanel(v) \cup timeLogRows(v) \cup automationLoads(v) \cup recurrencePanel(v)
    \cup riskPanel(v) \cup slaPanel(v) \cup runsPanel(v)

-----------------------------------------------------------------------------
(* Lists of tasks: the views of "my tasks", the dashboard's list, the bulk bar *)

taskLists(v) ==
    IF ~ May(v, "tasks:read") THEN {}
    ELSE Whenever(TRUE, {"listTasks", "listCalendar", "listTimeline", "exportTasks", "listSavedViews",
                         "createSavedView", "updateSavedView", "deleteSavedView"})
         \cup Whenever(May(v, "projects:read"), {"listProjects"})
         \cup Whenever(May(v, "members:read"), {"listMembers"})
         \cup Whenever(May(v, "tag.view"), {"listTags"})
         \cup InCase("deleted", isAdmin(v), {"listTasks"})
taskBoard(v) ==
    Whenever(May(v, "tasks:read"), {"listBoardColumn", "getProjectWorkflow"})
    \cup Whenever(May(v, "tasks:update") /\ Is(v, "there") /\ canMutateTask(v), {"moveTask"})
TaskBulkActionBar(v) ==
    Whenever(May(v, "tasks:update") \/ May(v, "tasks:assign"), {"bulkUpdateTasks"})
    \cup Whenever(May(v, "tasks:delete"), {"bulkDeleteTasks"})
CreateTaskForm(v) ==
    Whenever(May(v, "tasks:create"), {"createTask", "parseTask"})
    \cup InCase("to another",
                May(v, "tasks:create") /\ May(v, "tasks:assign") /\ hasWorkspaceTaskScope(v),
                {"createTask"})
taskRow(v) ==
    Whenever(isAdmin(v) /\ ~ Is(v, "there"), {"restoreTask"})
    \cup Whenever(May(v, "tasks:update") /\ Is(v, "there"), {"updateTaskStatus"})
\* Lists show a member the tasks he is a party to, and only admins those deleted.
TaskScreens(v) ==
    taskLists(v) \cup CreateTaskForm(v)
    \cup (IF canMutateTask(v) /\ (Is(v, "there") \/ isAdmin(v))
          THEN taskRow(v) \cup TaskDetailDialog(v) \cup taskBoard(v) \cup TaskBulkActionBar(v)
          ELSE {})

-----------------------------------------------------------------------------
(* Projects, their members and their workflow; templates *)

projectLoads(v) ==
    Whenever(TRUE, {"getProject", "listMembers"}) \cup Whenever(May(v, "activity:read"), {"getActivity"})
projectMembersTab(v) ==
    Whenever(TRUE, {"addProjectMember", "updateProjectMemberRole", "removeProjectMember"})
projectSettings(v) ==
    Whenever(May(v, "projects:update"), {"updateProject", "archiveProject"})
    \cup Whenever(May(v, "projects:delete"), {"deleteProject"})
workflowPanel(v) ==
    Whenever(TRUE, {"getProjectWorkflow"})
    \cup Whenever(May(v, "projects:update"),
                  {"createWorkflowDraft", "addStage", "updateStage", "reorderStages", "saveTransitions",
                   "validateWorkflowDraft", "getPublishPreview", "publishWorkflow", "deleteStage"})
projectsPage(v) ==
    Whenever(May(v, "projects:read"), {"listProjects", "listMembers"})
    \cup Whenever(May(v, "projects:create"), {"createProject"})
ProjectScreens(v) ==
    projectsPage(v) \cup projectLoads(v) \cup projectMembersTab(v) \cup projectSettings(v)
    \cup workflowPanel(v)

templatesPage(v) ==
    Whenever(TRUE, {"listTemplates", "listMembers"})
    \cup Whenever(May(v, "projects:create"), {"createTemplate", "cloneTemplate", "duplicateTemplate",
                                              \* on the job the clone has started
                                              "getCloneJob", "retryCloneJob"})
    \cup Whenever(May(v, "projects:update"), {"publishTemplate", "archiveTemplate"})
templatePage(v) ==
    Whenever(TRUE, {"getTemplate", "listTemplateVersions", "createTemplateVersion", "archiveTemplate"})
    \cup Whenever(May(v, "projects:update"), {"updateTemplate", "validateTemplate", "publishTemplate"})
    \cup Whenever(May(v, "projects:create"), {"duplicateTemplate"})

-----------------------------------------------------------------------------
(* Dashboard, settings *)

DashboardPage(v) ==
    Whenever(May(v, "dashboard:read") /\ May(v, "tasks:read"), {"getSummary", "getMyWork", "getCharts"})
    \cup InCase("of a member", May(v, "members:read") /\ hasWorkspaceTaskScope(v),
                {"getSummary", "getMyWork", "getCharts"})
MembersPage(v) ==
    Whenever(May(v, "members:read"), {"listMembers"})
    \cup UNION {InCase(case, May(v, "members:read") /\ May(v, "members:update"), {"updateMemberRole"}) :
                  case \in {"to admin", "to manager", "to member"}}
    \cup Whenever(May(v, "members:read") /\ May(v, "members:remove"), {"removeMember"})
InviteMemberForm(v) ==
    UNION {InCase(case, May(v, "members:invite"), {"inviteMember"}) :
             case \in {"to admin", "to manager", "to member"}}
WorkspacePage(v) ==
    Whenever(May(v, "workspace:read"), {"getWorkspace"})
    \cup Whenever(May(v, "workspace:read") /\ May(v, "workspace:update"), {"updateWorkspace"})
ModulesPage(v) ==
    Whenever(May(v, "workspace:read"), {"listModules"})
    \cup Whenever(May(v, "workspace:read") /\ May(v, "modules:manage"), {"updateModules"})
DangerPage(v) ==
    Whenever(May(v, "workspace:update") /\ May(v, "ownership:transfer"), {"listMembers", "transferOwnership"})
AutomationPage(v) ==
    Whenever(May(v, "automation.view"), {"getRiskRule", "listAutomationRuns", "listBusinessCalendars",
                                         "listSlaPolicies"})
    \cup Whenever(May(v, "automation.view") /\ May(v, "risk.configure"), {"upsertRiskRule"})
    \cup Whenever(May(v, "automation.view") /\ May(v, "sla.configure"),
                  {"createBusinessCalendar", "updateBusinessCalendar", "createSlaPolicy"})
    \cup Whenever(May(v, "automation.view") /\ May(v, "automation.retry"), {"retryAutomationRun"})
NotificationsPage(v) ==
    Whenever(TRUE, {"listNotifications", "markNotificationRead", "markAllNotificationsRead",
                    "getNotificationPreference", "updateNotificationPreference"})
SignInPages ==
    Whenever(TRUE, {"register", "login", "refresh", "logout", "logoutAll", "me", "selectWorkspace",
                    "verifyEmail", "resendVerification", "forgotPassword", "resetPassword",
                    "changePassword", "listSessions", "revokeSession", "previewInvitation",
                    "acceptInvitation", "createWorkspace"})
\* Only an owner's steps are more than greetings.
OnboardingPages(v) ==
    Whenever(TRUE, {"getOnboarding", "updateOnboarding", "completeOnboarding"})
    \cup Whenever(v.role = "owner", {"listModules", "updateModules", "createFirstProject"})
    \cup InCase("to member", v.role = "owner", {"inviteMember"})
WorkspaceScreens(v) ==
    SignInPages \cup OnboardingPages(v) \cup templatesPage(v) \cup templatePage(v)
    \cup DashboardPage(v) \cup MembersPage(v) \cup InviteMemberForm(v)
    \cup WorkspacePage(v) \cup ModulesPage(v) \cup DangerPage(v) \cup AutomationPage(v)
    \cup NotificationsPage(v)

\* What a viewer is offered about a thing of that kind; a removed one is offered nothing.
Offers(kind, v) ==
    IF v.role \notin SYSTEM_ROLE_KEYS THEN {}
    ELSE CASE kind = "task" -> TaskScreens(v)
           [] kind = "project" -> ProjectScreens(v)
           [] kind = "workspace" -> WorkspaceScreens(v)
=============================================================================
