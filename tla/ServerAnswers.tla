--------------------------- MODULE ServerAnswers ---------------------------
(* What each handler of the server does with a request it is given: the parts of *)
(* the path it reads, the standing it demands of the caller beyond the           *)
(* permissions of its route, and the answer it sends: one object, a whole list,   *)
(* a page of one, or a file, with the fields the mappers put into an object.      *)
(* Values, and the objects nested in an answer, are left out.                     *)
EXTENDS Messages, TLC

Handler(ids, answer) == [ids |-> ids, answer |-> answer]
InWorkspace(ids) == {":workspaceId"} \cup ids
OnTask(ids) == InWorkspace({":taskId"} \cup ids)
OnProject(ids) == InWorkspace({":projectId"} \cup ids)
OnTemplate == InWorkspace({":templateId"})

stamps == {"createdAt", "updatedAt"}

-----------------------------------------------------------------------------
(* The objects the mappers of the services make *)

taskFields ==
    {"id", "workspaceId", "taskNumber", "projectId", "parentTaskId", "parentTask",
     "subtaskPosition", "milestoneId", "milestone", "subtasks", "project", "projectName", "title",
     "description", "status", "workflowStageId", "workflowStage", "priority", "startAt", "dueDate",
     "completedAt", "completedById", "completedBy", "isBlocked", "blockedReason",
     "dependencyBlocked", "dependencyOverrideReason", "dependencyOverriddenById",
     "dependencyOverriddenAt", "source", "createdById", "creator", "assigneeId", "assignee", "rank",
     "version", "manualRiskLevel", "riskLevel", "riskScore", "riskReasons", "riskCalculatedAt",
     "archivedAt", "deletedAt", "deleted"} \cup stamps
project ==
    {"id", "workspaceId", "name", "code", "description", "status", "priority", "visibility",
     "managerId", "manager", "startAt", "endAt", "completionPolicy", "completedAt", "archivedAt",
     "deletedAt", "createdById", "creator", "memberIds", "members", "stats", "totalTasks",
     "openTasks", "overdueTasks", "progressPercent", "health"} \cup stamps
projectMember ==
    {"userId", "projectRole", "joinedAt", "addedById", "id", "fullName", "email", "role",
     "roleName", "status"}
assigneeCandidate == {"id", "fullName", "email", "role", "roleName", "status"}
template ==
    {"id", "seriesId", "workspaceId", "name", "description", "industryCode", "version",
     "visibility", "status", "contentSchemaVersion", "contentHash", "contentJson", "publishedAt",
     "supersededAt", "createdById"} \cup stamps
cloneJob ==
    {"id", "templateId", "projectId", "status", "progress", "attempts", "maxAttempts",
     "nextAttemptAt", "errorMessage", "resultJson", "createdAt", "completedAt"}
workflowStage ==
    {"id", "workflowId", "name", "category", "color", "position", "isInitial", "isTerminal",
     "isActive"}
workflow ==
    {"id", "familyId", "workspaceId", "sourceProjectId", "name", "version", "status", "stages",
     "transitions"}
workflowState == {"published", "draft", "appliedVersion"}
publishPreview ==
    {"taskCount", "currentStages", "legacyStatusCounts", "requiredStageMappings",
     "requiresMapping"}
milestone ==
    {"id", "workspaceId", "projectId", "name", "description", "status", "position", "startAt",
     "dueAt", "completedAt", "createdById", "taskCount", "createdBy"} \cup stamps
notification ==
    {"id", "workspaceId", "userId", "taskId", "type", "title", "body", "readAt", "dedupeKey",
     "createdAt"}
notificationPreference ==
    {"id", "workspaceId", "userId", "taskAssigned", "taskMentioned", "taskUnblocked",
     "recurrenceCreated", "recurrenceSkipped", "slaWarning", "slaBreached", "riskEscalated",
     "projectStatusChanged"} \cup stamps
savedView ==
    {"id", "workspaceId", "ownerUserId", "name", "resourceType", "viewType", "visibility",
     "filtersJson", "sortJson", "groupByJson", "columnsJson", "displayOptionsJson",
     "configVersion", "isDefault"} \cup stamps
checklistItem ==
    {"id", "taskId", "title", "isCompleted", "position", "completedById", "completedAt",
     "createdById"} \cup stamps
tag == {"id", "workspaceId", "name", "color", "createdById"} \cup stamps
customField ==
    {"id", "workspaceId", "projectId", "name", "fieldType", "isRequired", "options",
     "defaultValue", "position", "isActive"} \cup stamps
fieldValue == {"field", "value"}
commentFields ==
    {"id", "taskId", "authorId", "authorName", "authorEmail", "parentCommentId", "content",
     "mentionUserIds", "deletedAt", "deleted"} \cup stamps
attachment ==
    {"id", "workspaceId", "taskId", "uploadedById", "originalFileName", "mimeType", "sizeBytes",
     "checksum", "scanStatus", "createdAt", "deletedAt"}
dependencySummary == {"policy", "waitingOn", "blocking", "hasIncompletePredecessors"}
timeLog ==
    {"id", "workspaceId", "taskId", "userId", "startedAt", "endedAt", "durationSeconds",
     "description", "source", "user", "userName", "userEmail", "task", "taskNumber", "taskTitle"}
    \cup stamps
recurrence ==
    {"id", "workspaceId", "templateTaskId", "frequency", "interval", "daysOfWeek", "dayOfMonth",
     "timezone", "startAt", "endAt", "nextRunAt", "lastRunAt", "overlapPolicy", "isActive"}
    \cup stamps
taskRisk == {"taskId", "manualRiskLevel", "riskLevel", "riskScore", "riskReasons", "calculatedAt"}
riskRule == {"id", "workspaceId", "name", "weights", "thresholds", "isActive"}
businessCalendar ==
    {"id", "workspaceId", "name", "timezone", "isDefault", "isActive", "createdById",
     "workingHours", "holidays"} \cup stamps
slaPolicy ==
    {"id", "workspaceId", "name", "triggerType", "targetDurationMinutes", "warningBeforeMinutes",
     "applicableConditionsJson", "businessCalendarId", "isActive", "createdById"} \cup stamps
slaInstanceRow ==
    {"id", "workspaceId", "taskId", "policyId", "startedAt", "dueAt", "warningAt", "status",
     "pausedAt", "totalPausedSeconds", "warningSentAt", "breachedAt", "breachNotifiedAt"}
    \cup stamps
slaInstance ==
    {"id", "taskId", "policyId", "policyName", "startedAt", "dueAt", "warningAt", "status",
     "pausedAt", "totalPausedSeconds", "warningSentAt", "breachedAt", "remainingSeconds"}
automationRun ==
    {"id", "workspaceId", "taskId", "jobType", "status", "attempts", "maxAttempts",
     "idempotencyKey", "correlationId", "payloadJson", "resultJson", "errorMessage",
     "nextRetryAt", "startedAt", "completedAt", "retriedById"} \cup stamps
sessionFields ==
    {"id", "familyId", "rememberMe", "expiresAt", "absoluteExpiresAt", "lastUsedAt", "userAgent",
     "ipAddress", "createdAt", "current"}
me == {"id", "email", "fullName", "status", "emailVerifiedAt", "lastActiveWorkspaceId", "workspaces"}
workspaceSummary ==
    {"id", "name", "slug", "type", "roleKey", "membershipId", "onboardingStatus", "currentStep"}
workspace ==
    {"id", "name", "slug", "type", "status", "ownerId", "industryCode", "usagePurpose",
     "companySize", "timezone", "locale", "logoUrl", "dependencyCompletionPolicy", "deletedAt"}
    \cup stamps
memberFields == {"id", "status", "user", "role", "createdAt"}
invitation == {"id", "email", "roleKey", "expiresAt", "status"}
onboarding ==
    {"id", "workspaceId", "userId", "onboardingType", "status", "currentStep", "completedSteps",
     "completedAt"} \cup stamps
module == {"id", "workspaceId", "moduleKey", "enabled", "core", "name", "description"} \cup stamps
activityEvent ==
    {"id", "action", "resourceType", "resourceId", "projectId", "summary", "actor", "createdAt"}

-----------------------------------------------------------------------------
(* The controllers *)

health == [live |-> Handler({}, One({"status", "service", "timestamp"})),
           ready |-> Handler({}, One({"status", "service", "timestamp", "checks"}))]
authSignIn ==
    [register |-> Handler({}, One({"user", "requiresEmailVerification"})),
     login |-> Handler({}, One({"accessToken", "user"})),
     refresh |-> Handler({}, One({"accessToken", "user"})),
     logout |-> Handler({}, One({"loggedOut"})),
     logoutAll |-> Handler({}, One({"loggedOutAll"})),
     verifyEmail |-> Handler({}, One({"verified"})),
     resendVerification |-> Handler({}, One({"message"}))]
authAccount ==
    [forgotPassword |-> Handler({}, One({"message"})),
     resetPassword |-> Handler({}, One({"reset"})),
     changePassword |-> Handler({}, One({"changed"})),
     getMe |-> Handler({}, One(me)),
     listWorkspaces |-> Handler({}, Many(workspaceSummary)),
     selectWorkspace |-> Handler({}, One(workspaceSummary)),
     listSessions |-> Handler({}, Many(sessionFields)),
     revokeSession |-> Handler({":sessionId"}, One({"revoked"}))]
workspaceRecords ==
    [createWorkspace |-> Handler({}, One(workspace \cup {"onboarding"})),
     getWorkspace |-> Handler(InWorkspace({}), One(workspace)),
     updateWorkspace |-> Handler(InWorkspace({}), One(workspace)),
     listMembers |-> Handler(InWorkspace({}), Paged(memberFields)),
     inviteMember |-> Handler(InWorkspace({}), One(invitation)),
     inspectInvitation |-> Handler({}, One({"email", "workspace", "roleKey", "expiresAt"}))]
workspaceMembers ==
    [acceptInvitation |-> Handler({}, One({"workspaceId", "roleKey", "userId"})),
     revokeInvitation |-> Handler(InWorkspace({":invitationId"}), One({"revoked"})),
     updateMemberRole |-> Handler(InWorkspace({":memberId"}), One(memberFields)),
     removeMember |-> Handler(InWorkspace({":memberId"}), One({"removed"})),
     transferOwnership |-> Handler(InWorkspace({}), One({"transferred", "ownerId"}))]
workspaceSetup ==
    [getOnboarding |-> Handler(InWorkspace({}), One(onboarding)),
     updateOnboarding |-> Handler(InWorkspace({}), One(onboarding)),
     completeOnboarding |-> Handler(InWorkspace({}), One(onboarding)),
     listModules |-> Handler(InWorkspace({}), Many(module)),
     applyModulePreset |-> Handler(InWorkspace({}), Many(module)),
     updateModules |-> Handler(InWorkspace({}), Many(module)),
     createFirstProject |-> Handler(InWorkspace({}), One({"project", "tasks"}))]
projectRecords ==
    [listProjects |-> Handler(InWorkspace({}), Paged(project)),
     createProject |-> Handler(InWorkspace({}), One(project))]
    @@ [h \in {"getProject", "updateProject", "archiveProject", "unarchiveProject",
               "deleteProject", "restoreProject"} |-> Handler(OnProject({}), One(project))]
projectMembers ==
    [listProjectMembers |-> Handler(OnProject({}), Many(projectMember)),
     addProjectMember |-> Handler(OnProject({}), One(project)),
     updateProjectMember |-> Handler(OnProject({":memberUserId"}), One(project)),
     removeProjectMember |-> Handler(OnProject({":memberUserId"}), One(project)),
     replaceProjectMembers |-> Handler(OnProject({}), One(project)),
     publishProjectWorkflow |->
         Handler(OnProject({}), One({"workflowId", "workflowVersion", "movedTasks"})),
     updateProjectVisibility |-> Handler(OnProject({}), One(project)),
     listEligibleAssignees |-> Handler(OnProject({}), Many(assigneeCandidate))]
milestones ==
    [listMilestones |-> Handler(OnProject({}), Many(milestone)),
     getMilestone |-> Handler(OnProject({":milestoneId"}), One(milestone)),
     createMilestone |-> Handler(OnProject({}), One(milestone)),
     updateMilestone |-> Handler(OnProject({":milestoneId"}), One(milestone)),
     deleteMilestone |-> Handler(OnProject({":milestoneId"}), One({"deleted"})),
     reorderMilestones |-> Handler(OnProject({}), Many(milestone))]
OnDraft(ids) == OnProject({":workflowId"} \cup ids)
workflowDrafts ==
    [getProjectWorkflow |-> Handler(OnProject({}), One(workflowState)),
     createWorkflowDraft |-> Handler(OnProject({}), One(workflow)),
     getWorkflowPublishPreview |-> Handler(OnDraft({}), One(publishPreview)),
     getWorkflowDraft |-> Handler(OnDraft({}), One(workflow)),
     addWorkflowStage |-> Handler(OnDraft({}), One(workflowStage))]
workflowStages ==
    [updateWorkflowStage |-> Handler(OnDraft({":stageId"}), One(workflowStage)),
     deleteWorkflowStage |-> Handler(OnDraft({":stageId"}), One({"deleted"})),
     reorderWorkflowStages |-> Handler(OnDraft({}), One(workflow)),
     upsertWorkflowTransitions |-> Handler(OnDraft({}), One(workflow)),
     validateWorkflowDraft |-> Handler(OnDraft({}), One({"valid"}))]
templateRecords ==
    [listTemplates |-> Handler(InWorkspace({}), Paged(template)),
     getTemplate |-> Handler(OnTemplate, One(template)),
     createTemplate |-> Handler(InWorkspace({}), One(template)),
     updateTemplate |-> Handler(OnTemplate, One(template)),
     publishTemplate |-> Handler(OnTemplate, One(template)),
     archiveTemplate |-> Handler(OnTemplate, One(template)),
     duplicateTemplate |-> Handler(OnTemplate, One(template))]
templateCopies ==
    [cloneTemplate |-> Handler(OnTemplate, One({"mode", "cloneJobId", "projectId"})),
     getCloneJob |-> Handler(InWorkspace({":cloneJobId"}), One(cloneJob)),
     validateTemplate |-> Handler(OnTemplate, One({"valid", "schemaVersion", "contentHash"})),
     createTemplateVersion |-> Handler(OnTemplate, One(template)),
     listTemplateVersions |-> Handler(OnTemplate, Many(template)),
     retryCloneJob |-> Handler(InWorkspace({":cloneJobId"}), One(cloneJob))]
taskReads ==
    [listTasks |-> Handler(InWorkspace({}), Paged(taskFields)),
     getTask |-> Handler(OnTask({}), One(taskFields)),
     createTask |-> Handler(InWorkspace({}), One(taskFields)),
     updateTask |-> Handler(OnTask({}), One(taskFields)),
     deleteTask |-> Handler(OnTask({}), One(taskFields))]
taskChanges ==
    [h \in {"changeStatus", "changeAssignee", "archiveTask", "unarchiveTask", "restoreTask"} |->
         Handler(OnTask({}), One(taskFields))]
    @@ [getTaskActivity |-> Handler(OnTask({}), Paged(activityEvent)),
        bulkUpdate |-> Handler(InWorkspace({}), One({"results"})),
        bulkDelete |-> Handler(InWorkspace({}), One({"results"})),
        parseTask |->
            Handler(InWorkspace({}), One({"draft", "missingFields", "ambiguities",
                                          "projectCandidates", "assigneeCandidates", "parseMeta"}))]
taskViews ==
    [listBoardColumn |-> Handler(InWorkspace({}), Paged(taskFields)),
     listCalendar |-> Handler(InWorkspace({}), Paged(taskFields)),
     listTimeline |-> Handler(InWorkspace({}), Paged({"id", "label", "items"})),
     moveTask |-> Handler(OnTask({}), One(taskFields)),
     exportTasks |-> Handler(InWorkspace({}), File)]
checklist ==
    [listChecklist |-> Handler(OnTask({}), One({"items", "progress"})),
     createChecklistItem |-> Handler(OnTask({}), One(checklistItem)),
     updateChecklistItem |-> Handler(OnTask({":itemId"}), One(checklistItem)),
     deleteChecklistItem |-> Handler(OnTask({":itemId"}), One({"id"})),
     reorderChecklist |-> Handler(OnTask({}), One({"items", "progress"}))]
comments ==
    [listComments |-> Handler(OnTask({}), Many(commentFields)),
     createComment |-> Handler(OnTask({}), One(commentFields)),
     updateComment |-> Handler(OnTask({":commentId"}), One(commentFields)),
     deleteComment |-> Handler(OnTask({":commentId"}), One(commentFields))]
attachments ==
    [listAttachments |-> Handler(OnTask({}), Many(attachment)),
     uploadAttachment |-> Handler(OnTask({}), One(attachment)),
     downloadAttachment |->
         Handler(OnTask({":attachmentId"}), One({"attachment", "downloadUrl", "expiresIn"})),
     deleteAttachment |-> Handler(OnTask({":attachmentId"}), One({"id"}))]
tags ==
    [listTags |-> Handler(InWorkspace({}), Many(tag)),
     createTag |-> Handler(InWorkspace({}), One(tag)),
     updateTag |-> Handler(InWorkspace({":tagId"}), One(tag)),
     deleteTag |-> Handler(InWorkspace({":tagId"}), One({"id"})),
     listTaskTags |-> Handler(OnTask({}), Many(tag)),
     setTaskTags |-> Handler(OnTask({}), Many(tag))]
customFields ==
    [listCustomFields |-> Handler(InWorkspace({}), Many(customField)),
     createCustomField |-> Handler(InWorkspace({}), One(customField)),
     updateCustomField |-> Handler(InWorkspace({":fieldId"}), One(customField)),
     deleteCustomField |-> Handler(InWorkspace({":fieldId"}), One(customField)),
     listTaskCustomFieldValues |-> Handler(OnTask({}), Many(fieldValue)),
     setTaskCustomFieldValues |-> Handler(OnTask({}), Many(fieldValue))]
savedViews ==
    [listSavedViews |-> Handler(InWorkspace({}), Many(savedView)),
     getSavedView |-> Handler(InWorkspace({":viewId"}), One(savedView)),
     createSavedView |-> Handler(InWorkspace({}), One(savedView)),
     updateSavedView |-> Handler(InWorkspace({":viewId"}), One(savedView)),
     deleteSavedView |-> Handler(InWorkspace({":viewId"}), One({"id", "deleted"}))]
dependencies ==
    [listDependencies |-> Handler(OnTask({}), One(dependencySummary)),
     createDependency |-> Handler(OnTask({}), One(dependencySummary)),
     deleteDependency |-> Handler(OnTask({":dependencyId"}), One(dependencySummary))]
timeLogs ==
    [listTimeLogs |-> Handler(OnTask({}), One({"items", "scope", "ownSeconds", "totalSeconds"})),
     getRunningTimer |-> Handler(InWorkspace({}), One(timeLog)),
     startTimer |-> Handler(OnTask({}), One(timeLog)),
     stopTimer |-> Handler(OnTask({}), One(timeLog)),
     createManualTimeLog |-> Handler(OnTask({}), One(timeLog)),
     updateTimeLog |-> Handler(OnTask({":timeLogId"}), One(timeLog)),
     deleteTimeLog |-> Handler(OnTask({":timeLogId"}), One({"id"}))]
taskHistory ==
    [listTaskHistory |->
         Handler(OnTask({}), One({"items", "durationByStatus", "leadTimeSeconds", "cycleTimeSeconds"}))]
recurrences ==
    [getRecurrence |-> Handler(OnTask({}), One(recurrence)),
     upsertRecurrence |-> Handler(OnTask({}), One(recurrence)),
     deleteRecurrence |-> Handler(OnTask({}), One({"ok"})),
     previewRecurrence |-> Handler(OnTask({}), One({"nextRuns"})),
     pauseRecurrence |-> Handler(OnTask({}), One(recurrence)),
     resumeRecurrence |-> Handler(OnTask({}), One(recurrence))]
risks ==
    [getTaskRisk |-> Handler(OnTask({}), One(taskRisk)),
     setManualRisk |-> Handler(OnTask({}), One(taskRisk)),
     getRiskRule |-> Handler(InWorkspace({}), One(riskRule)),
     upsertRiskRule |-> Handler(InWorkspace({}), One(riskRule))]
slaPolicies ==
    [listSlaPolicies |-> Handler(InWorkspace({}), Many(slaPolicy)),
     createSlaPolicy |-> Handler(InWorkspace({}), One(slaPolicy)),
     updateSlaPolicy |-> Handler(InWorkspace({":policyId"}), One(slaPolicy)),
     deleteSlaPolicy |-> Handler(InWorkspace({":policyId"}), One({"deleted"}))]
slaInstances ==
    [listTaskSla |-> Handler(OnTask({}), Many(slaInstance)),
     pauseSlaInstance |-> Handler(InWorkspace({":instanceId"}), One(slaInstanceRow)),
     resumeSlaInstance |-> Handler(InWorkspace({":instanceId"}), One(slaInstanceRow))]
businessCalendars ==
    [listBusinessCalendars |-> Handler(InWorkspace({}), Many(businessCalendar)),
     getBusinessCalendar |-> Handler(InWorkspace({":calendarId"}), One(businessCalendar)),
     createBusinessCalendar |-> Handler(InWorkspace({}), One(businessCalendar)),
     updateBusinessCalendar |-> Handler(InWorkspace({":calendarId"}), One(businessCalendar)),
     deleteBusinessCalendar |-> Handler(InWorkspace({":calendarId"}), One({"deleted"}))]
automationRuns ==
    [listAutomationRuns |-> Handler(InWorkspace({}), One({"items", "total", "pagination"})),
     getAutomationRun |-> Handler(InWorkspace({":runId"}), One(automationRun)),
     retryAutomationRun |-> Handler(InWorkspace({":runId"}), One(automationRun))]
notifications ==
    [listNotifications |-> Handler(InWorkspace({}), Paged(notification)),
     markNotificationRead |-> Handler(InWorkspace({":notificationId"}), One(notification)),
     markAllNotificationsRead |-> Handler(InWorkspace({}), One({"marked"})),
     getNotificationPreference |-> Handler(InWorkspace({}), One(notificationPreference)),
     updateNotificationPreference |-> Handler(InWorkspace({}), One(notificationPreference))]
dashboard ==
    [getDashboardSummary |-> Handler(InWorkspace({}), One({"scope", "stats", "generatedAt"})),
     getDashboardMyWork |-> Handler(InWorkspace({}), One({"tab", "items", "total"})),
     getDashboardCharts |->
         Handler(InWorkspace({}), One({"available", "tasksByStatus", "tasksByCategory",
                                       "completionTrend", "overdueByProject", "teamWorkload"})),
     getDashboardActivity |-> Handler(InWorkspace({}), Paged(activityEvent))]

-----------------------------------------------------------------------------
Served ==
    health @@ authSignIn @@ authAccount @@ workspaceRecords @@ workspaceMembers @@ workspaceSetup
    @@ projectRecords @@ projectMembers @@ milestones @@ workflowDrafts @@ workflowStages
    @@ templateRecords @@ templateCopies @@ taskReads @@ taskChanges @@ taskViews @@ checklist
    @@ comments @@ attachments @@ tags @@ customFields @@ savedViews @@ dependencies @@ timeLogs
    @@ taskHistory @@ recurrences @@ risks @@ slaPolicies @@ slaInstances @@ businessCalendars
    @@ automationRuns @@ notifications @@ dashboard

\* The status of an answer that is not a refusal, and the handlers that answer only who
\* brings an access token: those of a workspace, and these.
created ==
    {"register", "createWorkspace", "inviteMember", "createFirstProject", "createProject",
     "addProjectMember", "createMilestone", "createWorkflowDraft", "addWorkflowStage",
     "createTemplate", "createTemplateVersion", "duplicateTemplate", "createTask",
     "createChecklistItem", "createComment", "uploadAttachment", "createTag", "createCustomField",
     "createSavedView", "createDependency", "createManualTimeLog", "startTimer",
     "upsertRecurrence", "createSlaPolicy", "createBusinessCalendar"}
StatusOf(h) == IF h \in created THEN 201 ELSE IF h = "cloneTemplate" THEN 202 ELSE 200
Authenticated(h) ==
    \/ ":workspaceId" \in Served[h].ids
    \/ h \in {"logoutAll", "changePassword", "getMe", "listSessions", "revokeSession",
              "selectWorkspace", "listWorkspaces", "createWorkspace"}

-----------------------------------------------------------------------------
(* What a handler demands besides its route's permissions: in the case "when" of  *)
(* a call, one of the roles, or that one of "holds" be true of the caller and the   *)
(* thing ("party": he created the task or is assigned it, "leads": he is owner or    *)
(* manager of the project, "wrote": the row is his, "kept": the task is not archived, *)
(* "there": it is not deleted), or one of the permissions.                             *)

Guard(handlers, when, roles, holds, keys) ==
    [handlers |-> handlers, when |-> when, roles |-> roles, holds |-> holds, keys |-> keys]
OWNER == {"owner"}
ADMINS == {"owner", "admin"}
LEADERS == {"owner", "admin", "manager"}

\* Every handler on a task looks it up first; the SLA list does not.
OfTask == {h \in DOMAIN Served : ":taskId" \in Served[h].ids} \ {"listTaskSla"}
taskInScope == Guard(OfTask, "any", LEADERS, {"party"}, {})
taskUndeleted == Guard(OfTask \ {"restoreTask", "getTaskActivity"}, "any", {}, {"there"}, {})
activityOfDeleted == Guard({"getTaskActivity"}, "any", ADMINS, {"there"}, {})
taskUnarchived ==
    Guard({"getTask", "startTimer"}
          \cup DOMAIN (checklist @@ comments @@ attachments)
          \cup {"listTaskTags", "setTaskTags", "listTaskCustomFieldValues", "setTaskCustomFieldValues"},
          "any", {}, {"kept"}, {})

assertCanMutateTask ==
    Guard({"updateTask", "changeStatus", "changeAssignee", "moveTask", "archiveTask",
           "unarchiveTask", "deleteTask", "restoreTask"}, "any", LEADERS, {"party"}, {})
assertCanMutateTaskOf ==
    Guard({"createChecklistItem", "updateChecklistItem", "deleteChecklistItem", "reorderChecklist",
           "createDependency", "deleteDependency", "uploadAttachment", "setTaskCustomFieldValues",
           "setTaskTags"}, "any", LEADERS, {"party"}, {})
assertCanAssign ==
    Guard({"createTask", "updateTask", "changeAssignee"}, "to another", LEADERS, {}, {})
assertDeletedListAllowed ==
    Guard({"listTasks", "listBoardColumn", "listCalendar", "listTimeline", "exportTasks"}, "deleted",
          ADMINS, {}, {})
restoreTaskGuard == Guard({"restoreTask"}, "any", ADMINS, {}, {})
restoreProjectGuard == Guard({"restoreProject"}, "any", ADMINS, {}, {})
assertCanManageProjectSettings ==
    Guard({"updateProject", "archiveProject", "unarchiveProject", "deleteProject", "restoreProject",
           "updateProjectVisibility", "publishProjectWorkflow"}, "any", ADMINS, {"leads"}, {})
assertCanManageProject ==
    Guard({"addProjectMember", "updateProjectMember", "removeProjectMember",
           "replaceProjectMembers", "createMilestone", "updateMilestone", "deleteMilestone",
           "reorderMilestones"}, "any", ADMINS, {"leads"}, {})
draftProject ==
    Guard(DOMAIN (workflowDrafts @@ workflowStages) \ {"getProjectWorkflow"}, "any", ADMINS, {"leads"}, {})
teamLogs == Guard({"listTimeLogs"}, "team", {}, {}, {"time_log.view_all"})
canManageTimeLog ==
    Guard({"updateTimeLog", "deleteTimeLog"}, "any", {}, {"wrote"}, {"time_log.manage_all"})
commentAuthor ==
    Guard({"updateComment", "deleteComment"}, "any", {}, {"wrote"}, {"comment.moderate"})
attachmentUploader == Guard({"deleteAttachment"}, "any", {}, {"wrote"}, {"attachment.manage"})
dependencyOverride ==
    Guard({"updateTask", "changeStatus", "moveTask"}, "override", {}, {}, {"task_dependency.override"})
inviteGuards ==
    {Guard({"inviteMember"}, "to admin", OWNER, {}, {}),
     Guard({"inviteMember"}, "to manager", ADMINS, {}, {})}
assertCanModifyMember ==
    {Guard({"updateMemberRole"}, "to admin", OWNER, {}, {}),
     Guard({"updateMemberRole"}, "to manager", ADMINS, {}, {})}
ownerTransfers == Guard({"transferOwnership"}, "any", OWNER, {}, {})
assertMemberFilterAllowed ==
    Guard({"getDashboardSummary", "getDashboardMyWork", "getDashboardCharts"}, "of a member",
          LEADERS, {}, {})

Guards ==
    {taskInScope, taskUndeleted, activityOfDeleted, taskUnarchived, assertCanMutateTask,
     assertCanMutateTaskOf, assertCanAssign, assertDeletedListAllowed,
     restoreTaskGuard, restoreProjectGuard, assertCanManageProjectSettings, assertCanManageProject,
     draftProject, teamLogs, canManageTimeLog, commentAuthor, attachmentUploader,
     dependencyOverride, ownerTransfers, assertMemberFilterAllowed}
    \cup inviteGuards \cup assertCanModifyMember
GuardsOf(h, case) == {g \in Guards : h \in g.handlers /\ g.when \in {"any", case}}
=============================================================================
