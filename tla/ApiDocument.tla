---------------------------- MODULE ApiDocument ----------------------------
(* The OpenAPI document the server publishes of itself, as a program written from *)
(* it reads it: of every operation the method and path, the access token it needs,   *)
(* what its request carries, the statuses of success and the fields of the answer.    *)
(* It is written by hand beside the routes, and shares with them most schemas of       *)
(* requests but no path, no permission, no status and no answer.  Operations are        *)
(* named by the handlers their summaries describe; refusals are left out.                *)
EXTENDS ServerSchemas, Sequences

Operation(method, path, takes, statuses) ==
    [method |-> method, path |-> path, takes |-> takes, statuses |-> statuses,
     bearer |-> TRUE, shows |-> [form |-> "any", fields |-> {}]]
Reads(path, takes) == Operation("get", path, takes, {200})
Sends(method, path, takes) == Operation(method, path, takes, {200})
Creates(path, takes) == Operation("post", path, takes, {201})
Unsigned(op) == [op EXCEPT !.bearer = FALSE]
\* The loops that register several operations list both statuses for each.
Either(op) == [op EXCEPT !.statuses = {200, 201}]
Showing(answer, op) == [op EXCEPT !.shows = answer]

W(rest) == <<"workspaces", ":workspaceId">> \o rest
OfTasks(rest) == W(<<"tasks">> \o rest)
OfTask(rest) == OfTasks(<<":taskId">> \o rest)
OfProject(rest) == W(<<"projects", ":projectId">> \o rest)

-----------------------------------------------------------------------------
(* Health, sign-in, workspaces *)

healthPaths ==
    [live |-> Unsigned(Reads(<<"health", "live">>, Nothing)),
     ready |-> Unsigned(Reads(<<"health", "ready">>, Nothing))]
signInPaths ==
    LET post(name, takes) == Unsigned(Either(Sends("post", <<"auth", name>>, takes)))
    IN  [register |-> post("register", registerSchema), login |-> post("login", loginSchema),
         refresh |-> post("refresh", Nothing), logout |-> post("logout", Nothing),
         verifyEmail |-> post("verify-email", verifyEmailSchema),
         resendVerification |-> post("resend-verification", resendVerificationSchema),
         forgotPassword |-> post("forgot-password", forgotPasswordSchema),
         resetPassword |-> post("reset-password", resetPasswordSchema)]
accountPaths ==
    LET on(method, path, takes) == Either(Sends(method, path, takes))
    IN  [logoutAll |-> on("post", <<"auth", "logout-all">>, Nothing),
         changePassword |-> on("post", <<"auth", "change-password">>, changePasswordSchema),
         getMe |-> on("get", <<"auth", "me">>, Nothing),
         listSessions |-> on("get", <<"auth", "sessions">>, Nothing),
         revokeSession |-> on("delete", <<"auth", "sessions", ":sessionId">>, Nothing),
         selectWorkspace |-> on("post", <<"auth", "select-workspace">>, selectWorkspaceSchema),
         listWorkspaces |-> on("get", <<"me", "workspaces">>, Nothing)]
workspacePaths ==
    [createWorkspace |-> Creates(<<"workspaces">>, createWorkspaceSchema),
     getWorkspace |-> Reads(W(<<>>), Nothing),
     updateWorkspace |-> Sends("patch", W(<<>>), updateWorkspaceSchema),
     listMembers |-> Reads(W(<<"members">>), listMembersQuerySchema),
     inviteMember |-> Creates(W(<<"invitations">>), inviteMemberSchema),
     acceptInvitation |->
         Unsigned(Sends("post", <<"invitations", "accept">>, acceptInvitationSchema))]
onboardingPaths ==
    [getOnboarding |-> Reads(W(<<"onboarding">>), Nothing),
     updateOnboarding |-> Sends("patch", W(<<"onboarding">>), updateOnboardingSchema),
     completeOnboarding |-> Sends("post", W(<<"onboarding", "complete">>), Nothing),
     createFirstProject |-> Creates(W(<<"onboarding", "first-project">>), createFirstProjectSchema),
     listModules |-> Reads(W(<<"modules">>), Nothing),
     applyModulePreset |-> Sends("post", W(<<"modules", "presets">>), applyModulePresetSchema),
     updateModules |-> Sends("patch", W(<<"modules">>), updateModulesSchema)]

-----------------------------------------------------------------------------
(* Tasks *)

taskMutationPaths ==
    [changeStatus |-> Sends("patch", OfTask(<<"status">>), statusMutationSchema),
     changeAssignee |-> Sends("patch", OfTask(<<"assignee">>), assigneeMutationSchema),
     moveTask |-> Sends("patch", OfTask(<<"move">>), moveTaskSchema)]
taskViewPaths ==
    [listBoardColumn |-> Reads(OfTasks(<<"board">>), boardTasksQuerySchema),
     listCalendar |-> Reads(OfTasks(<<"calendar">>), calendarTasksQuerySchema),
     listTimeline |-> Reads(OfTasks(<<"timeline">>), timelineTasksQuerySchema),
     exportTasks |-> Sends("post", OfTasks(<<"export">>), exportTasksSchema)]
savedViewPaths ==
    LET all == W(<<"saved-views">>)
        one == W(<<"saved-views", ":viewId">>)
    IN  [listSavedViews |-> Reads(all, Nothing),
         createSavedView |-> Creates(all, createSavedViewSchema),
         getSavedView |-> Reads(one, Nothing),
         updateSavedView |-> Sends("patch", one, updateSavedViewSchema),
         deleteSavedView |-> Sends("delete", one, Nothing)]
taskLifecyclePaths ==
    LET lifecycle(name) == Sends("post", OfTask(<<name>>), versionMutationSchema)
    IN  [archiveTask |-> lifecycle("archive"), unarchiveTask |-> lifecycle("unarchive"),
         restoreTask |-> lifecycle("restore")]
taskBulkPaths ==
    [bulkUpdate |-> Sends("post", OfTasks(<<"bulk-update">>), bulkUpdateSchema),
     bulkDelete |-> Sends("post", OfTasks(<<"bulk-delete">>), bulkDeleteSchema),
     getTaskActivity |-> Reads(OfTask(<<"activity">>), taskActivityQuerySchema)]
taskPaths ==
    [listTasks |-> Reads(OfTasks(<<>>), listTasksQuerySchema),
     createTask |-> Creates(OfTasks(<<>>), createTaskSchema),
     updateTask |-> Sends("patch", OfTask(<<>>), updateTaskSchema),
     getTask |-> Reads(OfTask(<<>>), Nothing),
     deleteTask |-> Sends("delete", OfTask(<<>>), deleteTaskQuerySchema),
     parseTask |-> Sends("post", OfTasks(<<"parse">>), parseTaskSchema)]

-----------------------------------------------------------------------------
(* What hangs on a task *)

checklistPaths ==
    LET all == OfTask(<<"checklist-items">>)
        one == OfTask(<<"checklist-items", ":itemId">>)
        on(method, path, takes) == Either(Sends(method, path, takes))
    IN  [listChecklist |-> on("get", all, Nothing),
         createChecklistItem |-> on("post", all, createChecklistItemSchema),
         updateChecklistItem |-> on("patch", one, updateChecklistItemSchema),
         deleteChecklistItem |-> on("delete", one, Nothing),
         reorderChecklist |->
             on("post", OfTask(<<"checklist-items", "reorder">>), reorderChecklistSchema)]
tagPaths ==
    LET on(method, path, takes) == Either(Sends(method, path, takes))
    IN  [listTags |-> on("get", W(<<"tags">>), listTagsQuerySchema),
         createTag |-> on("post", W(<<"tags">>), createTagSchema),
         updateTag |-> on("patch", W(<<"tags", ":tagId">>), updateTagSchema),
         deleteTag |-> on("delete", W(<<"tags", ":tagId">>), Nothing),
         listTaskTags |-> on("get", OfTask(<<"tags">>), Nothing),
         setTaskTags |-> on("put", OfTask(<<"tags">>), setTaskTagsSchema)]
customFieldPaths ==
    LET all == W(<<"custom-fields">>)
        one == W(<<"custom-fields", ":fieldId">>)
        values == OfTask(<<"custom-field-values">>)
        on(method, path, takes) == Either(Sends(method, path, takes))
    IN  [listCustomFields |-> on("get", all, listCustomFieldsQuerySchema),
         createCustomField |-> on("post", all, createCustomFieldSchema),
         updateCustomField |-> on("patch", one, updateCustomFieldSchema),
         deleteCustomField |-> on("delete", one, Nothing),
         listTaskCustomFieldValues |-> on("get", values, Nothing),
         setTaskCustomFieldValues |-> on("put", values, setTaskCustomFieldValuesSchema)]
commentPaths ==
    LET all == OfTask(<<"comments">>)
        one == OfTask(<<"comments", ":commentId">>)
        on(method, path, takes) == Either(Sends(method, path, takes))
    IN  [listComments |-> on("get", all, listCommentsQuerySchema),
         createComment |-> on("post", all, createCommentSchema),
         updateComment |-> on("patch", one, updateCommentSchema),
         deleteComment |-> on("delete", one, Nothing)]
attachmentPaths ==
    LET all == OfTask(<<"attachments">>)
        one(rest) == OfTask(<<"attachments", ":attachmentId">> \o rest)
    IN  [listAttachments |-> Either(Reads(all, Nothing)),
         downloadAttachment |-> Either(Reads(one(<<"download">>), Nothing)),
         deleteAttachment |-> Either(Sends("delete", one(<<>>), Nothing)),
         uploadAttachment |-> Creates(all, Required({"file"}))]
dependencyPaths ==
    LET all == OfTask(<<"dependencies">>)
    IN  [listDependencies |-> Either(Reads(all, Nothing)),
         createDependency |-> Either(Sends("post", all, createDependencySchema)),
         deleteDependency |-> Either(Sends("delete", all \o <<":dependencyId">>, Nothing))]
timeLogPaths ==
    LET at(rest) == OfTask(<<"time-logs">> \o rest)
        on(method, path, takes) == Either(Sends(method, path, takes))
    IN  [listTimeLogs |-> on("get", at(<<>>), listTimeLogsQuerySchema),
         createManualTimeLog |-> on("post", at(<<>>), createManualTimeLogSchema),
         startTimer |-> on("post", at(<<"timer", "start">>), startTimerSchema),
         stopTimer |-> on("post", at(<<"timer", "stop">>), stopTimerSchema),
         updateTimeLog |-> on("patch", at(<<":timeLogId">>), updateTimeLogSchema),
         deleteTimeLog |-> on("delete", at(<<":timeLogId">>), Nothing),
         getRunningTimer |-> on("get", W(<<"timers", "running">>), Nothing)]
automationPaths ==
    LET on(method, path) == Either(Sends(method, path, Nothing))
    IN  [listTaskHistory |-> on("get", OfTask(<<"status-history">>)),
         getRecurrence |-> on("get", OfTask(<<"recurrence">>)),
         upsertRecurrence |-> on("put", OfTask(<<"recurrence">>)),
         getTaskRisk |-> on("get", OfTask(<<"risk">>)),
         listTaskSla |-> on("get", OfTask(<<"sla">>)),
         listAutomationRuns |-> on("get", W(<<"automation-runs">>))]

-----------------------------------------------------------------------------
(* Notifications, projects, dashboard *)

notificationPaths ==
    LET at(rest) == W(<<"notifications">> \o rest)
    IN  [listNotifications |-> Reads(at(<<>>), listNotificationsQuerySchema),
         markNotificationRead |-> Sends("patch", at(<<":notificationId", "read">>), Nothing),
         markAllNotificationsRead |-> Sends("patch", at(<<"read-all">>), Nothing),
         getNotificationPreference |-> Reads(at(<<"preferences">>), Nothing),
         updateNotificationPreference |->
             Sends("patch", at(<<"preferences">>), updateNotificationPreferenceSchema)]
projectPaths ==
    [listProjects |-> Reads(W(<<"projects">>), listProjectsQuerySchema),
     createProject |-> Creates(W(<<"projects">>), createProjectSchema),
     getProject |-> Reads(OfProject(<<>>), Nothing),
     updateProject |-> Sends("patch", OfProject(<<>>), updateProjectSchema),
     archiveProject |-> Sends("post", OfProject(<<"archive">>), Nothing),
     unarchiveProject |-> Sends("post", OfProject(<<"unarchive">>), Nothing),
     deleteProject |-> Sends("delete", OfProject(<<>>), Nothing),
     restoreProject |-> Sends("post", OfProject(<<"restore">>), Nothing)]
projectMemberPaths ==
    LET all == OfProject(<<"members">>)
        one == OfProject(<<"members", ":memberUserId">>)
    IN  [listProjectMembers |-> Reads(all, Nothing),
         addProjectMember |-> Sends("post", all, addProjectMemberSchema),
         replaceProjectMembers |-> Sends("put", all, replaceProjectMembersSchema),
         updateProjectMember |-> Sends("patch", one, updateProjectMemberSchema),
         removeProjectMember |-> Sends("delete", one, Nothing),
         updateProjectVisibility |->
             Sends("patch", OfProject(<<"visibility">>), updateProjectVisibilitySchema),
         listEligibleAssignees |->
             Reads(OfProject(<<"eligible-assignees">>), eligibleAssigneesQuerySchema)]
dashboardPaths ==
    LET at(name, takes) == Reads(W(<<"dashboard", name>>), takes)
    IN  [getDashboardSummary |-> at("summary", dashboardQuerySchema),
         getDashboardMyWork |-> at("my-work", myWorkQuerySchema),
         getDashboardCharts |-> at("charts", dashboardQuerySchema),
         getDashboardActivity |-> at("activity", activityQuerySchema)]

-----------------------------------------------------------------------------
(* The components: schemas the document has of its own *)

workflowStageOpenApiSchema ==
    {"id", "workflowId", "name", "category", "color", "position", "isInitial", "isTerminal",
     "isActive"}
workflowOpenApiSchema ==
    {"id", "familyId", "workspaceId", "sourceProjectId", "name", "version", "status", "stages",
     "transitions"}
projectWorkflowStateOpenApiSchema == {"published", "draft", "appliedVersion"}
workflowPublishPreviewOpenApiSchema ==
    {"taskCount", "currentStages", "legacyStatusCounts", "requiredStageMappings",
     "requiresMapping"}
workflowPublishInputOpenApiSchema ==
    Body({"draftWorkflowId"}, {"stageMappings", "legacyStatusMappings"}, {})
    @@ [stageMappings |-> Fields({"fromStageId", "toStageId"}, {}, {}),
        legacyStatusMappings |-> Fields({"fromStatus", "toStageId"}, {}, {})]
workflowPublishResultOpenApiSchema == {"workflowId", "workflowVersion", "movedTasks"}

\* Registered beside the schemas that the operations on stages take.
CreateWorkflowStageInput == Body({"name", "category"}, {"color", "isInitial", "isTerminal"}, {})
UpdateWorkflowStageInput ==
    Body({}, {"name", "category", "color", "isInitial", "isTerminal", "isActive"}, {"color"})
ReorderWorkflowStagesInput == Required({"stageIds"})
ReplaceWorkflowTransitionsInput ==
    Required({"transitions"})
    @@ [transitions |-> Fields({"fromStageId", "toStageId"}, {"requiredPermission", "conditionsJson"},
                               {"requiredPermission"})]

documentedFrame ==
    [contentJson |-> Fields({"schemaVersion", "project", "memberPlaceholders", "workflow", "tags",
                             "customFields", "milestones", "tasks", "dependencies"}, {}, {}),
     project |-> Fields({"status", "priority", "visibility", "completionPolicy"},
                        {"description", "managerPlaceholderKey"},
                        {"description", "managerPlaceholderKey"}),
     memberPlaceholders |-> Fields({"key", "name", "projectRole", "required"}, {}, {}),
     workflow |-> Fields({"name", "stages", "transitions"}, {}, {}),
     stages |-> Fields({"key", "name", "category", "position", "isInitial", "isTerminal",
                        "isActive"}, {"color"}, {"color"}),
     transitions |-> Fields({"fromKey", "toKey", "conditionsJson"}, {"requiredPermission"},
                            {"requiredPermission"})]
documentedObjects ==
    LET days == {"startOffsetDays", "dueOffsetDays"}
        linked == {"description", "parentKey", "subtaskPosition", "milestoneKey",
                   "assigneePlaceholderKey", "durationDays"} \cup days
    IN  [tags |-> Fields({"key", "name", "color"}, {}, {}),
         customFields |-> Fields({"key", "name", "fieldType", "isRequired", "options", "position",
                                  "isActive"}, {"defaultValue"}, {"defaultValue"}),
         milestones |-> Fields({"key", "name", "status", "position"}, {"description"} \cup days,
                               {"description"} \cup days),
         tasks |-> Fields({"key", "title", "priority", "stageKey", "position", "checklist", "tagKeys",
                           "customValues"}, linked, linked),
         checklist |-> Fields({"title", "position", "isCompleted"}, {}, {}),
         dependencies |-> Fields({"predecessorKey", "successorKey", "dependencyType"}, {}, {})]
templateContentOpenApiSchema == documentedFrame @@ documentedObjects
templateRecordOpenApiSchema ==
    {"id", "seriesId", "workspaceId", "name", "description", "industryCode", "visibility", "status",
     "version", "contentSchemaVersion", "contentJson", "contentHash", "publishedAt", "supersededAt",
     "createdById", "createdAt", "updatedAt"}
cloneRequestOpenApiSchema ==
    Body({"projectName", "idempotencyKey"}, {"projectCode", "startAt", "memberBindings"}, {})
cloneResultOpenApiSchema == {"mode", "cloneJobId", "projectId"}
cloneJobOpenApiSchema ==
    {"id", "templateId", "projectId", "status", "progress", "attempts", "maxAttempts",
     "nextAttemptAt", "errorMessage", "resultJson", "createdAt", "completedAt"}
createTemplateOpenApiSchema ==
    Body({"name"}, {"description", "industryCode", "visibility", "contentJson"}, {})
    @@ templateContentOpenApiSchema
updateTemplateOpenApiSchema ==
    Body({}, {"name", "description", "industryCode", "contentJson"}, {"description", "industryCode"})
    @@ templateContentOpenApiSchema
milestoneOpenApiSchema ==
    {"id", "workspaceId", "projectId", "name", "description", "status", "position", "startAt",
     "dueAt", "completedAt", "createdById", "createdBy", "createdAt", "updatedAt", "taskCount"}
createMilestoneOpenApiSchema ==
    Body({"name"}, {"description", "status", "position", "startAt", "dueAt"}, {"startAt", "dueAt"})
updateMilestoneOpenApiSchema ==
    [createMilestoneOpenApiSchema EXCEPT !.body.must = {}, !.body.may = @ \cup {"name"}]
reorderMilestonesOpenApiSchema == Required({"milestoneIds"})

-----------------------------------------------------------------------------
(* Workflows, templates, milestones *)

workflowPaths ==
    LET at(rest) == OfProject(<<"workflow">> \o rest)
        draft(rest) == at(<<"drafts", ":workflowId">> \o rest)
    IN  [getProjectWorkflow |-> Showing(One(projectWorkflowStateOpenApiSchema), Reads(at(<<>>), Nothing)),
         createWorkflowDraft |-> Showing(One(workflowOpenApiSchema), Creates(at(<<"draft">>), Nothing)),
         getWorkflowDraft |-> Showing(One(workflowOpenApiSchema), Reads(draft(<<>>), Nothing)),
         getWorkflowPublishPreview |->
             Showing(One(workflowPublishPreviewOpenApiSchema), Reads(draft(<<"publish-preview">>), Nothing)),
         validateWorkflowDraft |-> Showing(One({"valid"}), Sends("post", draft(<<"validate">>), Nothing)),
         publishProjectWorkflow |->
             Showing(One(workflowPublishResultOpenApiSchema),
                     Sends("post", at(<<"publish">>), workflowPublishInputOpenApiSchema))]
stagePaths ==
    LET draft(rest) == OfProject(<<"workflow", "drafts", ":workflowId">> \o rest)
        one == draft(<<"stages", ":stageId">>)
    IN  [addWorkflowStage |->
             Showing(One(workflowStageOpenApiSchema), Creates(draft(<<"stages">>), createWorkflowStageSchema)),
         updateWorkflowStage |->
             Showing(One(workflowStageOpenApiSchema), Sends("patch", one, updateWorkflowStageSchema)),
         deleteWorkflowStage |->
             Showing(One({"deleted"}), Sends("delete", one, deleteWorkflowStageQuerySchema)),
         reorderWorkflowStages |->
             Showing(One(workflowOpenApiSchema),
                     Sends("put", draft(<<"stages", "reorder">>), reorderWorkflowStagesSchema)),
         upsertWorkflowTransitions |->
             Showing(One(workflowOpenApiSchema),
                     Sends("put", draft(<<"transitions">>), upsertWorkflowTransitionsSchema))]
templatePaths ==
    LET at(rest) == W(<<"templates">> \o rest)
        one == <<":templateId">>
        record(op) == Showing(One(templateRecordOpenApiSchema), op)
    IN  [listTemplates |-> Showing(Many(templateRecordOpenApiSchema),
                                   Reads(at(<<>>), listTemplatesQuerySchema)),
         createTemplate |-> record(Creates(at(<<>>), createTemplateOpenApiSchema)),
         getTemplate |-> record(Reads(at(one), Nothing)),
         updateTemplate |-> record(Sends("patch", at(one), updateTemplateOpenApiSchema)),
         publishTemplate |-> record(Sends("post", at(one \o <<"publish">>), Nothing)),
         validateTemplate |-> Showing(One({"valid", "schemaVersion", "contentHash"}),
                                      Sends("post", at(one \o <<"validate">>), Nothing))]
templateVersionPaths ==
    LET at(rest) == W(<<"templates", ":templateId">> \o rest)
        job(rest) == W(<<"templates", "clone-jobs", ":cloneJobId">> \o rest)
        record(op) == Showing(One(templateRecordOpenApiSchema), op)
    IN  [createTemplateVersion |-> record(Creates(at(<<"versions">>), Nothing)),
         listTemplateVersions |->
             Showing(Many(templateRecordOpenApiSchema), Reads(at(<<"versions">>), Nothing)),
         archiveTemplate |-> record(Sends("post", at(<<"archive">>), Nothing)),
         duplicateTemplate |-> record(Creates(at(<<"duplicate">>), Nothing)),
         cloneTemplate |-> Showing(One(cloneResultOpenApiSchema),
                                   Operation("post", at(<<"clone">>), cloneRequestOpenApiSchema, {202})),
         getCloneJob |-> Showing(One(cloneJobOpenApiSchema), Reads(job(<<>>), Nothing)),
         retryCloneJob |-> Showing(One(cloneJobOpenApiSchema), Sends("post", job(<<"retry">>), Nothing))]
milestonePaths ==
    LET at(rest) == OfProject(<<"milestones">> \o rest)
        one == at(<<":milestoneId">>)
        record(op) == Showing(One(milestoneOpenApiSchema), op)
        list(op) == Showing(Many(milestoneOpenApiSchema), op)
    IN  [listMilestones |-> list(Reads(at(<<>>), Nothing)),
         createMilestone |-> record(Creates(at(<<>>), createMilestoneOpenApiSchema)),
         reorderMilestones |-> list(Sends("put", at(<<"reorder">>), reorderMilestonesOpenApiSchema)),
         getMilestone |-> record(Reads(one, Nothing)),
         updateMilestone |-> record(Sends("patch", one, updateMilestoneOpenApiSchema)),
         deleteMilestone |-> Showing(One({"deleted"}), Sends("delete", one, Nothing))]

-----------------------------------------------------------------------------
Operations ==
    healthPaths @@ signInPaths @@ accountPaths @@ workspacePaths @@ onboardingPaths
    @@ taskMutationPaths @@ taskViewPaths @@ savedViewPaths @@ taskLifecyclePaths @@ taskBulkPaths
    @@ taskPaths @@ checklistPaths @@ tagPaths @@ customFieldPaths @@ commentPaths
    @@ attachmentPaths @@ dependencyPaths @@ timeLogPaths @@ automationPaths @@ notificationPaths
    @@ projectPaths @@ projectMemberPaths @@ dashboardPaths @@ workflowPaths @@ stagePaths
    @@ templatePaths @@ templateVersionPaths @@ milestonePaths
\* A second description of a request the document gives under a name of its own.
Components ==
    [addWorkflowStage |-> CreateWorkflowStageInput, updateWorkflowStage |-> UpdateWorkflowStageInput,
     reorderWorkflowStages |-> ReorderWorkflowStagesInput,
     upsertWorkflowTransitions |-> ReplaceWorkflowTransitionsInput]
=============================================================================
