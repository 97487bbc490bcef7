----------------------------- MODULE ClientCalls -----------------------------
(* The calls of the web client, service by service: the handler each means to    *)
(* reach, the method and path it sends, what its input type puts into the request, *)
(* and how it reads the answer.  The fields read are those of the client's own     *)
(* record types; where a mapper looks for a field under several names, the set of  *)
(* the names stands for the field.                                                  *)
EXTENDS Messages, Sequences, TLC

\* Fields read under their own names.
Each(fields) == {{f} : f \in fields}
Call(asks, method, path, sends, reads) ==
    [asks |-> asks, method |-> method, path |-> path, sends |-> sends, reads |-> reads]
Gets(asks, path, reads) == Call(asks, "get", path, Nothing, reads)
Finds(asks, path, query, reads) == Call(asks, "get", path, Query({}, query), reads)
Posts(asks, path, sends, reads) == Call(asks, "post", path, sends, reads)
Puts(asks, path, sends, reads) == Call(asks, "put", path, sends, reads)
Patches(asks, path, sends, reads) == Call(asks, "patch", path, sends, reads)
Deletes(asks, path, reads) == Call(asks, "delete", path, Nothing, reads)

\* The paths' beginnings.
wsPath(rest) == <<"workspaces", ":workspaceId">> \o rest
taskPath(rest) == wsPath(<<"tasks", ":taskId">> \o rest)
projectPath(rest) == wsPath(<<"projects", ":projectId">> \o rest)
templatePath(rest) == wsPath(<<"templates", ":templateId">> \o rest)
workflowPath(rest) == projectPath(<<"workflow">> \o rest)
draftPath(rest) == workflowPath(<<"drafts", ":workflowId">> \o rest)

-----------------------------------------------------------------------------
(* health, auth *)

healthCalls ==
    [getLiveStatus |-> Gets("live", <<"health", "live">>, One(Each({"status", "service", "timestamp"}))),
     getReadyStatus |-> Gets("ready", <<"health", "ready">>,
                             One(Each({"status", "service", "timestamp", "checks"})))]

AuthUser == {"id", "email", "fullName", "status"}
WorkspaceSummary ==
    {"id", "name", "slug", "type", "roleKey", "membershipId", "onboardingStatus", "currentStep"}
AuthProfile == AuthUser \cup {"emailVerifiedAt", "lastActiveWorkspaceId", "workspaces"}
AuthSession ==
    {"id", "familyId", "rememberMe", "expiresAt", "absoluteExpiresAt", "lastUsedAt", "userAgent",
     "ipAddress", "createdAt", "current"}
WorkspaceMemberSummary == {"id", "status", "user", "role", "createdAt"}
auth(rest) == <<"auth">> \o rest
signInCalls ==
    [register |-> Posts("register", auth(<<"register">>),
                        Required({"email", "password", "confirmPassword", "fullName"}),
                        One(Each({"user", "requiresEmailVerification"}))),
     login |-> Posts("login", auth(<<"login">>), Body({"email", "password"}, {"rememberMe"}, {}),
                     One(Each({"accessToken", "user"}))),
     logout |-> Posts("logout", auth(<<"logout">>), Nothing, One(Each({"loggedOut"}))),
     logoutAll |-> Posts("logoutAll", auth(<<"logout-all">>), Nothing, One(Each({"loggedOutAll"}))),
     refresh |-> Posts("refresh", auth(<<"refresh">>), Nothing, One(Each({"accessToken", "user"}))),
     me |-> Gets("getMe", auth(<<"me">>), One(Each(AuthProfile))),
     listWorkspaces |-> Gets("listWorkspaces", <<"me", "workspaces">>, Many(Each(WorkspaceSummary))),
     selectWorkspace |-> Posts("selectWorkspace", auth(<<"select-workspace">>),
                               Required({"workspaceId"}), One(Each(WorkspaceSummary)))]
accountCalls ==
    [verifyEmail |-> Posts("verifyEmail", auth(<<"verify-email">>), Required({"token"}),
                           One(Each({"verified"}))),
     resendVerification |-> Posts("resendVerification", auth(<<"resend-verification">>),
                                  Required({"email"}), One(Each({"message"}))),
     forgotPassword |-> Posts("forgotPassword", auth(<<"forgot-password">>), Required({"email"}),
                              One(Each({"message"}))),
     resetPassword |-> Posts("resetPassword", auth(<<"reset-password">>),
                             Required({"token", "password", "confirmPassword"}), One(Each({"reset"}))),
     changePassword |-> Posts("changePassword", auth(<<"change-password">>),
                              Required({"currentPassword", "password", "confirmPassword"}),
                              One(Each({"changed"}))),
     listSessions |-> Gets("listSessions", auth(<<"sessions">>), Many(Each(AuthSession))),
     revokeSession |-> Deletes("revokeSession", auth(<<"sessions", ":sessionId">>),
                               One(Each({"revoked"}))),
     previewInvitation |-> Call("inspectInvitation", "get", <<"invitations", "preview">>,
                                Query({"token"}, {}),
                                One(Each({"email", "workspace", "roleKey", "expiresAt"}))),
     acceptInvitation |-> Posts("acceptInvitation", <<"invitations", "accept">>,
                                Body({"token"}, {"fullName", "password", "confirmPassword"}, {}),
                                One(Each({"workspaceId", "roleKey", "userId"})))]

-----------------------------------------------------------------------------
(* workspaces, onboarding *)

WorkspaceDetails ==
    {"id", "name", "slug", "type", "status", "usagePurpose", "industryCode", "companySize",
     "timezone", "locale", "logoUrl", "dependencyCompletionPolicy", "ownerId", "createdAt",
     "updatedAt"}
workspaceCalls ==
    [getWorkspace |-> Gets("getWorkspace", wsPath(<<>>), One(Each(WorkspaceDetails))),
     updateWorkspace |->
         Patches("updateWorkspace", wsPath(<<>>),
                 Body({}, {"name", "usagePurpose", "industryCode", "companySize", "timezone",
                           "locale", "logoUrl", "dependencyCompletionPolicy"},
                      {"usagePurpose", "industryCode", "companySize", "logoUrl"}),
                 One(Each(WorkspaceDetails))),
     transferOwnership |-> Posts("transferOwnership", wsPath(<<"transfer-ownership">>),
                                 Required({"memberId"}), One(Each({"transferred", "ownerId"})))]
memberCalls ==
    [listMembers |-> Gets("listMembers", wsPath(<<"members">>), Many(Each(WorkspaceMemberSummary))),
     updateMemberRole |-> Patches("updateMemberRole", wsPath(<<"members", ":memberId">>),
                                  Required({"roleKey"}), One(Each(WorkspaceMemberSummary))),
     removeMember |-> Deletes("removeMember", wsPath(<<"members", ":memberId">>),
                              One(Each({"removed"})))]

OnboardingRecord ==
    {"id", "workspaceId", "userId", "onboardingType", "status", "currentStep", "completedSteps",
     "completedAt"}
WorkspaceRecord ==
    {"id", "name", "slug", "type", "usagePurpose", "industryCode", "companySize", "timezone",
     "locale", "logoUrl"}
WorkspaceModule == {"id", "workspaceId", "moduleKey", "enabled", "core", "name", "description"}
UpdateOnboardingInput ==
    Optional({"currentStep", "completedSteps", "markStepCompleted", "workspace"})
    @@ [workspace |-> Fields({}, {"name", "usagePurpose", "industryCode", "companySize", "timezone",
                                  "locale"}, {"usagePurpose", "industryCode", "companySize"})]
onboardingCalls ==
    [createWorkspace |->
         Posts("createWorkspace", <<"workspaces">>,
               Body({"type"}, {"name", "usagePurpose", "industryCode", "companySize", "timezone",
                               "locale"}, {}),
               One(Each(WorkspaceRecord \cup {"onboarding"}))),
     getOnboarding |-> Gets("getOnboarding", wsPath(<<"onboarding">>), One(Each(OnboardingRecord))),
     updateOnboarding |-> Patches("updateOnboarding", wsPath(<<"onboarding">>),
                                  UpdateOnboardingInput, One(Each(OnboardingRecord))),
     completeOnboarding |-> Posts("completeOnboarding", wsPath(<<"onboarding", "complete">>), Nothing,
                                  One(Each(OnboardingRecord))),
     listModules |-> Gets("listModules", wsPath(<<"modules">>), Many(Each(WorkspaceModule))),
     updateModules |->
         Patches("updateModules", wsPath(<<"modules">>),
                 Required({"modules"}) @@ [modules |-> Fields({"moduleKey", "enabled"}, {}, {})],
                 Many(Each(WorkspaceModule))),
     applyModulePreset |-> Posts("applyModulePreset", wsPath(<<"modules", "presets">>),
                                 Required({"presetKey"}), Many(Each(WorkspaceModule))),
     createFirstProject |->
         Posts("createFirstProject", wsPath(<<"onboarding", "first-project">>),
               Body({"name"}, {"description", "tasks"}, {})
               @@ [tasks |-> Fields({"title"}, {"description", "priority", "dueDate"}, {})],
               One(Each({"project", "tasks"}))),
     inviteMember |-> Posts("inviteMember", wsPath(<<"invitations">>), Required({"email", "roleKey"}),
                            One(Each({"id", "email", "roleKey", "expiresAt", "status"})))]

-----------------------------------------------------------------------------
(* projects *)

ProjectRecord ==
    Each({"workspaceId", "code", "description", "status", "priority", "visibility", "managerId",
          "manager", "startAt", "endAt", "completionPolicy", "completedAt", "archivedAt",
          "deletedAt", "memberIds", "overdueTasks", "progressPercent", "health", "createdAt",
          "updatedAt"})
    \cup {{"id", "projectId"}, {"name", "projectName"}, {"createdById", "creatorId"},
          {"members", "memberSummaries"}, {"openTasks", "openTaskCount"}, {"totalTasks", "taskCount"}}
ProjectMemberRecord ==
    Each({"projectRole", "joinedAt", "id", "fullName", "email", "role", "status"}) \cup {{"userId", "id"}}
ProjectListFilters ==
    {"search", "status", "managerId", "memberId", "startFrom", "startTo", "endFrom", "endTo",
     "includeArchived", "archivedOnly", "includeDeleted", "deletedOnly", "sortBy", "sortOrder",
     "page", "pageSize"}
CreateProjectInput ==
    Body({"name"}, {"code", "description", "status", "priority", "visibility", "managerId",
                    "startAt", "endAt", "completionPolicy", "memberIds", "members"}, {})
    @@ [members |-> Fields({"userId", "projectRole"}, {}, {})]
UpdateProjectInput ==
    Body({}, {"name", "code", "description", "status", "priority", "visibility", "managerId",
              "startAt", "endAt", "completionPolicy", "completionOverrideReason", "memberIds"},
         {"code", "description", "managerId", "startAt", "endAt"})
projectCalls ==
    [listProjects |-> Finds("listProjects", wsPath(<<"projects">>), ProjectListFilters, Paged(ProjectRecord)),
     getProject |-> Gets("getProject", projectPath(<<>>), One(ProjectRecord)),
     createProject |-> Posts("createProject", wsPath(<<"projects">>), CreateProjectInput, One(ProjectRecord)),
     updateProject |-> Patches("updateProject", projectPath(<<>>), UpdateProjectInput, One(ProjectRecord)),
     archiveProject |-> Posts("archiveProject", projectPath(<<"archive">>), Nothing, One(ProjectRecord)),
     unarchiveProject |-> Posts("unarchiveProject", projectPath(<<"unarchive">>), Nothing, One(ProjectRecord)),
     deleteProject |-> Deletes("deleteProject", projectPath(<<>>), One(ProjectRecord)),
     restoreProject |-> Posts("restoreProject", projectPath(<<"restore">>), Nothing, One(ProjectRecord))]
projectMemberCalls ==
    [listProjectMembers |-> Gets("listProjectMembers", projectPath(<<"members">>), Many(ProjectMemberRecord)),
     replaceProjectMembers |-> Puts("replaceProjectMembers", projectPath(<<"members">>),
                                    Required({"memberIds"}), One(ProjectRecord)),
     addProjectMember |-> Posts("addProjectMember", projectPath(<<"members">>),
                                Body({"userId"}, {"projectRole"}, {}), One(ProjectRecord)),
     updateProjectMemberRole |->
         Patches("updateProjectMember", projectPath(<<"members", ":memberUserId">>),
                 Required({"projectRole"}), One(ProjectRecord)),
     removeProjectMember |-> Deletes("removeProjectMember", projectPath(<<"members", ":memberUserId">>),
                                     One(ProjectRecord)),
     updateProjectVisibility |-> Patches("updateProjectVisibility", projectPath(<<"visibility">>),
                                         Required({"visibility"}), One(ProjectRecord))]

-----------------------------------------------------------------------------
(* templates *)

TemplateRecord ==
    Each({"id", "seriesId", "workspaceId", "name", "description", "industryCode", "version",
          "visibility", "status", "contentSchemaVersion", "contentHash", "contentJson",
          "publishedAt", "supersededAt", "createdById", "createdAt", "updatedAt"})
CloneJobRecord ==
    Each({"id", "templateId", "projectId", "status", "progress", "attempts", "maxAttempts",
          "nextAttemptAt", "errorMessage", "resultJson", "createdAt", "completedAt"})
\* The content of a template, by the field each object is found under.
TemplateFrame ==
    [contentJson |-> Fields({"schemaVersion", "project", "memberPlaceholders", "workflow", "tags",
                             "customFields", "milestones", "tasks", "dependencies"}, {}, {}),
     project |-> Fields({"status", "priority", "visibility", "completionPolicy"},
                        {"description", "managerPlaceholderKey"},
                        {"description", "managerPlaceholderKey"}),
     memberPlaceholders |-> Fields({"key", "name", "projectRole", "required"}, {}, {}),
     workflow |-> Fields({"name", "stages", "transitions"}, {}, {}),
     stages |-> Fields({"key", "name", "category", "position", "isInitial", "isTerminal",
                        "isActive"}, {"color"}, {"color"}),
     transitions |-> Fields({"fromKey", "toKey", "conditionsJson"}, {"requiredPermission"},
                            {"requiredPermission"})]
TemplateObjects ==
    LET offsets == {"startOffsetDays", "dueOffsetDays"}
        links == {"description", "parentKey", "subtaskPosition", "milestoneKey",
                  "assigneePlaceholderKey", "durationDays"} \cup offsets
    IN  [tags |-> Fields({"key", "name", "color"}, {}, {}),
         customFields |-> Fields({"key", "name", "fieldType", "isRequired", "options", "position",
                                  "isActive"}, {"defaultValue"}, {"defaultValue"}),
         milestones |-> Fields({"key", "name", "status", "position"}, {"description"} \cup offsets,
                               {"description"} \cup offsets),
         tasks |-> Fields({"key", "title", "priority", "stageKey", "position", "checklist", "tagKeys",
                           "customValues"}, links, links),
         checklist |-> Fields({"title", "position", "isCompleted"}, {}, {}),
         dependencies |-> Fields({"predecessorKey", "successorKey", "dependencyType"}, {}, {})]
TemplateContentV2 == TemplateFrame @@ TemplateObjects
templateCalls ==
    [listTemplates |-> Finds("listTemplates", wsPath(<<"templates">>),
                             {"search", "status", "visibility", "page", "pageSize"}, Paged(TemplateRecord)),
     getTemplate |-> Gets("getTemplate", templatePath(<<>>), One(TemplateRecord)),
     createTemplate |->
         Posts("createTemplate", wsPath(<<"templates">>),
               Body({"name"}, {"description", "industryCode", "visibility", "contentJson"}, {})
               @@ TemplateContentV2, One(TemplateRecord)),
     updateTemplate |->
         Patches("updateTemplate", templatePath(<<>>),
                 Body({}, {"name", "description", "industryCode", "contentJson"},
                      {"description", "industryCode"}) @@ TemplateContentV2, One(TemplateRecord)),
     publishTemplate |-> Posts("publishTemplate", templatePath(<<"publish">>), Nothing, One(TemplateRecord)),
     archiveTemplate |-> Posts("archiveTemplate", templatePath(<<"archive">>), Nothing, One(TemplateRecord)),
     duplicateTemplate |-> Posts("duplicateTemplate", templatePath(<<"duplicate">>), Nothing,
                                 One(TemplateRecord))]
templateCopyCalls ==
    [validateTemplate |-> Posts("validateTemplate", templatePath(<<"validate">>), Nothing,
                                One(Each({"valid", "schemaVersion", "contentHash"}))),
     createTemplateVersion |-> Posts("createTemplateVersion", templatePath(<<"versions">>), Nothing,
                                     One(TemplateRecord)),
     listTemplateVersions |-> Gets("listTemplateVersions", templatePath(<<"versions">>),
                                   Many(TemplateRecord)),
     cloneTemplate |->
         Posts("cloneTemplate", templatePath(<<"clone">>),
               Body({"projectName", "idempotencyKey", "memberBindings"}, {"projectCode", "startAt"}, {}),
               One(Each({"mode", "cloneJobId", "projectId"}))),
     getCloneJob |-> Gets("getCloneJob", wsPath(<<"templates", "clone-jobs", ":cloneJobId">>),
                          One(CloneJobRecord)),
     retryCloneJob |-> Posts("retryCloneJob", wsPath(<<"templates", "clone-jobs", ":cloneJobId", "retry">>),
                             Nothing, One(CloneJobRecord))]

-----------------------------------------------------------------------------
(* workflows *)

WorkflowStageRecord ==
    Each({"id", "workflowId", "name", "category", "color", "position", "isInitial", "isTerminal",
          "isActive"})
WorkflowRecord ==
    Each({"id", "familyId", "workspaceId", "sourceProjectId", "name", "version", "status", "stages",
          "transitions"})
PublishPreview ==
    Each({"taskCount", "currentStages", "legacyStatusCounts", "requiresMapping"})
    \cup {{"requiredStageMappings", "currentStages"}}
PublishWorkflowInput ==
    Required({"draftWorkflowId", "stageMappings", "legacyStatusMappings"})
    @@ [stageMappings |-> Fields({"fromStageId", "toStageId"}, {}, {}),
        legacyStatusMappings |-> Fields({"fromStatus", "toStageId"}, {}, {})]
WorkflowTransitionInput ==
    Fields({"fromStageId", "toStageId", "requiredPermission", "conditionsJson"}, {}, {"requiredPermission"})
workflowDraftCalls ==
    [getProjectWorkflow |-> Gets("getProjectWorkflow", workflowPath(<<>>),
                                 One(Each({"published", "draft", "appliedVersion"}))),
     createWorkflowDraft |-> Posts("createWorkflowDraft", workflowPath(<<"draft">>), Nothing,
                                   One(WorkflowRecord)),
     getWorkflowDraft |-> Gets("getWorkflowDraft", draftPath(<<>>), One(WorkflowRecord)),
     getPublishPreview |-> Gets("getWorkflowPublishPreview", draftPath(<<"publish-preview">>),
                                One(PublishPreview)),
     publishWorkflow |-> Posts("publishProjectWorkflow", workflowPath(<<"publish">>), PublishWorkflowInput,
                               One(Each({"workflowId", "workflowVersion", "movedTasks"}))),
     validateWorkflowDraft |-> Posts("validateWorkflowDraft", draftPath(<<"validate">>), Nothing,
                                     One(Each({"valid"})))]
workflowStageCalls ==
    [addStage |-> Posts("addWorkflowStage", draftPath(<<"stages">>),
                        Body({"name", "category"}, {"color", "isInitial", "isTerminal"}, {}),
                        One(WorkflowStageRecord)),
     updateStage |->
         Patches("updateWorkflowStage", draftPath(<<"stages", ":stageId">>),
                 Body({}, {"name", "category", "isInitial", "isTerminal", "isActive", "color"}, {"color"}),
                 One(WorkflowStageRecord)),
     deleteStage |-> Deletes("deleteWorkflowStage", draftPath(<<"stages", ":stageId">>),
                             One(Each({"deleted"}))),
     reorderStages |-> Puts("reorderWorkflowStages", draftPath(<<"stages", "reorder">>),
                            Required({"stageIds"}), One(WorkflowRecord)),
     saveTransitions |->
         Puts("upsertWorkflowTransitions", draftPath(<<"transitions">>),
              Required({"transitions"}) @@ [transitions |-> WorkflowTransitionInput], One(WorkflowRecord))]

-----------------------------------------------------------------------------
(* tasks *)

TaskRecord ==
    Each({"workspaceId", "description", "status", "workflowStageId", "workflowStage", "priority",
          "isBlocked", "blockedReason", "dependencyBlocked", "dependencyOverrideReason",
          "dependencyOverriddenById", "dependencyOverriddenAt", "source", "rank", "version",
          "manualRiskLevel", "riskLevel", "riskScore", "riskReasons", "riskCalculatedAt",
          "archivedAt", "deletedAt", "createdAt", "updatedAt"})
    \cup {{"id", "taskId"}, {"title", "name"}, {"taskNumber", "number"}, {"startAt", "start_at"},
          {"dueDate", "due_date", "dueAt"}, {"completedAt", "completed_at"},
          {"completedById", "completedBy"}, {"completedByName", "completedBy"},
          {"projectId", "project"}, {"projectName", "project"}, {"projectVisibility", "project"},
          {"assigneeId", "assignee"}, {"assigneeName", "assignee"},
          {"assigneeRole", "assigneeRoleKey", "assignee"},
          {"createdById", "creatorId", "creator", "createdBy"},
          {"createdByName", "creatorName", "creator", "createdBy"}}
buildTaskListQueryParams ==
    {"search", "projectId", "status", "priority", "assigneeId", "createdById", "due", "deadlineFrom",
     "deadlineTo", "overdue", "unassigned", "includeArchived", "includeDeleted", "tagIds",
     "timezone", "page", "pageSize", "sortBy", "sortOrder"}
CreateTaskInput ==
    Body({"title"}, {"description", "priority", "status", "startAt", "dueDate", "projectId",
                     "assigneeId", "isBlocked", "blockedReason", "confirmedFromQuickCapture"},
         {"startAt", "dueDate", "projectId", "assigneeId", "blockedReason"})
UpdateTaskInput ==
    Body({"version"}, {"title", "description", "priority", "status", "startAt", "dueDate",
                       "projectId", "assigneeId", "isBlocked", "blockedReason",
                       "dependencyOverrideReason"},
         {"description", "startAt", "dueDate", "projectId", "assigneeId", "blockedReason"})
BulkUpdateInput ==
    Required({"items"})
    @@ [items |-> Fields({"taskId", "version", "changes"}, {}, {}),
        changes |-> Fields({}, {"status", "priority", "assigneeId", "projectId", "archived",
                                "dependencyOverrideReason"}, {"assigneeId", "projectId"})]
BulkDeleteInput == Required({"items"}) @@ [items |-> Fields({"taskId", "version"}, {}, {})]
BulkMutationResult == {{"results", "items", "data"}}
TaskActivityEvent ==
    Each({"id", "action", "createdAt"}) \cup {{"summary", "message", "action"}, {"actorName", "actor"}}
ParseTaskResult ==
    Each({"draft", "missingFields", "ambiguities", "projectCandidates", "assigneeCandidates"})
taskCalls ==
    [listTasks |-> Finds("listTasks", wsPath(<<"tasks">>), buildTaskListQueryParams, Paged(TaskRecord)),
     getTask |-> Gets("getTask", taskPath(<<>>), One(TaskRecord)),
     createTask |-> Posts("createTask", wsPath(<<"tasks">>), CreateTaskInput, One(TaskRecord)),
     updateTask |-> Patches("updateTask", taskPath(<<>>), UpdateTaskInput, One(TaskRecord)),
     updateTaskStatus |-> Patches("changeStatus", taskPath(<<"status">>),
                                  Body({"version", "status"}, {"dependencyOverrideReason"}, {}),
                                  One(TaskRecord)),
     updateTaskAssignee |-> Patches("changeAssignee", taskPath(<<"assignee">>),
                                    Body({"version", "assigneeId"}, {}, {"assigneeId"}), One(TaskRecord)),
     archiveTask |-> Posts("archiveTask", taskPath(<<"archive">>), Required({"version"}), One(TaskRecord)),
     unarchiveTask |-> Posts("unarchiveTask", taskPath(<<"unarchive">>), Required({"version"}),
                             One(TaskRecord)),
     restoreTask |-> Posts("restoreTask", taskPath(<<"restore">>), Required({"version"}), One(TaskRecord))]
taskGroupCalls ==
    [deleteTask |-> Call("deleteTask", "delete", taskPath(<<>>), Query({"version"}, {}),
                         One(Each({"deleted", "deletedAt", "version"}) \cup {{"id", "taskId"}})),
     getTaskActivity |-> Finds("getTaskActivity", taskPath(<<"activity">>), {"page", "pageSize"},
                               Paged(TaskActivityEvent)),
     bulkUpdateTasks |-> Posts("bulkUpdate", wsPath(<<"tasks", "bulk-update">>), BulkUpdateInput,
                               One(BulkMutationResult)),
     bulkDeleteTasks |-> Posts("bulkDelete", wsPath(<<"tasks", "bulk-delete">>), BulkDeleteInput,
                               One(BulkMutationResult)),
     parseTask |-> Posts("parseTask", wsPath(<<"tasks", "parse">>),
                         Required({"text", "locale", "timezone", "referenceDate"}),
                         One(ParseTaskResult))]
ExportTasksInput ==
    Body({"format"}, {"scope", "selectedIds", "columns", "timezone", "dateFormat", "filters"}, {})
    @@ [filters |-> Fields({}, {"projectId", "assigneeId", "createdById", "status", "priority", "due",
                                "deadlineFrom", "deadlineTo", "overdue", "unassigned",
                                "includeArchived", "includeDeleted", "search"}, {})]
taskViewCalls ==
    [listBoardColumn |->
         Call("listBoardColumn", "get", wsPath(<<"tasks", "board">>),
              OneOf(Query({"sortBy", "sortOrder"}, buildTaskListQueryParams \cup {"workflowStageId"}),
                    {"status", "workflowStageId"}), Paged(TaskRecord)),
     listCalendar |->
         Call("listCalendar", "get", wsPath(<<"tasks", "calendar">>),
              Query({"from", "to"}, buildTaskListQueryParams), Paged(TaskRecord)),
     listTimeline |->
         Call("listTimeline", "get", wsPath(<<"tasks", "timeline">>),
              Query({"from", "to", "groupBy"}, buildTaskListQueryParams),
              Paged(Each({"id"}) \cup {{"label", "name"}, {"items", "tasks"}})),
     moveTask |->
         Patches("moveTask", taskPath(<<"move">>),
                 OneOf(Body({"version"}, {"targetStatus", "targetStageId", "beforeTaskId", "afterTaskId"},
                            {"beforeTaskId", "afterTaskId"}), {"targetStatus", "targetStageId"}),
                 One(TaskRecord)),
     exportTasks |-> Posts("exportTasks", wsPath(<<"tasks", "export">>), ExportTasksInput, File)]
SavedViewRecord ==
    Each({"id", "workspaceId", "ownerUserId", "name", "resourceType", "viewType", "visibility",
          "filtersJson", "sortJson", "groupByJson", "columnsJson", "displayOptionsJson",
          "configVersion", "isDefault", "createdAt", "updatedAt"})
SavedViewConfig ==
    [filtersJson |->
         Fields({}, {"search", "projectId", "statuses", "priorities", "assigneeId", "createdById",
                     "due", "deadlineFrom", "deadlineTo", "overdue", "unassigned",
                     "includeArchived", "includeDeleted"},
                {"projectId", "assigneeId", "createdById", "due", "deadlineFrom", "deadlineTo"}),
     sortJson |-> Fields({}, {"sortBy", "sortOrder"}, {}),
     groupByJson |-> Fields({}, {"groupBy"}, {}),
     displayOptionsJson |-> Fields({}, {"view", "calMode", "tlZoom", "dense"}, {})]
CreateSavedViewInput ==
    Body({"name"}, {"viewType", "columnsJson", "isDefault"} \cup DOMAIN SavedViewConfig, {})
    @@ SavedViewConfig
UpdateSavedViewInput ==
    Optional({"name", "viewType", "columnsJson", "isDefault"} \cup DOMAIN SavedViewConfig)
    @@ SavedViewConfig
view(rest) == wsPath(<<"saved-views">> \o rest)
savedViewCalls ==
    [listSavedViews |-> Gets("listSavedViews", view(<<>>), Many(SavedViewRecord)),
     getSavedView |-> Gets("getSavedView", view(<<":viewId">>), One(SavedViewRecord)),
     createSavedView |-> Posts("createSavedView", view(<<>>), CreateSavedViewInput, One(SavedViewRecord)),
     updateSavedView |-> Patches("updateSavedView", view(<<":viewId">>), UpdateSavedViewInput,
                                 One(SavedViewRecord)),
     deleteSavedView |-> Deletes("deleteSavedView", view(<<":viewId">>), One(Each({"id", "deleted"})))]

\* The tasks module reads projects through mappers of its own.
TaskProjectRecord ==
    Each({"description", "status", "visibility", "createdAt", "updatedAt"})
    \cup {{"id", "projectId"}, {"name", "projectName"}, {"createdById", "creatorId"},
          {"memberIds", "members", "memberSummaries"}, {"members", "memberSummaries"},
          {"openTasks", "openTaskCount", "_count", "counts"},
          {"totalTasks", "taskCount", "_count", "counts"}}
ProjectMemberSummary ==
    {{"userId", "user"}, {"fullName", "name", "user"}, {"email", "user"},
     {"status", "memberStatus", "user"}, {"id", "membershipId", "userId"}, {"roleKey", "role"}}
CandidateOption == Each({"email"}) \cup {{"id", "userId", "memberId"}, {"name", "fullName"}, {"role", "roleKey"}}
taskProjectCalls ==
    ("tasks.createProject" :>
         Posts("createProject", wsPath(<<"projects">>),
               Body({"name"}, {"description", "visibility", "memberIds"}, {}), One(TaskProjectRecord)))
    @@ ("tasks.listProjectMembers" :>
            Gets("listProjectMembers", projectPath(<<"members">>), Many(ProjectMemberSummary)))
    @@ ("tasks.updateProject visibility" :>
            Patches("updateProjectVisibility", projectPath(<<"visibility">>), Required({"visibility"}),
                    One(TaskProjectRecord)))
    @@ ("tasks.updateProject members" :>
            Puts("replaceProjectMembers", projectPath(<<"members">>), Required({"memberIds"}),
                 One(TaskProjectRecord)))
    @@ [listEligibleAssignees |->
            Finds("listEligibleAssignees", projectPath(<<"eligible-assignees">>), {"search"},
                  Many(CandidateOption))]

-----------------------------------------------------------------------------
(* what hangs on a task: collaboration, workflow *)

ChecklistItem ==
    Each({"id", "taskId", "title", "isCompleted", "position", "completedById", "completedAt",
          "createdById", "createdAt", "updatedAt"})
TagRecord == Each({"id", "workspaceId", "name", "color", "createdById", "createdAt", "updatedAt"})
CustomFieldDefinition ==
    Each({"id", "workspaceId", "projectId", "name", "fieldType", "isRequired", "options",
          "defaultValue", "position", "isActive", "createdAt", "updatedAt"})
CustomFieldOption == Fields({"value", "label"}, {}, {})
CommentRecord ==
    Each({"id", "taskId", "authorId", "authorName", "authorEmail", "parentCommentId", "content",
          "mentionUserIds", "createdAt", "updatedAt", "deletedAt", "deleted"})
AttachmentRecord ==
    Each({"id", "workspaceId", "taskId", "uploadedById", "originalFileName", "mimeType", "sizeBytes",
          "checksum", "scanStatus", "createdAt", "deletedAt"})
item(rest) == taskPath(<<"checklist-items">> \o rest)
checklistCalls ==
    [listChecklist |-> Gets("listChecklist", item(<<>>), One(Each({"items", "progress"}))),
     createChecklistItem |-> Posts("createChecklistItem", item(<<>>), Required({"title"}),
                                   One(ChecklistItem)),
     updateChecklistItem |-> Patches("updateChecklistItem", item(<<":itemId">>),
                                     Optional({"title", "isCompleted"}), One(ChecklistItem)),
     deleteChecklistItem |-> Deletes("deleteChecklistItem", item(<<":itemId">>), One(Each({"id"}))),
     reorderChecklist |-> Posts("reorderChecklist", item(<<"reorder">>), Required({"orderedIds"}),
                                One(Each({"items", "progress"})))]
tagCalls ==
    [listTags |-> Finds("listTags", wsPath(<<"tags">>), {"q"}, Many(TagRecord)),
     createTag |-> Posts("createTag", wsPath(<<"tags">>), Body({"name"}, {"color"}, {}), One(TagRecord)),
     deleteTag |-> Deletes("deleteTag", wsPath(<<"tags", ":tagId">>), One(Each({"id"}))),
     listTaskTags |-> Gets("listTaskTags", taskPath(<<"tags">>), Many(TagRecord)),
     setTaskTags |-> Puts("setTaskTags", taskPath(<<"tags">>), Required({"tagIds"}), Many(TagRecord))]
customFieldCalls ==
    [listCustomFieldValues |-> Gets("listTaskCustomFieldValues", taskPath(<<"custom-field-values">>),
                                    Many(Each({"field", "value"}))),
     setCustomFieldValues |->
         Puts("setTaskCustomFieldValues", taskPath(<<"custom-field-values">>),
              Required({"values"}) @@ [values |-> Fields({"customFieldId", "value"}, {}, {"value"})],
              Many(Each({"field", "value"}))),
     listCustomFields |-> Finds("listCustomFields", wsPath(<<"custom-fields">>), {"projectId"},
                                Many(CustomFieldDefinition)),
     createCustomField |->
         Posts("createCustomField", wsPath(<<"custom-fields">>),
               Body({"name", "fieldType"}, {"projectId", "isRequired", "options"}, {"projectId"})
               @@ [options |-> CustomFieldOption], One(CustomFieldDefinition)),
     updateCustomField |->
         Patches("updateCustomField", wsPath(<<"custom-fields", ":fieldId">>),
                 Optional({"name", "isRequired", "options", "position", "isActive"})
                 @@ [options |-> CustomFieldOption], One(CustomFieldDefinition)),
     deleteCustomField |-> Deletes("deleteCustomField", wsPath(<<"custom-fields", ":fieldId">>),
                                   One(CustomFieldDefinition))]
commentCalls ==
    [listComments |-> Gets("listComments", taskPath(<<"comments">>), Many(CommentRecord)),
     createComment |-> Posts("createComment", taskPath(<<"comments">>),
                             Body({"content"}, {"parentCommentId"}, {"parentCommentId"}),
                             One(CommentRecord)),
     updateComment |-> Patches("updateComment", taskPath(<<"comments", ":commentId">>),
                               Required({"content"}), One(CommentRecord)),
     deleteComment |-> Deletes("deleteComment", taskPath(<<"comments", ":commentId">>),
                               One(CommentRecord))]
attachmentCalls ==
    [listAttachments |-> Gets("listAttachments", taskPath(<<"attachments">>), Many(AttachmentRecord)),
     uploadAttachment |-> Posts("uploadAttachment", taskPath(<<"attachments">>), Required({"file"}),
                                One(AttachmentRecord)),
     getAttachmentDownload |-> Gets("downloadAttachment",
                                    taskPath(<<"attachments", ":attachmentId", "download">>),
                                    One(Each({"attachment", "downloadUrl", "expiresIn"}))),
     deleteAttachment |-> Deletes("deleteAttachment", taskPath(<<"attachments", ":attachmentId">>),
                                  One(Each({"id"})))]

DependencySummary == Each({"policy", "waitingOn", "blocking", "hasIncompletePredecessors"})
TimeLogRecord ==
    Each({"id", "workspaceId", "taskId", "userId", "startedAt", "endedAt", "durationSeconds",
          "description", "source", "userName", "userEmail", "taskNumber", "taskTitle"})
dependencyCalls ==
    [listDependencies |-> Gets("listDependencies", taskPath(<<"dependencies">>), One(DependencySummary)),
     createDependency |-> Posts("createDependency", taskPath(<<"dependencies">>),
                                Required({"relatedTaskId", "direction"}), One(DependencySummary)),
     deleteDependency |-> Deletes("deleteDependency", taskPath(<<"dependencies", ":dependencyId">>),
                                  One(DependencySummary)),
     listStatusHistory |->
         Gets("listTaskHistory", taskPath(<<"status-history">>),
              One(Each({"items", "durationByStatus", "leadTimeSeconds", "cycleTimeSeconds"})))]
logs(rest) == taskPath(<<"time-logs">> \o rest)
timeLogCalls ==
    [listTimeLogs |-> Call("listTimeLogs", "get", logs(<<>>), Query({"scope"}, {}),
                           One(Each({"items", "scope", "ownSeconds", "totalSeconds"}))),
     getRunningTimer |-> Gets("getRunningTimer", wsPath(<<"timers", "running">>), One(TimeLogRecord)),
     startTimer |-> Posts("startTimer", logs(<<"timer", "start">>),
                          Body({"description"}, {}, {"description"}), One(TimeLogRecord)),
     stopTimer |-> Posts("stopTimer", logs(<<"timer", "stop">>), Nothing, One(TimeLogRecord)),
     createManualTimeLog |-> Posts("createManualTimeLog", logs(<<>>),
                                   Body({"startedAt", "endedAt"}, {"description"}, {"description"}),
                                   One(TimeLogRecord)),
     updateTimeLog |-> Patches("updateTimeLog", logs(<<":timeLogId">>),
                               Body({}, {"startedAt", "endedAt", "description"}, {"description"}),
                               One(TimeLogRecord)),
     deleteTimeLog |-> Deletes("deleteTimeLog", logs(<<":timeLogId">>), One(Each({"id"})))]

-----------------------------------------------------------------------------
(* automation *)

TaskRecurrenceRecord ==
    Each({"id", "workspaceId", "templateTaskId", "frequency", "interval", "daysOfWeek", "dayOfMonth",
          "timezone", "startAt", "endAt", "nextRunAt", "lastRunAt", "overlapPolicy", "isActive",
          "createdAt", "updatedAt"})
RecurrenceUpsertInput ==
    Body({"frequency", "interval", "timezone", "startAt", "overlapPolicy"},
         {"daysOfWeek", "dayOfMonth", "endAt", "isActive"}, {"dayOfMonth", "endAt"})
TaskRiskRecord ==
    Each({"taskId", "manualRiskLevel", "riskLevel", "riskScore", "riskReasons", "calculatedAt"})
RiskRuleRecord == Each({"id", "workspaceId", "name", "weights", "thresholds", "isActive"})
BusinessCalendarRecord ==
    Each({"id", "workspaceId", "name", "timezone", "isDefault", "isActive", "workingHours", "holidays"})
SlaPolicyRecord ==
    Each({"id", "workspaceId", "name", "triggerType", "targetDurationMinutes", "warningBeforeMinutes",
          "applicableConditions", "businessCalendarId", "isActive"})
TaskSlaInstanceRecord ==
    Each({"id", "taskId", "policyId", "policyName", "startedAt", "dueAt", "warningAt", "status",
          "pausedAt", "totalPausedSeconds", "warningSentAt", "breachedAt", "remainingSeconds"})
AutomationRunRecord ==
    Each({"id", "workspaceId", "taskId", "jobType", "status", "attempts", "maxAttempts",
          "errorMessage", "nextRetryAt", "startedAt", "completedAt", "createdAt"})
recurrencePath(rest) == taskPath(<<"recurrence">> \o rest)
recurrenceCalls ==
    [getRecurrence |-> Gets("getRecurrence", recurrencePath(<<>>), One(TaskRecurrenceRecord)),
     upsertRecurrence |-> Puts("upsertRecurrence", recurrencePath(<<>>), RecurrenceUpsertInput,
                               One(TaskRecurrenceRecord)),
     deleteRecurrence |-> Deletes("deleteRecurrence", recurrencePath(<<>>), One(Each({"ok"}))),
     pauseRecurrence |-> Posts("pauseRecurrence", recurrencePath(<<"pause">>), Nothing,
                               One(TaskRecurrenceRecord)),
     resumeRecurrence |-> Posts("resumeRecurrence", recurrencePath(<<"resume">>), Nothing,
                                One(TaskRecurrenceRecord)),
     previewRecurrence |-> Posts("previewRecurrence", recurrencePath(<<"preview">>),
                                 RecurrenceUpsertInput, One(Each({"nextRuns"})))]
WorkingDays ==
    [workingHours |-> Fields({"dayOfWeek", "startMinute", "endMinute"}, {}, {}),
     holidays |-> Fields({"date", "name"}, {"isWorking"}, {})]
riskAndCalendarCalls ==
    [getTaskRisk |-> Gets("getTaskRisk", taskPath(<<"risk">>), One(TaskRiskRecord)),
     updateManualRisk |-> Patches("setManualRisk", taskPath(<<"risk">>),
                                  Body({"manualRiskLevel"}, {}, {"manualRiskLevel"}), One(TaskRiskRecord)),
     getRiskRule |-> Gets("getRiskRule", wsPath(<<"risk-rules">>), One(RiskRuleRecord)),
     upsertRiskRule |-> Puts("upsertRiskRule", wsPath(<<"risk-rules">>),
                             Body({"weights", "thresholds"}, {"name", "isActive"}, {}),
                             One(RiskRuleRecord)),
     listBusinessCalendars |-> Gets("listBusinessCalendars", wsPath(<<"business-calendars">>),
                                    Many(BusinessCalendarRecord)),
     createBusinessCalendar |->
         Posts("createBusinessCalendar", wsPath(<<"business-calendars">>),
               Body({"name", "timezone", "workingHours"}, {"isDefault", "holidays"}, {}) @@ WorkingDays,
               One(BusinessCalendarRecord)),
     updateBusinessCalendar |->
         Patches("updateBusinessCalendar", wsPath(<<"business-calendars", ":calendarId">>),
                 Optional({"name", "timezone", "isDefault", "isActive", "workingHours", "holidays"})
                 @@ WorkingDays, One(BusinessCalendarRecord))]
slaCalls ==
    [listSlaPolicies |-> Gets("listSlaPolicies", wsPath(<<"sla-policies">>), Many(SlaPolicyRecord)),
     createSlaPolicy |->
         Posts("createSlaPolicy", wsPath(<<"sla-policies">>),
               Body({"name", "targetDurationMinutes", "warningBeforeMinutes"},
                    {"businessCalendarId", "applicableConditions", "isActive"}, {"businessCalendarId"}),
               One(SlaPolicyRecord)),
     updateSlaPolicy |->
         Patches("updateSlaPolicy", wsPath(<<"sla-policies", ":policyId">>),
                 Body({}, {"name", "targetDurationMinutes", "warningBeforeMinutes",
                           "businessCalendarId", "applicableConditions", "isActive"},
                      {"businessCalendarId"}), One(SlaPolicyRecord)),
     listTaskSla |-> Gets("listTaskSla", taskPath(<<"sla">>), Many(TaskSlaInstanceRecord)),
     pauseSlaInstance |-> Posts("pauseSlaInstance", wsPath(<<"sla-instances", ":instanceId", "pause">>),
                                Nothing, One(TaskSlaInstanceRecord)),
     resumeSlaInstance |-> Posts("resumeSlaInstance", wsPath(<<"sla-instances", ":instanceId", "resume">>),
                                 Nothing, One(TaskSlaInstanceRecord))]
automationRunCalls ==
    [listAutomationRuns |-> Finds("listAutomationRuns", wsPath(<<"automation-runs">>),
                                  {"taskId", "page", "pageSize"}, One(Each({"items", "total"}))),
     retryAutomationRun |-> Posts("retryAutomationRun", wsPath(<<"automation-runs", ":runId", "retry">>),
                                  Nothing, One(AutomationRunRecord))]

-----------------------------------------------------------------------------
(* dashboard, notifications *)

dashboardQueryParams == {"from", "to", "timezone", "projectId", "memberId", "status"}
ActivityEventRecord ==
    Each({"id", "action", "resourceType", "resourceId", "projectId", "projectName", "createdAt"})
    \cup {{"summary", "message", "action"}, {"actorName", "actor"}}
widget(name) == wsPath(<<"dashboard", name>>)
dashboardCalls ==
    [getSummary |-> Finds("getDashboardSummary", widget("summary"), dashboardQueryParams,
                          One(Each({"scope", "stats", "generatedAt"}))),
     getMyWork |-> Call("getDashboardMyWork", "get", widget("my-work"),
                        Query({"tab", "limit"}, dashboardQueryParams),
                        One({{"items", "tasks", "data"}, {"total", "totalCount"}})),
     getCharts |-> Finds("getDashboardCharts", widget("charts"), dashboardQueryParams,
                         One(Each({"available", "tasksByStatus", "tasksByCategory", "completionTrend",
                                   "overdueByProject", "teamWorkload"}))),
     getActivity |-> Call("getDashboardActivity", "get", widget("activity"),
                          Query({"limit", "page"}, {"projectId"}), Paged(ActivityEventRecord))]

WorkspaceNotification ==
    Each({"title", "taskId", "type", "workspaceId", "readAt", "createdAt"})
    \cup {{"id", "notificationId"}, {"body", "message"}}
NotificationPreference ==
    {"taskAssigned", "taskMentioned", "taskUnblocked", "recurrenceCreated", "recurrenceSkipped",
     "slaWarning", "slaBreached", "riskEscalated", "projectStatusChanged"}
bell(rest) == wsPath(<<"notifications">> \o rest)
notificationCalls ==
    [listNotifications |-> Finds("listNotifications", bell(<<>>), {"unread", "page", "pageSize"},
                                 Paged(WorkspaceNotification)),
     markNotificationRead |-> Patches("markNotificationRead", bell(<<":notificationId", "read">>),
                                      Nothing, One(WorkspaceNotification)),
     markAllNotificationsRead |-> Patches("markAllNotificationsRead", bell(<<"read-all">>), Nothing,
                                          One({{"marked", "count"}})),
     getNotificationPreference |-> Gets("getNotificationPreference", bell(<<"preferences">>),
                                        One(Each(NotificationPreference))),
     updateNotificationPreference |->
         Patches("updateNotificationPreference", bell(<<"preferences">>),
                 Body({"taskAssigned"}, NotificationPreference \ {"taskAssigned"}, {}),
                 One(Each(NotificationPreference)))]

Calls ==
    healthCalls @@ signInCalls @@ accountCalls @@ workspaceCalls @@ memberCalls @@ onboardingCalls
    @@ projectCalls @@ projectMemberCalls @@ templateCalls @@ templateCopyCalls
    @@ workflowDraftCalls @@ workflowStageCalls @@ taskCalls @@ taskGroupCalls @@ taskViewCalls
    @@ savedViewCalls @@ taskProjectCalls @@ checklistCalls @@ tagCalls @@ customFieldCalls
    @@ commentCalls @@ attachmentCalls @@ dependencyCalls @@ timeLogCalls @@ recurrenceCalls
    @@ riskAndCalendarCalls @@ slaCalls @@ automationRunCalls @@ dashboardCalls
    @@ notificationCalls
=============================================================================
