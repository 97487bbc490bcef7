--------------------------- MODULE ServerSchemas ---------------------------
(* What the server accepts of a request: for its body, its query, and the       *)
(* objects nested in them, which fields it requires, which it takes besides,    *)
(* and which of both may be null.  A field it does not name is dropped or        *)
(* refused.  Formats, ranges and defaults of values are left out, and so is that *)
(* a change must change something.                                                *)
EXTENDS Messages, TLC

paginationQuerySchema == {"page", "pageSize", "sortBy", "sortOrder", "search"}

-----------------------------------------------------------------------------
(* Authentication *)

registerSchema == Required({"email", "password", "confirmPassword", "fullName"})
\* Mutant: a field the client sends was never added to the schema.
loginSchemaPlain == Required({"email", "password"})
loginSchema == Body({"email", "password"}, {"rememberMe"}, {})
verifyEmailSchema == Required({"token"})
resendVerificationSchema == Required({"email"})
forgotPasswordSchema == Required({"email"})
resetPasswordSchema == Required({"token", "password", "confirmPassword"})
changePasswordSchema == Required({"currentPassword", "password", "confirmPassword"})
selectWorkspaceSchema == Required({"workspaceId"})

-----------------------------------------------------------------------------
(* Workspaces, members, invitations, onboarding *)

acceptInvitationSchema == Body({"token"}, {"fullName", "password", "confirmPassword"}, {})
workspaceFields ==
    {"name", "usagePurpose", "industryCode", "companySize", "timezone", "locale", "logoUrl"}
workspaceNulls == {"usagePurpose", "industryCode", "companySize", "logoUrl"}
createWorkspaceSchema == Body({"type"}, workspaceFields, {})
updateWorkspaceSchema ==
    Body({}, workspaceFields \cup {"type", "dependencyCompletionPolicy"}, workspaceNulls)
listMembersQuerySchema == Query({}, paginationQuerySchema)
inviteMemberSchema == Required({"email", "roleKey"})
updateMemberRoleSchema == Required({"roleKey"})
transferOwnershipSchema == Required({"memberId"})
updateOnboardingSchema ==
    Optional({"currentStep", "completedSteps", "markStepCompleted", "workspace"})
    @@ [workspace |-> Fields({}, workspaceFields, workspaceNulls)]
applyModulePresetSchema == Required({"presetKey"})
updateModulesSchema ==
    Required({"modules"}) @@ [modules |-> Fields({"moduleKey", "enabled"}, {}, {})]
createFirstProjectSchema ==
    Body({"name"}, {"description", "tasks"}, {})
    @@ [tasks |-> Fields({"title"}, {"description", "priority", "dueDate"}, {})]

-----------------------------------------------------------------------------
(* Projects and milestones *)

listProjectsQuerySchema ==
    Query({}, paginationQuerySchema
              \cup {"status", "managerId", "memberId", "startFrom", "startTo", "endFrom", "endTo",
                    "includeArchived", "includeDeleted", "deletedOnly", "archivedOnly"})
createProjectSchema ==
    Body({"name"}, {"code", "description", "status", "priority", "visibility", "managerId",
                    "startAt", "endAt", "completionPolicy", "memberIds", "members"}, {})
    @@ [members |-> Fields({"userId"}, {"projectRole"}, {})]
updateProjectSchema ==
    Body({}, {"name", "code", "description", "status", "priority", "visibility", "managerId",
              "startAt", "endAt", "completionPolicy", "completionOverrideReason"},
         {"code", "description", "managerId", "startAt", "endAt"})
addProjectMemberSchema == Body({"userId"}, {"projectRole"}, {})
replaceProjectMembersSchema ==
    OneOf(Optional({"members", "memberIds"}), {"members", "memberIds"})
    @@ [members |-> Fields({"userId", "projectRole"}, {}, {})]
updateProjectMemberSchema == Required({"projectRole"})
updateProjectVisibilitySchema == Required({"visibility"})
publishProjectWorkflowSchema ==
    Body({"draftWorkflowId"}, {"stageMappings", "legacyStatusMappings"}, {})
    @@ [stageMappings |-> Fields({"fromStageId", "toStageId"}, {}, {}),
        legacyStatusMappings |-> Fields({"fromStatus", "toStageId"}, {}, {})]
eligibleAssigneesQuerySchema == Query({}, {"search"})
createMilestoneSchema ==
    Body({"name"}, {"description", "status", "position", "startAt", "dueAt"}, {"startAt", "dueAt"})
reorderMilestonesSchema == Required({"milestoneIds"})
updateMilestoneSchema ==
    Body({}, {"name", "description", "status", "position", "startAt", "dueAt"},
         {"description", "startAt", "dueAt"})

-----------------------------------------------------------------------------
(* Workflows *)

createWorkflowStageSchema == Body({"name", "category"}, {"color", "isInitial", "isTerminal"}, {})
updateWorkflowStageSchema ==
    Body({}, {"name", "category", "color", "isInitial", "isTerminal", "isActive"}, {"color"})
deleteWorkflowStageQuerySchema == Query({}, {"moveToStageId"})
reorderWorkflowStagesSchema == Required({"stageIds"})
upsertWorkflowTransitionsSchema ==
    Required({"transitions"})
    @@ [transitions |-> Fields({"fromStageId", "toStageId"}, {"requiredPermission", "conditionsJson"},
                               {"requiredPermission"})]

-----------------------------------------------------------------------------
(* Templates *)

listTemplatesQuerySchema == Query({}, paginationQuerySchema \cup {"status", "visibility"})
\* The objects of a template's content, by the field they are found under; the same
\* fields describe a task or a milestone to come, with offsets in the place of dates.
templateFrame ==
    [contentJson |-> Fields({"schemaVersion", "project", "workflow"},
                            {"memberPlaceholders", "tags", "customFields", "milestones",
                             "tasks", "dependencies"}, {}),
     project |-> Fields({}, {"description", "status", "priority", "visibility", "completionPolicy",
                             "managerPlaceholderKey"}, {"description", "managerPlaceholderKey"}),
     memberPlaceholders |-> Fields({"key", "name"}, {"projectRole", "required"}, {}),
     tags |-> Fields({"key", "name", "color"}, {}, {}),
     customFields |-> Fields({"key", "name", "fieldType", "position"},
                             {"isRequired", "options", "defaultValue", "isActive"}, {"defaultValue"})]
templateWorkflow ==
    [workflow |-> Fields({"name", "stages", "transitions"}, {}, {}),
     stages |-> Fields({"key", "name", "category", "position"},
                       {"color", "isInitial", "isTerminal", "isActive"}, {"color"}),
     transitions |-> Fields({"fromKey", "toKey"}, {"requiredPermission", "conditionsJson"},
                            {"requiredPermission"})]
offsets == {"startOffsetDays", "dueOffsetDays"}
templateTasks ==
    LET linked == {"description", "parentKey", "subtaskPosition", "milestoneKey",
                   "assigneePlaceholderKey", "durationDays"} \cup offsets
    IN  [milestones |-> Fields({"key", "name", "position"}, {"description", "status"} \cup offsets,
                               {"description"} \cup offsets),
         tasks |-> Fields({"key", "title", "stageKey", "position"},
                          {"priority", "checklist", "tagKeys", "customValues"} \cup linked, linked),
         checklist |-> Fields({"title", "position"}, {"isCompleted"}, {}),
         dependencies |-> Fields({"predecessorKey", "successorKey"}, {"dependencyType"}, {})]
templateContentV2Schema == templateFrame @@ templateWorkflow @@ templateTasks
createTemplateSchema ==
    Body({"name"}, {"description", "industryCode", "visibility", "contentJson"}, {})
    @@ templateContentV2Schema
updateTemplateSchema ==
    Body({}, {"name", "description", "industryCode", "contentJson"}, {"description", "industryCode"})
    @@ templateContentV2Schema
cloneTemplateSchema ==
    Body({"projectName", "idempotencyKey"}, {"projectCode", "startAt", "memberBindings"}, {})

-----------------------------------------------------------------------------
(* Tasks *)

sharedTaskFilterFields ==
    {"projectId", "assigneeId", "createdById", "creatorId", "status", "workflowStageId", "priority",
     "due", "deadlineFrom", "deadlineTo", "overdue", "unassigned", "includeArchived",
     "includeDeleted", "archived", "deleted", "timezone", "tagIds"}
taskLinks == {"startAt", "dueDate", "projectId", "parentTaskId", "subtaskPosition", "milestoneId",
              "assigneeId", "blockedReason"}
listTasksQuerySchema == Query({}, paginationQuerySchema \cup sharedTaskFilterFields)
boardTasksQuerySchema ==
    OneOf(Query({}, paginationQuerySchema \cup sharedTaskFilterFields), {"status", "workflowStageId"})
calendarTasksQuerySchema ==
    Query({"from", "to"}, sharedTaskFilterFields \cup {"search", "page", "pageSize"})
timelineTasksQuerySchema ==
    Query({"from", "to"}, sharedTaskFilterFields \cup {"search", "groupBy", "page", "pageSize"})
exportTasksSchema ==
    Body({"format"}, {"scope", "selectedIds", "columns", "timezone", "dateFormat", "filters"}, {})
    @@ [filters |-> Fields({}, {"projectId", "assigneeId", "createdById", "status", "priority", "due",
                                "deadlineFrom", "deadlineTo", "overdue", "unassigned",
                                "includeArchived", "includeDeleted", "search"}, {})]
parseTaskSchema == Body({"text"}, {"locale", "timezone", "referenceDate"}, {})
createTaskSchema ==
    Body({"title"}, {"description", "priority", "status", "isBlocked", "dependencyOverrideReason",
                     "confirmedFromQuickCapture"} \cup taskLinks, taskLinks)
bulkUpdateSchema ==
    Required({"items"})
    @@ [items |-> Fields({"taskId", "version", "changes"}, {}, {}),
        changes |-> Fields({}, {"status", "priority", "assigneeId", "projectId", "archived",
                                "dependencyOverrideReason"}, {"assigneeId", "projectId"})]
bulkDeleteSchema == Required({"items"}) @@ [items |-> Fields({"taskId", "version"}, {}, {})]
updateTaskSchema ==
    Body({"version"}, {"title", "description", "priority", "status", "isBlocked",
                       "dependencyOverrideReason"} \cup taskLinks, {"description"} \cup taskLinks)
statusMutationSchema == Body({"version", "status"}, {"dependencyOverrideReason"}, {})
moveTaskSchema ==
    OneOf(Body({"version"}, {"targetStatus", "targetStageId", "beforeTaskId", "afterTaskId",
                             "dependencyOverrideReason"}, {"beforeTaskId", "afterTaskId"}),
          {"targetStatus", "targetStageId"})
assigneeMutationSchema == Body({"version", "assigneeId"}, {}, {"assigneeId"})
versionMutationSchema == Required({"version"})
taskActivityQuerySchema == Query({}, {"page", "pageSize"})
deleteTaskQuerySchema == Query({"version"}, {})

-----------------------------------------------------------------------------
(* Dependencies and time logs *)

createDependencySchema == Body({"relatedTaskId", "direction"}, {"dependencyType"}, {})
listTimeLogsQuerySchema == Query({}, {"scope"})
createManualTimeLogSchema == Body({"startedAt", "endedAt"}, {"description"}, {"description"})
startTimerSchema == Body({}, {"description"}, {"description"})
stopTimerSchema == Body({}, {"description"}, {"description"})
updateTimeLogSchema == Body({}, {"startedAt", "endedAt", "description"}, {"description"})

-----------------------------------------------------------------------------
(* Checklist, comments, tags, custom fields, saved views *)

createChecklistItemSchema == Required({"title"})
reorderChecklistSchema == Required({"orderedIds"})
updateChecklistItemSchema == Optional({"title", "isCompleted"})
listCommentsQuerySchema == Query({}, {"includeDeleted"})
createCommentSchema == Body({"content"}, {"parentCommentId"}, {"parentCommentId"})
updateCommentSchema == Required({"content"})
listCustomFieldsQuerySchema == Query({}, {"projectId", "includeInactive"})
optionSchema == Fields({"value", "label"}, {}, {})
createCustomFieldSchema ==
    Body({"name", "fieldType"}, {"projectId", "isRequired", "options", "defaultValue", "position"},
         {"projectId", "defaultValue"}) @@ [options |-> optionSchema]
updateCustomFieldSchema ==
    Body({}, {"name", "isRequired", "options", "defaultValue", "position", "isActive"}, {"defaultValue"})
    @@ [options |-> optionSchema]
setTaskCustomFieldValuesSchema ==
    Required({"values"}) @@ [values |-> Fields({"customFieldId", "value"}, {}, {"value"})]
listTagsQuerySchema == Query({}, {"q"})
createTagSchema == Body({"name"}, {"color"}, {})
updateTagSchema == Optional({"name", "color"})
setTaskTagsSchema == Required({"tagIds"})
savedViewFields ==
    {"name", "viewType", "filtersJson", "sortJson", "groupByJson", "columnsJson",
     "displayOptionsJson", "isDefault"}
savedViewLayers ==
    [filtersJson |->
         Fields({}, {"search", "projectId", "statuses", "priorities", "assigneeId", "createdById",
                     "due", "deadlineFrom", "deadlineTo", "overdue", "unassigned",
                     "includeArchived", "includeDeleted"},
                {"projectId", "assigneeId", "createdById", "due", "deadlineFrom", "deadlineTo"}),
     sortJson |-> Fields({}, {"sortBy", "sortOrder"}, {}),
     groupByJson |-> Fields({}, {"groupBy"}, {}),
     displayOptionsJson |-> Fields({}, {"view", "calMode", "tlZoom", "dense"}, {})]
createSavedViewSchema ==
    Body({"name"}, savedViewFields \ {"name"}, {}) @@ savedViewLayers
updateSavedViewSchema == Optional(savedViewFields) @@ savedViewLayers

-----------------------------------------------------------------------------
(* Recurrences, risk, SLA, automation *)

recurrenceBody ==
    Body({"frequency", "timezone", "startAt"},
         {"interval", "daysOfWeek", "dayOfMonth", "endAt", "overlapPolicy"}, {"dayOfMonth", "endAt"})
recurrencePreviewBody == [recurrenceBody EXCEPT !.body.may = @ \cup {"count"}]
manualRiskBody == Body({"manualRiskLevel"}, {}, {"manualRiskLevel"})
riskRuleBody == Body({"weights", "thresholds"}, {"name"}, {})
slaPolicyBody ==
    Body({"name", "targetDurationMinutes", "warningBeforeMinutes"},
         {"applicableConditions", "businessCalendarId", "isActive"}, {"businessCalendarId"})
slaPolicyChanges ==
    [slaPolicyBody EXCEPT !.body.must = {}, !.body.may = @ \cup slaPolicyBody.body.must]
automationRunsQuery == Query({}, {"page", "pageSize", "status", "taskId"})
calendarLayers ==
    [workingHours |-> Fields({"dayOfWeek", "startMinute", "endMinute"}, {}, {}),
     holidays |-> Fields({"date", "name"}, {"isWorking"}, {})]
calendarBody ==
    Body({"name", "timezone"}, {"isDefault", "isActive", "workingHours", "holidays"}, {}) @@ calendarLayers
calendarChanges ==
    Optional({"name", "timezone", "isDefault", "isActive", "workingHours", "holidays"}) @@ calendarLayers

-----------------------------------------------------------------------------
(* Dashboard and notifications *)

dashboardFilters == {"from", "to", "timezone", "projectId", "memberId", "status"}
dashboardQuerySchema == Query({}, dashboardFilters)
myWorkQuerySchema == Query({}, dashboardFilters \cup {"tab", "limit"})
activityQuerySchema == Query({}, paginationQuerySchema \cup {"projectId", "limit"})
updateNotificationPreferenceSchema ==
    Optional({"taskAssigned", "taskMentioned", "taskUnblocked", "recurrenceCreated",
              "recurrenceSkipped", "slaWarning", "slaBreached", "riskEscalated",
              "projectStatusChanged"})
listNotificationsQuerySchema == Query({}, {"page", "pageSize", "unread"})
=============================================================================
