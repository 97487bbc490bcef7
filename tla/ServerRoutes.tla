---------------------------- MODULE ServerRoutes ----------------------------
(* The routes of the server, router by router, each in the order in which it is   *)
(* registered: a request is handled by the first route whose method and path it    *)
(* matches, after that route's schema has read it and its permissions are held.     *)
(* A route under a workspace is open to its active members only; the health,        *)
(* sign-in and invitation routes and the list of one's workspaces are not under one. *)
EXTENDS ServerSchemas, ServerAnswers, Naturals, Sequences

Route(method, path, need, takes, by) ==
    [method |-> method, path |-> path, need |-> need, takes |-> takes, handler |-> by]
Get(path, need, takes, by) == Route("get", path, need, takes, by)
Post(path, need, takes, by) == Route("post", path, need, takes, by)
Put(path, need, takes, by) == Route("put", path, need, takes, by)
Patch(path, need, takes, by) == Route("patch", path, need, takes, by)
Delete(path, need, takes, by) == Route("delete", path, need, takes, by)

\* A router mounted at a prefix: router.use(prefix, routes).
Under(prefix, routes) == [n \in DOMAIN routes |-> [routes[n] EXCEPT !.path = prefix \o @]]

-----------------------------------------------------------------------------
(* Health, sign-in, invitations *)

healthRouter ==
    <<Get(<<"live">>, {}, Nothing, "live"),
      Get(<<"ready">>, {}, Nothing, "ready")>>
authRouter ==
    <<Post(<<"register">>, {}, registerSchema, "register"),
      Post(<<"login">>, {}, loginSchema, "login"),
      Post(<<"refresh">>, {}, Nothing, "refresh"),
      Post(<<"logout">>, {}, Nothing, "logout"),
      Post(<<"logout-all">>, {}, Nothing, "logoutAll"),
      Post(<<"verify-email">>, {}, verifyEmailSchema, "verifyEmail"),
      Post(<<"resend-verification">>, {}, resendVerificationSchema, "resendVerification"),
      Post(<<"forgot-password">>, {}, forgotPasswordSchema, "forgotPassword"),
      Post(<<"reset-password">>, {}, resetPasswordSchema, "resetPassword"),
      Post(<<"change-password">>, {}, changePasswordSchema, "changePassword"),
      Get(<<"me">>, {}, Nothing, "getMe"),
      Get(<<"sessions">>, {}, Nothing, "listSessions"),
      Delete(<<"sessions", ":sessionId">>, {}, Nothing, "revokeSession"),
      Post(<<"select-workspace">>, {}, selectWorkspaceSchema, "selectWorkspace")>>
meRouter ==
    <<Get(<<"workspaces">>, {}, Nothing, "listWorkspaces")>>
invitationsRouter ==
    <<Get(<<"preview">>, {}, Query({"token"}, {}), "inspectInvitation"),
      Post(<<"accept">>, {}, acceptInvitationSchema, "acceptInvitation")>>

-----------------------------------------------------------------------------
(* Tasks and what hangs on a task *)

tasksRouter ==
    <<Get(<<>>, {"tasks:read"}, listTasksQuerySchema, "listTasks"),
      Get(<<"board">>, {"tasks:read"}, boardTasksQuerySchema, "listBoardColumn"),
      Get(<<"calendar">>, {"tasks:read"}, calendarTasksQuerySchema, "listCalendar"),
      Get(<<"timeline">>, {"tasks:read"}, timelineTasksQuerySchema, "listTimeline"),
      Post(<<"export">>, {"tasks:read"}, exportTasksSchema, "exportTasks"),
      Post(<<"parse">>, {"tasks:create"}, parseTaskSchema, "parseTask"),
      Post(<<>>, {"tasks:create"}, createTaskSchema, "createTask"),
      Post(<<"bulk-update">>, {"tasks:update"}, bulkUpdateSchema, "bulkUpdate"),
      Post(<<"bulk-delete">>, {"tasks:delete"}, bulkDeleteSchema, "bulkDelete")>>
taskRouter ==
    <<Get(<<":taskId">>, {"tasks:read"}, Nothing, "getTask"),
      Patch(<<":taskId">>, {"tasks:update"}, updateTaskSchema, "updateTask"),
      Patch(<<":taskId", "status">>, {"tasks:update"}, statusMutationSchema, "changeStatus"),
      Patch(<<":taskId", "move">>, {"tasks:update"}, moveTaskSchema, "moveTask"),
      Patch(<<":taskId", "assignee">>, {"tasks:assign"}, assigneeMutationSchema, "changeAssignee"),
      Post(<<":taskId", "archive">>, {"tasks:update"}, versionMutationSchema, "archiveTask"),
      Post(<<":taskId", "unarchive">>, {"tasks:update"}, versionMutationSchema, "unarchiveTask"),
      Post(<<":taskId", "restore">>, {"tasks:update"}, versionMutationSchema, "restoreTask"),
      Get(<<":taskId", "activity">>, {"activity:read"}, taskActivityQuerySchema, "getTaskActivity"),
      Delete(<<":taskId">>, {"tasks:delete"}, deleteTaskQuerySchema, "deleteTask")>>
checklistRouter ==
    <<Get(<<>>, {"checklist.manage"}, Nothing, "listChecklist"),
      Post(<<>>, {"checklist.manage"}, createChecklistItemSchema, "createChecklistItem"),
      Post(<<"reorder">>, {"checklist.manage"}, reorderChecklistSchema, "reorderChecklist"),
      Patch(<<":itemId">>, {"checklist.manage"}, updateChecklistItemSchema, "updateChecklistItem"),
      Delete(<<":itemId">>, {"checklist.manage"}, Nothing, "deleteChecklistItem")>>
taskTagsRouter ==
    <<Get(<<>>, {"tag.view"}, Nothing, "listTaskTags"),
      Put(<<>>, {"task.tag.manage"}, setTaskTagsSchema, "setTaskTags")>>
taskCustomFieldsRouter ==
    <<Get(<<>>, {"custom_field.view"}, Nothing, "listTaskCustomFieldValues"),
      Put(<<>>, {"custom_field.value.update"}, setTaskCustomFieldValuesSchema,
          "setTaskCustomFieldValues")>>
commentsRouter ==
    <<Get(<<>>, {"comment.view"}, listCommentsQuerySchema, "listComments"),
      Post(<<>>, {"comment.create"}, createCommentSchema, "createComment"),
      Patch(<<":commentId">>, {"comment.update_own"}, updateCommentSchema, "updateComment"),
      Delete(<<":commentId">>, {"comment.delete_own"}, Nothing, "deleteComment")>>
attachmentsRouter ==
    <<Get(<<>>, {"attachment.view"}, Nothing, "listAttachments"),
      Post(<<>>, {"attachment.upload"}, Required({"file"}), "uploadAttachment"),
      Get(<<":attachmentId", "download">>, {"attachment.view"}, Nothing, "downloadAttachment"),
      Delete(<<":attachmentId">>, {"attachment.delete_own"}, Nothing, "deleteAttachment")>>
dependenciesRouter ==
    <<Get(<<>>, {"task_dependency.view"}, Nothing, "listDependencies"),
      Post(<<>>, {"task_dependency.manage"}, createDependencySchema, "createDependency"),
      Delete(<<":dependencyId">>, {"task_dependency.manage"}, Nothing, "deleteDependency")>>
taskTimeLogsRouter ==
    <<Get(<<>>, {"time_log.view_own"}, listTimeLogsQuerySchema, "listTimeLogs"),
      Post(<<>>, {"time_log.create"}, createManualTimeLogSchema, "createManualTimeLog"),
      Post(<<"timer", "start">>, {"time_log.create"}, startTimerSchema, "startTimer"),
      Post(<<"timer", "stop">>, {"time_log.create"}, stopTimerSchema, "stopTimer"),
      Patch(<<":timeLogId">>, {"time_log.update_own"}, updateTimeLogSchema, "updateTimeLog"),
      Delete(<<":timeLogId">>, {"time_log.delete_own"}, Nothing, "deleteTimeLog")>>
taskHistoryRouter ==
    <<Get(<<>>, {"task_history.view"}, Nothing, "listTaskHistory")>>
recurrencesRouter ==
    <<Get(<<>>, {"recurrence.view"}, Nothing, "getRecurrence"),
      Put(<<>>, {"recurrence.manage"}, recurrenceBody, "upsertRecurrence"),
      Post(<<>>, {"recurrence.manage"}, recurrenceBody, "upsertRecurrence"),
      Delete(<<>>, {"recurrence.manage"}, Nothing, "deleteRecurrence"),
      Post(<<"preview">>, {"recurrence.view"}, recurrencePreviewBody, "previewRecurrence"),
      Post(<<"pause">>, {"recurrence.manage"}, Nothing, "pauseRecurrence"),
      Post(<<"resume">>, {"recurrence.manage"}, Nothing, "resumeRecurrence")>>
taskRiskRouter ==
    <<Get(<<>>, {"risk.view"}, Nothing, "getTaskRisk"),
      Patch(<<>>, {"risk.update"}, manualRiskBody, "setManualRisk")>>
taskSlaRouter ==
    <<Get(<<>>, {"sla.view"}, Nothing, "listTaskSla")>>

-----------------------------------------------------------------------------
(* Automation, tags, fields, views of a workspace *)

riskRulesRouter ==
    <<Get(<<>>, {"risk.view"}, Nothing, "getRiskRule"),
      Put(<<>>, {"risk.configure"}, riskRuleBody, "upsertRiskRule"),
      Post(<<>>, {"risk.configure"}, riskRuleBody, "upsertRiskRule")>>
businessCalendarsRouter ==
    <<Get(<<>>, {"sla.view"}, Nothing, "listBusinessCalendars"),
      Get(<<":calendarId">>, {"sla.view"}, Nothing, "getBusinessCalendar"),
      Post(<<>>, {"sla.configure"}, calendarBody, "createBusinessCalendar"),
      Patch(<<":calendarId">>, {"sla.configure"}, calendarChanges, "updateBusinessCalendar"),
      Delete(<<":calendarId">>, {"sla.configure"}, Nothing, "deleteBusinessCalendar")>>
slaPoliciesRouter ==
    <<Get(<<>>, {"sla.view"}, Nothing, "listSlaPolicies"),
      Post(<<>>, {"sla.configure"}, slaPolicyBody, "createSlaPolicy"),
      Patch(<<":policyId">>, {"sla.configure"}, slaPolicyChanges, "updateSlaPolicy"),
      Put(<<":policyId">>, {"sla.configure"}, slaPolicyBody, "updateSlaPolicy"),
      Delete(<<":policyId">>, {"sla.configure"}, Nothing, "deleteSlaPolicy")>>
slaInstancesRouter ==
    <<Post(<<":instanceId", "pause">>, {"sla.override"}, Nothing, "pauseSlaInstance"),
      Post(<<":instanceId", "resume">>, {"sla.override"}, Nothing, "resumeSlaInstance")>>
automationRunsRouter ==
    <<Get(<<>>, {"automation.view"}, automationRunsQuery, "listAutomationRuns"),
      Get(<<":runId">>, {"automation.view"}, Nothing, "getAutomationRun"),
      Post(<<":runId", "retry">>, {"automation.retry"}, Nothing, "retryAutomationRun")>>
workspaceTimerRouter ==
    <<Get(<<"running">>, {"time_log.view_own"}, Nothing, "getRunningTimer")>>
tagsRouter ==
    <<Get(<<>>, {"tag.view"}, listTagsQuerySchema, "listTags"),
      Post(<<>>, {"tag.create"}, createTagSchema, "createTag"),
      Patch(<<":tagId">>, {"tag.update"}, updateTagSchema, "updateTag"),
      Delete(<<":tagId">>, {"tag.delete"}, Nothing, "deleteTag")>>
customFieldsRouter ==
    <<Get(<<>>, {"custom_field.view"}, listCustomFieldsQuerySchema, "listCustomFields"),
      Post(<<>>, {"custom_field.configure"}, createCustomFieldSchema, "createCustomField"),
      Patch(<<":fieldId">>, {"custom_field.configure"}, updateCustomFieldSchema,
          "updateCustomField"),
      Delete(<<":fieldId">>, {"custom_field.configure"}, Nothing, "deleteCustomField")>>
templatesRouter ==
    <<Get(<<>>, {"projects:read"}, listTemplatesQuerySchema, "listTemplates"),
      Post(<<>>, {"projects:create"}, createTemplateSchema, "createTemplate"),
      Get(<<"clone-jobs", ":cloneJobId">>, {"projects:read"}, Nothing, "getCloneJob"),
      Post(<<"clone-jobs", ":cloneJobId", "retry">>, {"projects:create"}, Nothing, "retryCloneJob"),
      Get(<<":templateId">>, {"projects:read"}, Nothing, "getTemplate"),
      Patch(<<":templateId">>, {"projects:update"}, updateTemplateSchema, "updateTemplate"),
      Post(<<":templateId", "publish">>, {"projects:update"}, Nothing, "publishTemplate"),
      Post(<<":templateId", "validate">>, {"projects:update"}, Nothing, "validateTemplate"),
      Post(<<":templateId", "versions">>, {"projects:update"}, Nothing, "createTemplateVersion"),
      Get(<<":templateId", "versions">>, {"projects:read"}, Nothing, "listTemplateVersions"),
      Post(<<":templateId", "archive">>, {"projects:update"}, Nothing, "archiveTemplate"),
      Post(<<":templateId", "duplicate">>, {"projects:create"}, Nothing, "duplicateTemplate"),
      Post(<<":templateId", "clone">>, {"projects:create"}, cloneTemplateSchema, "cloneTemplate")>>
dashboardRouter ==
    <<Get(<<"summary">>, {"dashboard:read"}, dashboardQuerySchema, "getDashboardSummary"),
      Get(<<"my-work">>, {"dashboard:read", "tasks:read"}, myWorkQuerySchema, "getDashboardMyWork"),
      Get(<<"charts">>, {"dashboard:read"}, dashboardQuerySchema, "getDashboardCharts"),
      Get(<<"activity">>, {"activity:read"}, activityQuerySchema, "getDashboardActivity")>>
notificationsRouter ==
    <<Get(<<"preferences">>, {"tasks:read"}, Nothing, "getNotificationPreference"),
      Patch(<<"preferences">>, {"tasks:read"}, updateNotificationPreferenceSchema,
          "updateNotificationPreference"),
      Get(<<>>, {"tasks:read"}, listNotificationsQuerySchema, "listNotifications"),
      Patch(<<"read-all">>, {"tasks:read"}, Nothing, "markAllNotificationsRead"),
      Patch(<<":notificationId", "read">>, {"tasks:read"}, Nothing, "markNotificationRead")>>
savedViewsRouter ==
    <<Get(<<>>, {"tasks:read"}, Nothing, "listSavedViews"),
      Post(<<>>, {"tasks:read"}, createSavedViewSchema, "createSavedView"),
      Get(<<":viewId">>, {"tasks:read"}, Nothing, "getSavedView"),
      Patch(<<":viewId">>, {"tasks:read"}, updateSavedViewSchema, "updateSavedView"),
      Delete(<<":viewId">>, {"tasks:read"}, Nothing, "deleteSavedView")>>

-----------------------------------------------------------------------------
(* Projects *)

projectWorkflowRouter ==
    <<Get(<<>>, {"projects:read"}, Nothing, "getProjectWorkflow"),
      Post(<<"draft">>, {"projects:update"}, Nothing, "createWorkflowDraft"),
      Get(<<"drafts", ":workflowId">>, {"projects:read"}, Nothing, "getWorkflowDraft"),
      Get(<<"drafts", ":workflowId", "publish-preview">>, {"projects:update"}, Nothing,
          "getWorkflowPublishPreview"),
      Post(<<"drafts", ":workflowId", "validate">>, {"projects:update"}, Nothing,
          "validateWorkflowDraft"),
      Post(<<"drafts", ":workflowId", "stages">>, {"projects:update"},
          createWorkflowStageSchema, "addWorkflowStage"),
      Patch(<<"drafts", ":workflowId", "stages", ":stageId">>, {"projects:update"},
          updateWorkflowStageSchema, "updateWorkflowStage"),
      Delete(<<"drafts", ":workflowId", "stages", ":stageId">>, {"projects:update"},
          deleteWorkflowStageQuerySchema, "deleteWorkflowStage"),
      Put(<<"drafts", ":workflowId", "stages", "reorder">>, {"projects:update"},
          reorderWorkflowStagesSchema, "reorderWorkflowStages"),
      Put(<<"drafts", ":workflowId", "transitions">>, {"projects:update"},
          upsertWorkflowTransitionsSchema, "upsertWorkflowTransitions")>>
milestonesRouter ==
    <<Get(<<>>, {"projects:read"}, Nothing, "listMilestones"),
      Post(<<>>, {"projects:update"}, createMilestoneSchema, "createMilestone"),
      Put(<<"reorder">>, {"projects:update"}, reorderMilestonesSchema, "reorderMilestones"),
      Get(<<":milestoneId">>, {"projects:read"}, Nothing, "getMilestone"),
      Patch(<<":milestoneId">>, {"projects:update"}, updateMilestoneSchema, "updateMilestone"),
      Delete(<<":milestoneId">>, {"projects:update"}, Nothing, "deleteMilestone")>>
projectsRouter ==
    <<Get(<<>>, {"projects:read"}, listProjectsQuerySchema, "listProjects"),
      Post(<<>>, {"projects:create"}, createProjectSchema, "createProject"),
      Get(<<":projectId">>, {"projects:read"}, Nothing, "getProject"),
      Patch(<<":projectId">>, {"projects:update"}, updateProjectSchema, "updateProject"),
      Post(<<":projectId", "archive">>, {"projects:update"}, Nothing, "archiveProject"),
      Post(<<":projectId", "unarchive">>, {"projects:update"}, Nothing, "unarchiveProject"),
      Delete(<<":projectId">>, {"projects:delete"}, Nothing, "deleteProject"),
      Post(<<":projectId", "restore">>, {"projects:delete"}, Nothing, "restoreProject"),
      Get(<<":projectId", "members">>, {"projects:read"}, Nothing, "listProjectMembers"),
      Post(<<":projectId", "members">>, {"projects:update"}, addProjectMemberSchema,
          "addProjectMember"),
      Put(<<":projectId", "members">>, {"projects:update"}, replaceProjectMembersSchema,
          "replaceProjectMembers"),
      Patch(<<":projectId", "members", ":memberUserId">>, {"projects:update"},
          updateProjectMemberSchema, "updateProjectMember"),
      Delete(<<":projectId", "members", ":memberUserId">>, {"projects:update"}, Nothing,
          "removeProjectMember"),
      Patch(<<":projectId", "visibility">>, {"projects:update"}, updateProjectVisibilitySchema,
          "updateProjectVisibility"),
      Post(<<":projectId", "workflow", "publish">>, {"projects:update"},
          publishProjectWorkflowSchema, "publishProjectWorkflow")>>
assigneesRouter ==
    <<Get(<<":projectId", "eligible-assignees">>, {"tasks:assign"},
          eligibleAssigneesQuerySchema, "listEligibleAssignees")>>

-----------------------------------------------------------------------------
(* Workspaces *)

workspacesRouter ==
    <<Post(<<>>, {}, createWorkspaceSchema, "createWorkspace"),
      Get(<<":workspaceId">>, {"workspace:read"}, Nothing, "getWorkspace"),
      Patch(<<":workspaceId">>, {"workspace:update"}, updateWorkspaceSchema, "updateWorkspace"),
      Get(<<":workspaceId", "members">>, {"members:read"}, listMembersQuerySchema, "listMembers"),
      Post(<<":workspaceId", "invitations">>, {"members:invite"}, inviteMemberSchema,
          "inviteMember"),
      Delete(<<":workspaceId", "invitations", ":invitationId">>, {"members:invite"}, Nothing,
          "revokeInvitation"),
      Patch(<<":workspaceId", "members", ":memberId">>, {"members:update"},
          updateMemberRoleSchema, "updateMemberRole"),
      Delete(<<":workspaceId", "members", ":memberId">>, {"members:remove"}, Nothing,
          "removeMember"),
      Post(<<":workspaceId", "transfer-ownership">>, {"ownership:transfer"},
          transferOwnershipSchema, "transferOwnership")>>
workspaceSetupRouter ==
    <<Get(<<":workspaceId", "onboarding">>, {}, Nothing, "getOnboarding"),
      Patch(<<":workspaceId", "onboarding">>, {}, updateOnboardingSchema, "updateOnboarding"),
      Post(<<":workspaceId", "onboarding", "complete">>, {}, Nothing, "completeOnboarding"),
      Get(<<":workspaceId", "modules">>, {"workspace:read"}, Nothing, "listModules"),
      Post(<<":workspaceId", "modules", "presets">>, {"modules:manage"},
          applyModulePresetSchema, "applyModulePreset"),
      Patch(<<":workspaceId", "modules">>, {"modules:manage"}, updateModulesSchema,
          "updateModules"),
      Post(<<":workspaceId", "onboarding", "first-project">>, {"projects:create"},
          createFirstProjectSchema, "createFirstProject")>>

-----------------------------------------------------------------------------
(* Mounting *)

projectRoutes ==
    projectsRouter \o Under(<<":projectId", "workflow">>, projectWorkflowRouter)
    \o Under(<<":projectId", "milestones">>, milestonesRouter) \o assigneesRouter
mounts ==
    LET onTask(below, routes) == Under(<<":workspaceId", "tasks", ":taskId", below>>, routes)
        at(below, routes) == Under(<<":workspaceId", below>>, routes)
    IN  at("tasks", tasksRouter \o taskRouter)
        \o onTask("checklist-items", checklistRouter) \o onTask("tags", taskTagsRouter)
        \o onTask("custom-field-values", taskCustomFieldsRouter)
        \o onTask("comments", commentsRouter) \o onTask("attachments", attachmentsRouter)
        \o onTask("dependencies", dependenciesRouter) \o onTask("time-logs", taskTimeLogsRouter)
        \o onTask("status-history", taskHistoryRouter) \o onTask("recurrence", recurrencesRouter)
        \o onTask("risk", taskRiskRouter) \o onTask("sla", taskSlaRouter)
        \o at("risk-rules", riskRulesRouter) \o at("business-calendars", businessCalendarsRouter)
        \o at("sla-policies", slaPoliciesRouter) \o at("sla-instances", slaInstancesRouter)
        \o at("automation-runs", automationRunsRouter) \o at("timers", workspaceTimerRouter)
        \o at("tags", tagsRouter) \o at("custom-fields", customFieldsRouter)
        \o at("projects", projectRoutes) \o at("templates", templatesRouter)
        \o at("dashboard", dashboardRouter) \o at("notifications", notificationsRouter)
        \o at("saved-views", savedViewsRouter)
v1Router ==
    Under(<<"health">>, healthRouter) \o Under(<<"auth">>, authRouter) \o Under(<<"me">>, meRouter)
    \o Under(<<"invitations">>, invitationsRouter)
    \o Under(<<"workspaces">>, workspacesRouter \o workspaceSetupRouter \o mounts)

\* Segments of a path that stand for any value.
Params ==
    {":workspaceId", ":taskId", ":projectId", ":itemId", ":commentId", ":attachmentId", ":fieldId",
     ":tagId", ":dependencyId", ":timeLogId", ":calendarId", ":policyId", ":instanceId", ":runId",
     ":viewId", ":notificationId", ":milestoneId", ":workflowId", ":stageId", ":memberUserId",
     ":templateId", ":cloneJobId", ":memberId", ":invitationId", ":sessionId"}
Matches(route, method, path) ==
    /\ route.method = method /\ Len(route.path) = Len(path)
    /\ \A k \in DOMAIN path : route.path[k] \in Params \cup {path[k]}

\* The route that takes a request, and {} if there is none.
Taken(method, path) ==
    LET hits == {n \in DOMAIN v1Router : Matches(v1Router[n], method, path)}
    IN  {v1Router[n] : n \in {h \in hits : \A k \in hits : h <= k}}
=============================================================================
