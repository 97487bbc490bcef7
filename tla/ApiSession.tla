----------------------------- MODULE ApiSession -----------------------------
(* A member at the screens of the web client, and the server that answers: what   *)
(* the client shows it decides by its own copy of the permission map and by what   *)
(* it knew of the member and of the thing on the screen when it last looked, while  *)
(* the server decides by the role rows its migrations left and by how things are.    *)
(* A call goes by method and path to the first route that matches, through the       *)
(* permissions of the route, its schema and the checks of its handler, and the        *)
(* answer goes back through the client's mapper.  A program calls the server too,      *)
(* as the server's own OpenAPI document describes it.                                   *)
EXTENDS Naturals, SequencesExt

Screens == INSTANCE ClientScreens
Client == INSTANCE ClientCalls
Server == INSTANCE ServerRoutes
Document == INSTANCE ApiDocument

VARIABLES applied,  \* the migrations that have run
          grants,   \* the permissions of each role row of the workspace
          kind,     \* what the screens are about
          truth,    \* the member: his role, what holds of him and the thing
          mind,     \* the same, as the client last read it
          exchange  \* the last call: its offer, what the client then knew, how it went

apiVars == <<applied, grants, kind, truth, mind, exchange>>

RoleKeys == Screens!SYSTEM_ROLE_KEYS
\* What may change about the thing on the screens.
Facts == [task |-> {"party", "wrote", "kept", "there"}, project |-> {"leads"}, workspace |-> {}]
Viewers(k) == [role : RoleKeys \cup {"removed"}, holds : SUBSET Facts[k]]
NoCall == [offer |-> <<>>, seen |-> <<>>, went |-> "none", wrong |-> {}]

\* Evaluated once: the offers of every viewer, and the route each call takes.
OffersTo ==
    [k \in DOMAIN Facts |-> [v \in Viewers(k) |-> IF v.role \in RoleKeys THEN Screens!Offers(k, v) ELSE {}]]
RouteOf == [c \in DOMAIN Client!Calls |-> Server!Taken(Client!Calls[c].method, Client!Calls[c].path)]
DocumentedRoute ==
    [h \in DOMAIN Document!Operations |->
       Server!Taken(Document!Operations[h].method, Document!Operations[h].path)]
\* The routes an offer's call takes.
Reached(offer) == IF offer[2] = "documented" THEN DocumentedRoute[offer[1]] ELSE RouteOf[offer[1]]

-----------------------------------------------------------------------------
(* The server's side of a call *)

\* requirePermission reads the role rows, the handlers' checks the rest.
HoldsAll(route) == truth.role \in RoleKeys /\ route.need \subseteq grants[truth.role]
Satisfied(guard) ==
    \/ truth.role \in guard.roles
    \/ guard.holds \cap truth.holds # {}
    \/ truth.role \in RoleKeys /\ guard.keys \cap grants[truth.role] # {}
Admitted(route, case) ==
    /\ ":workspaceId" \in Server!Served[route.handler].ids => truth.role \in RoleKeys
    /\ route.need = {} \/ HoldsAll(route)
    /\ \A guard \in Server!GuardsOf(route.handler, case) : Satisfied(guard)

\* What is read otherwise than it was written, between a call and the route it takes:
\* fields the schema misses, drops or takes no null in, parts of the path the handler
\* does not find, and what the client reads in an answer that has no such field.
NoFields == [must |-> {}, may |-> {}, nulls |-> {}, any |-> {}]
PartOf(message, place) == IF place \in DOMAIN message THEN message[place] ELSE NoFields
MisreadRequest(sends, takes) ==
    UNION {LET s == PartOf(sends, place)
               t == PartOf(takes, place)
           IN  {<<"missing", f>> :
                  f \in IF place \in DOMAIN sends \cup {"body", "query"} THEN t.must \ s.must ELSE {}}
               \cup {<<"dropped", f>> : f \in (s.must \cup s.may) \ (t.must \cup t.may)}
               \cup {<<"null", f>> : f \in s.nulls \ t.nulls}
               \cup {<<"none of", f>> :
                       f \in IF t.any \cap s.must = {} /\ ~ (s.any # {} /\ s.any \subseteq t.any)
                             THEN t.any ELSE {}} :
             place \in DOMAIN sends \cup DOMAIN takes}
MisreadAnswer(answer, reads) ==
    (IF answer.form # reads.form THEN {<<"form", answer.form>>} ELSE {})
    \cup {<<"unsent", CHOOSE f \in names : TRUE>> :
            names \in {n \in reads.fields : n \cap answer.fields = {}}}
Misread ==
    [c \in DOMAIN Client!Calls |->
       LET asked == Client!Calls[c]
           along(route) ==
               LET h == Server!Served[route.handler]
               IN  (IF route.handler # asked.asks THEN {<<"handler", route.handler>>} ELSE {})
                   \cup {<<"unfound", p>> : p \in h.ids \ Range(asked.path)}
                   \cup MisreadRequest(asked.sends, route.takes)
                   \cup MisreadAnswer(h.answer, asked.reads)
       IN  IF RouteOf[c] = {} THEN {<<"no route", c>>} ELSE UNION {along(r) : r \in RouteOf[c]}]

\* The same between an operation of the document and the route a call of it takes; also
\* the status and whether a token is asked for.
Shape == [any |-> {"one", "many", "paged", "file"}, one |-> {"one"}, many |-> {"many", "paged"}]
MisreadDocument ==
    [h \in DOMAIN Document!Operations |->
       LET op == Document!Operations[h]
           sent == {op.takes}
                   \cup (IF h \in DOMAIN Document!Components THEN {Document!Components[h]} ELSE {})
           along(route) ==
               LET by == Server!Served[route.handler]
                   status == Server!StatusOf(route.handler)
               IN  (IF route.handler # h THEN {<<"handler", route.handler>>} ELSE {})
                   \cup {<<"unfound", p>> : p \in by.ids \ Range(op.path)}
                   \cup UNION {MisreadRequest(takes, route.takes) : takes \in sent}
                   \cup (IF op.bearer # Server!Authenticated(route.handler) THEN {<<"token", h>>} ELSE {})
                   \cup (IF status \notin op.statuses THEN {<<"status", status>>} ELSE {})
                   \cup (IF by.answer.form \notin Shape[op.shows.form]
                         THEN {<<"form", by.answer.form>>} ELSE {})
                   \cup {<<"unsent", f>> : f \in op.shows.fields \ by.answer.fields}
       IN  IF DocumentedRoute[h] = {} THEN {<<"no route", h>>}
           ELSE UNION {along(r) : r \in DocumentedRoute[h]}]

-----------------------------------------------------------------------------
\* A workspace is born after the first n migrations.
ApiInit ==
    /\ applied \in 0 .. Screens!LastMigration
    /\ grants = Screens!createWorkspaceRoles(Screens!CatalogueAt(applied))
    /\ kind \in DOMAIN Facts
    /\ truth = [role |-> "removed", holds |-> {}] /\ mind = truth
    /\ exchange = NoCall

\* The server of this version starts once the migrations have run.
Migrate ==
    /\ applied < Screens!LastMigration
    /\ applied' = applied + 1
    /\ grants' = Screens!Backfill(grants, Screens!Migrations[applied + 1])
    /\ UNCHANGED <<kind, truth, mind, exchange>>
Up == applied = Screens!LastMigration

\* The member, or another, changes his role or the thing; the client's view is
\* at most one change behind.
Turn ==
    /\ Up /\ mind = truth
    /\ \/ \E r \in RoleKeys \cup {"removed"} : truth' = [truth EXCEPT !.role = r]
       \/ \E f \in Facts[kind] :
             truth' = [truth EXCEPT !.holds = IF f \in @ THEN @ \ {f} ELSE @ \cup {f}]
    /\ UNCHANGED <<applied, grants, kind, mind, exchange>>

\* The client reads the profile and the thing again; a call on its way keeps what it took.
LookAgain ==
    /\ Up /\ mind # truth /\ exchange.went # "under way"
    /\ mind' = truth /\ exchange' = NoCall
    /\ UNCHANGED <<applied, grants, kind, truth>>

\* A screen opens or a control is used.
Click ==
    /\ Up /\ exchange.went = "none"
    /\ \E offer \in OffersTo[kind][mind] :
          exchange' = [offer |-> offer, seen |-> mind, went |-> "under way", wrong |-> {}]
    /\ UNCHANGED <<applied, grants, kind, truth, mind>>

\* The owner's program follows the document, with a task in good order.
Orderly == [role |-> "owner", holds |-> Facts["task"]]
Program ==
    /\ Up /\ exchange.went = "none"
    /\ kind = "task" /\ truth = Orderly /\ mind = Orderly
    /\ \E h \in DOMAIN Document!Operations :
          exchange' = [offer |-> <<h, "documented">>, seen |-> mind, went |-> "under way", wrong |-> {}]
    /\ UNCHANGED <<applied, grants, kind, truth, mind>>

Respond ==
    /\ exchange.went = "under way"
    /\ LET c == exchange.offer[1]
           case == exchange.offer[2]
       IN  exchange' =
             IF \A route \in Reached(exchange.offer) : Admitted(route, case)
             THEN [exchange EXCEPT !.went = "answered",
                                   !.wrong = IF case = "documented" THEN MisreadDocument[c]
                                             ELSE Misread[c]]
             ELSE [exchange EXCEPT !.went = "refused"]
    /\ UNCHANGED <<applied, grants, kind, truth, mind>>

\* The answer has been shown.
Shown ==
    /\ exchange.went \in {"answered", "refused"}
    /\ exchange' = NoCall
    /\ UNCHANGED <<applied, grants, kind, truth, mind>>

ApiNext == Migrate \/ Turn \/ LookAgain \/ Click \/ Program \/ Respond \/ Shown
ApiSpec == ApiInit /\ [][ApiNext]_apiVars

-----------------------------------------------------------------------------
(* Properties *)

ApiTypeOK ==
    /\ applied \in 0 .. Screens!LastMigration
    /\ DOMAIN grants = RoleKeys /\ \A r \in RoleKeys : grants[r] \subseteq Screens!PERMISSIONS
    /\ kind \in DOMAIN Facts /\ truth \in Viewers(kind) /\ mind \in Viewers(kind)
    /\ exchange # NoCall => /\ exchange.seen \in Viewers(kind)
                           /\ exchange.offer \in
                                OffersTo[kind][exchange.seen]
                                \cup {<<h, "documented">> : h \in DOMAIN Document!Operations}
                           /\ exchange.went \in {"under way", "answered", "refused"}

\* Calls on a task whose handlers do not look at archived ones.
ArchivedBlind ==
    {"getTask", "startTimer", "listChecklist", "createChecklistItem", "updateChecklistItem",
     "deleteChecklistItem", "reorderChecklist", "listComments", "createComment", "updateComment",
     "deleteComment", "listAttachments", "uploadAttachment", "getAttachmentDownload",
     "deleteAttachment", "listTaskTags", "setTaskTags", "listCustomFieldValues",
     "setCustomFieldValues"}
\* Calls on a task whose handlers look at deleted ones, or do not look at the task.
DeletedSeen == {"restoreTask", "getTaskActivity", "listTaskSla"}
Leading ==
    {"updateProject", "archiveProject", "createWorkflowDraft", "addStage", "updateStage",
     "reorderStages", "saveTransitions", "validateWorkflowDraft", "getPublishPreview",
     "publishWorkflow", "deleteStage"}
\* What the client offers although the server refuses it, however fresh the view.
Overoffered(o, v) ==
    \/ o[1] \in ArchivedBlind /\ "kept" \notin v.holds
    \/ /\ "there" \notin v.holds /\ ":taskId" \in Range(Client!Calls[o[1]].path)
       /\ o[1] \notin DeletedSeen
    \/ o[1] \in {"addProjectMember", "updateProjectMemberRole", "removeProjectMember"}
       /\ (v.role = "member" \/ (v.role = "manager" /\ "leads" \notin v.holds))
    \/ o[1] \in Leading /\ v.role = "manager" /\ "leads" \notin v.holds
    \/ o[1] \in {"createTemplateVersion", "archiveTemplate"} /\ v.role = "member"
    \/ o[2] = "to admin" /\ v.role # "owner"
    \/ o[2] = "to manager" /\ v.role = "manager"

\* A call that the client offers on a true view of the member and the thing is
\* answered, and exactly the calls named above are refused nevertheless: the two copies of
\* the permission map, the migrations' backfills, the routes' permissions, the handlers'
\* checks and the screens' conditions agree.  No operation of the document is refused to the
\* owner.
OffersAdmitted ==
    [][exchange.went = "under way" /\ exchange'.went # exchange.went /\ exchange.seen = truth =>
         (exchange'.went = "refused") =
             (exchange.offer[2] # "documented" /\ Overoffered(exchange.offer, exchange.seen))]_apiVars

\* Where the two sides are known to read one another otherwise.
Divergences ==
    [listMembers |-> {<<"form", "paged">>},
     listCalendar |-> {<<"dropped", "sortBy">>, <<"dropped", "sortOrder">>},
     listTimeline |-> {<<"dropped", "sortBy">>, <<"dropped", "sortOrder">>},
     upsertRecurrence |-> {<<"dropped", "isActive">>},
     previewRecurrence |-> {<<"dropped", "isActive">>},
     upsertRiskRule |-> {<<"dropped", "isActive">>},
     listSlaPolicies |-> {<<"unsent", "applicableConditions">>},
     createSlaPolicy |-> {<<"unsent", "applicableConditions">>},
     pauseSlaInstance |-> {<<"unsent", "policyName">>, <<"unsent", "remainingSeconds">>},
     resumeSlaInstance |-> {<<"unsent", "policyName">>, <<"unsent", "remainingSeconds">>},
     updateProject |-> {<<"dropped", "memberIds">>},
     getActivity |-> {<<"unsent", "projectName">>}]

\* The document leaves out the body of the recurrence it puts, and the status of a member
\* that is added to a project.
DocumentDivergences ==
    [upsertRecurrence |-> {<<"missing", "frequency">>, <<"missing", "timezone">>,
                           <<"missing", "startAt">>},
     addProjectMember |-> {<<"status", 201>>}]

\* A call that is answered was handled by the handler it was meant for, with every part of
\* the path and every field of the schema read as it was sent, and its answer had every
\* field the client reads, except as listed; a call written from the document was, besides,
\* answered with a status the document names, and asked for a token where it says so.
CallsUnderstood ==
    exchange.went = "answered" =>
        LET c == exchange.offer[1]
            known == IF exchange.offer[2] = "documented" THEN DocumentDivergences ELSE Divergences
        IN  exchange.wrong = IF c \in DOMAIN known THEN known[c] ELSE {}
=============================================================================
