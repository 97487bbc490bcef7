---- MODULE Roles ----
(***************************************************************************)
(* The permissions of a workspace's four system roles, as three places of  *)
(* the repository write them down: the map from which the server creates   *)
(* the roles of a new workspace, the copy by which the web client decides  *)
(* what to show, and the migrations that give the roles of workspaces      *)
(* born earlier the permissions that came after them.                      *)
(***************************************************************************)
EXTENDS Naturals

SYSTEM_ROLE_KEYS == {"owner", "admin", "manager", "member"}

(* What later phases added to the catalogue, a phase at a time. *)
COLLAB_FULL ==
  {"checklist.manage", "tag.view", "tag.create", "tag.update", "tag.delete",
   "task.tag.manage", "custom_field.view", "custom_field.configure",
   "custom_field.value.update", "comment.view", "comment.create",
   "comment.update_own", "comment.delete_own", "comment.moderate",
   "attachment.view", "attachment.upload", "attachment.delete_own", "attachment.manage"}
COLLAB_MEMBER ==
  COLLAB_FULL \ {"tag.delete", "custom_field.configure", "comment.moderate", "attachment.manage"}
PHASE_72_FULL ==
  {"task_dependency.view", "task_dependency.manage", "task_dependency.override",
   "time_log.view_own", "time_log.create", "time_log.update_own", "time_log.delete_own",
   "time_log.view_all", "time_log.manage_all", "task_history.view"}
PHASE_72_MEMBER ==
  PHASE_72_FULL \ {"task_dependency.override", "time_log.view_all", "time_log.manage_all"}
PHASE_73_FULL ==
  {"recurrence.view", "recurrence.manage", "risk.view", "risk.update", "risk.configure",
   "sla.view", "sla.configure", "sla.override",
   "automation.view", "automation.manage", "automation.retry"}
PHASE_73_MEMBER ==
  {"recurrence.view", "recurrence.manage", "risk.view", "risk.update", "sla.view",
   "automation.view"}

(* The catalogue of this version. *)
PERMISSIONS ==
  {"workspace:read", "workspace:update", "members:read", "members:invite",
   "members:update", "members:remove", "ownership:transfer", "roles:read",
   "roles:manage", "modules:manage", "projects:read", "projects:create",
   "projects:update", "tasks:read", "tasks:create", "tasks:update", "tasks:delete",
   "tasks:assign", "dashboard:read", "activity:read", "projects:delete"}
  \cup COLLAB_FULL \cup PHASE_72_FULL \cup PHASE_73_FULL

(* The map the server creates a workspace's roles from. *)
MemberBase ==
  {"workspace:read", "members:read", "roles:read", "projects:read", "tasks:read",
   "tasks:create", "tasks:update", "tasks:delete", "tasks:assign", "dashboard:read",
   "activity:read"}
ManagerBase ==
  MemberBase \cup {"members:invite", "members:update", "projects:create", "projects:update"}
AdminBase ==
  ManagerBase \cup {"workspace:update", "members:remove", "roles:manage", "modules:manage",
                    "projects:delete"}
ROLE_PERMISSION_MAP ==
  [owner   |-> PERMISSIONS,
   admin   |-> AdminBase \cup COLLAB_FULL \cup PHASE_72_FULL \cup PHASE_73_FULL,
   manager |-> ManagerBase \cup COLLAB_FULL \cup PHASE_72_FULL \cup PHASE_73_FULL,
   member  |-> MemberBase \cup COLLAB_MEMBER \cup PHASE_72_MEMBER \cup PHASE_73_MEMBER]

(* The roles of a workspace created over a catalogue that holds only those  *)
(* keys: a key of the map that has no row yet is left out.                  *)
createWorkspaceRoles(catalogue) ==
  [r \in SYSTEM_ROLE_KEYS |-> ROLE_PERMISSION_MAP[r] \cap catalogue]

(* The client's own copy of the map, written out again in the frontend. *)
\* Mutant: the client's copy was widened alone.
ClientMemberCreates ==
  {"workspace:read", "members:read", "roles:read", "projects:read", "projects:create",
   "tasks:read", "tasks:create", "tasks:update", "tasks:assign", "tasks:delete",
   "dashboard:read", "activity:read"}
ClientMember ==
  {"workspace:read", "members:read", "roles:read", "projects:read", "tasks:read",
   "tasks:create", "tasks:update", "tasks:assign", "tasks:delete", "dashboard:read",
   "activity:read"}
ClientAdmin ==
  ClientMember \cup {"workspace:update", "members:invite", "members:update",
                     "members:remove", "roles:manage", "modules:manage",
                     "projects:create", "projects:update", "projects:delete"}
ClientMap ==
  [owner   |-> ClientAdmin \cup {"ownership:transfer"}
               \cup COLLAB_FULL \cup PHASE_72_FULL \cup PHASE_73_FULL,
   admin   |-> ClientAdmin \cup COLLAB_FULL \cup PHASE_72_FULL \cup PHASE_73_FULL,
   manager |-> ClientMember \cup {"members:invite", "members:update", "projects:create",
                                  "projects:update"}
               \cup COLLAB_FULL \cup PHASE_72_FULL \cup PHASE_73_FULL,
   member  |-> ClientMember \cup COLLAB_MEMBER \cup PHASE_72_MEMBER \cup PHASE_73_MEMBER]

(* hasPermission(permissionsForRole(role), key) in the client. *)
Can(role, key) == role \in DOMAIN ClientMap /\ key \in ClientMap[role]

(* The migrations that touch permissions, in order: each adds its keys to   *)
(* the catalogue and attaches them to the roles that exist.                 *)
Phase2 ==
  [keys |-> {"modules:manage", "projects:read", "projects:create", "projects:update",
             "tasks:read", "tasks:create", "tasks:update"},
   kept |-> [manager |-> {"modules:manage"},
             member  |-> {"modules:manage", "projects:create", "projects:update"}]]
Phase4 ==
  [keys |-> {"tasks:delete", "dashboard:read", "activity:read", "projects:delete"},
   kept |-> [manager |-> {"projects:delete"}, member |-> {"projects:delete"}]]
Phase5 == [keys |-> {"tasks:assign"}, kept |-> [manager |-> {}, member |-> {}]]
Phase7 ==
  [keys |-> COLLAB_FULL,
   kept |-> [manager |-> {},
             member  |-> {"tag.delete", "custom_field.configure", "comment.moderate",
                          "attachment.manage"}]]
Phase72 ==
  [keys |-> PHASE_72_FULL,
   kept |-> [manager |-> {},
             member  |-> {"task_dependency.override", "time_log.view_all",
                          "time_log.manage_all"}]]
\* Mutant: the backfill withholds what new workspaces grant.
Phase73Narrow ==
  [keys |-> PHASE_73_FULL,
   kept |-> [manager |-> {"risk.configure", "sla.configure"},
             member  |-> {"risk.configure", "sla.configure", "sla.override",
                          "automation.manage", "automation.retry"}]]
Phase73 ==
  [keys |-> PHASE_73_FULL,
   kept |-> [manager |-> {},
             member  |-> {"risk.configure", "sla.configure", "sla.override",
                          "automation.manage", "automation.retry"}]]

Migrations == <<Phase2, Phase4, Phase5, Phase7, Phase72, Phase73>>
LastMigration == 6

(* The catalogue once the first n of them have run. *)
CatalogueAt(n) == PERMISSIONS \ UNION {Migrations[k].keys : k \in n + 1 .. LastMigration}

(* What a migration does to the role rows: "kept" is what it keeps from a role. *)
Backfill(grants, phase) ==
  [r \in SYSTEM_ROLE_KEYS |->
     grants[r] \cup (phase.keys \ (IF r \in DOMAIN phase.kept THEN phase.kept[r] ELSE {}))]
====
