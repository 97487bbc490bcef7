--------------------------- MODULE RequestsProofs ---------------------------
(***************************************************************************)
(* Proofs about the request handlers together: a behaviour of the whole is   *)
(* one of every component, so what each of them keeps is kept by all.  For    *)
(* any people, tasks, comments, jobs and any number of requests.              *)
(***************************************************************************)
EXTENDS MCRequests, TasksProofs, PeopleProofs, TaskListProofs

-----------------------------------------------------------------------------
(* The permissions of the roles.  A migration gives each role exactly those    *)
(* of its keys that the map of a new workspace grants, and no two of them       *)
(* have a key in common.                                                         *)

Withheld(k, r) == IF r \in DOMAIN Screens!Migrations[k].kept THEN Screens!Migrations[k].kept[r] ELSE {}
Keys(k) == Screens!Migrations[k].keys
Granted(r) == Screens!ROLE_PERMISSION_MAP[r]

LEMMA PhaseKeys ==
    /\ Keys(1) = Screens!Phase2.keys /\ Keys(2) = Screens!Phase4.keys /\ Keys(3) = Screens!Phase5.keys
    /\ Keys(4) = Screens!COLLAB_FULL /\ Keys(5) = Screens!PHASE_72_FULL /\ Keys(6) = Screens!PHASE_73_FULL
  BY DEF Keys, Screens!Migrations, Screens!Phase7, Screens!Phase72, Screens!Phase73

LEMMA KeysApart == \A j, k \in 1..6 : j # k => Keys(j) \cap Keys(k) = {}
  <1>1. \A x \in Keys(1) : x \notin Keys(2) /\ x \notin Keys(3) /\ x \notin Keys(4) /\ x \notin Keys(5) /\ x \notin Keys(6)
    BY PhaseKeys DEF Screens!Phase2, Screens!Phase4, Screens!Phase5, Screens!COLLAB_FULL, Screens!PHASE_72_FULL,
       Screens!PHASE_73_FULL
  <1>2. \A x \in Keys(2) : x \notin Keys(3) /\ x \notin Keys(4) /\ x \notin Keys(5) /\ x \notin Keys(6)
    BY PhaseKeys DEF Screens!Phase4, Screens!Phase5, Screens!COLLAB_FULL, Screens!PHASE_72_FULL, Screens!PHASE_73_FULL
  <1>3. \A x \in Keys(3) : x \notin Keys(4) /\ x \notin Keys(5) /\ x \notin Keys(6)
    BY PhaseKeys DEF Screens!Phase5, Screens!COLLAB_FULL, Screens!PHASE_72_FULL, Screens!PHASE_73_FULL
  <1>4. \A x \in Keys(4) : x \notin Keys(5) /\ x \notin Keys(6)
    BY PhaseKeys DEF Screens!COLLAB_FULL, Screens!PHASE_72_FULL, Screens!PHASE_73_FULL
  <1>5. \A x \in Keys(5) : x \notin Keys(6)
    BY PhaseKeys DEF Screens!PHASE_72_FULL, Screens!PHASE_73_FULL
  <1> QED
    BY <1>1, <1>2, <1>3, <1>4, <1>5

LEMMA KeysKnown == \A k \in 1..6 : Keys(k) \subseteq Screens!PERMISSIONS
  <1>1. Keys(1) \subseteq Screens!PERMISSIONS /\ Keys(2) \subseteq Screens!PERMISSIONS /\ Keys(3) \subseteq Screens!PERMISSIONS
    BY PhaseKeys DEF Screens!Phase2, Screens!Phase4, Screens!Phase5, Screens!PERMISSIONS
  <1>2. Keys(4) \subseteq Screens!PERMISSIONS /\ Keys(5) \subseteq Screens!PERMISSIONS /\ Keys(6) \subseteq Screens!PERMISSIONS
    BY PhaseKeys DEF Screens!PERMISSIONS
  <1> QED
    BY <1>1, <1>2

\* A migration withholds exactly what the map does not grant.
Faithful(k) == \A r \in RoleKeys : \A x \in Keys(k) : x \in Granted(r) <=> x \notin Withheld(k, r)

LEMMA OwnerGranted == \A k \in 1..6 : \A x \in Keys(k) : x \in Granted("owner") /\ x \notin Withheld(k, "owner")
  <1>1. \A k \in 1..6 : Withheld(k, "owner") = {}
    BY DEF Withheld, Screens!Migrations, Screens!Phase2, Screens!Phase4, Screens!Phase5, Screens!Phase7, Screens!Phase72,
       Screens!Phase73
  <1> QED
    BY <1>1, KeysKnown DEF Granted, Screens!ROLE_PERMISSION_MAP

LEMMA RolesGranted ==
    /\ Granted("admin") = Screens!AdminBase \cup Keys(4) \cup Keys(5) \cup Keys(6)
    /\ Granted("manager") = Screens!ManagerBase \cup Keys(4) \cup Keys(5) \cup Keys(6)
    /\ Granted("member") =
         Screens!MemberBase \cup Screens!COLLAB_MEMBER \cup Screens!PHASE_72_MEMBER \cup Screens!PHASE_73_MEMBER
  BY PhaseKeys DEF Granted, Screens!ROLE_PERMISSION_MAP

LEMMA RolesWithheld ==
    /\ \A k \in 1..6 : Withheld(k, "admin") = {}
    /\ \A k \in 1..6 : Withheld(k, "manager") =
         IF k = 1 THEN {"modules:manage"} ELSE IF k = 2 THEN {"projects:delete"} ELSE {}
    /\ Withheld(1, "member") = {"modules:manage", "projects:create", "projects:update"}
    /\ Withheld(2, "member") = {"projects:delete"}
    /\ Withheld(3, "member") = {}
    /\ Withheld(4, "member") = {"tag.delete", "custom_field.configure", "comment.moderate", "attachment.manage"}
    /\ Withheld(5, "member") = {"task_dependency.override", "time_log.view_all", "time_log.manage_all"}
    /\ Withheld(6, "member") =
         {"risk.configure", "sla.configure", "sla.override", "automation.manage", "automation.retry"}
  BY DEF Withheld, Screens!Migrations, Screens!Phase2, Screens!Phase4, Screens!Phase5, Screens!Phase7, Screens!Phase72,
     Screens!Phase73

LEMMA AdminGranted == \A k \in 1..6 : \A x \in Keys(k) : x \in Granted("admin") <=> x \notin Withheld(k, "admin")
  <1>1. Keys(1) \cup Keys(2) \cup Keys(3) \subseteq Screens!AdminBase
    BY PhaseKeys DEF Screens!Phase2, Screens!Phase4, Screens!Phase5, Screens!AdminBase, Screens!ManagerBase,
       Screens!MemberBase
  <1> QED
    BY <1>1, RolesGranted, RolesWithheld

\* The base of a manager or a member holds none of the keys that came after the base.
LEMMA BasesOld ==
    \A k \in 4..6 : \A x \in Keys(k) : x \notin Screens!ManagerBase /\ x \notin Screens!MemberBase
  BY PhaseKeys DEF Screens!ManagerBase, Screens!MemberBase, Screens!COLLAB_FULL, Screens!PHASE_72_FULL,
     Screens!PHASE_73_FULL

LEMMA ManagerGranted == \A k \in 1..6 : \A x \in Keys(k) : x \in Granted("manager") <=> x \notin Withheld(k, "manager")
  <1>1. \A x \in Keys(1) : x \in Screens!ManagerBase <=> x \notin {"modules:manage"}
    BY PhaseKeys DEF Screens!Phase2, Screens!ManagerBase, Screens!MemberBase
  <1>2. \A x \in Keys(2) : x \in Screens!ManagerBase <=> x \notin {"projects:delete"}
    BY PhaseKeys DEF Screens!Phase4, Screens!ManagerBase, Screens!MemberBase
  <1>3. Keys(3) \subseteq Screens!ManagerBase
    BY PhaseKeys DEF Screens!Phase5, Screens!ManagerBase, Screens!MemberBase
  <1> QED
    BY <1>1, <1>2, <1>3, RolesGranted, RolesWithheld, KeysApart

LEMMA MemberGranted == \A k \in 1..6 : \A x \in Keys(k) : x \in Granted("member") <=> x \notin Withheld(k, "member")
  <1>1. \A x \in Keys(1) : x \in Screens!MemberBase <=> x \notin Withheld(1, "member")
    BY PhaseKeys, RolesWithheld DEF Screens!Phase2, Screens!MemberBase
  <1>2. \A x \in Keys(2) : x \in Screens!MemberBase <=> x \notin Withheld(2, "member")
    BY PhaseKeys, RolesWithheld DEF Screens!Phase4, Screens!MemberBase
  <1>3. \A x \in Keys(3) : x \in Screens!MemberBase <=> x \notin Withheld(3, "member")
    BY PhaseKeys, RolesWithheld DEF Screens!Phase5, Screens!MemberBase
  <1>4. Screens!COLLAB_MEMBER = Keys(4) \ Withheld(4, "member")
    BY PhaseKeys, RolesWithheld DEF Screens!COLLAB_MEMBER
  <1>5. Screens!PHASE_72_MEMBER = Keys(5) \ Withheld(5, "member")
    BY PhaseKeys, RolesWithheld DEF Screens!PHASE_72_MEMBER
  <1>6. \A x \in Screens!PHASE_73_MEMBER : x \in Keys(6) /\ x \notin Withheld(6, "member")
    BY PhaseKeys, RolesWithheld DEF Screens!PHASE_73_MEMBER, Screens!PHASE_73_FULL
  <1>7. \A x \in Keys(6) : x \notin Withheld(6, "member") => x \in Screens!PHASE_73_MEMBER
    BY PhaseKeys, RolesWithheld DEF Screens!PHASE_73_MEMBER, Screens!PHASE_73_FULL
  <1> QED
    BY <1>1, <1>2, <1>3, <1>4, <1>5, <1>6, <1>7, RolesGranted, KeysApart, BasesOld

LEMMA BackfillsMap == \A k \in 1..6 : Faithful(k)
  BY OwnerGranted, AdminGranted, ManagerGranted, MemberGranted DEF Faithful, RoleKeys, Screens!SYSTEM_ROLE_KEYS

-----------------------------------------------------------------------------
(* What the rows of a workspace grant after its migrations *)

FollowsMap == grants = Screens!createWorkspaceRoles(Screens!CatalogueAt(applied))

\* A migration adds its keys to the catalogue, and to no other.
LEMMA CatalogueGrows ==
    \A n \in 0..5 : Screens!CatalogueAt(n + 1) = Screens!CatalogueAt(n) \cup Keys(n + 1)
  <1> TAKE n \in 0..5
  <1>1. n + 1 \in 1..6 /\ n + 1 .. 6 = {n + 1} \cup (n + 2 .. 6) /\ (n + 1) + 1 = n + 2
    OBVIOUS
  <1>2. \A m \in 0..6 : \A x : x \in Screens!CatalogueAt(m) <=>
          x \in Screens!PERMISSIONS /\ \A k \in m + 1 .. 6 : x \notin Keys(k)
    BY DEF Screens!CatalogueAt, Screens!LastMigration, Keys
  <1>3. \A k \in n + 2 .. 6 : k \in 1..6 /\ k # n + 1
    OBVIOUS
  <1>4. \A x \in Keys(n + 1) : x \in Screens!PERMISSIONS /\ \A k \in n + 2 .. 6 : x \notin Keys(k)
    BY <1>1, <1>3, KeysKnown, KeysApart
  <1>5. \A x : x \in Screens!CatalogueAt(n + 1) <=> x \in Screens!CatalogueAt(n) \/ x \in Keys(n + 1)
    BY <1>1, <1>2, <1>4
  <1> QED
    BY <1>5

LEMMA MigrationKeeps ==
    \A n \in 0..5 : Screens!Backfill(Screens!createWorkspaceRoles(Screens!CatalogueAt(n)), Screens!Migrations[n + 1])
                      = Screens!createWorkspaceRoles(Screens!CatalogueAt(n + 1))
  <1> TAKE n \in 0..5
  <1>1. n + 1 \in 1..6
    OBVIOUS
  <1>2. \A r \in RoleKeys :
          (Granted(r) \cap Screens!CatalogueAt(n)) \cup (Keys(n + 1) \ Withheld(n + 1, r))
            = Granted(r) \cap Screens!CatalogueAt(n + 1)
    BY <1>1, CatalogueGrows, BackfillsMap DEF Faithful
  <1>3. \A c : Screens!createWorkspaceRoles(c) = [r \in RoleKeys |-> Granted(r) \cap c]
    BY DEF Screens!createWorkspaceRoles, RoleKeys, Granted
  <1>4. \A g : Screens!Backfill(g, Screens!Migrations[n + 1]) =
               [r \in RoleKeys |-> g[r] \cup (Keys(n + 1) \ Withheld(n + 1, r))]
    BY DEF Screens!Backfill, RoleKeys, Keys, Withheld
  <1> QED
    BY <1>2, <1>3, <1>4

LEMMA GrantsInitial == ApiInit => FollowsMap
  BY DEF ApiInit, FollowsMap

LEMMA GrantsSteps == FollowsMap /\ applied \in 0..6 /\ [ApiNext]_apiVars => FollowsMap'
  <1> SUFFICES ASSUME FollowsMap, applied \in 0..6, [ApiNext]_apiVars PROVE FollowsMap'
    OBVIOUS
  <1>1. CASE Migrate
    <2>1. applied \in 0..5 /\ applied' = applied + 1 /\ grants' = Screens!Backfill(grants, Screens!Migrations[applied + 1])
      BY <1>1 DEF Migrate, Screens!LastMigration
    <2> QED
      BY <2>1, MigrationKeeps DEF FollowsMap
  <1>2. CASE Turn \/ LookAgain \/ Click \/ Program \/ Respond \/ Shown
    BY <1>2 DEF Turn, LookAgain, Click, Program, Respond, Shown, FollowsMap
  <1>3. CASE UNCHANGED apiVars
    BY <1>3 DEF apiVars, FollowsMap
  <1> QED
    BY <1>1, <1>2, <1>3 DEF ApiNext

\* The last exchange, and what the types of the member's views rest on.
ApiInv ==
    /\ ApiTypeOK /\ FollowsMap
    /\ exchange # NoCall =>
         exchange = [offer |-> exchange.offer, seen |-> exchange.seen, went |-> exchange.went, wrong |-> exchange.wrong]

LEMMA GrantsTyped == FollowsMap => /\ DOMAIN grants = RoleKeys
                                   /\ \A r \in RoleKeys : grants[r] \subseteq Screens!PERMISSIONS
  BY DEF FollowsMap, Screens!createWorkspaceRoles, Screens!CatalogueAt, RoleKeys

LEMMA ApiInitial == ApiInit => ApiInv
  <1> SUFFICES ASSUME ApiInit PROVE ApiInv
    OBVIOUS
  <1>1. truth \in Viewers(kind) /\ mind = truth /\ kind \in DOMAIN Facts
    BY DEF ApiInit, Viewers
  <1>2. exchange = NoCall /\ applied \in 0 .. Screens!LastMigration
    BY DEF ApiInit
  <1> QED
    BY <1>1, <1>2, GrantsInitial, GrantsTyped DEF ApiInv, ApiTypeOK

LEMMA ApiSteps == ApiInv /\ [ApiNext]_apiVars => ApiInv'
  <1> SUFFICES ASSUME ApiInv, [ApiNext]_apiVars PROVE ApiInv'
    OBVIOUS
  <1>0. FollowsMap' /\ (FollowsMap' => /\ DOMAIN grants' = RoleKeys
                                       /\ \A r \in RoleKeys : grants'[r] \subseteq Screens!PERMISSIONS)
    <2>1. FollowsMap'
      BY GrantsSteps DEF ApiInv, ApiTypeOK, Screens!LastMigration
    <2>2. DOMAIN grants' = RoleKeys /\ \A r \in RoleKeys : grants'[r] \subseteq Screens!PERMISSIONS
      BY <2>1 DEF FollowsMap, Screens!createWorkspaceRoles, Screens!CatalogueAt, RoleKeys
    <2> QED
      BY <2>1, <2>2
  <1>1. CASE Migrate
    <2>1. applied' \in 0 .. Screens!LastMigration
      <3>1. applied \in 0 .. Screens!LastMigration
        BY DEF ApiInv, ApiTypeOK
      <3>2. applied < Screens!LastMigration /\ applied' = applied + 1
        BY <1>1 DEF Migrate
      <3> QED
        BY <3>1, <3>2 DEF Screens!LastMigration
    <2>2. kind' = kind /\ truth' = truth /\ mind' = mind /\ exchange' = exchange
      BY <1>1 DEF Migrate
    <2> QED
      BY <1>0, <2>1, <2>2 DEF ApiInv, ApiTypeOK
  <1>2. CASE Turn
    <2>1. truth' \in Viewers(kind)
      <3>1. truth \in Viewers(kind)
        BY DEF ApiInv, ApiTypeOK
      <3>2. CASE \E r \in RoleKeys \cup {"removed"} : truth' = [truth EXCEPT !.role = r]
        BY <3>1, <3>2 DEF Viewers
      <3>3. CASE \E f \in Facts[kind] :
                   truth' = [truth EXCEPT !.holds = IF f \in @ THEN @ \ {f} ELSE @ \cup {f}]
        BY <3>1, <3>3 DEF Viewers
      <3> QED
        BY <1>2, <3>2, <3>3 DEF Turn
    <2>2. applied' = applied /\ kind' = kind /\ mind' = mind /\ exchange' = exchange
      BY <1>2 DEF Turn
    <2> QED
      BY <1>0, <2>1, <2>2 DEF ApiInv, ApiTypeOK
  <1>3. CASE LookAgain \/ Shown
    <2>1. applied' = applied /\ kind' = kind /\ truth' = truth /\ mind' \in {mind, truth} /\ exchange' = NoCall
      BY <1>3 DEF LookAgain, Shown
    <2> QED
      BY <1>0, <2>1 DEF ApiInv, ApiTypeOK
  <1>4. CASE Click \/ Program
    <2>1. PICK offer \in OffersTo[kind][mind] \cup {<<h, "documented">> : h \in DOMAIN Document!Operations} :
            exchange' = [offer |-> offer, seen |-> mind, went |-> "under way", wrong |-> {}]
      BY <1>4 DEF Click, Program
    <2>2. applied' = applied /\ kind' = kind /\ truth' = truth /\ mind' = mind
      BY <1>4 DEF Click, Program
    <2>3. exchange'.offer = offer /\ exchange'.seen = mind /\ exchange'.went = "under way" /\ exchange'.wrong = {}
      BY <2>1
    <2> QED
      BY <1>0, <2>1, <2>2, <2>3 DEF ApiInv, ApiTypeOK
  <1>5. CASE Respond
    <2>1. applied' = applied /\ kind' = kind /\ truth' = truth /\ mind' = mind
      BY <1>5 DEF Respond
    <2>2. exchange # NoCall
      <3>1. exchange.went = "under way"
        BY <1>5 DEF Respond
      <3>2. NoCall.went = "none"
        BY DEF NoCall
      <3> QED
        BY <3>1, <3>2
    <2>3. \E w : \/ exchange' = [exchange EXCEPT !.went = "answered", !.wrong = w]
                 \/ exchange' = [exchange EXCEPT !.went = "refused"]
      BY <1>5 DEF Respond
    <2>4. PICK went \in {"answered", "refused"} : \E wrong :
            exchange' = [offer |-> exchange.offer, seen |-> exchange.seen, went |-> went, wrong |-> wrong]
      BY <2>2, <2>3 DEF ApiInv
    <2>40. PICK wrong :
            exchange' = [offer |-> exchange.offer, seen |-> exchange.seen, went |-> went, wrong |-> wrong]
      BY <2>4
    <2>5. exchange'.offer = exchange.offer /\ exchange'.seen = exchange.seen /\ exchange'.went = went /\ exchange'.wrong = wrong
      BY <2>40
    <2> QED
      BY <1>0, <2>1, <2>2, <2>4, <2>40, <2>5 DEF ApiInv, ApiTypeOK
  <1>6. CASE UNCHANGED apiVars
    BY <1>0, <1>6 DEF apiVars, ApiInv, ApiTypeOK
  <1> QED
    BY <1>1, <1>2, <1>3, <1>4, <1>5, <1>6 DEF ApiNext

LEMMA ApiInvariant == ApiSpec => []ApiInv
  <1>1. ApiInit => ApiInv
    BY ApiInitial
  <1>2. ApiInv /\ [ApiNext]_apiVars => ApiInv'
    BY ApiSteps
  <1> QED
    BY <1>1, <1>2, PTL DEF ApiSpec

\* The client's copy of the map (frontend permissions.ts) is the server's.
LEMMA CopiesAgree == Screens!ClientMap = Screens!ROLE_PERMISSION_MAP
  <1>1. \A x : x \in Screens!ClientAdmin <=> x \in Screens!AdminBase
    BY DEF Screens!ClientAdmin, Screens!ClientMember, Screens!AdminBase, Screens!ManagerBase, Screens!MemberBase
  <1>2. \A x : x \in Screens!ClientMember <=> x \in Screens!MemberBase
    BY DEF Screens!ClientMember, Screens!MemberBase
  <1>3. \A x : x \in Screens!ManagerBase <=>
          x \in Screens!ClientMember \cup {"members:invite", "members:update", "projects:create", "projects:update"}
    BY <1>2 DEF Screens!ManagerBase
  <1>4. \A x : x \in Screens!ClientAdmin \cup {"ownership:transfer"} \cup Screens!COLLAB_FULL
                    \cup Screens!PHASE_72_FULL \cup Screens!PHASE_73_FULL
               <=> x \in Screens!PERMISSIONS
    <2>1. \A x : x \in Screens!ClientAdmin \/ x = "ownership:transfer" <=>
            x \in {"workspace:read", "workspace:update", "members:read", "members:invite", "members:update",
                   "members:remove", "ownership:transfer", "roles:read", "roles:manage", "modules:manage",
                   "projects:read", "projects:create", "projects:update", "tasks:read", "tasks:create",
                   "tasks:update", "tasks:delete", "tasks:assign", "dashboard:read", "activity:read",
                   "projects:delete"}
      BY DEF Screens!ClientAdmin, Screens!ClientMember
    <2> QED
      BY <2>1 DEF Screens!PERMISSIONS
  <1>5. Screens!ClientAdmin = Screens!AdminBase /\ Screens!ClientMember = Screens!MemberBase
    BY <1>1, <1>2
  <1>6. /\ Screens!ManagerBase =
             Screens!ClientMember \cup {"members:invite", "members:update", "projects:create", "projects:update"}
        /\ Screens!ClientAdmin \cup {"ownership:transfer"} \cup Screens!COLLAB_FULL
                    \cup Screens!PHASE_72_FULL \cup Screens!PHASE_73_FULL = Screens!PERMISSIONS
    BY <1>3, <1>4
  <1> QED
    BY <1>5, <1>6 DEF Screens!ClientMap, Screens!ROLE_PERMISSION_MAP

\* A workspace of any age has, once the migrations have run, the permissions the
\* client shows its members: whichever catalogue its role rows were created from
\* (createWorkspaceRoles), the backfills of the later migrations bring them to the
\* client's map.
THEOREM RowsReachClientMap == ApiSpec => [](Up => \A r \in RoleKeys : grants[r] = Screens!ClientMap[r])
  <1>1. Screens!CatalogueAt(6) = Screens!PERMISSIONS
    BY DEF Screens!CatalogueAt, Screens!LastMigration
  <1>2. \A r \in RoleKeys : Granted(r) \subseteq Screens!PERMISSIONS
    <2>1. Screens!MemberBase \subseteq Screens!PERMISSIONS
      BY DEF Screens!MemberBase, Screens!PERMISSIONS
    <2>2. Screens!ManagerBase \subseteq Screens!PERMISSIONS
      BY <2>1 DEF Screens!ManagerBase, Screens!PERMISSIONS
    <2>3. Screens!AdminBase \subseteq Screens!PERMISSIONS
      BY <2>2 DEF Screens!AdminBase, Screens!PERMISSIONS
    <2>4. /\ Screens!COLLAB_MEMBER \subseteq Screens!PERMISSIONS
          /\ Screens!PHASE_72_MEMBER \subseteq Screens!PERMISSIONS
      BY DEF Screens!COLLAB_MEMBER, Screens!PHASE_72_MEMBER, Screens!PERMISSIONS
    <2>5. Screens!PHASE_73_MEMBER \subseteq Screens!PERMISSIONS
      BY DEF Screens!PHASE_73_MEMBER, Screens!PHASE_73_FULL, Screens!PERMISSIONS
    <2>6. Keys(4) \cup Keys(5) \cup Keys(6) \subseteq Screens!PERMISSIONS
      BY KeysKnown
    <2>7. Granted("owner") = Screens!PERMISSIONS
      BY DEF Granted, Screens!ROLE_PERMISSION_MAP
    <2> QED
      BY <2>1, <2>2, <2>3, <2>4, <2>5, <2>6, <2>7, RolesGranted DEF RoleKeys, Screens!SYSTEM_ROLE_KEYS
  <1>3. ApiInv => (Up => \A r \in RoleKeys : grants[r] = Screens!ClientMap[r])
    BY <1>1, <1>2, CopiesAgree
    DEF ApiInv, FollowsMap, Up, Screens!LastMigration, Screens!createWorkspaceRoles, Granted, RoleKeys
  <1> QED
    BY <1>3, ApiInvariant, PTL

-----------------------------------------------------------------------------
(* A behaviour of the whole is one of every component *)

LEMMA FollowsTasks == RequestsSpec => Spec
  <1>1. RequestsInit => Init
    BY DEF RequestsInit
  <1>2. [RequestsNext]_RequestsVars => [Next]_vars
    BY DEF RequestsNext, RequestsVars, taskVars
  <1> QED
    BY <1>1, <1>2, PTL DEF RequestsSpec, Spec

LEMMA FollowsAuth == RequestsSpec => AuthSpec
  <1>1. RequestsInit => AuthInit
    BY DEF RequestsInit
  <1>2. [RequestsNext]_RequestsVars => [AuthNext]_authVars
    BY DEF RequestsNext, RequestsVars
  <1> QED
    BY <1>1, <1>2, PTL DEF RequestsSpec, AuthSpec

LEMMA FollowsMember == RequestsSpec => MemberSpec
  <1>1. RequestsInit => MemberInit
    BY DEF RequestsInit
  <1>2. [RequestsNext]_RequestsVars => [MemberNext]_memberVars
    BY DEF RequestsNext, RequestsVars
  <1> QED
    BY <1>1, <1>2, PTL DEF RequestsSpec, MemberSpec

LEMMA FollowsAccess == RequestsSpec => AccessSpec
  <1>1. RequestsInit => AccessInit
    BY DEF RequestsInit
  <1>2. [RequestsNext]_RequestsVars => [AccessNext]_accessVars
    BY DEF RequestsNext, RequestsVars
  <1> QED
    BY <1>1, <1>2, PTL DEF RequestsSpec, AccessSpec

LEMMA FollowsComment == RequestsSpec => CommentSpec
  <1>1. RequestsInit => CommentInit
    BY DEF RequestsInit
  <1>2. [RequestsNext]_RequestsVars => [CommentNext]_commentVars
    BY DEF RequestsNext, RequestsVars
  <1> QED
    BY <1>1, <1>2, PTL DEF RequestsSpec, CommentSpec

LEMMA FollowsBrowser == RequestsSpec => BrowserSpec
  <1>1. RequestsInit => BrowserInit
    BY DEF RequestsInit
  <1>2. [RequestsNext]_RequestsVars => [BrowserNext]_browserVars
    BY DEF RequestsNext, RequestsVars
  <1> QED
    BY <1>1, <1>2, PTL DEF RequestsSpec, BrowserSpec

LEMMA FollowsApi == RequestsSpec => ApiSpec
  <1>1. RequestsInit => ApiInit
    BY DEF RequestsInit
  <1>2. [RequestsNext]_RequestsVars => [ApiNext]_apiVars
    BY DEF RequestsNext, RequestsVars
  <1> QED
    BY <1>1, <1>2, PTL DEF RequestsSpec, ApiSpec

LEMMA FollowsPage == RequestsSpec => PageSpec
  <1>1. RequestsInit => PageInit
    BY DEF RequestsInit
  <1>2. [RequestsNext]_RequestsVars => [PageNext]_pageVars
    BY DEF RequestsNext, RequestsVars
  <1> QED
    BY <1>1, <1>2, PTL DEF RequestsSpec, PageSpec

\* Whatever is asked, the rows, tokens, lists, screens and pages of every
\* component stay of their types.
THEOREM RequestsTyped == ASSUME IsFiniteSet(People) PROVE RequestsSpec => []TypesOK
  <1>1. MemberInv => MemberTypeOK
    BY DEF MemberInv
  <1>2. AccessInit => AccessInv
    BY AccessInitial
  <1>3. AccessInv /\ [AccessNext]_accessVars => AccessInv'
    BY AccessSteps
  <1>4. AccessInv => AccessTypeOK
    BY DEF AccessInv
  <1>5. AccessSpec => []AccessTypeOK
    BY <1>2, <1>3, <1>4, PTL DEF AccessSpec
  <1>6. ApiInv => ApiTypeOK
    BY DEF ApiInv
  <1>7. /\ TypeOK /\ AuthTypeOK /\ MemberTypeOK /\ AccessTypeOK /\ CommentTypeOK
        /\ BrowserTypeOK /\ ApiTypeOK /\ PageTypeOK
        => TypesOK
    BY DEF TypesOK
  <1> QED
    BY <1>1, <1>5, <1>6, <1>7, FollowsTasks, FollowsAuth, FollowsMember, FollowsAccess, FollowsComment, FollowsBrowser,
       FollowsApi, FollowsPage, TasksTyped, AuthTypes, MemberInvariant, CommentsTyped, BrowserTyped, ApiInvariant,
       PageIsTyped, PTL

\* What each component promises, all of them keep at once: versions, the graph of
\* dependencies, token families, guesses, owners, invitations, readers, comments,
\* sessions, pages, and the permissions of the roles.
THEOREM RequestsKeepPromises ==
    ASSUME IsFiniteSet(People)
    PROVE  RequestsSpec =>
             [](/\ VersionsProtect /\ AcyclicUnlessRaced /\ FamiliesSound /\ GuessesBounded
                /\ OwnersHold /\ InvitationTellsTruth /\ ReadersAgree /\ ScreenAgrees
                /\ SessionKept /\ PageTellsTruth
                /\ Up => \A r \in RoleKeys : grants[r] = Screens!ClientMap[r])
  BY FollowsTasks, FollowsAuth, FollowsMember, FollowsAccess, FollowsComment, FollowsBrowser, FollowsApi, FollowsPage,
     Versions, StaysAcyclic, Families, Guesses, TheOwnerRemains, InvitationsTell, ReadersStayAgreed, ScreenStaysTrue,
     BrowserStaysSignedIn, PageIsTrue, RowsReachClientMap, PTL
=============================================================================
