--------------------------- MODULE ProjectMembers ---------------------------
(* The members of a project, their roles, and the manager its row names.  Every *)
(* request that changes a role is followed by syncManagerId, two statements of   *)
(* their own, without a transaction.                                             *)
EXTENDS Handling

CONSTANTS Crew,      \* active members of the workspace
          NoManager, \* managerId is null
          MaxDuties  \* requests about members (bound)

ASSUME CrewAssumption == NoManager \notin Crew /\ MaxDuties \in Nat

VARIABLES role,     \* project_members: each person's role, or "none"
          lead,     \* projects.managerId
          founder,  \* projects.createdById
          duty,     \* where each handler stands
          adrift,   \* managerId may not follow the roles (history)
          headless  \* an unchecked step took the last manager (history)

crewVars == <<role, lead, founder, duty, adrift, headless>>

\* A viewer manages as little as a member does.
ProjectRoles == {"owner", "manager", "member"}
DutyRest == [pc |-> "idle", u |-> NoManager, to |-> "none", best |-> NoManager, fresh |-> FALSE]

\* fresh: no role changed since this handler read them.
CrewTypeOK ==
    /\ role \in [Crew -> ProjectRoles \cup {"none"}]
    /\ lead \in Crew \cup {NoManager} /\ founder \in Crew \cup {NoManager}
    /\ duty \in [Handlers -> [pc : {"idle", "role", "remove", "sync", "save"}, u : Crew \cup {NoManager},
                              to : ProjectRoles \cup {"none"}, best : Crew \cup {NoManager}, fresh : BOOLEAN]]
    /\ adrift \in BOOLEAN /\ headless \in BOOLEAN

With(roles, r) == {u \in Crew : roles[u] = r}
Managing(roles) == With(roles, "owner") \cup With(roles, "manager")

\* Whom syncManagerId may name: the first manager of an unordered list, else the
\* first owner.
Best(roles) == IF With(roles, "manager") # {} THEN With(roles, "manager")
               ELSE IF With(roles, "owner") # {} THEN With(roles, "owner") ELSE {NoManager}

\* createProject and the clone of a template: the creator is an owner, the others
\* as the request or the template says, the manager any of them or nobody.
CrewInit ==
    /\ founder \in Crew
    /\ role \in [Crew -> ProjectRoles \cup {"none"}] /\ role[founder] = "owner"
    /\ lead \in {u \in Crew : role[u] # "none"} \cup {NoManager}
    /\ duty = [p \in Handlers |-> DutyRest]
    /\ adrift = (lead \notin Best(role)) /\ headless = FALSE

DutyAt(p, pc) == duty[p].pc = pc
DutyBegins(p) == DutyAt(p, "idle") /\ served < MaxDuties /\ Starts /\ UNCHANGED now
DutyGoes == UNCHANGED <<now, served>>

\* The roles become new, and p stands at pc; checked: it looked for the last manager.
Assign(p, new, pc, checked) ==
    /\ role' = new
    /\ duty' = [q \in Handlers |-> IF q = p THEN [DutyRest EXCEPT !.pc = pc]
                                   ELSE [duty[q] EXCEPT !.fresh = @ /\ new = role]]
    /\ headless' = (headless \/ (~checked /\ Managing(role) # {} /\ Managing(new) = {}))
    /\ UNCHANGED <<lead, founder>>

-----------------------------------------------------------------------------

\* addMember: an upsert, so it also changes the role of somebody who is a member.
AddMember(p) == \E u \in Crew, r \in ProjectRoles :
    /\ DutyBegins(p)
    /\ Assign(p, [role EXCEPT ![u] = r], "sync", FALSE)
    /\ UNCHANGED adrift

UpdateMemberRole(p) == \E u \in Crew, r \in ProjectRoles :
    /\ DutyBegins(p)
    /\ role[u] # "none"
    /\ ~(role[u] = "manager" /\ r # "manager" /\ Managing(role) = {u})
    /\ duty' = [duty EXCEPT ![p] = [DutyRest EXCEPT !.pc = "role", !.u = u, !.to = r, !.fresh = TRUE]]
    /\ UNCHANGED <<role, lead, founder, adrift, headless>>

\* Mutant: the last manager can be removed.
RemoveMemberUnchecked(p) == \E u \in Crew :
    /\ DutyBegins(p)
    /\ role[u] \notin {"none", "owner"}
    /\ duty' = [duty EXCEPT ![p] = [DutyRest EXCEPT !.pc = "remove", !.u = u, !.fresh = TRUE]]
    /\ UNCHANGED <<role, lead, founder, adrift, headless>>

RemoveMember(p) == \E u \in Crew :
    /\ DutyBegins(p)
    /\ role[u] \notin {"none", "owner"}
    /\ ~(role[u] = "manager" /\ Managing(role) = {u})
    /\ duty' = [duty EXCEPT ![p] = [DutyRest EXCEPT !.pc = "remove", !.u = u, !.fresh = TRUE]]
    /\ UNCHANGED <<role, lead, founder, adrift, headless>>

\* The row is addressed by project and person, whatever its role is by now; a
\* change is not looked at when it lowers an owner.
MemberWrite(p) ==
    LET u == duty[p].u IN
    /\ DutyAt(p, "role") \/ DutyAt(p, "remove")
    /\ IF role[u] = "none"
       THEN duty' = [duty EXCEPT ![p] = DutyRest] /\ UNCHANGED <<role, lead, founder, headless>>
       ELSE Assign(p, [role EXCEPT ![u] = duty[p].to], "sync", duty[p].fresh /\ role[u] # "owner")
    /\ DutyGoes /\ UNCHANGED adrift

\* Without an owner in the request the creator becomes one.
ReplaceMembers(p) == \E asked \in [Crew -> ProjectRoles \cup {"none"}] :
    /\ DutyBegins(p)
    /\ Assign(p, IF With(asked, "owner") # {} THEN asked ELSE [asked EXCEPT ![founder] = "owner"], "sync", TRUE)
    /\ UNCHANGED adrift

\* To PRIVATE; this path does not sync.
UpdateVisibility(p) ==
    /\ DutyBegins(p)
    /\ Assign(p, [role EXCEPT ![founder] = "owner"], "idle", TRUE)
    /\ adrift' = (adrift \/ role' # role)

\* updateProject with a manager: the row takes anybody, and is then synced.
NameManager(p) == \E u \in Crew \cup {NoManager} :
    /\ DutyBegins(p)
    /\ lead' = u
    /\ duty' = [duty EXCEPT ![p] = [DutyRest EXCEPT !.pc = "sync"]]
    /\ UNCHANGED <<role, founder, adrift, headless>>

-----------------------------------------------------------------------------
(* syncManagerId *)

SyncRead(p) == \E u \in Best(role) :
    /\ DutyAt(p, "sync")
    /\ duty' = [duty EXCEPT ![p] = [DutyRest EXCEPT !.pc = "save", !.best = u, !.fresh = TRUE]]
    /\ DutyGoes /\ UNCHANGED <<role, lead, founder, adrift, headless>>

\* An undisturbed sync sets right what others left behind.
SyncWrite(p) ==
    /\ DutyAt(p, "save")
    /\ lead' = duty[p].best
    /\ adrift' = ~duty[p].fresh
    /\ duty' = [duty EXCEPT ![p] = DutyRest]
    /\ DutyGoes /\ UNCHANGED <<role, founder, headless>>

\* The process dies, or a statement fails.
DutyCrash(p) ==
    /\ ~DutyAt(p, "idle")
    /\ adrift' = (adrift \/ DutyAt(p, "sync") \/ DutyAt(p, "save"))
    /\ duty' = [duty EXCEPT ![p] = DutyRest]
    /\ DutyGoes /\ UNCHANGED <<role, lead, founder, headless>>

CrewNext == \E p \in Handlers :
    \/ AddMember(p) \/ UpdateMemberRole(p) \/ RemoveMember(p) \/ MemberWrite(p) \/ ReplaceMembers(p)
    \/ UpdateVisibility(p) \/ NameManager(p) \/ SyncRead(p) \/ SyncWrite(p) \/ DutyCrash(p)

CrewSpec == HandlingInit /\ CrewInit /\ [][CrewNext]_<<crewVars, now, served>>

-----------------------------------------------------------------------------

\* Once every request has been answered the row of the project names one of its
\* managers, or of its owners when it has none, whatever roles were changed at
\* once and whoever was named in between; unless a sync was disturbed or died, or
\* a change of visibility made the creator an owner, and none has followed.
ManagerFollows == (\A p \in Handlers : DutyAt(p, "idle")) /\ ~adrift => lead \in Best(role)

\* No request takes the last owner or manager away ("Cannot remove the last
\* project manager"), except through the ways that do not look: adding a member
\* anew with a lower role, lowering an owner, or deciding on roles that have
\* changed since they were read.
SomebodyManages == headless \/ Managing(role) # {}

ProjectIsLed == ManagerFollows /\ SomebodyManages
=============================================================================
