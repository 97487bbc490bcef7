----------------------------- MODULE Membership -----------------------------
(* One workspace: its type and owner, its members and their roles, and the    *)
(* invitations by which people enter it.  Role changes, removals and transfers *)
(* take the workspace's advisory lock; acceptance, revocation, invitation and  *)
(* the conversion of the workspace do not.                                     *)
EXTENDS Naturals, FiniteSets

CONSTANTS People,       \* users of the service
          Nobody,       \* no user
          Requesters,   \* request handlers, each serves one request at a time
          MaxInvitations,  \* bound: rows of "workspace_invitations" created
          MaxHandled   \* bound: requests handled

ASSUME MembershipAssumption == /\ Nobody \notin People
                               /\ MaxInvitations \in Nat \ {0} /\ MaxHandled \in Nat

\* Rows are numbered as they are created.
Invitations == 1..MaxInvitations

VARIABLES ws,       \* the row of "workspaces"
          member,   \* rows of "workspace_members"
          inv,      \* rows of "workspace_invitations"
          handler,      \* where each handler stands and what it has read
          lock,     \* handlers whose transaction holds the advisory lock
          handled,   \* requests begun so far
          admitted, \* invitations by which somebody entered (history)
          settled,  \* invitations two requests have settled, each its way (history)
          staleTransfer,  \* somebody who was no longer the owner gave ownership away (history)
          overwritten     \* an acceptance wrote over a membership that was active again (history)

memberVars == <<ws, member, inv, handler, lock, handled, admitted, settled, staleTransfer, overwritten>>

-----------------------------------------------------------------------------

Roles == {"owner", "admin", "manager", "member"}
Invitable == Roles \ {"owner"}

\* May != {} is the rolePermissions of the role.
May(role) == CASE role = "owner" -> {"update", "invite", "role", "remove", "transfer"}
               [] role = "admin" -> {"update", "invite", "role", "remove"}
               [] role = "manager" -> {"invite", "role"}
               [] role = "member" -> {}

\* A removed member keeps the row.
MemberType == [row : BOOLEAN, active : BOOLEAN, role : Roles]
InvType == [state : {"none", "PENDING", "ACCEPTED", "REVOKED", "EXPIRED"}, late : BOOLEAN,
            user : People \cup {Nobody}, role : Invitable]

NoMember == [row |-> FALSE, active |-> FALSE, role |-> "member"]
NoInv == [state |-> "none", late |-> FALSE, user |-> Nobody, role |-> "member"]

\* a is the actor with the role tenantContext read; u, role and i what is asked
\* for; seen the membership an acceptance has read.
HandlerType == [pc : {"idle", "inviteRevoke", "inviteCreate", "expire", "accept", "revoke", "type",
                  "role", "roleWrite", "remove", "removeWrite", "transfer", "transferWrite"},
            a : People \cup {Nobody}, aRole : Roles, u : People \cup {Nobody}, role : Invitable, i : Invitations,
            seen : MemberType]
IdleHandler == [pc |-> "idle", a |-> Nobody, aRole |-> "member", u |-> Nobody, role |-> "member",
            i |-> 1, seen |-> NoMember]

MemberTypeOK == /\ ws \in [type : {"NONE", "PERSONAL", "ORGANIZATION"}, owner : People \cup {Nobody}]
                /\ member \in [People -> MemberType]
                /\ inv \in [Invitations -> InvType]
                /\ handler \in [Requesters -> HandlerType]
                /\ lock = {p \in Requesters : handler[p].pc \in {"roleWrite", "removeWrite", "transferWrite"}}
                /\ \A p, q \in lock : p = q
                /\ handled \in 0..MaxHandled
                /\ admitted \subseteq Invitations /\ settled \subseteq Invitations
                /\ staleTransfer \in BOOLEAN /\ overwritten \in BOOLEAN

MemberInit == /\ ws = [type |-> "NONE", owner |-> Nobody]
              /\ member = [u \in People |-> NoMember]
              /\ inv = [i \in Invitations |-> NoInv]
              /\ handler = [p \in Requesters |-> IdleHandler]
              /\ lock = {}
              /\ handled = 0
              /\ admitted = {} /\ settled = {}
              /\ staleTransfer = FALSE /\ overwritten = FALSE

-----------------------------------------------------------------------------

Active == {u \in People : member[u].active}
Owners == {u \in Active : member[u].role = "owner"}

Stands(p, pc) == handler[p].pc = pc
Reply(p) == handler' = [handler EXCEPT ![p] = IdleHandler]
Proceed(p, pc) == handler' = [handler EXCEPT ![p].pc = pc]

\* A request is admitted and its first reads succeed.
Serve(p, asked) == /\ Stands(p, "idle")
                   /\ handled < MaxHandled
                   /\ handled' = handled + 1
                   /\ handler' = [handler EXCEPT ![p] = asked]
                   /\ UNCHANGED <<ws, member, inv, lock, admitted, settled, staleTransfer, overwritten>>

\* tenantContext and requirePermission; the role stays in the request.
Permitted(a, what) == a \in Active /\ what \in May(member[a].role)
By(a, pc) == [IdleHandler EXCEPT !.pc = pc, !.a = a, !.aRole = member[a].role]

\* Mutant: the shared form of the lock.
TakeShared(p, pc) == lock' = lock \cup {p} /\ Proceed(p, pc)
\* The first transaction statement takes the lock, all others wait for it.
TakeLock(p, pc) == /\ lock = {}
                   /\ lock' = {p}
                   /\ Proceed(p, pc)
Unlock(p) == lock' = lock \ {p} /\ Reply(p)

-----------------------------------------------------------------------------
(* The workspace *)

CreateWorkspace == \E u \in People, type \in {"PERSONAL", "ORGANIZATION"} :
    /\ ws.type = "NONE"
    /\ ws' = [type |-> type, owner |-> u]
    /\ member' = [member EXCEPT ![u] = [row |-> TRUE, active |-> TRUE, role |-> "owner"]]
    /\ UNCHANGED <<inv, handler, lock, handled, admitted, settled, staleTransfer, overwritten>>

\* updateWorkspace counts the members and then writes, without the lock.
Convert(p) == \E a \in People :
    /\ Permitted(a, "update")
    /\ Cardinality(Active) = 1
    /\ Serve(p, By(a, "type"))

ConvertWrite(p) ==
    /\ Stands(p, "type")
    /\ ws' = [ws EXCEPT !.type = IF @ = "PERSONAL" THEN "ORGANIZATION" ELSE "PERSONAL"]
    /\ Reply(p)
    /\ UNCHANGED <<member, inv, lock, handled, admitted, settled, staleTransfer, overwritten>>

-----------------------------------------------------------------------------
(* Invitations *)

Invite(p) == \E a, u \in People, role \in Invitable :
    /\ Permitted(a, "invite")
    /\ ws.type = "ORGANIZATION"
    /\ member[a].role = "manager" => role = "member"
    /\ role = "admin" => member[a].role = "owner"
    /\ u \notin Active
    /\ Serve(p, [By(a, "inviteRevoke") EXCEPT !.u = u, !.role = role])

InviteRevoke(p) ==
    /\ Stands(p, "inviteRevoke")
    /\ inv' = [i \in Invitations |-> IF inv[i].user = handler[p].u /\ inv[i].state = "PENDING"
                                     THEN [inv[i] EXCEPT !.state = "REVOKED"] ELSE inv[i]]
    /\ Proceed(p, "inviteCreate")
    /\ UNCHANGED <<ws, member, lock, handled, admitted, settled, staleTransfer, overwritten>>

InviteCreate(p) == \E i \in Invitations :
    /\ Stands(p, "inviteCreate")
    /\ inv[i].state = "none" /\ \A n \in Invitations : n < i => inv[n].state # "none"
    /\ inv' = [inv EXCEPT ![i] = [state |-> "PENDING", late |-> FALSE,
                                  user |-> handler[p].u, role |-> handler[p].role]]
    /\ Reply(p)
    /\ UNCHANGED <<ws, member, lock, handled, admitted, settled, staleTransfer, overwritten>>

\* expiresAt passes.
Lapse == \E i \in Invitations :
    /\ inv[i].state = "PENDING" /\ ~inv[i].late
    /\ inv' = [inv EXCEPT ![i].late = TRUE]
    /\ UNCHANGED <<ws, member, handler, lock, handled, admitted, settled, staleTransfer, overwritten>>

\* getInvitationByToken and revokeInvitation update by id what they read as PENDING.
ViewLapsed(p) == \E i \in Invitations :
    /\ inv[i].state = "PENDING" /\ inv[i].late
    /\ Serve(p, [IdleHandler EXCEPT !.pc = "expire", !.i = i])

RevokeInvitation(p) == \E a \in People, i \in Invitations :
    /\ Permitted(a, "invite")
    /\ inv[i].state = "PENDING"
    /\ Serve(p, [By(a, "revoke") EXCEPT !.i = i])

Settle(p, state) ==
    /\ inv' = [inv EXCEPT ![handler[p].i].state = state]
    /\ settled' = IF inv[handler[p].i].state = "PENDING" THEN settled ELSE settled \cup {handler[p].i}

ExpireWrite(p) == /\ Stands(p, "expire")
                  /\ Settle(p, "EXPIRED")
                  /\ Reply(p)
                  /\ UNCHANGED <<ws, member, lock, handled, admitted, staleTransfer, overwritten>>

RevokeWrite(p) == /\ Stands(p, "revoke")
                  /\ Settle(p, "REVOKED")
                  /\ Reply(p)
                  /\ UNCHANGED <<ws, member, lock, handled, admitted, staleTransfer, overwritten>>

\* The reads of the accepting transaction.  An acceptance that comes too late
\* writes EXPIRED and throws, which rolls that back.
Accept(p) == \E i \in Invitations : LET u == inv[i].user IN
    /\ inv[i].state = "PENDING" /\ ~inv[i].late
    /\ ws.type = "ORGANIZATION"
    /\ ~member[u].active
    /\ Serve(p, [IdleHandler EXCEPT !.pc = "accept", !.i = i, !.u = u, !.seen = member[u]])

\* Mutant: the invitation stays PENDING.
AcceptWriteOpen(p) == LET i == handler[p].i  u == handler[p].u IN
    /\ Stands(p, "accept")
    /\ member' = [member EXCEPT ![u] = [row |-> TRUE, active |-> TRUE, role |-> inv[i].role]]
    /\ admitted' = admitted \cup {i}
    /\ Reply(p)
    /\ UNCHANGED <<ws, inv, settled, lock, handled, staleTransfer, overwritten>>

\* Its writes.  A second new row for one person violates the unique index; an
\* existing row is updated by id, whatever has become of it.
AcceptWrite(p) == LET i == handler[p].i  u == handler[p].u IN
    /\ Stands(p, "accept")
    /\ IF ~handler[p].seen.row /\ member[u].row
       THEN UNCHANGED <<member, inv, admitted, settled, overwritten>>
       ELSE /\ member' = [member EXCEPT ![u] = [row |-> TRUE, active |-> TRUE, role |-> inv[i].role]]
            /\ Settle(p, "ACCEPTED")
            /\ admitted' = admitted \cup {i}
            /\ overwritten' = (overwritten \/ member[u].active)
    /\ Reply(p)
    /\ UNCHANGED <<ws, lock, handled, staleTransfer>>

-----------------------------------------------------------------------------
(* Roles, removal, transfer: under the workspace lock *)

ModifyMember(p) == \E a, u \in People, pc \in {"role", "remove"}, role \in Invitable :
    /\ Permitted(a, pc)
    /\ Serve(p, [By(a, pc) EXCEPT !.u = u, !.role = role])

\* assertCanModifyMember, with the role the actor had when the request came in.
CanModify(p, changesRole) == LET r == handler[p]  target == member[r.u].role IN
    /\ target = "owner" => r.aRole = "owner"
    /\ changesRole => /\ r.role = "admin" => r.aRole = "owner"
                      /\ r.aRole = "manager" => r.role = "member"
                      /\ r.u = r.a /\ r.role # target => r.aRole = "owner"

\* Mutant: called without the next role, as removeMember might do.
NotLastOwnerUnchecked(u) == TRUE
\* assertNotLastOwner.  A removal passes "member" as the next role.
NotLastOwner(u) == member[u].role = "owner" => Cardinality(Owners) > 1

CheckModify(p) ==
    /\ Stands(p, "role") \/ Stands(p, "remove")
    /\ IF /\ member[handler[p].u].active
          /\ CanModify(p, Stands(p, "role"))
          /\ NotLastOwner(handler[p].u)
       THEN TakeLock(p, IF Stands(p, "role") THEN "roleWrite" ELSE "removeWrite")
       ELSE lock = {} /\ Reply(p) /\ UNCHANGED lock
    /\ UNCHANGED <<ws, member, inv, handled, admitted, settled, staleTransfer, overwritten>>

RoleWrite(p) == /\ Stands(p, "roleWrite")
                /\ member' = [member EXCEPT ![handler[p].u].role = handler[p].role]
                /\ Unlock(p)
                /\ UNCHANGED <<ws, inv, handled, admitted, settled, staleTransfer, overwritten>>

RemoveWrite(p) == /\ Stands(p, "removeWrite")
                  /\ member' = [member EXCEPT ![handler[p].u].active = FALSE]
                  /\ Unlock(p)
                  /\ UNCHANGED <<ws, inv, handled, admitted, settled, staleTransfer, overwritten>>

TransferOwnership(p) == \E a, u \in People :
    /\ Permitted(a, "transfer")
    /\ u # a
    /\ Serve(p, [By(a, "transfer") EXCEPT !.u = u])

CheckTransfer(p) == /\ Stands(p, "transfer")
                    /\ IF handler[p].u \in Active /\ handler[p].a \in Active
                       THEN TakeLock(p, "transferWrite")
                       ELSE lock = {} /\ Reply(p) /\ UNCHANGED lock
                    /\ UNCHANGED <<ws, member, inv, handled, admitted, settled, staleTransfer, overwritten>>

\* Mutant: the workspace row is not updated.
TransferWriteRoles(p) ==
    /\ Stands(p, "transferWrite")
    /\ member' = [member EXCEPT ![handler[p].a].role = "admin", ![handler[p].u].role = "owner"]
    /\ staleTransfer' = (staleTransfer \/ handler[p].a \notin Owners)
    /\ Unlock(p)
    /\ UNCHANGED <<ws, inv, handled, admitted, settled, overwritten>>

\* The actor becomes admin, owner or not by now, the target owner.
TransferWrite(p) ==
    /\ Stands(p, "transferWrite")
    /\ member' = [member EXCEPT ![handler[p].a].role = "admin", ![handler[p].u].role = "owner"]
    /\ ws' = [ws EXCEPT !.owner = handler[p].u]
    /\ staleTransfer' = (staleTransfer \/ handler[p].a \notin Owners)
    /\ Unlock(p)
    /\ UNCHANGED <<inv, handled, admitted, settled, overwritten>>

-----------------------------------------------------------------------------

InviteSteps(p) == \/ Invite(p) \/ InviteRevoke(p) \/ InviteCreate(p) \/ ViewLapsed(p) \/ ExpireWrite(p)
                  \/ RevokeInvitation(p) \/ RevokeWrite(p) \/ Accept(p) \/ AcceptWrite(p)
LockedSteps(p) == \/ ModifyMember(p) \/ CheckModify(p) \/ RoleWrite(p) \/ RemoveWrite(p)
                  \/ TransferOwnership(p) \/ CheckTransfer(p) \/ TransferWrite(p)

MemberNext == \/ CreateWorkspace \/ Lapse
              \/ \E p \in Requesters : Convert(p) \/ ConvertWrite(p) \/ InviteSteps(p) \/ LockedSteps(p)

MemberSpec == MemberInit /\ [][MemberNext]_memberVars

-----------------------------------------------------------------------------
(* Properties *)

\* A workspace always has an active owner, whatever removals, role changes and
\* transfers are asked for at once and by whom, as long as no acceptance writes
\* over a membership somebody else has made active since it was read.
OwnerAlways == ws.type # "NONE" /\ ~overwritten => Owners # {}

\* There is one owner and workspaces.ownerId names that member, unless two
\* transfers by one owner were admitted before the first of them took the lock.
OwnerIsTheOwner == ws.type # "NONE" /\ ~overwritten /\ ~staleTransfer => Owners = {ws.owner}

\* The workspace keeps its owner, and knows who it is.
OwnersHold == OwnerAlways /\ OwnerIsTheOwner

\* An invitation says what became of it: somebody entered by it if and only if
\* it is ACCEPTED, unless revocation, expiry and acceptance overlapped.
InvitationTellsTruth == \A i \in Invitations \ settled :
    i \in admitted <=> inv[i].state = "ACCEPTED"
=============================================================================
