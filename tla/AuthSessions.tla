---------------------------- MODULE AuthSessions ----------------------------
(* One account: its status, lock and failed logins, the families of refresh   *)
(* sessions, the one-time links sent by mail, and the requests that change    *)
(* them.  A request is a chain of statements; only the blocks the code puts   *)
(* into a transaction are atomic.  Expiry of sessions and links, and a wrong  *)
(* current password, only make a request answer 401: it then has not begun.   *)
EXTENDS Naturals

CONSTANTS Handlers,     \* request handlers, each serves one call at a time
          MaxAttempts,  \* MAX_FAILED_LOGIN_ATTEMPTS
          MaxSessions,  \* bound: rows of "refresh_sessions" created
          MaxLinks,     \* bound: rows of "one_time_tokens" created
          MaxCalls      \* bound: calls served

ASSUME AuthAssumption == /\ MaxAttempts \in Nat \ {0} /\ MaxCalls \in Nat
                         /\ MaxSessions \in Nat \ {0} /\ MaxLinks \in Nat \ {0}

\* Rows are numbered as they are created; a family has the number of its first.
Sessions == 1..MaxSessions
Links == 1..MaxLinks

VARIABLES account,  \* the row of "users"
          verification,  \* REQUIRE_EMAIL_VERIFICATION of the running process
          sess,     \* rows of "refresh_sessions", with the version of their access token
          link,     \* rows of "one_time_tokens"
          call,     \* where each handler stands and what it has read
          calls,    \* calls begun so far
          ended,    \* families somebody has ended (history)
          crossed,  \* of those, the ones that were being rotated at that moment (history)
          fails,    \* wrong passwords since the last event that clears the counter (history)
          stale     \* a login wrote over a counter or a lock it had not read (history)

authVars == <<account, verification, sess, link, call, calls, ended, crossed, fails, stale>>
rest == <<verification, calls>>
history == <<ended, crossed, fails, stale>>

-----------------------------------------------------------------------------

\* lockedUntil is absent, in the future, or in the past.
AccountType == [status : {"NONE", "PENDING_VERIFICATION", "ACTIVE", "LOCKED"},
                attempts : Nat, lock : {"none", "future", "past"}, version : Nat]

SessionType == [state : {"none", "live", "revoked"}, family : Sessions, version : Nat]

LinkType == [state : {"none", "fresh", "used"}, kind : {"verify", "reset"}]

CallType == [pc : {"idle", "activate", "password", "issue", "burn", "rotate", "rotateCommit", "end",
                   "revokeAll", "bump", "change", "mark", "send", "verify", "reset"},
             s : Sessions, l : Links, kind : {"verify", "reset"}, seen : AccountType]

NoAccount == [status |-> "NONE", attempts |-> 0, lock |-> "none", version |-> 0]
IdleCall == [pc |-> "idle", s |-> 1, l |-> 1, kind |-> "verify", seen |-> NoAccount]

AuthTypeOK == /\ account \in AccountType
              /\ verification \in BOOLEAN
              /\ sess \in [Sessions -> SessionType]
              /\ link \in [Links -> LinkType]
              /\ call \in [Handlers -> CallType]
              /\ calls \in 0..MaxCalls
              /\ ended \subseteq Sessions
              /\ crossed \subseteq ended
              /\ fails \in Nat
              /\ stale \in BOOLEAN

AuthInit == /\ account = NoAccount
            /\ verification \in BOOLEAN
            /\ sess = [s \in Sessions |-> [state |-> "none", family |-> 1, version |-> 0]]
            /\ link = [l \in Links |-> [state |-> "none", kind |-> "verify"]]
            /\ call = [p \in Handlers |-> IdleCall]
            /\ calls = 0
            /\ ended = {} /\ crossed = {}
            /\ fails = 0 /\ stale = FALSE

-----------------------------------------------------------------------------

In(p, pc) == call[p].pc = pc
Goto(p, pc) == call' = [call EXCEPT ![p].pc = pc]
Answer(p) == call' = [call EXCEPT ![p] = IdleCall]

\* The first statement of a call leaves it at pc.
Enter(p, pc, s) == /\ In(p, "idle")
                   /\ calls < MaxCalls
                   /\ calls' = calls + 1
                   /\ call' = [call EXCEPT ![p] = [IdleCall EXCEPT !.pc = pc, !.s = s, !.seen = account]]
                   /\ UNCHANGED <<account, verification, sess, link, history>>

Live(s) == sess[s].state = "live"
LiveOf(f) == {s \in Sessions : Live(s) /\ sess[s].family = f}
NextSession(s) == sess[s].state = "none" /\ \A n \in Sessions : n < s => sess[n].state # "none"
NextLink(l) == link[l].state = "none" /\ \A n \in Links : n < l => link[n].state # "none"
Known == {sess[s].family : s \in {x \in Sessions : sess[x].state # "none"}}

\* Families whose rotation has claimed the old row and not committed the new one.
Rotating == {sess[call[q].s].family : q \in {x \in Handlers : In(x, "rotateCommit")}}

\* What authenticate accepts of the access token that was issued with s.
Authenticated(s) == /\ Live(s)
                    /\ sess[s].version = account.version
                    /\ account.status = "ACTIVE"
                    /\ account.lock # "future"

\* An updateMany on the live rows of families F.  It waits for a row a rotation
\* holds and then skips it, and its snapshot lacks the row the rotation adds.
RevokeAllOf(F) ==
    /\ sess' = [s \in Sessions |-> IF Live(s) /\ sess[s].family \in F
                                   THEN [sess[s] EXCEPT !.state = "revoked"] ELSE sess[s]]
    /\ ended' = ended \cup F
    /\ crossed' = (crossed \ F) \cup (F \cap Rotating)

NewSession(f, version) == [state |-> "live", family |-> f, version |-> version]

-----------------------------------------------------------------------------
(* Registration, login, lockout *)

\* Of two registrations with one address the unique index refuses the second.
Register ==
    /\ account.status = "NONE"
    /\ IF verification
       THEN \E l \in Links : /\ NextLink(l)
                             /\ link' = [link EXCEPT ![l].state = "fresh"]
                             /\ account' = [account EXCEPT !.status = "PENDING_VERIFICATION"]
       ELSE account' = [account EXCEPT !.status = "ACTIVE"] /\ UNCHANGED link
    /\ UNCHANGED <<rest, sess, call, history>>

\* The process is started again with the variable changed.
DisableVerification == /\ verification
                       /\ \A p \in Handlers : In(p, "idle")
                       /\ verification' = FALSE
                       /\ UNCHANGED <<account, sess, link, call, calls, history>>

LockRunsOut == /\ account.lock = "future"
               /\ account' = [account EXCEPT !.lock = "past"]
               /\ UNCHANGED <<rest, sess, link, call, history>>

Login(p) == /\ account.status \in {"ACTIVE", "PENDING_VERIFICATION"}
            /\ account.lock # "future"
            /\ account.status = "PENDING_VERIFICATION" => ~verification
            /\ Enter(p, IF account.status = "ACTIVE" THEN "password" ELSE "activate", call[p].s)

Activate(p) == /\ In(p, "activate")
               /\ account' = [account EXCEPT !.status = "ACTIVE"]
               /\ stale' = (stale \/ account.status = "LOCKED")
               /\ Goto(p, "password")
               /\ UNCHANGED <<rest, sess, link, ended, crossed, fails>>

\* Mutant: the attempt that reaches the limit is still free.
FailedLate(row, seen) ==
    [row EXCEPT !.attempts = seen.attempts + 1,
                !.status = IF seen.attempts + 1 > MaxAttempts THEN "LOCKED" ELSE seen.status,
                !.lock = IF seen.attempts + 1 > MaxAttempts THEN "future" ELSE "none"]

\* The row after a wrong password, computed from the row read before the hash.
Failed(row, seen) ==
    [row EXCEPT !.attempts = seen.attempts + 1,
                !.status = IF seen.attempts + 1 >= MaxAttempts THEN "LOCKED" ELSE seen.status,
                !.lock = IF seen.attempts + 1 >= MaxAttempts THEN "future" ELSE "none"]

WrongPassword(p) ==
    /\ In(p, "password")
    /\ account' = Failed(account, call[p].seen)
    /\ fails' = fails + 1
    /\ stale' = (stale \/ account.attempts # call[p].seen.attempts \/ account.status = "LOCKED")
    /\ Answer(p)
    /\ UNCHANGED <<rest, sess, link, ended, crossed>>

RightPassword(p) ==
    /\ In(p, "password")
    /\ account' = [account EXCEPT !.attempts = 0, !.lock = "none", !.status = "ACTIVE"]
    /\ fails' = 0
    /\ call' = [call EXCEPT ![p].pc = "issue", ![p].seen = account']
    /\ UNCHANGED <<rest, sess, link, ended, crossed, stale>>

IssueTokenPair(p) == \E s \in Sessions :
    /\ In(p, "issue")
    /\ NextSession(s)
    /\ sess' = [sess EXCEPT ![s] = NewSession(s, call[p].seen.version)]
    /\ Answer(p)
    /\ UNCHANGED <<account, rest, link, history>>

-----------------------------------------------------------------------------
(* Refresh *)

RefreshRevoked(p) == \E s \in Sessions : sess[s].state = "revoked" /\ Enter(p, "burn", s)

Refresh(p) == \E s \in Sessions :
    /\ Live(s)
    /\ account.status = "ACTIVE" /\ account.lock = "none"
    /\ Enter(p, "rotate", s)

\* Mutant: only the token that was presented again is revoked.
BurnPresented(p) == LET s == call[p].s IN
    /\ In(p, "burn")
    /\ sess' = [sess EXCEPT ![s].state = "revoked"]
    /\ ended' = ended \cup {sess[s].family}
    /\ crossed' = (crossed \ {sess[s].family}) \cup ({sess[s].family} \cap Rotating)
    /\ Answer(p)
    /\ UNCHANGED <<account, rest, link, fails, stale>>

\* A revoked token was presented: the family is revoked.
Burn(p) == /\ In(p, "burn")
           /\ RevokeAllOf({sess[call[p].s].family})
           /\ Answer(p)
           /\ UNCHANGED <<account, rest, link, fails, stale>>

\* Mutant: the claim does not look at revokedAt.
ClaimAnyway(p) == /\ In(p, "rotate")
                  /\ \A q \in Handlers : In(q, "rotateCommit") => call[q].s # call[p].s
                  /\ Goto(p, "rotateCommit")
                  /\ UNCHANGED <<account, rest, sess, link, history>>

\* The conditional update that claims the row, and waits for another claim of it.
Claim(p) == /\ In(p, "rotate")
            /\ \A q \in Handlers : In(q, "rotateCommit") => call[q].s # call[p].s
            /\ IF Live(call[p].s) THEN Goto(p, "rotateCommit") ELSE Answer(p)
            /\ UNCHANGED <<account, rest, sess, link, history>>

RotateCommit(p) == \E n \in Sessions : LET s == call[p].s IN
    /\ In(p, "rotateCommit")
    /\ NextSession(n)
    /\ sess' = [sess EXCEPT ![s].state = "revoked",
                            ![n] = NewSession(sess[s].family, call[p].seen.version)]
    /\ Answer(p)
    /\ UNCHANGED <<account, rest, link, history>>

RotateRollback(p) == /\ In(p, "rotateCommit")
                     /\ Answer(p)
                     /\ UNCHANGED <<account, rest, sess, link, history>>

-----------------------------------------------------------------------------
(* Logout, revocation of a session, logout everywhere *)

EndSession(p) == \E s \in Sessions : Live(s) /\ Enter(p, "end", s)

\* Unconditional: a session rotated since it was read stays revoked, and its
\* successor lives on.
EndCommit(p) == LET s == call[p].s  f == sess[s].family IN
    /\ In(p, "end")
    /\ sess' = [sess EXCEPT ![s].state = "revoked"]
    /\ ended' = ended \cup {f}
    /\ crossed' = IF f \in Rotating \/ LiveOf(f) \ {s} # {} THEN crossed \cup {f} ELSE crossed \ {f}
    /\ Answer(p)
    /\ UNCHANGED <<account, rest, link, fails, stale>>

LogoutAll(p) == \E s \in Sessions : Authenticated(s) /\ Enter(p, "revokeAll", s)

RevokeUserSessions(p) == /\ In(p, "revokeAll")
                         /\ RevokeAllOf(Known)
                         /\ Goto(p, "bump")
                         /\ UNCHANGED <<account, rest, link, fails, stale>>

BumpAuthVersion(p) == /\ In(p, "bump")
                      /\ account' = [account EXCEPT !.version = @ + 1]
                      /\ Answer(p)
                      /\ UNCHANGED <<rest, sess, link, history>>

-----------------------------------------------------------------------------
(* Passwords and links *)

ChangePassword(p) == \E s \in Sessions : Authenticated(s) /\ Enter(p, "change", s)

ChangeCommit(p) == /\ In(p, "change")
                   /\ account' = [account EXCEPT !.version = @ + 1]
                   /\ RevokeAllOf(Known)
                   /\ Answer(p)
                   /\ UNCHANGED <<rest, link, fails, stale>>

\* forgotPassword and resendVerification: old links are spent, then one is sent.
AskForLink(p) == \E kind \in {"verify", "reset"} :
    /\ account.status # "NONE"
    /\ kind = "verify" => verification /\ account.status = "PENDING_VERIFICATION"
    /\ In(p, "idle") /\ calls < MaxCalls
    /\ calls' = calls + 1
    /\ call' = [call EXCEPT ![p] = [IdleCall EXCEPT !.pc = "mark", !.kind = kind]]
    /\ UNCHANGED <<account, verification, sess, link, history>>

MarkUsed(p) == /\ In(p, "mark")
               /\ link' = [l \in Links |-> IF link[l].state = "fresh" /\ link[l].kind = call[p].kind
                                           THEN [link[l] EXCEPT !.state = "used"] ELSE link[l]]
               /\ Goto(p, "send")
               /\ UNCHANGED <<account, rest, sess, history>>

SendLink(p) == \E l \in Links :
    /\ In(p, "send")
    /\ NextLink(l)
    /\ link' = [link EXCEPT ![l] = [state |-> "fresh", kind |-> call[p].kind]]
    /\ Answer(p)
    /\ UNCHANGED <<account, rest, sess, history>>

FollowLink(p) == \E l \in Links :
    /\ link[l].state = "fresh"
    /\ In(p, "idle") /\ calls < MaxCalls
    /\ calls' = calls + 1
    /\ call' = [call EXCEPT ![p] = [IdleCall EXCEPT !.pc = link[l].kind, !.l = l, !.seen = account]]
    /\ UNCHANGED <<account, verification, sess, link, history>>

\* Neither transaction looks again whether the link was used meanwhile.
VerifyEmail(p) == /\ In(p, "verify")
                  /\ link' = [link EXCEPT ![call[p].l].state = "used"]
                  /\ account' = [account EXCEPT !.status = "ACTIVE", !.attempts = 0, !.lock = "none"]
                  /\ fails' = 0
                  /\ Answer(p)
                  /\ UNCHANGED <<rest, sess, ended, crossed, stale>>

ResetPassword(p) == LET was == call[p].seen.status IN
    /\ In(p, "reset")
    /\ link' = [link EXCEPT ![call[p].l].state = "used"]
    /\ account' = [account EXCEPT !.version = @ + 1, !.attempts = 0, !.lock = "none",
                                  !.status = IF was = "LOCKED" THEN "ACTIVE" ELSE was]
    /\ fails' = 0
    /\ RevokeAllOf(Known)
    /\ Answer(p)
    /\ UNCHANGED <<rest, stale>>

-----------------------------------------------------------------------------

LoginSteps(p) == Login(p) \/ Activate(p) \/ WrongPassword(p) \/ RightPassword(p) \/ IssueTokenPair(p)
RefreshSteps(p) == \/ RefreshRevoked(p) \/ Refresh(p) \/ Burn(p)
                   \/ Claim(p) \/ RotateCommit(p) \/ RotateRollback(p)
EndSteps(p) == \/ EndSession(p) \/ EndCommit(p) \/ LogoutAll(p)
               \/ RevokeUserSessions(p) \/ BumpAuthVersion(p)
PasswordSteps(p) == \/ ChangePassword(p) \/ ChangeCommit(p) \/ AskForLink(p) \/ MarkUsed(p)
                    \/ SendLink(p) \/ FollowLink(p) \/ VerifyEmail(p) \/ ResetPassword(p)

AuthNext == \/ Register \/ DisableVerification \/ LockRunsOut
            \/ \E p \in Handlers : LoginSteps(p) \/ RefreshSteps(p) \/ EndSteps(p) \/ PasswordSteps(p)

AuthSpec == AuthInit /\ [][AuthNext]_authVars

-----------------------------------------------------------------------------
(* Properties *)

\* Rotation never forks a family: however refreshes of one token, from several
\* tabs or repeated after a lost answer, interleave with each other and with
\* revocations, at most one session of a family is live.
OneLivePerFamily == \A s, n \in Sessions :
    Live(s) /\ Live(n) /\ sess[s].family = sess[n].family => s = n

\* A family that was ended (by logout, by revoking its session, by logging out
\* everywhere, by a new password, by presenting a spent token) has no live
\* session ever after, unless it was being rotated at that very moment: the
\* revocation then misses the row the rotation is about to commit.
EndedStaysEnded == \A f \in ended \ crossed : LiveOf(f) = {}

\* A refresh token is good for one live session, and for none once its family has ended.
FamiliesSound == OneLivePerFamily /\ EndedStaysEnded

\* Nobody gets more than MAX_FAILED_LOGIN_ATTEMPTS wrong passwords in a row
\* unless two logins overlapped, each counting from the number it had read.
GuessesBounded == stale \/ fails <= MaxAttempts

\* What the login handler says of a lock: "Account is temporarily locked", with
\* the time it lasts in ACCOUNT_LOCK_MINUTES.  When that time is over the account
\* should admit its user again.
LockIsTemporary == account.lock = "past" => account.status # "LOCKED"
=============================================================================
