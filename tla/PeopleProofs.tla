---------------------------- MODULE PeopleProofs ----------------------------
(***************************************************************************)
(* Proofs about people.  One account served by any number of request         *)
(* handlers, with any limit of failed logins: a family of refresh sessions is *)
(* never forked and stays ended, and wrong passwords in a row are bounded.     *)
(* The tabs of one browser, however many: a session that the user did not     *)
(* leave is not lost.  A workspace of any people, served by any number of      *)
(* handlers: it keeps an owner, ownerId names that owner, and invitations say *)
(* what became of them; and who holds or sees a task of a private project     *)
(* may open and edit it.                                                      *)
(***************************************************************************)
EXTENDS AuthSessions, BrowserSession, Membership, TaskAccess, FiniteSetTheorems, TLAPS

-----------------------------------------------------------------------------
(* The invariant.  A request that holds a token holds one that exists, and a   *)
(* family exists with its first session.  A rotation between its claim and its *)
(* commit is the only one of its family, whose only live session, if any, is    *)
(* the one it has claimed; and the family has not ended unnoticed.               *)

Used(s) == sess[s].state # "none"
FamilyOf(p) == sess[call[p].s].family
Rotates(p) == In(p, "rotateCommit")
HasToken(p) == call[p].pc \in {"burn", "rotate", "rotateCommit", "end"}

Rooted == \A n \in Sessions : Used(n) => Used(sess[n].family)
EndedKnown == \A f \in ended : Used(f)
TokensKnown == \A p \in Handlers : HasToken(p) => Used(call[p].s)
RotatesAlone == \A p \in Handlers : Rotates(p) =>
    /\ \A n \in Sessions : Live(n) /\ sess[n].family = FamilyOf(p) => n = call[p].s
    /\ \A q \in Handlers : Rotates(q) /\ FamilyOf(q) = FamilyOf(p) => q = p
    /\ FamilyOf(p) \in ended => FamilyOf(p) \in crossed

FamilyInv == /\ Rooted /\ EndedKnown /\ TokensKnown /\ RotatesAlone
             /\ OneLivePerFamily /\ EndedStaysEnded

\* As long as no login has written over what it had not read, the counter in the
\* row counts the wrong passwords, and reaching the limit has locked the account.
Counted == stale \/ /\ fails = account.attempts
                    /\ account.attempts <= MaxAttempts
                    /\ account.attempts = MaxAttempts => account.status = "LOCKED"

AuthInv == AuthTypeOK /\ FamilyInv /\ Counted

-----------------------------------------------------------------------------
(* Types *)

LEMMA RecordsTyped == /\ NoAccount \in AccountType /\ IdleCall \in CallType
                      /\ IdleCall.pc = "idle" /\ 1 \in Sessions /\ 1 \in Links
  <1>1. 1 \in Sessions /\ 1 \in Links
    BY AuthAssumption DEF Sessions, Links
  <1>2. NoAccount \in AccountType
    BY DEF NoAccount, AccountType
  <1> QED
    BY <1>1, <1>2 DEF IdleCall, CallType

LEMMA FailedTyped ==
  ASSUME NEW row \in AccountType, NEW seen \in AccountType PROVE Failed(row, seen) \in AccountType
  <1> DEFINE full == seen.attempts + 1 >= MaxAttempts
  <1>1. seen.attempts + 1 \in Nat /\ seen.status \in {"NONE", "PENDING_VERIFICATION", "ACTIVE", "LOCKED"}
    BY DEF AccountType
  <1>2. /\ (IF full THEN "LOCKED" ELSE seen.status) \in {"NONE", "PENDING_VERIFICATION", "ACTIVE", "LOCKED"}
        /\ (IF full THEN "future" ELSE "none") \in {"none", "future", "past"}
    BY <1>1
  <1>3. Failed(row, seen) = [row EXCEPT !.attempts = seen.attempts + 1,
                                        !.status = IF full THEN "LOCKED" ELSE seen.status,
                                        !.lock = IF full THEN "future" ELSE "none"]
    BY DEF Failed
  <1> HIDE DEF full
  <1> QED
    BY <1>1, <1>2, <1>3 DEF AccountType

\* A handler's record changes, the rest as it may.
LEMMA CallTyped ==
  ASSUME AuthTypeOK, NEW p \in Handlers, NEW r \in CallType, call' = [call EXCEPT ![p] = r]
  PROVE  /\ call' \in [Handlers -> CallType]
         /\ \A q \in Handlers : call'[q] = IF q = p THEN r ELSE call[q]
  BY DEF AuthTypeOK

LEMMA AnswerTyped ==
  ASSUME AuthTypeOK, NEW p \in Handlers, Answer(p)
  PROVE  /\ call' \in [Handlers -> CallType]
         /\ \A q \in Handlers : call'[q] = IF q = p THEN IdleCall ELSE call[q]
  BY CallTyped, RecordsTyped DEF Answer

LEMMA GotoTyped ==
  ASSUME AuthTypeOK, NEW p \in Handlers,
         NEW pc \in {"password", "rotateCommit", "bump", "send"}, Goto(p, pc)
  PROVE  /\ call' \in [Handlers -> CallType]
         /\ \A q \in Handlers : call'[q] = IF q = p THEN [call[p] EXCEPT !.pc = pc] ELSE call[q]
  BY DEF AuthTypeOK, Goto, CallType

LEMMA EnterTyped ==
  ASSUME AuthTypeOK, NEW p \in Handlers, NEW s \in Sessions,
         NEW pc \in {"activate", "password", "burn", "rotate", "end", "revokeAll", "change"}, Enter(p, pc, s)
  PROVE  /\ call' \in [Handlers -> CallType] /\ AuthTypeOK'
         /\ \A q \in Handlers : q # p => call'[q] = call[q]
         /\ call'[p].pc = pc /\ call'[p].s = s
         /\ UNCHANGED <<account, sess, ended, crossed, fails, stale>>
  <1> DEFINE r == [IdleCall EXCEPT !.pc = pc, !.s = s, !.seen = account]
  <1>1. r \in CallType /\ r.pc = pc /\ r.s = s
    BY RecordsTyped DEF AuthTypeOK, CallType
  <1>2. call' = [call EXCEPT ![p] = r] /\ calls < MaxCalls /\ calls' = calls + 1
    BY DEF Enter
  <1>3. calls' \in 0..MaxCalls
    BY <1>2, AuthAssumption DEF AuthTypeOK
  <1>4. /\ call' \in [Handlers -> CallType]
        /\ \A q \in Handlers : call'[q] = IF q = p THEN r ELSE call[q]
    BY <1>1, <1>2, CallTyped
  <1> HIDE DEF r
  <1> QED
    BY <1>1, <1>3, <1>4 DEF Enter, AuthTypeOK, history

LEMMA RevokesTyped ==
  ASSUME AuthTypeOK, NEW F \in SUBSET Sessions, RevokeAllOf(F)
  PROVE  sess' \in [Sessions -> SessionType] /\ ended' \subseteq Sessions /\ crossed' \subseteq ended'
  BY DEF AuthTypeOK, RevokeAllOf, SessionType

LEMMA KnownTyped == AuthTypeOK => Known \subseteq Sessions
  BY DEF AuthTypeOK, Known, SessionType

LEMMA AuthInitTyped == AuthInit => AuthTypeOK
  <1> SUFFICES ASSUME AuthInit PROVE AuthTypeOK
    OBVIOUS
  <1>1. sess \in [Sessions -> SessionType] /\ link \in [Links -> LinkType]
    BY RecordsTyped DEF AuthInit, SessionType, LinkType
  <1>2. account \in AccountType /\ call \in [Handlers -> CallType]
    BY RecordsTyped DEF AuthInit
  <1>3. calls \in 0..MaxCalls
    BY AuthAssumption DEF AuthInit
  <1> QED
    BY <1>1, <1>2, <1>3 DEF AuthInit, AuthTypeOK

\* What is left to show of a step that moves one handler within its call.
Rest == /\ account' \in AccountType /\ sess' \in [Sessions -> SessionType]
        /\ link' \in [Links -> LinkType] /\ ended' \subseteq Sessions /\ crossed' \subseteq ended'
        /\ fails' \in Nat /\ stale' \in BOOLEAN

LEMMA MovesTyped ==
  ASSUME AuthTypeOK, call' \in [Handlers -> CallType], Rest, UNCHANGED rest
  PROVE  AuthTypeOK'
  BY DEF AuthTypeOK, Rest, rest

LEMMA SurroundingsTyped ==
  ASSUME AuthTypeOK, Register \/ DisableVerification \/ LockRunsOut PROVE AuthTypeOK'
  <1>1. CASE Register
    <2>1. account' \in AccountType /\ link' \in [Links -> LinkType]
      BY <1>1 DEF Register, AuthTypeOK, AccountType, LinkType
    <2> QED
      BY <1>1, <2>1 DEF Register, AuthTypeOK, rest, history
  <1>2. CASE DisableVerification
    BY <1>2 DEF DisableVerification, AuthTypeOK, history
  <1>3. CASE LockRunsOut
    <2>1. account' \in AccountType
      BY <1>3 DEF LockRunsOut, AuthTypeOK, AccountType
    <2> QED
      BY <1>3, <2>1 DEF LockRunsOut, AuthTypeOK, rest, history
  <1> QED
    BY <1>1, <1>2, <1>3

LEMMA LoginTyped ==
  ASSUME AuthTypeOK, NEW p \in Handlers, LoginSteps(p) PROVE AuthTypeOK'
  <1>0. call[p] \in CallType /\ call[p].seen \in AccountType
    BY DEF AuthTypeOK, CallType
  <1>1. CASE Login(p)
    <2>1. call[p].s \in Sessions
      BY <1>0 DEF CallType
    <2> QED
      BY <1>1, <2>1, EnterTyped DEF Login
  <1>2. CASE Activate(p)
    <2>1. account' \in AccountType
      BY <1>2 DEF Activate, AuthTypeOK, AccountType
    <2>2. Rest
      BY <1>2, <2>1 DEF Activate, Rest, AuthTypeOK, rest
    <2> QED
      BY <1>2, <2>2, GotoTyped, MovesTyped DEF Activate
  <1>3. CASE WrongPassword(p)
    <2>1. account' \in AccountType
      BY <1>0, <1>3, FailedTyped DEF WrongPassword, AuthTypeOK
    <2>2. Rest
      BY <1>3, <2>1 DEF WrongPassword, Rest, AuthTypeOK, rest
    <2> QED
      BY <1>3, <2>2, AnswerTyped, MovesTyped DEF WrongPassword
  <1>4. CASE RightPassword(p)
    <2>1. account' \in AccountType
      BY <1>4 DEF RightPassword, AuthTypeOK, AccountType
    <2>2. Rest
      BY <1>4, <2>1 DEF RightPassword, Rest, AuthTypeOK, rest
    <2> DEFINE r == [call[p] EXCEPT !.pc = "issue", !.seen = account']
    <2>3. r \in CallType
      BY <1>0, <2>1 DEF CallType
    <2>4. call' = [call EXCEPT ![p] = r]
      BY <1>4 DEF RightPassword, AuthTypeOK
    <2>5. call' \in [Handlers -> CallType]
      BY <2>3, <2>4, CallTyped
    <2> QED
      BY <1>4, <2>2, <2>5, MovesTyped DEF RightPassword
  <1>5. CASE IssueTokenPair(p)
    <2>1. PICK s \in Sessions : sess' = [sess EXCEPT ![s] = NewSession(s, call[p].seen.version)]
      BY <1>5 DEF IssueTokenPair
    <2>2. sess' \in [Sessions -> SessionType]
      BY <1>0, <2>1 DEF NewSession, AuthTypeOK, SessionType, AccountType
    <2>3. Rest
      BY <1>5, <2>2 DEF IssueTokenPair, Rest, AuthTypeOK, rest, history
    <2> QED
      BY <1>5, <2>3, AnswerTyped, MovesTyped DEF IssueTokenPair
  <1> QED
    BY <1>1, <1>2, <1>3, <1>4, <1>5 DEF LoginSteps

LEMMA RefreshTyped ==
  ASSUME AuthTypeOK, NEW p \in Handlers, RefreshSteps(p) PROVE AuthTypeOK'
  <1>0. call[p] \in CallType /\ call[p].seen \in AccountType /\ call[p].s \in Sessions
    BY DEF AuthTypeOK, CallType
  <1>1. CASE RefreshRevoked(p)
    BY <1>1, EnterTyped DEF RefreshRevoked
  <1>2. CASE Refresh(p)
    BY <1>2, EnterTyped DEF Refresh
  <1>3. CASE Burn(p)
    <2>1. {FamilyOf(p)} \in SUBSET Sessions
      BY <1>0 DEF FamilyOf, AuthTypeOK, SessionType
    <2>2. Rest
      BY <1>3, <2>1, RevokesTyped DEF Burn, Rest, AuthTypeOK, FamilyOf, rest
    <2> QED
      BY <1>3, <2>2, AnswerTyped, MovesTyped DEF Burn
  <1>4. CASE Claim(p)
    <2>1. Rest
      BY <1>4 DEF Claim, Rest, AuthTypeOK, rest, history
    <2> QED
      BY <1>4, <2>1, AnswerTyped, GotoTyped, MovesTyped DEF Claim
  <1>5. CASE RotateCommit(p)
    <2>1. PICK n \in Sessions :
            sess' = [sess EXCEPT ![call[p].s].state = "revoked",
                                 ![n] = NewSession(FamilyOf(p), call[p].seen.version)]
      BY <1>5 DEF RotateCommit, FamilyOf
    <2>2. sess' \in [Sessions -> SessionType]
      BY <1>0, <2>1 DEF NewSession, AuthTypeOK, SessionType, AccountType, FamilyOf
    <2>3. Rest
      BY <1>5, <2>2 DEF RotateCommit, Rest, AuthTypeOK, rest, history
    <2> QED
      BY <1>5, <2>3, AnswerTyped, MovesTyped DEF RotateCommit
  <1>6. CASE RotateRollback(p)
    <2>1. Rest
      BY <1>6 DEF RotateRollback, Rest, AuthTypeOK, rest, history
    <2> QED
      BY <1>6, <2>1, AnswerTyped, MovesTyped DEF RotateRollback
  <1> QED
    BY <1>1, <1>2, <1>3, <1>4, <1>5, <1>6 DEF RefreshSteps

LEMMA EndTyped ==
  ASSUME AuthTypeOK, NEW p \in Handlers, EndSteps(p) PROVE AuthTypeOK'
  <1>0. call[p] \in CallType /\ call[p].s \in Sessions
    BY DEF AuthTypeOK, CallType
  <1>1. CASE EndSession(p)
    BY <1>1, EnterTyped DEF EndSession
  <1>2. CASE EndCommit(p)
    <2>1. sess' \in [Sessions -> SessionType] /\ FamilyOf(p) \in Sessions
      BY <1>0, <1>2 DEF EndCommit, AuthTypeOK, SessionType, FamilyOf
    <2>2. ended' \subseteq Sessions /\ crossed' \subseteq ended'
      BY <1>2, <2>1 DEF EndCommit, AuthTypeOK, FamilyOf
    <2>3. Rest
      BY <1>2, <2>1, <2>2 DEF EndCommit, Rest, AuthTypeOK, rest
    <2> QED
      BY <1>2, <2>3, AnswerTyped, MovesTyped DEF EndCommit
  <1>3. CASE LogoutAll(p)
    BY <1>3, EnterTyped DEF LogoutAll
  <1>4. CASE RevokeUserSessions(p)
    <2>1. Rest
      BY <1>4, RevokesTyped, KnownTyped DEF RevokeUserSessions, Rest, AuthTypeOK, rest
    <2> QED
      BY <1>4, <2>1, GotoTyped, MovesTyped DEF RevokeUserSessions
  <1>5. CASE BumpAuthVersion(p)
    <2>1. account' \in AccountType
      BY <1>5 DEF BumpAuthVersion, AuthTypeOK, AccountType
    <2>2. Rest
      BY <1>5, <2>1 DEF BumpAuthVersion, Rest, AuthTypeOK, rest, history
    <2> QED
      BY <1>5, <2>2, AnswerTyped, MovesTyped DEF BumpAuthVersion
  <1> QED
    BY <1>1, <1>2, <1>3, <1>4, <1>5 DEF EndSteps

\* The calls about links do not begin with Enter: they name a link.
LEMMA LinkCallTyped ==
  ASSUME AuthTypeOK, NEW p \in Handlers, AskForLink(p) \/ FollowLink(p)
  PROVE  /\ call' \in [Handlers -> CallType] /\ calls' \in 0..MaxCalls
         /\ \A q \in Handlers : q # p => call'[q] = call[q]
         /\ call'[p].pc \in {"mark", "verify", "reset"}
         /\ UNCHANGED <<account, verification, sess, link, ended, crossed, fails, stale>>
  <1>1. calls < MaxCalls /\ calls' = calls + 1
    BY DEF AskForLink, FollowLink
  <1>2. calls' \in 0..MaxCalls
    BY <1>1, AuthAssumption DEF AuthTypeOK
  <1>3. CASE AskForLink(p)
    <2>1. PICK kind \in {"verify", "reset"} :
            call' = [call EXCEPT ![p] = [IdleCall EXCEPT !.pc = "mark", !.kind = kind]]
      BY <1>3 DEF AskForLink
    <2> DEFINE r == [IdleCall EXCEPT !.pc = "mark", !.kind = kind]
    <2>2. r \in CallType /\ r.pc = "mark"
      BY RecordsTyped DEF CallType
    <2>3. /\ call' \in [Handlers -> CallType]
          /\ \A q \in Handlers : call'[q] = IF q = p THEN r ELSE call[q]
      BY <2>1, <2>2, CallTyped
    <2> HIDE DEF r
    <2> QED
      BY <1>2, <1>3, <2>2, <2>3 DEF AskForLink, history
  <1>4. CASE FollowLink(p)
    <2>1. PICK l \in Links :
            call' = [call EXCEPT ![p] = [IdleCall EXCEPT !.pc = link[l].kind, !.l = l, !.seen = account]]
      BY <1>4 DEF FollowLink
    <2> DEFINE r == [IdleCall EXCEPT !.pc = link[l].kind, !.l = l, !.seen = account]
    <2>2. r \in CallType /\ r.pc \in {"verify", "reset"}
      BY RecordsTyped DEF CallType, AuthTypeOK, LinkType
    <2>3. /\ call' \in [Handlers -> CallType]
          /\ \A q \in Handlers : call'[q] = IF q = p THEN r ELSE call[q]
      BY <2>1, <2>2, CallTyped
    <2> HIDE DEF r
    <2> QED
      BY <1>2, <1>4, <2>2, <2>3 DEF FollowLink, history
  <1> QED
    BY <1>3, <1>4

LEMMA PasswordTyped ==
  ASSUME AuthTypeOK, NEW p \in Handlers, PasswordSteps(p) PROVE AuthTypeOK'
  <1>0. call[p] \in CallType /\ call[p].l \in Links /\ call[p].kind \in {"verify", "reset"}
        /\ call[p].seen \in AccountType
    BY DEF AuthTypeOK, CallType
  <1>1. CASE ChangePassword(p)
    BY <1>1, EnterTyped DEF ChangePassword
  <1>2. CASE ChangeCommit(p)
    <2>1. account' \in AccountType
      BY <1>2 DEF ChangeCommit, AuthTypeOK, AccountType
    <2>2. Rest
      BY <1>2, <2>1, RevokesTyped, KnownTyped DEF ChangeCommit, Rest, AuthTypeOK
    <2> QED
      BY <1>2, <2>2, AnswerTyped, MovesTyped DEF ChangeCommit
  <1>3. CASE AskForLink(p) \/ FollowLink(p)
    BY <1>3, LinkCallTyped DEF AuthTypeOK
  <1>4. CASE MarkUsed(p)
    <2>1. link' \in [Links -> LinkType]
      BY <1>4 DEF MarkUsed, AuthTypeOK, LinkType
    <2>2. Rest
      BY <1>4, <2>1 DEF MarkUsed, Rest, AuthTypeOK, history
    <2> QED
      BY <1>4, <2>2, GotoTyped, MovesTyped DEF MarkUsed
  <1>5. CASE SendLink(p)
    <2>1. link' \in [Links -> LinkType]
      BY <1>0, <1>5 DEF SendLink, AuthTypeOK, LinkType
    <2>2. Rest
      BY <1>5, <2>1 DEF SendLink, Rest, AuthTypeOK, history
    <2> QED
      BY <1>5, <2>2, AnswerTyped, MovesTyped DEF SendLink
  <1>6. CASE VerifyEmail(p)
    <2>1. account' \in AccountType /\ link' \in [Links -> LinkType]
      BY <1>0, <1>6 DEF VerifyEmail, AuthTypeOK, AccountType, LinkType
    <2>2. Rest
      BY <1>6, <2>1 DEF VerifyEmail, Rest, AuthTypeOK
    <2> QED
      BY <1>6, <2>2, AnswerTyped, MovesTyped DEF VerifyEmail
  <1>7. CASE ResetPassword(p)
    <2> DEFINE status == IF call[p].seen.status = "LOCKED" THEN "ACTIVE" ELSE call[p].seen.status
    <2>0. status \in {"NONE", "PENDING_VERIFICATION", "ACTIVE", "LOCKED"}
      BY <1>0 DEF AccountType
    <2>1. account' \in AccountType /\ link' \in [Links -> LinkType]
      <3>1. account' = [account EXCEPT !.version = account.version + 1, !.attempts = 0, !.lock = "none",
                                       !.status = status]
        BY <1>7 DEF ResetPassword
      <3> HIDE DEF status
      <3>2. account' \in AccountType
        <4>1. account \in AccountType /\ account.version + 1 \in Nat
          BY DEF AuthTypeOK, AccountType
        <4> QED
          BY <2>0, <3>1, <4>1 DEF AccountType
      <3>3. link' \in [Links -> LinkType]
        BY <1>0, <1>7 DEF ResetPassword, AuthTypeOK, LinkType
      <3> QED
        BY <3>2, <3>3
    <2>2. Rest
      BY <1>7, <2>1, RevokesTyped, KnownTyped DEF ResetPassword, Rest, AuthTypeOK
    <2> QED
      BY <1>7, <2>2, AnswerTyped, MovesTyped DEF ResetPassword
  <1> QED
    BY <1>1, <1>2, <1>3, <1>4, <1>5, <1>6, <1>7 DEF PasswordSteps

LEMMA AuthStepTyped == AuthTypeOK /\ [AuthNext]_authVars => AuthTypeOK'
  <1> SUFFICES ASSUME AuthTypeOK, [AuthNext]_authVars PROVE AuthTypeOK'
    OBVIOUS
  <1>1. CASE Register \/ DisableVerification \/ LockRunsOut
    BY <1>1, SurroundingsTyped
  <1>2. CASE \E p \in Handlers : LoginSteps(p) \/ RefreshSteps(p) \/ EndSteps(p) \/ PasswordSteps(p)
    BY <1>2, LoginTyped, RefreshTyped, EndTyped, PasswordTyped
  <1>3. CASE UNCHANGED authVars
    BY <1>3 DEF authVars, AuthTypeOK
  <1> QED
    BY <1>1, <1>2, <1>3 DEF AuthNext

\* The account, its sessions, its links and the calls under way stay well formed:
\* a family that is marked as crossed by a rotation is one that was ended.
THEOREM AuthTypes == AuthSpec => []AuthTypeOK
  <1> QED
    BY AuthInitTyped, AuthStepTyped, PTL DEF AuthSpec

-----------------------------------------------------------------------------
(* Families *)

\* Who holds a token after the step holds one that existed before it, and no
\* rotation has been claimed.
Keeps == \A q \in Handlers :
    /\ call'[q].pc \in {"burn", "rotate", "rotateCommit", "end"} => Used(call'[q].s)
    /\ call'[q].pc = "rotateCommit" => Rotates(q) /\ call'[q].s = call[q].s

LEMMA AnswerKeeps ==
  ASSUME AuthTypeOK, TokensKnown, NEW p \in Handlers, Answer(p) PROVE Keeps
  BY AnswerTyped, RecordsTyped DEF Keeps, TokensKnown, HasToken, Rotates, In

LEMMA GotoKeeps ==
  ASSUME AuthTypeOK, TokensKnown, NEW p \in Handlers, NEW pc \in {"password", "bump", "send"}, Goto(p, pc)
  PROVE  Keeps
  <1>1. call[p] \in CallType
    BY DEF AuthTypeOK
  <1>2. [call[p] EXCEPT !.pc = pc].pc = pc
    BY <1>1 DEF CallType
  <1>3. call'[p].pc = pc /\ \A q \in Handlers : q # p => call'[q] = call[q]
    BY <1>2, GotoTyped
  <1> QED
    BY <1>3 DEF Keeps, TokensKnown, HasToken, Rotates, In

LEMMA EnterKeeps ==
  ASSUME AuthTypeOK, TokensKnown, NEW p \in Handlers, NEW s \in Sessions,
         NEW pc \in {"activate", "password", "burn", "rotate", "end", "revokeAll", "change"}, Enter(p, pc, s),
         pc \in {"burn", "rotate", "end"} => Used(s)
  PROVE  Keeps
  BY EnterTyped DEF Keeps, TokensKnown, HasToken, Rotates, In

LEMMA LivesSame ==
  ASSUME UNCHANGED sess PROVE \A n \in Sessions : (Live(n)' <=> Live(n)) /\ (Used(n)' <=> Used(n))
  BY DEF Live, Used

\* EndedStaysEnded, session by session.
LEMMA EndedFamilies ==
  EndedStaysEnded <=> \A n \in Sessions : Live(n) /\ sess[n].family \in ended => sess[n].family \in crossed
  BY DEF EndedStaysEnded, LiveOf

LEMMA QuietKeepsFamilies ==
  ASSUME AuthTypeOK, FamilyInv, Keeps, UNCHANGED <<sess, ended, crossed>> PROVE FamilyInv'
  <1>1. OneLivePerFamily' /\ EndedStaysEnded' /\ Rooted' /\ EndedKnown'
    BY DEF FamilyInv, OneLivePerFamily, EndedStaysEnded, LiveOf, Live, Rooted, EndedKnown, Used
  <1>2. TokensKnown'
    BY DEF Keeps, TokensKnown, HasToken, Used
  <1>3. RotatesAlone'
    <2>1. ASSUME NEW q \in Handlers, Rotates(q)'
          PROVE  Rotates(q) /\ FamilyOf(q)' = FamilyOf(q) /\ call'[q].s = call[q].s
      BY <2>1 DEF Keeps, Rotates, In, FamilyOf
    <2> QED
      BY <2>1 DEF FamilyInv, RotatesAlone, Live
  <1> QED
    BY <1>1, <1>2, <1>3 DEF FamilyInv

\* A revocation of whole families.
LEMMA RevokesFamilies ==
  ASSUME AuthTypeOK, AuthTypeOK', FamilyInv, Keeps, NEW F \in SUBSET Sessions, RevokeAllOf(F), \A f \in F : Used(f)
  PROVE  FamilyInv'
  <1>1. ASSUME NEW n \in Sessions
        PROVE  /\ sess'[n].family = sess[n].family /\ (Used(n)' <=> Used(n))
               /\ Live(n)' <=> Live(n) /\ sess[n].family \notin F
    BY DEF RevokeAllOf, Live, Used, AuthTypeOK, SessionType
  <1>2. ended' = ended \cup F /\ crossed' = (crossed \ F) \cup (F \cap Rotating)
    BY DEF RevokeAllOf
  <1>4. OneLivePerFamily'
    BY <1>1 DEF FamilyInv, OneLivePerFamily
  <1>5. EndedStaysEnded'
    <2>1. ASSUME NEW n \in Sessions, Live(n)', sess'[n].family \in ended' PROVE sess'[n].family \in crossed'
      <3>1. Live(n) /\ sess'[n].family = sess[n].family /\ sess[n].family \in ended \ F
        BY <1>1, <1>2, <2>1
      <3> QED
        BY <1>2, <3>1, EndedFamilies DEF FamilyInv
    <2> QED
      BY <2>1 DEF EndedStaysEnded, LiveOf
  <1>6. Rooted'
    <2>1. \A n \in Sessions : sess[n].family \in Sessions
      BY DEF AuthTypeOK, SessionType
    <2> QED
      BY <1>1, <2>1 DEF FamilyInv, Rooted
  <1>7. EndedKnown'
    BY <1>1, <1>2 DEF FamilyInv, EndedKnown, AuthTypeOK
  <1>8. TokensKnown'
    <2>1. \A n \in Sessions : Used(n) => Used(n)'
      BY <1>1
    <2>2. \A q \in Handlers : HasToken(q)' => call'[q].s \in Sessions /\ Used(call'[q].s)
      BY DEF Keeps, HasToken, AuthTypeOK, CallType
    <2> QED
      BY <2>1, <2>2 DEF TokensKnown
  <1>9. RotatesAlone'
    <2>1. ASSUME NEW q \in Handlers, Rotates(q)'
          PROVE  /\ Rotates(q) /\ FamilyOf(q)' = FamilyOf(q) /\ call'[q].s = call[q].s
                 /\ FamilyOf(q) \in Rotating
      <3>1. Rotates(q) /\ call'[q].s = call[q].s /\ call[q].s \in Sessions
        BY <2>1 DEF Keeps, Rotates, In, AuthTypeOK, CallType
      <3>2. FamilyOf(q) \in Rotating
        BY <3>1 DEF Rotates, FamilyOf, Rotating
      <3> QED
        BY <1>1, <3>1, <3>2 DEF FamilyOf
    <2> QED
      BY <1>1, <1>2, <2>1 DEF FamilyInv, RotatesAlone
  <1> QED
    BY <1>4, <1>5, <1>6, <1>7, <1>8, <1>9 DEF FamilyInv

\* A new session n of family f, while the session old, if it is of that family, is revoked.
LEMMA AddsToFamily ==
  ASSUME AuthTypeOK, AuthTypeOK', FamilyInv, Keeps, NEW n \in Sessions, NEW f \in Sessions, ~Used(n),
         \A m \in Sessions : /\ sess'[m].family = IF m = n THEN f ELSE sess[m].family
                             /\ Used(m)' <=> m = n \/ Used(m)
                             /\ Live(m)' => m = n \/ (Live(m) /\ sess[m].family # f),
         f = n \/ Used(f), f \in ended => f \in crossed,
         \A q \in Handlers : Rotates(q)' => FamilyOf(q) # f,
         UNCHANGED <<ended, crossed>>
  PROVE  FamilyInv'
  <1>1. \A m \in Sessions : Used(m) => m # n /\ Used(m)' /\ sess'[m].family = sess[m].family
    OBVIOUS
  <1>2. OneLivePerFamily'
    BY DEF FamilyInv, OneLivePerFamily
  <1>3. EndedStaysEnded'
    <2>1. ASSUME NEW m \in Sessions, Live(m)', sess'[m].family \in ended' PROVE sess'[m].family \in crossed'
      <3>1. CASE m = n
        BY <2>1, <3>1
      <3>2. CASE m # n
        BY <2>1, <3>2, EndedFamilies DEF FamilyInv
      <3> QED
        BY <3>1, <3>2
    <2> QED
      BY <2>1 DEF EndedStaysEnded, LiveOf
  <1>4. Rooted'
    <2>1. \A m \in Sessions : sess[m].family \in Sessions
      BY DEF AuthTypeOK, SessionType
    <2> QED
      BY <1>1, <2>1 DEF FamilyInv, Rooted
  <1>5. EndedKnown'
    BY <1>1 DEF FamilyInv, EndedKnown, AuthTypeOK
  <1>6. TokensKnown'
    <2>1. \A q \in Handlers : HasToken(q)' => call'[q].s \in Sessions /\ Used(call'[q].s)
      BY DEF Keeps, HasToken, AuthTypeOK, CallType
    <2> QED
      BY <1>1, <2>1 DEF TokensKnown
  <1>7. RotatesAlone'
    <2>1. ASSUME NEW q \in Handlers, Rotates(q)'
          PROVE  /\ Rotates(q) /\ FamilyOf(q)' = FamilyOf(q) /\ call'[q].s = call[q].s
                 /\ FamilyOf(q) # f
      <3>1. Rotates(q) /\ call'[q].s = call[q].s /\ call[q].s \in Sessions
        BY <2>1 DEF Keeps, Rotates, In, AuthTypeOK, CallType
      <3>2. Used(call[q].s)
        BY <3>1 DEF FamilyInv, TokensKnown, HasToken, Rotates, In
      <3> QED
        BY <1>1, <2>1, <3>1, <3>2 DEF FamilyOf
    <2> QED
      BY <2>1 DEF FamilyInv, RotatesAlone
  <1> QED
    BY <1>2, <1>3, <1>4, <1>5, <1>6, <1>7 DEF FamilyInv

LEMMA IssueFamilies ==
  ASSUME AuthTypeOK, AuthTypeOK', FamilyInv, NEW p \in Handlers, IssueTokenPair(p) PROVE FamilyInv'
  <1>1. PICK n \in Sessions : /\ sess[n].state = "none"
                              /\ sess' = [sess EXCEPT ![n] = NewSession(n, call[p].seen.version)]
    BY DEF IssueTokenPair, NextSession
  <1>2. ~Used(n) /\ \A m \in Sessions : Used(m) => sess[m].family # n
    BY <1>1 DEF Used, FamilyInv, Rooted
  <1>3. ASSUME NEW m \in Sessions
        PROVE  /\ sess'[m].family = IF m = n THEN n ELSE sess[m].family
               /\ Used(m)' <=> m = n \/ Used(m)
               /\ Live(m)' => m = n \/ (Live(m) /\ sess[m].family # n)
    <2>1. sess'[m] = IF m = n THEN NewSession(n, call[p].seen.version) ELSE sess[m]
      BY <1>1 DEF AuthTypeOK
    <2>2. m # n /\ Live(m) => Used(m)
      BY DEF Live, Used
    <2> QED
      BY <1>2, <2>1, <2>2 DEF NewSession, Used, Live
  <1>4. n \notin ended
    BY <1>2 DEF FamilyInv, EndedKnown
  <1>5. Keeps
    BY AnswerKeeps DEF IssueTokenPair, FamilyInv
  <1>6. \A q \in Handlers : Rotates(q)' => FamilyOf(q) # n
    <2>1. \A q \in Handlers : Rotates(q)' => Rotates(q) /\ call[q].s \in Sessions
      BY <1>5 DEF Keeps, Rotates, In, AuthTypeOK, CallType
    <2> QED
      BY <1>2, <2>1 DEF FamilyInv, TokensKnown, HasToken, Rotates, In, FamilyOf
  <1>7. UNCHANGED <<ended, crossed>>
    BY DEF IssueTokenPair, history
  <1> QED
    BY <1>2, <1>3, <1>4, <1>5, <1>6, <1>7, AddsToFamily

LEMMA RotateFamilies ==
  ASSUME AuthTypeOK, AuthTypeOK', FamilyInv, NEW p \in Handlers, RotateCommit(p) PROVE FamilyInv'
  <1> DEFINE s == call[p].s
             f == FamilyOf(p)
  <1>1. PICK n \in Sessions : /\ sess[n].state = "none"
                              /\ sess' = [sess EXCEPT ![s].state = "revoked",
                                                      ![n] = NewSession(f, call[p].seen.version)]
    BY DEF RotateCommit, NextSession, FamilyOf
  <1>2. Rotates(p) /\ s \in Sessions /\ Used(s) /\ f \in Sessions /\ Used(f) /\ ~Used(n)
    BY <1>1 DEF RotateCommit, Rotates, In, HasToken, TokensKnown, FamilyInv, Rooted, Used, FamilyOf,
                AuthTypeOK, CallType, SessionType
  <1>3. ASSUME NEW m \in Sessions
        PROVE  /\ sess'[m].family = IF m = n THEN f ELSE sess[m].family
               /\ Used(m)' <=> m = n \/ Used(m)
               /\ Live(m)' => m = n \/ (Live(m) /\ sess[m].family # f)
    <2>1. s # n
      BY <1>2
    <2>2. sess'[m] = IF m = n THEN NewSession(f, call[p].seen.version)
                     ELSE IF m = s THEN [sess[m] EXCEPT !.state = "revoked"] ELSE sess[m]
      BY <1>1, <1>2, <2>1 DEF AuthTypeOK
    <2>3. sess[m] \in SessionType
      BY DEF AuthTypeOK
    <2>4. /\ sess'[m].family = IF m = n THEN f ELSE sess[m].family
          /\ Used(m)' <=> m = n \/ Used(m)
          /\ Live(m)' => m = n \/ (Live(m) /\ m # s)
      BY <1>2, <2>1, <2>2, <2>3 DEF NewSession, Used, Live, SessionType
    <2>5. Live(m) /\ sess[m].family = f => m = s
      BY <1>2 DEF FamilyInv, RotatesAlone
    <2> QED
      BY <2>4, <2>5
  <1>4. f \in ended => f \in crossed
    BY <1>2 DEF FamilyInv, RotatesAlone
  <1>5. Keeps
    BY AnswerKeeps DEF RotateCommit, FamilyInv
  <1>6. \A q \in Handlers : Rotates(q)' => FamilyOf(q) # f
    <2>1. \A q \in Handlers : Rotates(q)' => Rotates(q) /\ q # p
      <3>1. call'[p].pc = "idle"
        BY AnswerTyped, RecordsTyped DEF RotateCommit
      <3> QED
        BY <1>5, <3>1 DEF Keeps, Rotates, In
    <2> QED
      BY <1>2, <2>1 DEF FamilyInv, RotatesAlone
  <1>7. UNCHANGED <<ended, crossed>>
    BY DEF RotateCommit, history
  <1> HIDE DEF s, f
  <1> QED
    BY <1>2, <1>3, <1>4, <1>5, <1>6, <1>7, AddsToFamily

\* The claim, which looks at the row once more.
LEMMA ClaimFamilies ==
  ASSUME AuthTypeOK, AuthTypeOK', FamilyInv, NEW p \in Handlers, Claim(p) PROVE FamilyInv'
  <1> DEFINE s == call[p].s
  <1>1. /\ In(p, "rotate") /\ UNCHANGED <<sess, ended, crossed>> /\ s \in Sessions
        /\ \A q \in Handlers : Rotates(q) => call[q].s # s
    BY DEF Claim, rest, history, Rotates, AuthTypeOK, CallType
  <1>2. CASE ~Live(s)
    <2>1. Answer(p)
      BY <1>2 DEF Claim
    <2> QED
      BY <1>1, <2>1, AnswerKeeps, QuietKeepsFamilies DEF FamilyInv
  <1>3. CASE Live(s)
    <2>1. Goto(p, "rotateCommit")
      BY <1>3 DEF Claim
    <2>2. /\ \A q \in Handlers : q # p => call'[q] = call[q]
          /\ call'[p].pc = "rotateCommit" /\ call'[p].s = s
      <3>1. call[p] \in CallType
        BY DEF AuthTypeOK
      <3>2. [call[p] EXCEPT !.pc = "rotateCommit"].pc = "rotateCommit"
            /\ [call[p] EXCEPT !.pc = "rotateCommit"].s = s
        BY <3>1 DEF CallType
      <3> QED
        BY <2>1, <3>2, GotoTyped
    <2>3. /\ \A q \in Handlers : FamilyOf(q)' = FamilyOf(q) /\ call'[q].s = call[q].s
          /\ \A q \in Handlers : Rotates(q)' <=> q = p \/ Rotates(q)
      BY <1>1, <2>2 DEF FamilyOf, Rotates, In
    <2>4. FamilyOf(p) \in ended => FamilyOf(p) \in crossed
      BY <1>1, <1>3, EndedFamilies DEF FamilyInv, FamilyOf
    <2>5. \A q \in Handlers : Rotates(q) => FamilyOf(q) # FamilyOf(p)
      BY <1>1, <1>3 DEF FamilyInv, RotatesAlone, FamilyOf
    <2>6. \A n \in Sessions : Live(n) /\ sess[n].family = FamilyOf(p) => n = s
      BY <1>1, <1>3 DEF FamilyInv, OneLivePerFamily, FamilyOf
    <2>7. OneLivePerFamily' /\ EndedStaysEnded' /\ Rooted' /\ EndedKnown'
      BY <1>1 DEF FamilyInv, OneLivePerFamily, EndedStaysEnded, LiveOf, Live, Rooted, EndedKnown, Used
    <2>8. TokensKnown'
      BY <1>1, <1>3, <2>2 DEF FamilyInv, TokensKnown, HasToken, Used, Live, In
    <2>9. RotatesAlone'
      BY <1>1, <2>3, <2>4, <2>5, <2>6 DEF FamilyInv, RotatesAlone, Live
    <2> QED
      BY <2>7, <2>8, <2>9 DEF FamilyInv
  <1> QED
    BY <1>2, <1>3

\* One session is ended; whatever else is live of its family, or is about to be, goes on.
LEMMA EndFamilies ==
  ASSUME AuthTypeOK, AuthTypeOK', FamilyInv, NEW p \in Handlers, EndCommit(p) PROVE FamilyInv'
  <1> DEFINE s == call[p].s
             f == FamilyOf(p)
  <1>1. /\ s \in Sessions /\ Used(s) /\ f \in Sessions /\ Used(f)
        /\ sess' = [sess EXCEPT ![s].state = "revoked"] /\ ended' = ended \cup {f}
        /\ crossed' = IF f \in Rotating \/ LiveOf(f) \ {s} # {} THEN crossed \cup {f} ELSE crossed \ {f}
    BY DEF EndCommit, In, HasToken, TokensKnown, FamilyInv, Rooted, FamilyOf, AuthTypeOK, CallType, SessionType
  <1>2. ASSUME NEW m \in Sessions
        PROVE  /\ sess'[m].family = sess[m].family /\ (Used(m)' <=> Used(m))
               /\ Live(m)' <=> Live(m) /\ m # s
    <2>1. sess'[m] = (IF m = s THEN [sess[m] EXCEPT !.state = "revoked"] ELSE sess[m]) /\ sess[m] \in SessionType
      BY <1>1 DEF AuthTypeOK
    <2>2. [sess[m] EXCEPT !.state = "revoked"].state = "revoked"
          /\ [sess[m] EXCEPT !.state = "revoked"].family = sess[m].family
      BY <2>1 DEF SessionType
    <2> HIDE DEF s
    <2> QED
      BY <1>1, <2>1, <2>2 DEF Used, Live
  <1>3. Keeps
    BY AnswerKeeps DEF EndCommit, FamilyInv
  <1>4. OneLivePerFamily'
    BY <1>2 DEF FamilyInv, OneLivePerFamily
  <1>5. EndedStaysEnded'
    <2>1. ASSUME NEW m \in Sessions, Live(m)', sess'[m].family \in ended' PROVE sess'[m].family \in crossed'
      <3>1. Live(m) /\ m # s /\ sess'[m].family = sess[m].family
        BY <1>2, <2>1
      <3>2. CASE sess[m].family = f
        <4>1. m \in LiveOf(f) \ {s}
          BY <3>1, <3>2 DEF LiveOf
        <4> QED
          BY <1>1, <3>1, <3>2, <4>1
      <3>3. CASE sess[m].family # f
        <4>1. sess[m].family \in crossed
          BY <1>1, <2>1, <3>1, <3>3, EndedFamilies DEF FamilyInv
        <4> HIDE DEF f, s
        <4> QED
          BY <1>1, <3>1, <3>3, <4>1
      <3> QED
        BY <3>2, <3>3
    <2> QED
      BY <2>1 DEF EndedStaysEnded, LiveOf
  <1>6. Rooted'
    <2>1. \A n \in Sessions : sess[n].family \in Sessions
      BY DEF AuthTypeOK, SessionType
    <2> QED
      BY <1>2, <2>1 DEF FamilyInv, Rooted
  <1>7. EndedKnown'
    BY <1>1, <1>2 DEF FamilyInv, EndedKnown, AuthTypeOK
  <1>8. TokensKnown'
    <2>1. \A q \in Handlers : HasToken(q)' => call'[q].s \in Sessions /\ Used(call'[q].s)
      BY <1>3 DEF Keeps, HasToken, AuthTypeOK, CallType
    <2> QED
      BY <1>2, <2>1 DEF TokensKnown
  <1>9. RotatesAlone'
    <2>1. ASSUME NEW q \in Handlers, Rotates(q)'
          PROVE  /\ Rotates(q) /\ FamilyOf(q)' = FamilyOf(q) /\ call'[q].s = call[q].s
                 /\ FamilyOf(q) \in Rotating
      <3>1. Rotates(q) /\ call'[q].s = call[q].s /\ call[q].s \in Sessions
        BY <1>3, <2>1 DEF Keeps, Rotates, In, AuthTypeOK, CallType
      <3>2. FamilyOf(q) \in Rotating
        BY <3>1 DEF Rotates, FamilyOf, Rotating
      <3> QED
        BY <1>2, <3>1, <3>2 DEF FamilyOf
    <2>2. \A q \in Handlers : Rotates(q)' /\ FamilyOf(q) \in ended' => FamilyOf(q) \in crossed'
      <3> HIDE DEF s, f
      <3> QED
        BY <1>1, <2>1 DEF FamilyInv, RotatesAlone
    <2> QED
      BY <1>2, <2>1, <2>2 DEF FamilyInv, RotatesAlone
  <1> QED
    BY <1>4, <1>5, <1>6, <1>7, <1>8, <1>9 DEF FamilyInv

LEMMA FamilyInitial == AuthInit => FamilyInv
  BY RecordsTyped DEF AuthInit, FamilyInv, Rooted, EndedKnown, TokensKnown, RotatesAlone, Rotates, HasToken,
                      In, Used, Live, LiveOf, OneLivePerFamily, EndedStaysEnded

\* Steps of one handler that leave the families as they are.
LEMMA QuietSteps ==
  ASSUME AuthTypeOK, FamilyInv, NEW p \in Handlers,
         \/ LoginSteps(p) /\ ~IssueTokenPair(p)
         \/ RefreshRevoked(p) \/ Refresh(p) \/ RotateRollback(p)
         \/ EndSession(p) \/ LogoutAll(p) \/ BumpAuthVersion(p)
         \/ ChangePassword(p) \/ AskForLink(p) \/ MarkUsed(p) \/ SendLink(p) \/ FollowLink(p) \/ VerifyEmail(p)
  PROVE  FamilyInv'
  <1>0. TokensKnown
    BY DEF FamilyInv
  <1>1. CASE LoginSteps(p) /\ ~IssueTokenPair(p)
    <2>1. CASE Login(p)
      <3>1. PICK pc \in {"activate", "password"} : Enter(p, pc, call[p].s)
        BY <2>1 DEF Login
      <3>2. call[p].s \in Sessions
        BY DEF AuthTypeOK, CallType
      <3> QED
        BY <1>0, <3>1, <3>2, EnterKeeps, EnterTyped, QuietKeepsFamilies
    <2>2. CASE Activate(p)
      <3>1. UNCHANGED <<sess, ended, crossed>> /\ Goto(p, "password")
        BY <2>2 DEF Activate
      <3> QED
        BY <1>0, <3>1, GotoKeeps, QuietKeepsFamilies
    <2>3. CASE WrongPassword(p)
      <3>1. UNCHANGED <<sess, ended, crossed>> /\ Answer(p)
        BY <2>3 DEF WrongPassword
      <3> QED
        BY <1>0, <3>1, AnswerKeeps, QuietKeepsFamilies
    <2>4. CASE RightPassword(p)
      <3>1. UNCHANGED <<sess, ended, crossed>>
        BY <2>4 DEF RightPassword
      <3>2. call'[p].pc = "issue" /\ \A q \in Handlers : q # p => call'[q] = call[q]
        BY <2>4 DEF RightPassword, AuthTypeOK, CallType
      <3>3. Keeps
        BY <1>0, <3>2 DEF Keeps, TokensKnown, HasToken, Rotates, In
      <3> QED
        BY <3>1, <3>3, QuietKeepsFamilies
    <2> QED
      BY <1>1, <2>1, <2>2, <2>3, <2>4 DEF LoginSteps
  <1>2. CASE RefreshRevoked(p) \/ Refresh(p) \/ EndSession(p) \/ LogoutAll(p) \/ ChangePassword(p)
    <2>1. PICK s \in Sessions, pc \in {"burn", "rotate", "end", "revokeAll", "change"} :
            Enter(p, pc, s) /\ sess[s].state \in {"revoked", "live"}
      BY <1>2 DEF RefreshRevoked, Refresh, EndSession, LogoutAll, ChangePassword, Authenticated, Live
    <2>2. Used(s)
      BY <2>1 DEF Used
    <2> QED
      BY <1>0, <2>1, <2>2, EnterKeeps, EnterTyped, QuietKeepsFamilies
  <1>3. CASE RotateRollback(p) \/ BumpAuthVersion(p) \/ SendLink(p) \/ VerifyEmail(p)
    <2>1. UNCHANGED <<sess, ended, crossed>> /\ Answer(p)
      BY <1>3 DEF RotateRollback, BumpAuthVersion, SendLink, VerifyEmail, history
    <2> QED
      BY <1>0, <2>1, AnswerKeeps, QuietKeepsFamilies
  <1>4. CASE MarkUsed(p)
    <2>1. UNCHANGED <<sess, ended, crossed>> /\ Goto(p, "send")
      BY <1>4 DEF MarkUsed, history
    <2> QED
      BY <1>0, <2>1, GotoKeeps, QuietKeepsFamilies
  <1>5. CASE AskForLink(p) \/ FollowLink(p)
    <2>1. Keeps
      BY <1>0, <1>5, LinkCallTyped DEF Keeps, TokensKnown, HasToken, Rotates, In
    <2> QED
      BY <1>5, <2>1, LinkCallTyped, QuietKeepsFamilies
  <1> QED
    BY <1>1, <1>2, <1>3, <1>4, <1>5

LEMMA RevokingSteps ==
  ASSUME AuthTypeOK, AuthTypeOK', FamilyInv, NEW p \in Handlers,
         Burn(p) \/ RevokeUserSessions(p) \/ ChangeCommit(p) \/ ResetPassword(p)
  PROVE  FamilyInv'
  <1>0. TokensKnown
    BY DEF FamilyInv
  <1>1. /\ Known \in SUBSET Sessions /\ \A f \in Known : Used(f)
        /\ Used(call[p].s) => FamilyOf(p) \in Known
    BY KnownTyped DEF Known, Used, FamilyInv, Rooted, FamilyOf, AuthTypeOK, CallType
  <1>2. CASE Burn(p)
    <2>1. Used(call[p].s) /\ Answer(p) /\ RevokeAllOf({FamilyOf(p)})
      BY <1>0, <1>2 DEF Burn, In, TokensKnown, HasToken, FamilyOf
    <2>2. {FamilyOf(p)} \in SUBSET Sessions /\ \A f \in {FamilyOf(p)} : Used(f)
      BY <1>1, <2>1
    <2> QED
      BY <1>0, <2>1, <2>2, AnswerKeeps, RevokesFamilies
  <1>3. CASE RevokeUserSessions(p)
    BY <1>0, <1>1, <1>3, GotoKeeps, RevokesFamilies DEF RevokeUserSessions
  <1>4. CASE ChangeCommit(p) \/ ResetPassword(p)
    <2>1. Answer(p) /\ RevokeAllOf(Known)
      BY <1>4 DEF ChangeCommit, ResetPassword
    <2> QED
      BY <1>0, <1>1, <2>1, AnswerKeeps, RevokesFamilies
  <1> QED
    BY <1>2, <1>3, <1>4

LEMMA FamilyStep == AuthTypeOK /\ FamilyInv /\ [AuthNext]_authVars => FamilyInv'
  <1> SUFFICES ASSUME AuthTypeOK, FamilyInv, [AuthNext]_authVars PROVE FamilyInv'
    OBVIOUS
  <1>0. AuthTypeOK'
    BY AuthStepTyped
  <1>1. CASE Register \/ DisableVerification \/ LockRunsOut \/ UNCHANGED authVars
    <2>1. UNCHANGED <<sess, call, ended, crossed>>
      BY <1>1 DEF Register, DisableVerification, LockRunsOut, authVars, history
    <2>2. Keeps
      BY <2>1 DEF Keeps, FamilyInv, TokensKnown, HasToken, Rotates, In
    <2> QED
      BY <2>1, <2>2, QuietKeepsFamilies
  <1>2. CASE \E p \in Handlers : LoginSteps(p) \/ RefreshSteps(p) \/ EndSteps(p) \/ PasswordSteps(p)
    <2>1. PICK p \in Handlers : LoginSteps(p) \/ RefreshSteps(p) \/ EndSteps(p) \/ PasswordSteps(p)
      BY <1>2
    <2>2. CASE LoginSteps(p)
      BY <1>0, <2>2, QuietSteps, IssueFamilies
    <2>3. CASE RefreshSteps(p)
      BY <1>0, <2>3, QuietSteps, RevokingSteps, ClaimFamilies, RotateFamilies DEF RefreshSteps
    <2>4. CASE EndSteps(p)
      BY <1>0, <2>4, QuietSteps, RevokingSteps, EndFamilies DEF EndSteps
    <2>5. CASE PasswordSteps(p)
      BY <1>0, <2>5, QuietSteps, RevokingSteps DEF PasswordSteps
    <2> QED
      BY <2>1, <2>2, <2>3, <2>4, <2>5
  <1> QED
    BY <1>1, <1>2 DEF AuthNext

\* Refresh tokens are sound for every number of handlers and sessions: however
\* rotations of one token, revocations, logouts and password changes interleave,
\* a family has one live session at most and none once it has ended, except when
\* the revocation ran into a rotation that had claimed the row and not committed.
THEOREM Families == AuthSpec => []FamiliesSound
  <1>1. AuthTypeOK /\ FamilyInv => FamiliesSound
    BY DEF FamilyInv, FamiliesSound
  <1> QED
    BY <1>1, AuthInitTyped, AuthStepTyped, FamilyInitial, FamilyStep, PTL DEF AuthSpec

-----------------------------------------------------------------------------
(* Wrong passwords *)

LEMMA CountedInitial == AuthInit => Counted
  BY AuthAssumption DEF AuthInit, Counted, NoAccount

LEMMA CountedStep == AuthTypeOK /\ Counted /\ [AuthNext]_authVars => Counted'
  <1> SUFFICES ASSUME AuthTypeOK, Counted, [AuthNext]_authVars PROVE Counted'
    OBVIOUS
  <1>0. account \in AccountType /\ MaxAttempts \in Nat \ {0} /\ fails \in Nat
    BY AuthAssumption DEF AuthTypeOK
  <1>1. ASSUME account'.attempts = account.attempts, account'.status = account.status, UNCHANGED <<fails, stale>>
        PROVE  Counted'
    BY <1>1 DEF Counted
  <1>2. ASSUME account'.attempts = 0, fails' = 0 PROVE Counted'
    BY <1>0, <1>2 DEF Counted
  <1>3. CASE Register
    <2>1. /\ account'.attempts = account.attempts /\ account.status = "NONE" /\ UNCHANGED <<fails, stale>>
          /\ account'.status # "LOCKED"
      BY <1>0, <1>3 DEF Register, AccountType, history
    <2> QED
      BY <1>0, <2>1 DEF Counted
  <1>4. CASE DisableVerification \/ UNCHANGED authVars
    BY <1>1, <1>4 DEF DisableVerification, authVars, history
  <1>5. CASE LockRunsOut
    <2>1. account'.attempts = account.attempts /\ account'.status = account.status /\ UNCHANGED <<fails, stale>>
      BY <1>0, <1>5 DEF LockRunsOut, AccountType, history
    <2> QED
      BY <1>1, <2>1
  <1>6. ASSUME NEW p \in Handlers, LoginSteps(p) PROVE Counted'
    <2>0. call[p].seen \in AccountType
      BY DEF AuthTypeOK, CallType
    <2>1. CASE Login(p)
      BY <1>1, <2>1 DEF Login, Enter, history
    <2>2. CASE Activate(p)
      <3>1. /\ account'.attempts = account.attempts /\ account'.status = "ACTIVE" /\ UNCHANGED fails
            /\ stale' \/ account.status # "LOCKED"
        BY <1>0, <2>2 DEF Activate, AccountType
      <3>2. stale => stale'
        BY <2>2 DEF Activate
      <3> QED
        BY <1>0, <3>1, <3>2 DEF Counted, AccountType
    <2>3. CASE WrongPassword(p)
      <3> DEFINE n == call[p].seen.attempts + 1
      <3>1. /\ account'.attempts = n /\ fails' = fails + 1
            /\ n >= MaxAttempts => account'.status = "LOCKED"
        BY <1>0, <2>3 DEF WrongPassword, Failed, AccountType
      <3>2. stale' \/ /\ ~stale /\ account.attempts = call[p].seen.attempts
                      /\ account.status # "LOCKED"
        BY <2>3 DEF WrongPassword
      <3> QED
        BY <1>0, <2>0, <3>1, <3>2 DEF Counted, AccountType
    <2>4. CASE RightPassword(p)
      <3>1. account'.attempts = 0 /\ fails' = 0
        BY <1>0, <2>4 DEF RightPassword, AccountType
      <3> QED
        BY <1>2, <3>1
    <2>5. CASE IssueTokenPair(p)
      BY <1>1, <2>5 DEF IssueTokenPair, history
    <2> QED
      BY <1>6, <2>1, <2>2, <2>3, <2>4, <2>5 DEF LoginSteps
  <1>7. ASSUME NEW p \in Handlers, RefreshSteps(p) PROVE Counted'
    <2>1. UNCHANGED <<account, fails, stale>>
      BY <1>7 DEF RefreshSteps, RefreshRevoked, Refresh, Burn, Claim, RotateCommit, RotateRollback, Enter, history
    <2> QED
      BY <1>1, <2>1
  <1>8. ASSUME NEW p \in Handlers, EndSteps(p) PROVE Counted'
    <2>1. /\ account'.attempts = account.attempts /\ account'.status = account.status
          /\ UNCHANGED <<fails, stale>>
      BY <1>0, <1>8 DEF EndSteps, EndSession, EndCommit, LogoutAll, RevokeUserSessions, BumpAuthVersion,
                        Enter, history, AccountType
    <2> QED
      BY <1>1, <2>1
  <1>9. ASSUME NEW p \in Handlers, PasswordSteps(p) PROVE Counted'
    <2>1. CASE VerifyEmail(p) \/ ResetPassword(p)
      <3>1. account'.attempts = 0 /\ fails' = 0
        BY <1>0, <2>1 DEF VerifyEmail, ResetPassword, AccountType
      <3> QED
        BY <1>2, <3>1
    <2>2. CASE ~(VerifyEmail(p) \/ ResetPassword(p))
      <3>1. /\ account'.attempts = account.attempts /\ account'.status = account.status
            /\ UNCHANGED <<fails, stale>>
        BY <1>0, <1>9, <2>2 DEF PasswordSteps, ChangePassword, ChangeCommit, AskForLink, MarkUsed, SendLink,
                                FollowLink, Enter, history, AccountType
      <3> QED
        BY <1>1, <3>1
    <2> QED
      BY <2>1, <2>2
  <1> QED
    BY <1>3, <1>4, <1>5, <1>6, <1>7, <1>8, <1>9 DEF AuthNext

\* Whatever the limit and however many logins are tried, at most
\* MAX_FAILED_LOGIN_ATTEMPTS wrong passwords are answered in a row, unless logins
\* overlapped and one wrote over a counter or a lock it had not read.
THEOREM Guesses == AuthSpec => []GuessesBounded
  <1>1. AuthTypeOK /\ Counted => GuessesBounded
    BY DEF Counted, GuessesBounded
  <1> QED
    BY <1>1, AuthInitTyped, AuthStepTyped, CountedInitial, CountedStep, PTL DEF AuthSpec


-----------------------------------------------------------------------------
(* BrowserSession.  Outside of the families that are excused, a call that is   *)
(* about to refresh carries a live session, no two carry the same one, and the *)
(* session of the cookie is dead only while the call that spent it is on its   *)
(* way back.  What an answer brings nobody else holds.                         *)

Excused(s) == s = None \/ Family(s) \in excused
KnownRow(s) == s = None \/ session[s].state # "none"
Renews(f) == f.kind \in {"boot", "refresh"}
Spent(f) == Renews(f) /\ f.pc = "answered" /\ f.got # None /\ f.cookie = jar

RowsRooted == \A s \in SessionIds :
    /\ session[s].state # "none" => session[s].family \in SessionIds
    /\ session[s].state = "none" => session[s].family = None /\ ~session[s].burnt
CallsKnown == KnownRow(jar) /\ \A f \in flight : KnownRow(f.cookie) /\ KnownRow(f.got)
Unshared == \A f \in flight : f.got # None =>
    /\ jar # f.got
    /\ \A g \in flight : g.cookie # f.got /\ (g # f => g.got # f.got)
CallsLive == \A f \in flight :
    /\ Renews(f) /\ f.pc = "sent" => Alive(f.cookie) \/ Excused(f.cookie)
    /\ f.got # None => Alive(f.got) \/ Excused(f.got)
    /\ f.gone => Excused(f.cookie)
OneRenews == \A f, g \in flight :
    Renews(f) /\ f.pc = "sent" /\ Renews(g) /\ g.pc = "sent" /\ f.cookie = g.cookie /\ f # g => Excused(f.cookie)
JarLive == Excused(jar) \/ Alive(jar) \/ \E f \in flight : Spent(f)
BurntExcused == \A s \in SessionIds : session[s].burnt => Family(s) \in excused

FamiliesKept == /\ RowsRooted /\ CallsKnown /\ Unshared /\ CallsLive /\ OneRenews
                /\ JarLive /\ BurntExcused

\* A tab that loads waits for its bootstrap and nothing else, and has not opened its
\* pages; it refreshes once at a time, and is late when it is signed out with a token.
TabHolds(t) ==
    /\ \A f \in OfTab(t) : f.kind = "boot" => tab[t].status = "loading" /\ OfTab(t) = {f}
    /\ tab[t].status = "loading" => \A f \in OfTab(t) : f.kind = "boot"
    /\ \A f, g \in OfTab(t) : f.kind = "refresh" /\ g.kind = "refresh" => f = g
    /\ tab[t].opened => tab[t].status # "loading"
    /\ tab[t].status = "out" => t \in late \/ tab[t].token = None
TabsHold == \A t \in Tabs : TabHolds(t)

BrowserInv == BrowserTypeOK /\ FamiliesKept /\ TabsHold

-----------------------------------------------------------------------------

LEMMA IdFacts == SessionIds \subseteq Nat /\ None \notin SessionIds /\ MaxSent \in Nat
  BY BrowserAssumption DEF SessionIds, None

LEMMA BrowserInitial == BrowserInit => BrowserInv
  <1> SUFFICES ASSUME BrowserInit PROVE BrowserInv
    OBVIOUS
  <1>1. BrowserTypeOK
    <2>1. session \in [SessionIds -> SessionRow]
      BY DEF BrowserInit, SessionRow
    <2>2. tab \in [Tabs -> TabType]
      BY DEF BrowserInit, Fresh, TabType, TabStatus
    <2>3. /\ jar \in SessionIds \cup {None} /\ flight \subseteq FlightType
          /\ excused \subseteq SessionIds /\ late \subseteq Tabs
      BY DEF BrowserInit
    <2>4. sent \in 0..MaxSent
      BY IdFacts DEF BrowserInit
    <2> QED
      BY <2>1, <2>2, <2>3, <2>4 DEF BrowserTypeOK
  <1>2. FamiliesKept
    BY DEF BrowserInit, FamiliesKept, RowsRooted, CallsKnown, Unshared, CallsLive, OneRenews, JarLive, BurntExcused,
           KnownRow, Excused
  <1>3. TabsHold
    BY DEF BrowserInit, Fresh, TabsHold, TabHolds, OfTab
  <1> QED
    BY <1>1, <1>2, <1>3 DEF BrowserInv

\* The families of calls are families of rows.
LEMMA FamiliesTyped ==
  ASSUME BrowserTypeOK, FamiliesKept, NEW fs \in SUBSET flight
  PROVE  /\ FamiliesOf(fs) \subseteq SessionIds
         /\ \A f \in fs : /\ f.cookie = None \/ Family(f.cookie) \in FamiliesOf(fs)
                          /\ f.got = None \/ Family(f.got) \in FamiliesOf(fs)
  <1>1. \A f \in flight : f.cookie \in SessionIds \cup {None} /\ f.got \in SessionIds \cup {None}
    BY DEF BrowserTypeOK, FlightType
  <1>2. \A f \in flight : KnownRow(f.cookie) /\ KnownRow(f.got)
    BY DEF FamiliesKept, CallsKnown
  <1>3. \A s \in SessionIds : session[s].state # "none" => Family(s) \in SessionIds
    BY DEF FamiliesKept, RowsRooted, Family
  <1> DEFINE pairs == {{f.cookie, f.got} : f \in fs}
             held == (UNION pairs) \ {None}
  <1>4. ASSUME NEW s \in held PROVE Family(s) \in SessionIds
    <2>0. PICK x \in pairs : s \in x /\ s # None
      <3> HIDE DEF pairs
      <3> QED
        OBVIOUS
    <2>1. PICK f \in fs : s \in {f.cookie, f.got} /\ s # None
      <3>1. \E f \in fs : x = {f.cookie, f.got}
        BY <2>0, Zenon
      <3>2. PICK f \in fs : x = {f.cookie, f.got}
        BY <3>1
      <3> QED
        BY <2>0, <3>2
    <2>2. s \in SessionIds /\ KnownRow(s)
      BY <1>1, <1>2, <2>1
    <2> QED
      BY <1>3, <2>1, <2>2 DEF KnownRow
  <1>5. FamiliesOf(fs) = {Family(s) : s \in held}
    BY DEF FamiliesOf
  <1>6. ASSUME NEW f \in fs PROVE {f.cookie, f.got} \ {None} \subseteq held
    <2>1. {f.cookie, f.got} \in pairs
      OBVIOUS
    <2> HIDE DEF pairs
    <2>2. {f.cookie, f.got} \subseteq UNION pairs
      BY <2>1
    <2> QED
      BY <2>2
  <1> HIDE DEF held
  <1> QED
    BY <1>4, <1>5, <1>6

\* The server answers f; Became says what may have become of the rows.
Became(f, n) ==
    /\ session' \in [SessionIds -> SessionRow]
    /\ excused \subseteq excused' /\ excused' \subseteq SessionIds
    /\ RowsRooted' /\ BurntExcused'
    /\ \A s \in SessionIds : /\ session[s].state # "none" => session'[s].state # "none" /\ Family(s)' = Family(s)
                             /\ Alive(s) => Alive(s)' \/ Excused(s)' \/ (s = f.cookie /\ Renews(f) /\ n # None)
    /\ n \in SessionIds \cup {None}
    /\ n # None => session[n].state = "none" /\ session'[n].state = "live"

LEMMA ServerAnswers ==
  ASSUME BrowserInv, NEW f \in flight, NEW n, f.pc = "sent", Became(f, n), Answers(f, n), UNCHANGED <<jar, tab, sent, late>>
  PROVE  BrowserInv'
  <1> DEFINE a == [f EXCEPT !.pc = "answered", !.got = n]
  <1>1. /\ flight \subseteq FlightType /\ f \in FlightType /\ jar \in SessionIds \cup {None}
        /\ \A g \in flight : g.cookie \in SessionIds \cup {None} /\ g.got \in SessionIds \cup {None}
    BY DEF BrowserInv, BrowserTypeOK, FlightType
  <1>2. /\ a \in FlightType /\ a.pc = "answered" /\ a.got = n /\ a.kind = f.kind /\ a.tab = f.tab
        /\ a.cookie = f.cookie /\ a.gone = f.gone
    BY <1>1 DEF FlightType, Became
  <1>3. flight' = (flight \ {f}) \cup {a}
    BY DEF Answers
  <1> HIDE DEF a
  <1>4. BrowserTypeOK'
    BY <1>1, <1>2, <1>3 DEF BrowserInv, BrowserTypeOK, Became
  <1>5. \A s \in SessionIds \cup {None} : KnownRow(s) => KnownRow(s)' /\ (Excused(s) => Excused(s)')
    BY DEF KnownRow, Excused, Became
  <1>6. \A s \in SessionIds \cup {None} : Alive(s) => Alive(s)' \/ Excused(s)' \/ (s = f.cookie /\ Renews(f) /\ n # None)
    BY DEF Alive, Became
  <1>7. n = None \/ (n \in SessionIds /\ ~KnownRow(n) /\ KnownRow(n)' /\ Alive(n)' /\ n # None)
    BY IdFacts DEF Became, KnownRow, Alive
  <1>8. KnownRow(jar) /\ \A g \in flight : KnownRow(g.cookie) /\ KnownRow(g.got)
    BY DEF BrowserInv, FamiliesKept, CallsKnown
  <1>9. CallsKnown'
    BY <1>1, <1>2, <1>3, <1>5, <1>7, <1>8 DEF CallsKnown, KnownRow
  <1>10. Unshared'
    <2>1. Unshared
      BY DEF BrowserInv, FamiliesKept
    <2> QED
      BY <1>2, <1>3, <1>7, <1>8, <2>1 DEF Unshared
  <1>11. CallsLive'
    <2>1. ASSUME NEW g \in flight, g # f
          PROVE  /\ Renews(g) /\ g.pc = "sent" => Alive(g.cookie)' \/ Excused(g.cookie)'
                 /\ g.got # None => Alive(g.got)' \/ Excused(g.got)'
                 /\ g.gone => Excused(g.cookie)'
      <3>1. /\ Renews(g) /\ g.pc = "sent" => Alive(g.cookie) \/ Excused(g.cookie)
            /\ g.got # None => Alive(g.got) \/ Excused(g.got)
            /\ g.gone => Excused(g.cookie)
        BY DEF BrowserInv, FamiliesKept, CallsLive
      <3>2. KnownRow(g.cookie) /\ KnownRow(g.got) /\ g.cookie \in SessionIds \cup {None} /\ g.got \in SessionIds \cup {None}
        BY <1>1, <1>8
      <3>3. g.got # None => g.got # f.cookie
        BY DEF BrowserInv, FamiliesKept, Unshared
      <3>4. Renews(g) /\ g.pc = "sent" /\ Renews(f) /\ g.cookie = f.cookie => Excused(g.cookie)
        BY <2>1 DEF BrowserInv, FamiliesKept, OneRenews
      <3> QED
        BY <1>5, <1>6, <3>1, <3>2, <3>3, <3>4
    <2>2. f.gone => Excused(f.cookie)'
      BY <1>1, <1>5, <1>8 DEF BrowserInv, FamiliesKept, CallsLive
    <2> QED
      BY <1>2, <1>3, <1>7, <2>1, <2>2 DEF CallsLive
  <1>12. OneRenews'
    <2>1. ASSUME NEW g \in flight', NEW h \in flight', Renews(g), g.pc = "sent", Renews(h), h.pc = "sent",
                 g.cookie = h.cookie, g # h
          PROVE  Excused(g.cookie)'
      <3>1. g \in flight /\ h \in flight
        BY <1>2, <1>3, <2>1
      <3>2. Excused(g.cookie)
        BY <2>1, <3>1 DEF BrowserInv, FamiliesKept, OneRenews
      <3> QED
        BY <1>1, <1>5, <1>8, <3>1, <3>2
    <2> QED
      BY <2>1 DEF OneRenews, Renews
  <1>13. JarLive'
    <2>1. CASE Excused(jar)
      BY <1>1, <1>5, <1>8, <2>1 DEF JarLive, Excused
    <2>2. CASE Alive(jar) /\ jar # f.cookie
      BY <1>1, <1>6, <2>2 DEF JarLive, Excused, Alive
    <2>3. CASE jar = f.cookie /\ Renews(f) /\ n # None
      <3>1. Spent(a)'
        BY <1>2, <2>3 DEF Spent, Renews
      <3> QED
        BY <1>3, <3>1 DEF JarLive
    <2>4. CASE Alive(jar) /\ ~(Renews(f) /\ n # None)
      BY <1>1, <1>6, <2>4 DEF JarLive, Excused, Alive
    <2>5. CASE \E g \in flight : Spent(g)
      <3>1. PICK g \in flight : Spent(g)
        BY <2>5
      <3>2. g \in flight' /\ Spent(g)'
        BY <1>3, <3>1 DEF Spent, Renews
      <3> QED
        BY <3>2 DEF JarLive
    <2>6. JarLive
      BY DEF BrowserInv, FamiliesKept
    <2> QED
      BY <2>1, <2>2, <2>3, <2>4, <2>5, <2>6 DEF JarLive
  <1>14. TabsHold'
    <2>1. ASSUME NEW t \in Tabs PROVE TabHolds(t)'
      <3>1. TabHolds(t)
        BY DEF BrowserInv, TabsHold
      <3>2. OfTab(t)' = IF f \in OfTab(t) THEN (OfTab(t) \ {f}) \cup {a} ELSE OfTab(t)
        BY <1>2, <1>3 DEF OfTab
      <3>3. CASE f \notin OfTab(t)
        BY <3>1, <3>2, <3>3 DEF TabHolds, Refreshing
      <3>4. CASE f \in OfTab(t)
        <4>1. /\ \A g \in OfTab(t)' : g.kind = "boot" => tab[t].status = "loading" /\ OfTab(t)' = {g}
              /\ tab[t].status = "loading" => \A g \in OfTab(t)' : g.kind = "boot"
              /\ \A g, h \in OfTab(t)' : g.kind = "refresh" /\ h.kind = "refresh" => g = h
          BY <1>2, <3>1, <3>2, <3>4 DEF TabHolds
        <4>2. Refreshing(t)' <=> Refreshing(t)
          BY <1>2, <3>2, <3>4 DEF Refreshing
        <4> QED
          BY <3>1, <4>1, <4>2 DEF TabHolds
      <3> QED
        BY <3>3, <3>4
    <2> QED
      BY <2>1 DEF TabsHold
  <1>15. RowsRooted' /\ BurntExcused'
    BY DEF Became
  <1> QED
    BY <1>4, <1>9, <1>10, <1>11, <1>12, <1>13, <1>14, <1>15 DEF BrowserInv, FamiliesKept

LEMMA RotateAnswers ==
  ASSUME BrowserInv, NEW f \in flight, Rotate(f) PROVE BrowserInv'
  <1> DEFINE s == f.cookie
  <1>1. PICK n \in SessionIds :
          /\ Renews(f) /\ f.pc = "sent" /\ Alive(s) /\ session[n].state = "none" /\ Answers(f, n)
          /\ session' = [session EXCEPT ![s].state = "revoked",
                                        ![n] = [state |-> "live", family |-> Family(s), burnt |-> FALSE]]
          /\ UNCHANGED <<jar, tab, sent, excused, late>>
    BY DEF Rotate, Waiting, NextRow, Renews
  <1>2. s \in SessionIds /\ session[s].state = "live" /\ s # n
    BY <1>1 DEF Alive, BrowserInv, BrowserTypeOK, FlightType
  <1> DEFINE old == [session[s] EXCEPT !.state = "revoked"]
             new == [state |-> "live", family |-> Family(s), burnt |-> FALSE]
  <1>3. session[s] \in SessionRow /\ Family(s) \in SessionIds
    BY <1>2 DEF BrowserInv, BrowserTypeOK, FamiliesKept, RowsRooted, Family
  <1>4. /\ old \in SessionRow /\ old.state = "revoked" /\ old.family = Family(s) /\ old.burnt = session[s].burnt
        /\ new \in SessionRow /\ new.state = "live" /\ new.family = Family(s) /\ ~new.burnt
    BY <1>3 DEF SessionRow, Family
  <1>5. session' = [session EXCEPT ![s] = old, ![n] = new]
    BY <1>1, <1>2 DEF BrowserInv, BrowserTypeOK
  <1> HIDE DEF old, new
  <1>6. /\ session' \in [SessionIds -> SessionRow] /\ session'[s] = old /\ session'[n] = new
        /\ \A m \in SessionIds \ {s, n} : session'[m] = session[m]
    BY <1>2, <1>4, <1>5 DEF BrowserInv, BrowserTypeOK
  <1>7. RowsRooted' /\ BurntExcused'
    <2>1. RowsRooted /\ BurntExcused
      BY DEF BrowserInv, FamiliesKept
    <2>2. ASSUME NEW m \in SessionIds
          PROVE  /\ session'[m].state # "none" => session'[m].family \in SessionIds
                 /\ session'[m].state = "none" => session'[m].family = None /\ ~session'[m].burnt
                 /\ session'[m].burnt => session'[m].family \in excused
      <3>1. CASE m = n
        BY <1>3, <1>4, <1>6, <3>1
      <3>2. CASE m = s
        BY <1>2, <1>3, <1>4, <1>6, <2>1, <3>2 DEF BurntExcused, Family
      <3>3. CASE m \notin {s, n}
        BY <1>6, <2>1, <3>3 DEF RowsRooted, BurntExcused, Family
      <3> QED
        BY <3>1, <3>2, <3>3
    <2> QED
      BY <1>1, <2>2 DEF RowsRooted, BurntExcused, Family
  <1>8. \A m \in SessionIds : /\ session[m].state # "none" => session'[m].state # "none" /\ Family(m)' = Family(m)
                              /\ Alive(m) => Alive(m)' \/ m = s
    BY <1>1, <1>2, <1>4, <1>6 DEF Alive, Family
  <1>9. n # None
    BY IdFacts
  <1>10. Became(f, n)
    BY <1>1, <1>4, <1>6, <1>7, <1>8, <1>9 DEF Became, BrowserInv, BrowserTypeOK
  <1> QED
    BY <1>1, <1>10, ServerAnswers

\* The family of a spent cookie, if any, is excused before it is burnt.
LEMMA RefuseAnswers ==
  ASSUME BrowserInv, NEW f \in flight, Refuse(f) PROVE BrowserInv'
  <1> DEFINE s == f.cookie
  <1>1. /\ Renews(f) /\ f.pc = "sent" /\ ~Alive(s) /\ Answers(f, None) /\ UNCHANGED <<jar, tab, sent, excused, late>>
    BY DEF Refuse, Waiting, Renews
  <1>2. RowsRooted /\ BurntExcused /\ session \in [SessionIds -> SessionRow] /\ excused \subseteq SessionIds
        /\ s \in SessionIds \cup {None}
    BY DEF BrowserInv, FamiliesKept, BrowserTypeOK, FlightType
  <1>3. Excused(s)
    BY <1>1 DEF BrowserInv, FamiliesKept, CallsLive
  <1>4. CASE UNCHANGED session
    <2>1. RowsRooted' /\ BurntExcused'
      BY <1>1, <1>2, <1>4 DEF RowsRooted, BurntExcused, Family
    <2>2. Became(f, None)
      BY <1>1, <1>2, <1>4, <2>1 DEF Became, Alive, Family
    <2> QED
      BY <1>1, <2>2, ServerAnswers
  <1>5. CASE ~UNCHANGED session
    <2>1. /\ s # None
          /\ session' = [n \in SessionIds |-> IF session[n].family = Family(s)
                          THEN [session[n] EXCEPT !.state = "revoked", !.burnt = TRUE] ELSE session[n]]
      BY <1>5 DEF Refuse
    <2>2. KnownRow(s)
      BY DEF BrowserInv, FamiliesKept, CallsKnown
    <2>3. Family(s) \in SessionIds /\ Family(s) \in excused /\ Family(s) # None
      BY <1>2, <1>3, <2>1, <2>2, IdFacts DEF KnownRow, Excused, RowsRooted, Family
    <2>4. ASSUME NEW n \in SessionIds
          PROVE  /\ session'[n] \in SessionRow /\ session'[n].family = session[n].family
                 /\ session[n].state = "none" => session'[n] = session[n]
                 /\ session[n].state # "none" => session'[n].state # "none"
                 /\ session[n].family # Family(s) => session'[n] = session[n]
      <3>1. session[n] \in SessionRow
        BY <1>2
      <3>2. session[n].state = "none" => session[n].family # Family(s)
        BY <1>2, <2>3 DEF RowsRooted
      <3>3. CASE session[n].family = Family(s)
        <4>1. session'[n] = [session[n] EXCEPT !.state = "revoked", !.burnt = TRUE]
          BY <2>1, <3>3
        <4> QED
          BY <3>1, <3>2, <3>3, <4>1 DEF SessionRow
      <3>4. CASE session[n].family # Family(s)
        BY <2>1, <3>1, <3>4
      <3> QED
        BY <3>3, <3>4
    <2>5. session' \in [SessionIds -> SessionRow]
      BY <2>1, <2>4
    <2>6. RowsRooted'
      BY <1>2, <2>4 DEF RowsRooted
    <2>7. BurntExcused'
      BY <1>1, <1>2, <2>3, <2>4 DEF BurntExcused, Family
    <2>8. \A m \in SessionIds : Alive(m) => Alive(m)' \/ Excused(m)'
      BY <1>1, <2>3, <2>4 DEF Alive, Excused, Family
    <2>9. Became(f, None)
      BY <1>1, <1>2, <2>4, <2>5, <2>6, <2>7, <2>8 DEF Became, Family
    <2> QED
      BY <1>1, <2>9, ServerAnswers
  <1> QED
    BY <1>4, <1>5

LEMMA LoginAnswers ==
  ASSUME BrowserInv, NEW f \in flight, Authenticate(f) PROVE BrowserInv'
  <1> DEFINE new(n) == [state |-> "live", family |-> n, burnt |-> FALSE]
  <1>1. PICK n \in SessionIds :
          /\ f.pc = "sent" /\ session[n].state = "none" /\ Answers(f, n)
          /\ session' = [session EXCEPT ![n] = new(n)]
          /\ UNCHANGED <<jar, tab, sent, excused, late>>
    BY DEF Authenticate, Waiting, NextRow
  <1>2. new(n) \in SessionRow /\ new(n).state = "live" /\ new(n).family = n /\ ~new(n).burnt
    BY DEF SessionRow
  <1> HIDE DEF new
  <1>3. RowsRooted /\ BurntExcused /\ session \in [SessionIds -> SessionRow] /\ excused \subseteq SessionIds
    BY DEF BrowserInv, FamiliesKept, BrowserTypeOK
  <1>4. /\ session' \in [SessionIds -> SessionRow] /\ session'[n] = new(n)
        /\ \A m \in SessionIds \ {n} : session'[m] = session[m]
    BY <1>1, <1>2, <1>3
  <1>5. RowsRooted'
    BY <1>2, <1>3, <1>4 DEF RowsRooted
  <1>6. BurntExcused'
    BY <1>1, <1>2, <1>3, <1>4 DEF BurntExcused, Family
  <1>7. Became(f, n)
    BY <1>1, <1>2, <1>3, <1>4, <1>5, <1>6 DEF Became, Alive, Family
  <1> QED
    BY <1>1, <1>7, ServerAnswers

LEMMA LogoutAnswers ==
  ASSUME BrowserInv, NEW f \in flight, EndSessionOf(f) PROVE BrowserInv'
  <1> DEFINE s == f.cookie
  <1>1. f.pc = "sent" /\ Answers(f, None) /\ UNCHANGED <<jar, tab, sent, late>>
    BY DEF EndSessionOf, Waiting
  <1>2. RowsRooted /\ BurntExcused /\ session \in [SessionIds -> SessionRow] /\ excused \subseteq SessionIds
        /\ s \in SessionIds \cup {None}
    BY DEF BrowserInv, FamiliesKept, BrowserTypeOK, FlightType
  <1>3. CASE Alive(s)
    <2> DEFINE old == [session[s] EXCEPT !.state = "revoked"]
    <2>1. /\ session' = [session EXCEPT ![s] = old] /\ excused' = excused \cup {Family(s)}
          /\ s \in SessionIds /\ session[s].state = "live"
      BY <1>2, <1>3 DEF EndSessionOf, Alive
    <2>2. session[s] \in SessionRow /\ Family(s) \in SessionIds
      BY <1>2, <2>1 DEF RowsRooted, Family
    <2>3. old \in SessionRow /\ old.state = "revoked" /\ old.family = Family(s) /\ old.burnt = session[s].burnt
      BY <2>2 DEF SessionRow, Family
    <2> HIDE DEF old
    <2>4. /\ session' \in [SessionIds -> SessionRow] /\ session'[s] = old
          /\ \A m \in SessionIds \ {s} : session'[m] = session[m]
      BY <1>2, <2>1, <2>3
    <2>5. RowsRooted'
      BY <1>2, <2>1, <2>2, <2>3, <2>4 DEF RowsRooted
    <2>6. BurntExcused'
      BY <1>2, <2>1, <2>3, <2>4 DEF BurntExcused, Family
    <2>7. \A m \in SessionIds : /\ session[m].state # "none" => session'[m].state # "none" /\ Family(m)' = Family(m)
                                /\ Alive(m) => Alive(m)' \/ Excused(m)'
      BY <2>1, <2>3, <2>4 DEF Alive, Excused, Family
    <2>8. Became(f, None)
      BY <1>2, <2>1, <2>2, <2>4, <2>5, <2>6, <2>7 DEF Became
    <2> QED
      BY <1>1, <2>8, ServerAnswers
  <1>4. CASE ~Alive(s)
    <2>1. UNCHANGED <<session, excused>>
      BY <1>4 DEF EndSessionOf
    <2>2. RowsRooted' /\ BurntExcused'
      BY <1>2, <2>1 DEF RowsRooted, BurntExcused, Family
    <2>3. Became(f, None)
      BY <1>2, <2>1, <2>2 DEF Became, Alive, Family
    <2> QED
      BY <1>1, <2>3, ServerAnswers
  <1> QED
    BY <1>3, <1>4

-----------------------------------------------------------------------------
(* The tabs *)

\* Calls are sent and end, pages are left; the cookie is none of the tabs' business.
LEMMA TabsMove ==
  ASSUME BrowserInv, UNCHANGED <<session, jar>>, excused \subseteq excused', excused' \subseteq SessionIds,
         NEW new \in SUBSET FlightType, \A c, d \in new : c = d,
         \A c \in new : /\ c.pc = "sent" /\ c.cookie = jar /\ c.got = None /\ ~c.gone
                        /\ Renews(c) => \A f \in flight : Renews(f) /\ f.cookie = jar => Excused(jar)',
         flight' \subseteq FlightType,
         \A g \in flight' : g \in new \/ g \in flight
              \/ \E f \in flight \ (flight' \ new) : g = [f EXCEPT !.gone = TRUE] /\ Excused(f.cookie)',
         (\A f \in flight : Spent(f) => f \in flight') \/ Excused(jar)'
  PROVE  FamiliesKept'
  <1> USE DEF BrowserInv
  <1>1. /\ \A s : Excused(s) => Excused(s)'
        /\ \A s : (Alive(s)' <=> Alive(s)) /\ (KnownRow(s)' <=> KnownRow(s)) /\ Family(s)' = Family(s)
    BY DEF Excused, Family, Alive, KnownRow
  <1>2. RowsRooted' /\ BurntExcused'
    BY <1>1 DEF FamiliesKept, RowsRooted, BurntExcused, Family
  <1>3. ASSUME NEW g \in flight'
        PROVE  \/ g \in new
               \/ \E f \in flight : /\ g.kind = f.kind /\ g.pc = f.pc /\ g.cookie = f.cookie /\ g.got = f.got
                                    /\ g = f \/ Excused(f.cookie)'
                                    /\ g # f => f \notin flight' \ new
    <2>1. CASE g \in new \/ g \in flight
      BY <2>1
    <2>2. CASE \E f \in flight \ (flight' \ new) : g = [f EXCEPT !.gone = TRUE] /\ Excused(f.cookie)'
      <3>1. PICK f \in flight \ (flight' \ new) : g = [f EXCEPT !.gone = TRUE] /\ Excused(f.cookie)'
        BY <2>2
      <3>2. f \in FlightType
        BY DEF BrowserTypeOK
      <3>3. g.kind = f.kind /\ g.pc = f.pc /\ g.cookie = f.cookie /\ g.got = f.got
        BY <3>1, <3>2 DEF FlightType
      <3> QED
        BY <3>1, <3>3
    <2> QED
      BY <2>1, <2>2
  <1>4. CallsKnown'
    BY <1>1, <1>3 DEF FamiliesKept, CallsKnown, KnownRow
  <1>5. CallsLive'
    <2>1. JarLive /\ CallsLive
      BY DEF FamiliesKept
    <2>2. ASSUME NEW g \in flight'
          PROVE  /\ Renews(g) /\ g.pc = "sent" => Alive(g.cookie) \/ Excused(g.cookie)'
                 /\ g.got # None => Alive(g.got) \/ Excused(g.got)'
                 /\ g.gone => Excused(g.cookie)'
      <3>1. CASE g \in new
        <4>1. Renews(g) => Alive(jar) \/ Excused(jar)'
          BY <1>1, <2>1, <3>1 DEF JarLive, Spent
        <4> QED
          BY <3>1, <4>1
      <3>2. CASE g \notin new
        <4>1. PICK f \in flight : /\ g.kind = f.kind /\ g.pc = f.pc /\ g.cookie = f.cookie /\ g.got = f.got
                                  /\ g = f \/ Excused(f.cookie)'
          BY <1>3, <3>2
        <4>2. /\ Renews(f) /\ f.pc = "sent" => Alive(f.cookie) \/ Excused(f.cookie)
              /\ f.got # None => Alive(f.got) \/ Excused(f.got)
              /\ f.gone => Excused(f.cookie)
          BY <2>1 DEF CallsLive
        <4> QED
          BY <1>1, <4>1, <4>2 DEF Renews
      <3> QED
        BY <3>1, <3>2
    <2> QED
      BY <1>1, <2>2 DEF CallsLive, Renews
  <1>6. OneRenews'
    <2>1. ASSUME NEW g \in flight', NEW h \in flight', Renews(g), g.pc = "sent", Renews(h), h.pc = "sent",
                 g.cookie = h.cookie, g # h
          PROVE  Excused(g.cookie)'
      <3>1. CASE g \in new /\ h \notin new
        BY <1>1, <1>3, <2>1, <3>1 DEF Renews
      <3>2. CASE h \in new /\ g \notin new
        BY <1>1, <1>3, <2>1, <3>2 DEF Renews
      <3>3. CASE g \notin new /\ h \notin new
        <4>1. PICK f \in flight : g.kind = f.kind /\ g.pc = f.pc /\ g.cookie = f.cookie /\ (g = f \/ Excused(f.cookie)')
          BY <1>3, <3>3
        <4>2. PICK k \in flight : h.kind = k.kind /\ h.pc = k.pc /\ h.cookie = k.cookie /\ (h = k \/ Excused(k.cookie)')
          BY <1>3, <3>3
        <4>3. f # k => Excused(f.cookie)
          BY <2>1, <4>1, <4>2 DEF FamiliesKept, OneRenews, Renews
        <4> QED
          BY <1>1, <2>1, <4>1, <4>2, <4>3
      <3> QED
        BY <2>1, <3>1, <3>2, <3>3
    <2> QED
      BY <2>1 DEF OneRenews, Renews
  <1>7. JarLive'
    <2>1. Excused(jar) \/ Alive(jar) \/ \E f \in flight : Spent(f)
      BY DEF FamiliesKept, JarLive
    <2>2. \A f : Spent(f)' <=> Spent(f)
      BY DEF Spent, Renews
    <2>3. Excused(jar)' \/ Alive(jar)' \/ \E f \in flight' : Spent(f)'
      BY <1>1, <2>1, <2>2
    <2> QED
      BY <2>3 DEF JarLive, Excused, Alive
  <1>8. Unshared'
    <2>1. ASSUME NEW g \in flight', g.got # None
          PROVE  /\ jar # g.got
                 /\ \A h \in flight' : h.cookie # g.got /\ (h # g => h.got # g.got)
      <3>1. PICK f \in flight : g.got = f.got /\ (g = f \/ f \notin flight' \ new)
        BY <1>3, <2>1
      <3>2. jar # f.got /\ \A k \in flight : k.cookie # f.got /\ (k # f => k.got # f.got)
        BY <2>1, <3>1 DEF FamiliesKept, Unshared
      <3>3. ASSUME NEW h \in flight' PROVE h.cookie # g.got
        BY <1>3, <3>1, <3>2
      <3>4. ASSUME NEW h \in flight', h # g, h.got = g.got PROVE FALSE
        <4>1. h \notin new /\ g \notin new
          BY <2>1, <3>4
        <4>2. \A k \in flight : k.got = f.got => k = f
          BY <3>2
        <4>3. ASSUME NEW k \in flight' \ new, k.got = g.got
              PROVE  k = f \/ (f \notin flight' \ new /\ k = [f EXCEPT !.gone = TRUE])
          <5>1. CASE k \in flight
            BY <3>1, <4>2, <4>3, <5>1
          <5>2. CASE k \notin flight
            <6>1. PICK e \in flight \ (flight' \ new) : k = [e EXCEPT !.gone = TRUE]
              BY <4>3, <5>2
            <6>2. e.got = k.got
              BY <6>1 DEF BrowserTypeOK, FlightType
            <6>3. e = f
              BY <3>1, <4>2, <4>3, <6>2
            <6> QED
              BY <6>1, <6>3
          <5> QED
            BY <5>1, <5>2
        <4>4. g = f \/ (f \notin flight' \ new /\ g = [f EXCEPT !.gone = TRUE])
          BY <2>1, <4>1, <4>3
        <4>5. h = f \/ (f \notin flight' \ new /\ h = [f EXCEPT !.gone = TRUE])
          BY <3>4, <4>1, <4>3
        <4> QED
          BY <2>1, <3>4, <4>4, <4>5
      <3> QED
        BY <3>1, <3>2, <3>3, <3>4
    <2> QED
      BY <2>1 DEF Unshared
  <1> QED
    BY <1>2, <1>4, <1>5, <1>6, <1>7, <1>8 DEF FamiliesKept

LEMMA SentTyped ==
  ASSUME BrowserTypeOK, NEW t \in Tabs, NEW k \in {"boot", "refresh", "login", "logout"}, MaySend
  PROVE  /\ Call(t, k) \in FlightType /\ sent' \in 0..MaxSent
         /\ Call(t, k).kind = k /\ Call(t, k).tab = t /\ Call(t, k).pc = "sent"
         /\ Call(t, k).cookie = jar /\ Call(t, k).got = None /\ ~Call(t, k).gone
  <1>1. sent + 1 \in 1..MaxSent /\ sent' \in 0..MaxSent
    BY IdFacts DEF MaySend, BrowserTypeOK
  <1>2. jar \in SessionIds \cup {None}
    BY DEF BrowserTypeOK
  <1> QED
    BY <1>1, <1>2 DEF Call, FlightType

LEMMA ShowsTyped ==
  ASSUME BrowserTypeOK, NEW t \in Tabs, NEW status \in TabStatus, NEW token \in SessionIds \cup {None},
         Shows(t, status, token)
  PROVE  /\ tab' \in [Tabs -> TabType] /\ tab'[t].status = status /\ tab'[t].token = token
         /\ tab'[t].opened = tab[t].opened
         /\ \A u \in Tabs : u # t => tab'[u] = tab[u]
  <1> DEFINE new == [tab[t] EXCEPT !.status = status, !.token = token]
  <1>1. tab[t] \in TabType /\ tab \in [Tabs -> TabType]
    BY DEF BrowserTypeOK
  <1>2. new \in TabType /\ new.status = status /\ new.token = token /\ new.opened = tab[t].opened
    BY <1>1 DEF TabType
  <1>3. tab' = [tab EXCEPT ![t] = new]
    BY <1>1 DEF Shows
  <1> HIDE DEF new
  <1> QED
    BY <1>1, <1>2, <1>3

LEMMA OtherTabs ==
  ASSUME BrowserInv, NEW t \in Tabs, late \subseteq late' \cup {t}, TabHolds(t)',
         \A u \in Tabs : u # t => tab'[u] = tab[u] /\ OfTab(u)' = OfTab(u)
  PROVE  TabsHold'
  <1>1. ASSUME NEW u \in Tabs, u # t PROVE TabHolds(u)'
    <2>1. TabHolds(u) /\ tab'[u] = tab[u] /\ OfTab(u)' = OfTab(u)
      BY <1>1 DEF BrowserInv, TabsHold
    <2> QED
      BY <2>1 DEF TabHolds, Refreshing
  <1> QED
    BY <1>1 DEF TabsHold

\* A tab sends a call, and excuses whoever is on its way with the same cookie.
LEMMA TabSends ==
  ASSUME BrowserInv, NEW t \in Tabs, LogIn(t) \/ TabRefreshes(t) \/ LogOut(t) \/ MeFails(t) PROVE BrowserInv'
  <1>0. /\ tab[t] \in TabType /\ tab \in [Tabs -> TabType] /\ "leaving" \in TabStatus
        /\ TabHolds(t)
    BY DEF BrowserInv, BrowserTypeOK, TabStatus, TabsHold
  <1> DEFINE left == [tab[t] EXCEPT !.status = "leaving"]
  <1>01. left \in TabType /\ left.status = "leaving"
    BY <1>0 DEF TabType
  <1> PICK k \in {"refresh", "login", "logout"} :
        /\ MaySend /\ flight' = flight \cup {Call(t, k)} /\ UNCHANGED <<session, jar, late>>
        /\ tab' = tab \/ tab' = [tab EXCEPT ![t] = left]
        /\ excused \subseteq excused' /\ (excused' = excused \/ excused' = excused \cup Contended(t))
        /\ k = "refresh" => ~Refreshing(t) /\ excused' = excused \cup Contended(t)
        /\ tab[t].status # "loading"
    <2>1. CASE LogIn(t)
      BY <2>1 DEF LogIn
    <2>2. CASE TabRefreshes(t)
      BY <1>0, <2>2 DEF TabRefreshes, Asks, TabHolds
    <2>3. CASE LogOut(t)
      BY <2>3 DEF LogOut
    <2>4. CASE MeFails(t)
      <3>1. tab' = [tab EXCEPT ![t] = left]
        BY <1>0, <2>4 DEF MeFails
      <3> HIDE DEF left
      <3> QED
        BY <2>4, <3>1 DEF MeFails
    <2> QED
      BY <2>1, <2>2, <2>3, <2>4
  <1> HIDE DEF left
  <1>02. /\ tab' \in [Tabs -> TabType] /\ tab'[t].status \in {tab[t].status, "leaving"}
         /\ tab'[t].status # "leaving" => tab'[t] = tab[t]
         /\ \A u \in Tabs : u # t => tab'[u] = tab[u]
    BY <1>0, <1>01
  <1> DEFINE c == Call(t, k)
  <1>1. /\ c \in FlightType /\ sent' \in 0..MaxSent /\ c.kind = k /\ c.tab = t /\ c.pc = "sent"
        /\ c.cookie = jar /\ c.got = None /\ ~c.gone
    BY SentTyped DEF BrowserInv
  <1>2. flight' = flight \cup {c}
    OBVIOUS
  <1> HIDE DEF c
  <1> DEFINE same == {f \in flight : f.kind \in {"boot", "refresh"} /\ f.tab # t /\ f.cookie = jar}
  <1>3. Contended(t) = FamiliesOf(same) /\ same \in SUBSET flight
    BY DEF Contended
  <1> HIDE DEF same
  <1>4. excused' \subseteq SessionIds
    BY <1>3, FamiliesTyped DEF BrowserInv, BrowserTypeOK
  <1>5. BrowserTypeOK'
    BY <1>02, <1>1, <1>2, <1>4 DEF BrowserInv, BrowserTypeOK
  <1>6. ASSUME NEW f \in flight, Renews(f), f.cookie = jar, Renews(c) PROVE Excused(jar)'
    <2>1. k = "refresh"
      BY <1>1, <1>6 DEF Renews
    <2>2. CASE f.tab # t
      <3>1. f \in same
        BY <1>6, <2>2 DEF same, Renews
      <3>2. jar = None \/ Family(jar) \in FamiliesOf(same)
        BY <1>3, <1>6, <3>1, FamiliesTyped DEF BrowserInv
      <3> QED
        BY <1>3, <2>1, <3>2 DEF Excused, Family
    <2>3. CASE f.tab = t /\ ~f.gone
      <3>1. f \in OfTab(t)
        BY <2>3 DEF OfTab
      <3>2. f.kind # "refresh"
        BY <2>1, <3>1 DEF Refreshing
      <3> QED
        BY <1>6, <2>1, <3>1, <3>2 DEF Renews, BrowserInv, TabsHold, TabHolds
    <2>4. CASE f.gone
      BY <1>6, <2>4 DEF BrowserInv, FamiliesKept, CallsLive, Excused, Family
    <2> QED
      BY <2>2, <2>3, <2>4
  <1>7. FamiliesKept'
    <2> DEFINE new == {c}
    <2>1. new \in SUBSET FlightType /\ \A a, b \in new : a = b
      BY <1>1
    <2>2. \A a \in new : /\ a.pc = "sent" /\ a.cookie = jar /\ a.got = None /\ ~a.gone
                         /\ Renews(a) => \A f \in flight : Renews(f) /\ f.cookie = jar => Excused(jar)'
      BY <1>1, <1>6
    <2>3. flight' \subseteq FlightType /\ \A g \in flight' : g \in new \/ g \in flight
      BY <1>2, <1>5 DEF BrowserTypeOK
    <2>4. \A f \in flight : Spent(f) => f \in flight'
      BY <1>2
    <2> HIDE DEF new
    <2> QED
      BY <1>4, <2>1, <2>2, <2>3, <2>4, TabsMove
  <1>8. TabsHold'
    <2>1. \A u \in Tabs : OfTab(u)' = IF u = t THEN OfTab(u) \cup {c} ELSE OfTab(u)
      BY <1>1, <1>2 DEF OfTab
    <2>2. TabHolds(t)
      BY DEF BrowserInv, TabsHold
    <2>3. TabHolds(t)'
      <3>1. \A f \in OfTab(t) : f.kind # "boot"
        BY <2>2 DEF TabHolds
      <3>2. k = "refresh" => \A f \in OfTab(t) : f.kind # "refresh"
        BY DEF Refreshing
      <3>3. \A f, g \in OfTab(t)' : f.kind = "refresh" /\ g.kind = "refresh" => f = g
        BY <1>1, <2>1, <2>2, <3>2 DEF TabHolds
      <3>4. \A f \in OfTab(t)' : f.kind # "boot"
        BY <1>1, <2>1, <3>1
      <3> QED
        BY <1>02, <2>2, <3>3, <3>4 DEF TabHolds
    <2> QED
      BY <1>02, <2>1, <2>3, OtherTabs
  <1> QED
    BY <1>5, <1>7, <1>8 DEF BrowserInv

LEMMA PageLoads == ASSUME BrowserInv, NEW t \in Tabs, LoadPage(t) PROVE BrowserInv'
  <1> DEFINE left == OfTab(t)
             same == {f \in flight : f.kind \in {"boot", "refresh"} /\ f.tab # t /\ f.cookie = jar}
             c == Call(t, "boot")
             gone == {[f EXCEPT !.gone = TRUE] : f \in left}
  <1>1. /\ MaySend /\ flight' = (flight \ left) \cup gone \cup {c}
        /\ tab' = [tab EXCEPT ![t] = Fresh("loading")] /\ UNCHANGED <<session, jar, late>>
        /\ excused' = excused \cup FamiliesOf(left) \cup FamiliesOf(same)
    BY DEF LoadPage, Contended
  <1>2. /\ c \in FlightType /\ sent' \in 0..MaxSent /\ c.kind = "boot" /\ c.tab = t /\ c.pc = "sent"
        /\ c.cookie = jar /\ c.got = None /\ ~c.gone
    BY <1>1, SentTyped DEF BrowserInv
  <1>3. left \in SUBSET flight /\ same \in SUBSET flight
    BY DEF OfTab
  <1>4. ASSUME NEW g \in gone
        PROVE  g \in FlightType /\ g.gone /\ \E f \in left : g = [f EXCEPT !.gone = TRUE]
    <2>1. PICK f \in left : g = [f EXCEPT !.gone = TRUE]
      BY <1>4
    <2>2. f \in FlightType
      BY <1>3 DEF BrowserInv, BrowserTypeOK
    <2> QED
      BY <2>1, <2>2 DEF FlightType
  <1>50. Fresh("loading") \in TabType /\ Fresh("loading").status = "loading" /\ ~Fresh("loading").opened
    BY DEF Fresh, TabType, TabStatus
  <1>5. /\ tab' \in [Tabs -> TabType] /\ tab'[t].status = "loading" /\ ~tab'[t].opened
        /\ \A u \in Tabs : u # t => tab'[u] = tab[u]
    BY <1>1, <1>50 DEF BrowserInv, BrowserTypeOK
  <1>6. excused \subseteq excused' /\ excused' \subseteq SessionIds
    BY <1>1, <1>3, FamiliesTyped DEF BrowserInv, BrowserTypeOK
  <1>7. \A f \in left \cup same : Excused(f.cookie)'
    <2>1. \A f \in left : f.cookie = None \/ Family(f.cookie) \in FamiliesOf(left)
      BY <1>3, FamiliesTyped DEF BrowserInv
    <2>2. \A f \in same : f.cookie = None \/ Family(f.cookie) \in FamiliesOf(same)
      BY <1>3, FamiliesTyped DEF BrowserInv
    <2> HIDE DEF left, same
    <2> QED
      BY <1>1, <2>1, <2>2 DEF Excused, Family
  <1>8. ASSUME NEW f \in flight, Renews(f), f.cookie = jar PROVE Excused(jar)'
    <2>1. CASE f \in left \cup same
      BY <1>1, <1>7, <1>8, <2>1 DEF Excused, Family
    <2>2. CASE f.gone
      <3>1. Excused(jar)
        BY <1>8, <2>2 DEF BrowserInv, FamiliesKept, CallsLive
      <3> QED
        BY <1>1, <3>1 DEF Excused, Family
    <2> QED
      BY <1>8, <2>1, <2>2 DEF OfTab, Renews
  <1> HIDE DEF left, same, c, gone
  <1>9. BrowserTypeOK'
    BY <1>1, <1>2, <1>4, <1>5, <1>6 DEF BrowserInv, BrowserTypeOK
  <1>10. FamiliesKept'
    <2> DEFINE new == {c}
    <2>1. new \in SUBSET FlightType /\ \A a, b \in new : a = b
      BY <1>2
    <2>2. \A a \in new : /\ a.pc = "sent" /\ a.cookie = jar /\ a.got = None /\ ~a.gone
                         /\ Renews(a) => \A f \in flight : Renews(f) /\ f.cookie = jar => Excused(jar)'
      BY <1>2, <1>8
    <2>3. ASSUME NEW g \in flight'
          PROVE  g \in new \/ g \in flight \/ \E f \in flight \ (flight' \ new) : g = [f EXCEPT !.gone = TRUE] /\ Excused(f.cookie)'
      <3>1. CASE g \in gone /\ g \notin flight
        <4>1. PICK f \in left : g = [f EXCEPT !.gone = TRUE]
          BY <1>4, <3>1
        <4>2. f \in flight /\ ~f.gone /\ f.tab = t
          BY DEF left, OfTab
        <4>3. f \notin flight' \ new
          BY <1>1, <1>4, <4>2
        <4> QED
          BY <1>7, <4>1, <4>2, <4>3
      <3> QED
        BY <1>1, <3>1
    <2>4. flight' \subseteq FlightType
      BY <1>9 DEF BrowserTypeOK
    <2>5. (\A f \in flight : Spent(f) => f \in flight') \/ Excused(jar)'
      BY <1>8 DEF Spent
    <2> HIDE DEF new
    <2> QED
      BY <1>1, <1>6, <2>1, <2>2, <2>3, <2>4, <2>5, TabsMove
  <1>11. TabsHold'
    <2>1. \A u \in Tabs : u # t => OfTab(u)' = OfTab(u)
      <3>1. \A f \in left : f.tab = t
        BY DEF left, OfTab
      <3> QED
        BY <1>1, <1>2, <1>4, <3>1 DEF OfTab
    <2>2. OfTab(t)' = {c}
      BY <1>1, <1>2, <1>4 DEF OfTab, left
    <2>3. TabHolds(t)'
      BY <1>2, <1>5, <2>2 DEF TabHolds
    <2> QED
      BY <1>1, <1>5, <2>1, <2>3, OtherTabs
  <1> QED
    BY <1>9, <1>10, <1>11 DEF BrowserInv

\* A call has ended; the cookie is what it brought, gone, or what it was.
LEMMA CallsEnd ==
  ASSUME BrowserInv, NEW f \in flight, flight' = flight \ {f}, UNCHANGED session,
         excused \subseteq excused', excused' \subseteq SessionIds,
         \/ jar' = jar /\ (Spent(f) => Excused(jar)')
         \/ jar' = None
         \/ jar' = f.got /\ f.got # None
  PROVE  FamiliesKept'
  <1> USE DEF BrowserInv
  <1>1. /\ \A s : Excused(s) => Excused(s)'
        /\ \A s : (Alive(s)' <=> Alive(s)) /\ (KnownRow(s)' <=> KnownRow(s)) /\ Family(s)' = Family(s)
    BY DEF Excused, Family, Alive, KnownRow
  <1>2. RowsRooted' /\ BurntExcused'
    BY <1>1 DEF FamiliesKept, RowsRooted, BurntExcused, Family
  <1>3. CallsKnown'
    BY <1>1 DEF FamiliesKept, CallsKnown, KnownRow
  <1>4. CallsLive'
    BY <1>1 DEF FamiliesKept, CallsLive, Renews
  <1>5. OneRenews'
    BY <1>1 DEF FamiliesKept, OneRenews, Renews
  <1>6. Unshared'
    BY DEF FamiliesKept, Unshared
  <1>7. JarLive'
    <2>1. CASE jar' = jar /\ (Spent(f) => Excused(jar)')
      <3>1. Excused(jar) \/ Alive(jar) \/ \E g \in flight : Spent(g)
        BY DEF FamiliesKept, JarLive
      <3>2. \A g : Spent(g)' <=> Spent(g)
        BY <2>1 DEF Spent, Renews
      <3>3. Excused(jar)' \/ Alive(jar)' \/ \E g \in flight' : Spent(g)'
        <4>1. CASE Excused(jar)
          BY <2>1, <4>1 DEF Excused, Family
        <4>2. CASE Alive(jar)
          BY <2>1, <4>2 DEF Alive
        <4>3. CASE \E g \in flight : Spent(g)
          BY <2>1, <3>2, <4>3
        <4> QED
          BY <3>1, <4>1, <4>2, <4>3
      <3> QED
        BY <3>3 DEF JarLive
    <2>2. CASE jar' = None
      BY <2>2 DEF JarLive, Excused
    <2>3. CASE jar' = f.got /\ f.got # None
      <3>1. Alive(f.got) \/ Excused(f.got)
        BY <2>3 DEF FamiliesKept, CallsLive
      <3> QED
        BY <2>3, <3>1 DEF JarLive, Excused, Alive, Family
    <2> QED
      BY <2>1, <2>2, <2>3
  <1> QED
    BY <1>2, <1>3, <1>4, <1>5, <1>6, <1>7 DEF FamiliesKept

\* What the tab shows when its call f has ended.
LEMMA CallLands ==
  ASSUME BrowserInv, NEW f \in flight, Lands(f), ~f.gone, UNCHANGED sent,
         tab' \in [Tabs -> TabType], \A u \in Tabs : u # f.tab => tab'[u] = tab[u],
         tab'[f.tab].opened = tab[f.tab].opened,
         tab'[f.tab].status = "loading" => tab[f.tab].status = "loading",
         tab[f.tab].status = "loading" /\ f.kind # "boot" => tab'[f.tab].status = "loading",
         tab'[f.tab].status = "out" => f.tab \in late' \/ tab'[f.tab].token = None,
         jar' \in SessionIds \cup {None}, late \subseteq late' \cup {f.tab}, late' \subseteq Tabs,
         UNCHANGED session, excused \subseteq excused', excused' \subseteq SessionIds,
         FamiliesKept'
  PROVE  BrowserInv'
  <1> DEFINE t == f.tab
  <1>1. /\ t \in Tabs /\ flight' = flight \ {f} /\ f \in OfTab(t)
    BY DEF BrowserInv, BrowserTypeOK, FlightType, Lands, OfTab
  <1>2. BrowserTypeOK'
    BY <1>1 DEF BrowserInv, BrowserTypeOK
  <1>3. OfTab(t)' = OfTab(t) \ {f} /\ \A u \in Tabs : u # t => OfTab(u)' = OfTab(u)
    BY <1>1 DEF OfTab
  <1>4. TabHolds(t)'
    <2>1. TabHolds(t)
      BY <1>1 DEF BrowserInv, TabsHold
    <2>2. \A g \in OfTab(t)' : g.kind # "boot" /\ f.kind # "boot"
      BY <1>1, <1>3, <2>1 DEF TabHolds
    <2>3. \A g, h \in OfTab(t)' : g.kind = "refresh" /\ h.kind = "refresh" => g = h
      BY <1>3, <2>1 DEF TabHolds
    <2>4. tab'[t].status = "loading" => \A g \in OfTab(t)' : g.kind = "boot"
      BY <1>3, <2>1 DEF TabHolds
    <2>5. tab'[t].opened => tab'[t].status # "loading"
      BY <2>1 DEF TabHolds
    <2> QED
      BY <2>2, <2>3, <2>4, <2>5 DEF TabHolds
  <1>5. TabsHold'
    BY <1>1, <1>3, <1>4, OtherTabs
  <1> QED
    BY <1>2, <1>5 DEF BrowserInv

LEMMA AnswersArrive ==
  ASSUME BrowserInv, NEW f \in flight,
         SignedIn(f) \/ BootRefused(f) \/ Refreshed(f) \/ LoggedOut(f)
  PROVE  BrowserInv'
  <1>1. /\ f \in FlightType /\ f.tab \in Tabs /\ f.got \in SessionIds \cup {None} /\ excused \subseteq SessionIds
        /\ jar \in SessionIds \cup {None} /\ late \subseteq Tabs /\ tab[f.tab] \in TabType
    BY DEF BrowserInv, BrowserTypeOK, FlightType
  <1>2. ~f.gone /\ f.pc = "answered" /\ Lands(f) /\ flight' = flight \ {f} /\ UNCHANGED <<session, sent, excused>>
    BY DEF SignedIn, BootRefused, Refreshed, LoggedOut, Arrives, Lands
  <1>3. TabHolds(f.tab) /\ f \in OfTab(f.tab)
    BY <1>1, <1>2 DEF BrowserInv, TabsHold, OfTab
  <1>31. \A status \in {"checking", "out"} : status \in TabStatus
    BY DEF TabStatus
  <1>4. CASE SignedIn(f)
    <2>1. /\ f.got # None /\ jar' = f.got /\ Shows(f.tab, "checking", f.got) /\ late' = late \ {f.tab}
          /\ f.kind \in {"boot", "login"}
      BY <1>4 DEF SignedIn, Arrives
    <2>2. FamiliesKept'
      BY <1>1, <1>2, <2>1, CallsEnd
    <2>3. tab[f.tab].status = "loading" => f.kind = "boot"
      BY <1>3 DEF TabHolds
    <2>4. /\ tab' \in [Tabs -> TabType] /\ \A u \in Tabs : u # f.tab => tab'[u] = tab[u]
          /\ tab'[f.tab].status = "checking" /\ tab'[f.tab].opened = tab[f.tab].opened
      BY <1>1, <1>31, <2>1, ShowsTyped DEF BrowserInv
    <2> QED
      BY <1>1, <1>2, <2>1, <2>2, <2>3, <2>4, CallLands
  <1>5. CASE BootRefused(f)
    <2>1. /\ f.got = None /\ Shows(f.tab, "out", None) /\ UNCHANGED <<jar, late>> /\ f.kind = "boot"
      BY <1>5 DEF BootRefused, Arrives
    <2>2. FamiliesKept'
      BY <1>1, <1>2, <2>1, CallsEnd DEF Spent
    <2>4. /\ tab' \in [Tabs -> TabType] /\ \A u \in Tabs : u # f.tab => tab'[u] = tab[u]
          /\ tab'[f.tab].status = "out" /\ tab'[f.tab].opened = tab[f.tab].opened /\ tab'[f.tab].token = None
      BY <1>1, <1>31, <2>1, ShowsTyped DEF BrowserInv
    <2> QED
      BY <1>1, <1>2, <2>1, <2>2, <2>4, CallLands
  <1>6. CASE Refreshed(f)
    <2> DEFINE t == f.tab
               new == [tab[t] EXCEPT !.token = f.got, !.retried = @ \cup {f.got}]
    <2>1. /\ f.got # None /\ jar' = f.got /\ f.kind = "refresh"
          /\ late' = IF tab[t].status = "out" THEN late \cup {t} ELSE late
      BY <1>6 DEF Refreshed, Arrives
    <2>2. FamiliesKept'
      BY <1>1, <1>2, <2>1, CallsEnd
    <2>3. tab' = [tab EXCEPT ![t] = new]
      BY <1>1, <1>6 DEF Refreshed, BrowserInv, BrowserTypeOK
    <2>4. new \in TabType /\ new.status = tab[t].status /\ new.opened = tab[t].opened
      BY <1>1, <2>1 DEF TabType
    <2> HIDE DEF new
    <2>5. /\ tab' \in [Tabs -> TabType] /\ \A u \in Tabs : u # t => tab'[u] = tab[u]
          /\ tab'[t].status = tab[t].status /\ tab'[t].opened = tab[t].opened
      BY <1>1, <2>3, <2>4 DEF BrowserInv, BrowserTypeOK
    <2>6. late \subseteq late' /\ late' \subseteq Tabs /\ (tab[t].status = "out" => t \in late')
      BY <1>1, <2>1
    <2> QED
      BY <1>1, <1>2, <2>1, <2>2, <2>5, <2>6, CallLands
  <1>7. CASE LoggedOut(f)
    <2>1. /\ jar' = None /\ Shows(f.tab, "out", None) /\ f.kind = "logout" /\ late' = late \ {f.tab}
      BY <1>7 DEF LoggedOut, Arrives
    <2>2. FamiliesKept'
      BY <1>1, <1>2, <2>1, CallsEnd
    <2>3. tab[f.tab].status # "loading"
      BY <1>3, <2>1 DEF TabHolds
    <2>4. /\ tab' \in [Tabs -> TabType] /\ \A u \in Tabs : u # f.tab => tab'[u] = tab[u]
          /\ tab'[f.tab].status = "out" /\ tab'[f.tab].opened = tab[f.tab].opened /\ tab'[f.tab].token = None
      BY <1>1, <1>31, <2>1, ShowsTyped DEF BrowserInv
    <2> QED
      BY <1>1, <1>2, <2>1, <2>2, <2>3, <2>4, CallLands
  <1> QED
    BY <1>4, <1>5, <1>6, <1>7

\* A refresh that brings nothing leaves the tab without a token.
LEMMA UnrenewedTyped ==
  ASSUME BrowserInv, NEW t \in Tabs, Unrenewed(t)
  PROVE  /\ tab' \in [Tabs -> TabType] /\ \A u \in Tabs : u # t => tab'[u] = tab[u]
         /\ tab'[t].opened = tab[t].opened /\ tab'[t].token = None
         /\ tab'[t].status = tab[t].status \/ (tab[t].status = "in" /\ tab'[t].status = "out")
  <1> DEFINE status == tab[t].status
  <1>1. status \in TabStatus /\ "out" \in TabStatus
    BY DEF BrowserInv, BrowserTypeOK, TabType, TabStatus
  <1>2. Shows(t, status, None) \/ (status = "in" /\ Shows(t, "out", None))
    BY DEF Unrenewed
  <1> HIDE DEF status
  <1>3. CASE Shows(t, status, None)
    <2>1. /\ tab' \in [Tabs -> TabType] /\ tab'[t].status = status /\ tab'[t].token = None
          /\ tab'[t].opened = tab[t].opened /\ \A u \in Tabs : u # t => tab'[u] = tab[u]
      BY <1>1, <1>3, ShowsTyped DEF BrowserInv
    <2> QED
      BY <2>1 DEF status
  <1>4. CASE status = "in" /\ Shows(t, "out", None)
    <2>1. /\ tab' \in [Tabs -> TabType] /\ tab'[t].status = "out" /\ tab'[t].token = None
          /\ tab'[t].opened = tab[t].opened /\ \A u \in Tabs : u # t => tab'[u] = tab[u]
      BY <1>1, <1>4, ShowsTyped DEF BrowserInv
    <2> QED
      BY <1>4, <2>1 DEF status
  <1> QED
    BY <1>2, <1>3, <1>4

LEMMA RefreshRefusals == ASSUME BrowserInv, NEW f \in flight, RefreshRefused(f) PROVE BrowserInv'
  <1>1. /\ f \in FlightType /\ f.tab \in Tabs /\ tab[f.tab] \in TabType /\ late \subseteq Tabs
        /\ excused \subseteq SessionIds /\ jar \in SessionIds \cup {None} /\ "leaving" \in TabStatus
    BY DEF BrowserInv, BrowserTypeOK, FlightType, TabStatus
  <1>2. ~f.gone /\ f.got = None /\ f.kind = "refresh" /\ UNCHANGED <<session, jar, excused, late>>
    BY DEF RefreshRefused, Arrives
  <1>3. TabHolds(f.tab) /\ f \in OfTab(f.tab)
    BY <1>1, <1>2 DEF BrowserInv, TabsHold, OfTab
  <1>31. tab[f.tab].status # "loading"
    BY <1>2, <1>3 DEF TabHolds
  <1>4. CASE Unrenewed(f.tab) /\ Lands(f) /\ UNCHANGED sent
    <2>1. FamiliesKept'
      BY <1>1, <1>2, <1>4, CallsEnd DEF Spent, Lands
    <2>2. /\ tab' \in [Tabs -> TabType] /\ \A u \in Tabs : u # f.tab => tab'[u] = tab[u]
          /\ tab'[f.tab].opened = tab[f.tab].opened /\ tab'[f.tab].token = None
          /\ tab'[f.tab].status = tab[f.tab].status \/ (tab[f.tab].status = "in" /\ tab'[f.tab].status = "out")
      BY <1>1, <1>4, UnrenewedTyped
    <2>3. tab'[f.tab].status # "loading"
      BY <1>31, <2>2
    <2> QED
      BY <1>1, <1>2, <1>31, <1>4, <2>1, <2>2, <2>3, CallLands
  <1>5. CASE ~(Unrenewed(f.tab) /\ Lands(f) /\ UNCHANGED sent)
    <2> DEFINE t == f.tab
               c == Call(t, "logout")
    <2>1. MaySend /\ flight' = (flight \ {f}) \cup {c} /\ Shows(t, "leaving", None)
      BY <1>5 DEF RefreshRefused
    <2>2. /\ c \in FlightType /\ sent' \in 0..MaxSent /\ c.kind = "logout" /\ c.tab = t /\ c.pc = "sent"
          /\ c.cookie = jar /\ c.got = None /\ ~c.gone
      BY <1>1, <2>1, SentTyped DEF BrowserInv
    <2> HIDE DEF c
    <2>3. /\ tab' \in [Tabs -> TabType] /\ tab'[t].status = "leaving" /\ \A u \in Tabs : u # t => tab'[u] = tab[u]
      BY <1>1, <2>1, ShowsTyped DEF BrowserInv
    <2>4. BrowserTypeOK'
      BY <1>1, <1>2, <2>1, <2>2, <2>3 DEF BrowserInv, BrowserTypeOK
    <2>5. FamiliesKept'
      <3> DEFINE new == {c}
      <3>1. new \in SUBSET FlightType /\ \A a, b \in new : a = b
        BY <2>2
      <3>2. \A a \in new : a.pc = "sent" /\ a.cookie = jar /\ a.got = None /\ ~a.gone /\ ~Renews(a)
        BY <2>2 DEF Renews
      <3>3. flight' \subseteq FlightType /\ \A g \in flight' : g \in new \/ g \in flight
        BY <2>1, <2>4 DEF BrowserTypeOK
      <3>4. \A g \in flight : Spent(g) => g \in flight'
        BY <1>2, <2>1 DEF Spent
      <3> HIDE DEF new
      <3> QED
        BY <1>1, <1>2, <3>1, <3>2, <3>3, <3>4, TabsMove
    <2>6. TabsHold'
      <3>1. OfTab(t)' = (OfTab(t) \ {f}) \cup {c} /\ \A u \in Tabs : u # t => OfTab(u)' = OfTab(u)
        BY <2>1, <2>2 DEF OfTab
      <3>2. \A g \in OfTab(t) : g.kind # "boot"
        BY <1>3, <1>31 DEF TabHolds
      <3>3. \A g \in OfTab(t)' : g.kind # "boot"
        BY <2>2, <3>1, <3>2
      <3>4. \A g, h \in OfTab(t)' : g.kind = "refresh" /\ h.kind = "refresh" => g = h
        BY <1>3, <2>2, <3>1 DEF TabHolds
      <3>5. TabHolds(t)'
        BY <2>3, <3>3, <3>4 DEF TabHolds
      <3> QED
        BY <1>1, <1>2, <2>3, <3>1, <3>5, OtherTabs
    <2> QED
      BY <2>4, <2>5, <2>6 DEF BrowserInv
  <1> QED
    BY <1>4, <1>5

LEMMA AnswersLost == ASSUME BrowserInv, NEW f \in flight, AnswerLost(f) PROVE BrowserInv'
  <1>1. /\ f \in FlightType /\ f.tab \in Tabs /\ tab[f.tab] \in TabType /\ late \subseteq Tabs
        /\ excused \subseteq SessionIds /\ jar \in SessionIds \cup {None} /\ flight \subseteq FlightType
    BY DEF BrowserInv, BrowserTypeOK, FlightType
  <1>2. /\ excused' = excused \cup FamiliesOf({f}) /\ Lands(f) /\ flight' = flight \ {f}
        /\ UNCHANGED <<session, jar, sent, late>>
    BY DEF AnswerLost, Lands
  <1>3. FamiliesOf({f}) \subseteq SessionIds /\ (f.cookie = None \/ Family(f.cookie) \in FamiliesOf({f}))
    BY FamiliesTyped DEF BrowserInv
  <1>4. excused \subseteq excused' /\ excused' \subseteq SessionIds /\ (Spent(f) => Excused(jar)')
    BY <1>1, <1>2, <1>3 DEF Spent, Excused, Family
  <1>5. FamiliesKept'
    BY <1>2, <1>4, CallsEnd
  <1>6. CASE f.kind = "refresh" /\ ~f.gone
    <2>1. /\ tab' \in [Tabs -> TabType] /\ \A u \in Tabs : u # f.tab => tab'[u] = tab[u]
          /\ tab'[f.tab].opened = tab[f.tab].opened /\ tab'[f.tab].token = None
          /\ tab'[f.tab].status = tab[f.tab].status \/ (tab[f.tab].status = "in" /\ tab'[f.tab].status = "out")
      BY <1>1, <1>6, UnrenewedTyped DEF AnswerLost
    <2> QED
      BY <1>1, <1>2, <1>4, <1>5, <1>6, <2>1, CallLands
  <1>7. CASE ~(f.kind = "refresh" /\ ~f.gone)
    <2>1. UNCHANGED tab
      BY <1>7 DEF AnswerLost
    <2>2. BrowserTypeOK'
      BY <1>1, <1>2, <1>4, <2>1 DEF BrowserInv, BrowserTypeOK
    <2>3. \A t \in Tabs : OfTab(t)' = OfTab(t) \ {f}
      BY <1>2 DEF OfTab
    <2>4. ASSUME NEW t \in Tabs PROVE TabHolds(t)'
      <3>1. TabHolds(t)
        BY DEF BrowserInv, TabsHold
      <3>2. OfTab(t)' \subseteq OfTab(t)
        BY <2>3
      <3> QED
        BY <1>2, <2>1, <3>1, <3>2 DEF TabHolds, Refreshing
    <2> QED
      BY <1>5, <2>2, <2>4 DEF BrowserInv, TabsHold
  <1> QED
    BY <1>6, <1>7

\* The profile is answered: the pages open, the session ends on screen or is back.
LEMMA MeAnswers ==
  ASSUME BrowserInv, NEW t \in Tabs, MeSucceeds(t) \/ ProfileRefused(t) \/ ProfileRead(t) PROVE BrowserInv'
  <1>1. UNCHANGED <<session, jar, flight, sent, excused>>
    BY DEF MeSucceeds, ProfileRefused, ProfileRead
  <1>2. tab[t] \in TabType /\ tab \in [Tabs -> TabType] /\ late \subseteq Tabs /\ {"in", "out"} \subseteq TabStatus
    BY DEF BrowserInv, BrowserTypeOK, TabStatus
  <1>3. TabHolds(t)
    BY DEF BrowserInv, TabsHold
  <1> DEFINE shown == [tab[t] EXCEPT !.status = "in", !.opened = TRUE]
             profileless == [tab[t] EXCEPT !.status = "out"]
             back == [tab[t] EXCEPT !.status = "in"]
  <1>4. /\ shown \in TabType /\ shown.status = "in"
        /\ profileless \in TabType /\ profileless.status = "out"
        /\ back \in TabType /\ back.status = "in"
    BY <1>2 DEF TabType
  <1>5. \/ tab' = [tab EXCEPT ![t] = shown] /\ late' = late /\ tab[t].status # "loading"
        \/ tab' = [tab EXCEPT ![t] = profileless] /\ late' = late \cup {t} /\ tab[t].status # "loading"
        \/ tab' = [tab EXCEPT ![t] = back] /\ late' = late /\ tab[t].status # "loading"
    <2>1. CASE MeSucceeds(t)
      BY <1>2, <2>1 DEF MeSucceeds
    <2>2. CASE ProfileRefused(t)
      BY <1>2, <2>2 DEF ProfileRefused
    <2>3. CASE ProfileRead(t)
      BY <1>2, <2>3 DEF ProfileRead
    <2> QED
      BY <2>1, <2>2, <2>3
  <1> HIDE DEF shown, profileless, back
  <1>6. /\ tab' \in [Tabs -> TabType] /\ \A u \in Tabs : u # t => tab'[u] = tab[u]
        /\ tab'[t].status \in {"in", "out"} /\ (tab'[t].status = "out" => t \in late')
        /\ late \subseteq late' /\ late' \subseteq Tabs /\ tab[t].status # "loading"
    BY <1>2, <1>4, <1>5
  <1>7. BrowserTypeOK'
    BY <1>1, <1>6 DEF BrowserInv, BrowserTypeOK
  <1>8. FamiliesKept'
    BY <1>1 DEF BrowserInv, FamiliesKept, RowsRooted, CallsKnown, Unshared, CallsLive, OneRenews, JarLive, BurntExcused,
                KnownRow, Excused, Alive, Family, Spent, Renews
  <1>9. TabsHold'
    <2>1. \A u \in Tabs : OfTab(u)' = OfTab(u)
      BY <1>1 DEF OfTab
    <2>2. \A g \in OfTab(t)' : g.kind # "boot"
      BY <1>3, <1>6, <2>1 DEF TabHolds
    <2>3. \A g, h \in OfTab(t)' : g.kind = "refresh" /\ h.kind = "refresh" => g = h
      BY <1>3, <2>1 DEF TabHolds
    <2>4. TabHolds(t)'
      BY <1>6, <2>2, <2>3 DEF TabHolds
    <2> QED
      BY <1>6, <2>1, <2>4, OtherTabs
  <1> QED
    BY <1>7, <1>8, <1>9 DEF BrowserInv

LEMMA BrowserInvHolds == BrowserSpec => []BrowserInv
  <1>1. BrowserInv /\ [BrowserNext]_browserVars => BrowserInv'
    <2> SUFFICES ASSUME BrowserInv, [BrowserNext]_browserVars PROVE BrowserInv'
      OBVIOUS
    <2>1. CASE UNCHANGED browserVars
      <3>1. UNCHANGED <<session, jar, tab, flight, sent, excused, late>>
        BY <2>1 DEF browserVars
      <3> QED
        BY <3>1 DEF BrowserInv, BrowserTypeOK, FamiliesKept, RowsRooted, CallsKnown, Unshared, CallsLive, OneRenews,
                    JarLive, BurntExcused, KnownRow, Excused, Alive, Family, Spent, Renews, TabsHold, TabHolds,
                    OfTab, Refreshing
    <2>2. CASE \E t \in Tabs : \/ LoadPage(t) \/ LogIn(t) \/ TabRefreshes(t) \/ LogOut(t)
                               \/ MeSucceeds(t) \/ MeFails(t) \/ ProfileRefused(t) \/ ProfileRead(t)
      BY <2>2, PageLoads, TabSends, MeAnswers
    <2>3. CASE \E f \in flight : Rotate(f) \/ Refuse(f) \/ Authenticate(f) \/ EndSessionOf(f)
      BY <2>3, RotateAnswers, RefuseAnswers, LoginAnswers, LogoutAnswers
    <2>4. CASE \E f \in flight : \/ SignedIn(f) \/ BootRefused(f) \/ Refreshed(f) \/ RefreshRefused(f)
                                 \/ LoggedOut(f) \/ AnswerLost(f)
      BY <2>4, AnswersArrive, RefreshRefusals, AnswersLost
    <2> QED
      BY <2>1, <2>2, <2>3, <2>4 DEF BrowserNext
  <1> QED
    BY <1>1, BrowserInitial, PTL DEF BrowserSpec

\* Of any number of tabs of one browser (AuthProvider.tsx, client.ts): rotation
\* and reuse detection burn no family and leave no dead cookie behind unless tabs
\* raced, an answer was lost, somebody logged out or a tab did because /auth/me
\* failed; a tab that is signed out holds no token unless its profile was refused
\* with one in hand, or a late 401 renewed it.
THEOREM BrowserStaysSignedIn == BrowserSpec => []SessionKept
  <1>1. BrowserInv => SessionKept
    <2> SUFFICES ASSUME BrowserInv PROVE SessionKept
      OBVIOUS
    <2>1. flight = {} => jar = None \/ Alive(jar) \/ Family(jar) \in excused
      BY DEF BrowserInv, FamiliesKept, JarLive, Excused
    <2>2. \A t \in Tabs : tab[t].status = "out" => tab[t].token = None \/ t \in late
      BY DEF BrowserInv, TabsHold, TabHolds
    <2>3. \A s \in SessionIds : session[s].burnt => Family(s) \in excused
      BY DEF BrowserInv, FamiliesKept, BurntExcused
    <2> QED
      BY <2>1, <2>2, <2>3 DEF SessionKept
  <1> QED
    BY <1>1, BrowserInvHolds, PTL

\* The rows, the tabs and the calls keep their types.
THEOREM BrowserTyped == BrowserSpec => []BrowserTypeOK
  <1>1. BrowserInv => BrowserTypeOK
    BY DEF BrowserInv
  <1> QED
    BY <1>1, BrowserInvHolds, PTL

-----------------------------------------------------------------------------
(* The invariant.  A handler that holds the lock and is about to take a role *)
(* away knows that somebody else is an owner.                                 *)

UnderLock == {"roleWrite", "removeWrite", "transferWrite"}
Targeted == UnderLock \cup {"inviteRevoke", "inviteCreate", "accept", "role", "remove", "transfer"}

Sure(r) == /\ r.pc \in Targeted => r.u \in People
           /\ r.pc \in {"roleWrite", "removeWrite"} /\ ~overwritten => \E w \in Owners : w # r.u
           /\ r.pc = "transferWrite" => r.u \in Active
NothingYet == ws.type = "NONE" =>
    /\ \A p \in Requesters : handler[p].pc = "idle"
    /\ \A i \in Invitations : inv[i].state = "none"
    /\ \A u \in People : ~member[u].active
Named == \A i \in Invitations : inv[i].state = "PENDING" => inv[i].user \in People

MemberInv == /\ MemberTypeOK /\ NothingYet /\ Named
             /\ \A p \in Requesters : Sure(handler[p])
             /\ OwnerAlways /\ OwnerIsTheOwner /\ InvitationTellsTruth

-----------------------------------------------------------------------------

LEMMA HandlersIdle == /\ IdleHandler \in HandlerType /\ IdleHandler.pc = "idle"
                   /\ NoMember \in MemberType /\ ~NoMember.active
                   /\ NoInv \in InvType /\ NoInv.state = "none"
  <1>1. 1 \in Invitations
    BY MembershipAssumption DEF Invitations
  <1>2. NoMember \in MemberType /\ ~NoMember.active
    BY DEF NoMember, MemberType, Roles
  <1>3. NoInv \in InvType /\ NoInv.state = "none"
    BY DEF NoInv, InvType, Invitable, Roles
  <1> QED
    BY <1>1, <1>2, <1>3 DEF IdleHandler, HandlerType, Roles, Invitable

LEMMA MemberInitial == MemberInit => MemberInv
  <1> SUFFICES ASSUME MemberInit PROVE MemberInv
    OBVIOUS
  <1>1. MemberTypeOK
    <2>1. ws \in [type : {"NONE", "PERSONAL", "ORGANIZATION"}, owner : People \cup {Nobody}]
      BY DEF MemberInit
    <2>2. handled \in 0..MaxHandled
      BY MembershipAssumption DEF MemberInit
    <2>3. /\ member \in [People -> MemberType] /\ inv \in [Invitations -> InvType]
          /\ handler \in [Requesters -> HandlerType]
      BY HandlersIdle DEF MemberInit
    <2>4. lock = {p \in Requesters : handler[p].pc \in {"roleWrite", "removeWrite", "transferWrite"}}
      BY HandlersIdle DEF MemberInit
    <2> QED
      BY <2>1, <2>2, <2>3, <2>4 DEF MemberTypeOK, MemberInit
  <1>2. ws.type = "NONE" /\ NothingYet
    BY HandlersIdle DEF MemberInit, NothingYet
  <1>3. Named /\ InvitationTellsTruth /\ \A p \in Requesters : Sure(handler[p])
    BY HandlersIdle DEF MemberInit, Named, InvitationTellsTruth, Sure, Targeted, UnderLock
  <1> QED
    BY <1>1, <1>2, <1>3 DEF MemberInv, OwnerAlways, OwnerIsTheOwner

\* Steps that leave the members and the workspace as they are, and the lock to
\* whoever holds it.
LEMMA HandlerStep ==
  ASSUME MemberInv, NEW p \in Requesters, NEW r \in HandlerType, handler' = [handler EXCEPT ![p] = r],
         r.pc \notin UnderLock, handler[p].pc \notin UnderLock, r.pc \in Targeted => r.u \in People,
         UNCHANGED <<member, lock, overwritten, staleTransfer>>, handled' \in 0..MaxHandled,
         ws' \in [type : {"NONE", "PERSONAL", "ORGANIZATION"}, owner : People \cup {Nobody}],
         ws'.owner = ws.owner, ws'.type # "NONE",
         inv' \in [Invitations -> InvType], admitted' \subseteq Invitations, settled' \subseteq Invitations,
         ws.type # "NONE", Named', InvitationTellsTruth'
  PROVE  MemberInv'
  <1>1. handler' \in [Requesters -> HandlerType] /\ \A q \in Requesters : handler'[q] = IF q = p THEN r ELSE handler[q]
    BY DEF MemberInv, MemberTypeOK
  <1>2. lock' = {q \in Requesters : handler'[q].pc \in {"roleWrite", "removeWrite", "transferWrite"}}
    BY <1>1 DEF MemberInv, MemberTypeOK, UnderLock
  <1>3. MemberTypeOK'
    BY <1>1, <1>2 DEF MemberInv, MemberTypeOK
  <1>4. OwnerAlways' /\ OwnerIsTheOwner' /\ NothingYet' /\ Owners' = Owners /\ Active' = Active
    BY DEF MemberInv, OwnerAlways, OwnerIsTheOwner, NothingYet, Owners, Active
  <1>5. ASSUME NEW q \in Requesters PROVE Sure(handler[q])'
    <2>1. CASE q = p
      BY <1>1, <2>1 DEF Sure, UnderLock
    <2>2. CASE q # p
      BY <1>1, <1>4, <2>2 DEF Sure, MemberInv
    <2> QED
      BY <2>1, <2>2
  <1> QED
    BY <1>3, <1>4, <1>5 DEF MemberInv

LEMMA RequestBegins ==
  ASSUME MemberInv, NEW p \in Requesters, NEW r \in HandlerType, Serve(p, r),
         r.pc \notin UnderLock, r.pc \in Targeted => r.u \in People, ws.type # "NONE"
  PROVE  MemberInv'
  <1>1. /\ handler[p].pc = "idle" /\ handled < MaxHandled /\ handled' = handled + 1
        /\ handler' = [handler EXCEPT ![p] = r]
        /\ UNCHANGED <<ws, member, inv, lock, admitted, settled, staleTransfer, overwritten>>
    BY DEF Serve, Stands
  <1>2. handled' \in 0..MaxHandled
    BY <1>1, MembershipAssumption DEF MemberInv, MemberTypeOK
  <1>3. Named' /\ InvitationTellsTruth'
    BY <1>1 DEF MemberInv, Named, InvitationTellsTruth
  <1>4. inv' \in [Invitations -> InvType] /\ admitted' \subseteq Invitations /\ settled' \subseteq Invitations
    BY <1>1 DEF MemberInv, MemberTypeOK
  <1> QED
    <2>1. ws' \in [type : {"NONE", "PERSONAL", "ORGANIZATION"}, owner : People \cup {Nobody}]
      BY <1>1 DEF MemberInv, MemberTypeOK
    <2> QED
      BY <1>1, <1>2, <1>3, <1>4, <2>1, HandlerStep DEF UnderLock

LEMMA ByTyped ==
  ASSUME MemberInv, NEW a \in Active, NEW pc \in {"type", "inviteRevoke", "revoke", "role", "remove", "transfer"}
  PROVE  By(a, pc) \in HandlerType /\ By(a, pc).pc = pc /\ ws.type # "NONE"
  <1>1. a \in People /\ member[a].active /\ member[a].role \in Roles
    BY DEF Active, MemberInv, MemberTypeOK, MemberType
  <1>2. ws.type # "NONE"
    BY <1>1 DEF MemberInv, NothingYet
  <1>3. By(a, pc) \in HandlerType /\ By(a, pc).pc = pc
    BY <1>1, HandlersIdle DEF By, HandlerType
  <1> QED
    BY <1>2, <1>3

\* Every request begins outside the lock, asked by somebody active or about an
\* invitation.
BeginStep(p) == \/ Convert(p) \/ Invite(p) \/ ViewLapsed(p) \/ RevokeInvitation(p) \/ Accept(p)
                \/ ModifyMember(p) \/ TransferOwnership(p)
LEMMA BeginSteps == ASSUME MemberInv, NEW p \in Requesters, BeginStep(p) PROVE MemberInv'
  <1>1. ASSUME NEW a \in Active, NEW pc \in {"type", "inviteRevoke", "revoke", "role", "remove", "transfer"},
               NEW r, Serve(p, r), r \in HandlerType, r.pc = pc, pc \in Targeted => r.u \in People
        PROVE  MemberInv'
    <2>1. ws.type # "NONE"
      BY ByTyped
    <2> QED
      BY <1>1, <2>1, RequestBegins DEF UnderLock
  <1>2. CASE Convert(p)
    <2>1. PICK a \in Active : Serve(p, By(a, "type"))
      BY <1>2 DEF Convert, Permitted
    <2>3. By(a, "type") \in HandlerType /\ By(a, "type").pc = "type"
      BY ByTyped
    <2> QED
      BY <1>1, <2>1, <2>3 DEF Targeted, UnderLock
  <1>3. CASE Invite(p)
    <2>1. PICK a \in Active, u \in People, role \in Invitable : Serve(p, [By(a, "inviteRevoke") EXCEPT !.u = u, !.role = role])
      BY <1>3 DEF Invite, Permitted
    <2> DEFINE r == [By(a, "inviteRevoke") EXCEPT !.u = u, !.role = role]
    <2>3. By(a, "inviteRevoke") \in HandlerType /\ By(a, "inviteRevoke").pc = "inviteRevoke"
      BY ByTyped
    <2>4. r \in HandlerType /\ r.pc = "inviteRevoke" /\ r.u = u
      BY <2>3 DEF HandlerType
    <2> HIDE DEF r
    <2> QED
      BY <1>1, <2>1, <2>4 DEF r
  <1>4. CASE RevokeInvitation(p)
    <2>1. PICK a \in Active, i \in Invitations : Serve(p, [By(a, "revoke") EXCEPT !.i = i])
      BY <1>4 DEF RevokeInvitation, Permitted
    <2>3. By(a, "revoke") \in HandlerType /\ By(a, "revoke").pc = "revoke"
      BY ByTyped
    <2>4. [By(a, "revoke") EXCEPT !.i = i] \in HandlerType /\ [By(a, "revoke") EXCEPT !.i = i].pc = "revoke"
      BY <2>3 DEF HandlerType
    <2> QED
      BY <1>1, <2>1, <2>4 DEF Targeted, UnderLock
  <1>5. CASE ModifyMember(p)
    <2>1. PICK a \in Active, u \in People, pc \in {"role", "remove"}, role \in Invitable :
            Serve(p, [By(a, pc) EXCEPT !.u = u, !.role = role])
      BY <1>5 DEF ModifyMember, Permitted
    <2> DEFINE r == [By(a, pc) EXCEPT !.u = u, !.role = role]
    <2>3. By(a, pc) \in HandlerType /\ By(a, pc).pc = pc
      BY ByTyped
    <2>4. r \in HandlerType /\ r.pc = pc /\ r.u = u
      BY <2>3 DEF HandlerType
    <2> HIDE DEF r
    <2> QED
      BY <1>1, <2>1, <2>4 DEF r
  <1>6. CASE TransferOwnership(p)
    <2>1. PICK a \in Active, u \in People : Serve(p, [By(a, "transfer") EXCEPT !.u = u])
      BY <1>6 DEF TransferOwnership, Permitted
    <2> DEFINE r == [By(a, "transfer") EXCEPT !.u = u]
    <2>3. By(a, "transfer") \in HandlerType /\ By(a, "transfer").pc = "transfer"
      BY ByTyped
    <2>4. r \in HandlerType /\ r.pc = "transfer" /\ r.u = u
      BY <2>3 DEF HandlerType
    <2> HIDE DEF r
    <2> QED
      BY <1>1, <2>1, <2>4 DEF r
  <1>7. CASE ViewLapsed(p)
    <2>1. PICK i \in Invitations : inv[i].state = "PENDING" /\ Serve(p, [IdleHandler EXCEPT !.pc = "expire", !.i = i])
      BY <1>7 DEF ViewLapsed
    <2>2. [IdleHandler EXCEPT !.pc = "expire", !.i = i] \in HandlerType /\ [IdleHandler EXCEPT !.pc = "expire", !.i = i].pc = "expire"
      BY HandlersIdle DEF HandlerType
    <2>3. ws.type # "NONE"
      BY <2>1 DEF MemberInv, NothingYet
    <2> QED
      BY <2>1, <2>2, <2>3, RequestBegins DEF Targeted, UnderLock
  <1>8. CASE Accept(p)
    <2>1. PICK i \in Invitations : /\ inv[i].state = "PENDING" /\ ws.type = "ORGANIZATION"
                                   /\ Serve(p, [IdleHandler EXCEPT !.pc = "accept", !.i = i, !.u = inv[i].user, !.seen = member[inv[i].user]])
      BY <1>8 DEF Accept
    <2>2. inv[i].user \in People /\ member[inv[i].user] \in MemberType
      BY <2>1 DEF MemberInv, MemberTypeOK, Named
    <2> DEFINE r == [IdleHandler EXCEPT !.pc = "accept", !.i = i, !.u = inv[i].user, !.seen = member[inv[i].user]]
    <2>3. r \in HandlerType /\ r.pc = "accept" /\ r.u = inv[i].user
      BY <2>2, HandlersIdle DEF HandlerType
    <2>4. Serve(p, r)
      BY <2>1
    <2> HIDE DEF r
    <2> QED
      BY <2>1, <2>2, <2>3, <2>4, RequestBegins DEF UnderLock
  <1> QED
    BY <1>2, <1>3, <1>4, <1>5, <1>6, <1>7, <1>8 DEF BeginStep

-----------------------------------------------------------------------------
(* The writes outside the lock that leave the members alone *)

LEMMA Replies ==
  ASSUME MemberInv, NEW p \in Requesters, handler[p].pc \notin UnderLock \cup {"idle"}, Reply(p),
         UNCHANGED <<member, lock, handled, overwritten, staleTransfer>>,
         ws' \in [type : {"NONE", "PERSONAL", "ORGANIZATION"}, owner : People \cup {Nobody}],
         ws'.owner = ws.owner, ws.type # "NONE" => ws'.type # "NONE",
         inv' \in [Invitations -> InvType], admitted' \subseteq Invitations, settled' \subseteq Invitations,
         Named', InvitationTellsTruth'
  PROVE  MemberInv'
  <1>1. ws.type # "NONE" /\ handled' \in 0..MaxHandled
    BY DEF MemberInv, NothingYet, MemberTypeOK
  <1>2. IdleHandler \in HandlerType /\ IdleHandler.pc \notin UnderLock /\ IdleHandler.pc \notin Targeted
    BY HandlersIdle DEF UnderLock, Targeted
  <1>3. handler' = [handler EXCEPT ![p] = IdleHandler] /\ handler[p].pc \notin UnderLock
    BY DEF Reply
  <1> QED
    BY <1>1, <1>2, <1>3, HandlerStep

LEMMA ConvertWriteKeeps == ASSUME MemberInv, NEW p \in Requesters, ConvertWrite(p) PROVE MemberInv'
  <1>1. /\ handler[p].pc = "type" /\ Reply(p)
        /\ ws' = [ws EXCEPT !.type = IF @ = "PERSONAL" THEN "ORGANIZATION" ELSE "PERSONAL"]
        /\ UNCHANGED <<member, inv, lock, handled, admitted, settled, staleTransfer, overwritten>>
    BY DEF ConvertWrite, Stands
  <1>2. /\ ws' \in [type : {"NONE", "PERSONAL", "ORGANIZATION"}, owner : People \cup {Nobody}]
        /\ ws'.owner = ws.owner /\ ws'.type # "NONE"
    BY <1>1 DEF MemberInv, MemberTypeOK
  <1>3. /\ inv' \in [Invitations -> InvType] /\ admitted' \subseteq Invitations /\ settled' \subseteq Invitations
        /\ Named' /\ InvitationTellsTruth'
    BY <1>1 DEF MemberInv, MemberTypeOK, Named, InvitationTellsTruth
  <1> QED
    BY <1>1, <1>2, <1>3, Replies DEF UnderLock

\* One invitation gets its last state.
LEMMA InvitationSettles ==
  ASSUME MemberInv, NEW p \in Requesters, NEW state \in {"EXPIRED", "REVOKED"}, Settle(p, state),
         handler[p].pc \in {"expire", "revoke"}, Reply(p),
         UNCHANGED <<ws, member, lock, handled, admitted, staleTransfer, overwritten>>
  PROVE  MemberInv'
  <1> DEFINE j == handler[p].i
  <1>1. /\ inv' = [inv EXCEPT ![j].state = state]
        /\ settled' = IF inv[j].state = "PENDING" THEN settled ELSE settled \cup {j}
    BY DEF Settle
  <1>2. j \in Invitations /\ inv \in [Invitations -> InvType] /\ settled \subseteq Invitations /\ admitted \subseteq Invitations
    BY DEF MemberInv, MemberTypeOK, HandlerType
  <1> HIDE DEF j
  <1>3. /\ inv' \in [Invitations -> InvType]
        /\ \A i \in Invitations : i # j => inv'[i] = inv[i]
        /\ inv'[j].state = state /\ inv'[j].user = inv[j].user
    BY <1>1, <1>2 DEF InvType
  <1>4. Named'
    BY <1>2, <1>3 DEF MemberInv, Named
  <1>5. InvitationTellsTruth'
    BY <1>1, <1>2, <1>3 DEF MemberInv, InvitationTellsTruth
  <1>6. settled' \subseteq Invitations /\ admitted' \subseteq Invitations
    BY <1>1, <1>2
  <1>7. /\ ws' \in [type : {"NONE", "PERSONAL", "ORGANIZATION"}, owner : People \cup {Nobody}]
        /\ ws'.owner = ws.owner /\ ws'.type = ws.type
    BY DEF MemberInv, MemberTypeOK
  <1> QED
    BY <1>3, <1>4, <1>5, <1>6, <1>7, Replies DEF UnderLock

LEMMA InviteRevokeKeeps == ASSUME MemberInv, NEW p \in Requesters, InviteRevoke(p) PROVE MemberInv'
  <1> DEFINE r == [handler[p] EXCEPT !.pc = "inviteCreate"]
             Gone(i) == inv[i].user = handler[p].u /\ inv[i].state = "PENDING"
  <1>1. /\ handler[p].pc = "inviteRevoke"
        /\ inv' = [i \in Invitations |-> IF Gone(i) THEN [inv[i] EXCEPT !.state = "REVOKED"] ELSE inv[i]]
        /\ handler' = [handler EXCEPT ![p].pc = "inviteCreate"]
        /\ UNCHANGED <<ws, member, lock, handled, admitted, settled, staleTransfer, overwritten>>
    BY DEF InviteRevoke, Stands, Proceed
  <1>2. /\ handler \in [Requesters -> HandlerType] /\ inv \in [Invitations -> InvType]
        /\ settled \subseteq Invitations /\ admitted \subseteq Invitations /\ handled \in 0..MaxHandled
        /\ ws \in [type : {"NONE", "PERSONAL", "ORGANIZATION"}, owner : People \cup {Nobody}]
    BY DEF MemberInv, MemberTypeOK
  <1>3. ws.type # "NONE" /\ handler[p].u \in People
    BY <1>1 DEF MemberInv, NothingYet, Sure, Targeted
  <1>4. r \in HandlerType /\ r.pc = "inviteCreate" /\ r.u = handler[p].u /\ handler' = [handler EXCEPT ![p] = r]
    BY <1>1, <1>2 DEF HandlerType
  <1>5. ASSUME NEW i \in Invitations
        PROVE  /\ inv'[i] \in InvType
               /\ \/ inv'[i] = inv[i]
                  \/ inv[i].state = "PENDING" /\ inv'[i].state = "REVOKED" /\ inv'[i].user = inv[i].user
    <2>1. inv[i] \in InvType
      BY <1>2
    <2>2. CASE Gone(i)
      BY <1>1, <2>1, <2>2 DEF InvType
    <2>3. CASE ~Gone(i)
      BY <1>1, <2>1, <2>3
    <2> QED
      BY <2>2, <2>3
  <1> HIDE DEF r, Gone
  <1>6. inv' \in [Invitations -> InvType]
    BY <1>1, <1>5
  <1>7. Named'
    BY <1>5 DEF MemberInv, Named
  <1>8. InvitationTellsTruth'
    BY <1>1, <1>5 DEF MemberInv, InvitationTellsTruth
  <1> QED
    BY <1>1, <1>2, <1>3, <1>4, <1>6, <1>7, <1>8, HandlerStep DEF UnderLock

LEMMA InviteCreateKeeps == ASSUME MemberInv, NEW p \in Requesters, InviteCreate(p) PROVE MemberInv'
  <1> DEFINE n == [state |-> "PENDING", late |-> FALSE, user |-> handler[p].u, role |-> handler[p].role]
  <1>1. PICK j \in Invitations :
          /\ handler[p].pc = "inviteCreate" /\ Reply(p) /\ inv[j].state = "none"
          /\ inv' = [inv EXCEPT ![j] = n]
          /\ UNCHANGED <<ws, member, lock, handled, admitted, settled, staleTransfer, overwritten>>
    BY DEF InviteCreate, Stands
  <1>2. /\ handler \in [Requesters -> HandlerType] /\ inv \in [Invitations -> InvType]
        /\ settled \subseteq Invitations /\ admitted \subseteq Invitations
        /\ ws \in [type : {"NONE", "PERSONAL", "ORGANIZATION"}, owner : People \cup {Nobody}]
    BY DEF MemberInv, MemberTypeOK
  <1>3. handler[p].u \in People
    BY <1>1 DEF MemberInv, Sure, Targeted
  <1>4. n \in InvType /\ n.state = "PENDING" /\ n.user \in People
    BY <1>2, <1>3 DEF HandlerType, InvType
  <1> HIDE DEF n
  <1>5. /\ inv' \in [Invitations -> InvType] /\ inv'[j] = n
        /\ \A i \in Invitations : i # j => inv'[i] = inv[i]
    BY <1>1, <1>2, <1>4
  <1>6. Named'
    BY <1>4, <1>5 DEF MemberInv, Named
  <1>7. InvitationTellsTruth'
    BY <1>1, <1>4, <1>5 DEF MemberInv, InvitationTellsTruth
  <1> QED
    BY <1>1, <1>2, <1>5, <1>6, <1>7, Replies DEF UnderLock

LEMMA LapseKeeps == ASSUME MemberInv, Lapse PROVE MemberInv'
  <1>1. PICK j \in Invitations :
          /\ inv[j].state = "PENDING" /\ inv' = [inv EXCEPT ![j].late = TRUE]
          /\ UNCHANGED <<ws, member, handler, lock, handled, admitted, settled, staleTransfer, overwritten>>
    BY DEF Lapse
  <1>2. inv \in [Invitations -> InvType]
    BY DEF MemberInv, MemberTypeOK
  <1>3. /\ inv' \in [Invitations -> InvType]
        /\ \A i \in Invitations : inv'[i].state = inv[i].state /\ inv'[i].user = inv[i].user
    BY <1>1, <1>2 DEF InvType
  <1>4. Owners' = Owners /\ Active' = Active
    BY <1>1 DEF Owners, Active
  <1>5. MemberTypeOK'
    BY <1>1, <1>3 DEF MemberInv, MemberTypeOK
  <1>6. NothingYet' /\ Named' /\ InvitationTellsTruth'
    BY <1>1, <1>3 DEF MemberInv, NothingYet, Named, InvitationTellsTruth
  <1>7. OwnerAlways' /\ OwnerIsTheOwner'
    BY <1>1, <1>4 DEF MemberInv, OwnerAlways, OwnerIsTheOwner
  <1>8. \A p \in Requesters : Sure(handler[p])'
    BY <1>1, <1>4 DEF MemberInv, Sure
  <1> QED
    BY <1>5, <1>6, <1>7, <1>8 DEF MemberInv

-----------------------------------------------------------------------------
(* The first owner, and people who come in *)

LEMMA CreateWorkspaceKeeps == ASSUME MemberInv, CreateWorkspace PROVE MemberInv'
  <1> DEFINE first == [row |-> TRUE, active |-> TRUE, role |-> "owner"]
  <1>1. PICK u \in People, type \in {"PERSONAL", "ORGANIZATION"} :
          /\ ws.type = "NONE" /\ ws' = [type |-> type, owner |-> u]
          /\ member' = [member EXCEPT ![u] = first]
          /\ UNCHANGED <<inv, handler, lock, handled, admitted, settled, staleTransfer, overwritten>>
    BY DEF CreateWorkspace
  <1>2. first \in MemberType /\ first.active /\ first.role = "owner"
    BY DEF MemberType, Roles
  <1> HIDE DEF first
  <1>3. member' \in [People -> MemberType] /\ member'[u] = first
        /\ \A v \in People : v # u => member'[v] = member[v]
    BY <1>1, <1>2 DEF MemberInv, MemberTypeOK
  <1>4. /\ ws' \in [type : {"NONE", "PERSONAL", "ORGANIZATION"}, owner : People \cup {Nobody}]
        /\ ws'.type # "NONE" /\ ws'.owner = u
    BY <1>1
  <1>5. \A v \in People : ~member[v].active
    BY <1>1 DEF MemberInv, NothingYet
  <1>6. Owners' = {u}
    BY <1>2, <1>3, <1>5 DEF Owners, Active
  <1>7. \A p \in Requesters : handler'[p].pc = "idle"
    BY <1>1 DEF MemberInv, NothingYet
  <1>8. MemberTypeOK'
    BY <1>1, <1>3, <1>4 DEF MemberInv, MemberTypeOK
  <1>9. \A p \in Requesters : Sure(handler[p])'
    BY <1>7 DEF Sure, Targeted, UnderLock
  <1>10. NothingYet' /\ Named' /\ InvitationTellsTruth'
    BY <1>1, <1>4 DEF MemberInv, NothingYet, Named, InvitationTellsTruth
  <1>11. OwnerAlways' /\ OwnerIsTheOwner'
    BY <1>4, <1>6 DEF OwnerAlways, OwnerIsTheOwner
  <1> QED
    BY <1>8, <1>9, <1>10, <1>11 DEF MemberInv

\* Somebody comes in with the role of the invitation, which is never "owner".
LEMMA AcceptWriteKeeps == ASSUME MemberInv, NEW p \in Requesters, AcceptWrite(p) PROVE MemberInv'
  <1> DEFINE j == handler[p].i
             u == handler[p].u
             new == [row |-> TRUE, active |-> TRUE, role |-> inv[j].role]
  <1>1. handler[p].pc = "accept" /\ Reply(p) /\ UNCHANGED <<ws, lock, handled, staleTransfer>>
    BY DEF AcceptWrite, Stands
  <1>2. /\ handler \in [Requesters -> HandlerType] /\ inv \in [Invitations -> InvType]
        /\ member \in [People -> MemberType] /\ j \in Invitations
        /\ settled \subseteq Invitations /\ admitted \subseteq Invitations
        /\ ws \in [type : {"NONE", "PERSONAL", "ORGANIZATION"}, owner : People \cup {Nobody}]
        /\ overwritten \in BOOLEAN /\ staleTransfer \in BOOLEAN /\ handled \in 0..MaxHandled
    BY DEF MemberInv, MemberTypeOK, HandlerType
  <1>3. u \in People /\ ws.type # "NONE"
    BY <1>1 DEF MemberInv, Sure, Targeted, NothingYet
  <1>4. CASE UNCHANGED <<member, inv, admitted, settled, overwritten>>
    <2>1. Named' /\ InvitationTellsTruth'
      BY <1>4 DEF MemberInv, Named, InvitationTellsTruth
    <2>2. inv' \in [Invitations -> InvType] /\ settled' \subseteq Invitations /\ admitted' \subseteq Invitations
          /\ ws' \in [type : {"NONE", "PERSONAL", "ORGANIZATION"}, owner : People \cup {Nobody}]
          /\ ws'.owner = ws.owner /\ ws'.type = ws.type
      BY <1>1, <1>2, <1>4
    <2> QED
      BY <1>1, <1>4, <2>1, <2>2, Replies DEF UnderLock
  <1>5. CASE /\ member' = [member EXCEPT ![u] = new]
             /\ Settle(p, "ACCEPTED")
             /\ admitted' = admitted \cup {j}
             /\ overwritten' = (overwritten \/ member[u].active)
    <2>1. /\ inv' = [inv EXCEPT ![j].state = "ACCEPTED"]
          /\ settled' = IF inv[j].state = "PENDING" THEN settled ELSE settled \cup {j}
      BY <1>5 DEF Settle
    <2>2. new \in MemberType /\ new.active /\ new.role # "owner"
      BY <1>2 DEF MemberType, InvType, Invitable
    <2> HIDE DEF j, u, new
    <2>3. /\ inv' \in [Invitations -> InvType] /\ inv'[j].state = "ACCEPTED"
          /\ \A i \in Invitations : i # j => inv'[i] = inv[i]
      BY <1>2, <2>1 DEF InvType
    <2>4. Named'
      BY <1>2, <2>3 DEF MemberInv, Named
    <2>5. InvitationTellsTruth'
      BY <1>2, <1>5, <2>1, <2>3 DEF MemberInv, InvitationTellsTruth
    <2>6. /\ member' \in [People -> MemberType] /\ member'[u] = new
          /\ \A v \in People : v # u => member'[v] = member[v]
      BY <1>2, <1>3, <1>5, <2>2
    <2>7. /\ handler' \in [Requesters -> HandlerType]
          /\ \A q \in Requesters : handler'[q] = IF q = p THEN IdleHandler ELSE handler[q]
      BY <1>1, <1>2, HandlersIdle DEF Reply
    <2>8. lock' = {q \in Requesters : handler'[q].pc \in {"roleWrite", "removeWrite", "transferWrite"}}
      BY <1>1, <2>7, HandlersIdle DEF MemberInv, MemberTypeOK
    <2>9. MemberTypeOK'
      <3>1. settled' \subseteq Invitations /\ admitted' \subseteq Invitations /\ overwritten' \in BOOLEAN
        BY <1>2, <1>5, <2>1
      <3>2. \A q, r \in lock' : q = r
        BY <1>1 DEF MemberInv, MemberTypeOK
      <3> QED
        BY <1>1, <1>2, <2>3, <2>6, <2>7, <2>8, <3>1, <3>2 DEF MemberTypeOK
    <2>10. Active \subseteq Active'
      BY <2>2, <2>6 DEF Active
    <2>11. ~overwritten' => ~overwritten /\ Owners' = Owners
      BY <1>2, <1>3, <1>5, <2>2, <2>6 DEF Owners, Active
    <2>12. OwnerAlways' /\ OwnerIsTheOwner' /\ NothingYet'
      BY <1>1, <1>3, <2>11 DEF MemberInv, OwnerAlways, OwnerIsTheOwner, NothingYet
    <2>13. ASSUME NEW q \in Requesters PROVE Sure(handler[q])'
      <3>1. CASE q = p
        BY <2>7, <3>1, HandlersIdle DEF Sure, Targeted, UnderLock
      <3>2. CASE q # p
        <4>1. handler'[q] = handler[q] /\ Sure(handler[q])
          BY <2>7, <3>2 DEF MemberInv
        <4> QED
          BY <2>10, <2>11, <4>1 DEF Sure
      <3> QED
        BY <3>1, <3>2
    <2> QED
      BY <2>4, <2>5, <2>9, <2>12, <2>13 DEF MemberInv
  <1> QED
    BY <1>4, <1>5 DEF AcceptWrite

-----------------------------------------------------------------------------
(* Roles, removal, transfer *)

\* Besides u there is another owner wherever there is more than one.
LEMMA OtherOwner ==
  ASSUME IsFiniteSet(Owners), NEW u \in Owners, Cardinality(Owners) > 1
  PROVE  \E w \in Owners : w # u
  <1> SUFFICES ASSUME \A w \in Owners : w = u PROVE FALSE
    OBVIOUS
  <1>1. Owners = {u}
    OBVIOUS
  <1>2. Cardinality(Owners) = 1
    BY <1>1, FS_Singleton
  <1> QED
    BY <1>2

\* A check under way takes the lock or answers.
LEMMA CheckSteps ==
  ASSUME MemberInv, NEW p \in Requesters, NEW pc \in UnderLock,
         handler[p].pc \in {"role", "remove", "transfer"}, TakeLock(p, pc),
         pc \in {"roleWrite", "removeWrite"} /\ ~overwritten => \E w \in Owners : w # handler[p].u,
         pc = "transferWrite" => handler[p].u \in Active,
         UNCHANGED <<ws, member, inv, handled, admitted, settled, staleTransfer, overwritten>>
  PROVE  MemberInv'
  <1> DEFINE r == [handler[p] EXCEPT !.pc = pc]
  <1>1. handler \in [Requesters -> HandlerType]
    BY DEF MemberInv, MemberTypeOK
  <1>2. r \in HandlerType /\ r.pc = pc /\ r.u = handler[p].u
    BY <1>1 DEF HandlerType, UnderLock
  <1>3. handler' = [handler EXCEPT ![p] = r] /\ lock = {} /\ lock' = {p}
    BY <1>1 DEF TakeLock, Proceed
  <1> HIDE DEF r
  <1>4. /\ handler' \in [Requesters -> HandlerType]
        /\ \A q \in Requesters : handler'[q] = IF q = p THEN r ELSE handler[q]
    BY <1>1, <1>2, <1>3
  <1>5. lock' = {q \in Requesters : handler'[q].pc \in {"roleWrite", "removeWrite", "transferWrite"}}
    BY <1>2, <1>3, <1>4 DEF MemberInv, MemberTypeOK, UnderLock
  <1>6. MemberTypeOK'
    BY <1>3, <1>4, <1>5 DEF MemberInv, MemberTypeOK
  <1>7. Owners' = Owners /\ Active' = Active
    BY DEF Owners, Active
  <1>8. NothingYet' /\ Named' /\ InvitationTellsTruth' /\ OwnerAlways' /\ OwnerIsTheOwner'
    BY <1>7 DEF MemberInv, NothingYet, Named, InvitationTellsTruth, OwnerAlways, OwnerIsTheOwner
  <1>9. ASSUME NEW q \in Requesters PROVE Sure(handler[q])'
    <2>1. CASE q = p
      <3>1. handler[p].u \in People
        BY DEF MemberInv, Sure, Targeted
      <3> QED
        BY <1>2, <1>4, <1>7, <2>1, <3>1 DEF Sure
    <2>2. CASE q # p
      BY <1>4, <1>7, <2>2 DEF Sure, MemberInv
    <2> QED
      BY <2>1, <2>2
  <1> QED
    BY <1>6, <1>8, <1>9 DEF MemberInv

\* A check that fails.
LEMMA CheckFails ==
  ASSUME MemberInv, NEW p \in Requesters, handler[p].pc \in {"role", "remove", "transfer"}, Reply(p),
         UNCHANGED <<ws, member, inv, lock, handled, admitted, settled, staleTransfer, overwritten>>
  PROVE  MemberInv'
  <1>1. Named' /\ InvitationTellsTruth'
    BY DEF MemberInv, Named, InvitationTellsTruth
  <1>2. inv' \in [Invitations -> InvType] /\ settled' \subseteq Invitations /\ admitted' \subseteq Invitations
        /\ ws' \in [type : {"NONE", "PERSONAL", "ORGANIZATION"}, owner : People \cup {Nobody}]
        /\ ws'.owner = ws.owner /\ ws'.type = ws.type
    BY DEF MemberInv, MemberTypeOK
  <1> QED
    BY <1>1, <1>2, Replies DEF UnderLock

LEMMA CheckModifyKeeps ==
  ASSUME MemberInv, IsFiniteSet(People), NEW p \in Requesters, CheckModify(p) PROVE MemberInv'
  <1> DEFINE pc == IF Stands(p, "role") THEN "roleWrite" ELSE "removeWrite"
  <1>1. /\ handler[p].pc \in {"role", "remove"}
        /\ UNCHANGED <<ws, member, inv, handled, admitted, settled, staleTransfer, overwritten>>
    BY DEF CheckModify, Stands
  <1>2. CASE Reply(p) /\ UNCHANGED lock
    BY <1>1, <1>2, CheckFails
  <1>3. CASE NotLastOwner(handler[p].u) /\ TakeLock(p, pc)
    <2>1. pc \in {"roleWrite", "removeWrite"}
      OBVIOUS
    <2>2. ASSUME ~overwritten PROVE \E w \in Owners : w # handler[p].u
      <3>1. ws.type # "NONE" /\ handler[p].u \in People
        BY <1>1 DEF MemberInv, NothingYet, Sure, Targeted
      <3>2. Owners # {} /\ Owners \subseteq People
        BY <2>2, <3>1 DEF MemberInv, OwnerAlways, Owners, Active
      <3>3. CASE handler[p].u \in Owners
        <4>1. Cardinality(Owners) > 1
          BY <1>3, <3>3 DEF NotLastOwner, Owners
        <4>2. IsFiniteSet(Owners)
          BY <3>2, FS_Subset
        <4> QED
          BY <3>3, <4>1, <4>2, OtherOwner
      <3>4. CASE handler[p].u \notin Owners
        BY <3>2, <3>4
      <3> QED
        BY <3>3, <3>4
    <2> HIDE DEF pc
    <2> QED
      BY <1>1, <1>3, <2>1, <2>2, CheckSteps DEF UnderLock
  <1> QED
    BY <1>2, <1>3 DEF CheckModify

LEMMA CheckTransferKeeps == ASSUME MemberInv, NEW p \in Requesters, CheckTransfer(p) PROVE MemberInv'
  <1>1. /\ handler[p].pc = "transfer"
        /\ UNCHANGED <<ws, member, inv, handled, admitted, settled, staleTransfer, overwritten>>
    BY DEF CheckTransfer, Stands
  <1>2. CASE Reply(p) /\ UNCHANGED lock
    BY <1>1, <1>2, CheckFails
  <1>3. CASE handler[p].u \in Active /\ TakeLock(p, "transferWrite")
    BY <1>1, <1>3, CheckSteps DEF UnderLock
  <1> QED
    BY <1>2, <1>3 DEF CheckTransfer

\* The holder of the lock writes members and gives the lock back: nobody else
\* knows anything about the owners by then.
LEMMA Unlocks ==
  ASSUME MemberInv, NEW p \in Requesters, handler[p].pc \in UnderLock, Unlock(p),
         ws' \in [type : {"NONE", "PERSONAL", "ORGANIZATION"}, owner : People \cup {Nobody}], ws'.type = ws.type,
         member' \in [People -> MemberType], staleTransfer' \in BOOLEAN,
         UNCHANGED <<inv, handled, admitted, settled, overwritten>>, OwnerAlways', OwnerIsTheOwner'
  PROVE  MemberInv'
  <1>1. /\ handler' \in [Requesters -> HandlerType]
        /\ \A q \in Requesters : handler'[q] = IF q = p THEN IdleHandler ELSE handler[q]
    BY HandlersIdle DEF MemberInv, MemberTypeOK, Unlock, Reply
  <1>2. lock = {p} /\ lock' = {}
    BY DEF MemberInv, MemberTypeOK, Unlock, UnderLock
  <1>3. \A q \in Requesters : handler'[q].pc \notin UnderLock
    BY <1>1, <1>2, HandlersIdle DEF MemberInv, MemberTypeOK, UnderLock
  <1>4. MemberTypeOK'
    BY <1>1, <1>2, <1>3 DEF MemberInv, MemberTypeOK, UnderLock
  <1>5. ws.type # "NONE"
    BY DEF MemberInv, NothingYet, UnderLock
  <1>6. NothingYet' /\ Named' /\ InvitationTellsTruth'
    BY <1>5 DEF MemberInv, NothingYet, Named, InvitationTellsTruth
  <1>7. ASSUME NEW q \in Requesters PROVE Sure(handler[q])'
    <2>1. handler'[q].pc \in Targeted => handler'[q].u \in People
      BY <1>1, HandlersIdle DEF MemberInv, Sure, Targeted, UnderLock
    <2> QED
      BY <1>3, <2>1 DEF Sure, UnderLock
  <1> QED
    BY <1>4, <1>6, <1>7 DEF MemberInv

LEMMA RoleWriteKeeps == ASSUME MemberInv, NEW p \in Requesters, RoleWrite(p) PROVE MemberInv'
  <1> DEFINE u == handler[p].u
  <1>1. /\ handler[p].pc = "roleWrite" /\ Unlock(p)
        /\ member' = [member EXCEPT ![u].role = handler[p].role]
        /\ UNCHANGED <<ws, inv, handled, admitted, settled, staleTransfer, overwritten>>
    BY DEF RoleWrite, Stands
  <1>2. /\ u \in People /\ member \in [People -> MemberType] /\ handler[p].role \in Roles \ {"owner"}
        /\ ~overwritten => \E w \in Owners : w # u
    BY <1>1 DEF MemberInv, MemberTypeOK, Sure, Targeted, UnderLock, HandlerType, Invitable
  <1> HIDE DEF u
  <1>3. /\ member' \in [People -> MemberType] /\ member'[u].role # "owner"
        /\ \A v \in People : v # u => member'[v] = member[v]
    BY <1>1, <1>2 DEF MemberType
  <1>4. Owners' = Owners \ {u}
    BY <1>2, <1>3 DEF Owners, Active
  <1>5. OwnerAlways' /\ OwnerIsTheOwner'
    BY <1>1, <1>2, <1>4 DEF MemberInv, OwnerAlways, OwnerIsTheOwner
  <1>6. /\ ws' \in [type : {"NONE", "PERSONAL", "ORGANIZATION"}, owner : People \cup {Nobody}]
        /\ ws'.type = ws.type /\ staleTransfer' \in BOOLEAN
    BY <1>1 DEF MemberInv, MemberTypeOK
  <1> QED
    BY <1>1, <1>3, <1>5, <1>6, Unlocks DEF UnderLock

LEMMA RemoveWriteKeeps == ASSUME MemberInv, NEW p \in Requesters, RemoveWrite(p) PROVE MemberInv'
  <1> DEFINE u == handler[p].u
  <1>1. /\ handler[p].pc = "removeWrite" /\ Unlock(p)
        /\ member' = [member EXCEPT ![u].active = FALSE]
        /\ UNCHANGED <<ws, inv, handled, admitted, settled, staleTransfer, overwritten>>
    BY DEF RemoveWrite, Stands
  <1>2. /\ u \in People /\ member \in [People -> MemberType]
        /\ ~overwritten => \E w \in Owners : w # u
    BY <1>1 DEF MemberInv, MemberTypeOK, Sure, Targeted, UnderLock
  <1> HIDE DEF u
  <1>3. /\ member' \in [People -> MemberType] /\ ~member'[u].active
        /\ \A v \in People : v # u => member'[v] = member[v]
    BY <1>1, <1>2 DEF MemberType
  <1>4. Owners' = Owners \ {u}
    BY <1>2, <1>3 DEF Owners, Active
  <1>5. OwnerAlways' /\ OwnerIsTheOwner'
    BY <1>1, <1>2, <1>4 DEF MemberInv, OwnerAlways, OwnerIsTheOwner
  <1>6. /\ ws' \in [type : {"NONE", "PERSONAL", "ORGANIZATION"}, owner : People \cup {Nobody}]
        /\ ws'.type = ws.type /\ staleTransfer' \in BOOLEAN
    BY <1>1 DEF MemberInv, MemberTypeOK
  <1> QED
    BY <1>1, <1>3, <1>5, <1>6, Unlocks DEF UnderLock

LEMMA TransferWriteKeeps == ASSUME MemberInv, NEW p \in Requesters, TransferWrite(p) PROVE MemberInv'
  <1> DEFINE u == handler[p].u
             a == handler[p].a
             demoted == [member EXCEPT ![a].role = "admin"]
  <1>1. /\ handler[p].pc = "transferWrite" /\ Unlock(p)
        /\ member' = [demoted EXCEPT ![u].role = "owner"]
        /\ ws' = [ws EXCEPT !.owner = u]
        /\ staleTransfer' = (staleTransfer \/ a \notin Owners)
        /\ UNCHANGED <<inv, handled, admitted, settled, overwritten>>
    BY DEF TransferWrite, Stands
  <1>2. /\ u \in Active /\ u \in People /\ member \in [People -> MemberType]
        /\ ws \in [type : {"NONE", "PERSONAL", "ORGANIZATION"}, owner : People \cup {Nobody}]
    BY <1>1 DEF MemberInv, MemberTypeOK, Sure, Targeted, UnderLock
  <1>3. demoted \in [People -> MemberType] /\ \A v \in People : v # a => demoted[v] = member[v]
    BY <1>2 DEF MemberType, Roles
  <1>4. \A v \in People : demoted[v].active = member[v].active
    <2>1. \A v \in People : member[v] \in MemberType
      BY <1>2
    <2> QED
      BY <1>2, <2>1 DEF MemberType
  <1>5. a \in People => demoted[a].role # "owner"
    BY <1>2 DEF MemberType
  <1> HIDE DEF u, a, demoted
  <1>6. /\ member' \in [People -> MemberType] /\ member'[u].role = "owner"
        /\ \A v \in People : v # u => member'[v] = demoted[v]
        /\ member'[u].active = demoted[u].active
    BY <1>1, <1>2, <1>3 DEF MemberType, Roles
  <1>7. u \in Owners' /\ Owners' \subseteq (Owners \ {a}) \cup {u}
    BY <1>2, <1>3, <1>4, <1>5, <1>6 DEF Owners, Active
  <1>8. ws' \in [type : {"NONE", "PERSONAL", "ORGANIZATION"}, owner : People \cup {Nobody}]
        /\ ws'.type = ws.type /\ ws'.owner = u
    BY <1>1, <1>2
  <1>9. OwnerAlways'
    BY <1>7 DEF OwnerAlways
  <1>10. OwnerIsTheOwner'
    BY <1>1, <1>7, <1>8 DEF MemberInv, OwnerIsTheOwner
  <1>11. staleTransfer' \in BOOLEAN
    BY <1>1 DEF MemberInv, MemberTypeOK
  <1> QED
    BY <1>1, <1>6, <1>8, <1>9, <1>10, <1>11, Unlocks DEF UnderLock

-----------------------------------------------------------------------------
(* The theorems.  Counting the owners needs finitely many people. *)

LEMMA MemberSteps == ASSUME MemberInv, IsFiniteSet(People), [MemberNext]_memberVars PROVE MemberInv'
  <1>1. CASE UNCHANGED memberVars
    BY <1>1 DEF memberVars, MemberInv, MemberTypeOK, NothingYet, Named, Sure, OwnerAlways, OwnerIsTheOwner,
       InvitationTellsTruth, Owners, Active
  <1>2. CASE CreateWorkspace \/ Lapse
    BY <1>2, CreateWorkspaceKeeps, LapseKeeps
  <1>3. ASSUME NEW p \in Requesters, Convert(p) \/ ConvertWrite(p) PROVE MemberInv'
    BY <1>3, BeginSteps, ConvertWriteKeeps DEF BeginStep
  <1>4. ASSUME NEW p \in Requesters, InviteSteps(p) PROVE MemberInv'
    <2>1. CASE Invite(p) \/ ViewLapsed(p) \/ RevokeInvitation(p) \/ Accept(p)
      BY <2>1, BeginSteps DEF BeginStep
    <2>2. CASE InviteRevoke(p) \/ InviteCreate(p) \/ AcceptWrite(p)
      BY <2>2, InviteRevokeKeeps, InviteCreateKeeps, AcceptWriteKeeps
    <2>3. CASE ExpireWrite(p)
      BY <2>3, InvitationSettles DEF ExpireWrite, Stands
    <2>4. CASE RevokeWrite(p)
      BY <2>4, InvitationSettles DEF RevokeWrite, Stands
    <2> QED
      BY <1>4, <2>1, <2>2, <2>3, <2>4 DEF InviteSteps
  <1>5. ASSUME NEW p \in Requesters, LockedSteps(p) PROVE MemberInv'
    <2>1. CASE ModifyMember(p) \/ TransferOwnership(p)
      BY <2>1, BeginSteps DEF BeginStep
    <2>2. CASE CheckModify(p) \/ CheckTransfer(p)
      BY <2>2, CheckModifyKeeps, CheckTransferKeeps
    <2>3. CASE RoleWrite(p) \/ RemoveWrite(p) \/ TransferWrite(p)
      BY <2>3, RoleWriteKeeps, RemoveWriteKeeps, TransferWriteKeeps
    <2> QED
      BY <1>5, <2>1, <2>2, <2>3 DEF LockedSteps
  <1> QED
    BY <1>1, <1>2, <1>3, <1>4, <1>5 DEF MemberNext

LEMMA MemberInvariant == ASSUME IsFiniteSet(People) PROVE MemberSpec => []MemberInv
  <1>1. MemberInit => MemberInv
    BY MemberInitial
  <1>2. MemberInv /\ [MemberNext]_memberVars => MemberInv'
    BY MemberSteps
  <1> QED
    BY <1>1, <1>2, PTL DEF MemberSpec

\* However many removals, role changes and transfers are asked for at once, the
\* workspace keeps an active owner (assertNotLastOwner under the advisory lock),
\* and workspaces.ownerId names the one owner (transferOwnership writes both).
THEOREM TheOwnerRemains == ASSUME IsFiniteSet(People) PROVE MemberSpec => []OwnersHold
  <1>1. MemberInv => OwnersHold
    BY DEF MemberInv, OwnersHold
  <1> QED
    BY <1>1, MemberInvariant, PTL

\* Somebody entered by an invitation if and only if it is ACCEPTED.
THEOREM InvitationsTell == ASSUME IsFiniteSet(People) PROVE MemberSpec => []InvitationTellsTruth
  <1>1. MemberInv => InvitationTellsTruth
    BY DEF MemberInv
  <1> QED
    BY <1>1, MemberInvariant, PTL

-----------------------------------------------------------------------------
(* TaskAccess.  A task of the private project that has not strayed is held by  *)
(* one of the members, and so is the one a checked request is about to write,   *)
(* unless the members or the visibility have changed since, or the project was  *)
(* deleted when the assignee was looked up.                                      *)

IsMember(v) == v = Unassigned \/ team[v] # "none"
JobHeld(t) == job[t].inside /\ plan.private /\ t \notin strayed => IsMember(job[t].assignee)
PaperHolds(w) == w.kind # "none" /\ w.next = "write" /\ w.inside /\ plan.private /\ ~w.overtaken => IsMember(w.assignee)
AccessInv == /\ AccessTypeOK
             /\ \A t \in Jobs : JobHeld(t)
             /\ \A p \in Clerks : PaperHolds(paper[p])

LEMMA PapersTyped == /\ NoJob \in JobType /\ ~NoJob.inside
                     /\ NoPaper \in PaperType /\ NoPaper.kind = "none" /\ NoPaper.task \in Jobs
  <1>1. \E t \in Jobs : TRUE
    BY AccessAssumption
  <1>2. (CHOOSE t \in Jobs : TRUE) \in Jobs
    BY <1>1
  <1> QED
    BY <1>2 DEF NoJob, JobType, NoPaper, Paper, PaperType, Holders

LEMMA AccessInitial == AccessInit => AccessInv
  <1> SUFFICES ASSUME AccessInit PROVE AccessInv
    OBVIOUS
  <1>1. PICK u \in Staff, private \in BOOLEAN :
          /\ team = [v \in Staff |-> IF v = u THEN "owner" ELSE "none"]
          /\ plan = [private |-> private, creator |-> u, archived |-> FALSE, deleted |-> FALSE]
          /\ job = [t \in Jobs |-> NoJob]
          /\ paper = [p \in Clerks |-> NoPaper] /\ papers = 0 /\ strayed = {}
    BY DEF AccessInit
  <1>2. AccessTypeOK
    BY <1>1, PapersTyped, AccessAssumption DEF AccessTypeOK, Duties
  <1> QED
    BY <1>1, <1>2, PapersTyped DEF AccessInv, JobHeld, PaperHolds

\* Filing a request, or the next step of its checks, changes that request only.
LEMMA FilesSound ==
  ASSUME AccessInv, NEW p \in Clerks, NEW w \in PaperType, PaperHolds(w), Files(p, w) \/ GoesOn(p, w)
  PROVE  AccessInv'
  <1>1. paper' = [paper EXCEPT ![p] = w] /\ UNCHANGED <<team, plan, job, strayed>>
    BY DEF Files, GoesOn
  <1>2. papers' \in 0..MaxPapers
    BY AccessAssumption DEF Files, GoesOn, Serves, AccessInv, AccessTypeOK
  <1>3. AccessTypeOK'
    BY <1>1, <1>2 DEF AccessInv, AccessTypeOK
  <1>4. \A q \in Clerks : paper'[q] = IF q = p THEN w ELSE paper[q]
    BY <1>1 DEF AccessInv, AccessTypeOK
  <1>5. ASSUME NEW q \in Clerks PROVE PaperHolds(paper[q])'
    BY <1>1, <1>4 DEF AccessInv, PaperHolds, IsMember
  <1>6. ASSUME NEW s \in Jobs PROVE JobHeld(s)'
    BY <1>1 DEF AccessInv, JobHeld, IsMember
  <1> QED
    BY <1>3, <1>5, <1>6 DEF AccessInv

\* An assignee who does not belong to the project is accepted only while it is
\* deleted, and then the request is marked.
LEMMA LooksSound == ASSUME AccessInv, NEW p \in Clerks, CheckAssignee(p) PROVE AccessInv'
  <1> DEFINE old == paper[p]
             taken == plan.deleted /\ ~Belongs(old.assignee, old.inside)
             w == [old EXCEPT !.next = "write", !.overtaken = taken]
  <1>1. old \in PaperType /\ old.inside \in BOOLEAN
    BY DEF AccessInv, AccessTypeOK, PaperType
  <1>2. taken \in BOOLEAN
    OBVIOUS
  <1>3. CASE AssigneeAccepted(old.assignee, old.inside)
    <2>1. GoesOn(p, w)
      BY <1>3 DEF CheckAssignee
    <2>2. ~taken => Belongs(old.assignee, old.inside)
      BY <1>3 DEF AssigneeAccepted
    <2> HIDE DEF taken, old
    <2>3. w \in PaperType /\ w.inside = old.inside /\ w.assignee = old.assignee /\ w.overtaken = taken
      BY <1>1, <1>2 DEF PaperType
    <2>4. PaperHolds(w)
      BY <2>2, <2>3 DEF PaperHolds, Belongs, IsMember
    <2> HIDE DEF w
    <2> QED
      BY <2>1, <2>3, <2>4, FilesSound
  <1>4. CASE ~AssigneeAccepted(old.assignee, old.inside)
    <2>1. GoesOn(p, NoPaper)
      BY <1>4 DEF CheckAssignee
    <2>2. NoPaper \in PaperType /\ PaperHolds(NoPaper)
      BY PapersTyped DEF PaperHolds
    <2> QED
      BY <2>1, <2>2, FilesSound
  <1> QED
    BY <1>3, <1>4

\* A write that takes effect leaves the assignee of its request; the others that
\* have read the task are refused.
LEMMA WritesSound ==
  ASSUME AccessInv, NEW p \in Clerks, NEW t \in Jobs, paper[p].kind # "none", paper[p].next = "write",
         \/ /\ job' = [job EXCEPT ![t] = [NoJob EXCEPT !.made = TRUE, !.inside = paper[p].inside,
                                          !.assignee = paper[p].assignee, !.creator = paper[p].by]]
            /\ paper' = [paper EXCEPT ![p] = NoPaper]
         \/ /\ job' = [job EXCEPT ![t].inside = paper[p].inside, ![t].assignee = paper[p].assignee]
            /\ paper' = NewVersion(t),
         strayed' = StrayedBy(t, paper[p]), UNCHANGED <<team, plan, papers>>
  PROVE  AccessInv'
  <1> DEFINE w == paper[p]
  <1>1. w \in PaperType /\ PaperHolds(w)
    BY DEF AccessInv, AccessTypeOK
  <1>2. w.inside \in BOOLEAN /\ w.assignee \in Holders /\ w.by \in Holders /\ w.overtaken \in BOOLEAN
    BY <1>1 DEF PaperType
  <1>3. job \in [Jobs -> JobType] /\ job[t] \in JobType
    BY DEF AccessInv, AccessTypeOK
  <1> DEFINE new == [NoJob EXCEPT !.made = TRUE, !.inside = w.inside, !.assignee = w.assignee, !.creator = w.by]
             old == [job[t] EXCEPT !.inside = w.inside, !.assignee = w.assignee]
  <1>4. job' = [job EXCEPT ![t] = new] \/ job' = [job EXCEPT ![t] = old]
    BY <1>3
  <1>41. new \in JobType /\ new.inside = w.inside /\ new.assignee = w.assignee
    BY <1>2, PapersTyped DEF JobType
  <1>42. old \in JobType /\ old.inside = w.inside /\ old.assignee = w.assignee
    BY <1>2, <1>3 DEF JobType
  <1> HIDE DEF new, old
  <1>43. job' \in [Jobs -> JobType]
    BY <1>3, <1>4, <1>41, <1>42
  <1>5. job'[t].inside = w.inside /\ job'[t].assignee = w.assignee
    BY <1>3, <1>4, <1>41, <1>42
  <1>6. \A s \in Jobs : s # t => job'[s] = job[s]
    BY <1>3, <1>4
  <1>7. \A q \in Clerks : paper'[q] \in {NoPaper, paper[q]}
    BY DEF NewVersion, AccessInv, AccessTypeOK
  <1>8. paper' \in [Clerks -> PaperType]
    <2>1. \A q \in Clerks : paper[q] \in PaperType
      BY DEF AccessInv, AccessTypeOK
    <2>2. CASE paper' = [paper EXCEPT ![p] = NoPaper]
      BY <2>2, PapersTyped DEF AccessInv, AccessTypeOK
    <2>3. CASE paper' = NewVersion(t)
      BY <2>1, <2>3, PapersTyped DEF NewVersion
    <2> QED
      BY <2>2, <2>3
  <1>9. strayed' \subseteq Jobs /\ (strayed' = IF w.overtaken THEN strayed \cup {t} ELSE strayed \ {t})
    BY DEF StrayedBy, AccessInv, AccessTypeOK
  <1>10. AccessTypeOK'
    BY <1>43, <1>8, <1>9 DEF AccessInv, AccessTypeOK
  <1>11. ASSUME NEW q \in Clerks PROVE PaperHolds(paper[q])'
    BY <1>7, PapersTyped DEF AccessInv, PaperHolds, IsMember
  <1>12. ASSUME NEW s \in Jobs PROVE JobHeld(s)'
    <2>1. CASE s # t
      BY <1>6, <1>9, <2>1 DEF AccessInv, JobHeld, IsMember
    <2>2. CASE s = t
      BY <1>1, <1>5, <1>9, <2>2 DEF PaperHolds, JobHeld, IsMember
    <2> QED
      BY <2>1, <2>2
  <1> QED
    BY <1>10, <1>11, <1>12 DEF AccessInv

\* What changes the members or the visibility marks the tasks that it leaves
\* behind, and the requests under way.
LEMMA LeavesSound ==
  ASSUME AccessInv, LeavesTasks, papers' \in 0..MaxPapers,
         team' \in [Staff -> {"none"} \cup Duties],
         plan' \in [private : BOOLEAN, creator : Staff, archived : BOOLEAN, deleted : BOOLEAN]
  PROVE  AccessInv'
  <1>1. \A q \in Clerks : /\ paper[q] \in PaperType
                          /\ paper'[q] = [paper[q] EXCEPT !.overtaken = paper[q].next = "write"]
    BY DEF LeavesTasks, AccessInv, AccessTypeOK
  <1>2. ASSUME NEW q \in Clerks
        PROVE  paper'[q] \in PaperType /\ (paper'[q].next = "write" => paper'[q].overtaken)
    <2> DEFINE w == paper[q]
               taken == w.next = "write"
    <2>1. w \in PaperType /\ paper'[q] = [w EXCEPT !.overtaken = taken]
      BY <1>1
    <2>2. taken \in BOOLEAN /\ (w.next = "write" => taken)
      OBVIOUS
    <2> HIDE DEF w, taken
    <2>3. paper'[q] \in PaperType /\ paper'[q].next = w.next /\ paper'[q].overtaken = taken
      BY <2>1, <2>2 DEF PaperType
    <2> QED
      BY <2>2, <2>3
  <1>3. job' = job /\ strayed' \subseteq Jobs
    BY DEF LeavesTasks, AccessInv, AccessTypeOK
  <1>4. paper' \in [Clerks -> PaperType]
    BY <1>2 DEF LeavesTasks
  <1>5. AccessTypeOK'
    BY <1>3, <1>4 DEF AccessInv, AccessTypeOK
  <1>6. ASSUME NEW q \in Clerks PROVE PaperHolds(paper[q])'
    BY <1>2 DEF PaperHolds
  <1>7. ASSUME NEW t \in Jobs PROVE JobHeld(t)'
    <2>1. job[t].assignee \in Holders /\ job'[t] = job[t]
      BY <1>3 DEF AccessInv, AccessTypeOK, JobType
    <2>2. t \notin strayed' => ~(job[t].inside /\ plan'.private /\ job[t].assignee # Unassigned
                                 /\ team'[job[t].assignee] = "none")
      BY DEF LeavesTasks
    <2> QED
      BY <2>1, <2>2 DEF JobHeld, IsMember
  <1> QED
    BY <1>5, <1>6, <1>7 DEF AccessInv

LEMMA AccessSteps == AccessInv /\ [AccessNext]_accessVars => AccessInv'
  <1> SUFFICES ASSUME AccessInv, [AccessNext]_accessVars PROVE AccessInv'
    OBVIOUS
  <1>1. ASSUME NEW p \in Clerks, CheckCreate(p) PROVE AccessInv'
    <2>1. PICK u \in Staff, inside \in BOOLEAN, v \in Holders :
            Files(p, Paper("create", "assignee", u, NoPaper.task, inside, v))
      BY <1>1 DEF CheckCreate
    <2> DEFINE w == Paper("create", "assignee", u, NoPaper.task, inside, v)
    <2>2. w \in PaperType /\ PaperHolds(w)
      BY PapersTyped DEF Paper, PaperType, PaperHolds, Holders
    <2>3. Files(p, w)
      BY <2>1
    <2> HIDE DEF w
    <2> QED
      BY <2>2, <2>3, FilesSound
  <1>2. ASSUME NEW p \in Clerks, CheckUpdate(p) PROVE AccessInv'
    <2>1. PICK u \in Staff, t \in Jobs, inside \in BOOLEAN, v \in Holders :
            Files(p, Paper("update", "project", u, t, inside, v))
      BY <1>2 DEF CheckUpdate
    <2> DEFINE w == Paper("update", "project", u, t, inside, v)
    <2>2. w \in PaperType /\ PaperHolds(w)
      BY PapersTyped DEF Paper, PaperType, PaperHolds, Holders
    <2>3. Files(p, w)
      BY <2>1
    <2> HIDE DEF w
    <2> QED
      BY <2>2, <2>3, FilesSound
  <1>21. ASSUME NEW p \in Clerks, CheckProject(p) PROVE AccessInv'
    <2> DEFINE w == [paper[p] EXCEPT !.next = "assignee"]
    <2>1. w \in PaperType /\ PaperHolds(w) /\ NoPaper \in PaperType /\ PaperHolds(NoPaper)
      BY PapersTyped DEF AccessInv, AccessTypeOK, PaperType, PaperHolds
    <2>2. GoesOn(p, w) \/ GoesOn(p, NoPaper)
      BY <1>21 DEF CheckProject
    <2> HIDE DEF w
    <2> QED
      BY <2>1, <2>2, FilesSound
  <1>22. ASSUME NEW p \in Clerks, CheckAssignee(p) PROVE AccessInv'
    BY <1>22, LooksSound
  <1>3. ASSUME NEW p \in Clerks, WriteCreate(p) PROVE AccessInv'
    BY <1>3, WritesSound DEF WriteCreate
  <1>4. ASSUME NEW p \in Clerks, WriteUpdate(p) PROVE AccessInv'
    <2>1. paper[p].task \in Jobs
      BY DEF AccessInv, AccessTypeOK, PaperType
    <2> QED
      BY <1>4, <2>1, WritesSound DEF WriteUpdate
  <1>5. ASSUME TaskLifecycle PROVE AccessInv'
    <2>1. PICK t \in Jobs, archived, deleted \in BOOLEAN :
            /\ job' = [job EXCEPT ![t].archived = archived, ![t].deleted = deleted]
            /\ paper' = NewVersion(t)
            /\ UNCHANGED <<team, plan, strayed>>
      BY <1>5 DEF TaskLifecycle
    <2>2. papers' \in 0..MaxPapers
      BY <1>5, AccessAssumption DEF TaskLifecycle, Serves, AccessInv, AccessTypeOK
    <2>3. \A s \in Jobs : job[s] \in JobType
      BY DEF AccessInv, AccessTypeOK
    <2>4. job' \in [Jobs -> JobType] /\ \A s \in Jobs : /\ job'[s].inside = job[s].inside
                                                        /\ job'[s].assignee = job[s].assignee
      BY <2>1, <2>3 DEF AccessInv, AccessTypeOK, JobType
    <2>5. \A q \in Clerks : paper'[q] \in {NoPaper, paper[q]} /\ paper[q] \in PaperType
      BY <2>1 DEF NewVersion, AccessInv, AccessTypeOK
    <2>6. paper' \in [Clerks -> PaperType]
      BY <2>1, <2>5, PapersTyped DEF NewVersion
    <2>7. AccessTypeOK'
      BY <2>1, <2>2, <2>4, <2>6 DEF AccessInv, AccessTypeOK
    <2>8. ASSUME NEW q \in Clerks PROVE PaperHolds(paper[q])'
      BY <2>1, <2>5, PapersTyped DEF AccessInv, PaperHolds, IsMember
    <2>9. ASSUME NEW s \in Jobs PROVE JobHeld(s)'
      BY <2>1, <2>4 DEF AccessInv, JobHeld, IsMember
    <2> QED
      BY <2>7, <2>8, <2>9 DEF AccessInv
  <1>6. ASSUME AddMember PROVE AccessInv'
    <2>1. PICK v \in Staff, duty \in Duties : team' = [team EXCEPT ![v] = duty]
      BY <1>6 DEF AddMember
    <2>2. UNCHANGED <<plan, job, paper, strayed>> /\ papers' \in 0..MaxPapers
      BY <1>6, AccessAssumption DEF AddMember, Rules, Serves, AccessInv, AccessTypeOK
    <2>3. team' \in [Staff -> {"none"} \cup Duties]
      BY <2>1 DEF AccessInv, AccessTypeOK
    <2>4. \A u \in Staff : team[u] # "none" => team'[u] # "none"
      BY <2>1 DEF AccessInv, AccessTypeOK, Duties
    <2>5. \A u \in Holders : IsMember(u) => IsMember(u)'
      BY <2>4 DEF IsMember, Holders
    <2>6. AccessTypeOK'
      BY <2>2, <2>3 DEF AccessInv, AccessTypeOK
    <2>7. ASSUME NEW q \in Clerks PROVE PaperHolds(paper[q])'
      <3>1. paper[q].assignee \in Holders
        BY DEF AccessInv, AccessTypeOK, PaperType
      <3> QED
        BY <2>2, <2>5, <3>1 DEF AccessInv, PaperHolds
    <2>8. ASSUME NEW s \in Jobs PROVE JobHeld(s)'
      <3>1. job[s].assignee \in Holders
        BY DEF AccessInv, AccessTypeOK, JobType
      <3> QED
        BY <2>2, <2>5, <3>1 DEF AccessInv, JobHeld
    <2> QED
      BY <2>6, <2>7, <2>8 DEF AccessInv
  <1>7. ASSUME RemoveMember PROVE AccessInv'
    <2>1. PICK v \in Staff : team' = [team EXCEPT ![v] = "none"]
      BY <1>7 DEF RemoveMember
    <2>2. plan' = plan /\ LeavesTasks /\ papers' \in 0..MaxPapers
      BY <1>7, AccessAssumption DEF RemoveMember, Rules, Serves, AccessInv, AccessTypeOK
    <2>3. team' \in [Staff -> {"none"} \cup Duties]
      BY <2>1 DEF AccessInv, AccessTypeOK
    <2> QED
      BY <2>2, <2>3, LeavesSound DEF AccessInv, AccessTypeOK
  <1>8. ASSUME UpdateVisibility PROVE AccessInv'
    <2>1. PICK private \in BOOLEAN :
            /\ team' = IF private THEN [team EXCEPT ![plan.creator] = "owner"] ELSE team
            /\ plan' = [plan EXCEPT !.private = private]
      BY <1>8 DEF UpdateVisibility
    <2>2. LeavesTasks /\ papers' \in 0..MaxPapers
      BY <1>8, AccessAssumption DEF UpdateVisibility, Rules, Serves, AccessInv, AccessTypeOK
    <2>3. team' \in [Staff -> {"none"} \cup Duties]
      BY <2>1 DEF AccessInv, AccessTypeOK, Duties
    <2>4. plan' \in [private : BOOLEAN, creator : Staff, archived : BOOLEAN, deleted : BOOLEAN]
      BY <2>1 DEF AccessInv, AccessTypeOK
    <2> QED
      BY <2>2, <2>3, <2>4, LeavesSound
  <1>9. ASSUME ProjectLifecycleStep PROVE AccessInv'
    <2>1. PICK archived, deleted \in BOOLEAN : plan' = [plan EXCEPT !.archived = archived, !.deleted = deleted]
      BY <1>9 DEF ProjectLifecycleStep
    <2>2. UNCHANGED <<team, job, paper, strayed>> /\ papers' \in 0..MaxPapers
      BY <1>9, AccessAssumption DEF ProjectLifecycleStep, Serves, AccessInv, AccessTypeOK
    <2>3. /\ plan' \in [private : BOOLEAN, creator : Staff, archived : BOOLEAN, deleted : BOOLEAN]
          /\ plan'.private = plan.private
      BY <2>1 DEF AccessInv, AccessTypeOK
    <2>4. AccessTypeOK'
      BY <2>2, <2>3 DEF AccessInv, AccessTypeOK
    <2> QED
      BY <2>2, <2>3, <2>4 DEF AccessInv, JobHeld, PaperHolds, IsMember
  <1>10. ASSUME UNCHANGED accessVars PROVE AccessInv'
    BY <1>10 DEF accessVars, AccessInv, AccessTypeOK, JobHeld, PaperHolds, IsMember
  <1> QED
    BY <1>1, <1>2, <1>21, <1>22, <1>3, <1>4, <1>5, <1>6, <1>7, <1>8, <1>9, <1>10 DEF AccessNext

\* The invariant is all the three readers need.
LEMMA HeldIsRead == AccessInv => ReadersAgree
  <1> SUFFICES ASSUME AccessInv PROVE ReadersAgree
    OBVIOUS
  <1>1. \A t \in Jobs : /\ job[t] \in JobType /\ job[t].assignee \in Holders /\ JobHeld(t)
                        /\ job[t].inside \in BOOLEAN
    BY DEF AccessInv, AccessTypeOK, JobType
  <1>2. ASSUME NEW u \in Staff, NEW t \in MyWork(u) \ strayed PROVE t \in ListTasks(u, FALSE)
    <2>1. t \in Jobs /\ job[t].made /\ ~job[t].archived /\ ~job[t].deleted /\ job[t].assignee = u
      BY <1>2 DEF MyWork
    <2>2. u # Unassigned
      BY AccessAssumption
    <2>3. job[t].inside => CanViewProject(u)
      BY <1>1, <1>2, <2>1, <2>2 DEF JobHeld, IsMember, CanViewProject
    <2> QED
      BY <2>1, <2>3 DEF ListTasks, VisibleTask
  <1>3. MyWorkOpens
    BY <1>2 DEF MyWorkOpens
  <1>4. ASSUME NEW u \in Staff, NEW t \in ListTasks(u, TRUE) \ strayed,
               job[t].inside => ~plan.archived /\ ~plan.deleted
        PROVE  /\ UpdateAdmitted(u, t, job[t].inside, job[t].assignee)
               /\ HasWorkspaceTaskScope(u) => \A v \in EligibleAssignees : UpdateAdmitted(u, t, job[t].inside, v)
    <2>1. t \in Jobs /\ VisibleTask(u, t, TRUE, FALSE)
      BY <1>4 DEF ListTasks
    <2>2. job[t].inside => ProjectAccessible(u)
      BY <1>4, <2>1 DEF VisibleTask, ProjectAccessible
    <2>3. AssigneeAccepted(job[t].assignee, job[t].inside)
      BY <1>1, <1>4, <2>1 DEF JobHeld, IsMember, AssigneeAccepted, Belongs
    <2>4. UpdateAdmitted(u, t, job[t].inside, job[t].assignee)
      BY <2>1, <2>2, <2>3 DEF UpdateAdmitted, TaskAdmitted
    <2>5. ASSUME HasWorkspaceTaskScope(u), NEW v \in EligibleAssignees
          PROVE  UpdateAdmitted(u, t, job[t].inside, v)
      <3>1. AssigneeAccepted(v, job[t].inside)
        BY <2>5 DEF EligibleAssignees, AssigneeAccepted, Belongs
      <3> QED
        BY <2>1, <2>2, <2>5, <3>1 DEF UpdateAdmitted, TaskAdmitted, CanAssign
    <2> QED
      BY <2>4, <2>5
  <1>5. EditsAdmitted
    BY <1>4 DEF EditsAdmitted
  <1> QED
    BY <1>3, <1>5 DEF ReadersAgree

\* What the list, "my work" and the editor of a task say of it agree: a task
\* somebody holds opens for him, and what is offered to a reader is admitted,
\* however many requests look up project and assignee, one after the other, while
\* members come and go and the project is deleted and restored.
THEOREM ReadersStayAgreed == AccessSpec => []ReadersAgree
  <1>1. AccessInit => AccessInv
    BY AccessInitial
  <1>2. AccessInv /\ [AccessNext]_accessVars => AccessInv'
    BY AccessSteps
  <1>3. AccessInv => ReadersAgree
    BY HeldIsRead
  <1> QED
    BY <1>1, <1>2, <1>3, PTL DEF AccessSpec
=============================================================================
