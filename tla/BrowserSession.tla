---------------------------- MODULE BrowserSession ----------------------------
(* One browser of one account: the cookie its tabs share, the access token each *)
(* tab keeps in memory, and the calls they send to /auth.  An access token      *)
(* names its session, so a refresh in one tab ends the token of the others, and *)
(* they refresh as well.  A request answered 401 is sent once more after the     *)
(* refresh, and may be answered 401 again when another tab has rotated the      *)
(* cookie meanwhile.  The server's part is that of AuthSessions, with each call *)
(* taken at once.                                                                *)
EXTENDS Integers, FiniteSets

CONSTANTS Tabs,
          MaxRows,   \* bound: sessions created
          MaxSent    \* bound: calls sent

ASSUME BrowserAssumption == MaxRows \in Nat \ {0} /\ MaxSent \in Nat

None == 0
SessionIds == 1..MaxRows

VARIABLES session,   \* rows of "refresh_sessions"
          jar,       \* the session of the refresh cookie, or None
          tab,       \* what AuthProvider and the client of each tab hold
          flight,    \* calls under way
          sent,      \* calls sent
          excused,   \* history: families a second tab, a lost answer or a logout has touched
          late       \* history: tabs signed out with a token in hand, or refreshed after they were signed out

browserVars == <<session, jar, tab, flight, sent, excused, late>>

SessionRow == [state : {"none", "live", "revoked"}, family : SessionIds \cup {None}, burnt : BOOLEAN]
\* leaving: the profile was refused, and the tab logs out.  opened: pages with requests
\* of their own have been shown since the page was loaded; retried: the tokens with
\* which requests were sent once more since then.
TabStatus == {"closed", "loading", "checking", "leaving", "in", "out"}
TabType == [status : TabStatus, token : SessionIds \cup {None}, opened : BOOLEAN, retried : SUBSET SessionIds]
Fresh(status) == [status |-> status, token |-> None, opened |-> FALSE, retried |-> {}]
\* gone: the page that waited for the answer has been left.
FlightType == [id : 1..MaxSent, tab : Tabs, kind : {"boot", "refresh", "login", "logout"}, pc : {"sent", "answered"},
               cookie : SessionIds \cup {None}, got : SessionIds \cup {None}, gone : BOOLEAN]

BrowserTypeOK ==
    /\ session \in [SessionIds -> SessionRow] /\ jar \in SessionIds \cup {None}
    /\ tab \in [Tabs -> TabType] /\ flight \subseteq FlightType /\ sent \in 0..MaxSent
    /\ excused \subseteq SessionIds /\ late \subseteq Tabs

BrowserInit ==
    /\ session = [s \in SessionIds |-> [state |-> "none", family |-> None, burnt |-> FALSE]]
    /\ jar = None
    /\ tab = [t \in Tabs |-> Fresh("closed")]
    /\ flight = {} /\ sent = 0
    /\ excused = {} /\ late = {}

Alive(s) == s # None /\ session[s].state = "live"
Family(s) == session[s].family
OfTab(t) == {f \in flight : f.tab = t /\ ~f.gone}
Refreshing(t) == \E f \in OfTab(t) : f.kind = "refresh"
Lands(f) == flight' = flight \ {f}
Shows(t, status, token) == tab' = [tab EXCEPT ![t].status = status, ![t].token = token]

\* A call is sent with the cookie of the moment.
Call(t, kind) == [id |-> sent + 1, tab |-> t, kind |-> kind, pc |-> "sent", cookie |-> jar, got |-> None, gone |-> FALSE]
MaySend == sent < MaxSent /\ sent' = sent + 1

\* The families of the calls fs; the family of a cookie another tab is rotating.
FamiliesOf(fs) == {Family(s) : s \in (UNION {{f.cookie, f.got} : f \in fs}) \ {None}}
Contended(t) == FamiliesOf({f \in flight : f.kind \in {"boot", "refresh"} /\ f.tab # t /\ f.cookie = jar})

-----------------------------------------------------------------------------
(* The tabs *)

\* A page is loaded: the memory of the tab is new, and what it waited for lost.
LoadPage(t) == LET left == OfTab(t) IN
    /\ MaySend
    /\ flight' = (flight \ left) \cup {[f EXCEPT !.gone = TRUE] : f \in left} \cup {Call(t, "boot")}
    /\ tab' = [tab EXCEPT ![t] = Fresh("loading")]
    /\ excused' = excused \cup FamiliesOf(left) \cup Contended(t)
    /\ UNCHANGED <<session, jar, late>>

LogIn(t) == /\ tab[t].status = "out"
            /\ MaySend
            /\ flight' = flight \cup {Call(t, "login")}
            /\ UNCHANGED <<session, jar, tab, excused, late>>

\* The request for the profile, or one of a page that has been shown, whoever is
\* signed in by the time its answer arrives.
Asks(t) == tab[t].status = "checking" \/ tab[t].opened

\* Mutant: the refresh under way is not shared.
RefreshEach(t) == /\ Asks(t)
                  /\ MaySend
                  /\ flight' = flight \cup {Call(t, "refresh")}
                  /\ excused' = excused \cup Contended(t)
                  /\ UNCHANGED <<session, jar, tab, late>>

\* A request was answered 401: the token has run out, or its session is not live.
\* The refresh under way is shared.
TabRefreshes(t) == /\ Asks(t)
              /\ ~Refreshing(t)
              /\ MaySend
              /\ flight' = flight \cup {Call(t, "refresh")}
              /\ excused' = excused \cup Contended(t)
              /\ UNCHANGED <<session, jar, tab, late>>

\* /auth/me accepts the token, and the pages open.
MeSucceeds(t) == /\ tab[t].status = "checking"
                 /\ Alive(tab[t].token)
                 /\ tab' = [tab EXCEPT ![t].status = "in", ![t].opened = TRUE]
                 /\ UNCHANGED <<session, jar, flight, sent, excused, late>>

\* bootstrap and login: /auth/me is answered 401 once more after a refresh, or
\* fails otherwise, and the tab logs out with the cookie of the moment.
MeFails(t) == /\ tab[t].status = "checking"
              /\ MaySend
              /\ flight' = flight \cup {Call(t, "logout")}
              /\ tab' = [tab EXCEPT ![t].status = "leaving"]
              /\ UNCHANGED <<session, jar, excused, late>>

\* refreshProfile: sent once more after a refresh, /auth/me is answered 401 again,
\* for another tab has rotated the session of that token.  The token stays.
ProfileRefused(t) == /\ tab[t].opened /\ tab[t].status = "in"
                     /\ \E s \in tab[t].retried : ~Alive(s)
                     /\ tab' = [tab EXCEPT ![t].status = "out"]
                     /\ late' = late \cup {t}
                     /\ UNCHANGED <<session, jar, flight, sent, excused>>

\* The same request succeeds after the tab has signed out, and signs it in.
ProfileRead(t) == /\ tab[t].opened /\ tab[t].status = "out"
                  /\ \E s \in tab[t].retried : Alive(s)
                  /\ tab' = [tab EXCEPT ![t].status = "in"]
                  /\ UNCHANGED <<session, jar, flight, sent, excused, late>>

LogOut(t) == /\ tab[t].status = "in"
             /\ MaySend
             /\ flight' = flight \cup {Call(t, "logout")}
             /\ UNCHANGED <<session, jar, tab, excused, late>>

-----------------------------------------------------------------------------
(* The server *)

NextRow(n) == session[n].state = "none" /\ \A m \in SessionIds : m < n => session[m].state # "none"
Answers(f, n) == flight' = (flight \ {f}) \cup {[f EXCEPT !.pc = "answered", !.got = n]}
Waiting(f, kinds) == f.kind \in kinds /\ f.pc = "sent"

Rotate(f) == LET s == f.cookie IN \E n \in SessionIds :
    /\ Waiting(f, {"boot", "refresh"})
    /\ Alive(s)
    /\ NextRow(n)
    /\ session' = [session EXCEPT ![s].state = "revoked",
                                  ![n] = [state |-> "live", family |-> Family(s), burnt |-> FALSE]]
    /\ Answers(f, n)
    /\ UNCHANGED <<jar, tab, sent, excused, late>>

\* No cookie, or one that is spent.  A spent one ends the family, unless the
\* rotation that spent it came in between (see AuthSessions!Claim).
Refuse(f) == LET s == f.cookie IN
    /\ Waiting(f, {"boot", "refresh"})
    /\ ~Alive(s)
    /\ \/ /\ s # None
          /\ session' = [n \in SessionIds |-> IF session[n].family = Family(s)
                            THEN [session[n] EXCEPT !.state = "revoked", !.burnt = TRUE] ELSE session[n]]
       \/ UNCHANGED session
    /\ Answers(f, None)
    /\ UNCHANGED <<jar, tab, sent, excused, late>>

Authenticate(f) == \E n \in SessionIds :
    /\ Waiting(f, {"login"})
    /\ NextRow(n)
    /\ session' = [session EXCEPT ![n] = [state |-> "live", family |-> n, burnt |-> FALSE]]
    /\ Answers(f, n)
    /\ UNCHANGED <<jar, tab, sent, excused, late>>

EndSessionOf(f) == LET s == f.cookie IN
    /\ Waiting(f, {"logout"})
    /\ IF Alive(s) THEN /\ session' = [session EXCEPT ![s].state = "revoked"]
                        /\ excused' = excused \cup {Family(s)}
       ELSE UNCHANGED <<session, excused>>
    /\ Answers(f, None)
    /\ UNCHANGED <<jar, tab, sent, late>>

-----------------------------------------------------------------------------
(* The answers *)

Arrives(f, kinds) == f.kind \in kinds /\ f.pc = "answered" /\ ~f.gone

\* bootstrap and login: the token, then the profile.
SignedIn(f) ==
    /\ Arrives(f, {"boot", "login"})
    /\ f.got # None
    /\ jar' = f.got
    /\ Shows(f.tab, "checking", f.got)
    /\ late' = late \ {f.tab}
    /\ Lands(f)
    /\ UNCHANGED <<session, sent, excused>>

BootRefused(f) ==
    /\ Arrives(f, {"boot"})
    /\ f.got = None
    /\ Shows(f.tab, "out", None)
    /\ Lands(f)
    /\ UNCHANGED <<session, jar, sent, excused, late>>

\* The token is kept, whatever the tab shows, and the requests that waited for it
\* are sent once more.
Refreshed(f) == LET t == f.tab IN
    /\ Arrives(f, {"refresh"})
    /\ f.got # None
    /\ jar' = f.got
    /\ tab' = [tab EXCEPT ![t].token = f.got, ![t].retried = @ \cup {f.got}]
    /\ late' = IF tab[t].status = "out" THEN late \cup {t} ELSE late
    /\ Lands(f)
    /\ UNCHANGED <<session, sent, excused>>

\* Any request just fails, but a profile read again ends the session on screen.
Unrenewed(t) == \/ Shows(t, tab[t].status, None)
                \/ tab[t].status = "in" /\ Shows(t, "out", None)

\* The cookie stays.  Bootstrap and login log out without a profile.
RefreshRefused(f) == LET t == f.tab IN
    /\ Arrives(f, {"refresh"})
    /\ f.got = None
    /\ \/ /\ tab[t].status = "checking"
          /\ MaySend
          /\ flight' = (flight \ {f}) \cup {Call(t, "logout")}
          /\ Shows(t, "leaving", None)
       \/ /\ Unrenewed(t)
          /\ Lands(f)
          /\ UNCHANGED sent
    /\ UNCHANGED <<session, jar, excused, late>>

LoggedOut(f) ==
    /\ Arrives(f, {"logout"})
    /\ jar' = None
    /\ Shows(f.tab, "out", None)
    /\ late' = late \ {f.tab}
    /\ Lands(f)
    /\ UNCHANGED <<session, sent, excused>>

\* No answer arrives.  A refresh forgets the token, a bootstrap never ends its
\* loading, a login or logout changes nothing in the tab: a tab that logs out
\* without a profile never ends it.
AnswerLost(f) ==
    /\ IF f.kind = "refresh" /\ ~f.gone THEN Unrenewed(f.tab) ELSE UNCHANGED tab
    /\ excused' = excused \cup FamiliesOf({f})
    /\ Lands(f)
    /\ UNCHANGED <<session, jar, sent, late>>

BrowserNext ==
    \/ \E t \in Tabs : LoadPage(t) \/ LogIn(t) \/ TabRefreshes(t) \/ LogOut(t)
                        \/ MeSucceeds(t) \/ MeFails(t) \/ ProfileRefused(t) \/ ProfileRead(t)
    \/ \E f \in flight : \/ Rotate(f) \/ Refuse(f) \/ Authenticate(f) \/ EndSessionOf(f)
                         \/ SignedIn(f) \/ BootRefused(f) \/ Refreshed(f) \/ RefreshRefused(f) \/ LoggedOut(f)
                         \/ AnswerLost(f)

BrowserSpec == BrowserInit /\ [][BrowserNext]_browserVars

-----------------------------------------------------------------------------

\* Rotation and reuse detection leave the browser its cookie: a family is burnt, and
\* the cookie of a browser with nothing under way names a session that is not live,
\* only after two tabs refreshed with one cookie at once, an answer was lost, or a
\* logout, which a tab also sends by itself when /auth/me fails.  A tab may still
\* show its session as ended, when another tab rotates between its refresh and the
\* request sent once more; and a tab that is signed out holds no token unless it was
\* signed out that way, or refreshed after it was signed out.
SessionKept ==
    /\ \A s \in SessionIds : session[s].burnt => Family(s) \in excused
    /\ flight = {} => jar = None \/ Alive(jar) \/ Family(jar) \in excused
    /\ \A t \in Tabs : tab[t].status = "out" => tab[t].token = None \/ t \in late
=============================================================================
