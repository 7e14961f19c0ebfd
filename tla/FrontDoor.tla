------------------------------- MODULE FrontDoor -------------------------------
(***************************************************************************)
(* What happens to every request on its way in and out (the middleware of  *)
(* backend/main.py, security.py, rate_limit.py, services/maintenance.py)   *)
(* and the requests that decide who comes in: signing in and out, and      *)
(* switching the maintenance mode (routers/auth.py and admin.py).  A       *)
(* browser holds one session in a cookie and can have several requests     *)
(* under way; a request reads the maintenance mode first and uses it       *)
(* later.  The pair of session and CSRF cookies is one value here.         *)
(***************************************************************************)
EXTENDS Integers, Sequences, FiniteSets

CONSTANTS
    Browsers, Users, FirstUser, Requests,
    FamilyRoles,                   \* those a user may get
    AppRoleSets,                   \* what an identity provider says of a user, as a set
    Windows,                       \* [from, to]: maintenance that may be scheduled
    EnvMaintenance,                \* MAINTENANCE_MODE
    MaxAge, RotateAfter,           \* of a session
    RateSpan, Limit,               \* of the rate limiter; rule -> requests in a span
    LockoutThreshold, LockFor,
    MaxClock, MaxSends, MaxUpsets  \* bounds: time, requests, changes of users and restarts

VARIABLES
    clock,
    jar,          \* browser -> the session in its cookies
    used,         \* browser -> when a request of its was last answered within a session
    account,      \* user -> the rows of the user and the membership
    maintenance,  \* the row of the maintenance mode
    visit,        \* request -> what is known of it
    bucket,       \* key -> the times the limiter remembers
    sends, upsets

frontDoorVars == <<clock, jar, used, account, maintenance, visit, bucket, sends, upsets>>

NoSession == [user |-> "nobody"]
NoVisit   == [stage |-> "idle"]
NoWindow  == [from |-> 0, to |-> 0]
Never     == -1

\* What the constants must satisfy; assumed by the modules that give them values.
FrontDoorAssumption ==
    /\ FirstUser \in Users /\ "nobody" \notin Users
    /\ FamilyRoles \subseteq {"parent", "co_parent", "tutor", "student_viewer"}
    /\ MaxAge \in Nat /\ RotateAfter \in 1..MaxAge /\ RateSpan \in Nat \ {0} /\ LockFor \in Nat
    /\ \A w \in Windows : w.from < w.to
    /\ DOMAIN Limit = {"auth", "general"}

-----------------------------------------------------------------------------
(* Sessions and roles. *)

Session(u, app) == [user |-> u, issued |-> clock, app |-> app]

Age(session) == clock - session.issued

\* The browser drops a cookie before verify_session_token would refuse it.
Held(b) == IF jar[b] # NoSession /\ Age(jar[b]) >= MaxAge THEN NoSession ELSE jar[b]

\* Mutant: a session is given a new term only when it is over.
WhenOver(session) == session # NoSession /\ Age(session) >= MaxAge

NeedsRotation(session) == session # NoSession /\ Age(session) >= RotateAfter

SynthesizedRoles(role) ==
    CASE role \in {"parent", "co_parent"} -> {"admin", "teacher"}
      [] role = "tutor"                   -> {"teacher"}
      [] role = "student_viewer"          -> {"student"}

AppRoles(session) == IF session.app # {} THEN session.app ELSE SynthesizedRoles(account[session.user].role)

Compatible(session) == AppRoles(session) = {"student"} => account[session.user].role = "student_viewer"

\* get_auth_session finds an accepted membership of an active user.
MayEnter(session) ==
    /\ session # NoSession /\ account[session.user].active /\ account[session.user].member
    /\ Compatible(session)

MayAdminister(session) == MayEnter(session) /\ "admin" \in AppRoles(session)

-----------------------------------------------------------------------------
(* The maintenance mode. *)

InMaintenance ==
    EnvMaintenance \/ maintenance.enabled \/ (maintenance.window.from <= clock /\ clock < maintenance.window.to)

MemberMayBypass(u) == account[u].member /\ (u = FirstUser \/ account[u].role \in {"parent", "co_parent"})

MayBypass(session) == session # NoSession /\ ("admin" \in session.app \/ MemberMayBypass(session.user))

-----------------------------------------------------------------------------
(* The rate limiter.  Everybody comes from one address: that of the proxy. *)

IsSignIn(kind) == kind \in {"login", "external"}

Key(r) ==
    IF visit[r].asked.kind = "login" THEN <<"auth", "address">>
    ELSE <<"general", IF visit[r].session = NoSession THEN "address" ELSE visit[r].session.user>>

RateKeys == {<<"auth", "address">>, <<"general", "address">>} \cup {<<"general", u>> : u \in Users}

Recent(times) == SelectSeq(times, LAMBDA t : t > clock - RateSpan)

HasRoom(key) == Len(Recent(bucket[key])) < Limit[key[1]]

-----------------------------------------------------------------------------

\* A browser may have signed in just before.
FrontDoorInit ==
    /\ clock = 0 /\ sends = 0 /\ upsets = 0
    /\ jar \in [Browsers -> {NoSession} \cup {Session(u, app) : u \in Users, app \in AppRoleSets}]
    /\ used = [b \in Browsers |-> clock]
    /\ account \in [Users -> {[role |-> role, active |-> TRUE, member |-> TRUE, fails |-> 0, locked |-> Never] :
                                role \in FamilyRoles}]
    /\ account[FirstUser].role = "parent"
    /\ maintenance = [enabled |-> FALSE, window |-> NoWindow]
    /\ visit = [r \in Requests |-> NoVisit]
    /\ bucket = [k \in RateKeys |-> << >>]

Tick ==
    /\ clock < MaxClock /\ clock' = clock + 1
    /\ UNCHANGED <<jar, used, account, maintenance, visit, bucket, sends, upsets>>

\* A request arrives with what the browser holds: the middleware reads the maintenance
\* mode, and the session unless the path is public.
Arrive(r, b, asked) ==
    /\ visit[r] = NoVisit /\ sends < MaxSends /\ sends' = sends + 1
    /\ visit' = [visit EXCEPT ![r] =
            [stage |-> "inspected", browser |-> b, asked |-> asked, closed |-> InMaintenance,
             session |-> IF IsSignIn(asked.kind) THEN NoSession ELSE Held(b)]]
    /\ UNCHANGED <<clock, jar, used, account, maintenance, bucket, upsets>>

EndVisit(r) == visit' = [visit EXCEPT ![r] = NoVisit]

TurnAway(r) == visit[r].closed /\ ~IsSignIn(visit[r].asked.kind) /\ ~MayBypass(visit[r].session)

\* An answer from here gives no session a new term.
Admit(r) ==
    LET outside == ~IsSignIn(visit[r].asked.kind) /\ visit[r].session = NoSession IN
    /\ visit[r].stage = "inspected"
    /\ IF TurnAway(r) \/ outside THEN EndVisit(r) /\ UNCHANGED bucket
       ELSE IF ~HasRoom(Key(r)) THEN EndVisit(r) /\ bucket' = [bucket EXCEPT ![Key(r)] = Recent(@)]
       ELSE /\ visit' = [visit EXCEPT ![r].stage = "admitted"]
            /\ bucket' = [bucket EXCEPT ![Key(r)] = Append(Recent(@), clock)]
    /\ UNCHANGED <<clock, jar, used, account, maintenance, sends, upsets>>

\* The answer of a handler goes out through the middleware, which gives a session a new
\* term: without its application roles, and after the handler's own cookies.
Leave(r, status, cookies) ==
    LET b       == visit[r].browser
        session == visit[r].session
        rotates == status # "error" /\ NeedsRotation(session)
    IN  /\ EndVisit(r)
        /\ jar' = [jar EXCEPT ![b] = IF rotates THEN Session(session.user, {}) ELSE cookies]
        /\ used' = IF cookies # NoSession /\ status # "error" /\ (session # NoSession \/ cookies # jar[b])
                   THEN [used EXCEPT ![b] = clock] ELSE used

\* A handler that works within a session.
Use(r) ==
    /\ visit[r].stage = "admitted" /\ visit[r].asked.kind = "use"
    /\ \E status \in IF MayEnter(visit[r].session) THEN {"ok", "error"} ELSE {"refused"} :
        Leave(r, status, jar[visit[r].browser])
    /\ UNCHANGED <<clock, account, maintenance, bucket, sends, upsets>>

\* toggle_maintenance and schedule_maintenance.
SetMaintenance(r) ==
    LET asked == visit[r].asked IN
    /\ visit[r].stage = "admitted" /\ asked.kind \in {"toggle", "schedule"}
    /\ IF MayAdminister(visit[r].session)
       THEN /\ Leave(r, "ok", jar[visit[r].browser])
            /\ maintenance' = IF asked.kind = "toggle" THEN [maintenance EXCEPT !.enabled = asked.enabled]
                              ELSE [maintenance EXCEPT !.window = asked.window]
       ELSE Leave(r, "refused", jar[visit[r].browser]) /\ UNCHANGED maintenance
    /\ UNCHANGED <<clock, account, bucket, sends, upsets>>

SignOut(r) ==
    /\ visit[r].stage = "admitted" /\ visit[r].asked.kind = "logout"
    /\ IF MayEnter(visit[r].session) THEN Leave(r, "ok", NoSession) ELSE Leave(r, "refused", jar[visit[r].browser])
    /\ UNCHANGED <<clock, account, maintenance, bucket, sends, upsets>>

-----------------------------------------------------------------------------
(* Signing in. *)

IsLocked(row) == row.locked > clock

\* login reads the rows, and checks the password.
ReadAccount(r) ==
    LET row == account[visit[r].asked.user] IN
    /\ visit[r].stage = "admitted" /\ visit[r].asked.kind = "login"
    /\ IF InMaintenance /\ ~(row.active /\ MemberMayBypass(visit[r].asked.user)) THEN EndVisit(r)
       ELSE IF IsLocked(row) THEN EndVisit(r)
       ELSE /\ visit' = [visit EXCEPT ![r] =
                    [stage |-> "signing in", browser |-> @.browser, asked |-> @.asked, session |-> @.session, row |-> row]]
    /\ UNCHANGED <<clock, jar, used, account, maintenance, bucket, sends, upsets>>

\* Only the columns that differ from what was read are written.
WriteLogin(u, seen, fails, locked) ==
    account' = [account EXCEPT
        ![u].fails  = IF fails # seen.fails THEN fails ELSE @,
        ![u].locked = IF locked # seen.locked THEN locked ELSE @]

\* _register_failed_login.
Reject(r) ==
    LET row == visit[r].row
        u   == visit[r].asked.user
    IN  /\ visit[r].stage = "signing in" /\ ~(row.active /\ row.member /\ visit[r].asked.right)
        /\ IF row.fails + 1 >= LockoutThreshold THEN WriteLogin(u, row, 0, clock + LockFor)
           ELSE WriteLogin(u, row, row.fails + 1, row.locked)
        /\ EndVisit(r)
        /\ UNCHANGED <<clock, jar, used, maintenance, bucket, sends, upsets>>

\* _reset_failed_login, and the cookies.
SignIn(r) ==
    LET row == visit[r].row
        u   == visit[r].asked.user
    IN  /\ visit[r].stage = "signing in" /\ row.active /\ row.member /\ visit[r].asked.right
        /\ WriteLogin(u, row, 0, Never)
        /\ Leave(r, "ok", Session(u, {}))
        /\ UNCHANGED <<clock, maintenance, bucket, sends, upsets>>

\* The identity provider has vouched for the user, and says which roles it has.
SignInOutside(r) ==
    LET u == visit[r].asked.user IN
    /\ visit[r].stage = "admitted" /\ visit[r].asked.kind = "external" /\ account[u].active /\ account[u].member
    /\ IF InMaintenance /\ ~MemberMayBypass(u) THEN EndVisit(r) /\ UNCHANGED <<jar, used>>
       ELSE Leave(r, "ok", Session(u, visit[r].asked.app))
    /\ UNCHANGED <<clock, account, maintenance, bucket, sends, upsets>>

RefuseOutside(r) ==
    /\ visit[r].stage = "admitted" /\ visit[r].asked.kind = "external"
    /\ ~(account[visit[r].asked.user].active /\ account[visit[r].asked.user].member)
    /\ EndVisit(r)
    /\ UNCHANGED <<clock, jar, used, account, maintenance, bucket, sends, upsets>>

-----------------------------------------------------------------------------

\* Members change meanwhile (Membership).
Change(u, row) ==
    /\ upsets < MaxUpsets /\ upsets' = upsets + 1
    /\ account[u] # row /\ account' = [account EXCEPT ![u] = row]
    /\ UNCHANGED <<clock, jar, used, maintenance, visit, bucket, sends>>

\* What the limiter knows is in memory.
RestartServer ==
    /\ upsets < MaxUpsets /\ upsets' = upsets + 1
    /\ visit' = [r \in Requests |-> NoVisit]
    /\ bucket' = [k \in RateKeys |-> << >>]
    /\ UNCHANGED <<clock, jar, used, account, maintenance, sends>>

Asked ==
    [kind : {"use", "logout"}]
    \cup [kind : {"toggle"}, enabled : BOOLEAN] \cup [kind : {"schedule"}, window : Windows \cup {NoWindow}]
    \cup [kind : {"login"}, user : Users, right : BOOLEAN]
    \cup [kind : {"external"}, user : Users, app : AppRoleSets]

FrontDoorNext ==
    \/ Tick \/ RestartServer
    \/ \E r \in Requests, b \in Browsers, asked \in Asked : Arrive(r, b, asked)
    \/ \E r \in Requests :
        \/ Admit(r) \/ Use(r) \/ SetMaintenance(r) \/ SignOut(r)
        \/ ReadAccount(r) \/ Reject(r) \/ SignIn(r) \/ SignInOutside(r) \/ RefuseOutside(r)
    \/ \E u \in Users \ {FirstUser} :
        \/ \E role \in FamilyRoles : Change(u, [account[u] EXCEPT !.role = role])
        \/ \E b \in BOOLEAN : Change(u, [account[u] EXCEPT !.active = b]) \/ Change(u, [account[u] EXCEPT !.member = b])

FrontDoorSpec == FrontDoorInit /\ [][FrontDoorNext]_frontDoorVars

-----------------------------------------------------------------------------

\* A person who is at it keeps the session: as long as a request of the browser was
\* answered less than a session's age ago, less the time after which it gets a new term,
\* what the browser holds is good, whatever answers came in between.
StaysSignedIn ==
    \A b \in Browsers : jar[b] # NoSession /\ clock - used[b] <= MaxAge - RotateAfter => Held(b) # NoSession

\* The maintenance mode turns nobody away who could end it.
AdminsGetThrough ==
    \A r \in Requests : visit[r].stage = "inspected" /\ TurnAway(r) => ~MayAdminister(visit[r].session)

\* Neither time nor the maintenance mode shuts out somebody who should be in.
NobodyIsShutOut == StaysSignedIn /\ AdminsGetThrough
===============================================================================
