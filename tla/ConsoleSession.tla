--------------------------- MODULE ConsoleSession ---------------------------
(***************************************************************************)
(* Who is signed in to one tab of the console, and to which project its    *)
(* requests go: the store of the page, the cookie and the local storage of *)
(* the browser, and the sessions the server keeps.                         *)
(*                                                                         *)
(* A request carries the cookie the browser has when it is sent. The       *)
(* server serves it; then the headers of its answer arrive, and the        *)
(* browser applies their Set-Cookie; then the code that awaits the answer  *)
(* reads its body and changes the store. Other answers come between these  *)
(* steps, in any order, also after the page that sent the request is gone: *)
(* no request is ever aborted.                                             *)
(***************************************************************************)
EXTENDS Integers, FiniteSets

CONSTANTS Users,     \* accounts
          Projects,
          Nobody,    \* no user, session, project or request
          Sessions,  \* bound: sessions the server can issue, in this order
          Calls,     \* bound: numbers of requests in flight
          NewProjects,  \* bound: projects the tab can create
          Granted    \* bound: memberships others can give a user

VARIABLES
    user,         \* currentUser of the store
    listed,       \* projects of the store: the role in each project listed
    current,      \* currentProject
    role,         \* currentProjectRole
    initialized,  \* authInitialized
    form,         \* the request the form of /login or /register waits for
    remembered,   \* evalsmith.currentProject in the local storage
    cookie,       \* the session the browser's cookie names
    owner,        \* the user each session was issued to
    alive,        \* the sessions the server accepts
    joined,       \* the memberships on the server: [user -> [project -> role]]
    inFlight,     \* the requests whose answers nobody has handled
    inTurn        \* since the tab was loaded, the answers that set the cookie
                  \* have been handled one by one

store == <<user, listed, current, role, initialized>>
server == <<owner, alive, joined>>
sessionVars == <<store, form, remembered, cookie, server, inFlight, inTurn>>

Roles == {"owner", "viewer"}
NoProjects == [p \in {} |-> "viewer"]
Lists == UNION {[ps -> Roles] : ps \in SUBSET Projects}

ASSUME SessionAssumption ==
    /\ Nobody \notin Users \cup Projects \cup Sessions \cup Calls
    /\ Sessions \subseteq Nat /\ 1 \in Sessions
    /\ Calls \subseteq Nat /\ 1 \in Calls
    /\ NewProjects \subseteq Projects
    /\ Granted \subseteq [Users -> Lists]

RoleIn(list, p) == IF p \in DOMAIN list THEN list[p] ELSE Nobody

CallKinds == {"me", "auth", "logout", "list", "create"}

\* What has become of a request, and what its answer brings: the user who is
\* signed in and the projects of that user, or the project that was created.
\* A sign-in takes the session that was issued to it.
Requests == [kind : CallKinds, id : Calls, session : Sessions \cup {Nobody},
             as : Users \cup {Nobody}, list : Lists,
             project : Projects \cup {Nobody},
             got : {"nothing", "refused", "served", "headers"}]

NewRequest(kind, n, account) ==
    [kind |-> kind, id |-> n, session |-> cookie, as |-> account,
     list |-> NoProjects, project |-> Nobody, got |-> "nothing"]

\* The first number that no request in flight has.
FreeCalls ==
    {n \in Calls : /\ \A c \in inFlight : c.id # n
                   /\ \A m \in Calls : m < n => \E c \in inFlight : c.id = m}

\* The request is sent with the cookie of this moment; auth names an account.
Send(kind, n, account) ==
    n \in FreeCalls /\ inFlight' = inFlight \cup {NewRequest(kind, n, account)}

\* The tab has loaded the application and asks who is signed in.
SessionInit ==
    /\ user = Nobody /\ listed = NoProjects /\ role = Nobody
    /\ initialized = FALSE /\ form = Nobody
    /\ remembered \in Projects \cup {Nobody} /\ current = remembered
    /\ cookie \in {1, Nobody} /\ alive = {1} \cap {cookie}
    /\ owner \in {o \in [Sessions -> Users \cup {Nobody}] :
                     \A s \in Sessions : o[s] # Nobody <=> s = cookie}
    /\ joined = [u \in Users |-> NoProjects]
    /\ inFlight = {NewRequest("me", 1, Nobody)}
    /\ inTurn = TRUE

-----------------------------------------------------------------------------
(* The store                                                               *)

\* resolveProjectState: the project asked for if it is listed, else the first
\* one of the list, whichever that is; nothing when the list is empty.
Resolved(list, asked) ==
    IF asked \in DOMAIN list THEN {asked}
    ELSE IF DOMAIN list = {} THEN {Nobody} ELSE DOMAIN list

\* state.currentProject || readStoredProject()
AskedFor == IF current = Nobody THEN remembered ELSE current

ShowProjects(list) ==
    \E p \in Resolved(list, AskedFor) :
       /\ listed' = list /\ current' = p /\ role' = RoleIn(list, p)
       /\ remembered' = p

SetAuthSession(u, list) ==
    /\ user' = u /\ initialized' = TRUE
    /\ ShowProjects(list)

\* The project stays remembered for the next one who signs in.
ClearAuth ==
    /\ user' = Nobody /\ listed' = NoProjects
    /\ current' = Nobody /\ role' = Nobody /\ initialized' = TRUE
    /\ UNCHANGED remembered

SetProject(p) ==
    /\ current' = p /\ role' = RoleIn(listed, p)
    /\ remembered' = p
    /\ UNCHANGED <<user, listed, initialized>>

-----------------------------------------------------------------------------
(* What the server does with a request; the browser knows nothing of it.   *)

\* The session middleware accepts it.
Accepted(c) == c.session \in alive

Become(c, d) == inFlight' = (inFlight \ {c}) \cup {d}

\* A refused password is a 401 like any other.
ServeRefusal(c) ==
    /\ c.kind = "auth" \/ ~Accepted(c)
    /\ Become(c, [c EXCEPT !.got = "refused", !.session = Nobody, !.as = Nobody])
    /\ UNCHANGED server

ServeMe(c) ==
    /\ c.kind = "me" /\ Accepted(c)
    /\ LET u == owner[c.session] IN
       Become(c, [c EXCEPT !.got = "served", !.session = Nobody,
                              !.as = u, !.list = joined[u]])
    /\ UNCHANGED server

ServeAuth(c) ==
    /\ c.kind = "auth"
    /\ \E s \in Sessions :
          /\ owner[s] = Nobody
          /\ \A t \in Sessions : t < s => owner[t] # Nobody
          /\ owner' = [owner EXCEPT ![s] = c.as]
          /\ alive' = alive \cup {s}
          /\ Become(c, [c EXCEPT !.got = "served", !.session = s,
                                 !.list = joined[c.as]])
    /\ UNCHANGED joined

ServeLogout(c) ==
    /\ c.kind = "logout" /\ Accepted(c)
    /\ alive' = alive \ {c.session}
    /\ Become(c, [c EXCEPT !.got = "served", !.session = Nobody])
    /\ UNCHANGED <<owner, joined>>

ServeList(c) ==
    /\ c.kind = "list" /\ Accepted(c)
    /\ Become(c, [c EXCEPT !.got = "served", !.session = Nobody,
                           !.list = joined[owner[c.session]]])
    /\ UNCHANGED server

ServeCreate(c) ==
    /\ c.kind = "create" /\ Accepted(c)
    /\ LET u == owner[c.session] IN
       \E p \in NewProjects :
          /\ \A v \in Users : p \notin DOMAIN joined[v]
          /\ joined' = [joined EXCEPT ![u] =
                [q \in DOMAIN joined[u] \cup {p} |->
                    IF q = p THEN "owner" ELSE joined[u][q]]]
          /\ Become(c, [c EXCEPT !.got = "served", !.session = Nobody,
                                 !.project = p])
    /\ UNCHANGED <<owner, alive>>

ServerServes ==
    /\ \E c \in inFlight :
          /\ c.got = "nothing"
          /\ \/ ServeRefusal(c) \/ ServeMe(c) \/ ServeAuth(c)
             \/ ServeLogout(c) \/ ServeList(c) \/ ServeCreate(c)
    /\ UNCHANGED <<store, form, remembered, cookie, inTurn>>

-----------------------------------------------------------------------------
(* The answers. Only those of sign-ins and sign-outs set the cookie: the    *)
(* headers of the others change nothing and arrive with the body.          *)

\* Sign-ins and sign-outs whose cookie is set and whose code has not run.
Answering == {c \in inFlight : c.kind \in {"auth", "logout"} /\ c.got = "headers"}

\* fetch: the cookie is set, or expired whatever session it names by then.
HeadersArrive ==
    /\ \E c \in inFlight :
          /\ c.kind \in {"auth", "logout"} /\ c.got = "served"
          /\ cookie' = IF c.kind = "auth" THEN c.session ELSE Nobody
          /\ Become(c, [c EXCEPT !.got = "headers"])
    /\ inTurn' = (inTurn /\ Answering = {})
    /\ UNCHANGED <<store, form, remembered, server>>

\* A form forgets that it waits when its request is done.
FormDone(c) == form' = IF form = c.id THEN Nobody ELSE form

\* getCurrentSession.
HandleMe(c) ==
    /\ c.kind = "me" /\ c.got = "served"
    /\ SetAuthSession(c.as, c.list)
    /\ UNCHANGED <<form, inTurn>>

\* handleSubmit, wherever the user is by then; no form is left after it.
HandleAuth(c) ==
    /\ c.kind = "auth" /\ c.got = "headers"
    /\ SetAuthSession(c.as, c.list)
    /\ form' = Nobody
    /\ UNCHANGED inTurn

\* Mutant: the store is cleared only when the request fails.
HandleLogoutKeepsUser(c) ==
    /\ c.kind = "logout" /\ c.got = "headers"
    /\ UNCHANGED <<store, form, remembered, inTurn>>

HandleLogout(c) ==
    /\ c.kind = "logout" /\ c.got = "headers"
    /\ ClearAuth
    /\ UNCHANGED <<form, inTurn>>

\* request: a 401 signs out whoever is signed in when it is handled.
HandleRefusal(c) ==
    /\ c.got = "refused"
    /\ ClearAuth
    /\ FormDone(c)
    /\ UNCHANGED inTurn

\* The effect of SettingsPage runs while its page is there, which is while
\* the user it was opened by is signed in. No other page changes the store.
HandleList(c) ==
    /\ c.kind = "list" /\ c.got = "served"
    /\ \/ /\ user = c.as
          /\ ShowProjects(c.list)
          /\ UNCHANGED <<user, initialized>>
       \/ UNCHANGED <<store, remembered>>
    /\ UNCHANGED <<form, inTurn>>

\* handleCreateProject goes on wherever the user is by then.
HandleCreate(c) ==
    /\ c.kind = "create" /\ c.got = "served"
    /\ SetProject(c.project)
    /\ UNCHANGED <<form, inTurn>>

\* The network or the server fails, before the server has served the request
\* or after it, or the body is lost: the first call and a sign-out end with
\* nobody signed in, any other with a message. The cookie of a sign-in that
\* fails so late names a user whom the page does not show.
HandleFailure(c) ==
    /\ c.got # "refused"
    /\ IF c.kind \in {"me", "logout"} THEN ClearAuth
                                     ELSE UNCHANGED <<store, remembered>>
    /\ FormDone(c)
    /\ inTurn' = (inTurn /\ (c.kind = "auth" /\ c.got = "headers" => user = Nobody))

AnswerHandled ==
    /\ \E c \in inFlight :
          /\ inFlight' = inFlight \ {c}
          /\ \/ HandleMe(c) \/ HandleAuth(c) \/ HandleLogout(c)
             \/ HandleRefusal(c) \/ HandleList(c)
             \/ HandleCreate(c) \/ HandleFailure(c)
    /\ UNCHANGED <<cookie, server>>

-----------------------------------------------------------------------------
(* The user                                                                *)

\* handleSubmit of LoginPage and RegisterPage: the button is disabled while
\* the form waits, but a form left for the other one forgets that it does.
Submit ==
    /\ initialized /\ user = Nobody /\ form = Nobody
    /\ \E u \in Users, n \in Calls : Send("auth", n, u) /\ form' = n
    /\ UNCHANGED <<store, remembered, cookie, server, inTurn>>

OtherForm ==
    /\ initialized /\ user = Nobody /\ form # Nobody
    /\ form' = Nobody
    /\ UNCHANGED <<store, remembered, cookie, server, inFlight, inTurn>>

\* handleLogout: the button stays enabled while the request is in flight.
Logout ==
    /\ user # Nobody
    /\ \E n \in Calls : Send("logout", n, Nobody)
    /\ UNCHANGED <<store, form, remembered, cookie, server, inTurn>>

\* The selection of the header and the list of SettingsPage.
ChooseProject ==
    /\ user # Nobody
    /\ \E p \in DOMAIN listed \cup ({current} \ {Nobody}) : SetProject(p)
    /\ UNCHANGED <<form, cookie, server, inFlight, inTurn>>

\* A request of a page; SettingsPage lists the projects and creates new ones.
PageAsks ==
    /\ user # Nobody
    /\ \E kind \in {"list", "create"}, n \in Calls : Send(kind, n, user)
    /\ UNCHANGED <<store, form, remembered, cookie, server, inTurn>>

-----------------------------------------------------------------------------
(* What else happens to the tab and the server                             *)

\* The tab is reloaded: memory and requests in flight are gone.
ReloadTab ==
    /\ user' = Nobody /\ listed' = NoProjects /\ role' = Nobody
    /\ initialized' = FALSE /\ form' = Nobody
    /\ current' = remembered
    /\ inFlight' = {NewRequest("me", 1, Nobody)}
    /\ inTurn' = TRUE
    /\ UNCHANGED <<remembered, cookie, server>>

SessionExpires ==
    /\ \E s \in alive : alive' = alive \ {s}
    /\ UNCHANGED <<store, form, remembered, cookie, owner, joined, inFlight, inTurn>>

\* Somebody else adds the user to a project, changes the role or removes it.
MembershipChanges ==
    /\ joined' \in Granted
    /\ UNCHANGED <<store, form, remembered, cookie, owner, alive, inFlight, inTurn>>

SessionNext ==
    \/ ServerServes \/ HeadersArrive \/ AnswerHandled
    \/ Submit \/ OtherForm \/ Logout \/ ChooseProject \/ PageAsks
    \/ ReloadTab \/ SessionExpires \/ MembershipChanges

SessionSpec == SessionInit /\ [][SessionNext]_sessionVars

-----------------------------------------------------------------------------

SessionTypeOK ==
    /\ user \in Users \cup {Nobody}
    /\ listed \in Lists
    /\ current \in Projects \cup {Nobody}
    /\ role \in Roles \cup {Nobody}
    /\ initialized \in BOOLEAN /\ inTurn \in BOOLEAN
    /\ form \in Calls \cup {Nobody}
    /\ remembered \in Projects \cup {Nobody}
    /\ cookie \in Sessions \cup {Nobody}
    /\ owner \in [Sessions -> Users \cup {Nobody}]
    /\ alive \subseteq Sessions
    /\ joined \in [Users -> Lists]
    /\ inFlight \subseteq Requests

\* The user the page shows is the one whose session the browser sends, as
\* soon as the code of the answer that set the cookie has run. Two of these
\* answers that are both in leave the cookie of the one that came last and
\* the user of the one that was handled last, until the tab is reloaded.
SignedInMatchesCookie ==
    inTurn /\ Answering = {} /\ user # Nobody =>
        cookie # Nobody /\ owner[cookie] = user

\* The project that requests name is the one a reload comes back to.
RememberedIsCurrent == user # Nobody => remembered = current

\* The role that enables the controls is the one in the current project.
RoleIsOfCurrent == role = RoleIn(listed, current)

\* The store agrees with the browser through sign-ins, sign-outs, expired
\* sessions, refused, failed and late answers: the user shown is the one whose
\* cookie is sent while the answers that set it take turns, and in every order
\* of answers the current project is the one remembered and the role the one
\* the list gives for it (stores/app.ts, api/client.ts).
StoreAgrees ==
    /\ SignedInMatchesCookie
    /\ RememberedIsCurrent
    /\ RoleIsOfCurrent
=============================================================================
