------------------------ MODULE ConsoleSessionProofs ------------------------
(***************************************************************************)
(* The store agrees with the browser, for any number of users, projects,   *)
(* sessions and requests in flight.                                        *)
(***************************************************************************)
EXTENDS ConsoleSession, TLAPS

\* Until the tab knows who is signed in there is one request, which asks that
\* with the cookie the browser still has, and whose answer names the owner of
\* that cookie; afterwards there is none like it.
FirstCall ==
    IF initialized THEN \A c \in inFlight : c.kind # "me"
    ELSE /\ user = Nobody
         /\ \E c \in inFlight :
               /\ inFlight = {c} /\ c.kind = "me"
               /\ c.got = "nothing" => c.session = cookie
               /\ c.got = "served" =>
                     c.as \in Users /\ cookie # Nobody /\ owner[cookie] = c.as

\* A session the server accepts was issued to somebody.
AliveOwned == \A s \in alive : owner[s] \in Users

\* A sign-in names the account it is for and brings a session of that account;
\* the creation of a project brings the project.
Fits(c) ==
    /\ c.kind = "auth" /\ c.got # "refused" => c.as \in Users
    /\ c.kind = "auth" /\ c.got \in {"served", "headers"} =>
          c.session \in Sessions /\ owner[c.session] = c.as
    /\ c.kind = "create" /\ c.got = "served" => c.project \in Projects

RequestsFit == \A c \in inFlight : Fits(c)

\* While the answers that set the cookie take turns, at most one of them waits
\* to be handled, and the cookie is the one it brought.
OneAtATime ==
    inTurn => /\ \A c, d \in Answering : c = d
              /\ \A c \in Answering : c.kind = "auth" => cookie = c.session

SessionIInv ==
    /\ SessionTypeOK /\ FirstCall /\ AliveOwned /\ RequestsFit /\ OneAtATime
    /\ StoreAgrees
-----------------------------------------------------------------------------

(* What the store remembers of the projects fits together. *)
StoreFits ==
    /\ listed \in Lists
    /\ current \in Projects \cup {Nobody}
    /\ remembered \in Projects \cup {Nobody}
    /\ role \in Roles \cup {Nobody}
    /\ RememberedIsCurrent
    /\ RoleIsOfCurrent

(* A list gives each of its projects a role. *)
LEMMA RoleInList ==
  ASSUME NEW list \in Lists, NEW p
  PROVE  /\ DOMAIN list \subseteq Projects
         /\ RoleIn(list, p) \in Roles \cup {Nobody}
  BY DEF Lists, RoleIn

(* The list without projects, and a list with one more, are lists. *)
LEMMA ListsGrow ==
  /\ NoProjects \in Lists /\ \A p : RoleIn(NoProjects, p) = Nobody
  /\ \A list \in Lists, p \in Projects :
        [q \in DOMAIN list \cup {p} |-> IF q = p THEN "owner" ELSE list[q]] \in Lists
<1>1. NoProjects \in [{} -> Roles] /\ {} \in SUBSET Projects
  BY DEF NoProjects, Roles
<1>2. NoProjects \in Lists
  BY <1>1 DEF Lists
<1>3. \A p : RoleIn(NoProjects, p) = Nobody
  BY DEF RoleIn, NoProjects
<1>4. ASSUME NEW list \in Lists, NEW p \in Projects
      PROVE  [q \in DOMAIN list \cup {p} |-> IF q = p THEN "owner" ELSE list[q]] \in Lists
  <2>1. PICK ps \in SUBSET Projects : list \in [ps -> Roles]
    BY DEF Lists
  <2>2. [q \in DOMAIN list \cup {p} |-> IF q = p THEN "owner" ELSE list[q]]
           \in [ps \cup {p} -> Roles]
    BY <2>1 DEF Roles
  <2>. QED BY <2>2 DEF Lists
<1>. QED BY <1>2, <1>3, <1>4

(* Giving the store a list of projects leaves it with one that fits. *)
LEMMA ShowProjectsFits ==
  ASSUME StoreFits, NEW list \in Lists, ShowProjects(list)
  PROVE  StoreFits'
<1>1. PICK p \in Resolved(list, AskedFor) :
         /\ listed' = list /\ current' = p /\ role' = RoleIn(list, p)
         /\ remembered' = p
  BY DEF ShowProjects
<1>2. p \in Projects \cup {Nobody}
  BY RoleInList DEF Resolved
<1>. QED BY <1>1, <1>2, RoleInList DEF StoreFits, RememberedIsCurrent, RoleIsOfCurrent

(* So does the choice of a project. *)
LEMMA SetProjectFits ==
  ASSUME StoreFits, NEW p \in Projects, SetProject(p)
  PROVE  StoreFits'
BY RoleInList DEF StoreFits, SetProject, RememberedIsCurrent, RoleIsOfCurrent

(* So does signing out. *)
LEMMA ClearAuthFits ==
  ASSUME StoreFits, ClearAuth
  PROVE  StoreFits'
BY ListsGrow DEF StoreFits, ClearAuth, RememberedIsCurrent, RoleIsOfCurrent

-----------------------------------------------------------------------------

(* A request that has just been sent is one the type allows. *)
LEMMA NewRequestFits ==
  ASSUME NEW kind \in CallKinds, NEW n \in Calls, NEW account \in Users \cup {Nobody},
         cookie \in Sessions \cup {Nobody}
  PROVE  /\ NewRequest(kind, n, account) \in Requests
         /\ NewRequest(kind, n, account).kind = kind
         /\ NewRequest(kind, n, account).as = account
         /\ NewRequest(kind, n, account).session = cookie
         /\ NewRequest(kind, n, account).got = "nothing"
BY ListsGrow DEF NewRequest, Requests

LEMMA SessionInitHolds == SessionInit => SessionIInv
<1>. SUFFICES ASSUME SessionInit PROVE SessionIInv
  OBVIOUS
<1>1. /\ 1 \in Calls /\ 1 \in Sessions /\ cookie \in Sessions \cup {Nobody}
  BY SessionAssumption DEF SessionInit
<1>. DEFINE c == NewRequest("me", 1, Nobody)
<1>2. /\ inFlight = {c} /\ c \in Requests /\ c.kind = "me" /\ c.session = cookie
      /\ c.got = "nothing"
  BY <1>1, NewRequestFits DEF SessionInit, CallKinds
<1>. HIDE DEF c
<1>3. SessionTypeOK
  <2>1. alive \subseteq Sessions
    BY <1>1 DEF SessionInit
  <2>2. joined \in [Users -> Lists] /\ listed \in Lists
    BY ListsGrow DEF SessionInit
  <2>3. owner \in [Sessions -> Users \cup {Nobody}]
    BY DEF SessionInit
  <2>. QED BY <1>1, <1>2, <2>1, <2>2, <2>3 DEF SessionInit, SessionTypeOK
<1>4. FirstCall
  BY <1>2 DEF SessionInit, FirstCall
<1>5. AliveOwned
  BY <1>1 DEF SessionInit, AliveOwned
<1>6. RequestsFit /\ OneAtATime
  BY <1>2 DEF RequestsFit, Fits, OneAtATime, Answering
<1>7. StoreAgrees
  BY ListsGrow DEF SessionInit, StoreAgrees, SignedInMatchesCookie, RememberedIsCurrent,
     RoleIsOfCurrent
<1>. QED BY <1>3, <1>4, <1>5, <1>6, <1>7 DEF SessionIInv

(* The invariant says of the store that it fits. *)
LEMMA InvFits == SessionIInv => StoreFits
BY DEF SessionIInv, SessionTypeOK, StoreAgrees, StoreFits

(* What the invariant asks of a state after the first call has been answered.  *)
LEMMA InvAfter ==
  ASSUME StoreFits', initialized' = TRUE, inTurn' \in BOOLEAN,
         user' \in Users \cup {Nobody}, form' \in Calls \cup {Nobody},
         SignedInMatchesCookie',
         cookie' \in Sessions \cup {Nobody},
         owner' \in [Sessions -> Users \cup {Nobody}],
         alive' \subseteq Sessions, AliveOwned',
         joined' \in [Users -> Lists],
         inFlight' \subseteq Requests,
         \A d \in inFlight' : d.kind # "me",
         RequestsFit', OneAtATime'
  PROVE  SessionIInv'
<1>1. SessionTypeOK'
  BY DEF StoreFits, SessionTypeOK
<1>2. FirstCall'
  BY DEF FirstCall
<1>3. StoreAgrees'
  BY DEF StoreAgrees, StoreFits
<1>. QED BY <1>1, <1>2, <1>3 DEF SessionIInv

-----------------------------------------------------------------------------
(* What the server does.                                                   *)

(* A request the server accepts comes from somebody, whose projects are a list. *)
LEMMA AcceptedOwned ==
  ASSUME SessionIInv, NEW c \in inFlight, Accepted(c)
  PROVE  /\ c.session \in Sessions /\ owner[c.session] \in Users
         /\ joined[owner[c.session]] \in Lists
BY DEF SessionIInv, SessionTypeOK, AliveOwned, Accepted

(* A request that is served stays one that fits, and brings the first call the *)
(* owner of the cookie; the server only gains owners of sessions.              *)
LEMMA ServedFits ==
  ASSUME SessionIInv, NEW c \in inFlight, c.got = "nothing",
         ServeRefusal(c) \/ ServeMe(c) \/ ServeAuth(c)
            \/ ServeLogout(c) \/ ServeList(c) \/ ServeCreate(c)
  PROVE  /\ alive' \subseteq Sessions /\ joined' \in [Users -> Lists]
         /\ owner' \in [Sessions -> Users \cup {Nobody}]
         /\ \A s \in Sessions : owner[s] \in Users => owner'[s] = owner[s]
         /\ AliveOwned'
         /\ \E d \in Requests :
               /\ Become(c, d) /\ d.kind = c.kind /\ d.got \in {"refused", "served"}
               /\ Fits(d)'
               /\ c.kind = "me" /\ d.got = "served" =>
                     Accepted(c) /\ d.as = owner[c.session]
<1>1. /\ c \in Requests /\ alive \subseteq Sessions /\ joined \in [Users -> Lists]
      /\ owner \in [Sessions -> Users \cup {Nobody}] /\ AliveOwned /\ Fits(c)
  BY DEF SessionIInv, SessionTypeOK, RequestsFit
<1>2. CASE ServeRefusal(c)
  <2>. DEFINE d == [c EXCEPT !.got = "refused", !.session = Nobody, !.as = Nobody]
  <2>1. d \in Requests /\ d.kind = c.kind /\ d.got = "refused" /\ Become(c, d)
    BY <1>1, <1>2 DEF ServeRefusal, Requests
  <2>2. Fits(d)'
    BY <2>1 DEF Fits
  <2>. HIDE DEF d
  <2>. QED BY <1>1, <1>2, <2>1, <2>2 DEF ServeRefusal, server, AliveOwned
<1>3. CASE ServeMe(c)
  <2>1. owner[c.session] \in Users /\ joined[owner[c.session]] \in Lists
    BY <1>3, AcceptedOwned DEF ServeMe
  <2>a. PICK d : d = [c EXCEPT !.got = "served", !.session = Nobody,
                               !.as = owner[c.session], !.list = joined[owner[c.session]]]
    OBVIOUS
  <2>2. /\ d \in Requests /\ d.kind = "me" /\ d.got = "served" /\ d.as = owner[c.session]
        /\ Become(c, d) /\ Accepted(c) /\ c.kind = "me" /\ UNCHANGED server
    BY <1>1, <1>3, <2>1, <2>a DEF ServeMe, Requests
  <2>3. Fits(d)'
    BY <2>2 DEF Fits
  <2>. QED BY <1>1, <2>2, <2>3 DEF server, AliveOwned
<1>4. CASE ServeAuth(c)
  <2>1. PICK s \in Sessions :
           /\ owner[s] = Nobody
           /\ owner' = [owner EXCEPT ![s] = c.as]
           /\ alive' = alive \cup {s}
           /\ Become(c, [c EXCEPT !.got = "served", !.session = s, !.list = joined[c.as]])
           /\ UNCHANGED joined
    BY <1>4 DEF ServeAuth
  <2>2. c.as \in Users /\ joined[c.as] \in Lists /\ c.kind = "auth"
    BY <1>1, <1>4 DEF ServeAuth, Fits
  <2>a. PICK d : d = [c EXCEPT !.got = "served", !.session = s, !.list = joined[c.as]]
    OBVIOUS
  <2>3. /\ d \in Requests /\ d.kind = "auth" /\ d.got = "served" /\ Become(c, d)
        /\ d.session = s /\ d.as = c.as /\ UNCHANGED joined
    BY <1>1, <2>1, <2>2, <2>a DEF Requests
  <2>4. Fits(d)'
    BY <1>1, <2>1, <2>2, <2>3 DEF Fits
  <2>5. /\ owner' \in [Sessions -> Users \cup {Nobody}] /\ alive' \subseteq Sessions
        /\ \A t \in Sessions : owner[t] \in Users => owner'[t] = owner[t]
    BY <1>1, <2>1, <2>2, SessionAssumption
  <2>6. AliveOwned'
    BY <1>1, <2>1, <2>2 DEF AliveOwned
  <2>. QED BY <1>1, <2>2, <2>3, <2>4, <2>5, <2>6
<1>5. CASE ServeLogout(c)
  <2>. DEFINE d == [c EXCEPT !.got = "served", !.session = Nobody]
  <2>1. d \in Requests /\ d.kind = "logout" /\ c.kind = "logout" /\ d.got = "served"
        /\ Become(c, d)
    BY <1>1, <1>5 DEF ServeLogout, Requests
  <2>2. Fits(d)'
    BY <2>1 DEF Fits
  <2>. HIDE DEF d
  <2>. QED BY <1>1, <1>5, <2>1, <2>2 DEF ServeLogout, AliveOwned
<1>6. CASE ServeList(c)
  <2>1. joined[owner[c.session]] \in Lists
    BY <1>6, AcceptedOwned DEF ServeList
  <2>a. PICK d : d = [c EXCEPT !.got = "served", !.session = Nobody,
                               !.list = joined[owner[c.session]]]
    OBVIOUS
  <2>2. d \in Requests /\ d.kind = "list" /\ c.kind = "list" /\ d.got = "served"
        /\ Become(c, d) /\ UNCHANGED server
    BY <1>1, <1>6, <2>1, <2>a DEF ServeList, Requests
  <2>3. Fits(d)'
    BY <2>2 DEF Fits
  <2>. QED BY <1>1, <2>2, <2>3 DEF server, AliveOwned
<1>7. CASE ServeCreate(c)
  <2>1. owner[c.session] \in Users /\ joined[owner[c.session]] \in Lists
    BY <1>7, AcceptedOwned DEF ServeCreate
  <2>2. PICK p \in NewProjects :
           /\ joined' = [joined EXCEPT ![owner[c.session]] =
                 [q \in DOMAIN joined[owner[c.session]] \cup {p} |->
                     IF q = p THEN "owner" ELSE joined[owner[c.session]][q]]]
           /\ Become(c, [c EXCEPT !.got = "served", !.session = Nobody, !.project = p])
    BY <1>7 DEF ServeCreate
  <2>3. p \in Projects
    BY SessionAssumption
  <2>4. joined' \in [Users -> Lists]
    BY <1>1, <2>1, <2>2, <2>3, ListsGrow
  <2>. DEFINE d == [c EXCEPT !.got = "served", !.session = Nobody, !.project = p]
  <2>5. /\ d \in Requests /\ d.kind = "create" /\ c.kind = "create" /\ d.got = "served"
        /\ d.project = p /\ Become(c, d)
    BY <1>1, <1>7, <2>2, <2>3 DEF ServeCreate, Requests
  <2>6. Fits(d)'
    BY <2>3, <2>5 DEF Fits
  <2>. HIDE DEF d
  <2>. QED BY <1>1, <1>7, <2>4, <2>5, <2>6 DEF ServeCreate, AliveOwned
<1>. QED BY <1>2, <1>3, <1>4, <1>5, <1>6, <1>7
(* The requests the server serves leave the answers that wait alone. *)
LEMMA ServerServesHolds == SessionIInv /\ ServerServes => SessionIInv'
<1>. SUFFICES ASSUME SessionIInv, NEW c \in inFlight, c.got = "nothing",
                     ServeRefusal(c) \/ ServeMe(c) \/ ServeAuth(c)
                        \/ ServeLogout(c) \/ ServeList(c) \/ ServeCreate(c),
                     UNCHANGED <<store, form, remembered, cookie, inTurn>>
              PROVE  SessionIInv'
  BY DEF ServerServes
<1>1. /\ alive' \subseteq Sessions /\ joined' \in [Users -> Lists]
      /\ owner' \in [Sessions -> Users \cup {Nobody}]
      /\ \A s \in Sessions : owner[s] \in Users => owner'[s] = owner[s]
      /\ AliveOwned'
  BY ServedFits
<1>2. PICK d \in Requests :
         /\ Become(c, d) /\ d.kind = c.kind /\ d.got \in {"refused", "served"}
         /\ Fits(d)'
         /\ c.kind = "me" /\ d.got = "served" =>
               Accepted(c) /\ d.as = owner[c.session]
  BY ServedFits
<1>3. SessionTypeOK'
  BY <1>1, <1>2 DEF store, Become, SessionIInv, SessionTypeOK
<1>4. RequestsFit'
  <2>. SUFFICES ASSUME NEW e \in inFlight PROVE Fits(e)'
    BY <1>2 DEF RequestsFit, Become
  <2>1. e \in Requests /\ Fits(e)
    BY DEF SessionIInv, SessionTypeOK, RequestsFit
  <2>. QED BY <1>1, <2>1 DEF Fits, Requests
<1>5. Answering' = Answering
  BY <1>2 DEF Answering, Become
<1>6. OneAtATime'
  BY <1>5 DEF OneAtATime, SessionIInv
<1>7. StoreAgrees'
  <2>1. SignedInMatchesCookie'
    BY <1>1, <1>5, SessionAssumption
       DEF store, SignedInMatchesCookie, StoreAgrees, SessionIInv, SessionTypeOK
  <2>. QED BY <2>1 DEF store, StoreAgrees, RememberedIsCurrent, RoleIsOfCurrent, SessionIInv
<1>8. FirstCall'
  <2>1. CASE initialized
    BY <1>2, <2>1 DEF store, FirstCall, Become, SessionIInv
  <2>2. CASE ~initialized
    <3>1. /\ user = Nobody /\ inFlight = {c} /\ c.kind = "me" /\ c.session = cookie
      BY <2>2 DEF FirstCall, SessionIInv
    <3>2. inFlight' = {d} /\ d.kind = "me" /\ d.got # "nothing"
      BY <1>2, <3>1 DEF Become
    <3>3. d.got = "served" => /\ d.as \in Users /\ cookie \in Sessions
                              /\ owner[cookie] = d.as
      BY <1>2, <3>1, AcceptedOwned
    <3>4. d.got = "served" => /\ d.as \in Users /\ cookie' # Nobody
                              /\ owner'[cookie'] = d.as
      BY <1>1, <3>3, SessionAssumption
    <3>. QED BY <2>2, <3>1, <3>2, <3>4 DEF store, FirstCall
  <2>. QED BY <2>1, <2>2
<1>. QED BY <1>1, <1>3, <1>4, <1>6, <1>7, <1>8 DEF SessionIInv

-----------------------------------------------------------------------------
(* The answers.                                                            *)

(* The answer whose headers arrive is the only one that waits, or the turns end. *)
LEMMA HeadersHold == SessionIInv /\ HeadersArrive => SessionIInv'
<1>. SUFFICES ASSUME SessionIInv, HeadersArrive PROVE SessionIInv'
  OBVIOUS
<1>1. PICK c \in inFlight :
         /\ c.kind \in {"auth", "logout"} /\ c.got = "served"
         /\ cookie' = IF c.kind = "auth" THEN c.session ELSE Nobody
         /\ Become(c, [c EXCEPT !.got = "headers"])
  BY DEF HeadersArrive
<1>2. /\ inTurn' = (inTurn /\ Answering = {})
      /\ UNCHANGED <<store, form, remembered, server>>
  BY DEF HeadersArrive
<1>3. c \in Requests /\ Fits(c)
  BY DEF SessionIInv, SessionTypeOK, RequestsFit
<1>. DEFINE d == [c EXCEPT !.got = "headers"]
<1>4. /\ d \in Requests /\ d.kind = c.kind /\ d.got = "headers" /\ d.as = c.as
      /\ d.session = c.session /\ inFlight' = (inFlight \ {c}) \cup {d}
  BY <1>1, <1>3 DEF Become, Requests
<1>. HIDE DEF d
<1>5. initialized
  BY <1>1 DEF SessionIInv, FirstCall
<1>6. StoreFits' /\ initialized' = TRUE
  BY <1>2, <1>5, InvFits
     DEF StoreFits, RememberedIsCurrent, RoleIsOfCurrent, store, SessionIInv, SessionTypeOK
<1>7. cookie' \in Sessions \cup {Nobody}
  BY <1>1, <1>3 DEF Fits
<1>8. d \in Answering' /\ (Answering = {} => Answering' = {d})
  BY <1>1, <1>4 DEF Answering
<1>9. SignedInMatchesCookie' /\ OneAtATime'
  BY <1>1, <1>2, <1>4, <1>8 DEF SignedInMatchesCookie, OneAtATime
<1>10. RequestsFit' /\ \A e \in inFlight' : e.kind # "me"
  BY <1>1, <1>2, <1>3, <1>4, <1>5
     DEF RequestsFit, Fits, server, SessionIInv, FirstCall
<1>11. /\ owner' \in [Sessions -> Users \cup {Nobody}]
       /\ alive' \subseteq Sessions /\ AliveOwned'
       /\ joined' \in [Users -> Lists] /\ inFlight' \subseteq Requests
       /\ user' \in Users \cup {Nobody} /\ form' \in Calls \cup {Nobody}
       /\ inTurn' \in BOOLEAN
  BY <1>2, <1>4 DEF store, server, AliveOwned, SessionIInv, SessionTypeOK
<1>. QED BY <1>6, <1>7, <1>9, <1>10, <1>11, InvAfter

(* What handling an answer leaves, whatever it does to the store. *)
LEMMA HandledHolds ==
  ASSUME SessionIInv, NEW c \in inFlight, inFlight' = inFlight \ {c},
         UNCHANGED <<cookie, server>>,
         StoreFits', initialized' = TRUE, user' \in Users \cup {Nobody},
         form' \in Calls \cup {Nobody}, inTurn' \in BOOLEAN, inTurn' => inTurn,
         SignedInMatchesCookie'
  PROVE  SessionIInv'
<1>1. /\ cookie' \in Sessions \cup {Nobody}
      /\ owner' \in [Sessions -> Users \cup {Nobody}]
      /\ alive' \subseteq Sessions /\ AliveOwned'
      /\ joined' \in [Users -> Lists] /\ inFlight' \subseteq Requests
  BY DEF server, AliveOwned, SessionIInv, SessionTypeOK
<1>2. \A d \in inFlight' : d.kind # "me"
  BY DEF SessionIInv, FirstCall
<1>3. RequestsFit'
  BY DEF RequestsFit, Fits, server, SessionIInv
<1>4. Answering' \subseteq Answering
  BY DEF Answering
<1>5. OneAtATime'
  BY <1>4 DEF OneAtATime, SessionIInv
<1>. QED BY <1>1, <1>2, <1>3, <1>5, InvAfter

(* While the answers take turns, the one that is handled was the only one. *)
LEMMA LastOfTurn ==
  ASSUME SessionIInv, NEW c \in Answering, inTurn, inFlight' = inFlight \ {c}
  PROVE  Answering' = {} /\ (c.kind = "auth" => cookie = c.session)
BY DEF SessionIInv, OneAtATime, Answering

(* An answer of another request, or one that failed, leaves those that wait. *)
LEMMA OthersWait ==
  ASSUME NEW c \in inFlight, c \notin Answering, inFlight' = inFlight \ {c}
  PROVE  Answering' = Answering
BY DEF Answering

(* After the first call somebody may be signed in; before, only that call is *)
(* in flight.                                                                *)
LEMMA OtherCalls ==
  ASSUME SessionIInv, NEW c \in inFlight, c.kind # "me"
  PROVE  initialized = TRUE
BY DEF SessionIInv, SessionTypeOK, FirstCall

(* Whoever was signed in is signed out. *)
LEMMA SignedOutHolds ==
  ASSUME SessionIInv, NEW c \in inFlight, inFlight' = inFlight \ {c},
         UNCHANGED <<cookie, server>>, ClearAuth,
         form' \in Calls \cup {Nobody}, inTurn' \in BOOLEAN, inTurn' => inTurn
  PROVE  SessionIInv'
<1>1. StoreFits' /\ initialized' = TRUE /\ user' \in Users \cup {Nobody}
      /\ SignedInMatchesCookie'
  BY InvFits, ClearAuthFits DEF ClearAuth, SignedInMatchesCookie
<1>. QED BY <1>1, HandledHolds

(* The answer to another request leaves the user and the store that fits. *)
LEMMA SameUserHolds ==
  ASSUME SessionIInv, NEW c \in inFlight, inFlight' = inFlight \ {c},
         UNCHANGED <<cookie, server>>, c.kind # "me", c \notin Answering,
         UNCHANGED <<user, initialized>>, StoreFits',
         form' \in Calls \cup {Nobody}, UNCHANGED inTurn
  PROVE  SessionIInv'
<1>1. initialized' = TRUE /\ user' \in Users \cup {Nobody} /\ inTurn' \in BOOLEAN
  BY OtherCalls DEF SessionIInv, SessionTypeOK
<1>2. SignedInMatchesCookie'
  BY OthersWait DEF SignedInMatchesCookie, StoreAgrees, SessionIInv, server
<1>. QED BY <1>1, <1>2, HandledHolds

(* So does one that changes nothing in the store. *)
LEMMA SameStoreFits ==
  ASSUME SessionIInv, UNCHANGED <<store, remembered>>
  PROVE  StoreFits'
BY InvFits DEF StoreFits, RememberedIsCurrent, RoleIsOfCurrent, store

(* The tab learns who is signed in, from the cookie it still has. *)
LEMMA MeHolds ==
  ASSUME SessionIInv, NEW c \in inFlight, inFlight' = inFlight \ {c},
         UNCHANGED <<cookie, server>>, HandleMe(c)
  PROVE  SessionIInv'
<1>1. /\ c.kind = "me" /\ c.got = "served" /\ UNCHANGED <<form, inTurn>>
      /\ SetAuthSession(c.as, c.list)
  BY DEF HandleMe
<1>2. c.as \in Users /\ cookie # Nobody /\ owner[cookie] = c.as
  BY <1>1 DEF SessionIInv, FirstCall
<1>3. c.list \in Lists /\ form' \in Calls \cup {Nobody} /\ inTurn' \in BOOLEAN
  BY <1>1 DEF SessionIInv, SessionTypeOK, Requests
<1>4. StoreFits' /\ initialized' = TRUE /\ user' = c.as
  BY <1>1, <1>3, InvFits, ShowProjectsFits DEF SetAuthSession
<1>5. SignedInMatchesCookie'
  BY <1>2, <1>4 DEF SignedInMatchesCookie, server
<1>. QED BY <1>1, <1>2, <1>3, <1>4, <1>5, HandledHolds

(* A form signs in, with the cookie of its own answer while they take turns. *)
LEMMA AuthHolds ==
  ASSUME SessionIInv, NEW c \in inFlight, inFlight' = inFlight \ {c},
         UNCHANGED <<cookie, server>>, HandleAuth(c)
  PROVE  SessionIInv'
<1>1. /\ c.kind = "auth" /\ c.got = "headers" /\ form' = Nobody /\ UNCHANGED inTurn
      /\ SetAuthSession(c.as, c.list)
  BY DEF HandleAuth
<1>2. c.as \in Users /\ c.session \in Sessions /\ owner[c.session] = c.as
  BY <1>1 DEF SessionIInv, RequestsFit, Fits
<1>3. c.list \in Lists /\ inTurn' \in BOOLEAN
  BY <1>1 DEF SessionIInv, SessionTypeOK, Requests
<1>4. StoreFits' /\ initialized' = TRUE /\ user' = c.as
  BY <1>1, <1>3, InvFits, ShowProjectsFits DEF SetAuthSession
<1>5. c \in Answering
  BY <1>1 DEF Answering
<1>6. SignedInMatchesCookie'
  BY <1>1, <1>2, <1>4, <1>5, LastOfTurn, SessionAssumption
     DEF SignedInMatchesCookie, server
<1>. QED BY <1>1, <1>2, <1>3, <1>4, <1>6, HandledHolds

(* The projects are listed for a page that is still there. *)
LEMMA ListHolds ==
  ASSUME SessionIInv, NEW c \in inFlight, inFlight' = inFlight \ {c},
         UNCHANGED <<cookie, server>>, HandleList(c)
  PROVE  SessionIInv'
<1>1. /\ c.kind # "me" /\ c \notin Answering /\ UNCHANGED <<user, initialized, inTurn>>
      /\ form' \in Calls \cup {Nobody} /\ c.list \in Lists
  BY DEF HandleList, Answering, store, SessionIInv, SessionTypeOK, Requests
<1>2. StoreFits'
  BY <1>1, InvFits, ShowProjectsFits, SameStoreFits DEF HandleList
<1>. QED BY <1>1, <1>2, SameUserHolds

(* A project is created and becomes the current one. *)
LEMMA CreateHolds ==
  ASSUME SessionIInv, NEW c \in inFlight, inFlight' = inFlight \ {c},
         UNCHANGED <<cookie, server>>, HandleCreate(c)
  PROVE  SessionIInv'
<1>1. /\ c.kind # "me" /\ c \notin Answering /\ UNCHANGED <<user, initialized, inTurn>>
      /\ form' \in Calls \cup {Nobody} /\ c.project \in Projects
  BY DEF HandleCreate, SetProject, Answering, SessionIInv, SessionTypeOK, RequestsFit, Fits
<1>2. StoreFits'
  BY <1>1, InvFits, SetProjectFits DEF HandleCreate
<1>. QED BY <1>1, <1>2, SameUserHolds

(* A request fails. *)
LEMMA FailureHolds ==
  ASSUME SessionIInv, NEW c \in inFlight, inFlight' = inFlight \ {c},
         UNCHANGED <<cookie, server>>, HandleFailure(c)
  PROVE  SessionIInv'
<1>1. /\ form' \in Calls \cup {Nobody} /\ inTurn' \in BOOLEAN
      /\ inTurn' => inTurn
      /\ user \in Users \cup {Nobody}
  BY DEF HandleFailure, FormDone, SessionIInv, SessionTypeOK
<1>2. CASE c.kind \in {"me", "logout"}
  BY <1>1, <1>2, SignedOutHolds DEF HandleFailure
<1>3. CASE c.kind \notin {"me", "logout"}
  <2>1. UNCHANGED <<store, remembered>> /\ c.kind # "me"
    BY <1>3 DEF HandleFailure
  <2>2. StoreFits' /\ user' = user /\ initialized' = TRUE
    BY <2>1, SameStoreFits, OtherCalls DEF store
  <2>3. CASE c \in Answering
    <3>1. inTurn' => user = Nobody
      BY <1>3, <2>3 DEF HandleFailure, Answering
    <3>2. SignedInMatchesCookie'
      BY <2>2, <3>1 DEF SignedInMatchesCookie
    <3>. QED BY <1>1, <2>2, <3>2, HandledHolds
  <2>4. CASE c \notin Answering
    <3>1. SignedInMatchesCookie'
      BY <1>1, <2>2, <2>4, OthersWait
         DEF SignedInMatchesCookie, StoreAgrees, SessionIInv, server
    <3>. QED BY <1>1, <2>2, <3>1, HandledHolds
  <2>. QED BY <2>3, <2>4
<1>. QED BY <1>2, <1>3

LEMMA AnswerHolds == SessionIInv /\ AnswerHandled => SessionIInv'
<1>. SUFFICES ASSUME SessionIInv, NEW c \in inFlight, inFlight' = inFlight \ {c},
                     UNCHANGED <<cookie, server>>,
                     \/ HandleMe(c) \/ HandleAuth(c) \/ HandleLogout(c)
                     \/ HandleRefusal(c) \/ HandleList(c)
                     \/ HandleCreate(c) \/ HandleFailure(c)
              PROVE  SessionIInv'
  BY DEF AnswerHandled
<1>1. form \in Calls \cup {Nobody} /\ inTurn \in BOOLEAN
  BY DEF SessionIInv, SessionTypeOK
<1>2. CASE HandleMe(c)
  BY <1>2, MeHolds
<1>3. CASE HandleAuth(c)
  BY <1>3, AuthHolds
<1>4. CASE HandleLogout(c)
  BY <1>1, <1>4, SignedOutHolds DEF HandleLogout
<1>5. CASE HandleRefusal(c)
  BY <1>1, <1>5, SignedOutHolds DEF HandleRefusal, FormDone
<1>6. CASE HandleList(c)
  BY <1>6, ListHolds
<1>7. CASE HandleCreate(c)
  BY <1>7, CreateHolds
<1>8. CASE HandleFailure(c)
  BY <1>8, FailureHolds
<1>. QED BY <1>2, <1>3, <1>4, <1>5, <1>6, <1>7, <1>8

-----------------------------------------------------------------------------
(* The user, the tab and the rest of the server.                           *)

(* A step of the user that sends one request or none, and leaves the cookie *)
(* and the server alone.                                                    *)
LEMMA UserStepHolds ==
  ASSUME SessionIInv, initialized, StoreFits',
         form' \in Calls \cup {Nobody},
         UNCHANGED <<user, initialized, cookie, server, inTurn>>,
         \/ inFlight' = inFlight
         \/ \E kind \in CallKinds \ {"me"}, n \in Calls, a \in Users \cup {Nobody} :
               (kind = "auth" => a \in Users) /\ Send(kind, n, a)
  PROVE  SessionIInv'
<1>1. /\ cookie \in Sessions \cup {Nobody} /\ inFlight \subseteq Requests
      /\ \A d \in inFlight : d.kind # "me"
      /\ RequestsFit
  BY DEF SessionIInv, SessionTypeOK, FirstCall
<1>2. \/ inFlight' = inFlight
      \/ \E c \in Requests :
            /\ inFlight' = inFlight \cup {c} /\ c.kind # "me" /\ c.got = "nothing"
            /\ c.kind = "auth" => c.as \in Users
  <2>1. ASSUME NEW kind \in CallKinds \ {"me"}, NEW n \in Calls, NEW a \in Users \cup {Nobody},
               kind = "auth" => a \in Users, Send(kind, n, a)
        PROVE  \E c \in Requests :
                  /\ inFlight' = inFlight \cup {c} /\ c.kind # "me" /\ c.got = "nothing"
                  /\ c.kind = "auth" => c.as \in Users
    BY <1>1, <2>1, NewRequestFits DEF Send
  <2>. QED BY <2>1
<1>3. /\ inFlight' \subseteq Requests
      /\ \A d \in inFlight' : d.kind # "me"
  BY <1>1, <1>2
<1>4. RequestsFit'
  BY <1>1, <1>2 DEF RequestsFit, Fits, server
<1>5. Answering' = Answering
  BY <1>2 DEF Answering
<1>6. SignedInMatchesCookie' /\ OneAtATime'
  BY <1>5 DEF SignedInMatchesCookie, OneAtATime, StoreAgrees, SessionIInv, server
<1>7. /\ user' \in Users \cup {Nobody} /\ inTurn' \in BOOLEAN
      /\ cookie' \in Sessions \cup {Nobody}
      /\ owner' \in [Sessions -> Users \cup {Nobody}]
      /\ alive' \subseteq Sessions /\ AliveOwned'
      /\ joined' \in [Users -> Lists] /\ initialized' = TRUE
  BY DEF server, AliveOwned, SessionIInv, SessionTypeOK
<1>. QED BY <1>3, <1>4, <1>6, <1>7, InvAfter

LEMMA UserHolds ==
  SessionIInv /\ (Submit \/ OtherForm \/ Logout \/ ChooseProject \/ PageAsks) => SessionIInv'
<1>. SUFFICES ASSUME SessionIInv,
                     Submit \/ OtherForm \/ Logout \/ ChooseProject \/ PageAsks
              PROVE  SessionIInv'
  OBVIOUS
<1>1. /\ initialized /\ user \in Users \cup {Nobody} /\ form \in Calls \cup {Nobody}
  BY DEF Submit, OtherForm, Logout, ChooseProject, PageAsks, SessionIInv, SessionTypeOK,
     FirstCall
<1>2. CASE Submit
  BY <1>1, <1>2, SameStoreFits, UserStepHolds DEF Submit, store, CallKinds
<1>3. CASE OtherForm
  BY <1>1, <1>3, SameStoreFits, UserStepHolds DEF OtherForm, store
<1>4. CASE Logout
  BY <1>1, <1>4, SameStoreFits, UserStepHolds DEF Logout, store, CallKinds
<1>5. CASE PageAsks
  BY <1>1, <1>5, SameStoreFits, UserStepHolds DEF PageAsks, store, CallKinds
<1>6. CASE ChooseProject
  <2>1. PICK p \in DOMAIN listed \cup ({current} \ {Nobody}) : SetProject(p)
    BY <1>6 DEF ChooseProject
  <2>2. p \in Projects
    BY RoleInList DEF SessionIInv, SessionTypeOK
  <2>3. StoreFits' /\ UNCHANGED <<user, initialized>>
    BY <2>1, <2>2, InvFits, SetProjectFits DEF SetProject
  <2>. QED BY <1>1, <1>6, <2>3, UserStepHolds DEF ChooseProject
<1>. QED BY <1>2, <1>3, <1>4, <1>5, <1>6

(* The tab is loaded anew, and asks who is signed in. *)
LEMMA ReloadHolds == SessionIInv /\ ReloadTab => SessionIInv'
<1>. SUFFICES ASSUME SessionIInv, ReloadTab PROVE SessionIInv'
  OBVIOUS
<1>. DEFINE c == NewRequest("me", 1, Nobody)
<1>1. /\ inFlight' = {c} /\ c \in Requests /\ c.kind = "me" /\ c.session = cookie
      /\ c.got = "nothing"
  BY SessionAssumption, NewRequestFits DEF ReloadTab, CallKinds, SessionIInv, SessionTypeOK
<1>. HIDE DEF c
<1>2. SessionTypeOK'
  BY <1>1, ListsGrow DEF ReloadTab, server, SessionIInv, SessionTypeOK
<1>3. FirstCall'
  BY <1>1 DEF ReloadTab, FirstCall
<1>4. AliveOwned'
  BY DEF ReloadTab, server, AliveOwned, SessionIInv
<1>5. RequestsFit' /\ OneAtATime'
  BY <1>1 DEF RequestsFit, Fits, OneAtATime, Answering
<1>6. StoreAgrees'
  BY ListsGrow DEF ReloadTab, StoreAgrees, SignedInMatchesCookie, RememberedIsCurrent,
     RoleIsOfCurrent
<1>. QED BY <1>2, <1>3, <1>4, <1>5, <1>6 DEF SessionIInv

(* What happens on the server without the tab. *)
LEMMA ServerHolds == SessionIInv /\ (SessionExpires \/ MembershipChanges) => SessionIInv'
<1>. SUFFICES ASSUME SessionIInv, SessionExpires \/ MembershipChanges PROVE SessionIInv'
  OBVIOUS
<1>1. /\ alive' \subseteq alive /\ joined' \in [Users -> Lists]
      /\ UNCHANGED <<store, form, remembered, cookie, owner, inFlight, inTurn>>
  BY SessionAssumption DEF SessionExpires, MembershipChanges, SessionIInv, SessionTypeOK
<1>2. SessionTypeOK'
  BY <1>1 DEF store, SessionIInv, SessionTypeOK
<1>3. FirstCall' /\ AliveOwned' /\ RequestsFit' /\ OneAtATime'
  BY <1>1 DEF store, FirstCall, AliveOwned, RequestsFit, Fits, OneAtATime, Answering,
     SessionIInv
<1>4. StoreAgrees'
  BY <1>1 DEF store, StoreAgrees, SignedInMatchesCookie, RememberedIsCurrent, RoleIsOfCurrent,
     Answering, SessionIInv
<1>. QED BY <1>2, <1>3, <1>4 DEF SessionIInv

LEMMA SessionStepHolds == SessionIInv /\ [SessionNext]_sessionVars => SessionIInv'
<1>1. SessionIInv /\ SessionNext => SessionIInv'
  BY ServerServesHolds, HeadersHold, AnswerHolds, UserHolds, ReloadHolds, ServerHolds
     DEF SessionNext
<1>2. SessionIInv /\ UNCHANGED sessionVars => SessionIInv'
  BY DEF sessionVars, store, server, SessionIInv, SessionTypeOK, FirstCall, AliveOwned,
     RequestsFit, Fits, OneAtATime, Answering, StoreAgrees, SignedInMatchesCookie,
     RememberedIsCurrent, RoleIsOfCurrent
<1>. QED BY <1>1, <1>2

-----------------------------------------------------------------------------

(* The types of the tab, the browser and the server hold in every state. *)
THEOREM SessionTypeCorrect == SessionSpec => []SessionTypeOK
<1>1. SessionIInv => SessionTypeOK
  BY DEF SessionIInv
<1>. QED BY SessionInitHolds, SessionStepHolds, <1>1, PTL DEF SessionSpec

(* While the answers that set the cookie take turns, the user shown is the one *)
(* whose cookie is sent as soon as they have been handled; and in every order  *)
(* of answers the current project is the one remembered and the role the one   *)
(* listed for it (stores/app.ts, api/client.ts).                               *)
THEOREM StoreAgreesCorrect == SessionSpec => []StoreAgrees
<1>1. SessionIInv => StoreAgrees
  BY DEF SessionIInv
<1>. QED BY SessionInitHolds, SessionStepHolds, <1>1, PTL DEF SessionSpec
=============================================================================
