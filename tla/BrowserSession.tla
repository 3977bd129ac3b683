--------------------------- MODULE BrowserSession ---------------------------
(***************************************************************************)
(* The session of a browser: ApiClient, whose interceptors exchange the    *)
(* refresh token when a request is answered 401, and AuthProvider, which   *)
(* keeps the user a tab shows.  The tabs share localStorage, and a request *)
(* that is under way reads and writes it when its answer comes, whatever   *)
(* has become of the session meanwhile.  The backend's side is Sessions:   *)
(* here an exchange of a token is one step of it.                          *)
(***************************************************************************)
EXTENDS Naturals, FiniteSets

CONSTANTS
  Tabs,           \* tabs of one browser
  SessUsers,      \* users who log in there
  SessRequests,   \* requests to the API
  Nobody,         \* no user
  MaxLogins,      \* bound: logins
  MaxExchanges,   \* bound: exchanges of a refresh token
  MaxSessFaults   \* bound: exchanges that fail on the way

ASSUME SessAssumption ==
  {MaxLogins, MaxExchanges, MaxSessFaults} \subseteq Nat /\ Nobody \notin SessUsers

VARIABLES
  sessStored,    \* localStorage
  sessTabs,      \* the AuthProvider of each tab
  sessRequests,  \* each request, where it is and what it carries
  sessAccess,    \* access tokens: whose, and whether they have expired
  sessRefresh,   \* refresh tokens: whose, and whether they have been exchanged
  sessCrossed,   \* an exchange begun in another session was stored into this one
  sessFaults

sessVars == <<sessStored, sessTabs, sessRequests, sessAccess, sessRefresh, sessCrossed,
              sessFaults>>

-----------------------------------------------------------------------------
AccessIds == 1..(MaxLogins + MaxExchanges)
RefreshIds == 1..MaxLogins

Stored == [user : SessUsers \cup {Nobody}, access : AccessIds \cup {0},
           refresh : RefreshIds \cup {0}]
NothingStored == [user |-> Nobody, access |-> 0, refresh |-> 0]

\* user: what AuthProvider shows; now: the session is the one it got to know.
Tab == [at : {"login", "app"}, user : SessUsers \cup {Nobody}, now : BOOLEAN]

IssuedToken == [owner : SessUsers \cup {Nobody}, state : {"none", "live", "gone"}]
NotIssued == [owner |-> Nobody, state |-> "none"]

\* again: the request has been answered 401 before (_retry); now: the session is the one it
\* was begun in.
SessRequest ==
  [pc : {"idle", "sent", "exchange", "granted", "denied", "again"}, tab : Tabs \cup {Nobody},
   access : AccessIds \cup {0}, refresh : RefreshIds \cup {0}, now : BOOLEAN]
IdleRequest ==
  [pc |-> "idle", tab |-> Nobody, access |-> 0, refresh |-> 0, now |-> FALSE]

SessInit ==
  /\ sessStored = NothingStored
  /\ sessTabs = [t \in Tabs |-> [at |-> "login", user |-> Nobody, now |-> TRUE]]
  /\ sessRequests = [r \in SessRequests |-> IdleRequest]
  /\ sessAccess = [k \in AccessIds |-> NotIssued]
  /\ sessRefresh = [k \in RefreshIds |-> NotIssued]
  /\ sessCrossed = FALSE /\ sessFaults = 0

\* Tokens are issued in order.
CanIssue(tokens) == \E k \in DOMAIN tokens : tokens[k].state = "none"
NextToken(tokens) == Cardinality({k \in DOMAIN tokens : tokens[k].state # "none"}) + 1
Issued(tokens, u) == [tokens EXCEPT ![NextToken(tokens)] = [owner |-> u, state |-> "live"]]
RequestEnds(r) == [sessRequests EXCEPT ![r] = IdleRequest]

\* Tabs, and requests, to which the session of localStorage is another one now.
TabsThen == [t \in Tabs |-> [sessTabs[t] EXCEPT !.now = FALSE]]
Then(requests) == [r \in SessRequests |-> [requests[r] EXCEPT !.now = FALSE]]

-----------------------------------------------------------------------------
\* login, from the answer of the backend on.
LogIn(t, u) ==
  /\ sessTabs[t].at = "login"
  /\ CanIssue(sessAccess) /\ CanIssue(sessRefresh)
  /\ sessAccess' = Issued(sessAccess, u) /\ sessRefresh' = Issued(sessRefresh, u)
  /\ sessStored' = [user |-> u, access |-> NextToken(sessAccess),
                    refresh |-> NextToken(sessRefresh)]
  /\ sessTabs' = [TabsThen EXCEPT ![t] = [at |-> "app", user |-> u, now |-> TRUE]]
  /\ sessRequests' = Then(sessRequests) /\ sessCrossed' = FALSE
  /\ UNCHANGED sessFaults

\* A tab is loaded: checkAuth, and ProtectedRoute sends it to the login page without a user.
\* Its requests are gone.
Load(t) ==
  LET u == IF sessStored.access # 0 THEN sessStored.user ELSE Nobody IN
  /\ sessTabs' = [sessTabs EXCEPT ![t] =
       [at |-> IF u = Nobody THEN "login" ELSE "app", user |-> u, now |-> TRUE]]
  /\ sessRequests' = [r \in SessRequests |->
       IF sessRequests[r].tab = t THEN IdleRequest ELSE sessRequests[r]]
  /\ UNCHANGED <<sessStored, sessAccess, sessRefresh, sessCrossed, sessFaults>>

\* The session is over, with what is stored then, for a tab and for the requests that go on.
SessionOver(t, stored, requests) ==
  /\ sessStored' = stored /\ sessCrossed' = FALSE
  /\ sessTabs' = [TabsThen EXCEPT ![t] = [at |-> "login", user |-> Nobody, now |-> TRUE]]
  /\ sessRequests' = IF sessStored.user = Nobody THEN requests ELSE Then(requests)
  /\ UNCHANGED <<sessAccess, sessRefresh, sessFaults>>

\* Mutant: the tokens stay.
LogOutUser(t) ==
  /\ sessTabs[t].at = "app"
  /\ SessionOver(t, [sessStored EXCEPT !.user = Nobody], sessRequests)

\* logout: the backend is not told, the page is not loaded again, and requests go on.
LogOut(t) == sessTabs[t].at = "app" /\ SessionOver(t, NothingStored, sessRequests)

\* An access token lives fifteen minutes.
Expire(k) ==
  /\ sessAccess[k].state = "live"
  /\ sessAccess' = [sessAccess EXCEPT ![k].state = "gone"]
  /\ UNCHANGED <<sessStored, sessTabs, sessRequests, sessRefresh, sessCrossed, sessFaults>>

-----------------------------------------------------------------------------
\* A request takes the token of the moment; a wrong password on the login page is a
\* request that is refused whatever it carries.
SendRequest(r, t) ==
  /\ sessRequests[r].pc = "idle"
  /\ sessRequests' = [sessRequests EXCEPT ![r] =
       [pc |-> "sent", tab |-> t, refresh |-> 0, now |-> TRUE,
        access |-> IF sessTabs[t].at = "app" THEN sessStored.access ELSE 0]]
  /\ UNCHANGED <<sessStored, sessTabs, sessAccess, sessRefresh, sessCrossed, sessFaults>>

Accepted(k) == k # 0 /\ sessAccess[k].state = "live"

\* The answer, or the one to the second try, after which nothing more is tried.
Answered(r) ==
  LET q == sessRequests[r] IN
  /\ \/ q.pc = "sent" /\ Accepted(q.access)
     \/ q.pc = "again"
  /\ sessRequests' = RequestEnds(r)
  /\ UNCHANGED <<sessStored, sessTabs, sessAccess, sessRefresh, sessCrossed, sessFaults>>

\* handleLogout: everything is removed, and the tab loads the login page unless it is there.
HandleLogout(r) ==
  LET t == sessRequests[r].tab IN
  SessionOver(t, NothingStored,
              IF sessTabs[t].at = "login" THEN RequestEnds(r)
              ELSE [s \in SessRequests |->
                      IF sessRequests[s].tab = t THEN IdleRequest ELSE sessRequests[s]])

\* Mutant: the user is logged out at once.
UnauthorizedOut(r) ==
  LET q == sessRequests[r] IN
  /\ q.pc = "sent" /\ ~Accepted(q.access)
  /\ HandleLogout(r)

\* 401: the refresh token of the moment is exchanged, and without one the user logged out.
Unauthorized(r) ==
  LET q == sessRequests[r] IN
  /\ q.pc = "sent" /\ ~Accepted(q.access)
  /\ \/ sessStored.refresh = 0 /\ HandleLogout(r)
     \/ /\ sessStored.refresh # 0
        /\ sessRequests' = [sessRequests EXCEPT ![r].pc = "exchange",
                                                ![r].refresh = sessStored.refresh]
        /\ UNCHANGED <<sessStored, sessTabs, sessAccess, sessRefresh, sessCrossed, sessFaults>>

\* The backend gives tokens for a refresh token that has not been exchanged, once.
Exchange(r) ==
  LET q == sessRequests[r]
      u == sessRefresh[q.refresh].owner
  IN
  /\ q.pc = "exchange"
  /\ IF sessRefresh[q.refresh].state = "live" THEN
       /\ CanIssue(sessAccess)
       /\ sessAccess' = Issued(sessAccess, u)
       /\ sessRefresh' = [sessRefresh EXCEPT ![q.refresh].state = "gone"]
       /\ sessRequests' = [sessRequests EXCEPT ![r].pc = "granted",
                                               ![r].access = NextToken(sessAccess)]
     ELSE /\ sessRequests' = [sessRequests EXCEPT ![r].pc = "denied"]
          /\ UNCHANGED <<sessAccess, sessRefresh>>
  /\ UNCHANGED <<sessStored, sessTabs, sessCrossed, sessFaults>>

\* The exchange, or its answer, is lost.
ExchangeFails(r) ==
  /\ sessRequests[r].pc \in {"exchange", "granted"}
  /\ sessFaults < MaxSessFaults /\ sessFaults' = sessFaults + 1
  /\ sessRequests' = [sessRequests EXCEPT ![r].pc = "denied"]
  /\ UNCHANGED <<sessStored, sessTabs, sessAccess, sessRefresh, sessCrossed>>

\* The new access token is stored, the new refresh token is not, and the request tried again.
Granted(r) ==
  LET q == sessRequests[r] IN
  /\ q.pc = "granted"
  /\ sessStored' = [sessStored EXCEPT !.access = q.access]
  /\ sessCrossed' = (sessCrossed \/ ~q.now)
  /\ sessRequests' = [sessRequests EXCEPT ![r].pc = "again"]
  /\ UNCHANGED <<sessTabs, sessAccess, sessRefresh, sessFaults>>

Denied(r) == sessRequests[r].pc = "denied" /\ HandleLogout(r)

-----------------------------------------------------------------------------
SessNext ==
  \/ \E t \in Tabs : Load(t) \/ LogOut(t) \/ \E u \in SessUsers : LogIn(t, u)
  \/ \E k \in AccessIds : Expire(k)
  \/ \E r \in SessRequests :
       \/ \E t \in Tabs : SendRequest(r, t)
       \/ Answered(r) \/ Unauthorized(r) \/ Exchange(r) \/ ExchangeFails(r)
       \/ Granted(r) \/ Denied(r)

SessSpec == SessInit /\ [][SessNext]_sessVars

-----------------------------------------------------------------------------
(* Properties.                                                             *)

SessTypeOK ==
  /\ sessStored \in Stored
  /\ sessTabs \in [Tabs -> Tab]
  /\ sessRequests \in [SessRequests -> SessRequest]
  /\ sessAccess \in [AccessIds -> IssuedToken] /\ sessRefresh \in [RefreshIds -> IssuedToken]
  /\ sessCrossed \in BOOLEAN /\ sessFaults \in 0..MaxSessFaults

\* A tab acts as the user it shows, and nobody's token outlives the session: what is stored
\* is all of one user, unless the answer to an exchange begun in another session was stored
\* into this one (client.ts:61); and a tab shows that user unless the session has changed
\* in another tab (AuthContext.tsx:83 reads it once).
ActsAsShown ==
  /\ sessCrossed \/ sessStored = NothingStored
       \/ /\ sessStored.user # Nobody
          /\ sessAccess[sessStored.access].owner = sessStored.user
          /\ sessRefresh[sessStored.refresh].owner = sessStored.user
  /\ \A t \in Tabs : sessTabs[t].user # Nobody /\ sessTabs[t].now
                       => sessTabs[t].user = sessStored.user

\* A session ends without its user's doing only when its refresh token has been exchanged
\* already (the one that came with the new access token is dropped, client.ts:60), on a
\* failure of the exchange, or for a request begun in another session.
EndsExplained ==
  [][sessStored.user # Nobody /\ sessStored' = NothingStored =>
       \/ \A r \in SessRequests : sessRequests'[r].pc = sessRequests[r].pc
       \/ sessRefresh[sessStored.refresh].state = "gone"
       \/ sessFaults > 0
       \/ \E r \in SessRequests :
            sessRequests'[r].pc # sessRequests[r].pc /\ ~sessRequests[r].now]_sessVars
=============================================================================
