------------------------------ MODULE Sessions ------------------------------
(***************************************************************************)
(* AuthService: the refresh tokens of one user.  A token is a JWT whose    *)
(* only varying claim is the second it was signed in, and the table is     *)
(* unique in (userId, token); calls interleave at the database and bcrypt. *)
(***************************************************************************)
EXTENDS Naturals, FiniteSets

CONSTANTS
  AuthCalls,      \* calls of the service
  LastSecond,     \* bound: the seconds that pass
  MaxAuthFaults   \* bound: calls to the database that fail

ASSUME AuthAssumption ==
  IsFiniteSet(AuthCalls) /\ LastSecond \in Nat /\ MaxAuthFaults \in Nat

VARIABLES
  authNow,      \* the clock, in seconds
  authTokens,   \* the row of the token signed in each second
  authCalls,    \* each call, what it has read and what it has signed
  authSweeps,   \* times all the tokens of the user were revoked
  authFaults

authVars == <<authNow, authTokens, authCalls, authSweeps, authFaults>>

-----------------------------------------------------------------------------
Seconds == 0..LastSecond
NoToken == LastSecond + 1

\* since: the sweeps before the row was created.
Token  == [state : {"none", "valid", "revoked"}, since : 0..Cardinality(AuthCalls)]

AuthCall ==
  [kind : {"none", "login", "refresh", "logout", "change"},
   pc : {"new", "user", "signed", "revoked", "sweep", "ok", "refused", "lost"},
   source : Seconds \cup {NoToken}, token : Seconds \cup {NoToken}]

AuthInit ==
  /\ authNow = 0
  /\ authTokens = [s \in Seconds |-> [state |-> "none", since |-> 0]]
  /\ authCalls = [c \in AuthCalls |->
       [kind |-> "none", pc |-> "new", source |-> NoToken, token |-> NoToken]]
  /\ authSweeps = 0 /\ authFaults = 0

Tick ==
  /\ authNow < LastSecond /\ authNow' = authNow + 1
  /\ UNCHANGED <<authTokens, authCalls, authSweeps, authFaults>>

AuthGoto(c, pc) == authCalls' = [authCalls EXCEPT ![c].pc = pc]
Enters(c, kind, pc, source) ==
  /\ authCalls[c].pc = "new"
  /\ authCalls' = [authCalls EXCEPT ![c] =
       [kind |-> kind, pc |-> pc, source |-> source, token |-> NoToken]]

Revoked(s) == [authTokens EXCEPT ![s].state = "revoked"]

-----------------------------------------------------------------------------
\* login, with the right password; register is the same on a new user.
Login(c) ==
  /\ Enters(c, "login", "user", NoToken)
  /\ UNCHANGED <<authNow, authTokens, authSweeps, authFaults>>

\* refreshToken: its row is found, not revoked; it has not expired, as a week is longer
\* than the seconds there are.
RefreshToken(c, s) ==
  /\ authTokens[s].state = "valid"
  /\ Enters(c, "refresh", "user", s)
  /\ UNCHANGED <<authNow, authTokens, authSweeps, authFaults>>

\* generateTokens: the same claims in the same second are the same token.
Sign(c) ==
  /\ authCalls[c].pc = "user" /\ authCalls[c].kind \in {"login", "refresh"}
  /\ authCalls' = [authCalls EXCEPT ![c] = [@ EXCEPT !.pc = "signed", !.token = authNow]]
  /\ UNCHANGED <<authNow, authTokens, authSweeps, authFaults>>

\* Mutant: the token that was exchanged is left to expire.
RevokeNothing(c) ==
  /\ authCalls[c].kind = "refresh" /\ authCalls[c].pc = "signed"
  /\ AuthGoto(c, "revoked")
  /\ UNCHANGED <<authNow, authTokens, authSweeps, authFaults>>

\* The token that was exchanged is revoked, on the strength of what was found.
RevokeOld(c) ==
  /\ authCalls[c].kind = "refresh" /\ authCalls[c].pc = "signed"
  /\ AuthGoto(c, "revoked")
  /\ authTokens' = Revoked(authCalls[c].source)
  /\ UNCHANGED <<authNow, authSweeps, authFaults>>

Saving(c) ==
  \/ authCalls[c].kind = "login" /\ authCalls[c].pc = "signed"
  \/ authCalls[c].kind = "refresh" /\ authCalls[c].pc = "revoked"

\* saveRefreshToken: a second token of the same second breaks the unique index; the login
\* is an error, and the refresh is refused after its old token was revoked.
SaveToken(c) ==
  /\ Saving(c)
  /\ IF authTokens[authCalls[c].token].state = "none"
     THEN /\ AuthGoto(c, "ok")
          /\ authTokens' = [authTokens EXCEPT ![authCalls[c].token] =
                              [state |-> "valid", since |-> authSweeps]]
     ELSE /\ AuthGoto(c, IF authCalls[c].kind = "refresh" THEN "lost" ELSE "refused")
          /\ UNCHANGED authTokens
  /\ UNCHANGED <<authNow, authSweeps, authFaults>>

\* A call to the database fails.
AuthThrows(c) ==
  /\ authCalls[c].pc \in {"user", "signed", "revoked", "sweep"}
  /\ authFaults < MaxAuthFaults /\ authFaults' = authFaults + 1
  /\ AuthGoto(c, IF authCalls[c].pc = "revoked" THEN "lost" ELSE "refused")
  /\ UNCHANGED <<authNow, authTokens, authSweeps>>

\* logout of one session.
Logout(c, s) ==
  /\ authTokens[s].state = "valid"
  /\ Enters(c, "logout", "ok", s)
  /\ authTokens' = Revoked(s)
  /\ UNCHANGED <<authNow, authSweeps, authFaults>>

\* Mutant: those of the second before stay.
SweptOld == [s \in Seconds |->
  IF s < authNow /\ authTokens[s].state = "valid"
  THEN [authTokens[s] EXCEPT !.state = "revoked"] ELSE authTokens[s]]

\* updateMany: every token of the user that is not revoked.
Swept == [s \in Seconds |->
  IF authTokens[s].state = "valid"
  THEN [authTokens[s] EXCEPT !.state = "revoked"] ELSE authTokens[s]]

\* logout without a token.
LogoutAll(c) ==
  /\ Enters(c, "logout", "ok", NoToken)
  /\ authTokens' = Swept /\ authSweeps' = authSweeps + 1
  /\ UNCHANGED <<authNow, authFaults>>

\* changePassword and resetPassword: the user is read and the new password hashed ...
ReadPassword(c) ==
  /\ Enters(c, "change", "user", NoToken)
  /\ UNCHANGED <<authNow, authTokens, authSweeps, authFaults>>

\* ... the password is written ...
WritePassword(c) ==
  /\ authCalls[c].kind = "change" /\ authCalls[c].pc = "user"
  /\ AuthGoto(c, "sweep")
  /\ UNCHANGED <<authNow, authTokens, authSweeps, authFaults>>

\* ... and then the tokens are revoked.
Sweep(c) ==
  /\ authCalls[c].pc = "sweep"
  /\ AuthGoto(c, "ok")
  /\ authTokens' = Swept /\ authSweeps' = authSweeps + 1
  /\ UNCHANGED <<authNow, authFaults>>

-----------------------------------------------------------------------------
AuthNext ==
  \/ Tick
  \/ \E c \in AuthCalls :
       \/ Login(c) \/ Sign(c) \/ RevokeOld(c) \/ SaveToken(c) \/ AuthThrows(c)
       \/ LogoutAll(c) \/ ReadPassword(c) \/ WritePassword(c) \/ Sweep(c)
       \/ \E s \in Seconds : RefreshToken(c, s) \/ Logout(c, s)

AuthSpec == AuthInit /\ [][AuthNext]_authVars

-----------------------------------------------------------------------------
(* Properties.                                                             *)

AuthTypeOK ==
  /\ authNow \in Seconds
  /\ authTokens \in [Seconds -> Token]
  /\ authCalls \in [AuthCalls -> AuthCall]
  /\ authSweeps \in 0..Cardinality(AuthCalls)
  /\ authFaults \in 0..MaxAuthFaults

Calls(kind, pcs) == {c \in AuthCalls : authCalls[c].kind = kind /\ authCalls[c].pc \in pcs}
ValidTokens == {s \in Seconds : authTokens[s].state = "valid"}

\* A login has one session, however often its token is exchanged; refreshes of one token
\* that overlap (auth.service.ts:101 reads what :113 revokes) add one each.
SessionsPerLogin ==
  LET Exchanged == {authCalls[c].source : c \in Calls("refresh", {"ok"})} IN
  Cardinality(ValidTokens) + Cardinality(Exchanged)
    <= Cardinality(Calls("login", {"ok"})) + Cardinality(Calls("refresh", {"ok"}))

\* A refresh that takes the old token and gives no new one has met another token of the
\* user signed in the same second, the old one included, or a failure.
LostToTheSecond ==
  \A c \in Calls("refresh", {"lost"}) :
    authFaults > 0 \/ \E d \in AuthCalls \ {c} :
      authCalls[d].token = authCalls[c].token /\ authCalls[d].pc \in {"ok", "lost"}

\* A login keeps exactly one session through its refreshes, those two cases apart.
TokensAccounted == SessionsPerLogin /\ LostToTheSecond

\* After a change of the password or a logout everywhere, the tokens that are valid were
\* stored later, by a call that began later or was under way.
SweepLeavesNone == \A s \in ValidTokens : authTokens[s].since = authSweeps
=============================================================================
