--------------------------- MODULE ServicesProofs ---------------------------
(***************************************************************************)
(* The refresh tokens of AuthService, the mobile farm, the file import and *)
(* the executions page, for any number of calls, devices, rows and         *)
(* executions and any bound: an inductive invariant of each of the four    *)
(* modules, and from them the invariants of MCServices.                    *)
(***************************************************************************)
EXTENDS MCServices, FiniteSetTheorems, SequenceTheorems, TLAPS

-----------------------------------------------------------------------------
(* Sessions: a login keeps one session (TokensAccounted), and none         *)
(* survives a change of the password (SweepLeavesNone).  A token that was  *)
(* stored is the one a call has got (StoredByCall), and one that was       *)
(* exchanged is revoked (KnownCall): so there are no more valid and        *)
(* exchanged tokens together than calls that stored one.                   *)

Ended == {c \in AuthCalls : authCalls[c].pc = "ok"}

\* What a call knows: the token it has signed, and that the one it exchanged is revoked.
KnownCall(q, tokens) ==
  /\ q.pc \in {"signed", "revoked"} => q.token \in Seconds
  /\ q.kind = "refresh" =>
       q.pc # "sweep" /\ q.source \in Seconds /\ tokens[q.source].state # "none"
  /\ q.kind = "refresh" /\ q.pc \in {"revoked", "ok", "lost"}
       => tokens[q.source].state = "revoked"

StoredByCall ==
  \A s \in Seconds : authTokens[s].state # "none" =>
    \E c \in AuthCalls : /\ authCalls[c].kind \in {"login", "refresh"}
                         /\ authCalls[c].pc = "ok" /\ authCalls[c].token = s

AuthInv ==
  /\ AuthTypeOK /\ authSweeps <= Cardinality(Ended)
  /\ \A c \in AuthCalls : KnownCall(authCalls[c], authTokens)
  /\ StoredByCall /\ LostToTheSecond /\ SweepLeavesNone

-----------------------------------------------------------------------------
\* No token, and no call.
LEMMA AuthInitial == AuthInit => AuthInv
<1> SUFFICES ASSUME AuthInit PROVE AuthInv
  OBVIOUS
<1> USE AuthAssumption DEF AuthInit
<1>0. Cardinality(AuthCalls) \in Nat
  BY FS_CardinalityType
<1>1. AuthTypeOK
  BY <1>0 DEF AuthTypeOK, Token, AuthCall, Seconds, NoToken
<1>2. authSweeps <= Cardinality(Ended)
  <2>1. Ended = {}
    BY DEF Ended
  <2> QED BY <2>1, FS_EmptySet
<1>3. \A c \in AuthCalls : KnownCall(authCalls[c], authTokens)
  BY DEF KnownCall
<1>4. StoredByCall /\ SweepLeavesNone
  BY DEF StoredByCall, SweepLeavesNone, ValidTokens
<1>5. LostToTheSecond
  BY DEF LostToTheSecond, Calls
<1> QED BY <1>1, <1>2, <1>3, <1>4, <1>5 DEF AuthInv

\* What a step of a call keeps: tokens that are revoked stay so, what is stored the call has
\* got, and what it swept it has counted.
LEMMA CallKeeps ==
  ASSUME AuthInv, NEW c \in AuthCalls, NEW q \in AuthCall,
         authCalls[c].pc \notin {"ok", "lost"}, authCalls' = [authCalls EXCEPT ![c] = q],
         authNow' = authNow, authTokens' \in [Seconds -> Token],
         authFaults' \in 0..MaxAuthFaults, authFaults' >= authFaults,
         \/ authSweeps' = authSweeps
         \/ authSweeps' = authSweeps + 1 /\ q.pc = "ok",
         KnownCall(q, authTokens'),
         \A s \in Seconds :
           /\ authTokens[s].state = "revoked" => authTokens'[s].state = "revoked"
           /\ authTokens[s].state # "none" => authTokens'[s].state # "none",
         \A s \in Seconds :
           authTokens'[s].state = "valid" => authTokens'[s].since = authSweeps',
         \A s \in Seconds : authTokens'[s].state # "none" =>
           \/ authTokens[s].state # "none"
           \/ q.kind \in {"login", "refresh"} /\ q.pc = "ok" /\ q.token = s,
         q.kind = "refresh" /\ q.pc = "lost" =>
           \/ authFaults' > 0
           \/ \E d \in AuthCalls \ {c} :
                authCalls[d].token = q.token /\ authCalls[d].pc \in {"ok", "lost"}
  PROVE  AuthInv'
<1> USE AuthAssumption
<1>0. /\ authCalls \in [AuthCalls -> AuthCall] /\ authSweeps \in Nat
      /\ authSweeps <= Cardinality(Ended) /\ authFaults \in Nat /\ authFaults' \in Nat
      /\ Cardinality(AuthCalls) \in Nat
  BY FS_CardinalityType DEF AuthInv, AuthTypeOK
<1>1. authCalls'[c] = q /\ \A d \in AuthCalls \ {c} : authCalls'[d] = authCalls[d]
  BY <1>0
<1>2. authSweeps' \in Nat /\ authSweeps' <= Cardinality(Ended')
  <2>1. /\ IsFiniteSet(Ended) /\ Cardinality(Ended) \in Nat
        /\ IsFiniteSet(Ended') /\ Cardinality(Ended') \in Nat
    BY FS_Subset, FS_CardinalityType DEF Ended
  <2>2. Ended \subseteq Ended'
    BY <1>1 DEF Ended
  <2>3. Cardinality(Ended) <= Cardinality(Ended')
    BY <2>1, <2>2, FS_Subset
  <2>4. CASE q.pc = "ok"
    <3>1. Ended' = Ended \cup {c} /\ c \notin Ended
      BY <1>1, <2>4 DEF Ended
    <3>2. Cardinality(Ended') = Cardinality(Ended) + 1
      BY <2>1, <3>1, FS_AddElement
    <3> QED BY <1>0, <2>1, <3>2
  <2>5. CASE q.pc # "ok"
    BY <1>0, <2>1, <2>3, <2>5
  <2> QED BY <2>4, <2>5
<1>3. AuthTypeOK'
  <2>1. Cardinality(Ended') <= Cardinality(AuthCalls) /\ Cardinality(Ended') \in Nat
    BY FS_Subset, FS_CardinalityType DEF Ended
  <2>2. authSweeps' \in 0..Cardinality(AuthCalls)
    BY <1>0, <1>2, <2>1
  <2>3. authCalls' \in [AuthCalls -> AuthCall]
    BY <1>0
  <2>4. authNow' \in Seconds
    BY DEF AuthInv, AuthTypeOK
  <2> QED BY <2>2, <2>3, <2>4 DEF AuthTypeOK
<1>4. \A d \in AuthCalls : KnownCall(authCalls'[d], authTokens')
  BY <1>1 DEF AuthInv, KnownCall
<1>5. StoredByCall'
  <2> SUFFICES ASSUME NEW s \in Seconds, authTokens'[s].state # "none"
               PROVE  \E d \in AuthCalls : /\ authCalls'[d].kind \in {"login", "refresh"}
                                           /\ authCalls'[d].pc = "ok"
                                           /\ authCalls'[d].token = s
    BY DEF StoredByCall
  <2>1. CASE authTokens[s].state # "none"
    <3>1. PICK d \in AuthCalls : /\ authCalls[d].kind \in {"login", "refresh"}
                                 /\ authCalls[d].pc = "ok" /\ authCalls[d].token = s
      BY <2>1 DEF AuthInv, StoredByCall
    <3> QED BY <1>1, <3>1
  <2>2. CASE q.kind \in {"login", "refresh"} /\ q.pc = "ok" /\ q.token = s
    BY <1>1, <2>2
  <2> QED BY <2>1, <2>2
<1>6. ASSUME NEW d \in AuthCalls, authCalls'[d].kind = "refresh", authCalls'[d].pc = "lost"
      PROVE  \/ authFaults' > 0
             \/ \E e \in AuthCalls \ {d} :
                  authCalls'[e].token = authCalls'[d].token /\ authCalls'[e].pc \in {"ok",
                      "lost"}
  <2>1. CASE d = c
    BY <1>1, <1>6, <2>1
  <2>2. CASE d # c
    <3>1. authFaults > 0 \/ \E e \in AuthCalls \ {d} :
            authCalls[e].token = authCalls[d].token /\ authCalls[e].pc \in {"ok", "lost"}
      BY <1>1, <1>6, <2>2 DEF AuthInv, LostToTheSecond, Calls
    <3>2. CASE authFaults > 0
      BY <1>0, <3>2
    <3>3. ASSUME NEW e \in AuthCalls \ {d}, authCalls[e].token = authCalls[d].token,
                 authCalls[e].pc \in {"ok", "lost"}
          PROVE  authCalls'[e].token = authCalls'[d].token /\ authCalls'[e].pc \in {"ok",
              "lost"}
      BY <1>1, <2>2, <3>3
    <3> QED BY <3>1, <3>2, <3>3
  <2> QED BY <2>1, <2>2
<1>7. LostToTheSecond'
  BY <1>6 DEF LostToTheSecond, Calls
<1>8. SweepLeavesNone'
  BY DEF SweepLeavesNone, ValidTokens
<1>9. (\A d \in AuthCalls : KnownCall(authCalls[d], authTokens))'
  BY <1>4
<1> QED BY <1>2, <1>3, <1>5, <1>7, <1>8, <1>9 DEF AuthInv

-----------------------------------------------------------------------------
\* A call moves and leaves the tokens alone.
LEMMA QuietKeeps ==
  ASSUME AuthInv, NEW c \in AuthCalls, NEW q \in AuthCall,
         authCalls[c].pc \notin {"ok", "lost"}, authCalls' = [authCalls EXCEPT ![c] = q],
         UNCHANGED <<authNow, authTokens, authSweeps>>,
         authFaults' \in 0..MaxAuthFaults, authFaults' >= authFaults,
         KnownCall(q, authTokens),
         q.kind = "refresh" /\ q.pc = "lost" =>
           \/ authFaults' > 0
           \/ \E d \in AuthCalls \ {c} :
                authCalls[d].token = q.token /\ authCalls[d].pc \in {"ok", "lost"}
  PROVE  AuthInv'
<1>1. authTokens' \in [Seconds -> Token] /\ authTokens' = authTokens
  BY DEF AuthInv, AuthTypeOK
<1>2. \A s \in Seconds : authTokens'[s].state = "valid" => authTokens'[s].since = authSweeps'
  BY <1>1 DEF AuthInv, SweepLeavesNone, ValidTokens
<1>3. KnownCall(q, authTokens')
  BY <1>1
<1> QED BY <1>1, <1>2, <1>3, CallKeeps

\* The clock.
LEMMA TickKeeps == AuthInv /\ Tick => AuthInv'
<1> SUFFICES ASSUME AuthInv, Tick PROVE AuthInv'
  OBVIOUS
<1>1. /\ authNow < LastSecond /\ authNow' = authNow + 1
      /\ UNCHANGED <<authTokens, authCalls, authSweeps, authFaults>>
  BY DEF Tick
<1>2. authNow' \in Seconds
  BY <1>1, AuthAssumption DEF AuthInv, AuthTypeOK, Seconds
<1>3. AuthTypeOK'
  BY <1>1, <1>2 DEF AuthInv, AuthTypeOK
<1> QED BY <1>1, <1>3 DEF AuthInv, Ended, KnownCall, StoredByCall, LostToTheSecond, Calls,
                         SweepLeavesNone, ValidTokens

\* A call begins that changes nothing yet.
LEMMA BeginKeeps ==
  ASSUME AuthInv, NEW c \in AuthCalls,
         Login(c) \/ ReadPassword(c) \/ \E s \in Seconds : RefreshToken(c, s)
  PROVE  AuthInv'
<1>0. authFaults \in 0..MaxAuthFaults
  BY DEF AuthInv, AuthTypeOK
<1>1. PICK kind \in {"login", "change", "refresh"}, source \in Seconds \cup {NoToken} :
        /\ kind = "refresh" => source \in Seconds /\ authTokens[source].state = "valid"
        /\ Enters(c, kind, "user", source)
        /\ UNCHANGED <<authNow, authTokens, authSweeps, authFaults>>
  BY DEF Login, ReadPassword, RefreshToken
<1> DEFINE q == [kind |-> kind, pc |-> "user", source |-> source, token |-> NoToken]
<1>2. q \in AuthCall /\ q.pc = "user" /\ KnownCall(q, authTokens)
  BY <1>1 DEF AuthCall, KnownCall
<1>3. authCalls[c].pc = "new" /\ authCalls' = [authCalls EXCEPT ![c] = q]
  BY <1>1 DEF Enters
<1> HIDE DEF q
<1>4. authFaults' \in 0..MaxAuthFaults /\ authFaults' >= authFaults
  BY <1>0, <1>1, AuthAssumption
<1> QED BY <1>1, <1>2, <1>3, <1>4, QuietKeeps

\* A call signs its token, or writes the new password.
LEMMA MoveKeeps ==
  ASSUME AuthInv, NEW c \in AuthCalls, Sign(c) \/ WritePassword(c)
  PROVE  AuthInv'
<1>0. /\ authFaults \in 0..MaxAuthFaults /\ authCalls[c] \in AuthCall /\ authNow \in Seconds
      /\ KnownCall(authCalls[c], authTokens)
  BY DEF AuthInv, AuthTypeOK
<1>1. authFaults' = authFaults => authFaults' \in 0..MaxAuthFaults /\ authFaults' >= authFaults
  BY <1>0, AuthAssumption
<1>2. CASE Sign(c)
  <2> DEFINE q == [authCalls[c] EXCEPT !.pc = "signed", !.token = authNow]
  <2>1. /\ authCalls[c].pc = "user" /\ authCalls' = [authCalls EXCEPT ![c] = q]
        /\ UNCHANGED <<authNow, authTokens, authSweeps, authFaults>>
    BY <1>2 DEF Sign
  <2>2. q \in AuthCall /\ q.pc = "signed" /\ KnownCall(q, authTokens)
    BY <1>0, <2>1 DEF AuthCall, KnownCall
  <2> HIDE DEF q
  <2> QED BY <1>1, <2>1, <2>2, QuietKeeps
<1>3. CASE WritePassword(c)
  <2> DEFINE q == [authCalls[c] EXCEPT !.pc = "sweep"]
  <2>1. /\ authCalls[c].pc = "user" /\ authCalls[c].kind = "change"
        /\ authCalls' = [authCalls EXCEPT ![c] = q]
        /\ UNCHANGED <<authNow, authTokens, authSweeps, authFaults>>
    BY <1>3 DEF WritePassword, AuthGoto
  <2>2. q \in AuthCall /\ q.pc = "sweep" /\ KnownCall(q, authTokens)
    BY <1>0, <2>1 DEF AuthCall, KnownCall
  <2> HIDE DEF q
  <2> QED BY <1>1, <2>1, <2>2, QuietKeeps
<1> QED BY <1>2, <1>3

\* A call to the database fails: what a refresh loses is accounted for by the failure.
LEMMA ThrowKeeps ==
  ASSUME AuthInv, NEW c \in AuthCalls, AuthThrows(c)
  PROVE  AuthInv'
<1> DEFINE q == [authCalls[c] EXCEPT
                   !.pc = IF authCalls[c].pc = "revoked" THEN "lost" ELSE "refused"]
<1>0. /\ authFaults \in 0..MaxAuthFaults /\ authCalls[c] \in AuthCall
      /\ KnownCall(authCalls[c], authTokens)
  BY DEF AuthInv, AuthTypeOK
<1>1. /\ authCalls[c].pc \notin {"ok", "lost"} /\ authCalls' = [authCalls EXCEPT ![c] = q]
      /\ authFaults < MaxAuthFaults /\ authFaults' = authFaults + 1
      /\ UNCHANGED <<authNow, authTokens, authSweeps>>
  BY DEF AuthThrows, AuthGoto
<1>2. q \in AuthCall /\ KnownCall(q, authTokens)
  BY <1>0 DEF AuthCall, KnownCall
<1> HIDE DEF q
<1>3. authFaults' \in 0..MaxAuthFaults /\ authFaults' >= authFaults /\ authFaults' > 0
  BY <1>0, <1>1, AuthAssumption
<1> QED BY <1>1, <1>2, <1>3, QuietKeeps

-----------------------------------------------------------------------------
(* Tokens that change.                                                     *)

\* Revoking a token, or all of them, leaves tokens.
LEMMA RevokedIsToken ==
  ASSUME AuthInv, NEW s \in Seconds
  PROVE  /\ [authTokens[s] EXCEPT !.state = "revoked"] \in Token
         /\ [authTokens[s] EXCEPT !.state = "revoked"].state = "revoked"
<1>1. authTokens[s] \in Token
  BY DEF AuthInv, AuthTypeOK
<1> QED BY <1>1 DEF Token

\* One token is revoked, by the refresh that exchanges it or by the logout of its session.
LEMMA RevokeKeeps ==
  ASSUME AuthInv, NEW c \in AuthCalls, RevokeOld(c) \/ \E s \in Seconds : Logout(c, s)
  PROVE  AuthInv'
<1>0. /\ authFaults \in 0..MaxAuthFaults /\ authCalls[c] \in AuthCall
      /\ authTokens \in [Seconds -> Token] /\ KnownCall(authCalls[c], authTokens)
      /\ \A s \in Seconds : authTokens[s].state = "valid" => authTokens[s].since = authSweeps
  BY DEF AuthInv, AuthTypeOK, SweepLeavesNone, ValidTokens
<1>1. ASSUME NEW s \in Seconds, NEW q \in AuthCall, authTokens' = Revoked(s),
             authTokens[s].state # "none", authCalls' = [authCalls EXCEPT ![c] = q],
             authCalls[c].pc \notin {"ok", "lost"}, q.pc \in {"revoked", "ok"},
             q.pc = "revoked" => q.token \in Seconds, q.kind = "refresh" => q.source = s,
             UNCHANGED <<authNow, authSweeps, authFaults>>
      PROVE  AuthInv'
  <2>1. /\ authTokens'[s] = [authTokens[s] EXCEPT !.state = "revoked"]
        /\ \A x \in Seconds \ {s} : authTokens'[x] = authTokens[x]
    BY <1>0, <1>1 DEF Revoked
  <2>2. authTokens'[s] \in Token /\ authTokens'[s].state = "revoked"
    BY <2>1, RevokedIsToken
  <2>3. authTokens' \in [Seconds -> Token]
    BY <1>0, <1>1, <2>1, <2>2 DEF Revoked
  <2>4. KnownCall(q, authTokens')
    BY <1>1, <2>2 DEF KnownCall
  <2>5. authFaults' \in 0..MaxAuthFaults /\ authFaults' >= authFaults
    BY <1>0, <1>1, AuthAssumption
  <2>6. \A x \in Seconds :
          /\ authTokens[x].state = "revoked" => authTokens'[x].state = "revoked"
          /\ authTokens[x].state # "none" => authTokens'[x].state # "none"
          /\ authTokens'[x].state # "none" => authTokens[x].state # "none"
          /\ authTokens'[x].state = "valid" => authTokens'[x].since = authSweeps'
    BY <1>0, <1>1, <2>1, <2>2
  <2> QED BY <1>1, <2>3, <2>4, <2>5, <2>6, CallKeeps
<1>2. CASE RevokeOld(c)
  <2> DEFINE q == [authCalls[c] EXCEPT !.pc = "revoked"]
             s == authCalls[c].source
  <2>1. /\ authCalls[c].kind = "refresh" /\ authCalls[c].pc = "signed"
        /\ authCalls' = [authCalls EXCEPT ![c] = q] /\ authTokens' = Revoked(s)
        /\ UNCHANGED <<authNow, authSweeps, authFaults>>
    BY <1>2 DEF RevokeOld, AuthGoto
  <2>2. /\ s \in Seconds /\ authTokens[s].state # "none"
        /\ q \in AuthCall /\ q.pc = "revoked" /\ q.source = s /\ q.token \in Seconds
    BY <1>0, <2>1 DEF KnownCall, AuthCall
  <2> HIDE DEF q, s
  <2> QED BY <1>1, <2>1, <2>2
<1>3. ASSUME NEW s \in Seconds, Logout(c, s) PROVE AuthInv'
  <2> DEFINE q == [kind |-> "logout", pc |-> "ok", source |-> s, token |-> NoToken]
  <2>1. /\ authTokens[s].state = "valid" /\ authCalls[c].pc = "new"
        /\ authCalls' = [authCalls EXCEPT ![c] = q] /\ authTokens' = Revoked(s)
        /\ UNCHANGED <<authNow, authSweeps, authFaults>>
    BY <1>3 DEF Logout, Enters
  <2>2. q \in AuthCall /\ q.pc = "ok" /\ q.kind = "logout"
    BY DEF AuthCall
  <2> HIDE DEF q
  <2> QED BY <1>1, <2>1, <2>2
<1> QED BY <1>2, <1>3

\* Every token is revoked, and the sweep is counted by the call that ends with it.
LEMMA SweepKeeps ==
  ASSUME AuthInv, NEW c \in AuthCalls, LogoutAll(c) \/ Sweep(c)
  PROVE  AuthInv'
<1>0. /\ authFaults \in 0..MaxAuthFaults /\ authCalls[c] \in AuthCall
      /\ authTokens \in [Seconds -> Token] /\ KnownCall(authCalls[c], authTokens)
  BY DEF AuthInv, AuthTypeOK
<1>1. ASSUME authTokens' = Swept
      PROVE  /\ authTokens' \in [Seconds -> Token]
             /\ \A x \in Seconds :
                  /\ authTokens[x].state = "revoked" => authTokens'[x].state = "revoked"
                  /\ authTokens[x].state # "none" => authTokens'[x].state # "none"
                  /\ authTokens'[x].state # "none" => authTokens[x].state # "none"
                  /\ authTokens'[x].state # "valid"
  <2>1. \A x \in Seconds :
          authTokens'[x] = IF authTokens[x].state = "valid"
                           THEN [authTokens[x] EXCEPT !.state = "revoked"] ELSE authTokens[x]
    BY <1>1 DEF Swept
  <2>2. \A x \in Seconds : /\ authTokens[x].state = "valid" =>
                                authTokens'[x] \in Token /\ authTokens'[x].state = "revoked"
                           /\ authTokens[x].state # "valid" => authTokens'[x] = authTokens[x]
    BY <2>1, RevokedIsToken
  <2>3. \A x \in Seconds : authTokens'[x] \in Token
    BY <1>0, <2>2
  <2>4. authTokens' \in [Seconds -> Token]
    BY <1>1, <2>3 DEF Swept
  <2> QED BY <2>2, <2>4
<1>2. ASSUME NEW q \in AuthCall, authTokens' = Swept, authSweeps' = authSweeps + 1,
             authCalls' = [authCalls EXCEPT ![c] = q], authCalls[c].pc \notin {"ok", "lost"},
             q.pc = "ok", KnownCall(q, authTokens'), UNCHANGED <<authNow, authFaults>>
      PROVE  AuthInv'
  <2>1. authFaults' \in 0..MaxAuthFaults /\ authFaults' >= authFaults
    BY <1>0, <1>2, AuthAssumption
  <2> QED BY <1>1, <1>2, <2>1, CallKeeps
<1>3. CASE LogoutAll(c)
  <2> DEFINE q == [kind |-> "logout", pc |-> "ok", source |-> NoToken, token |-> NoToken]
  <2>1. /\ authCalls[c].pc = "new" /\ authCalls' = [authCalls EXCEPT ![c] = q]
        /\ authTokens' = Swept /\ authSweeps' = authSweeps + 1
        /\ UNCHANGED <<authNow, authFaults>>
    BY <1>3 DEF LogoutAll, Enters
  <2>2. q \in AuthCall /\ q.pc = "ok" /\ KnownCall(q, authTokens')
    BY DEF AuthCall, KnownCall
  <2> HIDE DEF q
  <2> QED BY <1>2, <2>1, <2>2
<1>4. CASE Sweep(c)
  <2> DEFINE q == [authCalls[c] EXCEPT !.pc = "ok"]
  <2>1. /\ authCalls[c].pc = "sweep" /\ authCalls' = [authCalls EXCEPT ![c] = q]
        /\ authTokens' = Swept /\ authSweeps' = authSweeps + 1
        /\ UNCHANGED <<authNow, authFaults>>
    BY <1>4 DEF Sweep, AuthGoto
  <2>2. authCalls[c].kind # "refresh"
    BY <1>0, <2>1 DEF KnownCall
  <2>3. q \in AuthCall /\ q.pc = "ok" /\ KnownCall(q, authTokens')
    BY <1>0, <2>2 DEF AuthCall, KnownCall
  <2> HIDE DEF q
  <2> QED BY <1>2, <2>1, <2>3
<1> QED BY <1>3, <1>4

\* The token is stored, or another call has stored the one of its second.
LEMMA SaveKeeps ==
  ASSUME AuthInv, NEW c \in AuthCalls, SaveToken(c)
  PROVE  AuthInv'
<1> DEFINE t == authCalls[c].token
<1>0. /\ authFaults \in 0..MaxAuthFaults /\ authCalls[c] \in AuthCall
      /\ authTokens \in [Seconds -> Token] /\ KnownCall(authCalls[c], authTokens)
      /\ authSweeps \in 0..Cardinality(AuthCalls)
      /\ \A s \in Seconds : authTokens[s].state = "valid" => authTokens[s].since = authSweeps
  BY DEF AuthInv, AuthTypeOK, SweepLeavesNone, ValidTokens
<1>1. /\ authCalls[c].pc \in {"signed", "revoked"}
      /\ authCalls[c].kind \in {"login", "refresh"}
      /\ authCalls[c].kind = "refresh" => authCalls[c].pc = "revoked"
      /\ UNCHANGED <<authNow, authSweeps, authFaults>>
  BY DEF SaveToken, Saving
<1>2. t \in Seconds
  BY <1>0, <1>1 DEF KnownCall
<1>3. authFaults' \in 0..MaxAuthFaults /\ authFaults' >= authFaults
  BY <1>0, <1>1, AuthAssumption
<1>4. CASE authTokens[t].state = "none"
  <2> DEFINE q == [authCalls[c] EXCEPT !.pc = "ok"]
             new == [state |-> "valid", since |-> authSweeps]
  <2>1. authCalls' = [authCalls EXCEPT ![c] = q] /\ authTokens' = [authTokens EXCEPT ![t] = new]
    BY <1>4 DEF SaveToken, AuthGoto
  <2>2. new \in Token /\ new.state = "valid" /\ new.since = authSweeps
    BY <1>0 DEF Token
  <2>3. /\ q \in AuthCall /\ q.pc = "ok" /\ q.token = t /\ q.kind \in {"login", "refresh"}
        /\ q.kind = authCalls[c].kind /\ q.source = authCalls[c].source
    BY <1>0, <1>1 DEF AuthCall
  <2> HIDE DEF q, new, t
  <2>4. /\ authTokens'[t] = new /\ authTokens' \in [Seconds -> Token]
        /\ \A x \in Seconds \ {t} : authTokens'[x] = authTokens[x]
    BY <1>0, <1>2, <2>1, <2>2
  <2>5. KnownCall(q, authTokens')
    BY <1>0, <1>1, <1>4, <2>3, <2>4 DEF KnownCall
  <2>6. \A x \in Seconds :
          /\ authTokens[x].state = "revoked" => authTokens'[x].state = "revoked"
          /\ authTokens[x].state # "none" => authTokens'[x].state # "none"
          /\ authTokens'[x].state # "none" => authTokens[x].state # "none" \/ x = t
          /\ authTokens'[x].state = "valid" => authTokens'[x].since = authSweeps'
    BY <1>0, <1>1, <1>4, <2>2, <2>4
  <2> QED BY <1>1, <1>3, <2>1, <2>3, <2>4, <2>5, <2>6, CallKeeps
<1>5. CASE authTokens[t].state # "none"
  <2> DEFINE q == [authCalls[c] EXCEPT
                     !.pc = IF authCalls[c].kind = "refresh" THEN "lost" ELSE "refused"]
  <2>1. authCalls' = [authCalls EXCEPT ![c] = q] /\ authTokens' = authTokens
    BY <1>5 DEF SaveToken, AuthGoto
  <2>2. q \in AuthCall /\ KnownCall(q, authTokens) /\ q.token = t
    BY <1>0, <1>1 DEF AuthCall, KnownCall
  <2>3. PICK d \in AuthCalls : authCalls[d].pc = "ok" /\ authCalls[d].token = t
    BY <1>2, <1>5 DEF AuthInv, StoredByCall
  <2> HIDE DEF q
  <2>4. d # c
    BY <1>1, <2>3
  <2> QED BY <1>1, <1>3, <2>1, <2>2, <2>3, <2>4, QuietKeeps
<1> QED BY <1>4, <1>5

-----------------------------------------------------------------------------
\* Every step of AuthService keeps the invariant.
LEMMA AuthInductive == AuthInv /\ [AuthNext]_authVars => AuthInv'
<1> SUFFICES ASSUME AuthInv, [AuthNext]_authVars PROVE AuthInv'
  OBVIOUS
<1>1. CASE Tick
  BY <1>1, TickKeeps
<1>2. ASSUME NEW c \in AuthCalls,
             \/ Login(c) \/ Sign(c) \/ RevokeOld(c) \/ SaveToken(c) \/ AuthThrows(c)
             \/ LogoutAll(c) \/ ReadPassword(c) \/ WritePassword(c) \/ Sweep(c)
             \/ \E s \in Seconds : RefreshToken(c, s) \/ Logout(c, s)
      PROVE  AuthInv'
  BY <1>2, BeginKeeps, MoveKeeps, ThrowKeeps, RevokeKeeps, SweepKeeps, SaveKeeps
<1>3. CASE UNCHANGED authVars
  BY <1>3 DEF authVars, AuthInv, AuthTypeOK, Ended, KnownCall, StoredByCall, LostToTheSecond,
              Calls, SweepLeavesNone, ValidTokens
<1> QED BY <1>1, <1>2, <1>3 DEF AuthNext

\* Each token that was stored is a call's, and the exchanged ones are not valid.
LEMMA SessionsCounted == AuthInv => SessionsPerLogin
<1> SUFFICES ASSUME AuthInv PROVE SessionsPerLogin
  OBVIOUS
<1> DEFINE Logins == Calls("login", {"ok"})
           Refreshes == Calls("refresh", {"ok"})
           Exchanged == {authCalls[c].source : c \in Refreshes}
           Stored == {s \in Seconds : authTokens[s].state # "none"}
           Savers == {c \in Logins \cup Refreshes : authCalls[c].token \in Stored}
<1>1. /\ IsFiniteSet(Logins) /\ IsFiniteSet(Refreshes) /\ Logins \cap Refreshes = {}
      /\ Cardinality(Logins) \in Nat /\ Cardinality(Refreshes) \in Nat
  BY AuthAssumption, FS_Subset, FS_CardinalityType DEF Calls
<1>2. /\ IsFiniteSet(Logins \cup Refreshes)
      /\ Cardinality(Logins \cup Refreshes) = Cardinality(Logins) + Cardinality(Refreshes)
  <2>1. Cardinality(Logins \cap Refreshes) = 0
    BY <1>1, FS_EmptySet
  <2> HIDE DEF Logins, Refreshes
  <2>2. /\ IsFiniteSet(Logins \cup Refreshes)
        /\ Cardinality(Logins \cup Refreshes) = Cardinality(Logins) + Cardinality(Refreshes)
                                               - Cardinality(Logins \cap Refreshes)
    <3>1. IsFiniteSet(Logins) /\ IsFiniteSet(Refreshes)
      BY <1>1
    <3> QED BY <3>1, FS_Union
  <2> QED BY <1>1, <2>1, <2>2
<1>3. /\ IsFiniteSet(Savers) /\ Cardinality(Savers) \in Nat
      /\ Cardinality(Savers) <= Cardinality(Logins \cup Refreshes)
  BY <1>2, FS_Subset, FS_CardinalityType
<1>4. [c \in Savers |-> authCalls[c].token] \in Surjection(Savers, Stored)
  <2>1. \A s \in Stored : \E c \in Savers : authCalls[c].token = s
    BY DEF AuthInv, StoredByCall, Calls
  <2> QED BY <2>1 DEF Surjection
<1>5. /\ IsFiniteSet(Stored) /\ Cardinality(Stored) \in Nat
      /\ Cardinality(Stored) <= Cardinality(Savers)
  BY <1>3, <1>4, FS_Surjection, FS_CardinalityType
<1>6. \A c \in Refreshes : /\ authCalls[c].source \in Seconds
                         /\ authTokens[authCalls[c].source].state = "revoked"
  BY DEF AuthInv, KnownCall, Calls
<1>7. /\ Exchanged \subseteq Stored /\ ValidTokens \subseteq Stored
      /\ ValidTokens \cap Exchanged = {}
  BY <1>6 DEF ValidTokens
<1>8. /\ IsFiniteSet(Exchanged) /\ IsFiniteSet(ValidTokens)
      /\ Cardinality(Exchanged) \in Nat /\ Cardinality(ValidTokens) \in Nat
  BY <1>5, <1>7, FS_Subset, FS_CardinalityType
<1>9. Cardinality(ValidTokens \cup Exchanged)
        = Cardinality(ValidTokens) + Cardinality(Exchanged)
  BY <1>7, <1>8, FS_Union, FS_EmptySet
<1>10. Cardinality(ValidTokens \cup Exchanged) <= Cardinality(Stored)
  BY <1>5, <1>7, FS_Subset
<1>11. Cardinality(ValidTokens) + Cardinality(Exchanged)
         <= Cardinality(Logins) + Cardinality(Refreshes)
  BY <1>1, <1>2, <1>3, <1>5, <1>8, <1>9, <1>10
<1> QED BY <1>11 DEF SessionsPerLogin

\* AuthService: a login has one session through its refreshes, but for those that overlap;
\* and a refresh that loses its session has met a token of its second, or a failure.
THEOREM TokensAlwaysAccounted == AuthSpec => []TokensAccounted
<1>1. AuthInv => TokensAccounted
  BY SessionsCounted DEF AuthInv, TokensAccounted
<1> QED BY <1>1, AuthInitial, AuthInductive, PTL DEF AuthSpec

\* AuthService: after a change of the password or a logout everywhere, a valid token was
\* stored after it.
THEOREM NoneSurvivesASweep == AuthSpec => []SweepLeavesNone
<1>1. AuthInv => SweepLeavesNone
  BY DEF AuthInv
<1> QED BY <1>1, AuthInitial, AuthInductive, PTL DEF AuthSpec

-----------------------------------------------------------------------------
(* MobileFarm: what a reservation holds, and what an execution leaves.     *)

\* A reservation names a device that has been in the map; until that is discovered again or
\* set by hand it is busy for the user, or out of the map.
HeldFor(booking, device) ==
  /\ booking.device \in Devices /\ booking.user \in FarmUsers
  /\ device.status # "unknown"
  /\ \/ booking.reset
     \/ device.status = "gone"
     \/ device.status = "busy" /\ device.by = booking.user

BookingsInv ==
  \A b \in Bookings : Booked(b) =>
    HeldFor(farmBookings[b], farmDevices[farmBookings[b].device])

\* Where an execution is, its session and the results it has so far.
FarmExecKnown(exec, faults) ==
  /\ exec.session =>
       \/ exec.pc \in {"testing", "closing"}
       \/ exec.pc = "dead" /\ faults > 0
  /\ Len(exec.results) <= Len(exec.list)
  /\ exec.pc \in {"opening", "testing", "closing"} => Len(exec.results) < Len(exec.list)
  /\ exec.pc \in {"new", "fetching"} => exec.results = <<>>
  /\ exec.pc = "done" =>
       /\ Len(exec.results) = Len(exec.list)
       /\ \/ exec.status = "cancelled"
          \/ exec.status = "failed" /\ \E i \in DOMAIN exec.results : exec.results[i] = "failed"
          \/ /\ exec.status = "completed"
             /\ \A i \in DOMAIN exec.results : exec.results[i] # "failed"

FarmInv ==
  /\ FarmTypeOK /\ farmAsked <= farmRefreshes + 1
  /\ BookingsInv /\ OneHolder
  /\ \A e \in FarmExecs : FarmExecKnown(farmExecs[e], farmFaults)

ListsOf(S) == UNION {[1..n -> S] : n \in 0..MaxDevices}

\* A list is a sequence of at most MaxDevices elements, and one that is not full can grow.
LEMMA ListIsSeq ==
  ASSUME NEW S, NEW s \in ListsOf(S)
  PROVE  s \in Seq(S) /\ Len(s) \in 0..MaxDevices /\ DOMAIN s = 1..Len(s)
<1>1. PICK n \in 0..MaxDevices : s \in [1..n -> S]
  BY DEF ListsOf
<1>2. n \in Nat
  BY <1>1, FarmAssumption
<1>3. s \in Seq(S) /\ Len(s) = n
  BY <1>1, <1>2
<1> QED BY <1>1, <1>3

LEMMA ListGrows ==
  ASSUME NEW S, NEW s \in ListsOf(S), NEW x \in S, Len(s) < MaxDevices
  PROVE  Append(s, x) \in ListsOf(S) /\ Len(Append(s, x)) = Len(s) + 1
<1>1. s \in Seq(S) /\ Len(s) \in Nat /\ MaxDevices \in Nat
  BY ListIsSeq, FarmAssumption
<1>2. Append(s, x) \in Seq(S) /\ Len(Append(s, x)) = Len(s) + 1
  BY <1>1
<1>3. Append(s, x) \in [1..Len(Append(s, x)) -> S]
  BY <1>2, LenProperties
<1>4. Len(s) + 1 \in 0..MaxDevices
  BY <1>1
<1> QED BY <1>2, <1>3, <1>4 DEF ListsOf

Results == {"passed", "failed", "skipped"}

LEMMA FarmTypes ==
  ASSUME FarmInv
  PROVE  /\ farmDevices \in [Devices -> Device] /\ farmBookings \in [Bookings -> Booking]
         /\ farmExecs \in [FarmExecs -> FarmExec] /\ farmSets \in Nat /\ farmFaults \in Nat
         /\ farmSets \in 0..MaxFarmSets /\ farmFaults \in 0..MaxFarmFaults
         /\ farmRefreshes \in 0..MaxRefreshes /\ farmAsked \in 0..(MaxRefreshes + 1)
         /\ MaxDevices \in Nat /\ MaxFarmSets \in Nat /\ MaxFarmFaults \in Nat
         /\ MaxRefreshes \in Nat /\ farmAsked <= farmRefreshes + 1
BY FarmAssumption DEF FarmInv, FarmTypeOK

LEMMA FarmExecTypes ==
  ASSUME FarmInv, NEW e \in FarmExecs
  PROVE  /\ farmExecs[e] \in FarmExec /\ FarmExecKnown(farmExecs[e], farmFaults)
         /\ farmExecs[e].list \in ListsOf(Devices) /\ farmExecs[e].results \in ListsOf(Results)
         /\ Len(farmExecs[e].list) \in Nat /\ Len(farmExecs[e].list) <= MaxDevices
         /\ Len(farmExecs[e].results) \in Nat
<1>1. farmExecs[e] \in FarmExec /\ FarmExecKnown(farmExecs[e], farmFaults)
  BY DEF FarmInv, FarmTypeOK
<1>2. farmExecs[e].list \in ListsOf(Devices) /\ farmExecs[e].results \in ListsOf(Results)
  BY <1>1 DEF FarmExec, DeviceLists, ListsOf, Results
<1>3. Len(farmExecs[e].list) \in 0..MaxDevices /\ Len(farmExecs[e].results) \in 0..MaxDevices
  BY <1>2, ListIsSeq
<1> QED BY <1>1, <1>2, <1>3, FarmAssumption

\* No call of DeviceManagementService but a reservation makes one: the others leave it, mark
\* it as reset or take it away, so that there are no two held of one device where there were
\* none.
LEMMA NoneReserved ==
  ASSUME FarmInv,
         \A b \in Bookings :
           \/ farmBookings'[b] \in {farmBookings[b], NoBooking}
           \/ farmBookings'[b].reset
  PROVE  OneHolder'
<1> SUFFICES ASSUME NEW a \in Bookings, NEW b \in Bookings, a # b, Held(a)', Held(b)'
             PROVE  farmBookings'[a].device # farmBookings'[b].device
  BY DEF OneHolder
<1>1. farmBookings'[a] = farmBookings[a] /\ farmBookings'[b] = farmBookings[b]
  BY DEF Held, Booked
<1>2. Held(a) /\ Held(b)
  BY <1>1 DEF Held, Booked
<1> QED BY <1>1, <1>2 DEF FarmInv, OneHolder

\* A reservation's device in the state it is given by a step.
LEMMA KeptFor ==
  ASSUME NEW booking, NEW device, NEW booking2, NEW device2,
         HeldFor(booking, device),
         booking2.device = booking.device, booking2.user = booking.user,
         booking.reset => booking2.reset,
         device2.status # "unknown",
         \/ booking2.reset
         \/ device2.status = "gone"
         \/ device2.status = device.status /\ device2.by = device.by
  PROVE  HeldFor(booking2, device2)
BY DEF HeldFor

\* The reservations of S are marked, all others stay.
LEMMA ResetMarks ==
  ASSUME FarmInv, NEW S \in SUBSET Devices, farmBookings' = Reset(S)
  PROVE  /\ farmBookings' \in [Bookings -> Booking]
         /\ \A b \in Bookings :
              /\ farmBookings'[b].device = farmBookings[b].device
              /\ farmBookings'[b].user = farmBookings[b].user
              /\ farmBookings[b].reset => farmBookings'[b].reset
              /\ farmBookings[b].device \in S => farmBookings'[b].reset
              /\ farmBookings'[b] = farmBookings[b] \/ farmBookings'[b].reset
              /\ Booked(b)' => Booked(b)
<1>1. farmBookings \in [Bookings -> Booking]
  BY FarmTypes
<1>2. ASSUME NEW b \in Bookings
      PROVE  /\ farmBookings'[b] \in Booking
             /\ \/ farmBookings[b].device \notin S /\ farmBookings'[b] = farmBookings[b]
                \/ /\ farmBookings[b].device \in S
                   /\ farmBookings'[b] = [farmBookings[b] EXCEPT !.reset = TRUE]
             /\ farmBookings[b] \in Booking
  <2>1. farmBookings[b] \in Booking
    BY <1>1
  <2>2. [farmBookings[b] EXCEPT !.reset = TRUE] \in Booking
    BY <2>1 DEF Booking
  <2> QED BY <2>1, <2>2 DEF Reset
<1>3. farmBookings' \in [Bookings -> Booking]
  BY <1>2 DEF Reset
<1>4. ASSUME NEW b \in Bookings
      PROVE  /\ farmBookings'[b].device = farmBookings[b].device
             /\ farmBookings'[b].user = farmBookings[b].user
             /\ farmBookings[b].reset => farmBookings'[b].reset
             /\ farmBookings[b].device \in S => farmBookings'[b].reset
             /\ farmBookings'[b] = farmBookings[b] \/ farmBookings'[b].reset
  BY <1>2 DEF Booking
<1>5. ASSUME NEW b \in Bookings, Booked(b)' PROVE Booked(b)
  <2>1. CASE farmBookings[b].device \in S
    <3>1. farmBookings[b].device # Nobody
      BY <2>1, FarmAssumption
    <3> QED BY <3>1 DEF Booked, NoBooking
  <2>2. CASE farmBookings[b].device \notin S
    BY <1>2, <1>5, <2>2 DEF Booked
  <2> QED BY <2>1, <2>2
<1> QED BY <1>3, <1>4, <1>5

\* DeviceManagementService: each operation leaves a reserved device as it is, takes it out
\* of the map, marks its reservations or takes them with it.
FarmKept ==
  /\ farmDevices' \in [Devices -> Device] /\ farmBookings' \in [Bookings -> Booking]
  /\ BookingsInv' /\ OneHolder'

LEMMA MapKeeps ==
  ASSUME FarmInv,
         \/ RefreshDevices
         \/ \E d \in Devices : RegisterDevice(d) \/ UnregisterDevice(d)
  PROVE  FarmKept
<1>1. farmBookings' = farmBookings /\ farmDevices \in [Devices -> Device]
  BY FarmTypes DEF RefreshDevices, RegisterDevice, UnregisterDevice
<1>2. \A x \in Devices : /\ Without(farmDevices[x]) \in Device
                         /\ Without(farmDevices[x]).status = "gone"
  BY <1>1 DEF Without, Device, Holders
<1>3. Free("register") \in Device /\ Free("register").status # "unknown"
  BY DEF Free, Device, Holders, DeviceStatus
<1>4. farmDevices' \in [Devices -> Device]
  BY <1>1, <1>2, <1>3 DEF RefreshDevices, RegisterDevice, UnregisterDevice
<1>5. \A x \in Devices :
        \/ farmDevices'[x] = farmDevices[x]
        \/ farmDevices'[x].status = "gone"
        \/ farmDevices[x] = NoDevice
  BY <1>1, <1>2 DEF RefreshDevices, RegisterDevice, UnregisterDevice
<1>6. ASSUME NEW b \in Bookings, Booked(b)'
      PROVE  HeldFor(farmBookings'[b], farmDevices'[farmBookings'[b].device])
  <2>1. HeldFor(farmBookings[b], farmDevices[farmBookings[b].device])
    BY <1>1, <1>6 DEF FarmInv, BookingsInv, Booked
  <2>2. farmBookings[b].device \in Devices /\ farmDevices[farmBookings[b].device] # NoDevice
    BY <2>1 DEF HeldFor, NoDevice
  <2> QED BY <1>1, <1>5, <2>1, <2>2 DEF HeldFor
<1>7. OneHolder'
  BY <1>1, NoneReserved
<1> QED BY <1>1, <1>4, <1>6, <1>7, FarmTypes DEF FarmKept, BookingsInv

\* A device that is discovered, or set by hand, has its reservations marked.
LEMMA ResetKeeps ==
  ASSUME FarmInv, NEW S \in SUBSET Devices, farmBookings' = Reset(S),
         farmDevices' \in [Devices -> Device],
         \A x \in Devices : x \notin S => farmDevices'[x] = farmDevices[x],
         \A x \in S : farmDevices'[x].status # "unknown"
  PROVE  FarmKept
<1>1. ASSUME NEW b \in Bookings, Booked(b)'
      PROVE  HeldFor(farmBookings'[b], farmDevices'[farmBookings'[b].device])
  <2>1. HeldFor(farmBookings[b], farmDevices[farmBookings[b].device])
    BY <1>1, ResetMarks DEF FarmInv, BookingsInv
  <2>2. farmBookings[b].device \in Devices
    BY <2>1 DEF HeldFor
  <2>3. /\ farmBookings'[b].device = farmBookings[b].device
        /\ farmBookings'[b].user = farmBookings[b].user
        /\ farmBookings[b].reset => farmBookings'[b].reset
        /\ farmBookings[b].device \in S => farmBookings'[b].reset
    BY ResetMarks
  <2>4. CASE farmBookings[b].device \in S
    BY <2>1, <2>3, <2>4 DEF HeldFor
  <2>5. CASE farmBookings[b].device \notin S
    BY <2>1, <2>2, <2>3, <2>5 DEF HeldFor
  <2> QED BY <2>4, <2>5
<1>2. OneHolder'
  BY ResetMarks, NoneReserved
<1> QED BY <1>1, <1>2, ResetMarks DEF FarmKept, BookingsInv

LEMMA SetsKeep ==
  ASSUME FarmInv,
         \/ \E S \in SUBSET Devices : DiscoverDevices(S)
         \/ \E d \in Devices, s \in DeviceStatus, u \in Holders : SetByHand(d, s, u)
  PROVE  FarmKept
<1>0. farmDevices \in [Devices -> Device]
  BY FarmTypes
<1>1. ASSUME NEW S \in SUBSET Devices, DiscoverDevices(S)
      PROVE  FarmKept
  <2>1. Free("appium") \in Device /\ Free("appium").status # "unknown"
    BY DEF Free, Device, Holders, DeviceStatus
  <2>2. /\ farmDevices' = [x \in Devices |-> IF x \in S THEN Free("appium") ELSE farmDevices[x]]
        /\ farmBookings' = Reset(S)
    BY <1>1 DEF DiscoverDevices
  <2> QED BY <1>0, <2>1, <2>2, ResetKeeps
<1>2. ASSUME NEW d \in Devices, NEW s \in DeviceStatus, NEW u \in Holders, SetByHand(d, s, u)
      PROVE  FarmKept
  <2>1. /\ farmDevices' = [farmDevices EXCEPT ![d] =
             [farmDevices[d] EXCEPT !.status = s, !.by = u]]
        /\ farmBookings' = Reset({d})
    BY <1>2 DEF SetByHand
  <2>2. /\ [farmDevices[d] EXCEPT !.status = s, !.by = u] \in Device
        /\ [farmDevices[d] EXCEPT !.status = s, !.by = u].status # "unknown"
    BY <1>0 DEF Device, DeviceStatus
  <2>3. /\ farmDevices' \in [Devices -> Device] /\ farmDevices'[d].status # "unknown"
        /\ \A x \in Devices : x \notin {d} => farmDevices'[x] = farmDevices[x]
    BY <1>0, <2>1, <2>2
  <2> QED BY <2>1, <2>3, ResetKeeps
<1> QED BY <1>1, <1>2

\* A released device takes its reservations with it.
LEMMA ReleaseKeeps ==
  ASSUME FarmInv, NEW d \in Devices, ReleaseDevice(d)
  PROVE  FarmKept
<1>0. farmDevices \in [Devices -> Device] /\ farmBookings \in [Bookings -> Booking]
  BY FarmTypes
<1>1. /\ farmDevices' = [farmDevices EXCEPT ![d] = Free(farmDevices[d].from)]
      /\ farmBookings' = [b \in Bookings |->
           IF farmBookings[b].device = d THEN NoBooking ELSE farmBookings[b]]
  BY DEF ReleaseDevice
<1>2. Free(farmDevices[d].from) \in Device
  BY <1>0 DEF Free, Device, Holders, DeviceStatus
<1>3. NoBooking \in Booking
  BY DEF NoBooking, Booking, Holders
<1>4. farmDevices' \in [Devices -> Device] /\ farmBookings' \in [Bookings -> Booking]
  BY <1>0, <1>1, <1>2, <1>3
<1>5. ASSUME NEW b \in Bookings, Booked(b)'
      PROVE  HeldFor(farmBookings'[b], farmDevices'[farmBookings'[b].device])
  <2>1. farmBookings[b].device # d /\ farmBookings'[b] = farmBookings[b] /\ Booked(b)
    BY <1>1, <1>5 DEF Booked
  <2>2. HeldFor(farmBookings[b], farmDevices[farmBookings[b].device])
    BY <2>1 DEF FarmInv, BookingsInv
  <2>3. farmDevices'[farmBookings[b].device] = farmDevices[farmBookings[b].device]
    BY <1>0, <1>1, <2>1, <2>2 DEF HeldFor
  <2> QED BY <2>1, <2>2, <2>3
<1>6. OneHolder'
  <2>1. \A b \in Bookings : farmBookings'[b] \in {farmBookings[b], NoBooking}
    BY <1>1
  <2> QED BY <2>1, NoneReserved
<1> QED BY <1>4, <1>5, <1>6 DEF FarmKept, BookingsInv

\* A device that is available has no reservation that is held.
LEMMA ReserveKeeps ==
  ASSUME FarmInv, NEW d \in Devices, NEW u \in FarmUsers, NEW k \in Bookings,
         ReserveDevice(d, u, k)
  PROVE  FarmKept
<1> DEFINE booking == [device |-> d, user |-> u, reset |-> FALSE]
           device == [farmDevices[d] EXCEPT !.status = "busy", !.by = u]
<1>0. farmDevices \in [Devices -> Device] /\ farmBookings \in [Bookings -> Booking]
  BY FarmTypes
<1>1. /\ farmDevices' = [farmDevices EXCEPT ![d] = device]
      /\ farmBookings' = [farmBookings EXCEPT ![k] = booking]
      /\ farmDevices[d].status = "available"
  BY DEF ReserveDevice
<1>2. /\ device \in Device /\ device.status = "busy" /\ device.by = u
      /\ booking \in Booking /\ booking.device = d /\ booking.user = u /\ ~booking.reset
  BY <1>0 DEF Device, DeviceStatus, Booking, Holders
<1> HIDE DEF booking, device
<1>3. /\ farmDevices' \in [Devices -> Device] /\ farmBookings' \in [Bookings -> Booking]
      /\ farmBookings'[k] = booking /\ farmDevices'[d] = device
      /\ \A b \in Bookings \ {k} : farmBookings'[b] = farmBookings[b]
      /\ \A x \in Devices \ {d} : farmDevices'[x] = farmDevices[x]
  BY <1>0, <1>1, <1>2
<1>4. ASSUME NEW b \in Bookings, Booked(b)
      PROVE  /\ HeldFor(farmBookings[b], farmDevices[farmBookings[b].device])
             /\ farmBookings[b].device = d => farmBookings[b].reset
  BY <1>1, <1>4 DEF FarmInv, BookingsInv, HeldFor
<1>5. ASSUME NEW b \in Bookings, Booked(b)'
      PROVE  HeldFor(farmBookings'[b], farmDevices'[farmBookings'[b].device])
  <2>1. CASE b = k
    BY <1>2, <1>3, <2>1 DEF HeldFor
  <2>2. CASE b # k
    <3>1. farmBookings'[b] = farmBookings[b] /\ Booked(b)
      BY <1>3, <1>5, <2>2 DEF Booked
    <3>2. CASE farmBookings[b].device = d
      BY <1>2, <1>3, <1>4, <3>1, <3>2 DEF HeldFor
    <3>3. CASE farmBookings[b].device # d
      <4>1. farmBookings[b].device \in Devices \ {d}
        BY <1>4, <3>1, <3>3 DEF HeldFor
      <4> QED BY <1>3, <1>4, <3>1, <4>1
    <3> QED BY <3>2, <3>3
  <2> QED BY <2>1, <2>2
<1>6. OneHolder'
  <2>1. ASSUME NEW b \in Bookings \ {k}, Held(b)'
        PROVE  farmBookings'[b] = farmBookings[b] /\ Held(b) /\ farmBookings'[b].device # d
    BY <1>3, <1>4, <2>1 DEF Held, Booked
  <2>2. farmBookings'[k].device = d
    BY <1>2, <1>3
  <2> SUFFICES ASSUME NEW a \in Bookings, NEW b \in Bookings, a # b, Held(a)', Held(b)'
               PROVE  farmBookings'[a].device # farmBookings'[b].device
    BY DEF OneHolder
  <2>3. CASE a # k /\ b # k
    BY <2>1, <2>3 DEF FarmInv, OneHolder
  <2>4. CASE a = k
    BY <2>1, <2>2, <2>4
  <2>5. CASE b = k
    BY <2>1, <2>2, <2>5
  <2> QED BY <2>3, <2>4, <2>5
<1> QED BY <1>3, <1>5, <1>6 DEF FarmKept, BookingsInv

DeviceStep ==
  \/ \E d \in Devices :
       \/ RegisterDevice(d) \/ UnregisterDevice(d) \/ ReleaseDevice(d)
       \/ \E u \in FarmUsers, b \in Bookings : ReserveDevice(d, u, b)
       \/ \E s \in DeviceStatus :
            \/ UpdateDeviceStatus(d, s)
            \/ \E u \in Holders : UpdateDevice(d, s, u)
  \/ RefreshDevices
  \/ \E S \in SUBSET Devices : DiscoverDevices(S)

LEMMA DevicesChange ==
  ASSUME FarmInv, DeviceStep
  PROVE  FarmInv'
<1>1. FarmKept
  <2>1. CASE RefreshDevices \/ \E d \in Devices : RegisterDevice(d) \/ UnregisterDevice(d)
    BY <2>1, MapKeeps
  <2>2. CASE \E d \in Devices : ReleaseDevice(d)
    BY <2>2, ReleaseKeeps
  <2>3. CASE \E d \in Devices, u \in FarmUsers, b \in Bookings : ReserveDevice(d, u, b)
    BY <2>3, ReserveKeeps
  <2>4. CASE \E S \in SUBSET Devices : DiscoverDevices(S)
    BY <2>4, SetsKeep
  <2>5. CASE \E d \in Devices, s \in DeviceStatus, u \in Holders : UpdateDevice(d, s, u)
    BY <2>5, SetsKeep DEF UpdateDevice
  <2>6. ASSUME NEW d \in Devices, NEW s \in DeviceStatus, UpdateDeviceStatus(d, s)
        PROVE  FarmKept
    <3>1. farmDevices[d].by \in Holders
      BY FarmTypes DEF Device
    <3> QED BY <2>6, <3>1, SetsKeep DEF UpdateDeviceStatus
  <2> QED BY <2>1, <2>2, <2>3, <2>4, <2>5, <2>6 DEF DeviceStep
<1>2. UNCHANGED <<farmExecs, farmFaults>>
  BY DEF DeviceStep, RegisterDevice, UnregisterDevice, ReleaseDevice, ReserveDevice,
     UpdateDeviceStatus, UpdateDevice, SetByHand, RefreshDevices, DiscoverDevices
<1>3. \/ UNCHANGED <<farmAsks, farmSets>>
      \/ RefreshDevices
      \/ \E S \in SUBSET Devices : DiscoverDevices(S)
      \/ \E d \in Devices, s \in DeviceStatus, u \in Holders : SetByHand(d, s, u)
  <2>1. \A d \in Devices : farmDevices[d].by \in Holders
    BY FarmTypes DEF Device
  <2> QED BY <2>1 DEF DeviceStep, RegisterDevice, UnregisterDevice, ReleaseDevice, ReserveDevice,
     UpdateDeviceStatus, UpdateDevice
<1>4. /\ farmRefreshes' \in 0..MaxRefreshes /\ farmSets' \in 0..MaxFarmSets
      /\ farmAsked' \in 0..(MaxRefreshes + 1) /\ farmAsked' <= farmRefreshes' + 1
  <2>1. /\ MaxRefreshes \in Nat /\ MaxFarmSets \in Nat
        /\ farmRefreshes \in Nat /\ farmRefreshes <= MaxRefreshes
        /\ farmAsked \in Nat /\ farmAsked <= farmRefreshes + 1
        /\ farmSets \in Nat /\ farmSets <= MaxFarmSets
    BY FarmTypes
  <2>2. CASE UNCHANGED <<farmAsks, farmSets>>
    BY ONLY <2>1, <2>2 DEF farmAsks
  <2>3. CASE RefreshDevices
    <3>1. /\ farmRefreshes < MaxRefreshes /\ farmRefreshes' = farmRefreshes + 1
          /\ farmAsked' = farmAsked + 1 /\ farmSets' = farmSets
      BY <2>3 DEF RefreshDevices
    <3> QED BY ONLY <2>1, <3>1
  <2>4. CASE \E S \in SUBSET Devices : DiscoverDevices(S)
    <3>1. /\ farmAsked > 0 /\ farmAsked' = farmAsked - 1
          /\ farmRefreshes' = farmRefreshes /\ farmSets' = farmSets
      BY <2>4 DEF DiscoverDevices
    <3> QED BY ONLY <2>1, <3>1
  <2>5. CASE \E d \in Devices, s \in DeviceStatus, u \in Holders : SetByHand(d, s, u)
    <3>1. /\ farmSets < MaxFarmSets /\ farmSets' = farmSets + 1
          /\ farmRefreshes' = farmRefreshes /\ farmAsked' = farmAsked
      BY <2>5 DEF SetByHand, farmAsks
    <3> QED BY ONLY <2>1, <3>1
  <2> QED BY <1>3, <2>2, <2>3, <2>4, <2>5
<1> QED BY <1>1, <1>2, <1>4 DEF FarmKept, FarmInv, FarmTypeOK

\* One execution goes on.
LEMMA OneFarmExec ==
  ASSUME FarmInv, NEW e \in FarmExecs, NEW exec \in FarmExec,
         farmExecs' = [farmExecs EXCEPT ![e] = exec],
         UNCHANGED <<farmDevices, farmBookings, farmAsks, farmSets>>,
         farmFaults' \in 0..MaxFarmFaults, farmFaults <= farmFaults',
         FarmExecKnown(exec, farmFaults')
  PROVE  FarmInv'
<1>1. farmExecs'[e] = exec /\ \A x \in FarmExecs \ {e} : farmExecs'[x] = farmExecs[x]
  BY FarmTypes
<1>2. FarmTypeOK'
  BY FarmTypes DEF FarmTypeOK, farmAsks
<1>3. ASSUME NEW x \in FarmExecs PROVE FarmExecKnown(farmExecs'[x], farmFaults')
  <2>1. CASE x = e
    BY <1>1, <2>1
  <2>2. CASE x # e
    <3>1. farmExecs'[x] = farmExecs[x] /\ FarmExecKnown(farmExecs[x], farmFaults)
      BY <1>1, <2>2 DEF FarmInv
    <3>2. farmFaults > 0 => farmFaults' > 0
      BY FarmTypes
    <3> QED BY <3>1, <3>2 DEF FarmExecKnown
  <2> QED BY <2>1, <2>2
<1>4. BookingsInv' /\ OneHolder'
  BY DEF FarmInv, BookingsInv, OneHolder, Held, Booked
<1> QED BY <1>2, <1>3, <1>4, FarmTypes DEF FarmInv, farmAsks

\* Steps that leave the results as they are.
LEMMA FarmRuns ==
  ASSUME FarmInv, NEW e \in FarmExecs,
         \/ \E list \in DeviceLists : StartFarm(e, list)
         \/ Fetch(e) \/ OpenSession(e) \/ RunSuite(e) \/ FarmThrows(e) \/ CancelFarm(e)
  PROVE  FarmInv'
<1> USE FarmTypes, FarmExecTypes
<1>1. UNCHANGED <<farmDevices, farmBookings, farmAsks, farmSets>>
  BY DEF StartFarm, Fetch, OpenSession, RunSuite, FarmThrows, CancelFarm, FarmSame
<1>0. /\ farmFaults' \in 0..MaxFarmFaults /\ farmFaults <= farmFaults'
      /\ FarmThrows(e) => farmFaults' > 0
  <2>1. PICK f \in Nat, m \in Nat : f = farmFaults /\ m = MaxFarmFaults /\ f <= m
    OBVIOUS
  <2>2. \/ farmFaults' = f /\ ~FarmThrows(e)
        \/ farmFaults' = f + 1 /\ f < m
    BY <2>1 DEF StartFarm, Fetch, OpenSession, RunSuite, FarmThrows, CancelFarm
  <2> QED BY <2>1, <2>2
<1>2. CASE \E list \in DeviceLists : StartFarm(e, list)
  <2>1. PICK list \in DeviceLists : StartFarm(e, list)
    BY <1>2
  <2>2. PICK exec : exec = [farmExecs[e] EXCEPT !.pc = "fetching", !.status = "running",
                                                !.list = list]
    OBVIOUS
  <2>3. /\ exec \in FarmExec /\ exec.pc = "fetching" /\ exec.results = farmExecs[e].results
        /\ exec.list = list /\ exec.session = farmExecs[e].session
    BY <2>2 DEF FarmExec
  <2>4. /\ farmExecs' = [farmExecs EXCEPT ![e] = exec] /\ farmFaults' = farmFaults
        /\ farmExecs[e].pc = "new"
    BY <2>1, <2>2 DEF StartFarm
  <2>5. exec.results = <<>> /\ ~exec.session
    BY <2>3, <2>4 DEF FarmExecKnown, FarmExec
  <2>6. Len(exec.results) = 0 /\ Len(exec.list) \in Nat
    <3>1. list \in ListsOf(Devices)
      BY DEF DeviceLists, ListsOf
    <3>2. Len(list) \in 0..MaxDevices
      BY <3>1, ListIsSeq
    <3> QED BY <2>3, <2>5, <3>2
  <2>7. FarmExecKnown(exec, farmFaults')
    BY <2>3, <2>5, <2>6 DEF FarmExecKnown
  <2> QED BY <1>0, <1>1, <2>3, <2>4, <2>7, OneFarmExec
<1>3. CASE Fetch(e) \/ OpenSession(e) \/ RunSuite(e) \/ FarmThrows(e)
  <2>1. PICK pc \in {"next", "testing", "closing", "dead"},
             open \in BOOLEAN, failing \in BOOLEAN :
          /\ farmExecs' = [farmExecs EXCEPT ![e] =
               [farmExecs[e] EXCEPT !.pc = pc, !.session = open, !.failing = failing]]
          /\ \/ pc = "next" /\ Fetch(e) /\ open = farmExecs[e].session
             \/ pc = "testing" /\ OpenSession(e) /\ open
             \/ pc = "closing" /\ RunSuite(e) /\ open = farmExecs[e].session
             \/ pc = "dead" /\ FarmThrows(e) /\ open = farmExecs[e].session
    <3>1. CASE Fetch(e)
      <4>1. farmExecs' = [farmExecs EXCEPT ![e].pc = "next"]
        BY <3>1 DEF Fetch, FarmGoto
      <4>2. [farmExecs[e] EXCEPT !.pc = "next"] = [farmExecs[e] EXCEPT !.pc = "next",
               !.session = farmExecs[e].session, !.failing = farmExecs[e].failing]
        BY DEF FarmExec
      <4> QED BY <3>1, <4>1, <4>2 DEF FarmExec
    <3>2. CASE OpenSession(e)
      <4>1. farmExecs' = [farmExecs EXCEPT ![e] =
              [farmExecs[e] EXCEPT !.pc = "testing", !.session = TRUE]]
        BY <3>2 DEF OpenSession
      <4>2. [farmExecs[e] EXCEPT !.pc = "testing", !.session = TRUE] =
              [farmExecs[e] EXCEPT !.pc = "testing", !.session = TRUE,
                                   !.failing = farmExecs[e].failing]
        BY DEF FarmExec
      <4> QED BY <3>2, <4>1, <4>2 DEF FarmExec
    <3>3. CASE RunSuite(e)
      <4>1. PICK f \in BOOLEAN : farmExecs' = [farmExecs EXCEPT ![e] =
              [farmExecs[e] EXCEPT !.pc = "closing", !.failing = f]]
        BY <3>3 DEF RunSuite
      <4>2. [farmExecs[e] EXCEPT !.pc = "closing", !.failing = f] =
              [farmExecs[e] EXCEPT !.pc = "closing", !.session = farmExecs[e].session,
                                   !.failing = f]
        BY DEF FarmExec
      <4> QED BY <3>3, <4>1, <4>2 DEF FarmExec
    <3>4. CASE FarmThrows(e)
      <4>1. farmExecs' = [farmExecs EXCEPT ![e].pc = "dead"]
        BY <3>4 DEF FarmThrows, FarmGoto
      <4>2. [farmExecs[e] EXCEPT !.pc = "dead"] = [farmExecs[e] EXCEPT !.pc = "dead",
               !.session = farmExecs[e].session, !.failing = farmExecs[e].failing]
        BY DEF FarmExec
      <4> QED BY <3>4, <4>1, <4>2 DEF FarmExec
    <3> QED BY <1>3, <3>1, <3>2, <3>3, <3>4
  <2>2. PICK exec :
          exec = [farmExecs[e] EXCEPT !.pc = pc, !.session = open, !.failing = failing]
    OBVIOUS
  <2>3. /\ exec \in FarmExec /\ exec.pc = pc /\ exec.results = farmExecs[e].results
        /\ exec.list = farmExecs[e].list /\ exec.session = open
    BY <2>2 DEF FarmExec
  <2>4. pc = "dead" => farmFaults' > 0
    BY <1>0, <2>1
  <2>5. /\ pc = "next" => farmExecs[e].pc = "fetching"
        /\ pc = "testing" => farmExecs[e].pc = "opening"
        /\ pc = "closing" => farmExecs[e].pc = "testing"
    BY <2>1 DEF Fetch, OpenSession, RunSuite, FarmThrows
  <2>6. pc = "next" => ~open
    BY <2>1, <2>5 DEF FarmExecKnown
  <2>7. FarmExecKnown(exec, farmFaults')
    BY <2>3, <2>4, <2>5, <2>6 DEF FarmExecKnown
  <2>8. farmExecs' = [farmExecs EXCEPT ![e] = exec]
    BY <2>1, <2>2
  <2> QED BY <1>0, <1>1, <2>3, <2>7, <2>8, OneFarmExec
<1>4. CASE CancelFarm(e)
  <2>1. PICK exec : exec = [farmExecs[e] EXCEPT !.status = "cancelled"]
    OBVIOUS
  <2>2. /\ exec \in FarmExec /\ exec.pc = farmExecs[e].pc /\ exec.status = "cancelled"
        /\ exec.results = farmExecs[e].results /\ exec.list = farmExecs[e].list
        /\ exec.session = farmExecs[e].session
    BY <2>1 DEF FarmExec
  <2>3. farmExecs' = [farmExecs EXCEPT ![e] = exec] /\ farmFaults' = farmFaults
    BY <1>4, <2>1 DEF CancelFarm
  <2>4. FarmExecKnown(exec, farmFaults')
    BY <2>2, <2>3 DEF FarmExecKnown
  <2> QED BY <1>0, <1>1, <2>2, <2>3, <2>4, OneFarmExec
<1> QED BY <1>2, <1>3, <1>4

\* Steps that add a result, or judge by them.
LEMMA FarmResults ==
  ASSUME FarmInv, NEW e \in FarmExecs, NextDevice(e) \/ CloseSession(e) \/ FinishFarm(e)
  PROVE  FarmInv'
<1> USE FarmTypes, FarmExecTypes
<1>1. UNCHANGED <<farmDevices, farmBookings, farmAsks, farmSets, farmFaults>>
  BY DEF NextDevice, CloseSession, FinishFarm, FarmSame
<1>0. farmFaults' \in 0..MaxFarmFaults /\ farmFaults <= farmFaults'
  BY <1>1
<1>2. CASE NextDevice(e) /\ Present(Turn(e))
  <2>1. PICK exec : exec = [farmExecs[e] EXCEPT !.pc = "opening"]
    OBVIOUS
  <2>2. /\ exec \in FarmExec /\ exec.pc = "opening" /\ exec.results = farmExecs[e].results
        /\ exec.list = farmExecs[e].list /\ exec.session = farmExecs[e].session
    BY <2>1 DEF FarmExec
  <2>3. farmExecs' = [farmExecs EXCEPT ![e] = exec] /\ farmExecs[e].pc = "next" /\ More(e)
    BY <1>2, <2>1 DEF NextDevice
  <2>4. FarmExecKnown(exec, farmFaults')
    BY <2>2, <2>3 DEF FarmExecKnown, More
  <2> QED BY <1>0, <1>1, <2>2, <2>3, <2>4, OneFarmExec
<1>3. CASE CloseSession(e) \/ (NextDevice(e) /\ ~Present(Turn(e)))
  <2>1. PICK r \in Results :
          farmExecs' = [farmExecs EXCEPT ![e] =
            IF CloseSession(e)
            THEN [farmExecs[e] EXCEPT !.pc = "next", !.session = FALSE, !.results = Enter(e, r)]
            ELSE [farmExecs[e] EXCEPT !.results = Enter(e, r)]]
    <3>1. CASE CloseSession(e)
      <4>1. PICK r \in Results : r = IF farmExecs[e].failing THEN "failed" ELSE "passed"
        BY DEF Results
      <4> QED BY <3>1, <4>1 DEF CloseSession
    <3>2. CASE ~CloseSession(e)
      BY <1>3, <3>2 DEF NextDevice, Results
    <3> QED BY <3>1, <3>2
  <2>2. PICK exec : exec = IF CloseSession(e)
            THEN [farmExecs[e] EXCEPT !.pc = "next", !.session = FALSE, !.results = Enter(e, r)]
            ELSE [farmExecs[e] EXCEPT !.results = Enter(e, r)]
    OBVIOUS
  <2>3. /\ Len(farmExecs[e].results) < Len(farmExecs[e].list)
        /\ farmExecs[e].pc = IF CloseSession(e) THEN "closing" ELSE "next"
    BY <1>3 DEF CloseSession, NextDevice, More, FarmExecKnown
  <2>4. Enter(e, r) \in ListsOf(Results) /\ Len(Enter(e, r)) = Len(farmExecs[e].results) + 1
    <3>1. Len(farmExecs[e].results) < MaxDevices
      BY <2>3
    <3> QED BY <3>1, ListGrows DEF Enter
  <2>5. /\ exec \in FarmExec /\ exec.pc = "next" /\ exec.results = Enter(e, r)
        /\ exec.list = farmExecs[e].list
        /\ exec.session => farmExecs[e].session /\ ~CloseSession(e)
    <3>1. CASE CloseSession(e)
      BY <2>2, <2>4, <3>1 DEF FarmExec, ListsOf, Results
    <3>2. CASE ~CloseSession(e)
      BY <2>2, <2>3, <2>4, <3>2 DEF FarmExec, ListsOf, Results
    <3> QED BY <3>1, <3>2
  <2>6. ~exec.session
    BY <2>3, <2>5 DEF FarmExecKnown
  <2>7. Len(exec.results) <= Len(exec.list)
    BY <2>3, <2>4, <2>5
  <2>8. FarmExecKnown(exec, farmFaults')
    BY <2>5, <2>6, <2>7 DEF FarmExecKnown
  <2> QED BY <1>0, <1>1, <2>1, <2>2, <2>5, <2>8, OneFarmExec
<1>4. CASE FinishFarm(e)
  <2>1. PICK s \in {"failed", "completed"} :
          /\ s = IF "failed" \in Outcomes(e) THEN "failed" ELSE "completed"
          /\ farmExecs' = [farmExecs EXCEPT ![e] =
               [farmExecs[e] EXCEPT !.pc = "done", !.status = s]]
    BY <1>4 DEF FinishFarm
  <2>2. PICK exec : exec = [farmExecs[e] EXCEPT !.pc = "done", !.status = s]
    OBVIOUS
  <2>3. /\ exec \in FarmExec /\ exec.pc = "done" /\ exec.results = farmExecs[e].results
        /\ exec.list = farmExecs[e].list /\ exec.session = farmExecs[e].session
        /\ exec.status = s
    BY <2>2 DEF FarmExec
  <2>4. farmExecs[e].pc = "next" /\ Len(farmExecs[e].results) = Len(farmExecs[e].list)
    BY <1>4 DEF FinishFarm, More, FarmExecKnown
  <2>5. \/ s = "failed" /\ \E i \in DOMAIN exec.results : exec.results[i] = "failed"
        \/ s = "completed" /\ \A i \in DOMAIN exec.results : exec.results[i] # "failed"
    BY <2>1, <2>3 DEF Outcomes
  <2>6. FarmExecKnown(exec, farmFaults')
    BY <2>3, <2>4, <2>5 DEF FarmExecKnown
  <2> QED BY <1>0, <1>1, <2>1, <2>2, <2>3, <2>6, OneFarmExec
<1> QED BY <1>2, <1>3, <1>4

LEMMA FarmInductive == FarmInv /\ [FarmNext]_farmVars => FarmInv'
<1> SUFFICES ASSUME FarmInv, [FarmNext]_farmVars PROVE FarmInv'
  OBVIOUS
<1>1. CASE FarmNext
  BY <1>1, DevicesChange, FarmRuns, FarmResults DEF FarmNext, FarmStep, DeviceStep
<1>2. CASE UNCHANGED farmVars
  BY <1>2 DEF farmVars, farmAsks, FarmInv, FarmTypeOK, BookingsInv, OneHolder, Held, Booked
<1> QED BY <1>1, <1>2

LEMMA FarmInitial == FarmInit => FarmInv
<1> SUFFICES ASSUME FarmInit PROVE FarmInv
  OBVIOUS
<1>1. <<>> \in ListsOf(Devices) /\ <<>> \in ListsOf(Results) /\ Len(<<>>) = 0
  <2>1. 0 \in 0..MaxDevices /\ \A S : <<>> \in [1..0 -> S]
    BY FarmAssumption
  <2> QED BY <2>1 DEF ListsOf
<1>2. NoFarmExec \in FarmExec
  BY <1>1 DEF NoFarmExec, FarmExec, DeviceLists, ListsOf, Results
<1>3. FarmTypeOK /\ farmAsked <= farmRefreshes + 1
  BY <1>2, FarmAssumption
     DEF FarmInit, FarmTypeOK, NoDevice, Device, NoBooking, Booking, Holders
<1>4. BookingsInv /\ OneHolder
  BY DEF FarmInit, BookingsInv, OneHolder, Held, Booked
<1>5. ASSUME NEW e \in FarmExecs PROVE FarmExecKnown(farmExecs[e], farmFaults)
  BY <1>1 DEF FarmInit, NoFarmExec, FarmExecKnown
<1> QED BY <1>3, <1>4, <1>5 DEF FarmInv

\* What the invariant says of reservations and executions.
LEMMA FarmKnown == FarmInv => FarmTypeOK /\ ReservationsHold /\ FarmRunsSound
<1> SUFFICES ASSUME FarmInv PROVE ReservationsHold /\ FarmRunsSound
  BY DEF FarmInv
<1>1. BookingsAreHeld
  BY DEF FarmInv, BookingsInv, BookingsAreHeld, HeldFor, Held
<1>2. SessionsAreClosed
  BY DEF FarmInv, FarmExecKnown, SessionsAreClosed
<1>3. VerdictOfAll
  <2> SUFFICES ASSUME NEW e \in FarmExecs, farmExecs[e].pc = "done",
                      farmExecs[e].status # "cancelled"
               PROVE  /\ Len(farmExecs[e].results) = Len(farmExecs[e].list)
                      /\ farmExecs[e].status = "failed" <=> "failed" \in Outcomes(e)
    BY DEF VerdictOfAll
  <2> QED BY FarmExecTypes DEF FarmExecKnown, Outcomes
<1>4. OneHolder
  BY DEF FarmInv
<1> QED BY <1>1, <1>2, <1>3, <1>4 DEF ReservationsHold, FarmRunsSound

-----------------------------------------------------------------------------
(* FileImport: the import's row, its errors, its mappings and its tests.   *)

RowKinds == {"process", "ai"}
FieldKinds == {"parse", "save"}
MaxAt == IF MaxRows > MaxFields THEN MaxRows ELSE MaxFields

\* What a call has done agrees with where it is.
ImportCallKnown(call) ==
  /\ call.pc = "new" <=> call.kind = "none"
  /\ call.pc \in {"new", "found"} => call.at = 0 /\ call.ok = 0 /\ call.bad = 0
  /\ call.pc = "found" => call.kind # "save"
  /\ call.pc = "rows" => call.kind \in {"parse", "process", "ai"}
  /\ call.pc = "rows" /\ call.kind = "parse" => call.at = 0
  /\ call.pc = "version" => call.kind = "ai" /\ call.at < MaxRows
  /\ call.pc = "mappings" => call.kind \in FieldKinds /\ call.at <= MaxFields
  /\ call.kind \in RowKinds => call.ok + call.bad = call.at /\ call.at <= MaxRows
  /\ call.kind \notin RowKinds => call.bad = 0

ImportCallsInv == ImportTypeOK /\ \A c \in ImportCalls : ImportCallKnown(impCalls[c])

\* Somebody is going to write the end of an import that is being processed.
WorkedOn ==
  impFaults = 0 /\ impRow.status = "PROCESSING" =>
    \E c \in ImportCalls : impCalls[c].pc \in {"rows", "version"}

ErrorsOf(c) == {e \in impErrors : e[1] = c}
Processors == {c \in ImportCalls : impCalls[c].kind \in RowKinds}

\* The errors of a call are as many as it counts, and the row's are those of one call.
ErrorsInv ==
  /\ IsFiniteSet(impErrors) /\ impRow.errors <= Cardinality(impErrors)
  /\ impRow.status = "COMPLETED" => impRow.errors = 0
  /\ \A e \in impErrors : e[1] \in Processors /\ e[2] <= impCalls[e[1]].at
  /\ Kept => \A c \in ImportCalls : Cardinality(ErrorsOf(c)) = impCalls[c].bad
  /\ Kept /\ Processors = {} => impRow.errors = 0
  /\ \A c \in ImportCalls : Kept /\ Processors = {c} =>
       impRow.errors = IF impCalls[c].pc = "done" THEN impCalls[c].bad ELSE 0

\* A call whose mappings so far are all there: after it nobody has removed any.
Anchor(c) ==
  LET call == impCalls[c] IN
  /\ call.kind \in FieldKinds /\ call.pc \in {"found", "rows", "mappings", "done"}
  /\ call.pc \in {"found", "rows"} => call.at = 0
  /\ call.pc = "done" => call.at = MaxFields
  /\ \A f \in 1..call.at : <<c, f>> \in impMappings

MappingsInv ==
  impFaults = 0 /\ Kept /\ (\E c \in ImportCalls : impCalls[c].kind \in FieldKinds) =>
    \E c \in ImportCalls : Anchor(c)

\* A test without a version is the one its call is at.
TestsInv ==
  \A t \in impTests : ~t.version /\ impFaults = 0 =>
    At(t.by, "ai", "version") /\ t.row = Row(t.by)

ImportInv == ImportCallsInv /\ WorkedOn /\ ErrorsInv /\ MappingsInv /\ TestsInv

LEMMA ImportTypes ==
  ASSUME ImportCallsInv
  PROVE  /\ MaxRows \in Nat /\ MaxFields \in Nat /\ MaxImportFaults \in Nat /\ MaxAt \in Nat
         /\ MaxRows <= MaxAt /\ MaxFields <= MaxAt
         /\ impCalls \in [ImportCalls -> ImportCall] /\ impFaults \in 0..MaxImportFaults
         /\ impFaults \in Nat
BY ImportAssumption DEF ImportCallsInv, ImportTypeOK, MaxAt

LEMMA ImportCallTypes ==
  ASSUME ImportCallsInv, NEW c \in ImportCalls
  PROVE  /\ impCalls[c] \in ImportCall /\ impCalls[c].at \in Nat /\ impCalls[c].at <= MaxAt
         /\ impCalls[c].ok \in Nat /\ impCalls[c].bad \in Nat
         /\ impCalls[c].ok <= MaxRows /\ impCalls[c].bad <= MaxRows
         /\ ImportCallKnown(impCalls[c])
<1>1. impCalls[c] \in ImportCall /\ ImportCallKnown(impCalls[c])
  BY DEF ImportCallsInv, ImportTypeOK
<1>2. /\ impCalls[c].at \in 0..MaxAt /\ impCalls[c].ok \in 0..MaxRows
      /\ impCalls[c].bad \in 0..MaxRows
  BY <1>1 DEF ImportCall, MaxAt
<1> QED BY <1>1, <1>2, ImportTypes

-----------------------------------------------------------------------------
\* The steps by what they do to the call: begin it, move it, map a field, pass or refuse a
\* row.
Moves(c) ==
  \/ Begin(c) \/ Parsed(c) \/ EndMappings(c) \/ CreateTest(c) \/ FinishImport(c)
  \/ EmptyPipeline(c) \/ ImportThrows(c) \/ CatchImport(c) \/ Delete(c)
  \/ CreateFails(c) /\ ~Kept
Passes(c)  == ValidRow(c) \/ CreateVersion(c)
Refuses(c) == InvalidRow(c) \/ (CreateFails(c) /\ Kept)

LEMMA ImportSteps ==
  ASSUME NEW c \in ImportCalls,
         (\E kind \in Kinds : Find(c, kind)) \/ ImportStep(c) \/ CreateFails(c)
  PROVE  \/ \E kind \in Kinds : Find(c, kind)
         \/ Moves(c) \/ CreateMapping(c) \/ Passes(c) \/ Refuses(c)
BY DEF ImportStep, Moves, Passes, Refuses

\* A call moves: its kind and counts stay.
LEMMA MoveIs ==
  ASSUME ImportCallsInv, NEW c \in ImportCalls, Moves(c)
  PROVE  \E call \in ImportCall :
           /\ impCalls' = [impCalls EXCEPT ![c] = call]
           /\ call.kind = impCalls[c].kind /\ call.at = impCalls[c].at
           /\ call.ok = impCalls[c].ok /\ call.bad = impCalls[c].bad
           /\ ImportCallKnown(call) /\ impCalls[c].pc # "new"
<1>1. PICK pc \in {"rows", "version", "mappings", "catch", "done", "threw"} :
        /\ impCalls' = [impCalls EXCEPT ![c].pc = pc]
        /\ impCalls[c].pc # "new"
        /\ pc = "rows" => impCalls[c].pc = "found" /\ impCalls[c].kind # "delete"
        /\ pc = "version" => At(c, "ai", "rows") /\ impCalls[c].at < MaxRows
        /\ pc = "mappings" => At(c, "parse", "rows")
  BY DEF Moves, Begin, Parsed, EndMappings, CreateTest, FinishImport, EmptyPipeline,
     ImportThrows, CatchImport, Delete, CreateFails, ImportGoto, At, Processing
<1>2. PICK call : call = [impCalls[c] EXCEPT !.pc = pc]
  OBVIOUS
<1>3. /\ call \in ImportCall /\ call.pc = pc
      /\ call.kind = impCalls[c].kind /\ call.at = impCalls[c].at
      /\ call.ok = impCalls[c].ok /\ call.bad = impCalls[c].bad
  BY <1>2, ImportCallTypes DEF ImportCall
<1>4. impCalls[c].kind # "none"
  BY <1>1, ImportCallTypes DEF ImportCallKnown
<1>5. impCalls[c].kind \in {"parse", "save", "process", "ai", "delete"}
  BY <1>4, ImportCallTypes DEF ImportCall, Kinds
<1>6. ImportCallKnown(call)
  BY <1>1, <1>3, <1>4, <1>5, ImportCallTypes, ImportTypes
     DEF ImportCallKnown, At, FieldKinds
<1>7. impCalls' = [impCalls EXCEPT ![c] = call]
  BY <1>1, <1>2
<1> QED BY <1>1, <1>3, <1>6, <1>7

\* A call has come to the end of a row.
LEMMA RowIs ==
  ASSUME ImportCallsInv, NEW c \in ImportCalls, Passes(c) \/ Refuses(c)
  PROVE  \E call \in ImportCall :
           /\ impCalls' = [impCalls EXCEPT ![c] = call]
           /\ call.kind = impCalls[c].kind /\ call.kind \in RowKinds /\ call.pc = "rows"
           /\ call.at = impCalls[c].at + 1 /\ impCalls[c].at < MaxRows
           /\ call.bad = IF Refuses(c) THEN impCalls[c].bad + 1 ELSE impCalls[c].bad
           /\ ImportCallKnown(call) /\ impCalls[c].pc \in {"rows", "version"}
<1>1. /\ impCalls[c].kind \in RowKinds /\ impCalls[c].at < MaxRows
      /\ impCalls[c].pc \in {"rows", "version"}
  BY ImportCallTypes DEF Passes, Refuses, ValidRow, CreateVersion, InvalidRow, CreateFails, At,
     Processing, RowKinds, ImportCallKnown
<1>2. PICK a \in Nat, o \in Nat, b \in Nat :
        /\ a = impCalls[c].at /\ o = impCalls[c].ok /\ b = impCalls[c].bad
        /\ o + b = a /\ a < MaxRows
  BY <1>1, ImportCallTypes DEF ImportCallKnown
<1>3. MaxRows \in Nat /\ MaxAt \in Nat /\ MaxRows <= MaxAt
  BY ImportTypes
<1>4. a + 1 \in 0..MaxAt /\ o + 1 \in 0..MaxRows /\ b + 1 \in 0..MaxRows /\ a + 1 <= MaxRows
      /\ (o + 1) + b = a + 1 /\ o + (b + 1) = a + 1
  BY <1>2, <1>3
<1>5. CASE Refuses(c)
  <2>1. impCalls' = [impCalls EXCEPT ![c] = Refused(c)]
    BY <1>5 DEF Refuses, InvalidRow, CreateFails
  <2>2. PICK call : call = [impCalls[c] EXCEPT !.pc = "rows", !.at = a + 1, !.bad = b + 1]
    OBVIOUS
  <2>3. /\ call \in ImportCall /\ call.kind = impCalls[c].kind /\ call.pc = "rows"
        /\ call.at = a + 1 /\ call.ok = o /\ call.bad = b + 1
    BY <1>2, <1>4, <2>2, ImportCallTypes DEF ImportCall, MaxAt
  <2>4. ImportCallKnown(call)
    BY <1>1, <1>4, <2>3 DEF ImportCallKnown, RowKinds
  <2>5. impCalls' = [impCalls EXCEPT ![c] = call]
    BY <1>2, <2>1, <2>2 DEF Refused
  <2> QED BY <1>1, <1>2, <1>5, <2>3, <2>4, <2>5
<1>6. CASE ~Refuses(c)
  <2>1. impCalls' = [impCalls EXCEPT ![c] = Passed(c)]
    BY <1>6 DEF Passes, ValidRow, CreateVersion
  <2>2. PICK call : call = [impCalls[c] EXCEPT !.pc = "rows", !.at = a + 1, !.ok = o + 1]
    OBVIOUS
  <2>3. /\ call \in ImportCall /\ call.kind = impCalls[c].kind /\ call.pc = "rows"
        /\ call.at = a + 1 /\ call.ok = o + 1 /\ call.bad = b
    BY <1>2, <1>4, <2>2, ImportCallTypes DEF ImportCall, MaxAt
  <2>4. ImportCallKnown(call)
    BY <1>1, <1>4, <2>3 DEF ImportCallKnown, RowKinds
  <2>5. impCalls' = [impCalls EXCEPT ![c] = call]
    BY <1>2, <2>1, <2>2 DEF Passed
  <2> QED BY <1>1, <1>2, <1>6, <2>3, <2>4, <2>5
<1> QED BY <1>5, <1>6

\* A call begins.
LEMMA FindIs ==
  ASSUME ImportCallsInv, NEW c \in ImportCalls, NEW kind \in Kinds, Find(c, kind)
  PROVE  \E call \in ImportCall :
           /\ impCalls' = [impCalls EXCEPT ![c] = call]
           /\ call.kind = kind /\ call.at = 0 /\ call.bad = 0 /\ impCalls[c].pc = "new"
           /\ call.pc = IF kind = "save" THEN "mappings" ELSE IF Kept THEN "found" ELSE "threw"
           /\ ImportCallKnown(call)
<1>1. PICK pc \in {"mappings", "found", "threw"} :
        /\ pc = IF kind = "save" THEN "mappings" ELSE IF Kept THEN "found" ELSE "threw"
        /\ impCalls' = [impCalls EXCEPT ![c] = [impCalls[c] EXCEPT !.kind = kind, !.pc = pc]]
        /\ impCalls[c].pc = "new"
  BY DEF Find
<1>2. PICK call : call = [impCalls[c] EXCEPT !.kind = kind, !.pc = pc]
  OBVIOUS
<1>3. /\ call \in ImportCall /\ call.pc = pc /\ call.kind = kind /\ call.at = 0
      /\ call.ok = 0 /\ call.bad = 0
  BY <1>1, <1>2, ImportCallTypes DEF ImportCall, ImportCallKnown
<1>4. ImportCallKnown(call)
  BY <1>1, <1>3, ImportTypes DEF ImportCallKnown, Kinds, FieldKinds, RowKinds
<1> QED BY <1>1, <1>2, <1>3, <1>4

\* A call maps a field.
LEMMA MappingIs ==
  ASSUME ImportCallsInv, NEW c \in ImportCalls, CreateMapping(c)
  PROVE  \E call \in ImportCall :
           /\ impCalls' = [impCalls EXCEPT ![c] = call]
           /\ call.kind = impCalls[c].kind /\ call.kind \in FieldKinds
           /\ call.pc = "mappings" /\ impCalls[c].pc = "mappings"
           /\ call.at = impCalls[c].at + 1 /\ call.bad = impCalls[c].bad
           /\ call.at \in 1..MaxFields /\ ImportCallKnown(call)
<1>1. PICK a \in Nat : /\ a = impCalls[c].at /\ a < MaxFields /\ impCalls[c].pc = "mappings"
                       /\ impCalls' = [impCalls EXCEPT ![c].at = a + 1]
  BY ImportCallTypes DEF CreateMapping
<1>2. a + 1 \in 0..MaxAt /\ a + 1 \in 1..MaxFields /\ a + 1 <= MaxFields
  BY <1>1, ImportTypes
<1>3. PICK call : call = [impCalls[c] EXCEPT !.at = a + 1]
  OBVIOUS
<1>4. /\ call \in ImportCall /\ call.pc = "mappings" /\ call.kind = impCalls[c].kind
      /\ call.at = a + 1 /\ call.bad = impCalls[c].bad
  BY <1>1, <1>2, <1>3, ImportCallTypes DEF ImportCall, MaxAt
<1>5. call.kind \in FieldKinds /\ call.bad = 0
  BY <1>1, <1>4, ImportCallTypes DEF ImportCallKnown, FieldKinds, RowKinds
<1>6. ImportCallKnown(call)
  BY <1>2, <1>4, <1>5 DEF ImportCallKnown, FieldKinds, RowKinds
<1> QED BY <1>1, <1>2, <1>3, <1>4, <1>5, <1>6

ImportAction(c) == (\E kind \in Kinds : Find(c, kind)) \/ ImportStep(c) \/ CreateFails(c)

\* One call goes on, and what it does keeps its counts in step.
LEMMA CallsKeep ==
  ASSUME ImportCallsInv, NEW c \in ImportCalls, ImportAction(c)
  PROVE  \E call \in ImportCall :
           impCalls' = [impCalls EXCEPT ![c] = call] /\ ImportCallKnown(call)
<1>1. CASE \E kind \in Kinds : Find(c, kind)
  BY <1>1, FindIs
<1>2. CASE Moves(c)
  BY <1>2, MoveIs
<1>3. CASE CreateMapping(c)
  BY <1>3, MappingIs
<1>4. CASE Passes(c) \/ Refuses(c)
  BY <1>4, RowIs
<1> QED BY <1>1, <1>2, <1>3, <1>4, ImportSteps DEF ImportAction

RowTypes == [status : {"PENDING", "PROCESSING", "COMPLETED", "PARTIAL", "FAILED", "deleted"},
             success : 0..MaxRows, errors : 0..MaxRows]

\* The row: each action writes a status, or the counts of its call.
LEMMA RowIsWritten ==
  ASSUME ImportCallsInv, NEW c \in ImportCalls, ImportAction(c)
  PROVE  /\ impRow' \in RowTypes
         /\ \/ impRow' = impRow
            \/ \E s \in {"PENDING", "PROCESSING", "FAILED"} :
                 impRow' = [impRow EXCEPT !.status = s] /\ Kept
            \/ /\ FinishImport(c) /\ Kept /\ impRow'.errors = impCalls[c].bad
               /\ impRow'.status = Final(impCalls[c].ok, impCalls[c].bad)
            \/ Delete(c) /\ impRow'.status = "deleted" /\ impRow'.errors = 0
<1>1. impRow \in RowTypes /\ 0 \in 0..MaxRows
  BY ImportTypes DEF ImportCallsInv, ImportTypeOK, RowTypes
<1>2. CASE FinishImport(c)
  <2>1. impCalls[c].ok \in 0..MaxRows /\ impCalls[c].bad \in 0..MaxRows
    BY ImportCallTypes, ImportTypes
  <2>2. Final(impCalls[c].ok, impCalls[c].bad) \in {"COMPLETED", "FAILED", "PARTIAL"}
    BY DEF Final
  <2> QED BY <1>2, <2>1, <2>2 DEF FinishImport, RowTypes
<1>3. CASE Delete(c)
  BY <1>1, <1>3 DEF Delete, RowTypes
<1>4. CASE ~FinishImport(c) /\ ~Delete(c)
  <2>1. \/ impRow' = impRow
        \/ \E s \in {"PENDING", "PROCESSING", "FAILED"} :
             impRow' = [impRow EXCEPT !.status = s] /\ Kept
    BY <1>4 DEF ImportAction, ImportStep, Find, Begin, Parsed, CreateMapping, EndMappings,
       ValidRow, InvalidRow, CreateTest, CreateVersion, EmptyPipeline, ImportThrows,
       CatchImport, CreateFails
  <2> QED BY <1>1, <2>1 DEF RowTypes
<1> QED BY <1>2, <1>3, <1>4

\* What is deleted stays so.
LEMMA KeptBefore ==
  ASSUME ImportCallsInv, NEW c \in ImportCalls, ImportAction(c), Kept'
  PROVE  Kept /\ ~Delete(c)
<1>1. impRow \in RowTypes
  BY DEF ImportCallsInv, ImportTypeOK, RowTypes
<1> QED BY <1>1, RowIsWritten DEF Kept, Delete

LEMMA FaultsCount ==
  ASSUME ImportCallsInv, NEW c \in ImportCalls, ImportAction(c)
  PROVE  /\ impFaults' \in 0..MaxImportFaults /\ (impFaults' = 0 => impFaults = 0)
         /\ impFaults' = 0 => ~CreateFails(c) /\ UNCHANGED impFaults
<1>1. PICK f \in Nat, m \in Nat : f = impFaults /\ m = MaxImportFaults /\ f <= m
  BY ImportTypes
<1>2. \/ impFaults' = f /\ ~CreateFails(c)
      \/ impFaults' = f + 1 /\ f < m
  BY <1>1 DEF ImportAction, ImportStep, Find, Begin, Parsed, CreateMapping, EndMappings,
     ValidRow, InvalidRow, CreateTest, CreateVersion, EmptyPipeline, ImportThrows,
     CatchImport, CreateFails, FinishImport, Delete
<1> QED BY <1>1, <1>2

\* The tables.
LEMMA MappingsWritten ==
  ASSUME ImportCallsInv, NEW c \in ImportCalls, ImportAction(c)
  PROVE  /\ impMappings' \subseteq ImportCalls \X (1..MaxFields)
         /\ \/ UNCHANGED impMappings
            \/ impMappings' = {} /\ (Delete(c) \/ Find(c, "save"))
            \/ CreateMapping(c) /\ impMappings' = impMappings \cup {<<c, Row(c)>>}
<1>1. impMappings \subseteq ImportCalls \X (1..MaxFields)
  BY DEF ImportCallsInv, ImportTypeOK
<1>2. CASE CreateMapping(c)
  <2>1. Row(c) \in 1..MaxFields
    BY <1>2, ImportCallTypes, ImportTypes DEF CreateMapping, Row
  <2> QED BY <1>1, <1>2, <2>1 DEF CreateMapping
<1>3. CASE ~CreateMapping(c)
  BY <1>1, <1>3 DEF ImportAction, ImportStep, Find, Begin, Parsed, EndMappings,
     ValidRow, InvalidRow, CreateTest, CreateVersion, EmptyPipeline, ImportThrows,
     CatchImport, CreateFails, FinishImport, Delete
<1> QED BY <1>2, <1>3

LEMMA ErrorsWritten ==
  ASSUME ImportCallsInv, NEW c \in ImportCalls, ImportAction(c)
  PROVE  /\ impErrors' \subseteq ImportCalls \X (1..MaxRows)
         /\ \/ UNCHANGED impErrors /\ ~Refuses(c) /\ ~Delete(c)
            \/ impErrors' = {} /\ Delete(c)
            \/ Refuses(c) /\ Kept /\ impErrors' = impErrors \cup {<<c, Row(c)>>} /\ ~Delete(c)
<1>1. impErrors \subseteq ImportCalls \X (1..MaxRows)
  BY DEF ImportCallsInv, ImportTypeOK
<1>2. CASE Refuses(c)
  <2>1. Row(c) \in 1..MaxRows
    BY <1>2, ImportCallTypes, ImportTypes DEF Refuses, InvalidRow, CreateFails, Row
  <2>2. impErrors' = impErrors \cup {<<c, Row(c)>>} /\ Kept /\ impCalls[c].pc # "found"
    BY <1>2 DEF Refuses, InvalidRow, CreateFails, Processing
  <2> QED BY <1>1, <1>2, <2>1, <2>2 DEF Delete, At
<1>3. CASE ~Refuses(c)
  BY <1>1, <1>3 DEF ImportAction, ImportStep, Find, Begin, Parsed, EndMappings, CreateMapping,
     ValidRow, CreateTest, CreateVersion, EmptyPipeline, ImportThrows, Refuses,
     CatchImport, CreateFails, FinishImport, Delete
<1> QED BY <1>2, <1>3

LEMMA TestsWritten ==
  ASSUME ImportCallsInv, NEW c \in ImportCalls, ImportAction(c)
  PROVE  /\ impTests' \subseteq [by : ImportCalls, row : 1..MaxRows, version : BOOLEAN]
         /\ \/ UNCHANGED impTests /\ ~CreateTest(c) /\ ~CreateVersion(c)
            \/ /\ CreateTest(c)
               /\ impTests' = impTests \cup {[by |-> c, row |-> Row(c), version |-> FALSE]}
            \/ /\ CreateVersion(c)
               /\ impTests' = {IF t.by = c /\ t.row = Row(c) THEN [t EXCEPT !.version = TRUE]
                               ELSE t : t \in impTests}
<1>1. impTests \subseteq [by : ImportCalls, row : 1..MaxRows, version : BOOLEAN]
  BY DEF ImportCallsInv, ImportTypeOK
<1>2. CASE CreateTest(c)
  <2>1. Row(c) \in 1..MaxRows
    BY <1>2, ImportCallTypes, ImportTypes DEF CreateTest, Row
  <2>2. [by |-> c, row |-> Row(c), version |-> FALSE]
          \in [by : ImportCalls, row : 1..MaxRows, version : BOOLEAN]
    BY <2>1
  <2>3. impTests' = impTests \cup {[by |-> c, row |-> Row(c), version |-> FALSE]}
    BY <1>2 DEF CreateTest
  <2>4. impTests' \subseteq [by : ImportCalls, row : 1..MaxRows, version : BOOLEAN]
    BY <1>1, <2>2, <2>3
  <2> QED BY <1>2, <2>3, <2>4
<1>3. CASE CreateVersion(c)
  <2>1. impTests' = {IF t.by = c /\ t.row = Row(c) THEN [t EXCEPT !.version = TRUE]
                     ELSE t : t \in impTests}
    BY <1>3 DEF CreateVersion
  <2>2. ASSUME NEW t \in impTests
        PROVE  (IF t.by = c /\ t.row = Row(c) THEN [t EXCEPT !.version = TRUE] ELSE t)
                 \in [by : ImportCalls, row : 1..MaxRows, version : BOOLEAN]
    <3>1. t \in [by : ImportCalls, row : 1..MaxRows, version : BOOLEAN]
      BY <1>1
    <3>2. [t EXCEPT !.version = TRUE]
            \in [by : ImportCalls, row : 1..MaxRows, version : BOOLEAN]
      BY <3>1
    <3> QED BY <3>1, <3>2
  <2>3. ASSUME NEW x \in impTests'
        PROVE  x \in [by : ImportCalls, row : 1..MaxRows, version : BOOLEAN]
    <3>1. PICK t \in impTests :
            x = IF t.by = c /\ t.row = Row(c) THEN [t EXCEPT !.version = TRUE] ELSE t
      BY <2>1
    <3> QED BY <2>2, <3>1
  <2> QED BY <1>3, <2>1, <2>3
<1>4. CASE ~CreateTest(c) /\ ~CreateVersion(c)
  BY <1>1, <1>4 DEF ImportAction, ImportStep, Find, Begin, Parsed, EndMappings, CreateMapping,
     ValidRow, InvalidRow, EmptyPipeline, ImportThrows, CatchImport, CreateFails,
     FinishImport, Delete
<1> QED BY <1>2, <1>3, <1>4

LEMMA ImportCallsKept ==
  ASSUME ImportCallsInv, NEW c \in ImportCalls, ImportAction(c)
  PROVE  ImportCallsInv'
<1>1. PICK call \in ImportCall :
        impCalls' = [impCalls EXCEPT ![c] = call] /\ ImportCallKnown(call)
  BY CallsKeep
<1>2. /\ impCalls' \in [ImportCalls -> ImportCall]
      /\ \A d \in ImportCalls : ImportCallKnown(impCalls'[d])
  BY <1>1, ImportTypes, ImportCallTypes
<1>3. impRow' \in RowTypes
  BY RowIsWritten
<1>4. ImportTypeOK'
  BY <1>2, <1>3, FaultsCount, MappingsWritten, ErrorsWritten, TestsWritten
     DEF ImportTypeOK, RowTypes
<1> QED BY <1>2, <1>4 DEF ImportCallsInv

\* Another call than c stays as it is.
LEMMA OtherCall ==
  ASSUME ImportCallsInv, NEW c \in ImportCalls, ImportAction(c), NEW d \in ImportCalls, d # c
  PROVE  impCalls'[d] = impCalls[d]
BY CallsKeep, ImportTypes

\* Somebody goes on working on an import that is being processed.
LEMMA WorkGoesOn ==
  ASSUME ImportCallsInv, WorkedOn, NEW c \in ImportCalls, ImportAction(c)
  PROVE  WorkedOn'
<1> SUFFICES ASSUME impFaults' = 0, impRow'.status = "PROCESSING"
             PROVE  \E d \in ImportCalls : impCalls'[d].pc \in {"rows", "version"}
  BY DEF WorkedOn
<1>1. impFaults = 0 /\ UNCHANGED impFaults /\ Kept /\ ~CreateFails(c) /\ ~Delete(c)
  <2>1. Kept'
    BY DEF Kept
  <2> QED BY <2>1, FaultsCount, KeptBefore
<1>0. impRow \in RowTypes /\ impFaults' # impFaults + 1
  BY <1>1, ImportTypes DEF ImportCallsInv, ImportTypeOK, RowTypes
<1>2. CASE Begin(c)
  BY <1>1, <1>2, ImportTypes DEF Begin, ImportGoto, ImportCall
<1>3. CASE impRow.status = "PROCESSING" /\ ~Begin(c)
  <2>1. PICK d \in ImportCalls : impCalls[d].pc \in {"rows", "version"}
    BY <1>1, <1>3 DEF WorkedOn
  <2>2. CASE d # c
    BY <2>1, <2>2, OtherCall
  <2>3. CASE d = c
    <3>1. Passes(c) \/ Refuses(c) \/ CreateTest(c)
      <4> SUFFICES ASSUME ~Passes(c), ~Refuses(c), ~CreateTest(c) PROVE FALSE
        OBVIOUS
      <4>1. Moves(c)
        BY <1>1, <2>1, <2>3, ImportSteps DEF ImportAction, Find, CreateMapping
      <4>2. CASE Parsed(c) \/ EmptyPipeline(c) \/ FinishImport(c)
        <5>1. impRow'.status # "PROCESSING"
          BY <1>0, <4>2 DEF Parsed, EmptyPipeline, FinishImport, RowTypes, Final
        <5> QED BY <5>1
      <4>3. CASE EndMappings(c) \/ CatchImport(c) \/ ImportThrows(c)
        <5>1. impCalls[c].pc \in {"rows", "version"} /\ Kept /\ UNCHANGED impFaults
          BY <1>1, <2>1, <2>3
        <5> QED BY <1>0, <4>3, <5>1 DEF EndMappings, CatchImport, ImportThrows
      <4> QED BY <1>1, <1>3, <4>1, <4>2, <4>3 DEF Moves
    <3>2. impCalls'[c].pc \in {"rows", "version"}
      <4>1. CASE CreateTest(c)
        BY <4>1, ImportTypes DEF CreateTest, ImportGoto, ImportCall
      <4>2. CASE Passes(c) \/ Refuses(c)
        BY <4>2, RowIs, ImportTypes
      <4> QED BY <3>1, <4>1, <4>2
    <3> QED BY <3>2
  <2> QED BY <2>2, <2>3
<1>4. CASE impRow.status # "PROCESSING" /\ ~Begin(c)
  <2>1. CASE Parsed(c) \/ EmptyPipeline(c) \/ FinishImport(c) \/ CatchImport(c)
    <3>1. impRow'.status # "PROCESSING"
      BY <1>0, <1>4, <2>1 DEF Parsed, EmptyPipeline, FinishImport, CatchImport, RowTypes, Final
    <3> QED BY <3>1
  <2>2. CASE ~(Parsed(c) \/ EmptyPipeline(c) \/ FinishImport(c) \/ CatchImport(c))
    <3>1. impRow' = impRow
      BY <1>1, <1>4, <2>2 DEF ImportAction, ImportStep, Find, EndMappings, CreateMapping,
         ImportThrows, ValidRow, InvalidRow, CreateTest, CreateVersion
    <3> QED BY <1>4, <3>1
  <2> QED BY <2>1, <2>2
<1> QED BY <1>2, <1>3, <1>4

\* A case is refused: one error more, and the call counts one more.
LEMMA ErrorsGrow ==
  ASSUME ImportCallsInv, ErrorsInv, NEW c \in ImportCalls, Refuses(c)
  PROVE  ErrorsInv'
<1>1. PICK call \in ImportCall :
        /\ impCalls' = [impCalls EXCEPT ![c] = call]
        /\ call.kind = impCalls[c].kind /\ call.kind \in RowKinds /\ call.pc = "rows"
        /\ call.at = impCalls[c].at + 1 /\ call.bad = impCalls[c].bad + 1
        /\ impCalls[c].pc \in {"rows", "version"}
  BY RowIs
<1>2. /\ impCalls'[c] = call /\ \A d \in ImportCalls \ {c} : impCalls'[d] = impCalls[d]
      /\ Kept /\ impRow' = impRow /\ impErrors' = impErrors \cup {<<c, Row(c)>>}
  BY <1>1, ImportTypes DEF Refuses, InvalidRow, CreateFails
<1>3. Processors' = Processors /\ c \in Processors
  BY <1>1, <1>2 DEF Processors
<1>4. impCalls[c].at \in Nat /\ impCalls[c].bad \in Nat /\ impRow.errors \in Nat
  <2>1. impRow.errors \in 0..MaxRows /\ MaxRows \in Nat
    BY ImportTypes DEF ImportCallsInv, ImportTypeOK
  <2> QED BY <2>1, ImportCallTypes
<1>5. <<c, Row(c)>> \notin impErrors
  BY <1>4 DEF ErrorsInv, Row
<1>6. IsFiniteSet(impErrors') /\ Cardinality(impErrors') = Cardinality(impErrors) + 1
  BY <1>2, <1>5, FS_AddElement DEF ErrorsInv
<1>7. impRow'.errors <= Cardinality(impErrors')
  <2>1. Cardinality(impErrors) \in Nat
    BY FS_CardinalityType DEF ErrorsInv
  <2> QED BY <1>2, <1>4, <1>6, <2>1 DEF ErrorsInv
<1>8. ASSUME NEW e \in impErrors' PROVE e[1] \in Processors' /\ e[2] <= impCalls'[e[1]].at
  <2>1. CASE e = <<c, Row(c)>>
    BY <1>1, <1>2, <1>3, <1>4, <2>1 DEF Row
  <2>2. CASE e \in impErrors /\ e[1] = c
    <3>1. PICK n \in Nat : e[2] = n /\ n <= impCalls[c].at
      BY <2>2 DEF ErrorsInv, ImportCallsInv, ImportTypeOK
    <3> QED BY <1>1, <1>2, <1>3, <1>4, <2>2, <3>1
  <2>3. CASE e \in impErrors /\ e[1] # c
    BY <1>2, <1>3, <2>3 DEF ErrorsInv, Processors
  <2> QED BY <1>2, <2>1, <2>2, <2>3
<1>9. ASSUME NEW d \in ImportCalls PROVE Cardinality(ErrorsOf(d)') = impCalls'[d].bad
  <2>1. CASE d = c
    <3>1. ErrorsOf(d)' = ErrorsOf(c) \cup {<<c, Row(c)>>} /\ <<c, Row(c)>> \notin ErrorsOf(c)
      BY <1>2, <1>5, <2>1 DEF ErrorsOf
    <3>2. IsFiniteSet(ErrorsOf(c))
      <4>1. ErrorsOf(c) \subseteq impErrors
        BY DEF ErrorsOf
      <4> QED BY <4>1, FS_Subset DEF ErrorsInv
    <3>3. Cardinality(ErrorsOf(d)') = Cardinality(ErrorsOf(c)) + 1
      BY <3>1, <3>2, FS_AddElement
    <3> QED BY <1>1, <1>2, <2>1, <3>3 DEF ErrorsInv
  <2>2. CASE d # c
    <3>1. ErrorsOf(d)' = ErrorsOf(d)
      BY <1>2, <2>2 DEF ErrorsOf
    <3> QED BY <1>2, <2>2, <3>1 DEF ErrorsInv
  <2> QED BY <2>1, <2>2
<1>10. ASSUME NEW d \in ImportCalls, Processors' = {d}
       PROVE  impRow'.errors = IF impCalls'[d].pc = "done" THEN impCalls'[d].bad ELSE 0
  <2>1. d = c
    BY <1>3, <1>10
  <2> QED BY <1>1, <1>2, <1>3, <1>10, <2>1 DEF ErrorsInv
<1> QED BY <1>2, <1>3, <1>6, <1>7, <1>8, <1>9, <1>10 DEF ErrorsInv

\* The other steps: the errors stay, and the row's count is that of a call that is done.
LEMMA ErrorsStay ==
  ASSUME ImportCallsInv, ErrorsInv, NEW c \in ImportCalls, ImportAction(c),
         ~Refuses(c), ~Delete(c)
  PROVE  ErrorsInv'
<1>0. /\ UNCHANGED impErrors /\ (Kept' => Kept) /\ impRow \in RowTypes
      /\ impCalls \in [ImportCalls -> ImportCall]
  BY ErrorsWritten, KeptBefore, ImportTypes DEF ImportCallsInv, ImportTypeOK, RowTypes
<1>1. PICK call \in ImportCall :
        /\ impCalls' = [impCalls EXCEPT ![c] = call]
        /\ call.bad = impCalls[c].bad
        /\ call.at = impCalls[c].at \/ call.at = impCalls[c].at + 1
        /\ \/ call.kind = impCalls[c].kind
           \/ impCalls[c].pc = "new" /\ call.pc # "done"
        /\ call.pc = "done" /\ impCalls[c].kind \in RowKinds =>
             FinishImport(c) \/ EmptyPipeline(c)
        /\ impCalls[c].pc # "done"
  <2>1. CASE \E kind \in Kinds : Find(c, kind)
    <3>1. PICK kind \in Kinds : Find(c, kind)
      BY <2>1
    <3>2. PICK call \in ImportCall :
            /\ impCalls' = [impCalls EXCEPT ![c] = call]
            /\ call.kind = kind /\ call.at = 0 /\ call.bad = 0 /\ impCalls[c].pc = "new"
            /\ call.pc = IF kind = "save" THEN "mappings" ELSE IF Kept THEN "found" ELSE "threw"
      BY <3>1, FindIs
    <3>3. impCalls[c].bad = 0 /\ impCalls[c].at = 0 /\ call.pc # "done"
      BY <3>2, ImportCallTypes DEF ImportCallKnown
    <3> QED BY <3>2, <3>3
  <2>2. CASE Moves(c)
    <3>1. PICK call \in ImportCall :
            /\ impCalls' = [impCalls EXCEPT ![c] = call]
            /\ call.kind = impCalls[c].kind /\ call.at = impCalls[c].at
            /\ call.bad = impCalls[c].bad
      BY <2>2, MoveIs
    <3>2. impCalls'[c].pc = call.pc /\ impCalls[c].pc # "done"
      BY <1>0, <2>2, <3>1 DEF Moves, Begin, Parsed, EndMappings, CreateTest, FinishImport,
         EmptyPipeline, ImportThrows, CatchImport, Delete, CreateFails, At, Processing
    <3>3. ASSUME call.pc = "done", impCalls[c].kind \in RowKinds
          PROVE  FinishImport(c) \/ EmptyPipeline(c)
      <4>1. ~EndMappings(c)
        BY <3>3, ImportCallTypes DEF EndMappings, ImportCallKnown, FieldKinds, RowKinds
      <4>2. impCalls'[c].pc = "done"
        BY <3>2, <3>3
      <4>3. CASE Begin(c) \/ Parsed(c) \/ CreateTest(c) \/ ImportThrows(c) \/ CatchImport(c)
                 \/ (CreateFails(c) /\ ~Kept)
        <5>1. PICK pc \in {"rows", "threw", "mappings", "version", "catch"} :
                impCalls' = [impCalls EXCEPT ![c].pc = pc]
          BY <4>3 DEF Begin, Parsed, CreateTest, ImportThrows, CatchImport, CreateFails,
             ImportGoto
        <5> QED BY <1>0, <4>2, <5>1 DEF ImportCall
      <4> QED BY <2>2, <4>1, <4>3 DEF Moves
    <3> QED BY <3>1, <3>2, <3>3
  <2>3. CASE CreateMapping(c)
    BY <2>3, MappingIs
  <2>4. CASE Passes(c)
    <3>1. PICK call \in ImportCall :
            /\ impCalls' = [impCalls EXCEPT ![c] = call]
            /\ call.kind = impCalls[c].kind /\ call.pc = "rows"
            /\ call.at = impCalls[c].at + 1 /\ call.bad = impCalls[c].bad
            /\ impCalls[c].pc \in {"rows", "version"}
      BY <2>4, RowIs
    <3> QED BY <3>1
  <2> QED BY <2>1, <2>2, <2>3, <2>4, ImportSteps DEF ImportAction
<1>2. impCalls'[c] = call /\ \A d \in ImportCalls \ {c} : impCalls'[d] = impCalls[d]
  BY <1>0, <1>1
<1>3. /\ impCalls[c].pc = "new" => c \notin Processors
      /\ call.kind = impCalls[c].kind => Processors' = Processors
      /\ Processors' = Processors \/ Processors' = Processors \cup {c}
  BY <1>1, <1>2, ImportCallTypes DEF Processors, ImportCallKnown, RowKinds
<1>4. ASSUME NEW e \in impErrors' PROVE e[1] \in Processors' /\ e[2] <= impCalls'[e[1]].at
  <2>1. e \in impErrors /\ e[1] \in Processors /\ e[2] <= impCalls[e[1]].at
    BY <1>0, <1>4 DEF ErrorsInv
  <2>2. CASE e[1] = c
    <3>1. PICK n \in Nat, a \in Nat : n = e[2] /\ a = impCalls[c].at
      BY <2>1, ImportCallTypes DEF ImportCallsInv, ImportTypeOK
    <3> QED BY <1>1, <1>2, <1>3, <2>1, <2>2, <3>1
  <2>3. CASE e[1] # c
    BY <1>2, <1>3, <2>1, <2>3 DEF Processors
  <2> QED BY <2>2, <2>3
<1>5. ASSUME Kept', NEW d \in ImportCalls PROVE Cardinality(ErrorsOf(d)') = impCalls'[d].bad
  BY <1>0, <1>1, <1>2, <1>5 DEF ErrorsInv, ErrorsOf
<1>6. CASE FinishImport(c)
  <2>1. /\ Kept /\ impRow'.errors = impCalls[c].bad /\ impCalls[c].kind \in RowKinds
        /\ impRow'.status = Final(impCalls[c].ok, impCalls[c].bad) /\ call.pc = "done"
    <3>1. impCalls' = [impCalls EXCEPT ![c].pc = "done"]
      BY <1>6 DEF FinishImport, ImportGoto
    <3>2. call.pc = "done"
      BY <1>0, <1>2, <3>1 DEF ImportCall
    <3> QED BY <1>6, <3>2 DEF FinishImport, Processing, RowKinds
  <2>2. c \in Processors /\ impCalls[c].pc # "new"
    BY <1>6, <2>1 DEF Processors, FinishImport, Processing
  <2>3. impCalls[c].bad <= Cardinality(impErrors)
    <3>1. ErrorsOf(c) \subseteq impErrors /\ Cardinality(ErrorsOf(c)) = impCalls[c].bad
      BY <2>1 DEF ErrorsInv, ErrorsOf
    <3> QED BY <3>1, FS_Subset DEF ErrorsInv
  <2>4. impRow'.status = "COMPLETED" => impRow'.errors = 0
    BY <2>1 DEF Final
  <2>5. ASSUME NEW d \in ImportCalls, Processors' = {d}
        PROVE  impRow'.errors = IF impCalls'[d].pc = "done" THEN impCalls'[d].bad ELSE 0
    BY <1>1, <1>2, <1>3, <2>1, <2>2, <2>5
  <2> QED BY <1>0, <1>1, <1>3, <1>4, <1>5, <2>1, <2>2, <2>3, <2>4, <2>5 DEF ErrorsInv
<1>7. CASE ~FinishImport(c)
  <2>1. /\ impRow'.errors = impRow.errors
        /\ impRow'.status = "COMPLETED" => impRow.status = "COMPLETED"
    BY <1>0, <1>7, RowIsWritten DEF RowTypes
  <2>2. ASSUME NEW d \in ImportCalls, Kept', Processors' = {d}
        PROVE  impRow'.errors = IF impCalls'[d].pc = "done" THEN impCalls'[d].bad ELSE 0
    <3>1. Kept
      BY <1>0, <2>2
    <3>2. CASE d # c
      <4>1. Processors = {d} /\ impCalls'[d] = impCalls[d]
        BY <1>2, <1>3, <2>2, <3>2
      <4> QED BY <2>1, <3>1, <4>1 DEF ErrorsInv
    <3>3. CASE d = c
      <4>1. impRow.errors = 0
        <5>1. Processors = {} \/ Processors = {c}
          BY <1>3, <2>2, <3>3
        <5> QED BY <1>1, <3>1, <5>1 DEF ErrorsInv
      <4>2. call.pc = "done" => call.bad = 0
        <5> SUFFICES ASSUME call.pc = "done" PROVE call.bad = 0
          OBVIOUS
        <5>1. call.kind = impCalls[c].kind /\ c \in Processors
          BY <1>1, <1>3, <2>2, <3>3
        <5>2. EmptyPipeline(c)
          BY <1>1, <1>7, <5>1 DEF Processors
        <5>3. impCalls[c].at = 0 /\ impCalls[c].kind = "ai"
          BY <5>2 DEF EmptyPipeline, At
        <5> QED BY <1>1, <5>3, ImportCallTypes DEF ImportCallKnown, RowKinds
      <4> QED BY <1>2, <2>1, <3>3, <4>1, <4>2
    <3> QED BY <3>2, <3>3
  <2>3. Kept' /\ Processors' = {} => impRow'.errors = 0
    <3>1. Processors' = {} => Processors = {}
      BY <1>3
    <3> QED BY <1>0, <2>1, <3>1 DEF ErrorsInv
  <2> QED BY <1>0, <1>4, <1>5, <2>1, <2>2, <2>3 DEF ErrorsInv
<1> QED BY <1>6, <1>7

\* What goes with the import.
LEMMA ErrorsGo ==
  ASSUME ImportCallsInv, NEW c \in ImportCalls, Delete(c)
  PROVE  ErrorsInv'
<1>1. impErrors' = {} /\ impRow'.errors = 0 /\ impRow'.status = "deleted"
  BY DEF Delete
<1>2. IsFiniteSet(impErrors') /\ Cardinality(impErrors') = 0
  BY <1>1, FS_EmptySet
<1> QED BY <1>1, <1>2 DEF ErrorsInv, Kept

\* Whoever began to map after the last save's deletion has all its mappings.
LEMMA AnchorStays ==
  ASSUME ImportCallsInv, MappingsInv, NEW c \in ImportCalls, ImportAction(c)
  PROVE  MappingsInv'
<1> SUFFICES ASSUME impFaults' = 0, Kept',
                    NEW k \in ImportCalls, impCalls'[k].kind \in FieldKinds
             PROVE  \E d \in ImportCalls : Anchor(d)'
  BY DEF MappingsInv
<1>1. /\ impFaults = 0 /\ UNCHANGED impFaults /\ Kept /\ ~CreateFails(c) /\ ~Delete(c)
      /\ impFaults' # impFaults + 1 /\ impCalls \in [ImportCalls -> ImportCall]
  BY FaultsCount, KeptBefore, ImportTypes
<1>2. ASSUME NEW kind \in Kinds, Find(c, kind), kind \in FieldKinds
      PROVE  Anchor(c)'
  <2>1. PICK call \in ImportCall :
          /\ impCalls' = [impCalls EXCEPT ![c] = call] /\ call.kind = kind /\ call.at = 0
          /\ call.pc = IF kind = "save" THEN "mappings" ELSE IF Kept THEN "found" ELSE "threw"
    BY <1>2, FindIs
  <2>2. impCalls'[c] = call
    BY <1>1, <2>1
  <2> QED BY <1>1, <1>2, <2>1, <2>2 DEF Anchor
<1>3. ASSUME ~\E kind \in FieldKinds : Find(c, kind)
      PROVE  \E d \in ImportCalls : Anchor(d)'
  <2>1. impMappings \subseteq impMappings'
    BY <1>1, <1>3, MappingsWritten DEF FieldKinds
  <2>2. impCalls[k].kind \in FieldKinds
    <3>1. CASE k = c
      <4>1. CASE \E kind \in Kinds : Find(c, kind)
        <5>1. PICK kind \in Kinds : Find(c, kind)
          BY <4>1
        <5>2. impCalls'[c].kind = kind
          BY <1>1, <5>1, FindIs
        <5> QED BY <1>3, <3>1, <5>1, <5>2
      <4>2. CASE Moves(c)
        BY <1>1, <3>1, <4>2, MoveIs
      <4>3. CASE CreateMapping(c)
        BY <1>1, <3>1, <4>3, MappingIs
      <4>4. CASE Passes(c) \/ Refuses(c)
        BY <1>1, <3>1, <4>4, RowIs
      <4> QED BY <4>1, <4>2, <4>3, <4>4, ImportSteps DEF ImportAction
    <3>2. CASE k # c
      BY <3>2, OtherCall
    <3> QED BY <3>1, <3>2
  <2>3. PICK d \in ImportCalls : Anchor(d)
    BY <1>1, <2>2 DEF MappingsInv
  <2>4. CASE d # c
    BY <2>1, <2>3, <2>4, OtherCall DEF Anchor
  <2>5. CASE d = c
    <3>1. impCalls[c].kind \in FieldKinds /\ impCalls[c].pc \in {"found", "rows", "mappings"}
      BY <1>3, <2>3, <2>5 DEF Anchor, ImportAction, ImportStep, Find, Begin, Parsed,
         EndMappings, CreateMapping, ValidRow, InvalidRow, CreateTest, CreateVersion,
         FinishImport,
         EmptyPipeline, ImportThrows, CatchImport, Delete, CreateFails, At, Processing
    <3>2. CASE CreateMapping(c)
      <4>1. PICK call \in ImportCall :
              /\ impCalls' = [impCalls EXCEPT ![c] = call]
              /\ call.kind \in FieldKinds /\ call.pc = "mappings"
              /\ call.at = impCalls[c].at + 1
        BY <3>2, MappingIs
      <4>2. impCalls'[c] = call /\ impMappings' = impMappings \cup {<<c, impCalls[c].at + 1>>}
        BY <1>1, <3>2, <4>1 DEF CreateMapping, Row
      <4>3. \A f \in 1..call.at : <<c, f>> \in impMappings'
        BY <2>3, <2>5, <4>1, <4>2, ImportCallTypes DEF Anchor
      <4> QED BY <4>1, <4>2, <4>3 DEF Anchor
    <3>3. CASE Begin(c) \/ Parsed(c) \/ EndMappings(c)
      <4>1. PICK pc \in {"rows", "mappings", "done"} :
              /\ impCalls' = [impCalls EXCEPT ![c].pc = pc]
              /\ pc = "rows" => impCalls[c].pc = "found"
              /\ pc = "done" => impCalls[c].at = MaxFields
        BY <1>1, <3>3 DEF Begin, Parsed, EndMappings, ImportGoto
      <4>2. impCalls'[c] = [impCalls[c] EXCEPT !.pc = pc]
        BY <1>1, <4>1
      <4>3. /\ impCalls'[c].kind = impCalls[c].kind /\ impCalls'[c].at = impCalls[c].at
            /\ impCalls'[c].pc = pc
        BY <1>1, <4>2 DEF ImportCall
      <4> QED BY <2>1, <2>3, <2>5, <4>1, <4>3 DEF Anchor
    <3>4. Begin(c) \/ Parsed(c) \/ EndMappings(c) \/ CreateMapping(c)
      BY <1>1, <1>3, <3>1 DEF ImportAction, ImportStep, Find,
         ValidRow, InvalidRow, CreateTest, CreateVersion, FinishImport,
         EmptyPipeline, ImportThrows, CatchImport, Delete, At, Processing, FieldKinds
    <3> QED BY <3>2, <3>3, <3>4
  <2> QED BY <2>4, <2>5
<1>4. CASE \E kind \in FieldKinds : Find(c, kind)
  <2>1. PICK kind \in FieldKinds : Find(c, kind)
    BY <1>4
  <2>2. kind \in Kinds
    BY DEF FieldKinds, Kinds
  <2> QED BY <1>2, <2>1, <2>2
<1> QED BY <1>3, <1>4

\* A test gets its version before its call goes on.
LEMMA VersionsFollow ==
  ASSUME ImportCallsInv, TestsInv, NEW c \in ImportCalls, ImportAction(c)
  PROVE  TestsInv'
<1> SUFFICES ASSUME NEW t \in impTests', ~t.version, impFaults' = 0
             PROVE  At(t.by, "ai", "version")' /\ t.row = Row(t.by)'
  BY DEF TestsInv
<1>1. /\ impFaults = 0 /\ UNCHANGED impFaults /\ ~CreateFails(c)
      /\ impFaults' # impFaults + 1 /\ impCalls \in [ImportCalls -> ImportCall]
      /\ impTests \subseteq [by : ImportCalls, row : 1..MaxRows, version : BOOLEAN]
  BY FaultsCount, ImportTypes DEF ImportCallsInv, ImportTypeOK
<1>2. CASE CreateTest(c) /\ t \notin impTests
  <2>1. t = [by |-> c, row |-> Row(c), version |-> FALSE]
    BY <1>2, TestsWritten DEF CreateTest
  <2>2. At(c, "ai", "version")' /\ Row(c)' = Row(c)
    BY <1>1, <1>2 DEF CreateTest, At, ImportGoto, Row, ImportCall
  <2> QED BY <2>1, <2>2
<1>3. CASE t \in impTests
  <2>1. At(t.by, "ai", "version") /\ t.row = Row(t.by) /\ t.by \in ImportCalls
    BY <1>1, <1>3 DEF TestsInv
  <2>2. CASE t.by # c
    BY <2>1, <2>2, OtherCall DEF At, Row
  <2>3. CASE t.by = c
    <3>1. CreateVersion(c)
      BY <1>1, <2>1, <2>3 DEF At, ImportAction, ImportStep, Find, Begin, Parsed, EndMappings,
         CreateMapping, ValidRow, InvalidRow, CreateTest, FinishImport, EmptyPipeline,
         ImportThrows, CatchImport, Delete, Processing
    <3>2. PICK u \in impTests :
            t = IF u.by = c /\ u.row = Row(c) THEN [u EXCEPT !.version = TRUE] ELSE u
      BY <3>1 DEF CreateVersion
    <3>3. u \in [by : ImportCalls, row : 1..MaxRows, version : BOOLEAN]
      BY <1>1
    <3>4. ~(u.by = c /\ u.row = Row(c))
      BY <3>2, <3>3
    <3> QED BY <2>1, <2>3, <3>2, <3>4
  <2> QED BY <2>2, <2>3
<1>4. CASE CreateVersion(c) /\ t \notin impTests
  <2>1. PICK u \in impTests :
          t = IF u.by = c /\ u.row = Row(c) THEN [u EXCEPT !.version = TRUE] ELSE u
    BY <1>4 DEF CreateVersion
  <2>2. u \in [by : ImportCalls, row : 1..MaxRows, version : BOOLEAN]
    BY <1>1
  <2> QED BY <1>4, <2>1, <2>2
<1> QED BY <1>2, <1>3, <1>4, TestsWritten

LEMMA ImportInductive == ImportInv /\ [ImportNext]_impVars => ImportInv'
<1> SUFFICES ASSUME ImportInv, [ImportNext]_impVars PROVE ImportInv'
  OBVIOUS
<1>1. CASE ImportNext
  <2>1. PICK c \in ImportCalls : ImportAction(c)
    BY <1>1 DEF ImportNext, ImportAction
  <2>2. ImportCallsInv' /\ WorkedOn' /\ MappingsInv' /\ TestsInv'
    BY <2>1, ImportCallsKept, WorkGoesOn, AnchorStays, VersionsFollow DEF ImportInv
  <2>3. ErrorsInv'
    BY <2>1, ErrorsGrow, ErrorsStay, ErrorsGo DEF ImportInv
  <2> QED BY <2>2, <2>3 DEF ImportInv
<1>2. CASE UNCHANGED impVars
  <2>1. ImportCallsInv' /\ WorkedOn'
    BY <1>2 DEF ImportInv, impVars, ImportCallsInv, ImportTypeOK, WorkedOn
  <2>2. ErrorsInv'
    BY <1>2 DEF ImportInv, impVars, ErrorsInv, ErrorsOf, Processors, Kept
  <2>3. MappingsInv' /\ TestsInv'
    BY <1>2 DEF ImportInv, impVars, MappingsInv, Anchor, Kept, TestsInv, At, Row
  <2> QED BY <2>1, <2>2, <2>3 DEF ImportInv
<1> QED BY <1>1, <1>2

LEMMA ImportInitial == ImportInit => ImportInv
<1> SUFFICES ASSUME ImportInit PROVE ImportInv
  OBVIOUS
<1>1. 0 \in 0..MaxRows /\ 0 \in 0..MaxAt /\ 0 \in 0..MaxImportFaults
  BY ImportAssumption DEF MaxAt
<1>2. [kind |-> "none", pc |-> "new", at |-> 0, ok |-> 0, bad |-> 0] \in ImportCall
  BY <1>1 DEF ImportCall, MaxAt
<1>3. ImportTypeOK
  BY <1>1, <1>2 DEF ImportInit, ImportTypeOK
<1>4. ImportCallsInv /\ WorkedOn
  BY <1>3 DEF ImportInit, ImportCallsInv, ImportCallKnown, WorkedOn, RowKinds
<1>5. ErrorsInv
  <2>1. \A c \in ImportCalls : ErrorsOf(c) = {} /\ impCalls[c].bad = 0
    BY DEF ImportInit, ErrorsOf
  <2>2. Processors = {}
    BY DEF ImportInit, Processors, RowKinds
  <2> QED BY <2>1, <2>2, FS_EmptySet DEF ImportInit, ErrorsInv
<1>6. MappingsInv /\ TestsInv
  BY DEF ImportInit, MappingsInv, FieldKinds, TestsInv
<1> QED BY <1>4, <1>5, <1>6 DEF ImportInv

\* What the invariant says of the import.
LEMMA ImportKnown == ImportInv => ImportTypeOK /\ ImportCounted /\ EveryFieldMapped
<1> SUFFICES ASSUME ImportInv PROVE ImportTypeOK /\ ImportCounted /\ EveryFieldMapped
  OBVIOUS
<1>1. ImportCallsInv /\ WorkedOn /\ ErrorsInv /\ MappingsInv /\ TestsInv
  BY DEF ImportInv
<1>2. ImportSettled
  <2> SUFFICES ASSUME NoCall(Kinds), impFaults = 0, impRow.status = "PROCESSING" PROVE FALSE
    BY DEF ImportSettled
  <2>1. PICK c \in ImportCalls : impCalls[c].pc \in {"rows", "version"}
    BY <1>1 DEF WorkedOn
  <2>2. impCalls[c].kind \in Kinds
    BY <1>1, <2>1, ImportCallTypes DEF ImportCallKnown, Kinds
  <2> QED BY <2>1, <2>2 DEF NoCall
<1>3. ErrorsAddUp
  <2>1. {c \in ImportCalls : impCalls[c].kind \in {"process", "ai"} /\ impCalls[c].pc # "new"}
          = Processors
    BY <1>1, ImportCallTypes DEF Processors, RowKinds, ImportCallKnown
  <2>2. ASSUME NEW c \in Processors, Processors = {c}, impCalls[c].pc = "done", Kept
        PROVE  impRow.errors = Cardinality(impErrors)
    <3>1. c \in ImportCalls /\ impRow.errors = impCalls[c].bad
      BY <1>1, <2>2 DEF ErrorsInv, Processors
    <3>2. ErrorsOf(c) = impErrors
      BY <1>1, <2>2 DEF ErrorsInv, ErrorsOf
    <3> QED BY <1>1, <2>2, <3>1, <3>2 DEF ErrorsInv
  <2>3. /\ impRow.errors <= Cardinality(impErrors)
        /\ impRow.status = "COMPLETED" => impRow.errors = 0
    BY <1>1 DEF ErrorsInv
  <2> QED BY <2>1, <2>2, <2>3 DEF ErrorsAddUp, Processors, RowKinds
<1>4. EveryFieldMapped
  <2> SUFFICES ASSUME NoCall({"parse", "save"}), impFaults = 0, Kept,
                      NEW k \in ImportCalls, impCalls[k].kind \in {"parse", "save"},
                      NEW f \in 1..MaxFields
               PROVE  \E c \in ImportCalls : <<c, f>> \in impMappings
    BY DEF EveryFieldMapped
  <2>1. PICK c \in ImportCalls : Anchor(c)
    BY <1>1 DEF MappingsInv, FieldKinds
  <2>2. impCalls[c].pc = "done"
    BY <2>1 DEF Anchor, FieldKinds, NoCall
  <2> QED BY <2>1, <2>2 DEF Anchor
<1>5. TestsHaveVersions
  <2>1. impTests \subseteq [by : ImportCalls, row : 1..MaxRows, version : BOOLEAN]
        /\ impFaults \in Nat
    BY <1>1, ImportTypes DEF ImportCallsInv, ImportTypeOK
  <2> QED BY <1>1, <2>1 DEF TestsInv, TestsHaveVersions
<1> QED BY <1>1, <1>2, <1>3, <1>4, <1>5 DEF ImportCallsInv, ImportCounted

-----------------------------------------------------------------------------
(* ExecutionsPage: what is shown exists, and what is on its way to the     *)
(* dialog is about the execution it was opened on.                         *)

Dialog == [open : BOOLEAN, exec : PageExecs \cup {Nothing}, status : Shown \cup {"none"}]

\* What a request is about exists, and what it has been answered is not taken back: an
\* execution that is there once does not become unknown, and a deleted one stays deleted.
AnswerKnown(r) ==
  /\ r.kind \in {"open", "poll", "start", "delete"} => pageServer[r.exec] # "none"
  /\ r.kind \in {"open", "poll"} => r.answer \in Shown \cup {Nothing}
  /\ r.kind \in {"create", "start", "delete"} => r.answer \in {"done", Nothing}
  /\ r.kind = "create" => (pageServer[r.exec] = "none" <=> r.answer = Nothing)

ListKnown(r) ==
  /\ r.seen.exec # Nothing => pageServer[r.seen.exec] # "none"
  /\ r.answer # Unread => \A e \in PageExecs :
       /\ r.answer[e] # "none" => pageServer[e] # "none"
       /\ r.answer[e] = "deleted" => pageServer[e] = "deleted"
       /\ r.seen.exec = e => r.answer[e] # "none"

ShownKnown ==
  /\ \A e \in PageExecs : pageList[e] # "none" => pageServer[e] # "none"
  /\ pageDialog.exec # Nothing => pageServer[pageDialog.exec] # "none"
  /\ pagePoll # Nothing => pageServer[pagePoll] # "none"

\* A dialog that is closed, that waits for the execution that was clicked, or that shows it.
Closed == ~pageCrossed.dialog /\ ~pageDialog.open => pagePoll = Nothing

Opening ==
  ~pageCrossed.dialog /\ pageDialog.open /\ Of({"open"}) # {} =>
    /\ pagePoll = Nothing /\ Of({"poll"}) = {}
    /\ \A r, q \in Of({"open"}) : r = q /\ r.exec = pageClicked
    /\ \A r \in Of({"list"}) : r.seen.exec = Nothing

Showing ==
  ~pageCrossed.dialog /\ pageDialog.open /\ Of({"open"}) = {} =>
    /\ pageDialog.exec = pageClicked /\ pageClicked # Nothing
    /\ pagePoll \in {Nothing, pageClicked}
    /\ \A r, q \in Of({"poll"}) : r = q /\ r.exec = pageClicked /\ pagePoll = pageClicked
    /\ \A r \in Of({"list"}) : r.seen.exec \in {Nothing, pageClicked}

OneList == ~pageCrossed.list => \A r, q \in Of({"list"}) : r = q

\* A running execution that has no interval has been shown by a list, since when every list
\* was asked for with the dialog that shows it running.
Following ==
  /\ ~pageCrossed.dialog /\ ~pageCrossed.list /\ pageDialog.open /\ Of({"open"}) = {}
  /\ pageDialog.status = "RUNNING" /\ pagePoll = Nothing
  => /\ pageList[pageClicked] = "RUNNING" \/ pageServer[pageClicked] = "deleted"
     /\ \A r \in Of({"list"}) : r.seen = [exec |-> pageClicked, status |-> "RUNNING"]

-----------------------------------------------------------------------------
PageKnown ==
  /\ PageTypeOK /\ pageDialog \in Dialog
  /\ \A r \in pageRequests : AnswerKnown(r) /\ (r.kind = "list" => ListKnown(r))
  /\ ShownKnown

IsList(r) ==
  /\ r.kind = "list" /\ r.seen \in Seen /\ r.answer \in Lists \cup {Unread}
  /\ r = [kind |-> "list", seen |-> r.seen, answer |-> r.answer]

IsAsk(r) ==
  /\ r.kind \in {"open", "poll", "create", "start", "delete"} /\ r.exec \in PageExecs
  /\ r.answer \in Shown \cup {"done", Nothing}
  /\ r = [kind |-> r.kind, exec |-> r.exec, answer |-> r.answer]

LEMMA RequestIs ==
  ASSUME NEW r
  PROVE  r \in Request <=> IsList(r) \/ IsAsk(r)
<1>1. ASSUME r \in Request PROVE IsList(r) \/ IsAsk(r)
  BY <1>1 DEF Request, IsList, IsAsk
<1>2. ASSUME IsList(r) PROVE r \in Request
  BY <1>2 DEF Request, IsList
<1>3. ASSUME IsAsk(r) PROVE r \in Request
  BY <1>3 DEF Request, IsAsk
<1> QED BY <1>1, <1>2, <1>3

\* What the server comes to, as seen by a request that is in flight all along.
LEMMA StaysKnown ==
  ASSUME NEW r \in Request, AnswerKnown(r), r.kind = "list" => ListKnown(r),
         \A e \in PageExecs : pageServer[e] # "none" => pageServer'[e] # "none",
         \A e \in PageExecs : pageServer[e] = "deleted" => pageServer'[e] = "deleted",
         r.kind = "create" => (pageServer[r.exec] = "none" <=> pageServer'[r.exec] = "none")
  PROVE  AnswerKnown(r)' /\ (r.kind = "list" => ListKnown(r)')
<1>1. CASE IsList(r)
  BY <1>1 DEF IsList, AnswerKnown, ListKnown, Seen
<1>2. CASE IsAsk(r)
  BY <1>2 DEF IsAsk, AnswerKnown
<1> QED BY <1>1, <1>2, RequestIs

LEMMA ShownStays ==
  ASSUME PageKnown, UNCHANGED <<pageList, pageDialog, pagePoll>>,
         \A e \in PageExecs : pageServer[e] # "none" => pageServer'[e] # "none"
  PROVE  ShownKnown'
<1>1. pageDialog.exec \in PageExecs \cup {Nothing} /\ pagePoll \in PageExecs \cup {Nothing}
  BY DEF PageKnown, Dialog, PageTypeOK
<1> QED BY <1>1 DEF PageKnown, ShownKnown

LEMMA LabelIs ==
  ASSUME NEW s \in Shown \cup {"none", "created", "deleted"}
  PROVE  /\ Label(s) \in Shown \cup {"none", "deleted"}
         /\ Label(s) = "none" <=> s = "none"
         /\ Label(s) = "deleted" <=> s = "deleted"
BY DEF Label, Shown

LEMMA WorkKnown ==
  ASSUME PageKnown, NEW e \in PageExecs, Work(e)
  PROVE  PageKnown'
<1>1. /\ pageServer' \in [PageExecs -> Shown \cup {"none", "created", "deleted"}]
      /\ \A x \in PageExecs : pageServer[x] # "none" <=> pageServer'[x] # "none"
      /\ \A x \in PageExecs : pageServer[x] = "deleted" => pageServer'[x] = "deleted"
  BY DEF PageKnown, PageTypeOK, Work, Shown
<1>2. UNCHANGED <<pageList, pageDialog, pagePoll, pageRequests, pageClicked, pageCrossed,
                  pageSteps, pageFaults>>
  BY DEF Work
<1>3. PageTypeOK' /\ pageDialog' \in Dialog
  BY <1>1, <1>2 DEF PageKnown, PageTypeOK
<1>4. ASSUME NEW r \in pageRequests' PROVE AnswerKnown(r)' /\ (r.kind = "list" => ListKnown(r)')
  <2>1. r \in Request /\ AnswerKnown(r) /\ (r.kind = "list" => ListKnown(r))
    BY <1>2, <1>4 DEF PageKnown, PageTypeOK
  <2>2. r.kind = "create" => (pageServer[r.exec] = "none" <=> pageServer'[r.exec] = "none")
    BY <1>1, <2>1, RequestIs DEF IsList, IsAsk
  <2> QED BY <1>1, <2>1, <2>2, StaysKnown
<1> QED BY <1>1, <1>2, <1>3, <1>4, ShownStays DEF PageKnown

\* The request that replaces r when the server has answered it.
LEMMA AnswerIs ==
  ASSUME PageKnown, NEW r \in pageRequests, Answer(r)
  PROVE  \E v : /\ pageRequests' = (pageRequests \ {r}) \cup {[r EXCEPT !.answer = v]}
                /\ r.kind = "list" => v = [e \in PageExecs |-> Label(pageServer[e])]
                /\ r.kind \in {"open", "poll"} => v = Label(pageServer[r.exec])
                /\ r.kind \in {"create", "start", "delete"} => v = "done"
<1>1. r \in Request
  BY DEF PageKnown, PageTypeOK
<1>2. CASE r.kind = "list"
  BY <1>2 DEF Answer
<1>3. CASE r.kind \in {"open", "poll"}
  BY <1>3 DEF Answer
<1>4. CASE r.kind \in {"create", "start", "delete"}
  BY <1>4 DEF Answer
<1> QED BY <1>1, <1>2, <1>3, <1>4, RequestIs DEF IsList, IsAsk

LEMMA AnswerKeeps ==
  ASSUME PageKnown, NEW r \in pageRequests, Answer(r)
  PROVE  PageKnown'
<1>1. r \in Request /\ AnswerKnown(r) /\ (r.kind = "list" => ListKnown(r))
  BY DEF PageKnown, PageTypeOK
<1>2. pageServer \in [PageExecs -> Shown \cup {"none", "created", "deleted"}]
  BY DEF PageKnown, PageTypeOK
<1>3. UNCHANGED <<pageList, pageDialog, pagePoll, pageClicked, pageCrossed, pageSteps,
                  pageFaults>>
  BY DEF Answer
<1>4. Waiting(r) /\ ~AboutDeleted(r)
  BY DEF Answer
<1>5. /\ pageServer' \in [PageExecs -> Shown \cup {"none", "created", "deleted"}]
      /\ \A e \in PageExecs : pageServer[e] # "none" => pageServer'[e] # "none"
      /\ \A e \in PageExecs : pageServer[e] = "deleted" => pageServer'[e] = "deleted"
      /\ \A e \in PageExecs : (pageServer[e] = "none") # (pageServer'[e] = "none")
                                => r.kind = "create" /\ e = r.exec
      /\ r.kind = "create" => pageServer'[r.exec] # "none"
  <2>1. CASE IsList(r) \/ r.kind \in {"open", "poll"}
    BY <1>2, <2>1 DEF Answer, IsList
  <2>2. CASE IsAsk(r) /\ r.kind = "create"
    <3>1. pageServer' = [pageServer EXCEPT ![r.exec] = "created"] /\ pageServer[r.exec] = "none"
      BY <1>1, <1>4, <2>2 DEF Answer, IsAsk, Waiting, AnswerKnown
    <3> QED BY <1>2, <2>2, <3>1 DEF IsAsk
  <2>3. CASE IsAsk(r) /\ r.kind = "start"
    <3>1. /\ pageServer' = [pageServer EXCEPT ![r.exec] = "PENDING"]
          /\ pageServer[r.exec] \notin {"none", "deleted"}
      BY <1>1, <1>4, <2>3 DEF Answer, IsAsk, AboutDeleted, AnswerKnown
    <3> QED BY <1>2, <2>3, <3>1 DEF IsAsk, Shown
  <2>4. CASE IsAsk(r) /\ r.kind = "delete"
    <3>1. /\ pageServer' = [pageServer EXCEPT ![r.exec] = "deleted"]
          /\ pageServer[r.exec] # "none"
      BY <1>1, <2>4 DEF Answer, IsAsk, AnswerKnown
    <3> QED BY <1>2, <2>4, <3>1 DEF IsAsk
  <2> QED BY <1>1, <2>1, <2>2, <2>3, <2>4, RequestIs DEF IsAsk
<1>6. PICK v : /\ pageRequests' = (pageRequests \ {r}) \cup {[r EXCEPT !.answer = v]}
               /\ r.kind = "list" => v = [e \in PageExecs |-> Label(pageServer[e])]
               /\ r.kind \in {"open", "poll"} => v = Label(pageServer[r.exec])
               /\ r.kind \in {"create", "start", "delete"} => v = "done"
  BY AnswerIs
<1> DEFINE a == [r EXCEPT !.answer = v]
<1>7. a \in Request /\ AnswerKnown(a)' /\ (a.kind = "list" => ListKnown(a)')
  <2>1. CASE IsList(r)
    <3>1. a = [kind |-> "list", seen |-> r.seen, answer |-> v] /\ r.seen \in Seen
      BY <2>1 DEF IsList
    <3>2. v = [e \in PageExecs |-> Label(pageServer[e])]
      BY <1>6, <2>1 DEF IsList
    <3>3. v \in Lists /\ \A e \in PageExecs : /\ v[e] = "none" <=> pageServer[e] = "none"
                                              /\ v[e] = "deleted" <=> pageServer[e] = "deleted"
      BY <1>2, <3>2, LabelIs DEF Lists
    <3>4. IsList(a)
      BY <3>1, <3>3 DEF IsList
    <3>5. /\ a.kind = "list" /\ a.seen = r.seen /\ a.answer = v
          /\ r.seen.exec \in PageExecs \cup {Nothing}
      BY <3>1 DEF Seen
    <3>6. AnswerKnown(a)'
      BY <3>5 DEF AnswerKnown
    <3> HIDE DEF a
    <3>7. ListKnown(a)'
      <4>1. r.seen.exec # Nothing =>
              /\ r.seen.exec \in PageExecs /\ pageServer[r.seen.exec] # "none"
              /\ pageServer'[r.seen.exec] # "none" /\ v[r.seen.exec] # "none"
        BY <1>1, <1>5, <2>1, <3>3, <3>5 DEF ListKnown, IsList
      <4>2. \A e \in PageExecs : /\ v[e] # "none" => pageServer'[e] # "none"
                                 /\ v[e] = "deleted" => pageServer'[e] = "deleted"
        BY <1>5, <3>3
      <4>3. \A e \in PageExecs : r.seen.exec = e => v[e] # "none"
        BY <4>1, PageAssumption
      <4> QED BY <3>5, <4>1, <4>2, <4>3 DEF ListKnown
    <3> QED BY <3>4, <3>6, <3>7, RequestIs
  <2>2. CASE IsAsk(r)
    <3>1. /\ a = [kind |-> r.kind, exec |-> r.exec, answer |-> v] /\ r.exec \in PageExecs
          /\ r.kind \in {"open", "poll", "create", "start", "delete"}
      BY <2>2 DEF IsAsk
    <3>2. r.kind \in {"open", "poll"} => v \in Shown
      <4> SUFFICES ASSUME r.kind \in {"open", "poll"} PROVE v \in Shown
        OBVIOUS
      <4>1. pageServer[r.exec] \notin {"none", "deleted"}
        BY <1>1, <1>4, <3>1 DEF AnswerKnown, AboutDeleted
      <4> QED BY <1>2, <1>6, <3>1, <4>1, LabelIs
    <3>3. a.kind = r.kind /\ a.exec = r.exec /\ a.answer = v
      BY <3>1
    <3>4. v \in Shown \cup {"done"}
      BY <1>6, <3>1, <3>2
    <3>5. IsAsk(a)
      BY <3>1, <3>3, <3>4 DEF IsAsk
    <3>6. v # Nothing
      BY <3>4 DEF Shown, Nothing
    <3>7. AnswerKnown(a)'
      BY <1>1, <1>5, <1>6, <3>1, <3>2, <3>3, <3>6 DEF AnswerKnown
    <3> QED BY <3>1, <3>3, <3>5, <3>7, RequestIs
  <2> QED BY <1>1, <2>1, <2>2, RequestIs
<1> HIDE DEF a
<1>8. ASSUME NEW q \in pageRequests', q # a
      PROVE  q \in Request /\ AnswerKnown(q)' /\ (q.kind = "list" => ListKnown(q)')
  <2>1. q \in pageRequests /\ q # r
    BY <1>6, <1>8 DEF a
  <2>2. q \in Request /\ AnswerKnown(q) /\ (q.kind = "list" => ListKnown(q))
    BY <2>1 DEF PageKnown, PageTypeOK
  <2>3. q.kind = "create" => (pageServer[q.exec] = "none" <=> pageServer'[q.exec] = "none")
    <3> SUFFICES ASSUME q.kind = "create",
                        (pageServer[q.exec] = "none") # (pageServer'[q.exec] = "none")
                 PROVE  FALSE
      OBVIOUS
    <3>1. IsAsk(q)
      BY <2>2, RequestIs DEF IsList
    <3>2. r.kind = "create" /\ q.exec = r.exec
      BY <1>5, <3>1 DEF IsAsk
    <3>3. IsAsk(r)
      BY <1>1, <3>2, RequestIs DEF IsList
    <3>4. r.answer = Nothing
      BY <1>4, <3>2 DEF Waiting
    <3>5. q.answer = Nothing
      BY <1>1, <2>2, <3>2, <3>4 DEF AnswerKnown
    <3> QED BY <2>1, <3>1, <3>2, <3>3, <3>4, <3>5 DEF IsAsk
  <2> QED BY <1>5, <2>2, <2>3, StaysKnown
<1>9. \A q \in pageRequests' : /\ q \in Request /\ AnswerKnown(q)'
                               /\ q.kind = "list" => ListKnown(q)'
  BY <1>7, <1>8
<1>10. PageTypeOK' /\ pageDialog' \in Dialog
  BY <1>3, <1>5, <1>9 DEF PageKnown, PageTypeOK
<1> QED BY <1>3, <1>5, <1>9, <1>10, ShownStays DEF PageKnown

\* What the page does, when the server does nothing.
LEMMA RequestsStay ==
  ASSUME PageKnown, UNCHANGED pageServer, NEW new,
         \/ pageRequests' \subseteq pageRequests
         \/ /\ pageRequests' \subseteq pageRequests \cup {new}
            /\ new \in Request /\ AnswerKnown(new) /\ (new.kind = "list" => ListKnown(new))
  PROVE  \A r \in pageRequests' : /\ r \in Request /\ AnswerKnown(r)'
                                  /\ r.kind = "list" => ListKnown(r)'
<1> SUFFICES ASSUME NEW r \in pageRequests'
             PROVE  /\ r \in Request /\ AnswerKnown(r)'
                    /\ r.kind = "list" => ListKnown(r)'
  OBVIOUS
<1>1. r \in Request /\ AnswerKnown(r) /\ (r.kind = "list" => ListKnown(r))
  BY DEF PageKnown, PageTypeOK
<1> QED BY <1>1 DEF AnswerKnown, ListKnown

LEMMA ListIs ==
  ASSUME PageKnown, NEW seen \in Seen,
         seen.exec # Nothing => pageServer[seen.exec] # "none"
  PROVE  List(seen) \in Request /\ AnswerKnown(List(seen)) /\ ListKnown(List(seen))
<1>1. IsList(List(seen))
  BY DEF List, IsList
<1> QED BY <1>1, RequestIs DEF List, AnswerKnown, ListKnown

LEMMA AskIs ==
  ASSUME PageKnown, NEW e \in PageExecs,
         NEW kind \in {"open", "poll", "create", "start", "delete"},
         kind = "create" <=> pageServer[e] = "none"
  PROVE  Ask(kind, e) \in Request /\ AnswerKnown(Ask(kind, e)) /\ Ask(kind, e).kind # "list"
<1>1. IsAsk(Ask(kind, e))
  BY DEF Ask, IsAsk
<1> QED BY <1>1, RequestIs DEF Ask, AnswerKnown

\* What a poll or the dialog of a row is answered.
LEMMA AnsweredIs ==
  ASSUME PageKnown, NEW r \in pageRequests, r.kind \in {"open", "poll"}, ~Waiting(r)
  PROVE  r.exec \in PageExecs /\ r.answer \in Shown /\ pageServer[r.exec] # "none"
<1>1. r \in Request /\ AnswerKnown(r)
  BY DEF PageKnown, PageTypeOK
<1> QED BY <1>1, RequestIs DEF IsList, IsAsk, AnswerKnown, Waiting

LEMMA PageKeeps ==
  ASSUME PageKnown, UNCHANGED pageServer,
         \A r \in pageRequests' : /\ r \in Request /\ AnswerKnown(r)'
                                  /\ r.kind = "list" => ListKnown(r)',
         pageDialog' \in Dialog, pageList' \in [PageExecs -> Shown \cup {"none"}],
         pagePoll' \in PageExecs \cup {Nothing}, pageClicked' \in PageExecs \cup {Nothing},
         pageCrossed' \in [list : BOOLEAN, dialog : BOOLEAN],
         pageSteps' \in 0..MaxUserSteps, pageFaults' \in 0..MaxPageFaults,
         ShownKnown'
  PROVE  PageKnown'
<1>1. /\ pageDialog'.open \in BOOLEAN
      /\ [exec |-> pageDialog'.exec, status |-> pageDialog'.status] \in Seen
  BY DEF Dialog, Seen
<1>2. pageServer' \in [PageExecs -> Shown \cup {"none", "created", "deleted"}]
  BY DEF PageKnown, PageTypeOK
<1> QED BY <1>1, <1>2 DEF PageKnown, PageTypeOK

LEMMA PageTypes ==
  ASSUME PageKnown
  PROVE  /\ pageDialog \in Dialog /\ pageList \in [PageExecs -> Shown \cup {"none"}]
         /\ pagePoll \in PageExecs \cup {Nothing} /\ pageClicked \in PageExecs \cup {Nothing}
         /\ pageCrossed \in [list : BOOLEAN, dialog : BOOLEAN]
         /\ pageSteps \in 0..MaxUserSteps /\ pageFaults \in 0..MaxPageFaults
         /\ pageServer \in [PageExecs -> Shown \cup {"none", "created", "deleted"}]
         /\ {MaxUserSteps, MaxPageFaults} \subseteq Nat
         /\ \A r \in pageRequests : IsList(r) \/ IsAsk(r)
BY PageAssumption, RequestIs DEF PageKnown, PageTypeOK

\* What the dialog sees is what exists.
LEMMA SeenIs ==
  ASSUME PageKnown
  PROVE  LET seen == IF pageDialog.open
                     THEN [exec |-> pageDialog.exec, status |-> pageDialog.status] ELSE Unseen
         IN  seen \in Seen /\ (seen.exec # Nothing => pageServer[seen.exec] # "none")
BY PageTypes DEF Unseen, Seen, Dialog, PageKnown, ShownKnown

LEMMA ListTickKeeps == PageKnown /\ ListTick => PageKnown'
<1> SUFFICES ASSUME PageKnown, ListTick PROVE PageKnown'
  OBVIOUS
<1> DEFINE seen == IF pageDialog.open
                   THEN [exec |-> pageDialog.exec, status |-> pageDialog.status] ELSE Unseen
<1>1. seen \in Seen /\ (seen.exec # Nothing => pageServer[seen.exec] # "none")
  BY SeenIs
<1>2. pageRequests' = pageRequests \cup {List(seen)}
  BY DEF ListTick
<1> HIDE DEF seen
<1>3. \A r \in pageRequests' : /\ r \in Request /\ AnswerKnown(r)'
                               /\ r.kind = "list" => ListKnown(r)'
  BY <1>1, <1>2, ListIs, RequestsStay DEF ListTick
<1>4. pageCrossed' \in [list : BOOLEAN, dialog : BOOLEAN]
  BY PageTypes DEF ListTick
<1>5. ShownKnown'
  BY DEF ListTick, PageKnown, ShownKnown
<1> QED BY <1>3, <1>4, <1>5, PageTypes, PageKeeps DEF ListTick

LEMMA ClicksKeep ==
  ASSUME PageKnown, NEW e \in PageExecs, RunTest(e) \/ DeleteRow(e) \/ ClickRow(e)
  PROVE  PageKnown'
<1>1. UNCHANGED <<pageServer, pageList, pagePoll, pageFaults>>
  BY DEF RunTest, DeleteRow, ClickRow
<1>2. pageSteps' \in 0..MaxUserSteps
  BY PageTypes DEF RunTest, DeleteRow, ClickRow
<1>3. /\ pageDialog' \in Dialog /\ pageDialog'.exec = pageDialog.exec
      /\ pageCrossed' \in [list : BOOLEAN, dialog : BOOLEAN]
      /\ pageClicked' \in PageExecs \cup {Nothing}
  BY PageTypes DEF RunTest, DeleteRow, ClickRow, Dialog
<1>4. \E kind \in {"open", "poll", "create", "start", "delete"} :
        /\ kind = "create" <=> pageServer[e] = "none"
        /\ pageRequests' = pageRequests \cup {Ask(kind, e)}
  BY DEF RunTest, DeleteRow, ClickRow, PageKnown, ShownKnown
<1>5. \A r \in pageRequests' : /\ r \in Request /\ AnswerKnown(r)'
                               /\ r.kind = "list" => ListKnown(r)'
  BY <1>1, <1>4, AskIs, RequestsStay
<1>6. ShownKnown'
  BY <1>1, <1>3 DEF PageKnown, ShownKnown
<1> QED BY <1>1, <1>2, <1>3, <1>5, <1>6, PageTypes, PageKeeps

LEMMA PollTickKeeps == PageKnown /\ PollTick => PageKnown'
<1> SUFFICES ASSUME PageKnown, PollTick PROVE PageKnown'
  OBVIOUS
<1>1. /\ pageRequests' = pageRequests \cup {Ask("poll", pagePoll)}
      /\ pagePoll \in PageExecs /\ pageServer[pagePoll] # "none"
  BY PageTypes DEF PollTick, PageKnown, ShownKnown
<1>2. \A r \in pageRequests' : /\ r \in Request /\ AnswerKnown(r)'
                               /\ r.kind = "list" => ListKnown(r)'
  BY <1>1, AskIs, RequestsStay DEF PollTick
<1>3. pageCrossed' \in [list : BOOLEAN, dialog : BOOLEAN]
  BY PageTypes DEF PollTick
<1>4. ShownKnown'
  BY DEF PollTick, PageKnown, ShownKnown
<1> QED BY <1>2, <1>3, <1>4, PageTypes, PageKeeps DEF PollTick

LEMMA GoOnKeeps ==
  ASSUME PageKnown, NEW r \in pageRequests, GoOn(r)
  PROVE  PageKnown'
<1>1. r \in Request /\ AnswerKnown(r)
  BY DEF PageKnown, PageTypeOK
<1>2. IsAsk(r) /\ pageServer[r.exec] # "none"
  BY <1>1, RequestIs DEF GoOn, IsList, AnswerKnown, Nothing
<1>3. \/ pageRequests' = (pageRequests \ {r}) \cup {Ask("start", r.exec)}
      \/ pageRequests' = (pageRequests \ {r}) \cup {List(Unseen)}
  BY DEF GoOn
<1>4. Unseen \in Seen /\ Unseen.exec = Nothing
  BY DEF Unseen, Seen
<1>5. \A q \in pageRequests' : /\ q \in Request /\ AnswerKnown(q)'
                               /\ q.kind = "list" => ListKnown(q)'
  <2>1. CASE pageRequests' = (pageRequests \ {r}) \cup {Ask("start", r.exec)}
    <3>1. /\ Ask("start", r.exec) \in Request /\ AnswerKnown(Ask("start", r.exec))
          /\ Ask("start", r.exec).kind # "list"
      BY <1>2, AskIs DEF IsAsk
    <3> QED BY <2>1, <3>1, RequestsStay DEF GoOn
  <2>2. CASE pageRequests' = (pageRequests \ {r}) \cup {List(Unseen)}
    <3>1. List(Unseen) \in Request /\ AnswerKnown(List(Unseen)) /\ ListKnown(List(Unseen))
      BY <1>4, ListIs
    <3> QED BY <2>2, <3>1, RequestsStay DEF GoOn
  <2> QED BY <1>3, <2>1, <2>2
<1>6. pageCrossed' \in [list : BOOLEAN, dialog : BOOLEAN]
  BY PageTypes DEF GoOn, Dialog
<1>7. ShownKnown'
  BY DEF GoOn, PageKnown, ShownKnown
<1> QED BY <1>5, <1>6, <1>7, PageTypes, PageKeeps DEF GoOn

LEMMA GoneKeeps ==
  ASSUME PageKnown, NEW r,
         \/ r \in pageRequests /\ (Fails(r) \/ ApplyOpen(r) \/ ApplyPoll(r))
         \/ CloseDialog
  PROVE  PageKnown'
<1>1. /\ UNCHANGED <<pageServer, pageList, pageClicked, pageSteps>>
      /\ pageRequests' \subseteq pageRequests
  BY DEF Fails, ApplyOpen, ApplyPoll, CloseDialog
<1>2. \A q \in pageRequests' : /\ q \in Request /\ AnswerKnown(q)'
                               /\ q.kind = "list" => ListKnown(q)'
  BY <1>1, RequestsStay
<1>3. pageCrossed' \in [list : BOOLEAN, dialog : BOOLEAN]
  BY PageTypes DEF Fails, ApplyOpen, ApplyPoll, CloseDialog, Dialog
<1>4. pageFaults' \in 0..MaxPageFaults
  BY PageTypes DEF Fails, ApplyOpen, ApplyPoll, CloseDialog
<1>5. /\ pageDialog' \in Dialog /\ pagePoll' \in PageExecs \cup {Nothing}
      /\ ShownKnown'
  <2>1. CASE r \in pageRequests /\ (ApplyOpen(r) \/ ApplyPoll(r))
    <3>1. /\ pageDialog' = [pageDialog EXCEPT !.exec = r.exec, !.status = r.answer]
          /\ pagePoll' \in {r.exec, pagePoll, Nothing}
          /\ r.kind \in {"open", "poll"} /\ ~Waiting(r)
      BY <2>1 DEF ApplyOpen, ApplyPoll
    <3>2. r.exec \in PageExecs /\ r.answer \in Shown /\ pageServer[r.exec] # "none"
      BY <2>1, <3>1, AnsweredIs
    <3>3. pageDialog' \in Dialog /\ pageDialog'.exec = r.exec
      BY <3>1, <3>2, PageTypes DEF Dialog
    <3> QED BY <1>1, <3>1, <3>2, <3>3, PageTypes DEF PageKnown, ShownKnown
  <2>2. CASE Fails(r) \/ CloseDialog
    <3>1. /\ pageDialog' \in Dialog /\ pageDialog'.exec = pageDialog.exec
          /\ pagePoll' \in {pagePoll, Nothing}
      BY <2>2, PageTypes DEF Fails, CloseDialog, Dialog
    <3> QED BY <1>1, <3>1, PageTypes DEF PageKnown, ShownKnown
  <2> QED BY <2>1, <2>2
<1> QED BY <1>1, <1>2, <1>3, <1>4, <1>5, PageTypes, PageKeeps

\* What a list shows when it is applied.
LEMMA AppliedIs ==
  ASSUME PageKnown, NEW r \in pageRequests, ApplyList(r)
  PROVE  /\ IsList(r) /\ ListKnown(r) /\ r.answer \in Lists /\ r.answer # Unread
         /\ \A e \in PageExecs : /\ r.answer[e] # "none" => pageServer[e] # "none"
                                 /\ r.answer[e] = "deleted" => pageServer[e] = "deleted"
                                 /\ r.seen.exec = e => r.answer[e] # "none"
                                 /\ r.answer[e] \in Shown \cup {"none", "deleted"}
         /\ pageList' = [e \in PageExecs |->
              IF r.answer[e] = "deleted" THEN "none" ELSE r.answer[e]]
         /\ pageRequests' = pageRequests \ {r}
         /\ pageDialog' \in Dialog /\ pageDialog'.open = pageDialog.open
         /\ pageDialog'.exec = pageDialog.exec
         /\ \/ pageDialog' = pageDialog
            \/ /\ r.seen.exec \in PageExecs /\ r.answer[r.seen.exec] \in Shown
               /\ pageDialog'.status = r.answer[r.seen.exec]
         /\ r.seen.exec \in PageExecs /\ r.answer[r.seen.exec] \in Shown \ {r.seen.status}
              => pageDialog'.status = r.answer[r.seen.exec]
<1>1. IsList(r) /\ ListKnown(r) /\ r.answer \in Lists /\ r.answer # Unread
  BY PageTypes DEF ApplyList, Waiting, IsList, IsAsk, PageKnown
<1>2. \A e \in PageExecs : /\ r.answer[e] # "none" => pageServer[e] # "none"
                           /\ r.answer[e] = "deleted" => pageServer[e] = "deleted"
                           /\ r.seen.exec = e => r.answer[e] # "none"
                           /\ r.answer[e] \in Shown \cup {"none", "deleted"}
  BY <1>1 DEF ListKnown, Lists
<1>3. r.seen.exec \in PageExecs \cup {Nothing}
  BY <1>1 DEF IsList, Seen
<1>4. pageDialog' =
       IF /\ r.seen.exec # Nothing
          /\ r.answer[r.seen.exec] \notin {"deleted", "none", r.seen.status}
       THEN [pageDialog EXCEPT !.status = r.answer[r.seen.exec]]
       ELSE pageDialog
  BY DEF ApplyList
<1>5. CASE /\ r.seen.exec # Nothing
           /\ r.answer[r.seen.exec] \notin {"deleted", "none", r.seen.status}
  <2>1. /\ r.seen.exec \in PageExecs /\ r.answer[r.seen.exec] \in Shown
        /\ pageDialog' = [pageDialog EXCEPT !.status = r.answer[r.seen.exec]]
    BY <1>2, <1>3, <1>4, <1>5
  <2>2. /\ pageDialog' \in Dialog /\ pageDialog'.status = r.answer[r.seen.exec]
        /\ pageDialog'.open = pageDialog.open /\ pageDialog'.exec = pageDialog.exec
    BY <2>1, PageTypes DEF Dialog
  <2> QED BY <1>1, <1>2, <2>1, <2>2 DEF ApplyList
<1>6. CASE ~( /\ r.seen.exec # Nothing
              /\ r.answer[r.seen.exec] \notin {"deleted", "none", r.seen.status})
  <2>1. pageDialog' = pageDialog
    BY <1>4, <1>6
  <2>2. ~(r.seen.exec \in PageExecs /\ r.answer[r.seen.exec] \in Shown \ {r.seen.status})
    BY <1>6, PageAssumption DEF Shown
  <2> QED BY <1>1, <1>2, <2>1, <2>2, PageTypes DEF ApplyList
<1> QED BY <1>5, <1>6

LEMMA ApplyListKeeps ==
  ASSUME PageKnown, NEW r \in pageRequests, ApplyList(r)
  PROVE  PageKnown'
<1>1. UNCHANGED <<pageServer, pagePoll, pageClicked, pageCrossed, pageSteps, pageFaults>>
  BY DEF ApplyList
<1>2. \A q \in pageRequests' : /\ q \in Request /\ AnswerKnown(q)'
                               /\ q.kind = "list" => ListKnown(q)'
  BY <1>1, RequestsStay, AppliedIs
<1>3. /\ pageDialog' \in Dialog /\ pageDialog'.exec = pageDialog.exec
      /\ pageList' \in [PageExecs -> Shown \cup {"none"}]
      /\ \A e \in PageExecs : pageList'[e] # "none" => pageServer[e] # "none"
  BY AppliedIs
<1>4. ShownKnown'
  BY <1>1, <1>3 DEF PageKnown, ShownKnown
<1> QED BY <1>1, <1>2, <1>3, <1>4, PageTypes, PageKeeps

LEMMA KnownInductive == PageKnown /\ [PageNext]_pageVars => PageKnown'
<1> SUFFICES ASSUME PageKnown, [PageNext]_pageVars PROVE PageKnown'
  OBVIOUS
<1>1. CASE UNCHANGED pageVars
  BY <1>1 DEF pageVars, PageKnown, PageTypeOK, ShownKnown, AnswerKnown, ListKnown
<1>2. ASSUME NEW e \in PageExecs, Work(e) \/ RunTest(e) \/ DeleteRow(e) \/ ClickRow(e)
      PROVE  PageKnown'
  BY <1>2, WorkKnown, ClicksKeep
<1>3. CASE CloseDialog
  BY <1>3, GoneKeeps
<1>4. ASSUME NEW r \in pageRequests,
             Answer(r) \/ Fails(r) \/ ApplyList(r) \/ GoOn(r) \/ ApplyOpen(r) \/ ApplyPoll(r)
      PROVE  PageKnown'
  BY <1>4, AnswerKeeps, GoneKeeps, ApplyListKeeps, GoOnKeeps
<1> QED BY <1>1, <1>2, <1>3, <1>4, ListTickKeeps, PollTickKeeps DEF PageNext

-----------------------------------------------------------------------------
(* The dialog.                                                             *)

DialogInv == Closed /\ Opening /\ Showing /\ OneList /\ Following

\* Answering a request changes none of what the dialog goes by.
LEMMA AnswerFollows ==
  ASSUME PageKnown, DialogInv, NEW r \in pageRequests, Answer(r)
  PROVE  DialogInv'
<1>1. UNCHANGED <<pageList, pageDialog, pagePoll, pageClicked, pageCrossed>>
  BY DEF Answer
<1>2. PICK v : pageRequests' = (pageRequests \ {r}) \cup {[r EXCEPT !.answer = v]}
  BY AnswerIs
<1>3. PICK a : /\ pageRequests' = (pageRequests \ {r}) \cup {a} /\ a.kind = r.kind
               /\ r.kind = "list" => a.seen = r.seen
               /\ r.kind # "list" => a.exec = r.exec
  <2>1. /\ [r EXCEPT !.answer = v].kind = r.kind
        /\ r.kind = "list" => [r EXCEPT !.answer = v].seen = r.seen
        /\ r.kind # "list" => [r EXCEPT !.answer = v].exec = r.exec
    BY PageTypes DEF IsList, IsAsk
  <2> QED BY <1>2, <2>1
<1>4. \A e \in PageExecs : pageServer[e] = "deleted" => pageServer'[e] = "deleted"
  <2>1. r.kind \in {"create", "start"} => r.exec \in PageExecs /\ pageServer[r.exec] # "deleted"
    BY PageTypes DEF PageKnown, Answer, AnswerKnown, AboutDeleted, Waiting, IsAsk, IsList
  <2> QED BY <2>1, PageTypes DEF Answer, IsList, IsAsk
<1>5. Closed' /\ Opening'
  BY <1>1, <1>3 DEF DialogInv, Closed, Opening, Of
<1>6. Showing'
  BY <1>1, <1>3 DEF DialogInv, Showing, Of
<1>7. OneList'
  BY <1>1, <1>3 DEF DialogInv, OneList, Of
<1>8. Following'
  <2>1. pageClicked # Nothing => pageClicked \in PageExecs
    BY PageTypes
  <2> QED BY <1>1, <1>3, <1>4, <2>1 DEF DialogInv, Following, Showing, Of
<1> QED BY <1>5, <1>6, <1>7, <1>8 DEF DialogInv

LEMMA WorkFollows ==
  ASSUME PageKnown, DialogInv, NEW e \in PageExecs, Work(e) \/ RunTest(e) \/ DeleteRow(e)
  PROVE  DialogInv'
<1>1. /\ UNCHANGED <<pageList, pageDialog, pagePoll, pageClicked, pageCrossed>>
      /\ \A x \in PageExecs : pageServer[x] = "deleted" => pageServer'[x] = "deleted"
  BY PageTypes DEF Work, RunTest, DeleteRow
<1>2. \A k \in {"open", "poll", "list"} : Of({k})' = Of({k})
  BY DEF Work, RunTest, DeleteRow, Of, Ask
<1>3. Following'
  <2>1. pageClicked # Nothing => pageClicked \in PageExecs
    BY PageTypes
  <2> QED BY <1>1, <1>2, <2>1 DEF DialogInv, Following, Showing
<1> QED BY <1>1, <1>2, <1>3 DEF DialogInv, Closed, Opening, Showing, OneList

\* A click opens the dialog, and nothing else is on its way to it unless that is noted.
LEMMA ClickFollows ==
  ASSUME PageKnown, DialogInv, NEW e \in PageExecs, ClickRow(e)
  PROVE  DialogInv'
<1>1. /\ pageDialog'.open /\ pageClicked' = e /\ UNCHANGED pagePoll
      /\ pageRequests' = pageRequests \cup {Ask("open", e)}
      /\ ~pageDialog.open /\ pageCrossed'.list = pageCrossed.list
      /\ ~pageCrossed'.dialog => /\ ~pageCrossed.dialog /\ Of({"open", "poll"}) = {}
                                 /\ \A r \in Of({"list"}) : r.seen = Unseen
  BY PageTypes DEF ClickRow, Dialog
<1>2. /\ Ask("open", e).kind = "open" /\ Ask("open", e).exec = e
      /\ Ask("open", e) \in Of({"open"})'
  BY <1>1 DEF Ask, Of
<1>3. Closed' /\ Showing' /\ Following'
  BY <1>1, <1>2 DEF Closed, Showing, Following
<1>4. Opening'
  BY <1>1, <1>2 DEF DialogInv, Closed, Opening, Of, Unseen
<1>5. OneList'
  BY <1>1, <1>2 DEF DialogInv, OneList, Of
<1> QED BY <1>3, <1>4, <1>5 DEF DialogInv

\* The list is asked for by the interval, or by GoOn when the dialog is closed.
LEMMA ListTickFollows ==
  ASSUME PageKnown, DialogInv, ListTick
  PROVE  DialogInv'
<1> DEFINE seen == IF pageDialog.open
                   THEN [exec |-> pageDialog.exec, status |-> pageDialog.status] ELSE Unseen
<1>1. /\ UNCHANGED <<pageServer, pageList, pageDialog, pagePoll, pageClicked>>
      /\ pageRequests' = pageRequests \cup {List(seen)}
      /\ pageCrossed'.list = (pageCrossed.list \/ Of({"list"}) # {})
      /\ pageCrossed'.dialog = (pageCrossed.dialog \/ Of({"open"}) # {})
  BY DEF ListTick
<1>2. /\ List(seen).kind = "list" /\ List(seen).seen = seen
      /\ pageDialog.open => seen = [exec |-> pageDialog.exec, status |-> pageDialog.status]
  BY DEF List
<1> HIDE DEF seen
<1>3. Closed' /\ Opening'
  BY <1>1, <1>2 DEF DialogInv, Closed, Opening, Of
<1>4. Showing'
  <2> SUFFICES ASSUME ~pageCrossed'.dialog, pageDialog.open, Of({"open"})' = {} PROVE Showing'
    BY <1>1 DEF Showing
  <2>1. ~pageCrossed.dialog /\ Of({"open"}) = {} /\ Of({"poll"})' = Of({"poll"})
    BY <1>1, <1>2 DEF Of
  <2>2. \A r \in Of({"list"})' : r \in Of({"list"}) \/ r.seen.exec = pageDialog.exec
    BY <1>1, <1>2 DEF Of
  <2>3. /\ pageDialog.exec = pageClicked /\ pageClicked # Nothing
        /\ pagePoll \in {Nothing, pageClicked}
        /\ \A r \in Of({"list"}) : r.seen.exec \in {Nothing, pageClicked}
        /\ \A r, q \in Of({"poll"}) : r = q /\ r.exec = pageClicked /\ pagePoll = pageClicked
    BY <2>1 DEF DialogInv, Showing
  <2>4. \A r \in Of({"list"})' : r.seen.exec \in {Nothing, pageClicked}
    BY <2>2, <2>3
  <2> QED BY <1>1, <2>1, <2>3, <2>4 DEF Showing
<1>5. OneList'
  BY <1>1, <1>2 DEF DialogInv, OneList, Of
<1>6. Following'
  BY <1>1, <1>2 DEF DialogInv, Following, Showing, Of
<1> QED BY <1>3, <1>4, <1>5, <1>6 DEF DialogInv

LEMMA GoOnFollows ==
  ASSUME PageKnown, DialogInv, NEW r \in pageRequests, GoOn(r)
  PROVE  DialogInv'
<1>1. UNCHANGED <<pageServer, pageList, pageDialog, pagePoll, pageClicked>>
  BY DEF GoOn
<1>2. CASE r.kind = "create"
  <2>1. UNCHANGED pageCrossed /\ \A k \in {"open", "poll", "list"} : Of({k})' = Of({k})
    BY <1>2 DEF GoOn, Of, Ask
  <2> QED BY <1>1, <2>1 DEF DialogInv, Closed, Opening, Showing, OneList, Following
<1>3. CASE r.kind \in {"start", "delete"}
  <2>1. /\ pageRequests' = (pageRequests \ {r}) \cup {List(Unseen)}
        /\ pageCrossed'.list = (pageCrossed.list \/ Of({"list"}) # {})
        /\ pageCrossed'.dialog = (pageCrossed.dialog \/ pageDialog.open)
    BY <1>3 DEF GoOn
  <2>2. List(Unseen).kind = "list"
    BY DEF List
  <2>3. OneList'
    BY <1>3, <2>1, <2>2 DEF DialogInv, OneList, Of
  <2> QED BY <1>1, <2>1, <2>3 DEF DialogInv, Closed, Opening, Showing, Following
<1> QED BY <1>2, <1>3 DEF GoOn

LEMMA PollTickFollows ==
  ASSUME PageKnown, DialogInv, PollTick
  PROVE  DialogInv'
<1>1. /\ UNCHANGED <<pageServer, pageList, pageDialog, pagePoll, pageClicked>>
      /\ pageRequests' = pageRequests \cup {Ask("poll", pagePoll)} /\ pagePoll # Nothing
      /\ pageCrossed'.list = pageCrossed.list
      /\ pageCrossed'.dialog = (pageCrossed.dialog \/ Of({"poll"}) # {})
  BY PageTypes DEF PollTick
<1>2. Ask("poll", pagePoll).kind = "poll" /\ Ask("poll", pagePoll).exec = pagePoll
  BY DEF Ask
<1>3. Closed' /\ Opening'
  BY <1>1, <1>2 DEF DialogInv, Closed, Opening, Of
<1>4. Showing'
  <2> SUFFICES ASSUME ~pageCrossed'.dialog, pageDialog.open, Of({"open"})' = {} PROVE Showing'
    BY <1>1 DEF Showing
  <2>1. Of({"open"}) = {} /\ Of({"poll"}) = {} /\ Of({"list"})' = Of({"list"})
    BY <1>1, <1>2 DEF Of
  <2>2. Of({"poll"})' = {Ask("poll", pagePoll)}
    BY <1>1, <1>2, <2>1 DEF Of
  <2>3. /\ pageDialog.exec = pageClicked /\ pageClicked # Nothing /\ pagePoll = pageClicked
        /\ \A r \in Of({"list"}) : r.seen.exec \in {Nothing, pageClicked}
    BY <1>1, <2>1 DEF DialogInv, Showing
  <2>4. \A r \in Of({"poll"})' : r = Ask("poll", pagePoll)
    BY <2>2
  <2> QED BY <1>1, <1>2, <2>1, <2>3, <2>4 DEF Showing
<1>5. OneList' /\ Following'
  BY <1>1, <1>2 DEF DialogInv, OneList, Following, Of
<1> QED BY <1>3, <1>4, <1>5 DEF DialogInv

LEMMA CloseFollows ==
  ASSUME PageKnown, DialogInv, CloseDialog
  PROVE  DialogInv'
<1>1. /\ ~pageDialog'.open /\ pagePoll' = Nothing /\ UNCHANGED pageRequests
      /\ pageCrossed'.list = pageCrossed.list
  BY PageTypes DEF CloseDialog, Dialog
<1> QED BY <1>1 DEF DialogInv, Closed, Opening, Showing, OneList, Following, Of

LEMMA FailsFollows ==
  ASSUME PageKnown, DialogInv, NEW r \in pageRequests, Fails(r)
  PROVE  DialogInv'
<1>1. /\ UNCHANGED <<pageServer, pageList, pageDialog, pagePoll, pageClicked>>
      /\ pageRequests' = pageRequests \ {r}
      /\ pageCrossed'.list = pageCrossed.list
      /\ pageCrossed'.dialog = (pageCrossed.dialog \/ r.kind = "open")
  BY PageTypes DEF Fails
<1> QED BY <1>1 DEF DialogInv, Closed, Opening, Showing, OneList, Following, Of

\* The execution that was clicked comes, and if it runs it has an interval.
LEMMA ApplyOpenFollows ==
  ASSUME PageKnown, DialogInv, NEW r \in pageRequests, ApplyOpen(r)
  PROVE  DialogInv'
<1>1. /\ r.exec \in PageExecs /\ r.kind = "open"
      /\ pageDialog'.open = pageDialog.open
      /\ pageDialog'.exec = r.exec /\ pageDialog'.status = r.answer
      /\ pagePoll' = IF r.answer = "RUNNING" THEN r.exec ELSE pagePoll
      /\ pageRequests' = pageRequests \ {r} /\ UNCHANGED <<pageServer, pageList, pageClicked>>
      /\ pageCrossed'.list = pageCrossed.list
      /\ pageCrossed'.dialog = (pageCrossed.dialog \/ ~pageDialog.open)
  BY PageTypes, AnsweredIs DEF ApplyOpen, Dialog
<1>2. Closed' /\ Opening' /\ OneList'
  <2>1. Closed'
    BY <1>1 DEF Closed
  <2>2. ~pageCrossed'.dialog /\ pageDialog'.open => Of({"open"})' = {}
    <3> SUFFICES ASSUME ~pageCrossed'.dialog, pageDialog'.open PROVE Of({"open"})' = {}
      OBVIOUS
    <3>1. ~pageCrossed.dialog /\ pageDialog.open /\ r \in Of({"open"})
      BY <1>1 DEF Of
    <3>2. \A q \in Of({"open"}) : q = r
      BY <3>1 DEF DialogInv, Opening
    <3> QED BY <1>1, <3>2 DEF Of
  <2>3. OneList'
    BY <1>1 DEF DialogInv, OneList, Of
  <2> QED BY <2>1, <2>2, <2>3 DEF Opening
<1>3. Showing' /\ Following'
  <2> SUFFICES ASSUME ~pageCrossed'.dialog, pageDialog'.open PROVE Showing' /\ Following'
    BY DEF Showing, Following
  <2>1. ~pageCrossed.dialog /\ pageDialog.open /\ r \in Of({"open"})
    BY <1>1 DEF Of
  <2>2. /\ pagePoll = Nothing /\ Of({"poll"}) = {} /\ r.exec = pageClicked
        /\ \A q \in Of({"list"}) : q.seen.exec = Nothing
    BY <2>1 DEF DialogInv, Opening
  <2>3. Showing'
    BY <1>1, <2>2, PageAssumption DEF Showing, Of
  <2>4. Following'
    BY <1>1, <2>2, PageAssumption DEF Following
  <2> QED BY <2>3, <2>4
<1> QED BY <1>2, <1>3 DEF DialogInv

\* An interval that has ended was the only one, and its execution does not run.
LEMMA ApplyPollFollows ==
  ASSUME PageKnown, DialogInv, NEW r \in pageRequests, ApplyPoll(r)
  PROVE  DialogInv'
<1>1. /\ r.exec \in PageExecs /\ r.kind = "poll"
      /\ pageDialog'.open = pageDialog.open
      /\ pageDialog'.exec = r.exec /\ pageDialog'.status = r.answer
      /\ pagePoll' = IF r.answer = "RUNNING" THEN pagePoll ELSE Nothing
      /\ pageRequests' = pageRequests \ {r}
      /\ UNCHANGED <<pageServer, pageList, pageClicked, pageCrossed>>
  BY PageTypes, AnsweredIs DEF ApplyPoll, Dialog
<1>2. r \in Of({"poll"})
  BY <1>1 DEF Of
<1>3. Closed' /\ Opening' /\ OneList'
  BY <1>1, <1>2 DEF DialogInv, Closed, Opening, OneList, Of
<1>4. Showing' /\ Following'
  <2> SUFFICES ASSUME ~pageCrossed.dialog, pageDialog.open, Of({"open"}) = {}
               PROVE  Showing' /\ Following'
    BY <1>1 DEF Showing, Following, Of
  <2>1. /\ r.exec = pageClicked /\ pagePoll = pageClicked /\ pageClicked # Nothing
        /\ \A q \in Of({"poll"}) : q = r
        /\ \A q \in Of({"list"}) : q.seen.exec \in {Nothing, pageClicked}
    BY <1>2 DEF DialogInv, Showing
  <2>2. Showing'
    BY <1>1, <2>1 DEF Showing, Of
  <2>3. Following'
    BY <1>1, <2>1 DEF Following
  <2> QED BY <2>2, <2>3
<1> QED BY <1>3, <1>4 DEF DialogInv

\* A list that shows the execution RUNNING to a dialog that has none is polled.
LEMMA ApplyListFollows ==
  ASSUME PageKnown, DialogInv, NEW r \in pageRequests, ApplyList(r)
  PROVE  DialogInv'
<1>1. /\ IsList(r) /\ pageDialog'.open = pageDialog.open /\ pageDialog'.exec = pageDialog.exec
      /\ pageRequests' = pageRequests \ {r}
      /\ UNCHANGED <<pageServer, pagePoll, pageClicked, pageCrossed>>
  BY AppliedIs DEF ApplyList
<1> DEFINE seen == r.seen.exec
<1>5. /\ \A e \in PageExecs :
           /\ r.answer[e] = "deleted" => pageServer[e] = "deleted"
           /\ seen = e => r.answer[e] # "none"
           /\ r.answer[e] \in Shown \cup {"none", "deleted"}
           /\ r.answer[e] = "RUNNING" => pageList'[e] = "RUNNING"
      /\ \/ pageDialog' = pageDialog
         \/ seen \in PageExecs /\ pageDialog'.status = r.answer[seen]
      /\ seen \in PageExecs /\ r.answer[seen] \in Shown \ {r.seen.status}
           => pageDialog'.status = r.answer[seen]
  <2>1. pageList' = [e \in PageExecs |->
          IF r.answer[e] = "deleted" THEN "none" ELSE r.answer[e]]
    BY AppliedIs
  <2>2. \A e \in PageExecs :
          /\ r.answer[e] = "deleted" => pageServer[e] = "deleted"
          /\ seen = e => r.answer[e] # "none"
          /\ r.answer[e] \in Shown \cup {"none", "deleted"}
    BY AppliedIs
  <2>3. \/ pageDialog' = pageDialog
        \/ seen \in PageExecs /\ pageDialog'.status = r.answer[seen]
    BY AppliedIs
  <2>4. seen \in PageExecs /\ r.answer[seen] \in Shown \ {r.seen.status}
           => pageDialog'.status = r.answer[seen]
    BY AppliedIs
  <2> QED BY <2>1, <2>2, <2>3, <2>4
<1> HIDE DEF seen
<1>2. r \in Of({"list"}) /\ Of({"open"})' = Of({"open"}) /\ Of({"poll"})' = Of({"poll"})
  BY <1>1 DEF Of, IsList
<1>3. Closed' /\ Opening' /\ Showing' /\ OneList'
  BY <1>1, <1>2 DEF DialogInv, Closed, Opening, Showing, OneList, Of
<1>4. Following'
  <2> SUFFICES ASSUME ~pageCrossed.dialog, ~pageCrossed.list, pageDialog.open,
                      Of({"open"}) = {}, pageDialog'.status = "RUNNING", pagePoll = Nothing
               PROVE  /\ \/ pageList'[pageClicked] = "RUNNING"
                         \/ pageServer[pageClicked] = "deleted"
                      /\ Of({"list"})' = {}
    BY <1>1, <1>2 DEF Following
  <2>1. Of({"list"})' = {}
    BY <1>1, <1>2 DEF DialogInv, OneList, Of
  <2>2. pageClicked \in PageExecs /\ seen \in {Nothing, pageClicked}
    BY <1>2, PageTypes DEF DialogInv, Showing, seen
  <2>3. CASE pageDialog' # pageDialog
    <3>1. seen = pageClicked /\ r.answer[pageClicked] = "RUNNING"
      BY <1>5, <2>2, <2>3, PageAssumption
    <3>2. pageList'[pageClicked] = "RUNNING"
      BY <1>5, <2>2, <3>1
    <3> QED BY <2>1, <3>2
  <2>4. CASE pageDialog' = pageDialog
    <3>1. seen = pageClicked /\ r.seen.status = "RUNNING"
      BY <1>2, <2>4 DEF DialogInv, Following, seen
    <3>2. r.answer[pageClicked] \in {"RUNNING", "deleted"}
      <4>1. r.answer[pageClicked] \in Shown \cup {"deleted"}
        BY <1>5, <2>2, <3>1
      <4>2. r.answer[pageClicked] \in Shown \ {"RUNNING"} => pageDialog'.status # "RUNNING"
        BY <1>5, <2>2, <3>1
      <4> QED BY <4>1, <4>2
    <3>3. /\ r.answer[pageClicked] = "deleted" => pageServer[pageClicked] = "deleted"
          /\ r.answer[pageClicked] = "RUNNING" => pageList'[pageClicked] = "RUNNING"
      BY <1>5, <2>2
    <3> QED BY <2>1, <3>2, <3>3
  <2> QED BY <2>3, <2>4
<1> QED BY <1>3, <1>4 DEF DialogInv

LEMMA DialogInductive == PageKnown /\ DialogInv /\ [PageNext]_pageVars => DialogInv'
<1> SUFFICES ASSUME PageKnown, DialogInv, [PageNext]_pageVars PROVE DialogInv'
  OBVIOUS
<1>1. CASE UNCHANGED pageVars
  BY <1>1 DEF pageVars, DialogInv, Closed, Opening, Showing, OneList, Following, Of
<1>2. ASSUME NEW e \in PageExecs, Work(e) \/ RunTest(e) \/ DeleteRow(e) \/ ClickRow(e)
      PROVE  DialogInv'
  BY <1>2, WorkFollows, ClickFollows
<1>3. CASE ListTick \/ PollTick \/ CloseDialog
  BY <1>3, ListTickFollows, PollTickFollows, CloseFollows
<1>4. ASSUME NEW r \in pageRequests,
             Answer(r) \/ Fails(r) \/ ApplyList(r) \/ GoOn(r) \/ ApplyOpen(r) \/ ApplyPoll(r)
      PROVE  DialogInv'
  BY <1>4, AnswerFollows, FailsFollows, ApplyListFollows, GoOnFollows, ApplyOpenFollows,
     ApplyPollFollows
<1> QED BY <1>1, <1>2, <1>3, <1>4 DEF PageNext

PageInv == PageKnown /\ DialogInv

LEMMA PageInductive == PageInv /\ [PageNext]_pageVars => PageInv'
BY KnownInductive, DialogInductive DEF PageInv

LEMMA PageInitial == PageInit => PageInv
<1> SUFFICES ASSUME PageInit PROVE PageInv
  OBVIOUS
<1> USE DEF PageInit
<1>1. Unseen \in Seen /\ Unseen.exec = Nothing
  BY DEF Unseen, Seen
<1>2. List(Unseen) \in Request /\ List(Unseen).kind = "list" /\ List(Unseen).seen = Unseen
      /\ List(Unseen).answer = Unread
  BY <1>1 DEF List, Request
<1>3. pageRequests \subseteq {List(Unseen)}
  OBVIOUS
<1>4. PageTypeOK /\ pageDialog \in Dialog
  BY <1>2, <1>3, PageAssumption DEF PageTypeOK, Dialog, Shown, Seen
<1>5. \A r \in pageRequests : AnswerKnown(r) /\ (r.kind = "list" => ListKnown(r))
  BY <1>1, <1>2, <1>3 DEF AnswerKnown, ListKnown
<1>6. ShownKnown
  BY DEF ShownKnown
<1>7. DialogInv
  BY <1>3 DEF DialogInv, Closed, Opening, Showing, OneList, Following, Of
<1> QED BY <1>4, <1>5, <1>6, <1>7 DEF PageInv, PageKnown

LEMMA PageFollows == PageInv => PageTypeOK /\ DialogShowsClicked /\ DialogFollowed
<1> SUFFICES ASSUME PageInv PROVE PageTypeOK /\ DialogShowsClicked /\ DialogFollowed
  OBVIOUS
<1>1. PageTypeOK
  BY DEF PageInv, PageKnown
<1>2. DialogQuiet => Of({"open"}) = {}
  BY DEF DialogQuiet, Of
<1>3. DialogShowsClicked
  BY <1>2 DEF PageInv, DialogInv, Showing, DialogShowsClicked, DialogQuiet
<1>4. DialogFollowed
  BY <1>2 DEF PageInv, DialogInv, Showing, Following, DialogFollowed, DialogQuiet
<1> QED BY <1>1, <1>3, <1>4

-----------------------------------------------------------------------------
(* The four together.                                                      *)

\* DeviceManagementService: whatever is registered, reserved, released and refreshed, and
\* whenever Appium answers, a reserved device is its user's or out of the map, and no other
\* reservation has it, until it is discovered again or set by hand.
THEOREM ReservationsAlwaysHold == FarmSpec => []ReservationsHold
<1>1. FarmInv => ReservationsHold
  BY FarmKnown
<1> QED BY <1>1, FarmInitial, FarmInductive, PTL DEF FarmSpec

\* MobileExecutionService: an execution that has ended left a session open only after a
\* failed call; and one that was not cancelled has an outcome for each of its devices, and
\* is failed exactly when one of them is.
THEOREM FarmRunsAlwaysSound == FarmSpec => []FarmRunsSound
<1>1. FarmInv => FarmRunsSound
  BY FarmKnown
<1> QED BY <1>1, FarmInitial, FarmInductive, PTL DEF FarmSpec

ServicesInv == FarmInv /\ ImportInv /\ AuthInv /\ PageInv

LEMMA ServicesInductive == Spec => []ServicesInv
<1>1. Init => ServicesInv
  BY FarmInitial, ImportInitial, AuthInitial, PageInitial DEF Init, ServicesInv
<1>2. ServicesInv /\ [Next]_vars => ServicesInv'
  <2> SUFFICES ASSUME ServicesInv, [Next]_vars PROVE ServicesInv'
    OBVIOUS
  <2>1. /\ [FarmNext]_farmVars /\ [ImportNext]_impVars
        /\ [AuthNext]_authVars /\ [PageNext]_pageVars
    BY DEF Next, vars
  <2> QED BY <2>1, FarmInductive, ImportInductive, AuthInductive, PageInductive
          DEF ServicesInv
<1> QED BY <1>1, <1>2, PTL DEF Spec

\* Type correctness of the four modules: among it, that the page never shows a status that
\* no execution has, and its intervals poll an execution.
THEOREM ServicesKeepTheirTypes == Spec => []ServicesTypeOK
<1>1. ServicesInv => ServicesTypeOK
  BY FarmKnown, ImportKnown, PageFollows DEF ServicesInv, ServicesTypeOK, AuthInv
<1> QED BY <1>1, ServicesInductive, PTL

\* FileImportService: an import's counts, errors, tests and mappings agree, and an import
\* whose mappings were saved has one for each of its fields.
THEOREM ImportAlwaysSound == Spec => []ImportSound
<1>1. ServicesInv => ImportSound
  BY ImportKnown DEF ServicesInv, ImportSound
<1> QED BY <1>1, ServicesInductive, PTL

\* The executions page: once nothing is on its way to the dialog it shows the execution
\* that was clicked, and one it shows running has an interval of its own or the list's,
\* unless requests have met.
THEOREM DialogAlwaysSound == Spec => []DialogSound
<1>1. ServicesInv => DialogSound
  BY PageFollows DEF ServicesInv, DialogSound
<1> QED BY <1>1, ServicesInductive, PTL
=============================================================================
