------------------------------- MODULE Sessions -------------------------------
(***************************************************************************)
(* The login sessions of one user of beSeen-api: a login stores a session  *)
(* with the hash of a refresh token, refreshing exchanges that token for a *)
(* new one, logging out revokes the session, and the database removes      *)
(* sessions and login proofs after their expiry.                           *)
(*                                                                         *)
(* Abstracted: a token is its hash.  An access token is as good as its     *)
(* session, which is looked up on every request; that it also expires by   *)
(* itself only refuses more.  The time at which a session was revoked is   *)
(* left out.                                                               *)
(***************************************************************************)
EXTENDS Integers

CONSTANTS
  Sessions,         \* ids of AuthSession documents
  RefreshTokens,    \* generateRefreshToken never returns one twice
  LoginIds,         \* request ids that logins are signed for
  SessionRequests,  \* requests that run at the same time
  SessionLifetime,  \* REFRESH_TOKEN_TTL_SECONDS
  ProofLifetime,    \* LOGIN_PROOF_MAX_AGE_SECONDS
  MaxSessionTime    \* bound: the last moment

ASSUME SessionAssumption ==
  /\ SessionLifetime \in Nat /\ ProofLifetime \in Nat /\ MaxSessionTime \in Nat

VARIABLES
  session,         \* AuthSession documents, those that were and those to come
  proof,           \* expiry of the AuthProof document of a login, or Absent
  tokens,          \* [generated, handed out, exchanged] refresh tokens so far
  available,       \* the user is active and not deleted
  sessionTime,
  sessionRequest   \* local state of a request

sessionVars == <<session, proof, tokens, available, sessionTime, sessionRequest>>

Absent == -1
Moments == 0..MaxSessionTime

-----------------------------------------------------------------------------
(* State *)

\* usedAt: lastUsedAt, or Absent for null.
AuthSession ==
  [hash : RefreshTokens, revoked : BOOLEAN, usedAt : Moments \union {Absent}, expiresAt : Nat]

\* The expiry of the proof of a login.
AuthProof == {Absent} \union Nat

\* A TTL index removes a session for good.
NeverOpened == [state |-> "never"]
Removed == [state |-> "removed"]
Exists(s) == session[s] \notin {NeverOpened, Removed}

\* login: loginUser is to store its proof and its session; user: a refresh
\* has found the session; revoke, rotate: what it then does; logout: the
\* session of the access token was found.
RequestIdle == [pc |-> "idle"]
LoggingIn == [pc : {"login"}, id : LoginIds]
Refreshing ==
  [pc : {"user", "revoke", "rotate"}, session : Sessions, token : RefreshTokens, now : Moments]
LoggingOut == [pc : {"logout"}, session : Sessions]

\* exchanged: <<old, new>>.
SessionsTypeOK ==
  /\ session \in [Sessions -> {NeverOpened, Removed} \union AuthSession]
  /\ proof \in [LoginIds -> AuthProof]
  /\ tokens \in [generated : SUBSET (RefreshTokens \X Sessions),
                 handed : SUBSET RefreshTokens,
                 exchanged : SUBSET (RefreshTokens \X RefreshTokens)]
  /\ available \in BOOLEAN
  /\ sessionTime \in Moments
  /\ sessionRequest \in
       [SessionRequests -> {RequestIdle} \union LoggingIn \union Refreshing \union LoggingOut]

SessionsInit ==
  /\ session = [s \in Sessions |-> NeverOpened]
  /\ proof = [i \in LoginIds |-> Absent]
  /\ tokens = [generated |-> {}, handed |-> {}, exchanged |-> {}]
  /\ available = TRUE
  /\ sessionTime = 0
  /\ sessionRequest = [p \in SessionRequests |-> RequestIdle]

Generated(k) == \E s \in Sessions : <<k, s>> \in tokens.generated

\* A session that can still be used, at the given moment.
IsUsable(s, now) == Exists(s) /\ ~session[s].revoked /\ session[s].expiresAt > now

RequestBecomes(p, r) == sessionRequest' = [sessionRequest EXCEPT ![p] = r]

-----------------------------------------------------------------------------
(* Time, the TTL indexes and the user's status *)

PassSessionTime ==
  /\ sessionTime < MaxSessionTime
  /\ sessionTime' = sessionTime + 1
  /\ UNCHANGED <<session, proof, tokens, available, sessionRequest>>

RemoveSession(s) ==
  /\ Exists(s)
  /\ session[s].expiresAt <= sessionTime
  /\ session' = [session EXCEPT ![s] = Removed]
  /\ UNCHANGED <<proof, tokens, available, sessionTime, sessionRequest>>

RemoveProof(i) ==
  /\ proof[i] # Absent
  /\ proof[i] <= sessionTime
  /\ proof' = [proof EXCEPT ![i] = Absent]
  /\ UNCHANGED <<session, tokens, available, sessionTime, sessionRequest>>

\* Suspending and deleting users happens outside of this program.
ChangeAvailability ==
  /\ available' = ~available
  /\ UNCHANGED <<session, proof, tokens, sessionTime, sessionRequest>>

-----------------------------------------------------------------------------
(* loginUser *)

\* The age of the proof, the user and the signature are checked.
CheckLogin(p, i, issuedAt) ==
  /\ sessionRequest[p] = RequestIdle
  /\ sessionTime - issuedAt <= ProofLifetime /\ issuedAt - sessionTime <= ProofLifetime
  /\ available
  /\ RequestBecomes(p, [pc |-> "login", id |-> i])
  /\ UNCHANGED <<session, proof, tokens, available, sessionTime>>

\* createAuthSession: the answer with the token reaches the client, or not.
OpenSession(s, k) ==
  /\ session[s] = NeverOpened
  /\ ~Generated(k)
  /\ session' = [session EXCEPT ![s] =
       [hash |-> k, revoked |-> FALSE, usedAt |-> Absent,
        expiresAt |-> sessionTime + SessionLifetime]]
  /\ \E handed \in {{}, {k}} :
       tokens' = [generated |-> tokens.generated \union {<<k, s>>},
                  handed |-> tokens.handed \union handed,
                  exchanged |-> tokens.exchanged]

\* One transaction stores the proof and the session; the unique index over
\* the proofs refuses a second one.
CreateLoginSession(p, s, k) ==
  LET i == sessionRequest[p].id IN
  /\ sessionRequest[p].pc = "login"
  /\ proof[i] = Absent
  /\ proof' = [proof EXCEPT ![i] = sessionTime + ProofLifetime]
  /\ OpenSession(s, k)
  /\ RequestBecomes(p, RequestIdle)
  /\ UNCHANGED <<available, sessionTime>>

-----------------------------------------------------------------------------
(* refreshAuthSession *)

\* A client presents a token that it was given, possibly once more.
FindSession(p, k) ==
  /\ sessionRequest[p] = RequestIdle
  /\ k \in tokens.handed
  /\ \E s \in Sessions :
       /\ IsUsable(s, sessionTime)
       /\ session[s].hash = k
       /\ RequestBecomes(p, [pc |-> "user", session |-> s, token |-> k, now |-> sessionTime])
  /\ UNCHANGED <<session, proof, tokens, available, sessionTime>>

CheckUser(p) ==
  /\ sessionRequest[p].pc = "user"
  /\ RequestBecomes(p, [sessionRequest[p] EXCEPT !.pc = IF available THEN "rotate" ELSE "revoke"])
  /\ UNCHANGED <<session, proof, tokens, available, sessionTime>>

\* updateOne by the id of the session alone.
RevokeUnavailable(p) ==
  LET s == sessionRequest[p].session IN
  /\ sessionRequest[p].pc = "revoke"
  /\ session' = [session EXCEPT ![s] =
       IF Exists(s) THEN [session[s] EXCEPT !.revoked = TRUE] ELSE session[s]]
  /\ RequestBecomes(p, RequestIdle)
  /\ UNCHANGED <<proof, tokens, available, sessionTime>>

\* Mutant: the filter leaves out the refresh token.
StillUsable(r) == IsUsable(r.session, r.now)

\* Mutant: the filter leaves out revokedAt.
StillCurrent(r) ==
  /\ Exists(r.session)
  /\ session[r.session].expiresAt > r.now
  /\ session[r.session].hash = r.token

\* The filter of findOneAndUpdate, with the time at which the request began.
Rotatable(r) == IsUsable(r.session, r.now) /\ session[r.session].hash = r.token

\* The answer with the new token reaches the client, or not.
Rotate(p, k) ==
  LET r == sessionRequest[p] IN
  /\ r.pc = "rotate"
  /\ Rotatable(r)
  /\ ~Generated(k)
  /\ session' = [session EXCEPT ![r.session] =
       [session[r.session] EXCEPT !.hash = k, !.usedAt = r.now]]
  /\ \E handed \in {{}, {k}} :
       tokens' = [generated |-> tokens.generated \union {<<k, r.session>>},
                  handed |-> tokens.handed \union handed,
                  exchanged |-> tokens.exchanged \union {<<r.token, k>>}]
  /\ RequestBecomes(p, RequestIdle)
  /\ UNCHANGED <<proof, available, sessionTime>>

-----------------------------------------------------------------------------
(* authenticate, and the logout route behind it *)

Authenticate(p, s) ==
  /\ sessionRequest[p] = RequestIdle
  /\ IsUsable(s, sessionTime)
  /\ RequestBecomes(p, [pc |-> "logout", session |-> s])
  /\ UNCHANGED <<session, proof, tokens, available, sessionTime>>

RevokeAuthSession(p) ==
  LET s == sessionRequest[p].session IN
  /\ sessionRequest[p].pc = "logout"
  /\ session' = [session EXCEPT ![s] =
       IF Exists(s) /\ ~session[s].revoked THEN [session[s] EXCEPT !.revoked = TRUE] ELSE session[s]]
  /\ RequestBecomes(p, RequestIdle)
  /\ UNCHANGED <<proof, tokens, available, sessionTime>>

-----------------------------------------------------------------------------
\* A request is refused by its last update, a call throws, or the process
\* stops: nothing is written.
EndRequest(p) ==
  /\ sessionRequest[p] # RequestIdle
  /\ RequestBecomes(p, RequestIdle)
  /\ UNCHANGED <<session, proof, tokens, available, sessionTime>>

SessionsNext ==
  \/ PassSessionTime
  \/ ChangeAvailability
  \/ \E s \in Sessions : RemoveSession(s)
  \/ \E i \in LoginIds : RemoveProof(i)
  \/ \E p \in SessionRequests :
       \/ \E i \in LoginIds, issuedAt \in Moments : CheckLogin(p, i, issuedAt)
       \/ \E s \in Sessions, k \in RefreshTokens : CreateLoginSession(p, s, k)
       \/ \E k \in RefreshTokens : FindSession(p, k)
       \/ CheckUser(p)
       \/ RevokeUnavailable(p)
       \/ \E k \in RefreshTokens : Rotate(p, k)
       \/ \E s \in Sessions : Authenticate(p, s)
       \/ RevokeAuthSession(p)
       \/ EndRequest(p)

SessionsSpec == SessionsInit /\ [][SessionsNext]_sessionVars

-----------------------------------------------------------------------------
(* Properties *)

\* The refresh tokens of a session form one chain: each of them was exchanged
\* for one other, except for the one that the session stores, whichever
\* requests presented the same token at the same time, logged the session out
\* or got no answer.
RefreshTokensFormAChain ==
  /\ \A x, y \in tokens.exchanged : x[1] = y[1] => x = y
  /\ \A s \in Sessions : Exists(s) =>
       \A k \in RefreshTokens : <<k, s>> \in tokens.generated =>
         ((session[s].hash # k) <=> (\E x \in tokens.exchanged : x[1] = k))

\* A session never comes back: one that was revoked stays as it is until it
\* is removed, one that was removed stays away, and a request that was slow
\* never sets lastUsedAt back.
SessionsOnlyMoveForward ==
  [][\A s \in Sessions :
       /\ session[s] = Removed => session'[s] = Removed
       /\ Exists(s) =>
            \/ session'[s] = Removed
            \/ session[s].revoked /\ session'[s] = session[s]
            \/ ~session[s].revoked /\ session'[s].usedAt >= session[s].usedAt]_sessionVars
=============================================================================
