---------------------------- MODULE SessionsProofs ----------------------------
(***************************************************************************)
(* Theorems about Sessions, for any number of sessions, tokens, logins and *)
(* requests, and any lifetimes.  A rotation relies on what its request saw *)
(* some calls ago: that the session had the token that was presented.  The *)
(* filter of findOneAndUpdate asks again, which is why no more than the    *)
(* freshness of tokens is needed to show that they form a chain; that      *)
(* lastUsedAt never moves back needs that a request which still fits that  *)
(* filter began after the last rotation.                                   *)
(***************************************************************************)
EXTENDS Sessions, TLAPS

\* Where the tokens of a session come from and went to.
TokenInv ==
  /\ \A g, h \in tokens.generated : g[1] = h[1] => g = h
  /\ \A s \in Sessions : Exists(s) => <<session[s].hash, s>> \in tokens.generated
  /\ \A s \in Sessions, k \in RefreshTokens :
       <<k, s>> \in tokens.generated => session[s] # NeverOpened
  /\ \A x \in tokens.exchanged : Generated(x[1])

\* A request that may still rotate the session began after its last rotation.
RequestOK(r) ==
  r \in Refreshing =>
    /\ Generated(r.token)
    /\ r.now <= sessionTime
    /\ Exists(r.session) /\ session[r.session].hash = r.token
         => session[r.session].usedAt <= r.now

RequestInv ==
  /\ \A s \in Sessions : Exists(s) => session[s].usedAt <= sessionTime
  /\ \A p \in SessionRequests : RequestOK(sessionRequest[p])

SessionsIInv == SessionsTypeOK /\ TokenInv /\ RequestInv /\ RefreshTokensFormAChain

-----------------------------------------------------------------------------
LEMMA SessionIsThere ==
  ASSUME NEW a \in AuthSession
  PROVE  a # NeverOpened /\ a # Removed
BY DEF AuthSession, NeverOpened, Removed

LEMMA MomentsAreNumbers == Moments \subseteq Int /\ \A t \in Moments : t >= 0 /\ t <= MaxSessionTime
BY SessionAssumption DEF Moments

\* The tokens that a session gives out, in OpenSession and in Rotate, are new.
LEMMA SessionsInitIInv == SessionsInit => SessionsIInv
<1> SUFFICES ASSUME SessionsInit  PROVE SessionsIInv
  OBVIOUS
<1>1. SessionsTypeOK
  BY SessionAssumption DEF SessionsInit, SessionsTypeOK, Moments, AuthProof, Absent
<1>2. TokenInv /\ RefreshTokensFormAChain
  BY DEF SessionsInit, TokenInv, RefreshTokensFormAChain, Exists
<1>3. RequestInv
  BY DEF SessionsInit, RequestInv, RequestOK, Exists, RequestIdle, Refreshing
<1> QED
  BY <1>1, <1>2, <1>3 DEF SessionsIInv

-----------------------------------------------------------------------------
(* Types *)

LEMMA SessionsTypeStep ==
  ASSUME SessionsTypeOK, SessionsNext
  PROVE  SessionsTypeOK'
<1> USE DEF SessionsTypeOK
<1>1. CASE PassSessionTime
  BY <1>1, SessionAssumption DEF PassSessionTime, Moments
<1>2. CASE ChangeAvailability
  BY <1>2 DEF ChangeAvailability
<1>3. ASSUME NEW s \in Sessions, RemoveSession(s)  PROVE SessionsTypeOK'
  BY <1>3 DEF RemoveSession
<1>4. ASSUME NEW i \in LoginIds, RemoveProof(i)  PROVE SessionsTypeOK'
  BY <1>4 DEF RemoveProof, AuthProof
<1>5. ASSUME NEW p \in SessionRequests, NEW i \in LoginIds, NEW issuedAt \in Moments,
             CheckLogin(p, i, issuedAt)
      PROVE  SessionsTypeOK'
  BY <1>5 DEF CheckLogin, RequestBecomes, LoggingIn
<1>6. ASSUME NEW p \in SessionRequests, NEW s \in Sessions, NEW k \in RefreshTokens,
             CreateLoginSession(p, s, k)
      PROVE  SessionsTypeOK'
  <2>1. sessionRequest[p].pc = "login" /\ sessionRequest[p] \in LoggingIn
    BY <1>6 DEF CreateLoginSession, RequestIdle, LoggingIn, Refreshing, LoggingOut
  <2>2. sessionTime + SessionLifetime \in Nat /\ sessionTime + ProofLifetime \in Nat
    BY SessionAssumption DEF Moments
  <2>3. session' \in [Sessions -> {NeverOpened, Removed} \union AuthSession]
    <3> DEFINE a == [hash |-> k, revoked |-> FALSE, usedAt |-> Absent,
                     expiresAt |-> sessionTime + SessionLifetime]
    <3>1. a \in AuthSession
      BY <2>2 DEF AuthSession
    <3>2. session' = [session EXCEPT ![s] = a]
      BY <1>6 DEF CreateLoginSession, OpenSession
    <3> HIDE DEF a
    <3> QED
      BY <3>1, <3>2
  <2>4. proof' \in [LoginIds -> AuthProof]
    BY <1>6, <2>1, <2>2 DEF CreateLoginSession, LoggingIn, AuthProof
  <2>5. tokens' \in [generated : SUBSET (RefreshTokens \X Sessions),
                     handed : SUBSET RefreshTokens,
                     exchanged : SUBSET (RefreshTokens \X RefreshTokens)]
    BY <1>6 DEF CreateLoginSession, OpenSession
  <2> QED
    BY <1>6, <2>3, <2>4, <2>5 DEF CreateLoginSession, RequestBecomes
<1>7. ASSUME NEW p \in SessionRequests, NEW k \in RefreshTokens, FindSession(p, k)
      PROVE  SessionsTypeOK'
  BY <1>7 DEF FindSession, RequestBecomes, Refreshing
<1>8. ASSUME NEW p \in SessionRequests, CheckUser(p)
      PROVE  SessionsTypeOK'
  <2>1. sessionRequest[p] \in Refreshing
    BY <1>8 DEF CheckUser, RequestIdle, LoggingIn, LoggingOut
  <2>2. [sessionRequest[p] EXCEPT !.pc = IF available THEN "rotate" ELSE "revoke"] \in Refreshing
    BY <2>1 DEF Refreshing
  <2> QED
    BY <1>8, <2>2 DEF CheckUser, RequestBecomes
<1>9. ASSUME NEW p \in SessionRequests, RevokeUnavailable(p) \/ RevokeAuthSession(p)
      PROVE  SessionsTypeOK'
  <2> DEFINE s == sessionRequest[p].session
             w == [session[s] EXCEPT !.revoked = TRUE]
  <2>1. s \in Sessions
    BY <1>9 DEF RevokeUnavailable, RevokeAuthSession, RequestIdle, LoggingIn, Refreshing, LoggingOut
  <2>2. PICK v : /\ session' = [session EXCEPT ![s] = v]
                 /\ v = session[s] \/ (Exists(s) /\ v = w)
    BY <1>9 DEF RevokeUnavailable, RevokeAuthSession
  <2>3. Exists(s) => w \in AuthSession
    BY <2>1 DEF Exists, AuthSession
  <2>4. v \in {NeverOpened, Removed} \union AuthSession
    <3> HIDE DEF w
    <3>1. session[s] \in {NeverOpened, Removed} \union AuthSession
      BY <2>1
    <3> QED
      BY <2>2, <2>3, <3>1
  <2>5. session' \in [Sessions -> {NeverOpened, Removed} \union AuthSession]
    BY <2>1, <2>2, <2>4
  <2> QED
    BY <1>9, <2>5 DEF RevokeUnavailable, RevokeAuthSession, RequestBecomes
<1>10. ASSUME NEW p \in SessionRequests, NEW k \in RefreshTokens, Rotate(p, k)
       PROVE  SessionsTypeOK'
  <2>1. sessionRequest[p] \in Refreshing
    BY <1>10 DEF Rotate, RequestIdle, LoggingIn, LoggingOut
  <2>2. /\ sessionRequest[p].session \in Sessions /\ sessionRequest[p].token \in RefreshTokens
        /\ sessionRequest[p].now \in Moments
    BY <2>1 DEF Refreshing
  <2> DEFINE s == sessionRequest[p].session
             a == [session[s] EXCEPT !.hash = k, !.usedAt = sessionRequest[p].now]
  <2>3. session[s] \in AuthSession
    BY <1>10, <2>2 DEF Rotate, Rotatable, IsUsable, Exists
  <2>4. a \in AuthSession
    BY <2>2, <2>3 DEF AuthSession
  <2>5. session' = [session EXCEPT ![s] = a]
    BY <1>10 DEF Rotate
  <2>6. session' \in [Sessions -> {NeverOpened, Removed} \union AuthSession]
    <3> HIDE DEF a
    <3> QED
      BY <2>4, <2>5
  <2> QED
    BY <1>10, <2>2, <2>6 DEF Rotate, RequestBecomes
<1>11. ASSUME NEW p \in SessionRequests, NEW s \in Sessions, Authenticate(p, s)
       PROVE  SessionsTypeOK'
  BY <1>11 DEF Authenticate, RequestBecomes, LoggingOut
<1>12. ASSUME NEW p \in SessionRequests, EndRequest(p)  PROVE SessionsTypeOK'
  BY <1>12 DEF EndRequest, RequestBecomes
<1> QED
  BY <1>1, <1>2, <1>3, <1>4, <1>5, <1>6, <1>7, <1>8, <1>9, <1>10, <1>11, <1>12 DEF SessionsNext

-----------------------------------------------------------------------------
(* What a step does to a session *)

\* The session stays, is revoked or is removed.
Fades(s) ==
  /\ Exists(s)' => /\ Exists(s)
                   /\ session'[s].hash = session[s].hash
                   /\ session'[s].usedAt = session[s].usedAt
  /\ session[s] # NeverOpened => session'[s] # NeverOpened
  /\ session[s] = Removed => session'[s] = Removed
  /\ Exists(s) => \/ session'[s] = Removed
                  \/ session[s].revoked /\ session'[s] = session[s]
                  \/ ~session[s].revoked /\ Exists(s)'

LEMMA StaysFades ==
  ASSUME SessionsTypeOK, NEW s \in Sessions, session'[s] = session[s]
  PROVE  Fades(s)
<1>1. Exists(s) => session[s].revoked \in BOOLEAN
  BY DEF SessionsTypeOK, Exists, AuthSession
<1> QED
  BY <1>1 DEF Fades, Exists

LEMMA RevokedFades ==
  ASSUME SessionsTypeOK, NEW s \in Sessions, Exists(s),
         session'[s] = [session[s] EXCEPT !.revoked = TRUE]
  PROVE  Fades(s)
<1>1. session[s] \in AuthSession
  BY DEF SessionsTypeOK, Exists
<1>2. /\ session'[s] \in AuthSession
      /\ session'[s].hash = session[s].hash /\ session'[s].usedAt = session[s].usedAt
      /\ session[s].revoked => session'[s] = session[s]
      /\ session[s].revoked \in BOOLEAN
  BY <1>1 DEF AuthSession
<1>3. Exists(s)'
  BY <1>2, SessionIsThere DEF Exists
<1> QED
  BY <1>2, <1>3 DEF Fades, Exists

LEMMA RevocationFades ==
  ASSUME SessionsTypeOK, NEW p \in SessionRequests, RevokeUnavailable(p) \/ RevokeAuthSession(p)
  PROVE  \A s \in Sessions : Fades(s)
<1> DEFINE q == sessionRequest[p].session
           w == [session[q] EXCEPT !.revoked = TRUE]
<1>1. q \in Sessions /\ session \in [Sessions -> {NeverOpened, Removed} \union AuthSession]
  BY DEF SessionsTypeOK, RevokeUnavailable, RevokeAuthSession, RequestIdle, LoggingIn, Refreshing,
         LoggingOut
<1>2. PICK v : /\ session' = [session EXCEPT ![q] = v]
               /\ v = session[q] \/ (Exists(q) /\ v = w)
  BY DEF RevokeUnavailable, RevokeAuthSession
<1>3. ASSUME NEW s \in Sessions  PROVE Fades(s)
  <2>1. CASE s # q \/ v = session[q]
    <3>1. session'[s] = session[s]
      BY <1>1, <1>2, <2>1
    <3> QED
      BY <3>1, StaysFades
  <2>2. CASE s = q /\ v # session[q]
    <3>1. Exists(s) /\ session'[s] = [session[s] EXCEPT !.revoked = TRUE]
      BY <1>1, <1>2, <2>2
    <3> QED
      BY <3>1, RevokedFades
  <2> QED
    BY <2>1, <2>2
<1> QED
  BY <1>3

\* Opening and rotating aside, sessions only fade and tokens stay.
LEMMA SessionsFade ==
  ASSUME SessionsTypeOK, SessionsNext
  PROVE  \/ (tokens' = tokens) /\ (\A s \in Sessions : Fades(s))
         \/ \E p \in SessionRequests, s \in Sessions, k \in RefreshTokens : CreateLoginSession(p, s, k)
         \/ \E p \in SessionRequests, k \in RefreshTokens : Rotate(p, k)
<1>1. CASE \E q \in Sessions : RemoveSession(q)
  <2>1. PICK q \in Sessions : RemoveSession(q)
    BY <1>1
  <2>2. /\ tokens' = tokens
        /\ \A s \in Sessions : s # q => session'[s] = session[s]
        /\ session'[q] = Removed /\ Exists(q)
    BY <2>1 DEF RemoveSession, SessionsTypeOK
  <2>3. Fades(q)
    BY <2>2 DEF Fades, Exists, NeverOpened, Removed
  <2> QED
    BY <2>2, <2>3, StaysFades
<1>2. CASE \E p \in SessionRequests : RevokeUnavailable(p) \/ RevokeAuthSession(p)
  <2>1. tokens' = tokens
    BY <1>2 DEF RevokeUnavailable, RevokeAuthSession
  <2> QED
    BY <1>2, <2>1, RevocationFades
<1>3. CASE session' = session /\ tokens' = tokens
  BY <1>3, StaysFades
<1> QED
  BY <1>1, <1>2, <1>3
  DEF SessionsNext, PassSessionTime, ChangeAvailability, RemoveProof, CheckLogin, FindSession,
      CheckUser, Authenticate, EndRequest

LEMMA TimeAdvances ==
  ASSUME SessionsTypeOK, SessionsNext
  PROVE  sessionTime \in Int /\ sessionTime' \in Int /\ sessionTime <= sessionTime'
<1>1. sessionTime \in Int
  BY MomentsAreNumbers DEF SessionsTypeOK
<1>2. sessionTime' = sessionTime \/ sessionTime' = sessionTime + 1
  BY DEF SessionsNext, PassSessionTime, ChangeAvailability, RemoveSession, RemoveProof, CheckLogin,
         CreateLoginSession, FindSession, CheckUser, RevokeUnavailable, Rotate, Authenticate,
         RevokeAuthSession, EndRequest
<1> QED
  BY <1>1, <1>2

\* The step of a request that gives session s the token k.
Gives(s, k) ==
  /\ ~Generated(k)
  /\ \A q \in Sessions : q # s => session'[q] = session[q]
  /\ Exists(s)' /\ session'[s].hash = k
  /\ tokens'.generated = tokens.generated \union {<<k, s>>}
  /\ \/ session[s] = NeverOpened /\ tokens'.exchanged = tokens.exchanged
     \/ /\ Exists(s)
        /\ tokens'.exchanged = tokens.exchanged \union {<<session[s].hash, k>>}

LEMMA CreateGives ==
  ASSUME SessionsTypeOK, NEW p \in SessionRequests, NEW s \in Sessions, NEW k \in RefreshTokens,
         CreateLoginSession(p, s, k)
  PROVE  Gives(s, k) /\ session[s] = NeverOpened /\ session'[s].usedAt = Absent
<1> DEFINE a == [hash |-> k, revoked |-> FALSE, usedAt |-> Absent,
                 expiresAt |-> sessionTime + SessionLifetime]
<1>1. session' = [session EXCEPT ![s] = a]
  BY DEF CreateLoginSession, OpenSession
<1>2. session'[s] = a /\ \A q \in Sessions : q # s => session'[q] = session[q]
  BY <1>1 DEF SessionsTypeOK
<1>3. Exists(s)'
  BY <1>2 DEF Exists, NeverOpened, Removed
<1> QED
  BY <1>2, <1>3 DEF Gives, CreateLoginSession, OpenSession

LEMMA RotateGives ==
  ASSUME SessionsTypeOK, NEW p \in SessionRequests, NEW k \in RefreshTokens, Rotate(p, k)
  PROVE  \E r \in Refreshing :
           /\ r = sessionRequest[p]
           /\ r.session \in Sessions /\ Gives(r.session, k)
           /\ Exists(r.session) /\ ~session[r.session].revoked /\ session[r.session].hash = r.token
           /\ session'[r.session].usedAt = r.now
<1>0. PICK r : r = sessionRequest[p]
  OBVIOUS
<1> DEFINE a == [session[r.session] EXCEPT !.hash = k, !.usedAt = r.now]
<1>1. r \in Refreshing /\ r.session \in Sessions
  BY <1>0 DEF SessionsTypeOK, Rotate, RequestIdle, LoggingIn, LoggingOut, Refreshing
<1>2. Exists(r.session) /\ ~session[r.session].revoked /\ session[r.session].hash = r.token
  BY <1>0 DEF Rotate, Rotatable, IsUsable
<1>3. session[r.session] \in AuthSession
  BY <1>1, <1>2 DEF SessionsTypeOK, Exists
<1>4. /\ session'[r.session] = a
      /\ \A q \in Sessions : q # r.session => session'[q] = session[q]
  BY <1>0, <1>1 DEF SessionsTypeOK, Rotate
<1>5. session'[r.session].hash = k /\ session'[r.session].usedAt = r.now
  BY <1>3, <1>4 DEF AuthSession
<1>6. Exists(r.session)'
  <2>1. a \in AuthSession
    BY <1>1, <1>3 DEF AuthSession, Refreshing
  <2> HIDE DEF a
  <2>2. a # NeverOpened /\ a # Removed
    BY <2>1, SessionIsThere
  <2> QED
    BY <1>4, <2>2 DEF Exists
<1>7. /\ ~Generated(k)
      /\ tokens'.generated = tokens.generated \union {<<k, r.session>>}
      /\ tokens'.exchanged = tokens.exchanged \union {<<r.token, k>>}
  BY <1>0 DEF Rotate
<1>8. Gives(r.session, k)
  BY <1>2, <1>4, <1>5, <1>6, <1>7 DEF Gives
<1> QED
  BY <1>0, <1>1, <1>2, <1>5, <1>8

-----------------------------------------------------------------------------
(* Tokens *)

LEMMA FadingKeepsTokens ==
  ASSUME TokenInv, RefreshTokensFormAChain, tokens' = tokens, \A s \in Sessions : Fades(s)
  PROVE  TokenInv' /\ RefreshTokensFormAChain'
<1>1. TokenInv'
  BY DEF TokenInv, Generated, Fades
<1>2. RefreshTokensFormAChain'
  BY DEF RefreshTokensFormAChain, Fades
<1> QED
  BY <1>1, <1>2

LEMMA GivingKeepsTokens ==
  ASSUME SessionsTypeOK, TokenInv, RefreshTokensFormAChain,
         NEW s \in Sessions, NEW k \in RefreshTokens, Gives(s, k)
  PROVE  TokenInv' /\ RefreshTokensFormAChain'
<1> DEFINE gen == tokens.generated
           ex == tokens.exchanged
<1>1. ASSUME NEW g \in gen  PROVE g[1] # k
  <2>1. g[2] \in Sessions /\ <<g[1], g[2]>> \in gen
    BY DEF SessionsTypeOK
  <2> QED
    BY <2>1 DEF Gives, Generated
<1>2. \A x \in ex : x[1] # k
  BY DEF Gives, TokenInv
<1>3. Exists(s) => session[s].hash # k /\ \A x \in ex : x[1] # session[s].hash
  <2>1. ASSUME Exists(s)  PROVE <<session[s].hash, s>> \in gen
    BY <2>1 DEF TokenInv
  <2>2. Exists(s) => session[s].hash \in RefreshTokens
    BY <2>1 DEF SessionsTypeOK
  <2> QED
    BY <1>1, <2>1, <2>2 DEF RefreshTokensFormAChain
<1>4. \A q \in Sessions : q # s => (Exists(q)' <=> Exists(q)) /\ session'[q] = session[q]
  BY DEF Gives, Exists
<1>5. TokenInv'
  <2>1. \A g, h \in tokens'.generated : g[1] = h[1] => g = h
    BY <1>1 DEF Gives, TokenInv
  <2>2. ASSUME NEW q \in Sessions, Exists(q)'
        PROVE  <<session'[q].hash, q>> \in tokens'.generated
    BY <1>4, <2>2 DEF Gives, TokenInv
  <2>3. ASSUME NEW q \in Sessions, NEW j \in RefreshTokens, <<j, q>> \in tokens'.generated
        PROVE  session'[q] # NeverOpened
    <3>1. CASE q = s
      BY <3>1 DEF Gives, Exists
    <3>2. CASE q # s
      BY <1>4, <2>3, <3>2 DEF Gives, TokenInv
    <3> QED
      BY <3>1, <3>2
  <2>4. ASSUME NEW x \in tokens'.exchanged  PROVE Generated(x[1])'
    <3>1. CASE x \in ex
      BY <3>1 DEF Gives, TokenInv, Generated
    <3>2. CASE x \notin ex
      <4>1. Exists(s) /\ x = <<session[s].hash, k>>
        BY <2>4, <3>2 DEF Gives
      <4>2. <<session[s].hash, s>> \in tokens'.generated
        BY <4>1 DEF TokenInv, Gives
      <4> QED
        BY <4>1, <4>2 DEF Generated
    <3> QED
      BY <3>1, <3>2
  <2> QED
    BY <2>1, <2>2, <2>3, <2>4 DEF TokenInv
<1>6. \A x, y \in tokens'.exchanged : x[1] = y[1] => x = y
  BY <1>3 DEF Gives, RefreshTokensFormAChain
<1>7. ASSUME NEW q \in Sessions, Exists(q)', NEW j \in RefreshTokens, <<j, q>> \in tokens'.generated
      PROVE  (session'[q].hash # j) <=> (\E x \in tokens'.exchanged : x[1] = j)
  <2>1. CASE q # s
    <3>1. Exists(q) /\ session'[q] = session[q] /\ <<j, q>> \in gen
      BY <1>4, <1>7, <2>1 DEF Gives
    <3>2. (session[q].hash # j) <=> (\E x \in ex : x[1] = j)
      BY <3>1 DEF RefreshTokensFormAChain
    <3>3. Exists(s) => session[s].hash # j
      <4>1. Exists(s) => <<session[s].hash, s>> \in gen
        BY DEF TokenInv
      <4> QED
        BY <2>1, <3>1, <4>1 DEF TokenInv
    <3> QED
      BY <3>1, <3>2, <3>3 DEF Gives
  <2>2. CASE q = s /\ j = k
    <3>1. \A x \in tokens'.exchanged : x[1] # k
      BY <1>2, <1>3 DEF Gives
    <3> QED
      BY <2>2, <3>1 DEF Gives
  <2>3. CASE q = s /\ j # k
    <3>1. <<j, s>> \in gen
      BY <1>7, <2>3 DEF Gives
    <3>2. session[s] # NeverOpened /\ Exists(s)
      BY <3>1 DEF TokenInv, Gives
    <3>3. tokens'.exchanged = ex \union {<<session[s].hash, k>>}
      BY <3>2 DEF Gives
    <3>4. (session[s].hash # j) <=> (\E x \in ex : x[1] = j)
      BY <3>1, <3>2 DEF RefreshTokensFormAChain
    <3>5. session'[q].hash # j
      BY <2>3 DEF Gives
    <3>6. <<session[s].hash, k>>[1] = session[s].hash
      OBVIOUS
    <3>7. \E x \in tokens'.exchanged : x[1] = j
      BY <3>3, <3>4, <3>6
    <3> QED
      BY <3>5, <3>7
  <2> QED
    BY <2>1, <2>2, <2>3
<1> QED
  BY <1>5, <1>6, <1>7 DEF RefreshTokensFormAChain

LEMMA TokenStep ==
  ASSUME SessionsIInv, SessionsNext
  PROVE  TokenInv' /\ RefreshTokensFormAChain'
<1> USE DEF SessionsIInv
<1>1. CASE tokens' = tokens /\ \A s \in Sessions : Fades(s)
  BY <1>1, FadingKeepsTokens
<1>2. CASE \E p \in SessionRequests, s \in Sessions, k \in RefreshTokens : CreateLoginSession(p, s, k)
  BY <1>2, CreateGives, GivingKeepsTokens
<1>3. CASE \E p \in SessionRequests, k \in RefreshTokens : Rotate(p, k)
  BY <1>3, RotateGives, GivingKeepsTokens
<1> QED
  BY <1>1, <1>2, <1>3, SessionsFade

-----------------------------------------------------------------------------
(* Requests *)

LEMMA UsedAtIsPast ==
  ASSUME SessionsIInv, SessionsNext, NEW s \in Sessions, Exists(s)'
  PROVE  session'[s].usedAt <= sessionTime'
<1> USE DEF SessionsIInv
<1>1. sessionTime \in Int /\ sessionTime' \in Int /\ sessionTime <= sessionTime' /\ sessionTime >= 0
  BY TimeAdvances, MomentsAreNumbers DEF SessionsTypeOK
<1>2. Exists(s) => session[s].usedAt <= sessionTime /\ session[s].usedAt \in Int
  BY MomentsAreNumbers DEF RequestInv, SessionsTypeOK, Exists, AuthSession, Absent
<1>3. CASE \A q \in Sessions : Fades(q)
  BY <1>1, <1>2, <1>3 DEF Fades
<1>4. ASSUME NEW p \in SessionRequests, NEW q \in Sessions, NEW k \in RefreshTokens,
             CreateLoginSession(p, q, k)
      PROVE  session'[s].usedAt <= sessionTime'
  <2>1. session'[q].usedAt = Absent /\ (s # q => session'[s] = session[s])
    BY <1>4, CreateGives DEF Gives
  <2>2. CASE s = q
    BY <1>1, <2>1, <2>2 DEF Absent
  <2>3. CASE s # q
    BY <1>1, <1>2, <2>1, <2>3 DEF Exists
  <2> QED
    BY <2>2, <2>3
<1>5. ASSUME NEW p \in SessionRequests, NEW k \in RefreshTokens, Rotate(p, k)
      PROVE  session'[s].usedAt <= sessionTime'
  <2>1. PICK r \in Refreshing :
          /\ r = sessionRequest[p] /\ session'[r.session].usedAt = r.now
          /\ s # r.session => session'[s] = session[s]
    BY <1>5, RotateGives DEF Gives
  <2>2. r.now <= sessionTime /\ r.now \in Int
    BY <2>1, MomentsAreNumbers DEF RequestInv, RequestOK, Refreshing
  <2>3. CASE s = r.session
    BY <1>1, <2>1, <2>2, <2>3
  <2>4. CASE s # r.session
    BY <1>1, <1>2, <2>1, <2>4 DEF Exists
  <2> QED
    BY <2>3, <2>4
<1> QED
  BY <1>3, <1>4, <1>5, SessionsFade

\* A step that gives a session a token leaves no other request that fits it.
LEMMA GivingKeepsRequest ==
  ASSUME NEW s \in Sessions, NEW k \in RefreshTokens, Gives(s, k),
         sessionTime \in Int, sessionTime' \in Int, sessionTime <= sessionTime',
         NEW r \in Refreshing, RequestOK(r)
  PROVE  RequestOK(r)'
<1>1. Generated(r.token) /\ r.token # k
  BY DEF RequestOK, Gives
<1>2. Generated(r.token)'
  BY <1>1 DEF Generated, Gives
<1>3. r.now <= sessionTime'
  <2>1. r.now \in Int
    BY MomentsAreNumbers DEF Refreshing
  <2>2. r.now <= sessionTime
    BY DEF RequestOK
  <2> QED
    BY <2>1, <2>2
<1>4. ASSUME Exists(r.session)', session'[r.session].hash = r.token
      PROVE  session'[r.session].usedAt <= r.now
  <2>1. r.session # s /\ r.session \in Sessions
    BY <1>1, <1>4 DEF Gives, Refreshing
  <2>2. session'[r.session] = session[r.session]
    BY <2>1 DEF Gives
  <2> QED
    BY <1>4, <2>2 DEF RequestOK, Exists
<1> QED
  BY <1>2, <1>3, <1>4 DEF RequestOK

LEMMA RequestKept ==
  ASSUME SessionsIInv, SessionsNext, NEW r, RequestOK(r)
  PROVE  RequestOK(r)'
<1> USE DEF SessionsIInv
<1>1. sessionTime \in Int /\ sessionTime' \in Int /\ sessionTime <= sessionTime'
  BY TimeAdvances
<1>2. CASE tokens' = tokens /\ \A s \in Sessions : Fades(s)
  <2>1. ASSUME r \in Refreshing  PROVE r.now \in Int /\ r.session \in Sessions
    BY <2>1, MomentsAreNumbers DEF Refreshing
  <2>2. r \in Refreshing => (Generated(r.token)' <=> Generated(r.token))
    BY <1>2 DEF Generated
  <2> QED
    BY <1>1, <1>2, <2>1, <2>2 DEF RequestOK, Fades
<1>3. CASE \E p \in SessionRequests, s \in Sessions, k \in RefreshTokens : CreateLoginSession(p, s, k)
  <2>1. \E s \in Sessions, k \in RefreshTokens : Gives(s, k)
    BY <1>3, CreateGives
  <2> QED
    BY <1>1, <2>1, GivingKeepsRequest DEF RequestOK
<1>4. CASE \E p \in SessionRequests, k \in RefreshTokens : Rotate(p, k)
  <2>1. \E s \in Sessions, k \in RefreshTokens : Gives(s, k)
    BY <1>4, RotateGives
  <2> QED
    BY <1>1, <2>1, GivingKeepsRequest DEF RequestOK
<1> QED
  BY <1>2, <1>3, <1>4, SessionsFade

\* What a request goes on with is as good as what it found.
LEMMA RequestGoesOn ==
  ASSUME SessionsIInv, SessionsNext, NEW p \in SessionRequests
  PROVE  RequestOK(sessionRequest'[p])
<1> USE DEF SessionsIInv
<1>0. sessionRequest[p] \in {RequestIdle} \union LoggingIn \union Refreshing \union LoggingOut
  BY DEF SessionsTypeOK
<1>1. CASE sessionRequest'[p] = sessionRequest[p]
  BY <1>1 DEF RequestInv, RequestOK
<1>2. CASE sessionRequest'[p] = RequestIdle \/ sessionRequest'[p] \in LoggingIn \union LoggingOut
  BY <1>2 DEF RequestOK, RequestIdle, LoggingIn, LoggingOut, Refreshing
<1>3. ASSUME NEW k \in RefreshTokens, FindSession(p, k)
      PROVE  RequestOK(sessionRequest'[p])
  <2>1. PICK s \in Sessions :
          /\ IsUsable(s, sessionTime) /\ session[s].hash = k
          /\ sessionRequest'[p] = [pc |-> "user", session |-> s, token |-> k, now |-> sessionTime]
    BY <1>3 DEF FindSession, RequestBecomes, SessionsTypeOK
  <2>2. Exists(s) /\ session[s].usedAt <= sessionTime
    BY <2>1 DEF IsUsable, RequestInv
  <2>3. Generated(k)
    BY <2>1, <2>2 DEF TokenInv, Generated
  <2>4. sessionTime <= sessionTime
    BY MomentsAreNumbers DEF SessionsTypeOK
  <2> QED
    BY <2>1, <2>2, <2>3, <2>4 DEF RequestOK
<1>4. CASE CheckUser(p)
  <2>1. sessionRequest[p] \in Refreshing
    BY <1>0, <1>4 DEF CheckUser, RequestIdle, LoggingIn, LoggingOut
  <2>2. /\ sessionRequest'[p].session = sessionRequest[p].session
        /\ sessionRequest'[p].token = sessionRequest[p].token
        /\ sessionRequest'[p].now = sessionRequest[p].now
    BY <1>4, <2>1 DEF CheckUser, RequestBecomes, SessionsTypeOK, Refreshing
  <2> QED
    BY <2>1, <2>2 DEF RequestInv, RequestOK
<1>5. \/ sessionRequest'[p] = sessionRequest[p]
      \/ sessionRequest'[p] = RequestIdle \/ sessionRequest'[p] \in LoggingIn \union LoggingOut
      \/ \E k \in RefreshTokens : FindSession(p, k)
      \/ CheckUser(p)
  <2> DEFINE Same == sessionRequest'[p] = sessionRequest[p]
  <2>1. ASSUME NEW q \in SessionRequests, NEW v, RequestBecomes(q, v)
        PROVE  Same \/ (q = p /\ sessionRequest'[p] = v)
    BY <2>1 DEF RequestBecomes, SessionsTypeOK
  <2>2. ASSUME NEW q \in SessionRequests, NEW i \in LoginIds, NEW issuedAt \in Moments,
               CheckLogin(q, i, issuedAt)
        PROVE  Same \/ sessionRequest'[p] \in LoggingIn
    BY <2>1, <2>2 DEF CheckLogin, LoggingIn
  <2>3. ASSUME NEW q \in SessionRequests, NEW s \in Sessions, Authenticate(q, s)
        PROVE  Same \/ sessionRequest'[p] \in LoggingOut
    BY <2>1, <2>3 DEF Authenticate, LoggingOut
  <2>4. ASSUME NEW q \in SessionRequests, RequestBecomes(q, RequestIdle)
        PROVE  Same \/ sessionRequest'[p] = RequestIdle
    BY <2>1, <2>4
  <2>5. ASSUME NEW q \in SessionRequests, NEW k \in RefreshTokens, FindSession(q, k)
        PROVE  Same \/ FindSession(p, k)
    BY <2>1, <2>5 DEF FindSession
  <2>6. ASSUME NEW q \in SessionRequests, CheckUser(q)
        PROVE  Same \/ CheckUser(p)
    BY <2>1, <2>6 DEF CheckUser
  <2>7. CASE UNCHANGED sessionRequest
    BY <2>7
  <2> HIDE DEF Same
  <2>8. \/ Same
        \/ sessionRequest'[p] = RequestIdle \/ sessionRequest'[p] \in LoggingIn \union LoggingOut
        \/ \E k \in RefreshTokens : FindSession(p, k)
        \/ CheckUser(p)
    BY <2>2, <2>3, <2>4, <2>5, <2>6, <2>7
    DEF SessionsNext, PassSessionTime, ChangeAvailability, RemoveSession, RemoveProof,
        CreateLoginSession, RevokeUnavailable, Rotate, RevokeAuthSession, EndRequest, Same
  <2> QED
    BY <2>8 DEF Same
<1> QED
  BY <1>1, <1>2, <1>3, <1>4, <1>5

LEMMA RequestStep ==
  ASSUME SessionsIInv, SessionsNext
  PROVE  RequestInv'
<1>1. ASSUME NEW p \in SessionRequests  PROVE RequestOK(sessionRequest[p])'
  <2>1. \A r : RequestOK(r) => RequestOK(r)'
    BY RequestKept
  <2>2. PICK r : r = sessionRequest'[p] /\ RequestOK(r)
    BY RequestGoesOn
  <2>3. RequestOK(r)'
    BY <2>1, <2>2
  <2> QED
    BY <2>2, <2>3 DEF RequestOK
<1> QED
  BY <1>1, UsedAtIsPast DEF RequestInv

-----------------------------------------------------------------------------
(* The theorems *)

LEMMA SessionsStepIInv == SessionsIInv /\ [SessionsNext]_sessionVars => SessionsIInv'
<1> SUFFICES ASSUME SessionsIInv, [SessionsNext]_sessionVars  PROVE SessionsIInv'
  OBVIOUS
<1>1. CASE SessionsNext
  BY <1>1, SessionsTypeStep, TokenStep, RequestStep DEF SessionsIInv
<1>2. CASE UNCHANGED sessionVars
  BY <1>2
  DEF sessionVars, SessionsIInv, SessionsTypeOK, TokenInv, RequestInv, RequestOK, RefreshTokensFormAChain,
      Generated, Exists
<1> QED
  BY <1>1, <1>2

\* Every reachable state of the sessions is one where tokens have one origin
\* and a request that can still rotate began after the last rotation.
THEOREM SessionsInvariant == SessionsSpec => []SessionsIInv
<1> QED
  BY SessionsInitIInv, SessionsStepIInv, PTL DEF SessionsSpec

\* The documents and the requests keep the shape that createAuthSession and
\* refreshAuthSession give them.
THEOREM SessionsTypeCorrectness == SessionsSpec => []SessionsTypeOK
<1>1. SessionsIInv => SessionsTypeOK
  BY DEF SessionsIInv
<1> QED
  BY <1>1, SessionsInvariant, PTL

\* Whichever requests present the same refresh token at the same time, it is
\* exchanged at most once, and just the last one of a session is its own.
THEOREM TokensFormAChain == SessionsSpec => []RefreshTokensFormAChain
<1>1. SessionsIInv => RefreshTokensFormAChain
  BY DEF SessionsIInv
<1> QED
  BY <1>1, SessionsInvariant, PTL

\* No refresh, however slow, brings back a session that was revoked or
\* removed, or moves lastUsedAt back.
THEOREM SessionsMoveForward == SessionsSpec => SessionsOnlyMoveForward
<1> DEFINE Forward(s) ==
             /\ session[s] = Removed => session'[s] = Removed
             /\ Exists(s) =>
                  \/ session'[s] = Removed
                  \/ session[s].revoked /\ session'[s] = session[s]
                  \/ ~session[s].revoked /\ session'[s].usedAt >= session[s].usedAt
<1>1. ASSUME SessionsIInv, SessionsNext, NEW s \in Sessions  PROVE Forward(s)
  <2> USE DEF SessionsIInv
  <2>1. Exists(s) => session[s].usedAt \in Int /\ session[s].revoked \in BOOLEAN
    <3>1. Exists(s) => session[s] \in AuthSession
      BY <1>1 DEF SessionsTypeOK, Exists
    <3>2. ASSUME Exists(s)
          PROVE  session[s].usedAt \in Moments \union {-1} /\ session[s].revoked \in BOOLEAN
      BY <3>1, <3>2 DEF AuthSession, Absent
    <3>3. \A t \in Moments \union {-1} : t \in Int
      BY MomentsAreNumbers
    <3> HIDE DEF Forward
    <3> QED
      BY <3>2, <3>3
  <2>2. CASE \A q \in Sessions : Fades(q)
    BY <2>1, <2>2 DEF Fades
  <2>3. CASE session'[s] = session[s]
    BY <2>1, <2>3
  <2>4. ASSUME NEW p \in SessionRequests, NEW q \in Sessions, NEW k \in RefreshTokens,
               CreateLoginSession(p, q, k)
        PROVE  Forward(s)
    <3>1. session[q] = NeverOpened /\ (s # q => session'[s] = session[s])
      BY <1>1, <2>4, CreateGives DEF Gives
    <3> QED
      BY <2>3, <3>1 DEF Exists, NeverOpened, Removed
  <2>5. ASSUME NEW p \in SessionRequests, NEW k \in RefreshTokens, Rotate(p, k)
        PROVE  Forward(s)
    <3>1. PICK r \in Refreshing :
          /\ r = sessionRequest[p] /\ Exists(r.session) /\ ~session[r.session].revoked
          /\ session[r.session].hash = r.token /\ session'[r.session].usedAt = r.now
          /\ s # r.session => session'[s] = session[s]
      BY <1>1, <2>5, RotateGives DEF Gives
    <3>2. session[r.session].usedAt <= r.now /\ r.now \in Int
      BY <1>1, <3>1, MomentsAreNumbers DEF RequestInv, RequestOK, Refreshing
    <3>3. CASE s = r.session
      BY <2>1, <3>1, <3>2, <3>3 DEF Exists
    <3> QED
      BY <2>3, <3>1, <3>3
  <2> QED
    BY <1>1, <2>2, <2>4, <2>5, SessionsFade
<1>2. ASSUME SessionsIInv, UNCHANGED sessionVars, NEW s \in Sessions  PROVE session'[s] = session[s]
  BY <1>2 DEF sessionVars
<1>3. SessionsIInv /\ [SessionsNext]_sessionVars => [\A s \in Sessions : Forward(s)]_sessionVars
  BY <1>1
<1> HIDE DEF Forward
<1>4. SessionsSpec => [][\A s \in Sessions : Forward(s)]_sessionVars
  BY <1>3, SessionsInvariant, PTL DEF SessionsSpec
<1> QED
  BY <1>4 DEF Forward, SessionsOnlyMoveForward
=============================================================================
