--------------------------- MODULE SessionsProofs ---------------------------
(***************************************************************************)
(* Proofs about Sessions, for every set of users, tokens and requests,     *)
(* with or without Redis and a replica, whatever fails.                    *)
(***************************************************************************)
EXTENDS Sessions, TLAPS

(* Verification hands on the tokens it was given, and none that it was not. *)
LEMMA TryTypes ==
    ASSUME TypeOK, NEW r \in Request,
           NEW first, NEW second \in Token \cup {NoToken},
           Try(r, first, second)
    PROVE  /\ pc' \in [Request -> Steps]
           /\ cand' \in [Request -> Token \cup {NoToken}]
           /\ rest' \in [Request -> Token \cup {NoToken}]
<1>1. ASSUME NEW t \in Token, NEW after \in Token \cup {NoToken},
             Verifying(r, t, after)
      PROVE  /\ pc' \in [Request -> Steps]
             /\ cand' \in [Request -> Token \cup {NoToken}]
             /\ rest' \in [Request -> Token \cup {NoToken}]
  <2>1. (IF useRedis THEN "get" ELSE "check") \in Steps
    BY DEF Steps
  <2>2. QED
    BY <1>1, <2>1 DEF Verifying, TypeOK
<1>2. CASE Anonymous(r)
  BY <1>2 DEF Anonymous, TypeOK, Steps
<1>3. \A t : Passes(t) => t \in Token
  BY DEF Passes, TypeOK
<1>4. QED
  BY <1>1, <1>2, <1>3 DEF Try

LEMMA AppendType ==
    ASSUME NEW S, NEW s \in Seq(S), NEW e \in S
    PROVE  Append(s, e) \in Seq(S)
OBVIOUS

(* The users table holds columns, and the replica is sent columns. *)
LEMMA WriteRowTypes ==
    ASSUME TypeOK, NEW u \in User, NEW value \in Column, WriteRow(u, value)
    PROVE  /\ row' \in [User -> Column]
           /\ copy' \in [User -> Column]
           /\ relay' \in Seq([user : User, value : Column])
           /\ useRedis' \in BOOLEAN
<1>1. [user |-> u, value |-> value] \in [user : User, value : Column]
  OBVIOUS
<1>2. row' \in [User -> Column] /\ copy' \in [User -> Column]
  BY DEF WriteRow, TypeOK
<1>3. relay' \in Seq([user : User, value : Column])
  <2>1. relay \in Seq([user : User, value : Column])
    BY DEF TypeOK
  <2>2. relay' = relay \/ relay' = Append(relay, [user |-> u, value |-> value])
    BY DEF WriteRow
  <2>3. Append(relay, [user |-> u, value |-> value])
           \in Seq([user : User, value : Column])
    BY <1>1, <2>1, AppendType
  <2>4. QED
    BY <2>1, <2>2, <2>3
<1>4. useRedis' \in BOOLEAN
  BY DEF WriteRow, TypeOK
<1>5. QED
  BY <1>2, <1>3, <1>4

LEMMA VerifiedTypes ==
    ASSUME TypeOK, NEW r \in Request, NEW u \in User \cup {NoUser},
           Verified(r, u)
    PROVE  /\ pc' \in [Request -> Steps]
           /\ cand' \in [Request -> Token \cup {NoToken}]
           /\ rest' \in [Request -> Token \cup {NoToken}]
           /\ auth' \in [Request -> User \cup {NoUser}]
BY DEF Verified, TypeOK, Steps

LEMMA SupersedeTypes ==
    ASSUME TypeOK, NEW r \in Request, NEW u \in User, NEW value,
           Supersede(r, u, value)
    PROVE  /\ ends' \in [Request -> Token \cup {NoToken}]
           /\ since' \in [Token -> 0 .. Horizon]
<1>1. 0 \in 0 .. Horizon
  BY TimeAssumption DEF Horizon
<1>2. QED
  BY <1>1 DEF Supersede, TypeOK

LEMMA HeadTailType ==
    ASSUME NEW S, NEW s \in Seq(S), s # <<>>
    PROVE  Head(s) \in S /\ Tail(s) \in Seq(S)
OBVIOUS

(* A finished or aborted request leaves nothing behind. *)
LEMMA FreeTypes ==
    ASSUME TypeOK, NEW r \in Request, Free(r)
    PROVE  /\ pc' \in [Request -> Steps]
           /\ call' \in [Request -> [op : Ops, user : User] \cup {NoCall}]
           /\ cand' \in [Request -> Token \cup {NoToken}]
           /\ rest' \in [Request -> Token \cup {NoToken}]
           /\ auth' \in [Request -> User \cup {NoUser}]
           /\ prev' \in [Request -> Token \cup {NoToken}]
           /\ age' \in [Request -> 0 .. MaxAge]
           /\ since' \in [Token -> 0 .. Horizon]
           /\ ends' \in [Request -> Token \cup {NoToken}]
           /\ seen' \in [Request ->
                           [retired : SUBSET Token, expired : SUBSET Token]]
<1>1. 0 \in 0 .. MaxAge
  BY TimeAssumption
<1>2. Nothing \in [retired : SUBSET Token, expired : SUBSET Token]
  BY DEF Nothing
<1>3. /\ pc' \in [Request -> Steps]
      /\ call' \in [Request -> [op : Ops, user : User] \cup {NoCall}]
      /\ since' \in [Token -> 0 .. Horizon]
  BY DEF Free, TypeOK, Steps
<1>4. /\ cand' \in [Request -> Token \cup {NoToken}]
      /\ rest' \in [Request -> Token \cup {NoToken}]
      /\ auth' \in [Request -> User \cup {NoUser}]
      /\ prev' \in [Request -> Token \cup {NoToken}]
      /\ ends' \in [Request -> Token \cup {NoToken}]
  BY DEF Free, TypeOK
<1>5. /\ age' \in [Request -> 0 .. MaxAge]
      /\ seen' \in [Request -> [retired : SUBSET Token, expired : SUBSET Token]]
  BY <1>1, <1>2 DEF Free, TypeOK
<1>6. QED
  BY <1>3, <1>4, <1>5

(* Redis is there from the start or never. *)
LEMMA ModeStep == [Next]_vars => useRedis' = useRedis
BY DEF Next, Progress, Arrive, GetCachedUserId, CheckUserToken, Checked,
       CacheUserId, LoginLookup, SetToken, WriteRow, LogoutLookup, ClearToken,
       DeleteUser, InvalidateCachedToken, Abort, ReplicaApply, Tick, Expire,
       RedisRestart, vars, dbVars

(* Every variable keeps its type. *)
LEMMA TypeStep == TypeOK /\ UnderVerification /\ [Next]_vars => TypeOK'
<1>. SUFFICES ASSUME TypeOK, UnderVerification, [Next]_vars
              PROVE  TypeOK'
  OBVIOUS
<1>. USE DEF dbVars, cacheVars, jwtVars, reqVars, history
<1>1. ASSUME NEW r \in Request, Arrive(r) PROVE TypeOK'
  <2>1. PICK op \in Ops, u \in User :
           call' = [call EXCEPT ![r] = [op |-> op, user |-> u]]
    BY <1>1 DEF Arrive
  <2>2. PICK bearer \in minted \cup {NoToken}, cookie \in minted \cup {NoToken} :
           /\ Try(r, bearer, cookie)
           /\ seen' = [seen EXCEPT ![r] =
                 [retired |-> retired \cap {bearer, cookie},
                  expired |-> expired \cap {bearer, cookie}]]
    BY <1>1 DEF Arrive
  <2>3. cookie \in Token \cup {NoToken}
    BY DEF TypeOK
  <2>4. call' \in [Request -> [op : Ops, user : User] \cup {NoCall}]
    BY <2>1 DEF TypeOK
  <2>5. seen' \in [Request -> [retired : SUBSET Token, expired : SUBSET Token]]
    BY <2>2 DEF TypeOK
  <2>6. QED
    BY <1>1, <2>2, <2>3, <2>4, <2>5, TryTypes DEF Arrive, TypeOK
<1>2. ASSUME NEW r \in Request, GetCachedUserId(r) PROVE TypeOK'
  <2>1. cand[r] \in Token
    BY <1>2 DEF GetCachedUserId, UnderVerification, TypeOK
  <2>2. CASE Verified(r, cached[cand[r]])
    BY <1>2, <2>1, <2>2, VerifiedTypes DEF GetCachedUserId, TypeOK
  <2>3. CASE /\ pc' = [pc EXCEPT ![r] = "check"]
             /\ UNCHANGED <<cand, rest, auth>>
    BY <1>2, <2>3 DEF GetCachedUserId, TypeOK, Steps
  <2>4. QED
    BY <1>2, <2>2, <2>3 DEF GetCachedUserId
<1>3. ASSUME NEW r \in Request, CheckUserToken(r) PROVE TypeOK'
  <2>1. Owner[cand[r]] \in User
    BY <1>3, OwnerAssumption DEF CheckUserToken, Checked, UnderVerification, TypeOK
  <2>2. CASE Try(r, rest[r], NoToken) /\ UNCHANGED auth
    BY <1>3, <2>2, TryTypes DEF CheckUserToken, Checked, TypeOK
  <2>3. CASE /\ pc' = [pc EXCEPT ![r] = "set"]
             /\ UNCHANGED <<cand, rest, auth>>
    BY <1>3, <2>3 DEF CheckUserToken, Checked, TypeOK, Steps
  <2>4. CASE Verified(r, Owner[cand[r]])
    BY <1>3, <2>1, <2>4, VerifiedTypes DEF CheckUserToken, Checked, TypeOK
  <2>5. QED
    BY <1>3, <2>2, <2>3, <2>4 DEF CheckUserToken, Checked
<1>4. ASSUME NEW r \in Request, CacheUserId(r) PROVE TypeOK'
  <2>1. cand[r] \in Token /\ Owner[cand[r]] \in User
    BY <1>4, OwnerAssumption DEF CacheUserId, UnderVerification, TypeOK
  <2>2. TTL \in 0 .. TTL
    BY TimeAssumption
  <2>3. /\ cached' \in [Token -> User \cup {NoUser}]
        /\ ttl' \in [Token -> 0 .. TTL]
    <3>1. \/ /\ cached' = [cached EXCEPT ![cand[r]] = Owner[cand[r]]]
             /\ ttl' = [ttl EXCEPT ![cand[r]] = TTL]
          \/ cached' = cached /\ ttl' = ttl
      BY <1>4 DEF CacheUserId
    <3>2. /\ cached \in [Token -> User \cup {NoUser}]
          /\ ttl \in [Token -> 0 .. TTL]
      BY DEF TypeOK
    <3>3. QED
      BY <2>1, <2>2, <3>1, <3>2
  <2>4. QED
    BY <1>4, <2>1, <2>3, VerifiedTypes DEF CacheUserId, TypeOK
<1>5. ASSUME NEW r \in Request, LoginLookup(r) PROVE TypeOK'
  <2>1. call[r].user \in User
    BY <1>5 DEF LoginLookup, Running, TypeOK, NoCall
  <2>2. ReadRow(call[r].user) \in Column
    BY <2>1 DEF ReadRow, TypeOK
  <2>3. \E step \in Steps, drop \in Token \cup {NoToken} : Goto(r, step, drop)
    BY <1>5, <2>2 DEF LoginLookup, Steps, Column
  <2>4. QED
    BY <1>5, <2>3 DEF LoginLookup, Goto, TypeOK
<1>6. ASSUME NEW r \in Request, SetToken(r) PROVE TypeOK'
  <2>1. call[r].user \in User
    BY <1>6 DEF SetToken, TypeOK, NoCall
  <2>2. PICK t \in Mintable(call[r].user) :
           /\ minted' = minted \cup {t}
           /\ latest' = [latest EXCEPT ![call[r].user] = t]
           /\ IF row[call[r].user] # Gone
              THEN /\ WriteRow(call[r].user, t)
                   /\ Supersede(r, call[r].user, t)
              ELSE UNCHANGED <<dbVars, ends, since>>
           /\ retired' = retired \ {t}
           /\ seen' = [x \in Request |->
                          [seen[x] EXCEPT !.retired = @ \ {t}]]
    BY <1>6 DEF SetToken
  <2>3. t \in Token
    BY DEF Mintable
  <2>4. /\ row' \in [User -> Column]
        /\ copy' \in [User -> Column]
        /\ relay' \in Seq([user : User, value : Column])
        /\ useRedis' \in BOOLEAN
    BY <2>1, <2>2, <2>3, WriteRowTypes DEF TypeOK, Column
  <2>5. /\ ends' \in [Request -> Token \cup {NoToken}]
        /\ since' \in [Token -> 0 .. Horizon]
    BY <2>1, <2>2, SupersedeTypes DEF TypeOK
  <2>6. seen' \in [Request -> [retired : SUBSET Token, expired : SUBSET Token]]
    <3>1. ASSUME NEW x \in Request
          PROVE  [seen[x] EXCEPT !.retired = @ \ {t}]
                    \in [retired : SUBSET Token, expired : SUBSET Token]
      <4>1. seen[x] \in [retired : SUBSET Token, expired : SUBSET Token]
        BY DEF TypeOK
      <4>2. seen[x].retired \ {t} \in SUBSET Token
        BY <4>1
      <4>3. QED
        BY <4>1, <4>2
    <3>2. QED
      BY <2>2, <3>1
  <2>7. QED
    BY <1>6, <2>1, <2>2, <2>3, <2>4, <2>5, <2>6
       DEF SetToken, Goto, TypeOK, Steps
<1>7. ASSUME NEW r \in Request, LogoutLookup(r) PROVE TypeOK'
  <2>1. cand[r] \in Token \cup {NoToken}
    BY DEF TypeOK
  <2>2. \E step \in Steps, drop \in Token \cup {NoToken} : Goto(r, step, drop)
    BY <1>7, <2>1 DEF LogoutLookup, Steps
  <2>3. QED
    BY <1>7, <2>2 DEF LogoutLookup, Goto, TypeOK
<1>8. ASSUME NEW r \in Request, ClearToken(r) PROVE TypeOK'
  <2>1. call[r].user \in User
    BY <1>8 DEF ClearToken, TypeOK, NoCall
  <2>2. /\ row' \in [User -> Column]
        /\ copy' \in [User -> Column]
        /\ relay' \in Seq([user : User, value : Column])
        /\ useRedis' \in BOOLEAN
    BY <1>8, <2>1, WriteRowTypes DEF ClearToken, TypeOK, Column
  <2>3. /\ ends' \in [Request -> Token \cup {NoToken}]
        /\ since' \in [Token -> 0 .. Horizon]
    BY <1>8, <2>1, SupersedeTypes DEF ClearToken, TypeOK
  <2>4. QED
    BY <1>8, <2>2, <2>3 DEF ClearToken, Goto, TypeOK, Steps
<1>9. ASSUME NEW r \in Request, DeleteUser(r) PROVE TypeOK'
  <2>1. call[r].user \in User
    BY <1>9 DEF DeleteUser, Running, TypeOK, NoCall
  <2>2. /\ row' \in [User -> Column]
        /\ copy' \in [User -> Column]
        /\ relay' \in Seq([user : User, value : Column])
        /\ useRedis' \in BOOLEAN
    BY <1>9, <2>1, WriteRowTypes DEF DeleteUser, TypeOK, Column
  <2>3. /\ ends' \in [Request -> Token \cup {NoToken}]
        /\ since' \in [Token -> 0 .. Horizon]
    BY <1>9, <2>1, SupersedeTypes DEF DeleteUser, TypeOK
  <2>4. QED
    BY <1>9, <2>2, <2>3 DEF DeleteUser, Goto, TypeOK, Steps
<1>10. ASSUME NEW r \in Request, InvalidateCachedToken(r) PROVE TypeOK'
  <2>1. /\ cached' \in [Token -> User \cup {NoUser}]
        /\ ttl' \in [Token -> 0 .. TTL]
    <3>1. \A t \in Token : cached[t] \in User \cup {NoUser} /\ ttl[t] \in 0 .. TTL
      BY DEF TypeOK
    <3>2. CASE UNCHANGED cacheVars
      BY <3>2 DEF TypeOK
    <3>3. CASE
            /\ ttl' = [t \in Token |->
                         IF useRedis /\ t = prev[r] THEN 0 ELSE ttl[t]]
            /\ cached' = [t \in Token |->
                            IF useRedis /\ t = prev[r] THEN NoUser ELSE cached[t]]
      <4>1. 0 \in 0 .. TTL
        BY TimeAssumption
      <4>2. ttl' \in [Token -> 0 .. TTL]
        BY <3>1, <3>3, <4>1
      <4>3. cached' \in [Token -> User \cup {NoUser}]
        BY <3>1, <3>3
      <4>4. QED
        BY <4>2, <4>3
    <3>4. QED
      BY <1>10, <3>2, <3>3 DEF InvalidateCachedToken
  <2>2. retired' \subseteq Token
    BY <1>10 DEF InvalidateCachedToken, TypeOK
  <2>3. QED
    BY <1>10, <2>1, <2>2, FreeTypes DEF InvalidateCachedToken, TypeOK
<1>11. ASSUME NEW r \in Request, Abort(r) PROVE TypeOK'
  BY <1>11, FreeTypes DEF Abort, TypeOK
<1>12. CASE ReplicaApply
  <2>1. relay \in Seq([user : User, value : Column]) /\ relay # <<>>
    BY <1>12 DEF ReplicaApply, TypeOK
  <2>2. Head(relay) \in [user : User, value : Column]
    BY <2>1, HeadTailType
  <2>3. Tail(relay) \in Seq([user : User, value : Column])
    BY <2>1, HeadTailType
  <2>4. QED
    BY <1>12, <2>2, <2>3 DEF ReplicaApply, TypeOK
<1>13. CASE Tick
  <2>1. age' \in [Request -> 0 .. MaxAge]
    BY <1>13, TimeAssumption DEF Tick, TypeOK
  <2>2. ttl' \in [Token -> 0 .. TTL]
    BY <1>13, TimeAssumption DEF Tick, TypeOK
  <2>3. since' \in [Token -> 0 .. Horizon]
    <3>1. Horizon \in Nat
      BY TimeAssumption DEF Horizon
    <3>2. since' = [t \in Token |->
                      IF t \notin minted \/ Current(t) THEN 0
                      ELSE IF since[t] < Horizon THEN since[t] + 1 ELSE Horizon]
      BY <1>13 DEF Tick
    <3>3. \A t \in Token : since[t] \in 0 .. Horizon
      BY DEF TypeOK
    <3>4. QED
      BY <3>1, <3>2, <3>3
  <2>4. QED
    BY <1>13, <2>1, <2>2, <2>3 DEF Tick, TypeOK
<1>14. ASSUME NEW t \in Token, Expire(t) PROVE TypeOK'
  BY <1>14 DEF Expire, TypeOK
<1>15. CASE RedisRestart
  BY <1>15, TimeAssumption DEF RedisRestart, TypeOK
<1>16. CASE UNCHANGED vars
  BY <1>16 DEF vars, TypeOK
<1>17. QED
  BY <1>1, <1>2, <1>3, <1>4, <1>5, <1>6, <1>7, <1>8, <1>9, <1>10, <1>11,
     <1>12, <1>13, <1>14, <1>15, <1>16 DEF Next, Progress

-----------------------------------------------------------------------------

(* What trying two tokens does to a request: it goes on to verify one that   *)
(* was signed and has not expired, or runs without a token.                  *)
LEMMA TryEffect ==
    ASSUME TypeOK, NEW r \in Request,
           NEW first, NEW second \in Token \cup {NoToken},
           Try(r, first, second)
    PROVE  /\ \A x \in Request : x # r => pc'[x] = pc[x] /\ cand'[x] = cand[x]
           /\ \/ /\ pc'[r] \in {"get", "check"}
                 /\ cand'[r] \in (minted \ expired) \cap {first, second}
              \/ pc'[r] = "run" /\ cand'[r] = NoToken
<1>1. ASSUME NEW t, NEW after, Verifying(r, t, after)
      PROVE  /\ \A x \in Request : x # r => pc'[x] = pc[x] /\ cand'[x] = cand[x]
             /\ pc'[r] \in {"get", "check"} /\ cand'[r] = t
  BY <1>1 DEF Verifying, TypeOK
<1>2. CASE Anonymous(r)
  BY <1>2 DEF Anonymous, TypeOK
<1>3. QED
  BY <1>1, <1>2 DEF Try, Passes

(* A request verifies only signed tokens, and acts for nobody meanwhile. *)
LEMMA UnderVerificationStep == IInv /\ [Next]_vars => UnderVerification'
<1>. SUFFICES ASSUME IInv, [Next]_vars
              PROVE  UnderVerification'
  OBVIOUS
<1>. USE DEF dbVars, cacheVars, jwtVars, reqVars, history
<1>0. TypeOK /\ UnderVerification
  BY DEF IInv
<1>1. ASSUME NEW r \in Request, Arrive(r) PROVE UnderVerification'
  <2>1. PICK bearer \in minted \cup {NoToken}, cookie \in minted \cup {NoToken} :
           Try(r, bearer, cookie)
    BY <1>1 DEF Arrive
  <2>2. cookie \in Token \cup {NoToken}
    BY <1>0 DEF TypeOK
  <2>3. QED
    BY <1>0, <1>1, <2>1, <2>2, TryEffect DEF Arrive, UnderVerification
<1>2. ASSUME NEW r \in Request, GetCachedUserId(r) PROVE UnderVerification'
  BY <1>0, <1>2 DEF GetCachedUserId, Verified, UnderVerification, TypeOK
<1>3. ASSUME NEW r \in Request, CheckUserToken(r) PROVE UnderVerification'
  <2>1. CASE Try(r, rest[r], NoToken) /\ UNCHANGED auth
    <3>1. NoToken \in Token \cup {NoToken}
      OBVIOUS
    <3>2. QED
      BY <1>0, <1>3, <2>1, <3>1, TryEffect
         DEF CheckUserToken, Checked, UnderVerification
  <2>2. CASE /\ pc' = [pc EXCEPT ![r] = "set"]
             /\ UNCHANGED <<cand, rest, auth>>
    BY <1>0, <1>3, <2>2 DEF CheckUserToken, Checked, UnderVerification, TypeOK
  <2>3. CASE Verified(r, Owner[cand[r]])
    BY <1>0, <1>3, <2>3
       DEF CheckUserToken, Checked, Verified, UnderVerification, TypeOK
  <2>4. QED
    BY <1>3, <2>1, <2>2, <2>3 DEF CheckUserToken, Checked
<1>4. ASSUME NEW r \in Request, CacheUserId(r) PROVE UnderVerification'
  BY <1>0, <1>4 DEF CacheUserId, Verified, UnderVerification, TypeOK
<1>5. ASSUME NEW r \in Request, NEW step \in {"write", "finish"}, NEW drop,
             Goto(r, step, drop), minted \subseteq minted'
      PROVE  UnderVerification'
  BY <1>0, <1>5 DEF Goto, UnderVerification, TypeOK
<1>6. ASSUME NEW r \in Request,
             \/ LoginLookup(r) \/ SetToken(r) \/ LogoutLookup(r)
             \/ ClearToken(r) \/ DeleteUser(r)
      PROVE  UnderVerification'
  BY <1>5, <1>6
     DEF LoginLookup, SetToken, LogoutLookup, ClearToken, DeleteUser
<1>7. ASSUME NEW r \in Request, InvalidateCachedToken(r) \/ Abort(r)
      PROVE  UnderVerification'
  BY <1>0, <1>7
     DEF InvalidateCachedToken, Abort, Free, UnderVerification, TypeOK
<1>8. CASE \/ ReplicaApply \/ Tick \/ RedisRestart
           \/ (\E t \in Token : Expire(t)) \/ UNCHANGED vars
  BY <1>0, <1>8
     DEF ReplicaApply, Tick, RedisRestart, Expire, vars, UnderVerification
<1>9. QED
  BY <1>1, <1>2, <1>3, <1>4, <1>6, <1>7, <1>8 DEF Next, Progress

(* The cache and the verification agree with the tokens' owners. *)
LEMMA ActsAsTokenOwnerStep == IInv /\ [Next]_vars => ActsAsTokenOwner'
<1>. SUFFICES ASSUME IInv, [Next]_vars
              PROVE  ActsAsTokenOwner'
  OBVIOUS
<1>. USE DEF dbVars, cacheVars, jwtVars, reqVars, history
<1>0. TypeOK /\ UnderVerification /\ ActsAsTokenOwner
  BY DEF IInv
<1>1. ASSUME NEW r \in Request, Arrive(r) PROVE ActsAsTokenOwner'
  <2>1. PICK bearer \in minted \cup {NoToken}, cookie \in minted \cup {NoToken} :
           Try(r, bearer, cookie)
    BY <1>1 DEF Arrive
  <2>2. cookie \in Token \cup {NoToken}
    BY <1>0 DEF TypeOK
  <2>3. auth[r] = NoUser
    BY <1>0, <1>1 DEF Arrive, UnderVerification
  <2>4. QED
    BY <1>0, <1>1, <2>1, <2>2, <2>3, TryEffect DEF Arrive, ActsAsTokenOwner
<1>2. ASSUME NEW r \in Request, GetCachedUserId(r) PROVE ActsAsTokenOwner'
  <2>1. cand[r] \in minted /\ cand[r] \in Token
    BY <1>0, <1>2 DEF GetCachedUserId, UnderVerification, TypeOK
  <2>2. QED
    BY <1>0, <1>2, <2>1 DEF GetCachedUserId, Verified, ActsAsTokenOwner, TypeOK
<1>3. ASSUME NEW r \in Request, CheckUserToken(r) PROVE ActsAsTokenOwner'
  <2>1. cand[r] \in minted /\ auth[r] = NoUser
    BY <1>0, <1>3 DEF CheckUserToken, Checked, UnderVerification
  <2>2. CASE Try(r, rest[r], NoToken) /\ UNCHANGED auth
    <3>1. NoToken \in Token \cup {NoToken}
      OBVIOUS
    <3>2. QED
      BY <1>0, <1>3, <2>1, <2>2, <3>1, TryEffect
         DEF CheckUserToken, Checked, ActsAsTokenOwner
  <2>3. CASE UNCHANGED <<cand, rest, auth>>
    BY <1>0, <1>3, <2>3 DEF CheckUserToken, Checked, ActsAsTokenOwner
  <2>4. CASE Verified(r, Owner[cand[r]])
    BY <1>0, <1>3, <2>1, <2>4
       DEF CheckUserToken, Checked, Verified, ActsAsTokenOwner, TypeOK
  <2>5. QED
    BY <1>3, <2>2, <2>3, <2>4 DEF CheckUserToken, Checked
<1>4. ASSUME NEW r \in Request, CacheUserId(r) PROVE ActsAsTokenOwner'
  <2>1. cand[r] \in minted /\ cand[r] \in Token
    BY <1>0, <1>4 DEF CacheUserId, UnderVerification, TypeOK
  <2>2. QED
    <3>1. /\ \A x \in Request : x # r => auth'[x] = auth[x]
          /\ auth'[r] = Owner[cand[r]]
          /\ cand' = cand /\ minted' = minted
      BY <1>0, <1>4 DEF CacheUserId, Verified, TypeOK
    <3>2. \/ cached' = cached /\ ttl' = ttl
          \/ /\ cached' = [cached EXCEPT ![cand[r]] = Owner[cand[r]]]
             /\ ttl' = [ttl EXCEPT ![cand[r]] = TTL]
      BY <1>4 DEF CacheUserId
    <3>3. \A t \in Token : ttl'[t] > 0 =>
             \/ cached'[t] = Owner[t]
             \/ ttl[t] > 0 /\ cached'[t] = cached[t]
      <4>1. /\ ttl \in [Token -> 0 .. TTL]
            /\ cached \in [Token -> User \cup {NoUser}]
        BY <1>0 DEF TypeOK
      <4>2. CASE cached' = cached /\ ttl' = ttl
        BY <4>1, <4>2
      <4>3. CASE /\ cached' = [cached EXCEPT ![cand[r]] = Owner[cand[r]]]
                 /\ ttl' = [ttl EXCEPT ![cand[r]] = TTL]
        BY <4>1, <4>3
      <4>4. QED
        BY <3>2, <4>2, <4>3
    <3>4. QED
      BY <1>0, <2>1, <3>1, <3>3 DEF ActsAsTokenOwner
<1>5. ASSUME NEW r \in Request,
             \/ LoginLookup(r) \/ SetToken(r) \/ LogoutLookup(r)
             \/ ClearToken(r) \/ DeleteUser(r)
      PROVE  ActsAsTokenOwner'
  <2>1. /\ UNCHANGED <<cand, auth, cacheVars>>
        /\ minted \subseteq minted'
    BY <1>5 DEF LoginLookup, SetToken, LogoutLookup, ClearToken, DeleteUser, Goto
  <2>2. QED
    BY <1>0, <2>1 DEF ActsAsTokenOwner
<1>6. ASSUME NEW r \in Request, InvalidateCachedToken(r) \/ Abort(r)
      PROVE  ActsAsTokenOwner'
  <2>1. \A x \in Request :
           auth'[x] # NoUser => auth'[x] = auth[x] /\ cand'[x] = cand[x]
    BY <1>0, <1>6 DEF InvalidateCachedToken, Abort, Free, TypeOK
  <2>2. \A t \in Token : ttl'[t] > 0 => ttl[t] > 0 /\ cached'[t] = cached[t]
    BY <1>0, <1>6 DEF InvalidateCachedToken, Abort, TypeOK
  <2>3. minted' = minted
    BY <1>6 DEF InvalidateCachedToken, Abort
  <2>4. QED
    BY <1>0, <2>1, <2>2, <2>3 DEF ActsAsTokenOwner
<1>7. CASE Tick \/ RedisRestart
  <2>1. UNCHANGED <<auth, cand, minted>>
    BY <1>7 DEF Tick, RedisRestart
  <2>2. \A t \in Token : ttl'[t] > 0 => ttl[t] > 0 /\ cached'[t] = cached[t]
    BY <1>0, <1>7 DEF Tick, RedisRestart, TypeOK
  <2>3. QED
    BY <1>0, <2>1, <2>2 DEF ActsAsTokenOwner
<1>8. CASE ReplicaApply \/ (\E t \in Token : Expire(t)) \/ UNCHANGED vars
  BY <1>0, <1>8 DEF ReplicaApply, Expire, vars, ActsAsTokenOwner
<1>9. QED
  BY <1>1, <1>2, <1>3, <1>4, <1>5, <1>6, <1>7, <1>8 DEF Next, Progress

-----------------------------------------------------------------------------

(* A token that is not in its row after a write was not there before, or is  *)
(* out of it since that very write.                                          *)
LEMMA WriteRowAges ==
    ASSUME TypeOK, NEW r \in Request, NEW u \in User, NEW value,
           WriteRow(u, value), Supersede(r, u, value)
    PROVE  \A t \in Token : ~Current(t)' =>
              since'[t] = 0 \/ (~Current(t) /\ since'[t] = since[t])
<1>. SUFFICES ASSUME NEW t \in Token, ~Current(t)', since'[t] # 0
              PROVE  ~Current(t) /\ since'[t] = since[t]
  OBVIOUS
<1>1. since'[t] = since[t]
  BY DEF Supersede
<1>2. ~(row[u] = t /\ row[u] # value)
  BY DEF Supersede
<1>3. ASSUME Current(t) PROVE FALSE
  <2>1. Owner[t] \in User
    BY OwnerAssumption
  <2>2. row'[Owner[t]] = IF Owner[t] = u THEN value ELSE row[Owner[t]]
    BY <2>1 DEF WriteRow, TypeOK
  <2>3. QED
    BY <1>2, <1>3, <2>1, <2>2 DEF Current
<1>4. QED
  BY <1>1, <1>3

LEMMA OperationAges ==
    ASSUME TypeOK, NEW r \in Request,
           \/ LoginLookup(r) \/ SetToken(r) \/ LogoutLookup(r)
           \/ ClearToken(r) \/ DeleteUser(r)
    PROVE  \A t \in Token : ~Current(t)' =>
              since'[t] = 0 \/ (~Current(t) /\ since'[t] = since[t])
<1>. USE DEF dbVars, history
<1>0. CASE row' = row /\ since' = since
  BY <1>0 DEF Current
<1>1. CASE LoginLookup(r) \/ LogoutLookup(r)
  BY <1>0, <1>1 DEF LoginLookup, LogoutLookup
<1>2. CASE SetToken(r)
  <2>1. call[r].user \in User
    BY <1>2 DEF SetToken, TypeOK, NoCall
  <2>2. QED
    BY <1>0, <1>2, <2>1, WriteRowAges DEF SetToken
<1>3. CASE ClearToken(r)
  <2>1. call[r].user \in User
    BY <1>3 DEF ClearToken, TypeOK, NoCall
  <2>2. QED
    BY <1>0, <1>3, <2>1, WriteRowAges DEF ClearToken
<1>4. CASE DeleteUser(r)
  <2>1. call[r].user \in User
    BY <1>4 DEF DeleteUser, Running, TypeOK, NoCall
  <2>2. QED
    BY <1>0, <1>4, <2>1, WriteRowAges DEF DeleteUser
<1>5. QED
  BY <1>1, <1>2, <1>3, <1>4

(* A tick ages what was revoked. *)
LEMMA TickAges ==
    ASSUME TypeOK, Tick
    PROVE  \A t \in Token :
              \/ since'[t] = 0
              \/ ~Current(t) /\ since'[t] = since[t] + 1
              \/ ~Current(t) /\ since[t] = Horizon /\ since'[t] = Horizon
<1>. SUFFICES ASSUME NEW t \in Token
              PROVE  \/ since'[t] = 0
                     \/ ~Current(t) /\ since'[t] = since[t] + 1
                     \/ ~Current(t) /\ since[t] = Horizon /\ since'[t] = Horizon
  OBVIOUS
<1>1. since'[t] = IF t \notin minted \/ Current(t) THEN 0
                  ELSE IF since[t] < Horizon THEN since[t] + 1 ELSE Horizon
  BY DEF Tick
<1>2. since[t] \in 0 .. Horizon /\ Horizon \in Nat
  BY TimeAssumption DEF TypeOK, Horizon
<1>3. QED
  BY <1>1, <1>2

(* A stale entry has used up the time since the revocation. *)
LEMMA StaleEntryAgesStep == IInv /\ [Next]_vars => StaleEntryAges'
<1>. SUFFICES ASSUME IInv, [Next]_vars,
                     NEW t \in Token, ttl'[t] > 0, ~Current(t)'
              PROVE  since'[t] + ttl'[t] <= Horizon
  BY DEF StaleEntryAges, Horizon
<1>. USE DEF dbVars, cacheVars, jwtVars, reqVars, history
<1>0. /\ TypeOK /\ UnderVerification /\ OvertakenCheckAges
      /\ ~Current(t) /\ ttl[t] > 0 => since[t] + ttl[t] <= Horizon
  BY DEF IInv, StaleEntryAges
<1>1. /\ ttl[t] \in 0 .. TTL /\ since[t] \in 0 .. Horizon
      /\ TTL \in Nat \ {0} /\ MaxAge \in Nat /\ Horizon = TTL + MaxAge
  BY <1>0, TimeAssumption DEF TypeOK, Horizon
<1>2. CASE row' = row /\ since' = since /\ ttl' = ttl
  BY <1>0, <1>2 DEF Current
<1>3. ASSUME NEW r \in Request, CacheUserId(r)
      PROVE  since'[t] + ttl'[t] <= Horizon
  <2>1. row' = row /\ since' = since
    BY <1>3 DEF CacheUserId
  <2>2. CASE ttl' = ttl
    BY <1>2, <2>1, <2>2
  <2>3. CASE ttl' = [ttl EXCEPT ![cand[r]] = TTL]
    <3>1. CASE t = cand[r]
      <4>1. since[t] <= age[r]
        BY <1>0, <1>3, <2>1, <3>1 DEF CacheUserId, OvertakenCheckAges, Current
      <4>2. age[r] \in 0 .. MaxAge /\ ttl'[t] = TTL
        BY <1>0, <2>3, <3>1 DEF TypeOK
      <4>3. QED
        BY <1>1, <2>1, <4>1, <4>2
    <3>2. CASE t # cand[r]
      <4>1. ttl'[t] = ttl[t]
        BY <1>0, <2>3, <3>2 DEF TypeOK
      <4>2. QED
        BY <1>0, <2>1, <4>1 DEF Current
    <3>3. QED
      BY <3>1, <3>2
  <2>4. QED
    BY <1>3, <2>2, <2>3 DEF CacheUserId
<1>4. ASSUME NEW r \in Request,
             \/ LoginLookup(r) \/ SetToken(r) \/ LogoutLookup(r)
             \/ ClearToken(r) \/ DeleteUser(r)
      PROVE  since'[t] + ttl'[t] <= Horizon
  <2>1. ttl' = ttl
    BY <1>4 DEF LoginLookup, SetToken, LogoutLookup, ClearToken, DeleteUser
  <2>2. since'[t] = 0 \/ (~Current(t) /\ since'[t] = since[t])
    BY <1>0, <1>4, OperationAges
  <2>3. QED
    BY <1>0, <1>1, <2>1, <2>2
<1>5. ASSUME NEW r \in Request, InvalidateCachedToken(r)
      PROVE  since'[t] + ttl'[t] <= Horizon
  <2>1. row' = row /\ since' = since
    BY <1>5 DEF InvalidateCachedToken, Free
  <2>2. ttl'[t] = ttl[t]
    BY <1>5 DEF InvalidateCachedToken
  <2>3. QED
    BY <1>0, <2>1, <2>2 DEF Current
<1>6. CASE Tick
  <2>1. row' = row /\ ttl'[t] = (IF ttl[t] > 0 THEN ttl[t] - 1 ELSE 0)
    BY <1>6 DEF Tick
  <2>2. \/ since'[t] = 0
        \/ ~Current(t) /\ since'[t] = since[t] + 1
        \/ ~Current(t) /\ since[t] = Horizon /\ since'[t] = Horizon
    BY <1>0, <1>6, TickAges
  <2>3. QED
    BY <1>0, <1>1, <2>1, <2>2
<1>7. CASE RedisRestart
  BY <1>7 DEF RedisRestart
<1>8. ASSUME NEW r \in Request,
             \/ Arrive(r) \/ GetCachedUserId(r) \/ CheckUserToken(r) \/ Abort(r)
      PROVE  since'[t] + ttl'[t] <= Horizon
  BY <1>2, <1>8 DEF Arrive, GetCachedUserId, CheckUserToken, Checked, Abort, Free
<1>9. CASE ReplicaApply \/ (\E x \in Token : Expire(x)) \/ UNCHANGED vars
  BY <1>2, <1>9 DEF ReplicaApply, Expire, vars
<1>10. QED
  BY <1>3, <1>4, <1>5, <1>6, <1>7, <1>8, <1>9 DEF Next, Progress

(* What was revoked under a request about to fill the cache was revoked      *)
(* since that request arrived.                                               *)
LEMMA OvertakenCheckAgesStep == IInv /\ [Next]_vars => OvertakenCheckAges'
<1>. SUFFICES ASSUME IInv, [Next]_vars,
                     NEW x \in Request, pc'[x] = "set", ~(Current(cand[x])')
              PROVE  since'[cand'[x]] <= age'[x]
  BY DEF OvertakenCheckAges
<1>. USE DEF dbVars, cacheVars, jwtVars, reqVars, history
<1>0. TypeOK /\ UnderVerification /\ OvertakenCheckAges
  BY DEF IInv
<1>1. age[x] \in Nat
  BY <1>0, TimeAssumption DEF TypeOK
<1>2. CASE /\ row' = row /\ since' = since
           /\ pc'[x] = pc[x] /\ cand'[x] = cand[x] /\ age'[x] = age[x]
  BY <1>0, <1>2 DEF OvertakenCheckAges, Current
<1>3. ASSUME NEW r \in Request, Arrive(r)
      PROVE  since'[cand'[x]] <= age'[x]
  <2>1. PICK bearer \in minted \cup {NoToken}, cookie \in minted \cup {NoToken} :
           Try(r, bearer, cookie)
    BY <1>3 DEF Arrive
  <2>2. cookie \in Token \cup {NoToken}
    BY <1>0 DEF TypeOK
  <2>3. pc'[x] = pc[x] /\ cand'[x] = cand[x]
    BY <1>0, <2>1, <2>2, TryEffect
  <2>4. QED
    BY <1>2, <1>3, <2>3 DEF Arrive
<1>4. ASSUME NEW r \in Request, GetCachedUserId(r)
      PROVE  since'[cand'[x]] <= age'[x]
  <2>1. x # r
    BY <1>0, <1>4 DEF GetCachedUserId, Verified, TypeOK
  <2>2. QED
    BY <1>0, <1>2, <1>4, <2>1 DEF GetCachedUserId, Verified, TypeOK
<1>5. ASSUME NEW r \in Request, CheckUserToken(r)
      PROVE  since'[cand'[x]] <= age'[x]
  <2>1. row' = row /\ since' = since /\ age' = age
    BY <1>5 DEF CheckUserToken, Checked
  <2>2. CASE Try(r, rest[r], NoToken)
    <3>1. NoToken \in Token \cup {NoToken}
      OBVIOUS
    <3>2. pc'[x] = pc[x] /\ cand'[x] = cand[x]
      BY <1>0, <2>2, <3>1, TryEffect
    <3>3. QED
      BY <1>2, <2>1, <3>2
  <2>3. CASE Verified(r, Owner[cand[r]])
    <3>1. pc'[x] = pc[x] /\ cand'[x] = cand[x]
      BY <1>0, <2>3 DEF Verified, TypeOK
    <3>2. QED
      BY <1>2, <2>1, <3>1
  <2>4. CASE /\ Current(cand[r])
             /\ pc' = [pc EXCEPT ![r] = "set"]
             /\ UNCHANGED <<cand, rest, auth>>
    <3>1. x # r
      BY <2>1, <2>4 DEF Current
    <3>2. QED
      BY <1>0, <1>2, <2>1, <2>4, <3>1 DEF TypeOK
  <2>5. QED
    BY <1>5, <2>2, <2>3, <2>4 DEF CheckUserToken, Checked
<1>6. ASSUME NEW r \in Request, CacheUserId(r)
      PROVE  since'[cand'[x]] <= age'[x]
  BY <1>0, <1>2, <1>6 DEF CacheUserId, Verified, TypeOK
<1>7. ASSUME NEW r \in Request,
             \/ LoginLookup(r) \/ SetToken(r) \/ LogoutLookup(r)
             \/ ClearToken(r) \/ DeleteUser(r)
      PROVE  since'[cand'[x]] <= age'[x]
  <2>1. /\ pc'[x] = pc[x] /\ cand' = cand /\ age' = age
    BY <1>0, <1>7
       DEF LoginLookup, SetToken, LogoutLookup, ClearToken, DeleteUser, Goto,
           TypeOK
  <2>2. cand[x] \in Token
    BY <1>0, <2>1 DEF UnderVerification, TypeOK
  <2>3. \/ since'[cand[x]] = 0
        \/ ~Current(cand[x]) /\ since'[cand[x]] = since[cand[x]]
    <3>1. \A t \in Token : ~Current(t)' =>
             since'[t] = 0 \/ (~Current(t) /\ since'[t] = since[t])
      BY <1>0, <1>7, OperationAges
    <3>2. QED
      BY <2>1, <2>2, <3>1 DEF Current
  <2>4. QED
    BY <1>0, <1>1, <2>1, <2>3 DEF OvertakenCheckAges
<1>8. ASSUME NEW r \in Request, InvalidateCachedToken(r) \/ Abort(r)
      PROVE  since'[cand'[x]] <= age'[x]
  <2>1. x # r
    BY <1>0, <1>8 DEF InvalidateCachedToken, Abort, Free, TypeOK
  <2>2. QED
    BY <1>0, <1>2, <1>8, <2>1 DEF InvalidateCachedToken, Abort, Free, TypeOK
<1>9. CASE Tick
  <2>1. pc' = pc /\ cand' = cand /\ row' = row
    BY <1>9 DEF Tick
  <2>2. x \in InFlight /\ age'[x] = age[x] + 1
    BY <1>9, <2>1 DEF Tick, InFlight
  <2>3. cand[x] \in Token
    BY <1>0, <2>1 DEF UnderVerification, TypeOK
  <2>4. \/ since'[cand[x]] = 0
        \/ ~Current(cand[x]) /\ since'[cand[x]] = since[cand[x]] + 1
        \/ /\ ~Current(cand[x])
           /\ since[cand[x]] = Horizon /\ since'[cand[x]] = Horizon
    BY <1>0, <1>9, <2>3, TickAges
  <2>5. since[cand[x]] \in Nat
    BY <1>0, <2>3, TimeAssumption DEF TypeOK, Horizon
  <2>6. ~Current(cand[x]) => since[cand[x]] <= age[x]
    BY <1>0, <2>1 DEF OvertakenCheckAges
  <2>7. QED
    BY <1>1, <2>1, <2>2, <2>4, <2>5, <2>6
<1>10. CASE \/ ReplicaApply \/ RedisRestart
            \/ (\E t \in Token : Expire(t)) \/ UNCHANGED vars
  BY <1>2, <1>10 DEF ReplicaApply, RedisRestart, Expire, vars
<1>11. QED
  BY <1>3, <1>4, <1>5, <1>6, <1>7, <1>8, <1>9, <1>10 DEF Next, Progress

(* A logout past its checks stays the logout of its own user. *)
LEMMA LogoutAuthorisedStep == IInv /\ [Next]_vars => LogoutAuthorised'
<1>. SUFFICES ASSUME IInv, [Next]_vars,
                     NEW x \in Request, pc'[x] = "write", call'[x].op = "logout"
              PROVE  auth'[x] = call'[x].user
  BY DEF LogoutAuthorised
<1>. USE DEF dbVars, cacheVars, jwtVars, reqVars, history
<1>0. TypeOK /\ LogoutAuthorised
  BY DEF IInv
<1>1. CASE pc'[x] = pc[x] /\ call'[x] = call[x] /\ auth'[x] = auth[x]
  BY <1>0, <1>1 DEF LogoutAuthorised
<1>2. ASSUME NEW r \in Request, Arrive(r) PROVE auth'[x] = call'[x].user
  <2>1. PICK bearer \in minted \cup {NoToken}, cookie \in minted \cup {NoToken} :
           Try(r, bearer, cookie)
    BY <1>2 DEF Arrive
  <2>2. cookie \in Token \cup {NoToken}
    BY <1>0 DEF TypeOK
  <2>3. x # r /\ pc'[x] = pc[x]
    BY <1>0, <2>1, <2>2, TryEffect
  <2>4. call'[x] = call[x] /\ auth' = auth
    BY <1>0, <1>2, <2>3 DEF Arrive, TypeOK
  <2>5. QED
    BY <1>1, <2>3, <2>4
<1>3. ASSUME NEW r \in Request,
             GetCachedUserId(r) \/ CheckUserToken(r) \/ CacheUserId(r)
      PROVE  auth'[x] = call'[x].user
  <2>1. CASE Try(r, rest[r], NoToken) /\ UNCHANGED <<auth, call>>
    <3>1. NoToken \in Token \cup {NoToken}
      OBVIOUS
    <3>2. pc'[x] = pc[x]
      BY <1>0, <2>1, <3>1, TryEffect
    <3>3. QED
      BY <1>1, <2>1, <3>2
  <2>2. CASE /\ \E step \in {"check", "set"} : pc' = [pc EXCEPT ![r] = step]
             /\ UNCHANGED <<auth, call>>
    BY <1>0, <1>1, <2>2 DEF TypeOK
  <2>3. CASE (\E u : Verified(r, u)) /\ UNCHANGED call
    BY <1>0, <1>1, <2>3 DEF Verified, TypeOK
  <2>4. QED
    BY <1>3, <2>1, <2>2, <2>3
       DEF GetCachedUserId, CheckUserToken, Checked, CacheUserId
<1>4. ASSUME NEW r \in Request,
             \/ LoginLookup(r) \/ SetToken(r) \/ ClearToken(r) \/ DeleteUser(r)
      PROVE  auth'[x] = call'[x].user
  BY <1>0, <1>1, <1>4
     DEF LoginLookup, SetToken, ClearToken, DeleteUser, Goto, Running, TypeOK
<1>5. ASSUME NEW r \in Request, LogoutLookup(r)
      PROVE  auth'[x] = call'[x].user
  BY <1>0, <1>1, <1>5 DEF LogoutLookup, Goto, TypeOK
<1>6. ASSUME NEW r \in Request, InvalidateCachedToken(r) \/ Abort(r)
      PROVE  auth'[x] = call'[x].user
  BY <1>0, <1>1, <1>6 DEF InvalidateCachedToken, Abort, Free, TypeOK
<1>7. CASE \/ ReplicaApply \/ Tick \/ RedisRestart
           \/ (\E t \in Token : Expire(t)) \/ UNCHANGED vars
  BY <1>1, <1>7 DEF ReplicaApply, Tick, RedisRestart, Expire, vars
<1>8. QED
  BY <1>2, <1>3, <1>4, <1>5, <1>6, <1>7 DEF Next, Progress

(* No request presents, or falls back to, a token expired on arrival.        *)
LEMMA UnexpiredOnArrivalStep == IInv /\ [Next]_vars => UnexpiredOnArrival'
<1>. SUFFICES ASSUME IInv, [Next]_vars
              PROVE  UnexpiredOnArrival'
  OBVIOUS
<1>. USE DEF dbVars, cacheVars, jwtVars, reqVars, history
<1>0. TypeOK /\ UnexpiredOnArrival
  BY DEF IInv
<1>1. ASSUME expired \subseteq expired',
             \A x \in Request : seen'[x].expired = seen[x].expired,
             \A x \in Request : cand'[x] = cand[x]
      PROVE  UnexpiredOnArrival'
  BY <1>0, <1>1 DEF UnexpiredOnArrival
<1>2. ASSUME NEW r \in Request, Arrive(r) PROVE UnexpiredOnArrival'
  <2>1. PICK bearer \in minted \cup {NoToken}, cookie \in minted \cup {NoToken} :
           /\ Try(r, bearer, cookie)
           /\ seen' = [seen EXCEPT ![r] =
                 [retired |-> retired \cap {bearer, cookie},
                  expired |-> expired \cap {bearer, cookie}]]
    BY <1>2 DEF Arrive
  <2>2. cookie \in Token \cup {NoToken}
    BY <1>0 DEF TypeOK
  <2>3. \A x \in Request : x # r => cand'[x] = cand[x] /\ seen'[x] = seen[x]
    BY <1>0, <2>1, <2>2, TryEffect DEF TypeOK
  <2>4. cand'[r] \notin expired
    <3>1. NoToken \notin expired
      BY <1>0, NullAssumption DEF TypeOK
    <3>2. QED
      BY <1>0, <2>1, <2>2, <3>1, TryEffect
  <2>5. seen'[r].expired = expired \cap {bearer, cookie}
    BY <1>0, <2>1 DEF TypeOK
  <2>6. expired' = expired
    BY <1>2 DEF Arrive
  <2>7. QED
    BY <1>0, <2>3, <2>4, <2>5, <2>6 DEF UnexpiredOnArrival
<1>3. ASSUME NEW r \in Request, CheckUserToken(r) PROVE UnexpiredOnArrival'
  <2>1. expired' = expired /\ seen' = seen
    BY <1>3 DEF CheckUserToken, Checked
  <2>2. CASE Try(r, rest[r], NoToken)
    <3>1. NoToken \in Token \cup {NoToken} /\ NoToken \notin expired
      BY <1>0, NullAssumption DEF TypeOK
    <3>2. /\ \A x \in Request : x # r => cand'[x] = cand[x]
          /\ cand'[r] \notin expired
      BY <1>0, <2>2, <3>1, TryEffect
    <3>3. QED
      BY <1>0, <2>1, <3>2 DEF UnexpiredOnArrival
  <2>3. CASE UNCHANGED cand
    BY <1>1, <2>1, <2>3
  <2>4. QED
    BY <1>3, <2>2, <2>3 DEF CheckUserToken, Checked, Verified
<1>4. ASSUME NEW r \in Request, SetToken(r) PROVE UnexpiredOnArrival'
  <2>1. PICK t : seen' = [x \in Request |->
                            [seen[x] EXCEPT !.retired = @ \ {t}]]
    BY <1>4 DEF SetToken
  <2>2. \A x \in Request : seen'[x].expired = seen[x].expired
    BY <1>0, <2>1 DEF TypeOK
  <2>3. expired' = expired /\ cand' = cand
    BY <1>4 DEF SetToken, Goto
  <2>4. QED
    BY <1>1, <2>2, <2>3
<1>5. ASSUME NEW r \in Request, InvalidateCachedToken(r) \/ Abort(r)
      PROVE  UnexpiredOnArrival'
  <2>1. /\ expired' = expired
        /\ \A x \in Request : x # r => cand'[x] = cand[x] /\ seen'[x] = seen[x]
        /\ seen'[r].expired = {}
    BY <1>0, <1>5
       DEF InvalidateCachedToken, Abort, Free, Nothing, TypeOK
  <2>2. QED
    BY <1>0, <2>1 DEF UnexpiredOnArrival
<1>6. ASSUME NEW r \in Request,
             \/ GetCachedUserId(r) \/ CacheUserId(r) \/ LoginLookup(r)
             \/ LogoutLookup(r) \/ ClearToken(r) \/ DeleteUser(r)
      PROVE  UnexpiredOnArrival'
  BY <1>1, <1>6
     DEF GetCachedUserId, CacheUserId, Verified, LoginLookup, LogoutLookup,
         ClearToken, DeleteUser, Goto
<1>7. CASE \/ ReplicaApply \/ Tick \/ RedisRestart
           \/ (\E t \in Token : Expire(t)) \/ UNCHANGED vars
  BY <1>1, <1>7 DEF ReplicaApply, Tick, RedisRestart, Expire, vars
<1>8. QED
  BY <1>2, <1>3, <1>4, <1>5, <1>6, <1>7 DEF Next, Progress

-----------------------------------------------------------------------------

LEMMA InitInvariant == Init => IInv
<1>. SUFFICES ASSUME Init PROVE IInv
  OBVIOUS
<1>1. TypeOK
  <2>1. <<>> \in Seq([user : User, value : Column])
    OBVIOUS
  <2>2. 0 \in 0 .. TTL /\ 0 \in 0 .. MaxAge /\ 0 \in 0 .. Horizon
    BY TimeAssumption DEF Horizon
  <2>3. Nothing \in [retired : SUBSET Token, expired : SUBSET Token]
    BY DEF Nothing
  <2>4. QED
    BY <2>1, <2>2, <2>3, ModeAssumption DEF Init, TypeOK, Column, Steps
<1>2. ActsAsTokenOwner /\ StaleEntryAges
  BY DEF Init, ActsAsTokenOwner, StaleEntryAges
<1>3. UnderVerification /\ OvertakenCheckAges /\ LogoutAuthorised
  BY DEF Init, UnderVerification, OvertakenCheckAges, LogoutAuthorised
<1>4. UnexpiredOnArrival
  BY DEF Init, UnexpiredOnArrival, Nothing
<1>5. QED
  BY <1>1, <1>2, <1>3, <1>4 DEF IInv

(* Every reachable state satisfies the inductive invariant. *)
THEOREM Invariance == Spec => []IInv
<1>1. IInv /\ [Next]_vars => IInv'
  <2>1. IInv => TypeOK /\ UnderVerification
    BY DEF IInv
  <2>2. QED
    BY <2>1, TypeStep, ActsAsTokenOwnerStep, UnderVerificationStep,
       StaleEntryAgesStep, OvertakenCheckAgesStep, LogoutAuthorisedStep,
       UnexpiredOnArrivalStep DEF IInv
<1>2. QED
  BY <1>1, InitInvariant, PTL DEF Spec

(* Every variable always has its type: verification hands only tokens to the *)
(* cache and the database, and no counter leaves its range.                  *)
THEOREM TypeCorrect == Spec => []TypeOK
<1>1. IInv => TypeOK
  BY DEF IInv
<1>2. QED
  BY <1>1, Invariance, PTL

(* A request acts as the owner of the token it presented, or as nobody       *)
(* (context/index.ts:24-48), however cache and database answers interleave.  *)
THEOREM TokenOwner == Spec => []ActsAsTokenOwner
<1>1. IInv => ActsAsTokenOwner
  BY DEF IInv
<1>2. QED
  BY <1>1, Invariance, PTL

(* A stale cache entry has lived at least as long as its token has been      *)
(* revoked, less the age of one request (token-cache.ts:42-50).              *)
THEOREM StaleEntries == Spec => []StaleEntryAges
<1>1. IInv => StaleEntryAges
  BY DEF IInv
<1>2. QED
  BY <1>1, Invariance, PTL

(* No request is authenticated by a token that had expired when it arrived   *)
(* (context/index.ts:27-33).                                                 *)
THEOREM ExpiredRejected == Spec => []ExpiredTokenRejected
<1>1. IInv => ExpiredTokenRejected
  BY DEF IInv, UnexpiredOnArrival, ExpiredTokenRejected
<1>2. QED
  BY <1>1, Invariance, PTL

(* TTL_SECONDS bounds how long a revocation can go unnoticed, whatever cache *)
(* command is lost and however the requests interleave.                      *)
THEOREM RevocationLag == Spec => RevocationLagBounded
<1>1. ASSUME IInv, [Next]_vars, NEW x \in Request, Authenticates(x)
      PROVE  Current(cand[x]) \/ since[cand[x]] < Horizon
  <2>. USE DEF dbVars, cacheVars, jwtVars, reqVars, history
  <2>0. /\ TypeOK /\ UnderVerification /\ StaleEntryAges /\ OvertakenCheckAges
    BY <1>1 DEF IInv
  <2>1. TTL \in Nat \ {0} /\ MaxAge \in Nat /\ Horizon = TTL + MaxAge
    BY TimeAssumption DEF Horizon
  <2>2. auth'[x] # auth[x]
    BY <1>1 DEF Authenticates
  <2>3. ASSUME NEW r \in Request, GetCachedUserId(r)
        PROVE  Current(cand[x]) \/ since[cand[x]] < Horizon
    <3>1. x = r /\ Verified(r, cached[cand[r]])
      BY <2>0, <2>2, <2>3 DEF GetCachedUserId, Verified, TypeOK
    <3>2. cand[r] \in Token /\ ttl[cand[r]] > 0
      BY <2>0, <2>2, <2>3, <3>1
         DEF GetCachedUserId, Verified, UnderVerification, TypeOK
    <3>3. ttl[cand[r]] \in 0 .. TTL /\ since[cand[r]] \in 0 .. Horizon
      BY <2>0, <3>2 DEF TypeOK
    <3>4. ~Current(cand[r]) => since[cand[r]] + ttl[cand[r]] <= Horizon
      BY <2>0, <3>2 DEF StaleEntryAges
    <3>5. QED
      BY <2>1, <3>1, <3>2, <3>3, <3>4
  <2>4. ASSUME NEW r \in Request, CheckUserToken(r)
        PROVE  Current(cand[x]) \/ since[cand[x]] < Horizon
    <3>1. x = r /\ Verified(r, Owner[cand[r]]) /\ Current(cand[r])
      BY <2>0, <2>2, <2>4 DEF CheckUserToken, Checked, Verified, TypeOK
    <3>2. QED
      BY <3>1
  <2>5. ASSUME NEW r \in Request, CacheUserId(r)
        PROVE  Current(cand[x]) \/ since[cand[x]] < Horizon
    <3>1. x = r /\ pc[r] = "set"
      BY <2>0, <2>2, <2>5 DEF CacheUserId, Verified, TypeOK
    <3>2. cand[r] \in Token /\ age[r] \in 0 .. MaxAge
      BY <2>0, <3>1 DEF UnderVerification, TypeOK
    <3>3. since[cand[r]] \in 0 .. Horizon
      BY <2>0, <3>2 DEF TypeOK
    <3>4. ~Current(cand[r]) => since[cand[r]] <= age[r]
      BY <2>0, <3>1 DEF OvertakenCheckAges
    <3>5. QED
      BY <2>1, <3>1, <3>2, <3>3, <3>4
  <2>6. ASSUME NEW r \in Request, InvalidateCachedToken(r) \/ Abort(r)
        PROVE  FALSE
    <3>1. auth' = [auth EXCEPT ![r] = NoUser]
      BY <2>6 DEF InvalidateCachedToken, Abort, Free
    <3>2. QED
      BY <1>1, <2>0, <2>2, <3>1 DEF Authenticates, TypeOK
  <2>7. ASSUME NEW r \in Request,
               \/ Arrive(r) \/ LoginLookup(r) \/ SetToken(r) \/ LogoutLookup(r)
               \/ ClearToken(r) \/ DeleteUser(r)
        PROVE  FALSE
    BY <2>2, <2>7
       DEF Arrive, LoginLookup, SetToken, LogoutLookup, ClearToken, DeleteUser,
           Goto
  <2>8. CASE \/ ReplicaApply \/ Tick \/ RedisRestart
             \/ (\E t \in Token : Expire(t)) \/ UNCHANGED vars
    BY <2>2, <2>8 DEF ReplicaApply, Tick, RedisRestart, Expire, vars
  <2>9. QED
    BY <1>1, <2>3, <2>4, <2>5, <2>6, <2>7, <2>8 DEF Next, Progress
<1>2. IInv /\ [Next]_vars =>
         [\A r \in Request : Authenticates(r) =>
             Current(cand[r]) \/ since[cand[r]] < Horizon]_vars
  BY <1>1
<1>3. QED
  BY <1>2, Invariance, PTL DEF Spec, RevocationLagBounded

(* A session ends only in a logout or deleteUser of its own user             *)
(* (login/datasources.ts:177-187, login-functions.ts:11-20).                 *)
THEOREM OwnerEndsSession == Spec => OnlyOwnerEndsSession
<1>. DEFINE Owned(u) ==
       row'[u] # row[u] /\ row'[u] \in {NoToken, Gone} =>
          \E r \in Request :
             /\ pc'[r] # pc[r]
             /\ call[r].op \in {"logout", "deleteUser"}
             /\ auth[r] = u
<1>1. ASSUME IInv, [Next]_vars, NEW u \in User
      PROVE  Owned(u)
  <2>. USE DEF dbVars, cacheVars, jwtVars, reqVars, history
  <2>0. TypeOK /\ LogoutAuthorised
    BY <1>1 DEF IInv
  <2>1. CASE row' = row
    BY <2>1
  <2>2. ASSUME NEW r \in Request, SetToken(r) PROVE Owned(u)
    <3>1. CASE row' = row
      BY <3>1
    <3>2. CASE \E t \in Mintable(call[r].user) : WriteRow(call[r].user, t)
      <4>1. PICK t \in Token : row' = [row EXCEPT ![call[r].user] = t]
        BY <3>2 DEF Mintable, WriteRow
      <4>2. row'[u] = row[u] \/ row'[u] = t
        BY <2>0, <4>1 DEF TypeOK
      <4>3. QED
        BY <4>1, <4>2, NullAssumption
    <3>3. QED
      BY <2>2, <3>1, <3>2 DEF SetToken
  <2>3. ASSUME NEW r \in Request, ClearToken(r) PROVE Owned(u)
    <3>1. call[r].op = "logout" /\ auth[r] = call[r].user
      BY <2>0, <2>3 DEF ClearToken, LogoutAuthorised
    <3>2. pc'[r] # pc[r]
      BY <2>0, <2>3 DEF ClearToken, Goto, TypeOK
    <3>3. row' = row \/ row' = [row EXCEPT ![call[r].user] = NoToken]
      BY <2>3 DEF ClearToken, WriteRow
    <3>4. QED
      BY <2>0, <3>1, <3>2, <3>3 DEF TypeOK
  <2>4. ASSUME NEW r \in Request, DeleteUser(r) PROVE Owned(u)
    <3>1. CASE row' = row
      BY <3>1
    <3>2. CASE /\ auth[r] = call[r].user
               /\ row' = [row EXCEPT ![call[r].user] = Gone]
      <4>1. call[r].op = "deleteUser" /\ pc'[r] # pc[r]
        BY <2>0, <2>4 DEF DeleteUser, Running, Goto, TypeOK
      <4>2. QED
        BY <2>0, <3>2, <4>1 DEF TypeOK
    <3>3. QED
      BY <2>4, <3>1, <3>2 DEF DeleteUser, WriteRow
  <2>5. ASSUME NEW r \in Request,
               \/ Arrive(r) \/ GetCachedUserId(r) \/ CheckUserToken(r)
               \/ CacheUserId(r) \/ LoginLookup(r) \/ LogoutLookup(r)
               \/ InvalidateCachedToken(r) \/ Abort(r)
        PROVE  row' = row
    BY <2>5
       DEF Arrive, GetCachedUserId, CheckUserToken, Checked, CacheUserId,
           LoginLookup, LogoutLookup, InvalidateCachedToken, Abort
  <2>6. CASE \/ ReplicaApply \/ Tick \/ RedisRestart
             \/ (\E t \in Token : Expire(t)) \/ UNCHANGED vars
    BY <2>1, <2>6 DEF ReplicaApply, Tick, RedisRestart, Expire, vars
  <2>7. QED
    BY <1>1, <2>1, <2>2, <2>3, <2>4, <2>5, <2>6 DEF Next, Progress
<1>2. IInv /\ [Next]_vars => [\A u \in User : Owned(u)]_vars
  BY <1>1
<1>3. QED
  BY <1>2, Invariance, PTL DEF Spec, OnlyOwnerEndsSession

-----------------------------------------------------------------------------
(* REDIS_URL unset: the column is the only truth.                            *)

\* What a retired token has lost, it has lost for good: it is in no row, and
\* the tokens a request knows as retired are still so.
RetiredIInv ==
    /\ \A r \in Request : pc[r] \notin {"get", "set"}
    /\ \A t \in retired : ~Current(t)
    /\ \A r \in Request : seen[r].retired \subseteq retired
    /\ RetiredTokenRejected

LEMMA RetiredStep ==
    ASSUME ~useRedis, IInv, RetiredIInv, [Next]_vars
    PROVE  RetiredIInv'
<1>. USE DEF dbVars, cacheVars, jwtVars, reqVars, history
<1>0. TypeOK /\ UnderVerification
  BY DEF IInv
<1>1. ASSUME row' = row, retired' = retired, seen' = seen, auth' = auth,
             cand' = cand, \A r \in Request : pc'[r] \notin {"get", "set"}
      PROVE  RetiredIInv'
  BY <1>1 DEF RetiredIInv, RetiredTokenRejected, Current
<1>2. ASSUME NEW r \in Request, NEW first, NEW second \in Token \cup {NoToken},
             Try(r, first, second)
      PROVE  /\ \A x \in Request : pc'[x] \notin {"get", "set"}
             /\ \A x \in Request : x # r => cand'[x] = cand[x]
  BY <1>0, <1>2 DEF Try, Verifying, Anonymous, RetiredIInv, TypeOK
<1>3. ASSUME NEW r \in Request, Arrive(r) PROVE RetiredIInv'
  <2>1. PICK bearer \in minted \cup {NoToken}, cookie \in minted \cup {NoToken} :
           /\ Try(r, bearer, cookie)
           /\ seen' = [seen EXCEPT ![r] =
                 [retired |-> retired \cap {bearer, cookie},
                  expired |-> expired \cap {bearer, cookie}]]
    BY <1>3 DEF Arrive
  <2>2. cookie \in Token \cup {NoToken}
    BY <1>0 DEF TypeOK
  <2>3. auth[r] = NoUser /\ auth' = auth /\ row' = row /\ retired' = retired
    BY <1>0, <1>3 DEF Arrive, UnderVerification
  <2>4. /\ \A x \in Request : x # r => seen'[x] = seen[x]
        /\ seen'[r].retired \subseteq retired
    BY <1>0, <2>1 DEF TypeOK
  <2>5. QED
    BY <1>2, <2>1, <2>2, <2>3, <2>4 DEF RetiredIInv, RetiredTokenRejected, Current
<1>4. ASSUME NEW r \in Request, CheckUserToken(r) PROVE RetiredIInv'
  <2>1. row' = row /\ retired' = retired /\ seen' = seen
    BY <1>4 DEF CheckUserToken, Checked
  <2>2. CASE Try(r, rest[r], NoToken) /\ UNCHANGED auth
    <3>1. NoToken \in Token \cup {NoToken}
      OBVIOUS
    <3>2. auth[r] = NoUser
      BY <1>0, <1>4 DEF CheckUserToken, Checked, UnderVerification
    <3>3. QED
      BY <1>2, <2>1, <2>2, <3>1, <3>2
         DEF RetiredIInv, RetiredTokenRejected, Current
  <2>3. CASE Verified(r, Owner[cand[r]]) /\ Current(cand[r])
    <3>1. cand[r] \notin retired
      BY <2>3 DEF RetiredIInv
    <3>2. /\ cand' = cand
          /\ \A x \in Request : x # r => auth'[x] = auth[x] /\ pc'[x] = pc[x]
          /\ pc'[r] = "run"
      BY <1>0, <2>3 DEF Verified, TypeOK
    <3>3. QED
      BY <2>1, <3>1, <3>2 DEF RetiredIInv, RetiredTokenRejected, Current
  <2>4. QED
    BY <1>4, <2>2, <2>3 DEF CheckUserToken, Checked
<1>5. ASSUME NEW r \in Request, NEW step \in {"write", "finish"}, NEW drop,
             Goto(r, step, drop)
      PROVE  /\ \A x \in Request : pc'[x] \notin {"get", "set"}
             /\ cand' = cand /\ auth' = auth
  BY <1>0, <1>5 DEF Goto, RetiredIInv, TypeOK
<1>6. ASSUME NEW r \in Request, LoginLookup(r) \/ LogoutLookup(r)
      PROVE  RetiredIInv'
  BY <1>1, <1>5, <1>6 DEF LoginLookup, LogoutLookup
<1>7. ASSUME NEW r \in Request, SetToken(r) PROVE RetiredIInv'
  <2>1. PICK t :
           /\ row' = row \/ row' = [row EXCEPT ![call[r].user] = t]
           /\ retired' = retired \ {t}
           /\ seen' = [x \in Request |->
                          [seen[x] EXCEPT !.retired = @ \ {t}]]
    BY <1>7 DEF SetToken, WriteRow
  <2>2. \A x \in Request : seen'[x].retired = seen[x].retired \ {t}
    BY <1>0, <2>1 DEF TypeOK
  <2>3. \A x \in retired' : ~Current(x)'
    <3>1. \A u \in User : row'[u] \in {row[u], t}
      BY <1>0, <2>1 DEF TypeOK
    <3>2. \A x \in retired : x \in Token /\ Owner[x] \in User
      BY <1>0, OwnerAssumption DEF TypeOK
    <3>3. QED
      BY <2>1, <3>1, <3>2 DEF RetiredIInv, Current
  <2>4. /\ \A x \in Request : pc'[x] \notin {"get", "set"}
        /\ cand' = cand /\ auth' = auth
    BY <1>5, <1>7 DEF SetToken
  <2>5. QED
    BY <2>1, <2>2, <2>3, <2>4 DEF RetiredIInv, RetiredTokenRejected
<1>8. ASSUME NEW r \in Request, ClearToken(r) \/ DeleteUser(r)
      PROVE  RetiredIInv'
  <2>1. \A u \in User : row'[u] \in {row[u], NoToken, Gone}
    BY <1>0, <1>8 DEF ClearToken, DeleteUser, WriteRow, TypeOK
  <2>2. retired' = retired /\ seen' = seen
    BY <1>8 DEF ClearToken, DeleteUser
  <2>3. \A x \in retired : ~Current(x)'
    <3>1. \A x \in retired : x \in Token /\ Owner[x] \in User
      BY <1>0, OwnerAssumption DEF TypeOK
    <3>2. QED
      BY <2>1, <3>1, NullAssumption DEF RetiredIInv, Current
  <2>4. /\ \A x \in Request : pc'[x] \notin {"get", "set"}
        /\ cand' = cand /\ auth' = auth
    BY <1>5, <1>8 DEF ClearToken, DeleteUser
  <2>5. QED
    BY <2>2, <2>3, <2>4 DEF RetiredIInv, RetiredTokenRejected
<1>9. ASSUME NEW r \in Request, InvalidateCachedToken(r) \/ Abort(r)
      PROVE  RetiredIInv'
  <2>1. row' = row
    BY <1>9 DEF InvalidateCachedToken, Abort
  <2>2. retired \subseteq retired' /\ \A t \in retired' : ~Current(t)
    BY <1>9 DEF InvalidateCachedToken, Abort, RetiredIInv
  <2>3. /\ \A x \in Request : x # r =>
              /\ pc'[x] = pc[x] /\ cand'[x] = cand[x]
              /\ auth'[x] = auth[x] /\ seen'[x] = seen[x]
        /\ pc'[r] = "idle" /\ auth'[r] = NoUser /\ seen'[r].retired = {}
    BY <1>0, <1>9 DEF InvalidateCachedToken, Abort, Free, Nothing, TypeOK
  <2>4. QED
    BY <2>1, <2>2, <2>3 DEF RetiredIInv, RetiredTokenRejected, Current
<1>10. ASSUME NEW r \in Request, GetCachedUserId(r) \/ CacheUserId(r)
       PROVE  FALSE
  BY <1>10 DEF GetCachedUserId, CacheUserId, RetiredIInv
<1>11. CASE \/ ReplicaApply \/ Tick \/ RedisRestart
            \/ (\E t \in Token : Expire(t)) \/ UNCHANGED vars
  BY <1>1, <1>11
     DEF ReplicaApply, Tick, RedisRestart, Expire, vars, RetiredIInv
<1>12. QED
  BY <1>3, <1>4, <1>6, <1>7, <1>8, <1>9, <1>10, <1>11 DEF Next, Progress

(* Without Redis, a session is over when the operation that ended it has     *)
(* returned, whatever the replica serves (context/index.ts:40, where the row *)
(* is read on the primary).                                                  *)
THEOREM RetiredRejected == Spec => []RetiredWithoutRedis
<1>. DEFINE NoRedisIInv == ~useRedis => RetiredIInv
<1>1. Init => NoRedisIInv
  BY DEF Init, RetiredIInv, RetiredTokenRejected, Nothing
<1>2. IInv /\ NoRedisIInv /\ [Next]_vars => NoRedisIInv'
  BY RetiredStep, ModeStep
<1>3. NoRedisIInv => RetiredWithoutRedis
  BY DEF RetiredIInv, RetiredWithoutRedis
<1>4. QED
  BY <1>1, <1>2, <1>3, Invariance, PTL DEF Spec
=============================================================================
