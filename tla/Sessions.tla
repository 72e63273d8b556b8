------------------------------ MODULE Sessions ------------------------------
(***************************************************************************)
(* The stateful JWT sessions of the server: the token column of the users  *)
(* table, its copy on the read replica, the Redis cache of verified tokens *)
(* (context/token-cache.ts), the per-request verification of               *)
(* context/index.ts and the operations that start and end a session        *)
(* (login, logout, deleteUser).                                            *)
(*                                                                         *)
(* A request is a sequence of steps separated by the awaits of the code:   *)
(* any other request, on the same or on another instance of the server,    *)
(* may run between two of them.  All instances share MySQL and Redis, so   *)
(* an instance is not part of the state.                                   *)
(*                                                                         *)
(* Time is counted in ticks.  A tick is at least a second, so two tokens   *)
(* that jwt.sign makes for a user in different ticks differ; within a tick *)
(* they may be the same string (the payload is userId and the second).     *)
(***************************************************************************)
EXTENDS Naturals, Sequences, FiniteSets

CONSTANTS
    User,       \* ids of the users in the seeded table
    Token,      \* the signed tokens that can be minted
    Owner,      \* Owner[t]: the userId in the payload of token t
    Request,    \* requests that can be in flight at the same time
    NoUser,     \* loggedUserId = ''
    NoToken,    \* the empty token column, an absent header or cookie
    Gone,       \* the row was deleted
    Ops,        \* operations clients call
    Modes,      \* with REDIS_URL set, without, or both
    UseReplica, \* DATABASE_REPLICA_HOST is set
    Faults,     \* which of "redis", "db", "crash" and "expiry" may happen
    TTL,        \* TTL_SECONDS of the cache, in ticks
    MaxAge,     \* bound: ticks a request can stay in flight
    MaxLag      \* bound: row changes the replica may lag behind

ASSUME NullAssumption ==
    /\ NoUser \notin User
    /\ NoToken \notin Token
    /\ Gone \notin Token \cup {NoToken}
ASSUME OwnerAssumption == Owner \in [Token -> User]
ASSUME OpsAssumption == Ops \subseteq {"query", "login", "logout", "deleteUser"}
ASSUME ModeAssumption == Modes \subseteq BOOLEAN /\ UseReplica \in BOOLEAN
ASSUME TimeAssumption == TTL \in Nat \ {0} /\ MaxAge \in Nat

VARIABLES
    useRedis,   \* REDIS_URL is set: the same for all instances, for good
    row,        \* row[u]: users.token of u on the primary
    copy,       \* copy[u]: the same column on the replica
    relay,      \* row changes the replica has not applied yet
    cached,     \* cached[t]: the userId stored under the hash of t
    ttl,        \* ttl[t]: ticks the entry of t has left; 0 when there is none
    minted,     \* tokens jwt.sign has produced
    expired,    \* minted tokens past their 7 days
    latest,     \* latest[u]: the token minted for u since the last tick
    pc,         \* pc[r]: the step request r is about to take
    call,       \* call[r]: operation, and the user it names
    cand,       \* cand[r]: token being verified; once verified, loggedUserToken
    rest,       \* rest[r]: the cookie, while it has not been tried
    auth,       \* auth[r]: loggedUserId
    prev,       \* prev[r]: the token whose cache entry the operation will drop
    age,        \* age[r]: ticks since r arrived
    (* History variables: no action reads them. *)
    since,      \* since[t]: ticks since t last left its row
    retired,    \* tokens revoked by an operation that has returned
    ends,       \* ends[r]: the token that the write of r took out of the row
    seen        \* seen[r]: tokens retired, and tokens expired, when r arrived

dbVars == <<useRedis, row, copy, relay>>
cacheVars == <<cached, ttl>>
jwtVars == <<minted, expired, latest>>
reqVars == <<pc, call, cand, rest, auth, prev, age>>
history == <<since, retired, ends, seen>>
vars == <<dbVars, cacheVars, jwtVars, reqVars, history>>

Column == Token \cup {NoToken, Gone}
Steps == {"idle", "get", "check", "set", "run", "write", "finish"}
InFlight == {r \in Request : pc[r] # "idle"}
NoCall == [op |-> "query", user |-> NoUser]

\* A token that the users table holds for its owner.
Current(t) == row[Owner[t]] = t

\* Longest time, in ticks, that a revoked token could still be accepted.
Horizon == TTL + MaxAge

TypeOK ==
    /\ useRedis \in BOOLEAN
    /\ row \in [User -> Column]
    /\ copy \in [User -> Column]
    /\ relay \in Seq([user : User, value : Column])
    /\ cached \in [Token -> User \cup {NoUser}]
    /\ ttl \in [Token -> 0 .. TTL]
    /\ minted \subseteq Token
    /\ expired \subseteq Token
    /\ latest \in [User -> Token \cup {NoToken}]
    /\ pc \in [Request -> Steps]
    /\ call \in [Request -> [op : Ops, user : User] \cup {NoCall}]
    /\ cand \in [Request -> Token \cup {NoToken}]
    /\ rest \in [Request -> Token \cup {NoToken}]
    /\ auth \in [Request -> User \cup {NoUser}]
    /\ prev \in [Request -> Token \cup {NoToken}]
    /\ age \in [Request -> 0 .. MaxAge]
    /\ since \in [Token -> 0 .. Horizon]
    /\ retired \subseteq Token
    /\ ends \in [Request -> Token \cup {NoToken}]
    /\ seen \in [Request -> [retired : SUBSET Token, expired : SUBSET Token]]

Nothing == [retired |-> {}, expired |-> {}]

Init ==
    /\ useRedis \in Modes
    /\ row = [u \in User |-> NoToken]
    /\ copy = [u \in User |-> NoToken]
    /\ relay = <<>>
    /\ cached = [t \in Token |-> NoUser]
    /\ ttl = [t \in Token |-> 0]
    /\ minted = {}
    /\ expired = {}
    /\ latest = [u \in User |-> NoToken]
    /\ pc = [r \in Request |-> "idle"]
    /\ call = [r \in Request |-> NoCall]
    /\ cand = [r \in Request |-> NoToken]
    /\ rest = [r \in Request |-> NoToken]
    /\ auth = [r \in Request |-> NoUser]
    /\ prev = [r \in Request |-> NoToken]
    /\ age = [r \in Request |-> 0]
    /\ since = [t \in Token |-> 0]
    /\ retired = {}
    /\ ends = [r \in Request |-> NoToken]
    /\ seen = [r \in Request |-> Nothing]

-----------------------------------------------------------------------------
(* The users table and its replica. *)

\* UPDATE or DELETE of one row on the primary.  A change that leaves the row
\* as it was is not replicated; relay is bounded by MaxLag.
WriteRow(u, value) ==
    /\ row' = [row EXCEPT ![u] = value]
    /\ IF UseReplica /\ value # row[u]
       THEN /\ Len(relay) < MaxLag
            /\ relay' = Append(relay, [user |-> u, value |-> value])
       ELSE UNCHANGED relay
    /\ UNCHANGED <<copy, useRedis>>

\* The row as a read on readDb sees it.
ReadRow(u) == IF UseReplica THEN copy[u] ELSE row[u]

ReplicaApply ==
    /\ relay # <<>>
    /\ copy' = [copy EXCEPT ![Head(relay).user] = Head(relay).value]
    /\ relay' = Tail(relay)
    /\ UNCHANGED <<useRedis, row, cacheVars, jwtVars, reqVars, history>>

\* History of a write by r that puts value in the row of u.
Supersede(r, u, value) ==
    LET old == IF row[u] \in Token /\ row[u] # value THEN row[u] ELSE NoToken
    IN  /\ ends' = [ends EXCEPT ![r] = old]
        /\ since' = [t \in Token |-> IF t = old THEN 0 ELSE since[t]]

-----------------------------------------------------------------------------
(* context(): the Bearer token is verified, then the jwtToken cookie. *)

\* Mutant: jwt.verify with ignoreExpiration.
PassesExpired(t) == t \in minted

\* jwt.verify: signature and expiry, before any await.
Passes(t) == t \in minted \ expired

Verifying(r, t, after) ==
    /\ pc' = [pc EXCEPT ![r] = IF useRedis THEN "get" ELSE "check"]
    /\ cand' = [cand EXCEPT ![r] = t]
    /\ rest' = [rest EXCEPT ![r] = after]

Verified(r, u) ==
    /\ pc' = [pc EXCEPT ![r] = "run"]
    /\ auth' = [auth EXCEPT ![r] = u]
    /\ rest' = [rest EXCEPT ![r] = NoToken]
    /\ UNCHANGED cand

Anonymous(r) ==
    /\ pc' = [pc EXCEPT ![r] = "run"]
    /\ cand' = [cand EXCEPT ![r] = NoToken]
    /\ rest' = [rest EXCEPT ![r] = NoToken]

\* Verify first; if it is not a valid token, verify second.
Try(r, first, second) ==
    \/ Passes(first) /\ Verifying(r, first, second)
    \/ ~Passes(first) /\ Passes(second) /\ Verifying(r, second, NoToken)
    \/ ~Passes(first) /\ ~Passes(second) /\ Anonymous(r)

\* Tokens jwt.sign may return for u now: a new one, or once more the one of
\* this second.
Mintable(u) ==
    {t \in Token \ minted : Owner[t] = u} \cup ({latest[u]} \cap Token)

\* Bound: a login arrives only while an unminted token is left for it.
CanMint(u) ==
    Cardinality({t \in Token \ minted : Owner[t] = u})
        > Cardinality({r \in InFlight : call[r] = [op |-> "login", user |-> u]})

Arrive(r) ==
    /\ pc[r] = "idle"
    /\ \E op \in Ops, u \in User :
          /\ op = "login" => CanMint(u)
          /\ op = "query" => u = CHOOSE any \in User : TRUE
          /\ call' = [call EXCEPT ![r] = [op |-> op, user |-> u]]
    /\ \E bearer, cookie \in minted \cup {NoToken} :
          /\ Try(r, bearer, cookie)
          /\ seen' = [seen EXCEPT ![r] =
                [retired |-> retired \cap {bearer, cookie},
                 expired |-> expired \cap {bearer, cookie}]]
    /\ UNCHANGED <<dbVars, cacheVars, jwtVars, auth, prev, age,
                   since, retired, ends>>

\* Mutant: a cache hit renews the entry (GETEX).
GetCachedUserIdSliding(r) ==
    /\ pc[r] = "get"
    /\ \/ /\ ttl[cand[r]] > 0
          /\ Verified(r, cached[cand[r]])
          /\ ttl' = [ttl EXCEPT ![cand[r]] = TTL]
       \/ /\ ttl[cand[r]] = 0 \/ "redis" \in Faults
          /\ pc' = [pc EXCEPT ![r] = "check"]
          /\ UNCHANGED <<cand, rest, auth, ttl>>
    /\ UNCHANGED <<dbVars, cached, jwtVars, call, prev, age, history>>

\* Mutant: a cache key that does not depend on the token.
GetCachedUserIdAnyKey(r) ==
    /\ pc[r] = "get"
    /\ \/ \E t \in Token : ttl[t] > 0 /\ Verified(r, cached[t])
       \/ /\ \A t \in Token : ttl[t] = 0
          /\ pc' = [pc EXCEPT ![r] = "check"]
          /\ UNCHANGED <<cand, rest, auth>>
    /\ UNCHANGED <<dbVars, cacheVars, jwtVars, call, prev, age, history>>

\* Reading the cache fails like a miss.
GetCachedUserId(r) ==
    /\ pc[r] = "get"
    /\ \/ /\ ttl[cand[r]] > 0
          /\ Verified(r, cached[cand[r]])
       \/ /\ ttl[cand[r]] = 0 \/ "redis" \in Faults
          /\ pc' = [pc EXCEPT ![r] = "check"]
          /\ UNCHANGED <<cand, rest, auth>>
    /\ UNCHANGED <<dbVars, cacheVars, jwtVars, call, prev, age, history>>

\* The rest of CheckUserToken, once the row answered.
Checked(r, valid) ==
    /\ pc[r] = "check"
    /\ \/ /\ valid
          /\ IF useRedis
             THEN /\ pc' = [pc EXCEPT ![r] = "set"]
                  /\ UNCHANGED <<cand, rest, auth>>
             ELSE Verified(r, Owner[cand[r]])
       \/ /\ ~valid \/ "db" \in Faults
          /\ Try(r, rest[r], NoToken)
          /\ UNCHANGED auth
    /\ UNCHANGED <<dbVars, cacheVars, jwtVars, call, prev, age, history>>

\* Mutant: the row is enough, its token is not compared.
CheckUserExists(r) == Checked(r, row[Owner[cand[r]]] # Gone)

\* Mutant: the row is read on readDb.
CheckUserTokenOnReplica(r) == Checked(r, ReadRow(Owner[cand[r]]) = cand[r])

\* getUser on the primary, and foundUser.token !== token.  An exception of
\* the query counts as an invalid token.
CheckUserToken(r) == Checked(r, Current(cand[r]))

\* Mutant: the TTL given in another unit.
CacheUserIdInMs(r) ==
    /\ pc[r] = "set"
    /\ Verified(r, Owner[cand[r]])
    /\ cached' = [cached EXCEPT ![cand[r]] = Owner[cand[r]]]
    /\ ttl' = [ttl EXCEPT ![cand[r]] = 1000 * TTL]
    /\ UNCHANGED <<dbVars, jwtVars, call, prev, age, history>>

\* A failed SET is logged and ignored.
CacheUserId(r) ==
    /\ pc[r] = "set"
    /\ Verified(r, Owner[cand[r]])
    /\ \/ /\ cached' = [cached EXCEPT ![cand[r]] = Owner[cand[r]]]
          /\ ttl' = [ttl EXCEPT ![cand[r]] = TTL]
       \/ "redis" \in Faults /\ UNCHANGED cacheVars
    /\ UNCHANGED <<dbVars, jwtVars, call, prev, age, history>>

-----------------------------------------------------------------------------
(* The operations, called with the context that was built. *)

Goto(r, step, drop) ==
    /\ pc' = [pc EXCEPT ![r] = step]
    /\ prev' = [prev EXCEPT ![r] = drop]
    /\ UNCHANGED <<call, cand, rest, auth, age>>

Running(r, op) == pc[r] = "run" /\ call[r].op = op

\* login: the row is read through the user-name loader, on readDb; then the
\* password is compared, with either outcome.
LoginLookup(r) ==
    /\ Running(r, "login")
    /\ LET found == ReadRow(call[r].user)
       IN  \/ found # Gone /\ Goto(r, "write", found)
           \/ Goto(r, "finish", NoToken)
    /\ UNCHANGED <<dbVars, cacheVars, jwtVars, history>>

\* login: createJwtToken and setToken.  The UPDATE of a deleted row matches
\* nothing, and login goes on.
SetToken(r) ==
    /\ pc[r] = "write" /\ call[r].op = "login"
    /\ \E t \in Mintable(call[r].user) :
          /\ minted' = minted \cup {t}
          /\ latest' = [latest EXCEPT ![call[r].user] = t]
          /\ IF row[call[r].user] # Gone
             THEN /\ WriteRow(call[r].user, t)
                  /\ Supersede(r, call[r].user, t)
             ELSE UNCHANGED <<dbVars, ends, since>>
          /\ retired' = retired \ {t}
          /\ seen' = [x \in Request |-> [seen[x] EXCEPT !.retired = @ \ {t}]]
    /\ Goto(r, "finish", prev[r])
    /\ UNCHANGED <<cacheVars, expired>>

\* Mutant: logout of the named user, whoever asks.
LogoutLookupAnyone(r) ==
    /\ Running(r, "logout")
    /\ IF auth[r] # NoUser /\ ReadRow(call[r].user) # Gone
       THEN Goto(r, "write", cand[r])
       ELSE Goto(r, "finish", NoToken)
    /\ UNCHANGED <<dbVars, cacheVars, jwtVars, history>>

\* logout: the checks that throw, and the lookup of the named user.
LogoutLookup(r) ==
    /\ Running(r, "logout")
    /\ IF /\ auth[r] # NoUser
          /\ ReadRow(call[r].user) # Gone
          /\ call[r].user = auth[r]
       THEN Goto(r, "write", cand[r])
       ELSE Goto(r, "finish", NoToken)
    /\ UNCHANGED <<dbVars, cacheVars, jwtVars, history>>

ClearToken(r) ==
    /\ pc[r] = "write" /\ call[r].op = "logout"
    /\ IF row[call[r].user] # Gone
       THEN /\ WriteRow(call[r].user, NoToken)
            /\ Supersede(r, call[r].user, NoToken)
       ELSE UNCHANGED <<dbVars, ends, since>>
    /\ Goto(r, "finish", prev[r])
    /\ UNCHANGED <<cacheVars, jwtVars, retired, seen>>

\* checkOwner, then the DELETE; the cache is left alone.
DeleteUser(r) ==
    /\ Running(r, "deleteUser")
    /\ IF auth[r] = call[r].user
       THEN /\ WriteRow(call[r].user, Gone)
            /\ Supersede(r, call[r].user, Gone)
       ELSE UNCHANGED <<dbVars, ends, since>>
    /\ Goto(r, "finish", NoToken)
    /\ UNCHANGED <<cacheVars, jwtVars, retired, seen>>

\* The slot of r is free again.
Free(r) ==
    /\ pc' = [pc EXCEPT ![r] = "idle"]
    /\ call' = [call EXCEPT ![r] = NoCall]
    /\ cand' = [cand EXCEPT ![r] = NoToken]
    /\ rest' = [rest EXCEPT ![r] = NoToken]
    /\ auth' = [auth EXCEPT ![r] = NoUser]
    /\ prev' = [prev EXCEPT ![r] = NoToken]
    /\ age' = [age EXCEPT ![r] = 0]
    /\ ends' = [ends EXCEPT ![r] = NoToken]
    /\ seen' = [seen EXCEPT ![r] = Nothing]
    /\ UNCHANGED since

\* The cache entry of the previous token is dropped, a failure being logged
\* and ignored, and the response is sent.
InvalidateCachedToken(r) ==
    /\ pc[r] = "finish" \/ Running(r, "query")
    /\ \/ /\ ttl' = [t \in Token |-> IF useRedis /\ t = prev[r] THEN 0 ELSE ttl[t]]
          /\ cached' = [t \in Token |->
                           IF useRedis /\ t = prev[r] THEN NoUser ELSE cached[t]]
       \/ "redis" \in Faults /\ prev[r] # NoToken /\ UNCHANGED cacheVars
    /\ retired' = retired \cup {t \in {ends[r]} \cap Token : ~Current(t)}
    /\ Free(r)
    /\ UNCHANGED <<dbVars, jwtVars>>

\* The process serving r dies, or an operation ends with a database error.
Abort(r) ==
    /\ "crash" \in Faults
    /\ pc[r] # "idle"
    /\ Free(r)
    /\ UNCHANGED <<dbVars, cacheVars, jwtVars, retired>>

-----------------------------------------------------------------------------
(* Time, and what happens to tokens without the server. *)

Tick ==
    /\ \A r \in InFlight : age[r] < MaxAge
    /\ age' = [r \in Request |-> IF r \in InFlight THEN age[r] + 1 ELSE 0]
    /\ ttl' = [t \in Token |-> IF ttl[t] > 0 THEN ttl[t] - 1 ELSE 0]
    /\ cached' = [t \in Token |-> IF ttl[t] > 1 THEN cached[t] ELSE NoUser]
    /\ latest' = [u \in User |-> NoToken]
    /\ since' = [t \in Token |->
                    IF t \notin minted \/ Current(t) THEN 0
                    ELSE IF since[t] < Horizon THEN since[t] + 1 ELSE Horizon]
    /\ UNCHANGED <<dbVars, minted, expired, pc, call, cand, rest, auth, prev,
                   retired, ends, seen>>

\* expiresIn '7d', longer than any other time of the model.
Expire(t) ==
    /\ "expiry" \in Faults
    /\ t \in minted \ expired
    /\ t # latest[Owner[t]]
    /\ expired' = expired \cup {t}
    /\ UNCHANGED <<dbVars, cacheVars, minted, latest, reqVars, history>>

\* Redis restarts without its data.
RedisRestart ==
    /\ "redis" \in Faults
    /\ \E t \in Token : ttl[t] > 0
    /\ ttl' = [t \in Token |-> 0]
    /\ cached' = [t \in Token |-> NoUser]
    /\ UNCHANGED <<dbVars, jwtVars, reqVars, history>>

Progress(r) ==
    \/ GetCachedUserId(r) \/ CheckUserToken(r) \/ CacheUserId(r)
    \/ LoginLookup(r) \/ SetToken(r)
    \/ LogoutLookup(r) \/ ClearToken(r) \/ DeleteUser(r)
    \/ InvalidateCachedToken(r)

Next ==
    \/ \E r \in Request : Arrive(r) \/ Progress(r) \/ Abort(r)
    \/ ReplicaApply
    \/ Tick
    \/ \E t \in Token : Expire(t)
    \/ RedisRestart

Spec == Init /\ [][Next]_vars

-----------------------------------------------------------------------------
(* Properties. *)

\* A request acts as the user whose token it presented, and the cache maps
\* no token to anybody but its owner: the userId of a cached entry and the
\* userId of the JWT agree (context/index.ts:30-43), whichever of the two
\* tokens of the request was accepted (lines 86-92).
ActsAsTokenOwner ==
    /\ \A r \in Request : auth[r] # NoUser =>
          cand[r] \in minted /\ auth[r] = Owner[cand[r]]
    /\ \A t \in Token : ttl[t] > 0 => cached[t] = Owner[t]

\* An entry for a token that is no longer in its row was written on the word
\* of a database check that the revocation overtook, so it has used up at
\* least the time since the revocation, but for the age a request may reach:
\* entries are never renewed by a hit (token-cache.ts:42-50).
StaleEntryAges ==
    \A t \in Token : ttl[t] > 0 /\ ~Current(t) => since[t] + ttl[t] <= Horizon

Authenticates(r) == auth[r] = NoUser /\ auth'[r] # NoUser

\* The TTL is the backstop token-cache.ts:14-16 says it is: whatever
\* invalidation is lost, delayed, sent for another token or never sent, a
\* token is not accepted later than TTL plus the age of one request after it
\* left its row.
RevocationLagBounded ==
    [][\A r \in Request : Authenticates(r) =>
          Current(cand[r]) \/ since[cand[r]] < Horizon]_vars

\* Once the operation that revoked a token has returned, no request that
\* arrives later is authenticated by it (the "stateful sessions" of readme.md).
RetiredTokenRejected ==
    \A r \in Request : auth[r] # NoUser => cand[r] \notin seen[r].retired

\* Without Redis that holds, whatever the replica serves and whatever fails:
\* every request reads the row on the primary (context/index.ts:40).
RetiredWithoutRedis == ~useRedis => RetiredTokenRejected

\* A token that had expired when the request arrived does not authenticate
\* it, even while the cache still has its entry (context/index.ts:27-29).
ExpiredTokenRejected ==
    \A r \in Request : auth[r] # NoUser => cand[r] \notin seen[r].expired

\* A session is ended only by its user: a row loses its token, or is deleted,
\* only in a logout or deleteUser authenticated as that very user
\* (login/datasources.ts:177-187, login-functions.ts:11-20).
OnlyOwnerEndsSession ==
    [][\A u \in User :
          row'[u] # row[u] /\ row'[u] \in {NoToken, Gone} =>
             \E r \in Request :
                /\ pc'[r] # pc[r]
                /\ call[r].op \in {"logout", "deleteUser"}
                /\ auth[r] = u]_vars

-----------------------------------------------------------------------------
(* The inductive invariant of SessionsProofs. *)

\* The token under verification was signed by jwt.sign, and nobody is
\* authenticated before the verification has ended.
UnderVerification ==
    \A r \in Request :
        /\ pc[r] \in {"get", "check", "set"} => cand[r] \in minted
        /\ pc[r] \in {"idle", "get", "check", "set"} => auth[r] = NoUser

\* A token revoked between the database check and the SET of a request was
\* revoked while that request was in flight.
OvertakenCheckAges ==
    \A r \in Request : pc[r] = "set" /\ ~Current(cand[r]) =>
        since[cand[r]] <= age[r]

\* Between its checks and its UPDATE, a logout is that of its own user.
LogoutAuthorised ==
    \A r \in Request : pc[r] = "write" /\ call[r].op = "logout" =>
        auth[r] = call[r].user

\* Every request in flight presents a token that had not expired on arrival.
UnexpiredOnArrival ==
    \A r \in Request :
        /\ seen[r].expired \subseteq expired
        /\ cand[r] \notin seen[r].expired

\* What the two theorems of the cache need of each other, in one invariant:
\* together its parts are preserved by every step, which no part is alone.
IInv ==
    /\ TypeOK
    /\ ActsAsTokenOwner
    /\ UnderVerification
    /\ StaleEntryAges
    /\ OvertakenCheckAges
    /\ LogoutAuthorised
    /\ UnexpiredOnArrival

=============================================================================
