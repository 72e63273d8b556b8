# TLA+ models of apollo-graphql-starter

The server is a GraphQL API (Apollo Server on Express, MySQL through Knex,
optional Redis, optional Kafka, optional read replica) that runs as any number of
identical Node processes. Much of it is plain CRUD. What is hard lives between two
`await`s: a token that is revoked while another request verifies it, a login
attempt that dies between two Redis commands, a comment that is committed and whose
event is then not published, an ownership check that is used a statement later, a
connection pool that is destroyed while requests wait for it. This directory models
those parts, checks them with TLC, and proves the most important properties with
TLAPS for all values of the constants.

Paths below are relative to `src/` of the application unless they say otherwise.

## 1. Inventory

| Component | State | Operations | Interacts with |
|---|---|---|---|
| Session verification: `graphql/context/index.ts`, `context/token-cache.ts` | Redis keys `jwt-cache:<hash>`, `TTL_SECONDS` = 300; `users.token` | `context()` per request and per WebSocket connection: Bearer token, then cookie; `jwt.verify`, cache `GET`, row check, cache `SET` | MySQL primary, Redis |
| Login, logout, deleteUser: `schema/login/datasources.ts`, `schema/user/*` | `users.token`, its copy on a read replica | bcrypt comparison, `jwt.sign`, `UPDATE`, cache `DEL` | replica, primary, Redis |
| Login rate limit: `schema/login/datasources.ts` | Redis counter with expiry, or a `Map` per process | `INCR`, `PEXPIRE`, `PTTL`, `DEL`; the same on the `Map` | Redis |
| Comment events: `schema/comment/*`, `kafka/*`, `graphql/pubsub.ts` | memoised `connect()`, topic, dead-letter topic, group offset; subscriptions | `createComment`, `publishCommentCreated`, `eachMessage`, `publishToDeadLetterQueue`, start, stop | MySQL, broker, Redis |
| Records: data sources and resolvers of user, post, comment | three tables with unique indexes and cascades | create, update, delete with login and ownership checks; `index_ref` set after the insert | MySQL primary |
| Validators, error masking: `validate-*.ts`, `graphql/format-error.ts`, `datasources/sql/db-errors.ts` | none | the order of the checks; which errors keep their code | records |
| Lists and DataLoaders: `sql-datasource.ts` of each schema, `datasources/sql/*`, field resolvers | replica; memo, queue and batches of each loader of a context | `_limit`, `_start`, `_sort`; batch loads; re-read of `createPost` | replica, primary |
| Server lifecycle: `index.ts`, `knex/*`, `redis.ts` | the process, its clients and pools | start, SIGTERM/SIGINT, `drainServer`, HTTP drain, exit | everything above |
| HTTP middleware: `observability/*` | window of the rate limiter | limiter, `/health`, `/ready`, `/metrics` | primary |
| Complexity and depth limits | none | refusal of a document before it runs | |
| Metric values, traces, log lines | counters nobody reads back | | |

What makes each of them correct:

* **Sessions.** A request acts as the user whose token it carries; an expired or
  revoked token is rejected, the latter within a bound if a cache is in use; only
  a user ends their own session.
* **Rate limit.** At most 5 attempts per user name in 15 minutes, no window that
  closes early but by a success, no lockout that outlives it.
* **Comment events.** An acknowledged comment reaches PubSub or is kept where it
  can be replayed; no duplicate is acknowledged; events name the owner of the post,
  without whom nobody is notified; publishing survives failures.
* **Records.** Names stay unique, nothing is orphaned, only owners write although
  they were checked an `await` earlier, one of several deletes reports success,
  partial creates stay recognisable, and an error is masked only if it comes from
  MySQL, a missing row, or a null or unfit value that the validators let through.
* **Lists and loaders.** Fields of one response agree with each other and with
  nobody else's request; batching really batches; a list whose author is missing
  can blame a deletion.
* **Lifecycle.** Every signal ends the process; exit code 0 means that no pool was
  leaked, nor any client that the drain closes and was there in time (PubSub's two
  Redis connections are closed by nobody), and no request cut off; no request waits
  for ever for a pool.

The hazards, each at its line and with the properties that cover it, are in
`PROJECT.json`; those without a property say why.

## 2. Modules

| Module | Models |
|---|---|
| `Sessions` | verification, cache, login, logout, deleteUser, replica of `users.token`, expiry |
| `LoginAttempts` | abstract limiter of one user name: a window, its admissions, the answers |
| `LoginLimit` | `checkRateLimit` and `clearRateLimit` on Redis and on the `Map`; implements `LoginAttempts` |
| `CommentNotices` | abstract notifications: who speaks for a comment, what is on the topic, what became of it |
| `CommentEvents` | implements `CommentNotices`: createComment, producer, consumer group, dead-letter topic, publication, and the life of processes as far as these go |
| `AtomicRecords` | abstract tables: every call acts in one step, or fails, and is answered with rows that are there |
| `Records` | implements `AtomicRecords`: the writing operations on users, posts and comments, statement by statement, with checks, constraints and errors |
| `Loaders` | lists, DataLoader batches and memos, subscriptions' contexts, replica lag, re-read of `createPost` |
| `Server` | one process from loading its modules to its exit: start, middleware, pools, drain |
| `MCSessions`, `MCLoginLimit`, `MCCommentEvents`, `MCRecords`, `MCLoaders`, `MCServer` | small instances and symmetry for TLC |
| `SessionsProofs`, `LoginLimitProofs`, `CommentEventsProofs`, `CommentEventsRefinement`, `RecordsProofs`, `RecordsRefinement`, `LoadersProofs`, `ServerProofs` | theorems and proofs |

The modules share one view of a request: it is a sequence of steps, a step runs up
to the next `await`, and any step of any other request may come in between.
Requests run on any instance; an instance is part of the state only where it owns
something (`CommentEvents`, `Server`). The modules meet at `await`s: what a request
does in one of them is a single "operation" or "query" in the others. `Records`
has the insert of `createComment`, `CommentEvents` what precedes and follows it;
`Sessions` has the token column, `Records` the rest of the row; `Server` has where
requests wait, and the others what they do.

### Sessions

`row[u]` is the token column, `copy` and `relay` the replica and what it has not
yet applied, `cached` and `ttl` the cache. A request goes through

    Arrive -> GetCachedUserId -> CheckUserToken -> CacheUserId -> (operation) -> InvalidateCachedToken

`Arrive` picks the two tokens it presents among all minted ones, a superset of
what honest clients send. `jwt.verify` is the predicate `Passes`, evaluated before
any await. A failing Redis read counts as a miss, a failing query as an invalid
token, and the request then falls back to its cookie, as in the code. `login` is
`LoginLookup` (through the user-name loader, on the replica), `SetToken`,
`InvalidateCachedToken` of the token found by the lookup; `logout` is
`LogoutLookup`, `ClearToken`, `InvalidateCachedToken`; `deleteUser` does not touch
the cache. `Abort` is a crash or a database error, at any step. `useRedis` is
chosen once: `REDIS_URL` is the same for all instances. A tick is at least a
second: two logins of a user between two ticks may mint the same token, as
`jwt.sign` does within a second.

`since`, `retired`, `ends` and `seen` are history: no guard reads them. Left out:
several operations of one GraphQL document sharing one context; password change
(it does not touch the token, so a session survives it).

### LoginLimit

With `store = "redis"` there is one action per Redis command. With fault `"redis"`
a command may be rejected with or without effect, after which the attempt is let
through (`FailsOpen`), and Redis may restart empty; with `"crash"` a process may
die before any command. With `store = "memory"` the two functions are one action
each, since they do not await, and the entry stays in the `Map` after its
`resetAt`. A tick is a minute. The counter is exact up to `MaxAttempts + 1`, beyond
which the code does not look at it. `PTTL` only words the error (a counter without
expiry is reported as "1 minute(s)").

`Limit == INSTANCE LoginAttempts WITH ...`, and `LimitSpec` says that the mapped
state obeys it. The abstract window may be as old as `Window + MaxAge` (the
`PEXPIRE` is sent after the `INCR`, up to a request later), and may linger if
processes die between the two.

### CommentEvents

A comment stands for a triple of user, post and text. `withPost` and `table` are
the two tables as far as they matter. A call goes `getPost -> insert -> publish ->
connecting -> send` on one instance; a message handler of the consumer goes
`handle`, and if PubSub rejects, the same `publish -> connecting -> send` with the
dead-letter topic at its end. `ensureConnected` is shared by both: `connected[i]`
says that the memo is set, `dialing` that its promise is pending, and everybody in
`connecting` awaits that promise. `DialFails` rejects them all and clears the memo.

The consumer group has one partition, `assigned` to a member. `offset` is the
committed offset, `next[i]` where the consumer of `i` stands; `Assign` starts from
the committed offset, and the previous owner may still be handling a message.
kafkajs and the broker are external: modelled is what the code relies on
(at-least-once, commits of resolved offsets, nothing about when). `Stop`,
`StopConsumer`, `DisconnectProducer`, `Exit` are SIGTERM and the part of
`drainServer` that concerns Kafka; calls in flight go on meanwhile. `Start` may
leave the consumer not running, which the code logs and never retries.

`Notices == INSTANCE CommentNotices WITH ...` leaves of all this what a caller and a
subscriber can tell: `Speaking` are the comments between their insert and the answer
to the call, `OnTopic` those on the topic or before the committed offset, `Told`
those announced with the owner of the post. `Publish` is the one way to be
acknowledged, `GiveUp` is every failure and every end of a process, and `Commit`
moves the offset either way, but only over comments that were told, kept or logged.

Left out: delivery from PubSub to a socket, in-memory PubSub with several
processes (production requires Redis), the very first deployment (a group without
a committed offset skips what is older, `fromBeginning: false`), database errors
of the insert other than its two constraints.

### Records

A call arrives with the user its context authenticated, who may be deleted at any
moment, or before (a cached token). `Refusal` is what it is refused with before its
first `await`: login, ownership of a user, the first validation that fails, or the
`TypeError` that `validateUserPassword` throws on null. An input that passes them may
still be `"unfit"` for its column (null, a text too long, an id that is no number);
the statement that has to store it then fails with `ValueRejected`. The
rest is one action per SQL statement, with the constraints of the migrations as
their effects: `InsertUser` and `UpdateUser` meet the unique index, `InsertPost`
and `InsertComment` the foreign keys and the index on author, post and hash (a
comment is its author and its post here), `DeleteUser` and `DeletePost` cascade.
`SetRef` is the `UPDATE` of `index_ref`, `LoadPost` the read with the ownership
check, `Reread` the `getUser` or `getPost` that the answer is made of. `Answers`
names the error a call ends with and `Sent` what `formatGraphQLError` makes of it:
`SafeErrorCodes` reach the client, all else, and `null` for a `User!`, becomes
`INTERNAL_SERVER_ERROR`. `DbFails` is a rejected statement, one whose answer was
lost, or the death of the process. An id is `AUTO_INCREMENT`'s: a failed insert
uses one up.

`Atomic == INSTANCE AtomicRecords WITH ...` is the same as callers see it: without
`index_ref`, and with the stage of a call only. A call is `"asked"` until its write
runs, `"acted"` while it reads back its row, then `"ok"`, `"no"` or `"failed"`. So
`LoadPost` and `SetRef` are stutters, and the write of `updatePost`, two statements
after its ownership check, is the step in which `AtomicRecords` does both. An error
may come after the write (its answer was lost) and says nothing of what was done.

### Loaders

`history[i]` is the primary after `i - 1` writes and the replica shows
`history[applied]`; without `DATABASE_REPLICA_HOST` the two coincide. A context
(`Open`) has its own loaders; an HTTP request's is used once, a subscription's for
all its events. An operation starts with the rows of its root field and selects
every field that has a resolver of its own, down to the posts of a commenter.
`queue` are the loads of the current tick, `Dispatch` sends a batch with the keys
that are neither in the memo nor in flight (DataLoader caches the promise), and
`Answer` or `QueryFails` settles the batch, runs the resolvers of the next level
and hands loads of keys that another batch has in flight to that batch. `Pages`
is `_limit`, capped by `MAX_PAGE_LIMIT` only when positive. `Write` is anybody's
write with its cascades; `CreatePost` and `GetPost` are the insert and the read
back on the primary.

### Server

`boot` is what `start()` awaits, `hook` the step of `drainServer` that is under
way (`Steps`, in the order of the code), `httpDrain` the other drain hook, which
runs side by side. `open` are the clients and pools that are open, `late` those
that were opened after the drain had passed their step. `PubSubClients` are the
publisher and the subscriber of `graphql/pubsub.ts`, which exist where there is Redis
and have no step; they, the Redis client and the producer connect when they are first
used (`FirstUse`), possibly by an operation that outlives its socket. A request is where it
waits: `body`, `operation`, `acquire` (for a connection), `read` or `primary` (a
query runs there). `Drain` of a pool waits for its running queries, as tarn's
`destroy` does, and a pool that is being destroyed gives no connection
(`AcquireFails`). A query without an answer need not end its request: `context()`
takes the error for an invalid token and goes on (`Continue`). `Signal` before `server.start()` is through makes `server.stop()`
throw; a rejected step (`DrainFails`) ends the process with code 1. `Limiter` comes
before every route.

## 3. Runs

| Run | Instance | Shows |
|---|---|---|
| `sessions_one_user` | 1 user, 2 tokens, 2 overlapping queries and logins, with and without Redis, replica lagging by 1, TTL 2, request age 1; Redis, database, crash and expiry faults | stale cache entries age out, a revoked token is accepted for at most TTL and one request and without Redis not at all, expired tokens are rejected |
| `sessions_two_users` | 2 users, 2 requests, login, logout, deleteUser, with and without Redis | nobody acts as, or logs out, somebody else |
| `sessions_race` | Redis, no fault | *violation*, see 5 |
| `sessions_replica` | Redis, lagging replica, one request at a time | *violation*, see 5 |
| `login` | 3 attempts, limit 2, window 3, age 1, Redis and memory, every set of faults, fair | both stores implement `LoginAttempts`; windows and expiries are bounded; lockouts end |
| `login_lockout` | Redis that fails now and then, fair | *violation*, see 5 |
| `comment_events` | 2 comments, 2 calls, 2 instances, any 2 faults of broker, Redis, crash and rebalance | events name the owner, duplicates are refused, no offset passes an unhandled message; it implements `CommentNotices` |
| `comment_delivery` | the same with 1 call, any 1 fault, stops included, fair | acknowledged comments are settled; publishing recovers |
| `comment_broker` | 1 instance, the broker fails once, fair | *violation*, see 5 |
| `records` | 2 overlapping calls of any operation by any user, an empty database, 2 names, ids for 2 users, 1 post, 1 comment, MySQL fails at any statement | names unique, no orphans, owners alone write, one delete reports success, `index_ref` follows the id, a masked error has a cause that the property lists; the statements implement `AtomicRecords` |
| `loaders` | 1 context after the other, 4 writes, `_limit` 0, 1 and 3 with a cap of 2, with and without a lagging replica | answers are the context's own and consistent, queries are bounded by the fields, a missing author was deleted |
| `server` | 2 requests on pools of 1 connection, rate limit 1, nothing, Kafka and tracing, or Redis and a replica configured, start and drain steps fail | every signal ends the process, what is open at exit code 0 came late or is PubSub's, pools close unused, every request is answered |

**Bounds.** Two overlapping requests are enough for a check-then-act race; three
login attempts for one that creates the counter, one that is admitted and one that
is refused, all at different commands. A limit of 2 has a first, a last admitted
and a refused attempt. TTL 2 and age 1 make "TTL", "age" and their sum different
numbers. Two instances let a partition move and move back; two faults let a message
fail to be published and then fail to reach the dead-letter topic. In `records`, two
users (two signups, or a signup that meets a rename, for the same name) and a post
are all that two calls can be about, and every statement of one call can run between
any two of the other; a seeded database and ids to spare are left to the proofs. In
`loaders`, four writes can add a row, delete it under a query and let the replica
fall behind and catch up; contexts share nothing but the database, so the ones
before count only through what they might leave behind, and that is what
`AnswersFresh` looks at. In `server`, two requests on a pool of one wait for each
other and for the drain, and `RateLimit` 1 has a request that is refused. The optional
services meet only in the order of the drain, which one after the other shows as well
as all at once; the proofs are for any set of them.

`MaxAge`, `MaxLag`, `MaxFaults`, `MaxUser`, `MaxPost`, `MaxComment`, `MaxWrites`,
`MaxQueries` and the number of tokens are bounds of the instance, named in the
modules; `CanMint` and `Room` keep a call from arriving when there is no token left
to mint or no id to insert. `MaxAge` is the only one with a counterpart: a request
does not stay in flight for ever, since Redis commands, queries and the HTTP server
time out. The proofs are for any value of these constants.

**Deadlock** is checked in all passing runs but `server`, where the process really
ends.

**Every property of a passing run has a mutant** in its module (definitions marked
*Mutant*): a plausible slip in the code under which the property fails, such as
data sources made once per process, an offset committed before its message is
handled, a foreign key left out, or an error of the drain that is only logged.

## 4. Fairness

* `LoginLimit!FairSpec`: weak fairness of the steps of each attempt and of time.
* `CommentEvents!FairSpec`: weak fairness of the steps of each call and of each
  instance. Node runs every callback that is ready, ioredis and kafkajs settle
  every command, and whoever died is started again by Docker or Kubernetes
  (`restart`, Deployment).
* `Server!FairSpec`: weak fairness of the steps of `drainServer`, of the end of the
  HTTP drain (the plugin destroys the sockets after its grace period) and of the
  exit. Strong fairness of each request: a waiting request may be overtaken while
  the pool is busy, but tarn's queue is first come, first served, so that a request
  that finds the pool free again and again is served.

Arrivals, faults, stops, signals, rebalances and deletions are never forced.

## 5. Where code and documentation disagree

1. **A revoked token can come back to the cache** (`sessions_race`,
   `context/index.ts:42`). A request reads the row, a login or logout then updates
   it and deletes the cache entry, the request then `SET`s it. The token is accepted
   for up to the TTL. readme.md:244 says revocation "isn't delayed by the cache".
   `RevocationLagBounded` is what does hold.
2. **Login may invalidate the wrong token** (`sessions_replica`,
   `login/datasources.ts:137`): it learns the previous token from the replica.
3. **A lockout may never end** (`login_lockout`, `login/datasources.ts:67`): if the
   `PEXPIRE` after the first `INCR` is lost, nobody sets the expiry again.
4. **No fallback when the broker is unreachable** (`comment_broker`,
   `kafka/producer.ts:46`). readme.md:533-535 says that createComment then
   publishes straight onto PubSub. It rejects, with the row already committed, and
   a retry is refused as a duplicate.

Met while modelling, and visible in one guard, so that no run is spent on them:

* readme.md:246 says that `_limit` is capped at 100 regardless of what is asked for;
  `_limit` 0, or none, sets no `LIMIT` at all (`Loaders!Pages`).
* readme.md:551 says that `/health` is always 200; the rate limiter comes before it
  (`index.ts:141`, `Server!Receive`) and answers 429.
* `drainServer` destroys the pools side by side with the HTTP drain: a request that
  is waited for may fail for want of a connection (`Server!AcquireFails`). It is
  answered, and that is all `NoRequestCut` says.
* index.ts:162-168 says that without a graceful stop the process would "leak the DB
  pool(s)" and counts "Kafka/Redis/knex cleanup" as done by `drainServer`. For pools
  this holds. The publisher and the subscriber that `graphql/pubsub.ts:14-25` makes
  besides the client of `redis.ts` are closed by no step of it (index.ts:76-83): they
  are still open when the process exits with code 0, which is why `CleanExit` excepts
  them.
* `updateUser(data: {password: null})` is not refused: `null` is not `undefined`
  (`user/sql-datasource.ts:209`), and `validateUserPassword` calls `null.match`
  (`user-repository.ts:20`). The caller gets the masked `INTERNAL_SERVER_ERROR` of a
  `TypeError` where the other bad passwords get `BAD_USER_INPUT`. A null name passes its
  validator as "null" and is masked as MySQL's `NOT NULL` error, like every value its
  column does not take (`Records!ValueRejected`). `InternalErrorsExplained` lists both.
* The loaders of a subscription are never refreshed, so an event may show rows as
  they were when the subscription began (`AnswersFresh` says no more than that).
* The fields below the answer of a mutation are read from the replica; only the row
  itself is read back from the primary (`ReadYourWrites`).

## 6. Proofs

All proofs are checked by `tlapm`; nothing is assumed but the named assumptions on
the constants in the modules (null values outside their sets, positive limits and
windows, a seeded database that satisfies its foreign keys). In each proof module
`IInv` is the inductive invariant, `Invariance` proves it with a lemma per action or
group of actions, and the other theorems follow from it.

**`SessionsProofs`.** `StaleEntryAges` (an entry of a token that left its row has
been there for no longer than it can still last, up to a request) is not inductive:
the entry may be written by a request whose check came before the revocation.
`OvertakenCheckAges` adds that for such a request the revocation is no older than
the request. That in turn needs `UnderVerification` (the candidate is minted, nobody
is authenticated yet), and so does `ActsAsTokenOwner`. `RevocationLag` and
`OwnerEndsSession` are action properties; the latter needs that between the check
and the `UPDATE` of a logout its user does not change. `RetiredRejected` is for
deployments without Redis: retired tokens are in no row, so a request that presented
one when it arrived has it rejected by the row check.

**`LoginLimitProofs`.** `IInv` relates key, clock and attempts: without a window
there is no expiry and no age (`NoKey`); an attempt about to send its `PEXPIRE`
arrived before the key it will meet was created, be it another one than its own
(`Newborn`), which is why `life + ttl` stays between `Window` (`ExpiryNotEarly`) and
`Window + MaxAge` (`ExpiryBounded`). Without faults a key that has no expiry has an
attempt before its `PEXPIRE` (`NoLinger`). `Refinement`: `Spec => LimitSpec` for both
stores; every step maps to a step of `LoginAttempts` or a stutter.

**`CommentEventsProofs`.** `HandledBeforeCommitted` is about the committed offset,
but the offset moves to where a consumer stands, and a consumer goes past a message
when its handler returns. So `GroupInv` says of every instance, also of one that the
partition has been taken from, that all before its position, and before the message
it is handling, is settled (`SettledTo`). `DuplicateRejected` needs that between the
insert and the answer a comment has one publisher (`OnePublisher`) and stays in the
table while its post does; `EventsNameOwner` that whoever publishes has read the
post. `ProducerInv` is about the memoised connection.

**`CommentEventsRefinement`.** `Spec => NoticesSpec`, a lemma per action. That a call
which ends takes its comment, and nobody else's, out of `Speaking` is `OnePublisher`;
that the comment of a handled message is on the topic is `HandlerInv`; that what the
offset passes has been told, and not just announced, is `SettledTo` with
`EventsNameOwner` (`SettledDealt`). Connections, positions and rebalances are stutters.

**`RecordsProofs`.** What a call has checked is used an `await` later
(`Checked`, `Created`, `Gone`). It is not undone because ids are never used again
(`Numbered`) and a post never changes hands: the row is as it was checked, or gone.
`OnlyOwnersWrite` and `DeleteSaidOnce` rest on that; `MaskedErrorsExplained` is
proved action by action: MySQL failed, a row was missing, a value was unfit for its
column, or a null password met `validateUserPassword`.

**`RecordsRefinement`.** `Spec => AtomicSpec`, a lemma per statement. The write is
where a call acts, so `Checked` has to give there what was checked before: that the
post is the caller's, or gone. A delete that finds nothing changes nothing because
nothing refers to a missing row (`NoOrphans`); `AUTO_INCREMENT` gives ids that were
never used (`Numbered`); `Taken` is what `Free` denies. What is left is that the
mapped row of a real one is never `NoRow` (`RowsSeen`) and that a call shows its stage
(`WrittenSeen`, `OverSeen`).

**`LoadersProofs`.** `AnswersFresh` is inductive, for the history only grows. That a
loader has one value per key (`SameRows`) needs that a key is in the memo or with one
batch in flight or neither (`MemoInv`). `AuthorsThere`: all that a list asks for by id
was a user when the row that names it was read, for that row had its foreign keys in
the same state of the replica (`AuthorsInv`, with `Consistent` for each state).
`FoundAgain` needs that an id is used once: a deleted post does not come back.
`FewQueries` counts: `Debt` is what an operation may still send, a batch of the loads
that wait and one on each level below them and below every batch under way; a dispatch
pays for its query, an answer for the loads it leads to, and `queries + Debt` never
exceeds the number of fields (`BudgetInv`).

**`ServerProofs`.** `CleanExit` says that what is open at the end came late or is
PubSub's; `OpenOrLate` says for each moment that what is open has its step of the drain
ahead, came after it, or has no step and was used. `PoolsOpenWhileUsed` needs that the drain does not pass a pool that is used
(`PoolsInv`). `WaitedInv` ties the exit code to the end of the HTTP drain.

**Only model-checked:** the liveness properties `LockoutEnds`, `SuccessSettled`,
`Recovers`, `SignalsLeadToExit` and `RequestsSettle`: liveness under fairness is out
of the prover's reach. Every other property of a passing run is a theorem.

## 7. Not modelled

* Type definitions, resolver tables: declarations.
* Seeds, migrations as such, connection settings: run once; their constraints are in
  `Records` and `Loaders`, the tables they fill are the constants of these modules.
* Regular expressions of the validators, bcrypt, signatures: a choice of the input.
* The order of a sorted list and `_start`: one `ORDER BY` and one `OFFSET`. The
  complexity count is `graphql-query-complexity`'s, the depth `graphql-depth-limit`'s;
  `Server!Body` has the refusal.
* Values of metrics, traces and log lines: nothing reads them back.
* The case-insensitive comparison of user names by MySQL: names are model values.
* Queries that operations of WebSockets send on the pools: `Server` has the clients
  these operations open, and HTTP requests as the users of the pools.
* A listener that comes up after the drain (`Server!Listen` after `Signal`): `open` has
  clients and pools, and `CleanExit` does not speak of it.
* A promise to deliver every event: an event that neither PubSub nor the dead-letter
  topic takes is logged and counts as settled, as in the code; with no consumer running
  nothing is promised.
* Delivery of subscription events over WebSockets: `graphql-ws`.
* Docker, Kubernetes, dashboards, load tests, the end-to-end test: no program logic.

## 8. Running

    tlc -config SessionsOneUser.cfg MCSessions.tla
    tlc -config Server.cfg MCServer.tla
    tlapm RecordsProofs.tla

`PROJECT.json` names the configuration and module of every run.
