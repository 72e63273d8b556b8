------------------------------- MODULE Server -------------------------------
(***************************************************************************)
(* One process of the server: start(), the HTTP requests with the          *)
(* middleware they pass, their use of the two connection pools, and what   *)
(* SIGTERM or SIGINT set going.  server.stop() runs the drainServer hooks  *)
(* of Apollo Server side by side: one waits for the HTTP requests in       *)
(* flight, the other closes WebSockets, Kafka, tracing, Redis and the      *)
(* pools one after the other, whatever these requests are doing.           *)
(*                                                                         *)
(* A request is where it waits: for the pool, for MySQL, or to begin.      *)
(* What it computes is left to the other modules.                          *)
(***************************************************************************)
EXTENDS Naturals, FiniteSets

CONSTANTS
    Configs,        \* sets of optional services that may be configured
    Request,        \* HTTP requests that can be in flight at the same time
    MaxQueries,     \* bound: queries of a request
    PoolMax,        \* DATABASE_POOL_MAX
    RateLimit,      \* RATE_LIMIT_MAX; 0 for none
    Faults          \* which of "start" and "drain" may fail

VARIABLES
    features,   \* which of Kafka, tracing, Redis and a replica are configured
    boot,       \* what start() waits for
    listening,  \* the HTTP server accepts connections
    hook,       \* the step drainServer waits for; 0 before, 8 after
    httpDrain,  \* the hook of ApolloServerPluginDrainHttpServer
    open,       \* connections and pools that are open
    used,       \* the clients made on first use that have been used
    late,       \* history: what was opened after drainServer had passed its step
    exit,       \* the exit code, or "no"
    hits,       \* requests the rate limiter has counted in its window
    req         \* req[r]: where request r is, whether it came for /ready, whether
                \* httpDrain waits for its socket, and the queries it may send

process == <<boot, listening, hook, httpDrain, exit>>
clients == <<open, used, late>>
vars == <<features, process, clients, hits, req>>

\* The steps of drainServer, by number; knexRead is "read" only if it is not
\* knex.
Steps == <<"ws", "consumer", "producer", "tracing", "redis", "read", "primary">>
Done == 8
Client == {Steps[i] : i \in 1 .. 7}
StepOf(x) == CHOOSE i \in 1 .. 7 : Steps[i] = x
Optional == Client \ {"ws", "primary"}
\* The connections that createPubSub makes where there is Redis; drainServer has
\* no step for them, disconnectRedisClient quits another one.
PubSubClients == {"publisher", "subscriber"}
\* Clients that connect when they are used for the first time.
Lazy == {"redis", "producer"} \cup PubSubClients
Configured == features \cup {x \in PubSubClients : "redis" \in features}

ASSUME Numbers ==
    MaxQueries \in Nat \ {0} /\ PoolMax \in Nat \ {0} /\ RateLimit \in Nat
ASSUME Configurations == Configs \subseteq SUBSET Optional

\* Reading the body; in Apollo Server; waiting for a connection; a query is
\* running on the replica or the primary.
Places == {"idle", "body", "operation", "acquire", "read", "primary"}
NoRequest == [at |-> "idle", ready |-> FALSE, waited |-> FALSE, left |-> 0]
InFlight == {r \in Request : req[r].at # "idle"}
Using(pool) == {r \in Request : req[r].at = pool}

TypeOK ==
    /\ features \subseteq Optional
    /\ boot \in {"modules", "server.start", "startCommentConsumer", "done"}
    /\ listening \in BOOLEAN
    /\ hook \in 0 .. Done
    /\ httpDrain \in {"no", "waiting", "done"}
    /\ open \subseteq Configured \cup {"ws", "primary"}
    /\ used \subseteq Lazy /\ late \subseteq open
    /\ exit \in {"no", "0", "1"}
    /\ hits \in 0 .. RateLimit
    /\ req \in [Request -> [at : Places, ready : BOOLEAN, waited : BOOLEAN, left : 0 .. MaxQueries]]
    /\ \A pool \in {"read", "primary"} : Cardinality(Using(pool)) <= PoolMax

Init ==
    /\ features \in Configs
    /\ boot = "modules"
    /\ listening = FALSE
    /\ hook = 0
    /\ httpDrain = "no"
    /\ open = {}
    /\ used = {} /\ late = {}
    /\ exit = "no"
    /\ hits = 0
    /\ req = [r \in Request |-> NoRequest]

Opened(x) ==
    /\ open' = open \cup {x}
    /\ late' = IF x \in Client /\ hook > StepOf(x) THEN late \cup {x} ELSE late

-----------------------------------------------------------------------------
(* start() and shutdown(). *)

\* What loading the modules opens; Lazy connect on first use, the consumer in
\* start().
OpenAtLoad == {"ws", "primary"} \cup (features \cap {"tracing", "read"})

\* In production PubSub has to be Redis.
PubSubFails(production) == production /\ "redis" \notin features

\* JWT_SECRET, NODE_ENV and REDIS_URL are looked at while the modules load.
Load ==
    /\ boot = "modules"
    /\ \E secret, production \in BOOLEAN :
          IF ~secret \/ PubSubFails(production)
          THEN exit' = "1" /\ UNCHANGED <<boot, open>>
          ELSE boot' = "server.start" /\ open' = OpenAtLoad /\ UNCHANGED exit
    /\ UNCHANGED <<listening, hook, httpDrain, used, late, hits, req>>

\* A rejection of start() is not handled and ends the process.
StartFails ==
    /\ "start" \in Faults
    /\ boot \notin {"modules", "done"}
    /\ exit' = "1"
    /\ UNCHANGED <<boot, listening, hook, httpDrain, clients, hits, req>>

ServerStart ==
    /\ boot = "server.start"
    /\ boot' = "startCommentConsumer"
    /\ UNCHANGED <<listening, hook, httpDrain, exit, clients, hits, req>>

\* startCommentConsumer attaches the consumer, or logs that it cannot; then
\* the routes are set and the server listens, be it stopping or not.
Listen ==
    /\ boot = "startCommentConsumer"
    /\ boot' = "done"
    /\ listening' = TRUE
    /\ IF "consumer" \in features
       THEN Opened("consumer") \/ UNCHANGED <<open, late>>
       ELSE UNCHANGED <<open, late>>
    /\ UNCHANGED <<hook, httpDrain, exit, used, hits, req>>

\* Mutant: ApolloServerPluginDrainHttpServer is not among the plugins.
SignalNoHttpDrain ==
    /\ hook = 0 /\ boot \notin {"modules", "server.start"}
    /\ hook' = 1
    /\ httpDrain' = "done"
    /\ UNCHANGED <<boot, exit, listening, clients, hits, req>>

\* The first signal calls server.stop(), which throws until start() has got
\* past server.start(); the others are ignored.
Signal ==
    /\ hook = 0 /\ boot # "modules"
    /\ IF boot = "server.start"
       THEN exit' = "1" /\ UNCHANGED <<listening, hook, httpDrain>>
       ELSE /\ hook' = 1
            /\ listening' = FALSE
            /\ httpDrain' = "waiting"
            /\ UNCHANGED exit
    /\ UNCHANGED <<boot, clients, hits, req>>

\* No request that came before the signal is left, or the grace period is over
\* and their sockets are destroyed; the resolvers run on.
HttpDrained ==
    /\ httpDrain = "waiting"
    /\ \A r \in InFlight : ~req[r].waited
    /\ httpDrain' = "done"
    /\ UNCHANGED <<boot, listening, hook, exit, clients, hits, req>>

GracePeriodOver ==
    /\ httpDrain = "waiting"
    /\ httpDrain' = "done"
    /\ req' = [r \in Request |-> [req[r] EXCEPT !.waited = FALSE]]
    /\ UNCHANGED <<boot, listening, hook, exit, clients, hits>>

Close(x) ==
    /\ hook' = hook + 1
    /\ open' = open \ {x} /\ late' = late \ {x}
    /\ UNCHANGED <<boot, listening, httpDrain, exit, used, hits, req>>

\* Mutant: only the pool of the primary is destroyed.
DrainPrimaryOnly ==
    /\ hook \in 1 .. 7
    /\ Using(Steps[hook]) = {}
    /\ IF Steps[hook] = "read" THEN Close("none") ELSE Close(Steps[hook])

\* A step closes what is open, or returns at once.  The destroy of a pool
\* waits for the queries that run on it.
Drain ==
    /\ hook \in 1 .. 7
    /\ Using(Steps[hook]) = {}
    /\ Close(Steps[hook])

\* Mutant: the error is logged, and that is all.
DrainFailsSilently ==
    /\ "drain" \in Faults
    /\ hook \in 1 .. 7 /\ Steps[hook] \in open
    /\ hook' = Done + 1
    /\ UNCHANGED <<boot, listening, httpDrain, exit, clients, hits, req>>

\* A rejected step is the end of server.stop(): the other steps, and the other
\* hook, are not waited for.
DrainFails ==
    /\ "drain" \in Faults
    /\ hook \in 1 .. 7 /\ Steps[hook] \in open
    /\ exit' = "1"
    /\ UNCHANGED <<boot, listening, hook, httpDrain, clients, hits, req>>

Stopped ==
    /\ hook = Done
    /\ httpDrain = "done"
    /\ exit' = "0"
    /\ UNCHANGED <<boot, listening, hook, httpDrain, clients, hits, req>>

-----------------------------------------------------------------------------
(* HTTP requests. *)

Serving == UNCHANGED process
Move(r, place) == req' = [req EXCEPT ![r].at = place]
Answer(r) == req' = [req EXCEPT ![r] = NoRequest]

\* rateLimiter, before every route, /health and /ready included: what is over
\* the limit gets 429 and nothing else happens.
Limiter ==
    /\ RateLimit > 0 => hits < RateLimit
    /\ hits' = IF RateLimit > 0 THEN hits + 1 ELSE 0

WindowOver ==
    /\ hits > 0
    /\ hits' = 0
    /\ Serving
    /\ UNCHANGED <<clients, req>>

Accepted(r, place, ready) ==
    req' = [req EXCEPT ![r] = [at |-> place, ready |-> ready, left |-> MaxQueries,
                               waited |-> httpDrain = "no"]]

\* Mutant: the middleware without a limit does not call next().
ReceiveNoNext(r) ==
    /\ listening /\ req[r].at = "idle"
    /\ hits' = 0
    /\ Accepted(r, "rateLimiter", FALSE)
    /\ Serving
    /\ UNCHANGED clients

\* /health is answered without looking at anything, /metrics after its token
\* is compared; /ready asks the primary; the rest has a body.
Health == UNCHANGED req
Metrics == UNCHANGED req
Ready(r) == Accepted(r, "acquire", TRUE)
Post(r) == Accepted(r, "body", FALSE)

Receive(r) ==
    /\ listening /\ req[r].at = "idle"
    /\ Limiter
    /\ Health \/ Metrics \/ Ready(r) \/ Post(r)
    /\ Serving
    /\ UNCHANGED clients

\* The body is too long or no JSON, the request could be forged, or the
\* document does not parse, is invalid, too deep or too complex.
Body(r) ==
    /\ req[r].at = "body"
    /\ Answer(r) \/ Move(r, "operation")
    /\ Serving
    /\ UNCHANGED <<clients, hits>>

\* context(), resolvers and data sources: another query, or the response.
Operation(r) ==
    /\ req[r].at = "operation"
    /\ Answer(r) \/ (req[r].left > 0 /\ Move(r, "acquire"))
    /\ Serving
    /\ UNCHANGED <<clients, hits>>

\* getRedisClient and ensureConnected make one client each, and never another;
\* RedisPubSub has one to publish and one to subscribe.  Operations of HTTP
\* requests and of WebSockets, which outlive their sockets, and the consumer use
\* them, before the signal and after it.
FirstUse(x) ==
    /\ boot = "done"
    /\ x \in (Lazy \cap Configured) \ used
    /\ Opened(x)
    /\ used' = used \cup {x}
    /\ Serving
    /\ UNCHANGED <<hits, req>>

\* Mutant: knexRead is a pool of its own without a replica, too.
WantedAlways(r) == {"primary"} \cup IF req[r].ready THEN {} ELSE {"read"}

\* knexRead is knex when there is no replica; /ready asks the primary.
Wanted(r) ==
    {"primary"} \cup IF "read" \in features /\ ~req[r].ready THEN {"read"} ELSE {}

\* Mutant: a pool without a limit.
AcquireUnlimited(r) ==
    /\ req[r].at = "acquire"
    /\ \E pool \in Wanted(r) : hook < StepOf(pool) /\ Move(r, pool)
    /\ Serving
    /\ UNCHANGED <<clients, hits>>

Acquire(r) ==
    /\ req[r].at = "acquire"
    /\ \E pool \in Wanted(r) :
          /\ hook < StepOf(pool)
          /\ Cardinality(Using(pool)) < PoolMax
          /\ Move(r, pool)
    /\ Serving
    /\ UNCHANGED <<clients, hits>>

\* The operation goes on: with the rows, or without, as where context() takes
\* any error for a token that is not valid.
Continue(r) ==
    /\ ~req[r].ready
    /\ req' = [req EXCEPT ![r].at = "operation", ![r].left = @ - 1]

\* A pool whose destroy has begun gives no connection any more; the answer is
\* 503, or a masked error.
AcquireFails(r) ==
    /\ req[r].at = "acquire"
    /\ \E pool \in Wanted(r) : hook >= StepOf(pool)
    /\ Answer(r) \/ Continue(r)
    /\ Serving
    /\ UNCHANGED <<clients, hits>>

\* MySQL answers, or fails and the operation may.
Query(r) ==
    /\ req[r].at \in {"read", "primary"}
    /\ Answer(r) \/ Continue(r)
    /\ Serving
    /\ UNCHANGED <<clients, hits>>

Proceed(r) ==
    \/ Body(r) \/ Operation(r) \/ Acquire(r) \/ AcquireFails(r) \/ Query(r)

Shutdown == Signal \/ HttpDrained \/ GracePeriodOver \/ Drain \/ DrainFails \/ Stopped

Next ==
    /\ exit = "no"
    /\ \/ Load \/ ServerStart \/ Listen \/ StartFails
       \/ Shutdown
       \/ WindowOver
       \/ \E x \in Lazy : FirstUse(x)
       \/ \E r \in Request : Receive(r) \/ Proceed(r)
    /\ UNCHANGED features

Spec == Init /\ [][Next]_vars

Run(A) == exit = "no" /\ A /\ UNCHANGED features

\* The steps of the drain end, the grace period does, MySQL answers, and a pool
\* hands its connections out first come, first served.
FairSpec ==
    /\ Spec
    /\ WF_vars(Run(Drain)) /\ WF_vars(Run(Stopped))
    /\ WF_vars(Run(HttpDrained \/ GracePeriodOver))
    /\ \A r \in Request : SF_vars(Run(Proceed(r)))

-----------------------------------------------------------------------------
(* What the shutdown promises. *)

\* What exit code 0 says of "Kafka/Redis/knex cleanup" (index.ts:162-168): no
\* pool is leaked, whatever was in flight, and of what drainServer closes only
\* that is open which came after its step: a client that is used for the first
\* time, or the consumer of a start() that went on.  The publisher and the
\* subscriber of PubSub are open if they were ever used.
CleanExit ==
    exit = "0" =>
        /\ open \subseteq late \cup (PubSubClients \cap used)
        /\ late \cap {"read", "primary"} = {}

\* A request that arrived before the signal is not cut off by an exit with
\* code 0, unless the grace period ran out ("kill the process mid-request",
\* index.ts:167).
NoRequestCut == exit = "0" => \A r \in InFlight : ~req[r].waited

\* A pool is closed only when no query runs on it, although drainServer does
\* not wait for the requests (index.ts:76-83).
NoQueryOnClosedPool == \A pool \in {"read", "primary"} : Using(pool) # {} => pool \in open

\* Every signal ends the process, also when a step of the drain fails or a
\* request holds a connection (index.ts:170-182).
SignalsLeadToExit == hook > 0 ~> exit # "no"

\* Every request is answered, or the process ends: neither a busy pool nor one
\* that is being destroyed keeps a request waiting for ever.
RequestsSettle ==
    \A r \in Request : req[r].at # "idle" ~> req[r].at = "idle" \/ exit # "no"

=============================================================================
