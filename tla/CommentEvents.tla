--------------------------- MODULE CommentEvents ---------------------------
(***************************************************************************)
(* From createComment to the createdComment subscription: the insert of    *)
(* CommentSQLDataSource.create, the Kafka producer with its memoised       *)
(* connection (kafka/producer.ts), the consumer group that all instances   *)
(* share (kafka/consumer.ts), the dead-letter queue, the publication on    *)
(* PubSub, and the start, stop and death of instances (index.ts).          *)
(*                                                                         *)
(* A comment stands for a triple (user, post, text), each on a post of its *)
(* own.  The topic has one partition.  Messages below the initial offset   *)
(* are forgotten: the group has committed offsets before.  PubSub is the   *)
(* Redis one, which production requires: a publication reaches the         *)
(* subscriptions of all instances.                                         *)
(***************************************************************************)
EXTENDS Naturals, Sequences

CONSTANTS
    Comment,    \* comments that clients try to create
    Request,    \* createComment calls that can be in flight at the same time
    Instance,   \* server processes
    NoComment,
    NoInstance, \* nobody owns the partition
    Faults,     \* which of "broker", "redis", "crash", "rebalance", "stop"
                \* may happen
    MaxFaults   \* bound: how many of them happen

ASSUME NullAssumption == NoComment \notin Comment /\ NoInstance \notin Instance
ASSUME CallerAssumption == Request \cap Instance = {}
ASSUME FaultsAssumption ==
    /\ Faults \subseteq {"broker", "redis", "crash", "rebalance", "stop"}
    /\ MaxFaults \in Nat

VARIABLES
    kafka,      \* KAFKA_BROKERS is set
    withPost,   \* comments whose post exists
    table,      \* comments that are rows of the comments table
    log,        \* the topic comment.created
    dlq,        \* comments on comment.created.dlq
    lost,       \* comments whose event was logged as lost
    offset,     \* committed offset of the group
    assigned,   \* the instance that owns the partition
    member,     \* instances whose consumer runs
    next,       \* next[i]: position of the consumer of i in the log
    phase,      \* phase[i]: life of the process
    connected,  \* connected[i]: the memo of ensureConnected is not null
    dialing,    \* instances whose connect() is pending
    online,     \* instances whose producer is connected
    pc,         \* pc[x]: the step that call or message handler x is about to take
    at,         \* at[r]: the instance that serves request r
    job,        \* job[x]: the event x is about
    acked,      \* history: comments whose createComment succeeded
    announced,  \* events published on PubSub
    budget      \* faults left

configVars == <<kafka>>
dbVars == <<withPost, table>>
topicVars == <<log, dlq, lost>>
groupVars == <<offset, assigned, member, next>>
producerVars == <<connected, dialing, online>>
callVars == <<pc, at, job>>
outcome == <<acked, announced>>
vars == <<configVars, dbVars, topicVars, groupVars, phase, producerVars,
          callVars, outcome, budget>>

\* ensureConnected and send are called by requests and by message handlers.
Caller == Request \cup Instance
At(x) == IF x \in Instance THEN x ELSE at[x]

\* owner: the payload names the owner of the post; pos: its place in the log.
Event == [comment : Comment, owner : BOOLEAN]
Payload(j) == [comment |-> j.comment, owner |-> j.owner]
NoJob == [comment |-> NoComment, owner |-> FALSE, pos |-> 0]

Announced(c) == \E e \in announced : e.comment = c
Settled(c) == Announced(c) \/ c \in dlq \cup lost

TypeOK ==
    /\ kafka \in BOOLEAN
    /\ withPost \cup table \subseteq Comment
    /\ log \in Seq(Event)
    /\ dlq \cup lost \subseteq Comment
    /\ offset \in 0 .. Len(log)
    /\ assigned \in member \cup {NoInstance}
    /\ member \subseteq Instance
    /\ next \in [Instance -> 0 .. Len(log)]
    /\ phase \in [Instance -> {"up", "draining", "drained", "down"}]
    /\ connected \in [Instance -> BOOLEAN]
    /\ dialing \subseteq {i \in Instance : connected[i]}
    /\ online \subseteq Instance
    /\ \A i \in Instance : pc[i] = "send" => i \in online
    /\ pc \in [Caller -> {"idle", "getPost", "insert", "publish",
                          "connecting", "send", "handle"}]
    /\ at \in [Request -> Instance \cup {NoInstance}]
    /\ job \in [Caller -> [comment : Comment \cup {NoComment},
                           owner : BOOLEAN, pos : 0 .. Len(log)]]
    /\ acked \subseteq Comment
    /\ announced \subseteq Event
    /\ budget \in 0 .. MaxFaults

Init ==
    /\ kafka \in BOOLEAN
    /\ withPost = Comment
    /\ table = {}
    /\ log = <<>>
    /\ dlq = {} /\ lost = {}
    /\ offset = 0
    /\ assigned = NoInstance
    /\ member = IF kafka THEN Instance ELSE {}
    /\ next = [i \in Instance |-> 0]
    /\ phase = [i \in Instance |-> "up"]
    /\ connected = [i \in Instance |-> FALSE]
    /\ dialing = {} /\ online = {}
    /\ pc = [x \in Caller |-> "idle"]
    /\ at = [r \in Request |-> NoInstance]
    /\ job = [x \in Caller |-> NoJob]
    /\ acked = {} /\ announced = {}
    /\ budget = MaxFaults

Happens(fault) ==
    /\ fault \in Faults
    /\ budget > 0
    /\ budget' = budget - 1

Goto(x, step) ==
    /\ pc' = [pc EXCEPT ![x] = step]
    /\ UNCHANGED <<at, job>>

\* The calls in who end.
End(who) ==
    /\ pc' = [x \in Caller |-> IF x \in who THEN "idle" ELSE pc[x]]
    /\ job' = [x \in Caller |-> IF x \in who THEN NoJob ELSE job[x]]
    /\ at' = [r \in Request |-> IF r \in who THEN NoInstance ELSE at[r]]

\* pubSub.publish: the event reaches every open subscription, and withFilter
\* keeps it for the owner of the post if the payload names one.
Announce(x) == announced' = announced \cup {Payload(job[x])}
Ack(r) == acked' = acked \cup {job[r].comment}

-----------------------------------------------------------------------------
(* createComment. *)

Arrive(r) ==
    /\ pc[r] = "idle"
    /\ \E i \in Instance, c \in Comment :
          /\ phase[i] = "up"
          /\ pc' = [pc EXCEPT ![r] = "getPost"]
          /\ at' = [at EXCEPT ![r] = i]
          /\ job' = [job EXCEPT ![r] = [NoJob EXCEPT !.comment = c]]
    /\ UNCHANGED <<configVars, dbVars, topicVars, groupVars, phase,
                   producerVars, outcome, budget>>

\* getPost reads the primary; postOwner is null when the post is not found.
GetPost(r) ==
    /\ pc[r] = "getPost"
    /\ pc' = [pc EXCEPT ![r] = "insert"]
    /\ job' = [job EXCEPT ![r].owner = job[r].comment \in withPost]
    /\ UNCHANGED <<configVars, dbVars, topicVars, groupVars, phase,
                   producerVars, at, outcome, budget>>

InsertIf(r, accepted) ==
    /\ pc[r] = "insert"
    /\ \/ /\ accepted
          /\ table' = table \cup {job[r].comment}
          /\ Goto(r, "publish")
       \/ /\ ~accepted
          /\ End({r})
          /\ UNCHANGED table
    /\ UNCHANGED <<configVars, withPost, topicVars, groupVars, phase,
                   producerVars, outcome, budget>>

\* Mutant: no unique index on the hash.
InsertNoIndex(r) == InsertIf(r, job[r].comment \in withPost)

\* Mutant: no foreign key to posts.
InsertNoForeignKey(r) == InsertIf(r, job[r].comment \notin table)

\* The unique index and the foreign key to posts decide.
Insert(r) == InsertIf(r, job[r].comment \in withPost \ table)

\* Without Kafka the event is published on PubSub at once.
PublishDirectly(r) ==
    /\ pc[r] = "publish" /\ ~kafka
    /\ \/ Announce(r) /\ Ack(r) /\ UNCHANGED budget
       \/ Happens("redis") /\ Announce(r) /\ UNCHANGED acked
       \/ Happens("redis") /\ UNCHANGED outcome
    /\ End({r})
    /\ UNCHANGED <<configVars, dbVars, topicVars, groupVars, phase, producerVars>>

\* Mutant: the promise of connect() is not kept.
EnsureConnectedAnew(x) ==
    /\ pc[x] = "publish" /\ kafka
    /\ dialing' = dialing \cup {At(x)}
    /\ Goto(x, "connecting")
    /\ UNCHANGED <<configVars, dbVars, topicVars, groupVars, phase, connected,
                   online, outcome, budget>>

\* ensureConnected: whoever finds no memo connects; everybody awaits the memo.
EnsureConnected(x) ==
    /\ pc[x] = "publish" /\ kafka
    /\ connected' = [connected EXCEPT ![At(x)] = TRUE]
    /\ \/ /\ ~connected[At(x)]
          /\ dialing' = dialing \cup {At(x)}
          /\ Goto(x, "connecting")
       \/ /\ At(x) \in dialing
          /\ Goto(x, "connecting")
          /\ UNCHANGED dialing
       \/ /\ connected[At(x)] /\ At(x) \notin dialing
          /\ Goto(x, "send")
          /\ UNCHANGED dialing
    /\ UNCHANGED <<configVars, dbVars, topicVars, groupVars, phase, online,
                   outcome, budget>>

Awaiting(i) == {x \in Caller : pc[x] = "connecting" /\ At(x) = i}

Dialed(i) ==
    /\ i \in dialing
    /\ dialing' = dialing \ {i}
    /\ online' = online \cup {i}
    /\ pc' = [x \in Caller |-> IF x \in Awaiting(i) THEN "send" ELSE pc[x]]
    /\ UNCHANGED <<configVars, dbVars, topicVars, groupVars, phase, connected,
                   at, job, outcome, budget>>

\* A message handler that cannot reach the dead-letter queue logs the loss.
GiveUp(handlers) ==
    /\ lost' = lost \cup {job[i].comment : i \in handlers}
    /\ next' = [i \in Instance |-> IF i \in handlers THEN job[i].pos ELSE next[i]]
    /\ UNCHANGED <<offset, assigned, member>>

\* Mutant: the rejected promise stays in the memo.
DialFailsForGood(i) ==
    /\ i \in dialing
    /\ Happens("broker")
    /\ dialing' = dialing \ {i}
    /\ GiveUp(Awaiting(i) \cap Instance)
    /\ End(Awaiting(i))
    /\ UNCHANGED <<configVars, dbVars, log, dlq, phase, connected, online, outcome>>

\* connect() rejects: the memo is cleared and everybody who awaits it fails.
DialFails(i) ==
    /\ i \in dialing
    /\ Happens("broker")
    /\ dialing' = dialing \ {i}
    /\ connected' = [connected EXCEPT ![i] = FALSE]
    /\ GiveUp(Awaiting(i) \cap Instance)
    /\ End(Awaiting(i))
    /\ UNCHANGED <<configVars, dbVars, log, dlq, phase, online, outcome>>

\* producer.send: a message that was rejected may have been appended; a
\* producer that was disconnected rejects.
Send(r) ==
    /\ r \in Request /\ pc[r] = "send"
    /\ \/ /\ at[r] \in online
          /\ log' = Append(log, Payload(job[r]))
          /\ Ack(r) \/ (Happens("broker") /\ UNCHANGED acked)
          /\ acked' # acked => UNCHANGED budget
       \/ Happens("broker") /\ UNCHANGED <<log, acked>>
       \/ at[r] \notin online /\ UNCHANGED <<log, acked, budget>>
    /\ End({r})
    /\ UNCHANGED <<configVars, dbVars, dlq, lost, groupVars, phase,
                   producerVars, announced>>

-----------------------------------------------------------------------------
(* The consumer group. *)

\* An instance that joins, or is left with, the partition starts from the
\* committed offset.
Assign(i) ==
    /\ assigned = NoInstance
    /\ i \in member
    /\ assigned' = i
    /\ next' = [next EXCEPT ![i] = offset]
    /\ UNCHANGED <<configVars, dbVars, topicVars, offset, member, phase,
                   producerVars, callVars, outcome, budget>>

\* The group changes; a message handler that runs goes on.
Rebalance ==
    /\ assigned # NoInstance
    /\ Happens("rebalance")
    /\ assigned' = NoInstance
    /\ UNCHANGED <<configVars, dbVars, topicVars, offset, member, next, phase,
                   producerVars, callVars, outcome>>

TakeNext(i) ==
    /\ assigned = i /\ pc[i] = "idle"
    /\ next[i] < Len(log)
    /\ LET e == log[next[i] + 1]
       IN  job' = [job EXCEPT ![i] = [comment |-> e.comment, owner |-> e.owner,
                                      pos |-> next[i] + 1]]
    /\ pc' = [pc EXCEPT ![i] = "handle"]
    /\ UNCHANGED <<configVars, dbVars, topicVars, offset, assigned, member,
                   phase, producerVars, at, outcome, budget>>

\* Mutant: the message counts as consumed when it is handed to eachMessage.
TakeResolved(i) ==
    /\ TakeNext(i)
    /\ next' = [next EXCEPT ![i] = next[i] + 1]

Take(i) == TakeNext(i) /\ UNCHANGED next

\* eachMessage returns: the message is consumed, whatever became of it.
Resolve(i) ==
    /\ next' = [next EXCEPT ![i] = job[i].pos]
    /\ End({i})
    /\ UNCHANGED <<offset, assigned, member>>

\* Mutant: a message that could not be published is logged and dropped.
HandleDrops(i) ==
    /\ pc[i] = "handle"
    /\ \/ Announce(i) /\ UNCHANGED budget
       \/ Happens("redis") /\ UNCHANGED announced
    /\ Resolve(i)
    /\ UNCHANGED <<configVars, dbVars, topicVars, phase, producerVars, acked>>

\* The event is published on PubSub; if that fails, it goes to the
\* dead-letter queue.
Handle(i) ==
    /\ pc[i] = "handle"
    /\ \/ Announce(i) /\ Resolve(i) /\ UNCHANGED budget
       \/ /\ Happens("redis")
          /\ Announce(i) \/ UNCHANGED announced
          /\ Goto(i, "publish")
          /\ UNCHANGED groupVars
    /\ UNCHANGED <<configVars, dbVars, topicVars, phase, producerVars, acked>>

\* The producer outlives the consumer, so it is connected here.
SendToDeadLetterQueue(i) ==
    /\ i \in Instance /\ pc[i] = "send"
    /\ \/ /\ dlq' = dlq \cup {job[i].comment}
          /\ UNCHANGED <<lost, budget>>
       \/ /\ Happens("broker")
          /\ lost' = lost \cup {job[i].comment}
          /\ UNCHANGED dlq
    /\ Resolve(i)
    /\ UNCHANGED <<configVars, dbVars, log, phase, producerVars, outcome>>

\* Offsets are committed some time after the messages were consumed.
Commit(i) ==
    /\ assigned = i
    /\ next[i] # offset
    /\ offset' = next[i]
    /\ UNCHANGED <<configVars, dbVars, topicVars, assigned, member, next, phase,
                   producerVars, callVars, outcome, budget>>

-----------------------------------------------------------------------------
(* Posts, and the life of an instance. *)

\* deletePost, by the owner of the post; its comments are deleted with it.
DeletePost(c) ==
    /\ c \in withPost
    /\ withPost' = withPost \ {c}
    /\ table' = table \ {c}
    /\ UNCHANGED <<configVars, topicVars, groupVars, phase, producerVars,
                   callVars, outcome, budget>>

Leave(i) ==
    /\ member' = member \ {i}
    /\ assigned' = IF assigned = i THEN NoInstance ELSE assigned

Crash(i) ==
    /\ phase[i] # "down"
    /\ Happens("crash")
    /\ phase' = [phase EXCEPT ![i] = "down"]
    /\ Leave(i)
    /\ connected' = [connected EXCEPT ![i] = FALSE]
    /\ dialing' = dialing \ {i}
    /\ online' = online \ {i}
    /\ End({x \in Caller : At(x) = i})
    /\ UNCHANGED <<configVars, dbVars, topicVars, offset, next, outcome>>

\* SIGTERM: no new connections; calls in flight go on while drainServer runs.
Stop(i) ==
    /\ phase[i] = "up"
    /\ Happens("stop")
    /\ phase' = [phase EXCEPT ![i] = "draining"]
    /\ UNCHANGED <<configVars, dbVars, topicVars, groupVars, producerVars,
                   callVars, outcome>>

\* stopCommentConsumer: the message in hand is finished and committed.
StopConsumer(i) ==
    /\ phase[i] = "draining" /\ i \in member
    /\ pc[i] = "idle"
    /\ Leave(i)
    /\ offset' = IF assigned = i THEN next[i] ELSE offset
    /\ UNCHANGED <<configVars, dbVars, topicVars, next, phase, producerVars,
                   callVars, outcome, budget>>

\* disconnectProducer, which leaves the memo as it is.
DisconnectProducer(i) ==
    /\ phase[i] = "draining" /\ i \notin member
    /\ phase' = [phase EXCEPT ![i] = "drained"]
    /\ online' = online \ {i}
    /\ UNCHANGED <<configVars, dbVars, topicVars, groupVars, connected, dialing,
                   callVars, outcome, budget>>

\* server.stop is over: the process ends, with the calls that have outlived the
\* grace period of the HTTP drain.
Exit(i) ==
    /\ phase[i] = "drained"
    /\ phase' = [phase EXCEPT ![i] = "down"]
    /\ connected' = [connected EXCEPT ![i] = FALSE]
    /\ dialing' = dialing \ {i}
    /\ online' = online \ {i}
    /\ End({x \in Caller : At(x) = i})
    /\ UNCHANGED <<configVars, dbVars, topicVars, groupVars, outcome, budget>>

\* start: the server listens once the consumer runs, or has failed to.
Start(i) ==
    /\ phase[i] = "down"
    /\ phase' = [phase EXCEPT ![i] = "up"]
    /\ \/ member' = member \cup (IF kafka THEN {i} ELSE {}) /\ UNCHANGED budget
       \/ kafka /\ Happens("broker") /\ UNCHANGED member
    /\ UNCHANGED <<configVars, dbVars, topicVars, offset, assigned, next,
                   producerVars, callVars, outcome>>

-----------------------------------------------------------------------------

Serve(r) ==
    \/ GetPost(r) \/ Insert(r) \/ PublishDirectly(r)
    \/ EnsureConnected(r) \/ Send(r)

Run(i) ==
    \/ Dialed(i) \/ Assign(i) \/ Take(i) \/ Handle(i)
    \/ EnsureConnected(i) \/ SendToDeadLetterQueue(i) \/ Commit(i)
    \/ StopConsumer(i) \/ DisconnectProducer(i) \/ Exit(i) \/ Start(i)

Next ==
    \/ \E r \in Request : Arrive(r) \/ Serve(r)
    \/ \E i \in Instance : Run(i) \/ DialFails(i) \/ Crash(i) \/ Stop(i)
    \/ Rebalance
    \/ \E c \in Comment : DeletePost(c)

Spec == Init /\ [][Next]_vars

\* Node runs every callback that is ready, the broker answers, and whoever
\* died is restarted.
FairSpec ==
    /\ Spec
    /\ \A r \in Request : WF_vars(Serve(r))
    /\ \A i \in Instance : WF_vars(Run(i))

-----------------------------------------------------------------------------
(* Properties. *)

\* No event is published without the owner of the post, whom alone the
\* subscription notifies: a post that is gone when getPost runs makes the
\* INSERT fail on its foreign key (comment/resolvers.ts:21-28).
EventsNameOwner ==
    /\ \A e \in announced : e.owner
    /\ \A k \in 1 .. Len(log) : log[k].owner

\* Two identical requests never both succeed, however they overlap and
\* whatever fails (comment/datasources.ts:62-78).
DuplicateRejected ==
    [][\A r \in Request :
          pc[r] \in {"publish", "send"} /\ job[r].comment \in acked =>
             pc'[r] # "idle"]_vars

\* The group commits no offset past a message that is neither published nor
\* on the dead-letter queue nor logged as lost: whoever takes over the
\* partition misses nothing (kafka/consumer.ts:63-92).
HandledBeforeCommitted ==
    \A k \in 1 .. offset : Settled(log[k].comment)

\* The event of a createComment that succeeded is published in the end, or
\* kept on the dead-letter queue, or logged as lost, through crashes,
\* rebalances and redeployments, unless no consumer could start
\* (kafka/consumer.ts:63-103).
SuccessSettled ==
    \A c \in Comment :
        c \in acked ~> Settled(c)
                       \/ \A i \in Instance : phase[i] = "up" /\ i \notin member

\* A failed connect() does not break publishing for good: once faults have
\* ended, a comment inserted by a running instance is published
\* (kafka/producer.ts:24-36).
Recovers ==
    \A r \in Request, c \in Comment :
        /\ budget = 0
        /\ pc[r] = "publish" /\ job[r].comment = c
        /\ phase[at[r]] = "up"
        ~> c \in acked

\* A comment that was inserted is announced to subscribers, whether the
\* broker is reachable or not (readme.md:533-535).
InsertedAnnounced ==
    \A c \in Comment : c \in table ~> Announced(c) \/ c \notin table

-----------------------------------------------------------------------------
(* What callers and subscribers may rely on. *)

OnTopic(n) == {log[k].comment : k \in 1 .. n}
Speakers == {r \in Request : pc[r] \in {"publish", "connecting", "send"}}
Speaking == {job[r].comment : r \in Speakers}
\* A notification without the owner of the post reaches nobody.
Told == {e.comment : e \in {x \in announced : x.owner}}

Notices == INSTANCE CommentNotices WITH
    posts <- withPost, speaking <- Speaking, topic <- OnTopic(Len(log)),
    told <- Told, kept <- dlq, done <- OnTopic(offset)

\* Neither shared connections nor rebalances, crashes and restarts come
\* between a call that succeeds and the owner of the post: the call has
\* published the comment it inserted, and the group passes what was dealt with
\* (comment/resolvers.ts:19-34, kafka/consumer.ts:50-92).
NoticesSpec == Notices!Spec

=============================================================================
