---------------------------- MODULE ServerProofs ----------------------------
(***************************************************************************)
(* Proofs about Server, for any configuration, number of requests, queries *)
(* and connections, and whatever fails.                                    *)
(***************************************************************************)
EXTENDS Server, FiniteSetTheorems, TLAPS

Pool == {"read", "primary"}
RequestRecord == [at : Places, ready : BOOLEAN, waited : BOOLEAN, left : 0 .. MaxQueries]

ProcessType ==
    /\ features \subseteq Optional
    /\ boot \in {"modules", "server.start", "startCommentConsumer", "done"}
    /\ listening \in BOOLEAN
    /\ hook \in 0 .. Done
    /\ httpDrain \in {"no", "waiting", "done"}
    /\ exit \in {"no", "0", "1"}
    /\ hits \in 0 .. RateLimit
ClientType ==
    /\ open \subseteq Configured \cup {"ws", "primary"}
    /\ used \subseteq Lazy /\ late \subseteq open
RequestType == req \in [Request -> RequestRecord]

\* Nothing happens before the modules are loaded, and no request comes before
\* the end of start().
Booted ==
    /\ boot = "modules" => hook = 0 /\ open = {}
    /\ listening => boot = "done"
    /\ InFlight # {} => boot = "done"

\* What is open and has a step of the drain has it ahead, or came after it;
\* the rest has been used.
OpenOrLate ==
    /\ \A x \in open \cap Client : x \in late \/ hook <= StepOf(x)
    /\ open \cap PubSubClients \subseteq used
    /\ late \cap Pool = {}

\* A pool is open until its step of the drain is over, and this step is not
\* over while the pool is used; it is used by no more than PoolMax requests.
PoolsInv ==
    /\ boot # "modules" => \A pool \in {"primary"} \cup (features \cap {"read"}) :
          hook <= StepOf(pool) => pool \in open
    /\ Using("read") # {} => "read" \in features
    /\ \A pool \in Pool :
          /\ Using(pool) # {} => hook <= StepOf(pool)
          /\ IsFiniteSet(Using(pool)) /\ Cardinality(Using(pool)) <= PoolMax

\* The HTTP drain does not end, nor the process after it, before the requests
\* it waits for.
WaitedInv ==
    /\ \A r \in Request : req[r].waited => httpDrain # "done" /\ req[r].at # "idle"
    /\ exit = "0" => hook = Done /\ httpDrain = "done"

\* A request that asks for a connection may still send a query.
QueriesLeft == \A r \in Request : req[r].at \in {"acquire"} \cup Pool => req[r].left > 0

IInv ==
    /\ ProcessType /\ ClientType /\ RequestType /\ QueriesLeft
    /\ Booted /\ OpenOrLate /\ PoolsInv /\ WaitedInv

-----------------------------------------------------------------------------
(* The steps of drainServer. *)

LEMMA StepNumber == \A i \in 1 .. 7 : StepOf(Steps[i]) = i
<1>. SUFFICES ASSUME NEW i \in 1 .. 7 PROVE StepOf(Steps[i]) = i
  OBVIOUS
<1>1. \A j \in 1 .. 7 : Steps[j] = Steps[i] => j = i
  BY DEF Steps
<1>2. StepOf(Steps[i]) \in 1 .. 7 /\ Steps[StepOf(Steps[i])] = Steps[i]
  BY DEF StepOf
<1>. QED
  BY <1>1, <1>2

LEMMA StepNumbers ==
    /\ StepOf("ws") = 1 /\ StepOf("consumer") = 2 /\ StepOf("producer") = 3
    /\ StepOf("tracing") = 4 /\ StepOf("redis") = 5
    /\ StepOf("read") = 6 /\ StepOf("primary") = 7
<1>1. /\ Steps[1] = "ws" /\ Steps[2] = "consumer" /\ Steps[3] = "producer"
      /\ Steps[4] = "tracing" /\ Steps[5] = "redis"
      /\ Steps[6] = "read" /\ Steps[7] = "primary"
  BY DEF Steps
<1>. QED
  BY <1>1, StepNumber

LEMMA Clients ==
    /\ Client = {"ws", "consumer", "producer", "tracing", "redis", "read", "primary"}
    /\ Optional = {"consumer", "producer", "tracing", "redis", "read"}
    /\ Client \cap PubSubClients = {}
    /\ Lazy = {"redis", "producer", "publisher", "subscriber"}
BY DEF Client, Optional, Steps, PubSubClients, Lazy

-----------------------------------------------------------------------------
(* Requests. *)

\* What one request does to the request table.
LEMMA Changed ==
    ASSUME RequestType, NEW r \in Request, NEW new \in RequestRecord,
           req' = [req EXCEPT ![r] = new]
    PROVE  /\ RequestType'
           /\ req'[r] = new /\ \A s \in Request \ {r} : req'[s] = req[s]
BY DEF RequestType

LEMMA UsingChanged ==
    ASSUME RequestType, NEW r \in Request, NEW new \in RequestRecord,
           req' = [req EXCEPT ![r] = new], NEW pool \in Pool
    PROVE  /\ new.at # pool => Using(pool)' = Using(pool) \ {r}
           /\ new.at = pool => Using(pool)' = Using(pool) \cup {r}
<1>1. req'[r] = new /\ \A s \in Request \ {r} : req'[s] = req[s]
  BY Changed
<1>. QED
  BY <1>1 DEF Using

LEMMA Records ==
    ASSUME RequestType, NEW r \in Request
    PROVE  /\ NoRequest \in RequestRecord
           /\ \A place \in Places : [req[r] EXCEPT !.at = place] \in RequestRecord
           /\ req[r] = [at |-> req[r].at, ready |-> req[r].ready,
                         waited |-> req[r].waited, left |-> req[r].left]
BY Numbers DEF RequestType, RequestRecord, NoRequest, Places

\* One user more, or less, of a pool.
LEMMA OneMore ==
    ASSUME NEW S, NEW x, IsFiniteSet(S), Cardinality(S) < PoolMax
    PROVE  IsFiniteSet(S \cup {x}) /\ Cardinality(S \cup {x}) <= PoolMax
<1>. DEFINE T == S \cup {x}
<1>1. /\ IsFiniteSet(T)
      /\ Cardinality(T) = Cardinality(S) \/ Cardinality(T) = Cardinality(S) + 1
  BY FS_AddElement
<1>2. Cardinality(S) \in Nat /\ PoolMax \in Nat
  BY FS_CardinalityType, Numbers
<1>. HIDE DEF T
<1>3. Cardinality(T) <= PoolMax
  BY <1>1, <1>2
<1>. QED
  BY <1>1, <1>3, Zenon DEF T

LEMMA OneLess ==
    ASSUME NEW S, NEW x, IsFiniteSet(S), Cardinality(S) <= PoolMax
    PROVE  IsFiniteSet(S \ {x}) /\ Cardinality(S \ {x}) <= PoolMax
<1>. DEFINE T == S \ {x}
<1>1. T \subseteq S
  OBVIOUS
<1>. HIDE DEF T
<1>2. IsFiniteSet(T) /\ Cardinality(T) <= Cardinality(S)
  BY <1>1, FS_Subset
<1>3. Cardinality(S) \in Nat /\ Cardinality(T) \in Nat /\ PoolMax \in Nat
  BY <1>2, FS_CardinalityType, Numbers
<1>4. Cardinality(T) <= PoolMax
  BY <1>2, <1>3
<1>. QED
  BY <1>2, <1>4, Zenon DEF T

\* A request step replaces the record of one request.  Where it goes to a pool,
\* the pool had a connection to give and its step of the drain ahead.
LEMMA RequestStep ==
    ASSUME IInv, NEW r \in Request, Receive(r) \/ Proceed(r)
    PROVE  /\ UNCHANGED <<process, clients>>
           /\ hits' \in 0 .. RateLimit
           /\ \/ UNCHANGED req
              \/ \E new \in RequestRecord :
                    /\ req' = [req EXCEPT ![r] = new]
                    /\ new.waited => httpDrain # "done" /\ new.at # "idle"
                    /\ boot = "done"
                    /\ new.at \in {"acquire"} \cup Pool => new.left > 0
                    /\ new.at \in Pool =>
                          /\ new.at = "read" => "read" \in features
                          /\ hook < StepOf(new.at)
                          /\ Cardinality(Using(new.at)) < PoolMax
<1>0. /\ RequestType /\ Booted /\ WaitedInv /\ QueriesLeft /\ hits \in 0 .. RateLimit
      /\ RateLimit \in Nat /\ MaxQueries \in Nat \ {0} /\ req[r] \in RequestRecord
  BY Numbers DEF IInv, ProcessType, RequestType
<1>1. req[r].at # "idle" => boot = "done"
  BY <1>0 DEF Booted, InFlight
<1>2. CASE Receive(r)
  <2>1. ASSUME NEW place \in {"acquire", "body"}, NEW ready \in BOOLEAN,
               Accepted(r, place, ready)
        PROVE  \E new \in RequestRecord :
                 /\ req' = [req EXCEPT ![r] = new]
                 /\ new.waited => httpDrain # "done" /\ new.at # "idle"
                 /\ new.at \notin Pool /\ new.left > 0
    <3>1. DEFINE new == [at |-> place, ready |-> ready, left |-> MaxQueries,
                         waited |-> httpDrain = "no"]
    <3>2. new \in RequestRecord
      BY <1>0 DEF RequestRecord, Places
    <3>3. req' = [req EXCEPT ![r] = new]
      BY <2>1 DEF Accepted
    <3>4. /\ new.at = place /\ new.left = MaxQueries
          /\ new.waited <=> httpDrain = "no"
      BY Zenon
    <3>5. /\ new.waited => httpDrain # "done" /\ new.at # "idle"
          /\ new.at \notin Pool /\ new.left > 0
      <4>1. place # "idle" /\ place \notin Pool /\ MaxQueries > 0
        BY <1>0 DEF Pool
      <4>2. httpDrain = "no" => httpDrain # "done"
        OBVIOUS
      <4>3. QED
        BY <3>4, <4>1, <4>2, Zenon
    <3>6. QED
      BY <3>2, <3>3, <3>5, Zenon
  <2>2. UNCHANGED req \/ \E place \in {"acquire", "body"}, ready \in BOOLEAN :
                             Accepted(r, place, ready)
    BY <1>2 DEF Receive, Health, Metrics, Ready, Post
  <2>3. boot = "done" /\ hits' \in 0 .. RateLimit /\ UNCHANGED <<process, clients>>
    BY <1>0, <1>2 DEF Receive, Limiter, Serving, Booted
  <2>4. QED
    BY <2>1, <2>2, <2>3
<1>3. CASE Proceed(r)
  <2>1. UNCHANGED <<process, clients, hits>> /\ boot = "done"
    BY <1>1, <1>3 DEF Proceed, Body, Operation, Acquire, AcquireFails, Query, Serving
  <2>2. ASSUME Answer(r)
        PROVE  /\ NoRequest \in RequestRecord /\ NoRequest.at = "idle"
               /\ ~NoRequest.waited /\ req' = [req EXCEPT ![r] = NoRequest]
    BY <1>0, <2>2, Records DEF Answer, NoRequest
  <2>3. ASSUME NEW place \in Places, Move(r, place), req[r].at # "idle"
        PROVE  LET new == [req[r] EXCEPT !.at = place]
               IN  /\ new \in RequestRecord /\ req' = [req EXCEPT ![r] = new]
                   /\ new.at = place /\ new.left = req[r].left
                   /\ new.waited => httpDrain # "done"
    BY <1>0, <2>3 DEF Move, RequestRecord, WaitedInv, RequestType
  <2>4. CASE Answer(r)
    BY <1>0, <2>1, <2>2, <2>4 DEF Pool
  <2>5. CASE Body(r) /\ ~Answer(r)
    <3>1. Move(r, "operation") /\ req[r].at # "idle" /\ "operation" \in Places
      BY <2>5 DEF Body, Places
    <3>2. QED
      BY <1>0, <2>1, <2>3, <3>1 DEF Pool
  <2>6. CASE Operation(r) /\ ~Answer(r)
    <3>1. /\ Move(r, "acquire") /\ req[r].at # "idle" /\ "acquire" \in Places
          /\ req[r].left > 0
      BY <2>6 DEF Operation, Places
    <3>2. QED
      BY <1>0, <2>1, <2>3, <3>1 DEF Pool
  <2>7. CASE Acquire(r)
    <3>1. PICK pool \in Wanted(r) : /\ hook < StepOf(pool)
                                   /\ Cardinality(Using(pool)) < PoolMax
                                   /\ Move(r, pool)
      BY <2>7 DEF Acquire
    <3>2. /\ pool \in Pool /\ pool \in Places /\ req[r].at # "idle"
          /\ pool = "read" => "read" \in features
          /\ req[r].left > 0
      BY <1>0, <2>7 DEF Acquire, Wanted, Pool, Places, QueriesLeft
    <3>3. QED
      BY <1>0, <2>1, <2>3, <3>1, <3>2 DEF Pool
  <2>8. CASE (Query(r) \/ AcquireFails(r)) /\ ~Answer(r)
    <3>1. /\ req[r].left \in 1 .. MaxQueries
          /\ req[r].ready \in BOOLEAN /\ req[r].waited \in BOOLEAN
          /\ req[r].waited => httpDrain # "done"
      BY <1>0, <2>8 DEF Query, AcquireFails, RequestRecord, QueriesLeft, Pool, WaitedInv
    <3>2. DEFINE left == req[r].left - 1
                 new == [at |-> "operation", ready |-> req[r].ready,
                         waited |-> req[r].waited, left |-> left]
    <3>3. req' = [req EXCEPT ![r] = new]
      BY <1>0, <2>8 DEF Query, AcquireFails, Continue, RequestType, RequestRecord
    <3>4. left \in 0 .. MaxQueries /\ "operation" \in Places
      BY <1>0, <3>1 DEF Places
    <3>. HIDE DEF left
    <3>5. new \in RequestRecord /\ new.at = "operation" /\ (new.waited <=> req[r].waited)
      BY <3>1, <3>4, Zenon DEF RequestRecord
    <3>. HIDE DEF new
    <3>6. new.at # "idle" /\ new.at # "acquire" /\ new.at \notin Pool
      BY <3>5 DEF Pool
    <3>7. /\ UNCHANGED <<process, clients>> /\ hits' \in 0 .. RateLimit
          /\ boot = "done"
      BY <1>0, <2>1
    <3>8. QED
      BY <3>1, <3>3, <3>5, <3>6, <3>7, Zenon
  <2>9. QED
    BY <1>3, <2>4, <2>5, <2>6, <2>7, <2>8 DEF Proceed
<1>4. QED
  BY <1>2, <1>3

\* A request step preserves the invariant.
LEMMA RequestInv ==
    ASSUME IInv, NEW r \in Request, Receive(r) \/ Proceed(r), features' = features
    PROVE  IInv'
<1>0. /\ UNCHANGED <<boot, listening, hook, httpDrain, exit, open, used, late>>
      /\ hits' \in 0 .. RateLimit
  BY RequestStep DEF process, clients
<1>1. /\ ProcessType' /\ ClientType' /\ OpenOrLate'
      /\ UNCHANGED <<boot, listening, hook, httpDrain, exit, open, late>>
  BY <1>0 DEF IInv, ProcessType, ClientType, OpenOrLate, Configured, StepOf
<1>2. CASE UNCHANGED req
  <2>1. InFlight' = InFlight /\ \A pool \in Pool : Using(pool)' = Using(pool)
    BY <1>2 DEF InFlight, Using
  <2>2. RequestType' /\ QueriesLeft' /\ Booted' /\ WaitedInv'
    BY <1>1, <1>2, <2>1 DEF IInv, RequestType, QueriesLeft, Booted, WaitedInv
  <2>3. PoolsInv'
    BY <1>1, <2>1 DEF IInv, PoolsInv, Pool, StepOf
  <2>4. QED
    BY <1>1, <2>2, <2>3 DEF IInv
<1>3. CASE ~UNCHANGED req
  <2>1. PICK new \in RequestRecord :
          /\ req' = [req EXCEPT ![r] = new]
          /\ new.waited => httpDrain # "done" /\ new.at # "idle"
          /\ boot = "done"
          /\ new.at \in {"acquire"} \cup Pool => new.left > 0
          /\ new.at \in Pool =>
                /\ new.at = "read" => "read" \in features
                /\ hook < StepOf(new.at)
                /\ Cardinality(Using(new.at)) < PoolMax
    BY <1>3, RequestStep
  <2>2. RequestType' /\ req'[r] = new /\ \A s \in Request \ {r} : req'[s] = req[s]
    BY <2>1, Changed DEF IInv
  <2>3. QueriesLeft' /\ WaitedInv'
    BY <1>1, <2>1, <2>2 DEF IInv, QueriesLeft, WaitedInv
  <2>4. Booted'
    BY <1>1, <2>1 DEF IInv, Booted
  <2>5. ASSUME NEW pool \in Pool
        PROVE  /\ Using(pool)' # {} => hook < StepOf(pool) \/ Using(pool) # {}
               /\ Using(pool)' # {} /\ pool = "read" => "read" \in features
               /\ IsFiniteSet(Using(pool)') /\ Cardinality(Using(pool)') <= PoolMax
    <3>0. /\ IsFiniteSet(Using(pool)) /\ Cardinality(Using(pool)) <= PoolMax
          /\ PoolMax \in Nat
          /\ Using("read") # {} => "read" \in features
      BY Numbers DEF IInv, PoolsInv
    <3>1. CASE new.at = pool
      <4>1. Using(pool)' = Using(pool) \cup {r}
        BY <2>1, <3>1, UsingChanged DEF IInv
      <4>2. /\ hook < StepOf(pool) /\ Cardinality(Using(pool)) < PoolMax
            /\ pool = "read" => "read" \in features
        BY <2>1, <3>1
      <4>3. /\ IsFiniteSet(Using(pool) \cup {r})
            /\ Cardinality(Using(pool) \cup {r}) <= PoolMax
        BY <3>0, <4>2, OneMore
      <4>4. QED
        BY <4>1, <4>2, <4>3, Zenon
    <3>2. CASE new.at # pool
      <4>1. Using(pool)' = Using(pool) \ {r}
        BY <2>1, <3>2, UsingChanged DEF IInv
      <4>2. /\ IsFiniteSet(Using(pool) \ {r})
            /\ Cardinality(Using(pool) \ {r}) <= PoolMax
        BY <3>0, OneLess
      <4>3. Using(pool)' # {} => Using(pool) # {}
        BY <4>1
      <4>4. Using(pool)' # {} /\ pool = "read" => "read" \in features
        BY <3>0, <4>3, Zenon
      <4>5. QED
        BY <4>1, <4>2, <4>3, <4>4, Zenon
    <3>3. QED
      BY <3>1, <3>2
  <2>6. PoolsInv'
    <3>1. \A pool \in Pool : Using(pool)' # {} => hook <= StepOf(pool)
      BY <2>5, StepNumbers DEF IInv, PoolsInv, Pool, ProcessType, Done
    <3>2. QED
      BY <1>1, <2>5, <3>1 DEF IInv, PoolsInv, Pool, StepOf
  <2>7. QED
    BY <1>1, <2>2, <2>3, <2>4, <2>6 DEF IInv
<1>4. QED
  BY <1>2, <1>3

-----------------------------------------------------------------------------
(* Start, shutdown, and the clients made on first use. *)

System ==
    \/ Load \/ ServerStart \/ Listen \/ StartFails \/ Shutdown \/ WindowOver
    \/ \E x \in Lazy : FirstUse(x)

LEMMA SystemRequests ==
    ASSUME IInv, System
    PROVE  /\ RequestType' /\ QueriesLeft'
           /\ InFlight' = InFlight /\ \A pool \in Pool : Using(pool)' = Using(pool)
           /\ \A r \in Request : /\ req'[r].waited => req[r].waited
                                 /\ req'[r].at = req[r].at
<1>1. CASE UNCHANGED req
  BY <1>1 DEF IInv, RequestType, QueriesLeft, InFlight, Using
<1>2. CASE GracePeriodOver
  <2>1. ASSUME NEW r \in Request
        PROVE  /\ req'[r] \in RequestRecord /\ req'[r].at = req[r].at
               /\ req'[r].left = req[r].left /\ ~req'[r].waited
    BY <1>2 DEF GracePeriodOver, IInv, RequestType, RequestRecord
  <2>2. RequestType'
    <3>1. req' = [r \in Request |-> [req[r] EXCEPT !.waited = FALSE]]
      BY <1>2 DEF GracePeriodOver
    <3>2. QED
      BY <2>1, <3>1 DEF RequestType
  <2>3. QED
    BY <2>1, <2>2 DEF IInv, QueriesLeft, InFlight, Using
<1>3. QED
  BY <1>1, <1>2
     DEF System, Shutdown, Load, ServerStart, Listen, StartFails, WindowOver, Signal,
         HttpDrained, Drain, Close, DrainFails, Stopped, FirstUse

LEMMA SystemProcess ==
    ASSUME IInv, System, features' = features
    PROVE  ProcessType' /\ Booted'
<1>0. /\ InFlight' = InFlight
      /\ ProcessType /\ ClientType /\ Booted /\ RateLimit \in Nat
  BY SystemRequests, Numbers DEF IInv
<1>1. CASE Load
  BY <1>0, <1>1 DEF Load, ProcessType, Booted
<1>2. CASE ServerStart \/ Listen \/ StartFails \/ WindowOver
  <2>1. CASE ServerStart
    BY <1>0, <2>1 DEF ServerStart, clients, ProcessType, Booted
  <2>2. CASE Listen
    BY <1>0, <2>2 DEF Listen, Opened, ProcessType, Booted
  <2>3. CASE StartFails
    BY <1>0, <2>3 DEF StartFails, clients, ProcessType, Booted
  <2>4. CASE WindowOver
    BY <1>0, <2>4 DEF WindowOver, Serving, process, clients, ProcessType, Booted
  <2>5. QED
    BY <1>2, <2>1, <2>2, <2>3, <2>4
<1>3. CASE Drain
  BY <1>0, <1>3 DEF Drain, Close, ProcessType, Booted, Done
<1>4. CASE \E x \in Lazy : FirstUse(x)
  <2>1. boot = "done" /\ UNCHANGED <<process, hits>>
    BY <1>4 DEF FirstUse, Serving
  <2>2. QED
    BY <1>0, <2>1 DEF process, ProcessType, Booted
<1>5. CASE Signal
  <2>1. ProcessType'
    <3>1. /\ UNCHANGED <<boot, hits>> /\ listening' \in BOOLEAN
          /\ exit' \in {"no", "0", "1"} /\ httpDrain' \in {"no", "waiting", "done"}
      BY <1>0, <1>5, Zenon DEF Signal, ProcessType
    <3>2. hook' \in 0 .. Done
      BY <1>0, <1>5 DEF Signal, ProcessType, Done
    <3>3. QED
      BY <1>0, <3>1, <3>2 DEF ProcessType
  <2>2. /\ boot' = boot /\ boot # "modules"
        /\ listening' => listening
    BY <1>5, Zenon DEF Signal
  <2>3. QED
    BY <1>0, <2>1, <2>2 DEF Booted
<1>6. CASE HttpDrained \/ GracePeriodOver \/ DrainFails \/ Stopped
  <2>1. /\ UNCHANGED <<boot, listening, hook, hits>> /\ open' = open
        /\ httpDrain' \in {"no", "waiting", "done"} /\ exit' \in {"no", "0", "1"}
    BY <1>0, <1>6
       DEF HttpDrained, GracePeriodOver, DrainFails, Stopped, clients, ProcessType
  <2>2. QED
    BY <1>0, <2>1 DEF ProcessType, Booted
<1>7. QED
  BY <1>1, <1>2, <1>3, <1>4, <1>5, <1>6 DEF System, Shutdown

LEMMA SystemClients ==
    ASSUME IInv, System, features' = features
    PROVE  ClientType' /\ OpenOrLate'
<1>0. /\ ProcessType /\ ClientType /\ Booted /\ OpenOrLate
      /\ hook \in 0 .. 8 /\ Configured' = Configured
  BY DEF IInv, ProcessType, ClientType, Done, Configured
<1>1. CASE Load
  <2>1. /\ hook' = 0 /\ late' = {} /\ used' = used
        /\ open' = {} \/ open' = OpenAtLoad
    BY <1>0, <1>1 DEF Load, ClientType, Booted
  <2>2. /\ OpenAtLoad \subseteq Configured \cup {"ws", "primary"}
        /\ OpenAtLoad \cap PubSubClients = {}
    BY DEF OpenAtLoad, Configured, PubSubClients
  <2>3. \A x \in Client : 0 <= StepOf(x)
    BY StepNumbers, Clients
  <2>4. QED
    BY <1>0, <2>1, <2>2, <2>3 DEF ClientType, OpenOrLate, Pool
<1>2. ASSUME NEW x \in ({"consumer"} \cup Lazy) \cap Configured, Opened(x), UNCHANGED hook,
             used \subseteq used', used' \subseteq Lazy, x \in PubSubClients => x \in used'
      PROVE  ClientType' /\ OpenOrLate'
  BY <1>0, <1>2, StepNumbers, Clients DEF Opened, ClientType, OpenOrLate, Pool, PubSubClients
<1>3. ASSUME UNCHANGED <<open, late, used>>, hook' = hook \/ (hook = 0 /\ hook' = 1)
      PROVE  ClientType' /\ OpenOrLate'
  BY <1>0, <1>3, StepNumbers, Clients DEF ClientType, OpenOrLate
<1>4. CASE Drain
  <2>1. /\ hook \in 1 .. 7 /\ hook' = hook + 1 /\ UNCHANGED used
        /\ open' = open \ {Steps[hook]} /\ late' = late \ {Steps[hook]}
    BY <1>4 DEF Drain, Close
  <2>2. \A x \in open \cap Client : StepOf(x) \in 1 .. 7 /\ (StepOf(x) = hook => x = Steps[hook])
    BY <1>0, <2>1, StepNumber DEF Client
  <2>3. QED
    BY <1>0, <2>1, <2>2 DEF ClientType, OpenOrLate
<1>5. QED
  <2>1. CASE ServerStart \/ StartFails \/ WindowOver \/ Signal \/ HttpDrained
             \/ GracePeriodOver \/ DrainFails \/ Stopped
    BY <1>3, <2>1
       DEF ServerStart, StartFails, WindowOver, Serving, process, clients, Signal,
           HttpDrained, GracePeriodOver, DrainFails, Stopped
  <2>2. CASE Listen
    BY <1>0, <1>2, <1>3, <2>2 DEF Listen, ClientType, Configured, PubSubClients
  <2>3. CASE \E x \in Lazy : FirstUse(x)
    BY <1>0, <1>2, <2>3, Clients DEF FirstUse, Serving, process, ClientType, PubSubClients
  <2>4. QED
    BY <1>1, <1>4, <2>1, <2>2, <2>3 DEF System, Shutdown

LEMMA SystemPools ==
    ASSUME IInv, System, features' = features
    PROVE  PoolsInv'
<1>0. /\ ProcessType /\ ClientType /\ Booted /\ PoolsInv
      /\ \A pool \in Pool : Using(pool)' = Using(pool)
      /\ hook \in 0 .. 8
  BY SystemRequests DEF IInv, ProcessType, Done
<1>1. \A pool \in Pool :
         IsFiniteSet(Using(pool)') /\ Cardinality(Using(pool)') <= PoolMax
  BY <1>0 DEF PoolsInv
<1>2. CASE Load
  BY <1>0, <1>1, <1>2, StepNumbers DEF Load, OpenAtLoad, PoolsInv, Pool
<1>3. ASSUME open \subseteq open', boot' = boot \/ boot # "modules",
             hook' = hook \/ (hook = 0 /\ hook' = 1)
      PROVE  PoolsInv'
  BY <1>0, <1>1, <1>3, StepNumbers DEF PoolsInv, Pool
<1>4. CASE Drain
  <2>1. /\ hook \in 1 .. 7 /\ hook' = hook + 1 /\ boot' = boot
        /\ open' = open \ {Steps[hook]} /\ Using(Steps[hook]) = {}
    BY <1>4 DEF Drain, Close
  <2>2. ASSUME NEW pool \in Pool
        PROVE  /\ hook + 1 <= StepOf(pool) => pool # Steps[hook]
               /\ hook = StepOf(pool) => pool = Steps[hook]
    BY <2>1, <2>2, StepNumber, StepNumbers DEF Pool, Steps
  <2>3. QED
    BY <1>0, <1>1, <2>1, <2>2, StepNumbers DEF PoolsInv, Pool
<1>5. QED
  <2>1. CASE ServerStart \/ Listen \/ StartFails \/ WindowOver \/ Signal \/ HttpDrained
             \/ GracePeriodOver \/ DrainFails \/ Stopped
    BY <1>3, <2>1
       DEF ServerStart, Listen, StartFails, WindowOver, Serving, process, clients,
           Opened, Signal, HttpDrained, GracePeriodOver, DrainFails, Stopped
  <2>2. CASE \E x \in Lazy : FirstUse(x)
    BY <1>3, <2>2 DEF FirstUse, Opened, Serving, process
  <2>3. QED
    BY <1>2, <1>4, <2>1, <2>2 DEF System, Shutdown

LEMMA SystemWaited ==
    ASSUME IInv, System, exit = "no"
    PROVE  WaitedInv'
<1>0. /\ WaitedInv
      /\ \A r \in Request : /\ req'[r].waited => req[r].waited
                            /\ req'[r].at = req[r].at
  BY SystemRequests DEF IInv
<1>1. \A r \in Request : req'[r].waited => httpDrain' # "done"
  <2>1. CASE httpDrain' = httpDrain \/ httpDrain' # "done"
    BY <1>0, <2>1 DEF WaitedInv
  <2>2. CASE HttpDrained
    BY <1>0, <2>2 DEF HttpDrained, WaitedInv, InFlight
  <2>3. CASE GracePeriodOver
    BY <2>3 DEF GracePeriodOver, IInv, RequestType, RequestRecord
  <2>4. QED
    BY <2>1, <2>2, <2>3
       DEF System, Shutdown, Load, ServerStart, Listen, StartFails, WindowOver, Serving,
           process, Signal, Drain, Close, DrainFails, Stopped, FirstUse
<1>2. exit' = "0" => hook' = Done /\ httpDrain' = "done"
  BY DEF System, Shutdown, Load, ServerStart, Listen, StartFails, WindowOver, Serving,
         process, Signal, HttpDrained, GracePeriodOver, Drain, Close, DrainFails,
         Stopped, FirstUse
<1>3. QED
  BY <1>0, <1>1, <1>2 DEF WaitedInv

-----------------------------------------------------------------------------
(* The invariant, and what follows from it. *)

LEMMA Initial == Init => IInv
<1>. SUFFICES ASSUME Init PROVE IInv
  OBVIOUS
<1>1. \A r \in Request : req[r] = NoRequest
  BY DEF Init
<1>2. InFlight = {} /\ \A pool \in Pool : Using(pool) = {}
  BY <1>1 DEF InFlight, Using, NoRequest, Pool
<1>3. PoolsInv
  BY <1>2, FS_EmptySet, Numbers DEF Init, PoolsInv, Pool
<1>4. RequestType /\ QueriesLeft /\ WaitedInv
  BY <1>1, Numbers
     DEF Init, RequestType, RequestRecord, QueriesLeft, WaitedInv, NoRequest, Places, Pool
<1>5. ProcessType
  <2>1. features \subseteq Optional
    BY Configurations DEF Init
  <2>2. 0 \in 0 .. RateLimit /\ 0 \in 0 .. Done
    BY Numbers DEF Done
  <2>3. QED
    BY <2>1, <2>2, Zenon DEF Init, ProcessType
<1>6. ClientType /\ OpenOrLate
  BY DEF Init, ClientType, OpenOrLate
<1>7. Booted
  BY <1>2, Zenon DEF Init, Booted
<1>8. QED
  BY <1>3, <1>4, <1>5, <1>6, <1>7 DEF IInv

LEMMA Step == IInv /\ [Next]_vars => IInv'
<1>. SUFFICES ASSUME IInv, [Next]_vars PROVE IInv'
  OBVIOUS
<1>1. CASE UNCHANGED vars
  <2>1. InFlight' = InFlight /\ \A pool \in Pool : Using(pool)' = Using(pool)
    BY <1>1 DEF vars, InFlight, Using
  <2>2. QED
    BY <1>1, <2>1
       DEF vars, process, clients, IInv, ProcessType, ClientType, RequestType, Booted,
           OpenOrLate, PoolsInv, WaitedInv, QueriesLeft, Pool, StepOf, Configured
<1>2. CASE Next
  <2>1. exit = "no" /\ features' = features
    BY <1>2 DEF Next
  <2>2. CASE System
    BY <2>1, <2>2, SystemRequests, SystemProcess, SystemClients, SystemPools, SystemWaited
       DEF IInv
  <2>3. CASE \E r \in Request : Receive(r) \/ Proceed(r)
    BY <2>1, <2>3, RequestInv
  <2>4. QED
    BY <1>2, <2>2, <2>3 DEF Next, System
<1>3. QED
  BY <1>1, <1>2

\* The invariant holds in every reachable state.
THEOREM Invariance == Spec => []IInv
BY Initial, Step, PTL DEF Spec

\* All variables keep their types, and no pool gives out more connections than
\* it has.
THEOREM TypeCorrect == Spec => []TypeOK
<1>1. IInv => TypeOK
  BY DEF IInv, TypeOK, ProcessType, ClientType, RequestType, RequestRecord, PoolsInv, Pool
<1>2. QED
  BY <1>1, Invariance, PTL

\* Exit code 0 says that no pool was left open, and of the clients only those
\* that came after their step, or have none and were used: those of PubSub.
THEOREM ExitIsClean == Spec => []CleanExit
<1>1. ASSUME IInv PROVE open \subseteq Client \cup PubSubClients
  BY <1>1, Clients DEF IInv, ProcessType, ClientType, Configured
<1>2. ASSUME IInv, exit = "0" PROVE \A x \in Client : ~(hook <= StepOf(x))
  BY <1>2, StepNumbers, Clients DEF IInv, WaitedInv, Done
<1>3. IInv => CleanExit
  BY <1>1, <1>2 DEF IInv, CleanExit, OpenOrLate, Pool
<1>4. QED
  BY <1>3, Invariance, PTL

\* An exit with code 0 cuts off no request that came before the signal.
THEOREM RequestsAreWaitedFor == Spec => []NoRequestCut
<1>1. IInv => NoRequestCut
  BY DEF IInv, NoRequestCut, WaitedInv, InFlight
<1>2. QED
  BY <1>1, Invariance, PTL

\* No query runs on a pool that is closed.
THEOREM PoolsOpenWhileUsed == Spec => []NoQueryOnClosedPool
<1>1. IInv => NoQueryOnClosedPool
  BY DEF IInv, NoQueryOnClosedPool, PoolsInv, Booted, InFlight, Using, Pool
<1>2. QED
  BY <1>1, Invariance, PTL

=============================================================================
