------------------------ MODULE CommentEventsProofs ------------------------
(***************************************************************************)
(* Proofs about CommentEvents, for any numbers of comments, overlapping    *)
(* calls, instances and faults, with and without Kafka.                    *)
(***************************************************************************)
EXTENDS CommentEvents, SequenceTheorems, TLAPS

\* Calls between the insert and their answer.
Publishing == {"publish", "connecting", "send"}
Job == [comment : Comment \cup {NoComment}, owner : BOOLEAN, pos : Nat]

\* Of the first n messages, none is unaccounted for.
SettledTo(n) == \A k \in 1 .. n : Settled(log[k].comment)

DataType ==
    /\ kafka \in BOOLEAN /\ budget \in 0 .. MaxFaults
    /\ withPost \subseteq Comment /\ table \subseteq Comment
    /\ log \in Seq(Event) /\ dlq \subseteq Comment /\ lost \subseteq Comment
    /\ acked \subseteq Comment /\ announced \subseteq Event

CallType ==
    /\ pc \in [Caller -> {"idle", "getPost", "insert", "publish",
                          "connecting", "send", "handle"}]
    /\ at \in [Request -> Instance \cup {NoInstance}]
    /\ job \in [Caller -> Job]

GroupType ==
    /\ member \subseteq Instance /\ assigned \in member \cup {NoInstance}
    /\ offset \in 0 .. Len(log) /\ next \in [Instance -> 0 .. Len(log)]
    /\ phase \in [Instance -> {"up", "draining", "drained", "down"}]
    /\ \A i \in Instance : phase[i] \in {"drained", "down"} => i \notin member

\* A producer that is neither connecting nor shut down is connected.
ProducerInv ==
    /\ connected \in [Instance -> BOOLEAN]
    /\ dialing \subseteq Instance /\ online \subseteq Instance
    /\ \A i \in dialing : connected[i] = TRUE
    /\ \A i \in Instance :
          /\ connected[i] = TRUE => i \in dialing \cup online \/ phase[i] = "drained"
          /\ pc[i] = "send" => i \in online

\* A call of createComment.  A comment that has passed the insert stays a row
\* until its post is deleted.
RequestInv(r) ==
    /\ pc[r] # "handle" /\ job[r].pos = 0
    /\ pc[r] # "idle" => job[r].comment \in Comment /\ at[r] \in Instance
    /\ pc[r] = "insert" => job[r].owner = TRUE \/ job[r].comment \notin withPost
    /\ pc[r] \in Publishing =>
          /\ job[r].owner = TRUE /\ job[r].comment \notin acked
          /\ job[r].comment \notin withPost \ table

OnePublisher ==
    \A r, s \in Request :
        pc[r] \in Publishing /\ pc[s] \in Publishing /\ job[r].comment = job[s].comment => r = s

RequestsInv ==
    /\ \A r \in Request : RequestInv(r)
    /\ OnePublisher
    /\ \A c \in acked : c \notin withPost \ table

\* A message handler; all messages before its own are settled, also when the
\* partition has gone to another instance since.
HandlerInv(i) ==
    /\ pc[i] \notin {"getPost", "insert"}
    /\ pc[i] = "idle" => job[i].pos = 0
    /\ pc[i] # "idle" =>
          /\ i \in member
          /\ job[i].pos \in 1 .. Len(log)
          /\ job[i].comment = log[job[i].pos].comment
          /\ job[i].owner = TRUE
          /\ SettledTo(job[i].pos - 1)

GroupInv ==
    /\ \A i \in Instance : HandlerInv(i) /\ SettledTo(next[i])
    /\ SettledTo(offset)

IInv ==
    /\ DataType /\ CallType /\ GroupType /\ ProducerInv
    /\ RequestsInv /\ GroupInv /\ EventsNameOwner

-----------------------------------------------------------------------------
(* Building blocks of the actions. *)

\* What End leaves of the calls.
LEMMA EndCalls ==
    ASSUME CallType, NEW who, End(who)
    PROVE  /\ CallType'
           /\ \A x \in Caller :
                 /\ x \in who => pc'[x] = "idle" /\ job'[x] = NoJob
                 /\ x \notin who => pc'[x] = pc[x] /\ job'[x] = job[x]
           /\ \A r \in Request : r \notin who => at'[r] = at[r]
           /\ NoJob.pos = 0
<1>1. NoJob \in Job /\ NoJob.pos = 0
  BY DEF NoJob, Job
<1>. HIDE DEF NoJob
<1>. QED
  BY <1>1 DEF End, CallType

LEMMA GotoCalls ==
    ASSUME CallType, NEW x \in Caller,
           NEW step \in {"publish", "connecting", "send"}, Goto(x, step)
    PROVE  /\ CallType' /\ pc'[x] = step /\ UNCHANGED <<at, job>>
           /\ \A y \in Caller \ {x} : pc'[y] = pc[y]
BY DEF Goto, CallType

LEMMA EventFacts ==
    ASSUME CallType, NEW x \in Caller, job[x].comment \in Comment
    PROVE  /\ Payload(job[x]) \in Event
           /\ Payload(job[x]).comment = job[x].comment
           /\ Payload(job[x]).owner = job[x].owner
BY DEF CallType, Payload, Event, Job

LEMMA Spent ==
    ASSUME budget \in 0 .. MaxFaults, NEW fault, Happens(fault)
    PROVE  budget' \in 0 .. MaxFaults
BY FaultsAssumption DEF Happens

\* Nothing that is settled comes undone, and messages keep their places.
LEMMA SettledKept ==
    ASSUME DataType, NEW n \in 0 .. Len(log), SettledTo(n),
           announced \subseteq announced', dlq \subseteq dlq', lost \subseteq lost',
           log' = log \/ \E e \in Event : log' = Append(log, e)
    PROVE  /\ \A k \in 1 .. n : Settled(log[k].comment)'
           /\ SettledTo(n)'
<1>1. \A k \in 1 .. Len(log) : log'[k] = log[k]
  BY DEF DataType
<1>2. \A c : Settled(c) => Settled(c)'
  BY DEF Settled, Announced
<1>. QED
  BY <1>1, <1>2 DEF SettledTo

-----------------------------------------------------------------------------
(* Frames. *)

\* Calls that end, go on, or only move between the insert and their answer.
LEMMA RequestsKept ==
    ASSUME RequestsInv, UNCHANGED <<withPost, table, acked>>,
           \A r \in Request :
              \/ pc'[r] = "idle" /\ job'[r].pos = 0
              \/ /\ job'[r] = job[r] /\ at'[r] = at[r]
                 /\ pc'[r] = pc[r] \/ (pc[r] \in Publishing /\ pc'[r] \in Publishing)
    PROVE  RequestsInv'
<1>1. ASSUME NEW r \in Request PROVE RequestInv(r)'
  BY DEF RequestsInv, RequestInv, Publishing
<1>2. \A r \in Request : pc'[r] \in Publishing =>
         pc[r] \in Publishing /\ job'[r].comment = job[r].comment
  BY DEF Publishing
<1>3. OnePublisher'
  BY <1>2 DEF RequestsInv, OnePublisher
<1>. QED
  BY <1>1, <1>3 DEF RequestsInv

\* Handlers that end, go on, or move to the dead-letter queue; consumers whose
\* position only passes the message in hand once it is settled.
LEMMA GroupKept ==
    ASSUME DataType, GroupType, GroupInv,
           announced \subseteq announced', dlq \subseteq dlq', lost \subseteq lost',
           log' = log \/ \E e \in Event : log' = Append(log, e),
           \A i \in Instance :
              \/ pc'[i] = "idle" /\ job'[i].pos = 0
              \/ /\ job'[i] = job[i]
                 /\ pc'[i] = pc[i] \/ (pc[i] # "idle" /\ pc'[i] \in Publishing)
                 /\ pc[i] # "idle" => i \in member',
           next' \in [Instance -> Nat],
           \A i \in Instance :
              \/ next'[i] \in {next[i], offset}
              \/ /\ pc[i] # "idle" /\ next'[i] = job[i].pos
                 /\ \E c : c = job[i].comment /\ Settled(c)',
           offset' = offset \/ \E i \in Instance : offset' = next[i]
    PROVE  /\ GroupInv'
           /\ offset' \in 0 .. Len(log') /\ next' \in [Instance -> 0 .. Len(log')]
<1>1. /\ Len(log) \in Nat /\ Len(log') \in Nat /\ Len(log) <= Len(log')
      /\ \A k \in 1 .. Len(log) : log'[k] = log[k]
  <2>1. CASE log' = log
    BY <2>1 DEF DataType
  <2>2. ASSUME NEW e \in Event, log' = Append(log, e)
        PROVE  /\ Len(log') = Len(log) + 1 /\ Len(log) \in Nat
               /\ \A k \in 1 .. Len(log) : log'[k] = log[k]
    BY <2>2 DEF DataType
  <2>. QED
    BY <2>1, <2>2
<1>2. \A n \in 0 .. Len(log) :
        SettledTo(n) => n \in 0 .. Len(log') /\ \A k \in 1 .. n : Settled(log[k].comment)'
  BY <1>1, SettledKept
<1>3. /\ \A i \in Instance : next[i] \in 0 .. Len(log) /\ SettledTo(next[i])
      /\ offset \in 0 .. Len(log) /\ SettledTo(offset)
      /\ \A i \in Instance : HandlerInv(i)
  BY DEF GroupType, GroupInv
<1>4. ASSUME NEW i \in Instance, pc[i] # "idle", NEW c, c = job[i].comment, Settled(c)'
      PROVE  /\ job[i].pos \in 0 .. Len(log')
             /\ \A k \in 1 .. job[i].pos : Settled(log[k].comment)'
  <2>1. /\ job[i].pos \in 1 .. Len(log) /\ SettledTo(job[i].pos - 1)
        /\ job[i].comment = log[job[i].pos].comment
    BY <1>3, <1>4 DEF HandlerInv
  <2>2. \A k \in 1 .. job[i].pos - 1 : Settled(log[k].comment)'
    BY <1>1, <1>2, <2>1
  <2>3. \A k \in 1 .. job[i].pos : k = job[i].pos \/ k \in 1 .. job[i].pos - 1
    BY <1>1, <2>1
  <2>. QED
    BY <1>1, <1>4, <2>1, <2>2, <2>3
<1>5. ASSUME NEW i \in Instance PROVE next'[i] \in 0 .. Len(log') /\ SettledTo(next[i])'
  BY <1>2, <1>3, <1>4 DEF SettledTo
<1>6. offset' \in 0 .. Len(log') /\ SettledTo(offset)'
  BY <1>2, <1>3 DEF SettledTo
<1>7. ASSUME NEW i \in Instance PROVE HandlerInv(i)'
  <2>1. CASE pc'[i] = "idle" /\ job'[i].pos = 0
    BY <2>1 DEF HandlerInv
  <2>2. CASE pc[i] = "idle" /\ pc'[i] = "idle" /\ job'[i] = job[i]
    BY <1>3, <2>2 DEF HandlerInv
  <2>3. CASE /\ pc[i] # "idle" /\ job'[i] = job[i] /\ i \in member'
             /\ pc'[i] = pc[i] \/ pc'[i] \in Publishing
    <3>1. /\ job[i].pos \in 1 .. Len(log) /\ SettledTo(job[i].pos - 1)
          /\ job[i].comment = log[job[i].pos].comment /\ job[i].owner = TRUE
          /\ pc[i] \notin {"getPost", "insert"}
      BY <1>3, <2>3 DEF HandlerInv
    <3>2. SettledTo(job[i].pos - 1)'
      <4>. DEFINE n == job[i].pos - 1
      <4>1. n \in 0 .. Len(log) /\ SettledTo(n)
        BY <1>1, <3>1
      <4>2. \A k \in 1 .. n : Settled(log[k].comment)'
        BY <1>2, <4>1
      <4>. QED
        BY <2>3, <4>2 DEF SettledTo
    <3>3. pc'[i] \notin {"getPost", "insert", "idle"}
      BY <2>3, <3>1 DEF Publishing
    <3>. QED
      BY <1>1, <2>3, <3>1, <3>2, <3>3 DEF HandlerInv
  <2>. QED
    BY <2>1, <2>2, <2>3
<1>. QED
  BY <1>5, <1>6, <1>7 DEF GroupInv

LEMMA EventsKept ==
    ASSUME DataType, EventsNameOwner,
           \A e \in announced' : e \in announced \/ e.owner = TRUE,
           log' = log \/ \E e \in Event : e.owner = TRUE /\ log' = Append(log, e)
    PROVE  EventsNameOwner'
BY DEF DataType, EventsNameOwner

\* Steps of an instance's consumer or process that no call takes part in.
LEMMA CallsUntouched ==
    ASSUME IInv, UNCHANGED <<dbVars, topicVars, callVars, outcome, kafka>>,
           budget' \in 0 .. MaxFaults,
           \A i \in Instance : pc[i] # "idle" => i \in member',
           next' \in [Instance -> Nat],
           \A i \in Instance : next'[i] \in {next[i], offset},
           offset' = offset \/ \E i \in Instance : offset' = next[i]
    PROVE  /\ DataType' /\ CallType' /\ RequestsInv' /\ GroupInv' /\ EventsNameOwner'
           /\ offset' \in 0 .. Len(log') /\ next' \in [Instance -> 0 .. Len(log')]
<1>1. UNCHANGED <<withPost, table, log, dlq, lost, pc, at, job, acked, announced, kafka>>
  BY DEF dbVars, topicVars, callVars, outcome
<1>2. DataType' /\ CallType'
  BY <1>1 DEF IInv, DataType, CallType
<1>3. RequestsInv'
  BY <1>1, RequestsKept DEF IInv
<1>4. /\ GroupInv' /\ offset' \in 0 .. Len(log') /\ next' \in [Instance -> 0 .. Len(log')]
  BY <1>1, GroupKept DEF IInv
<1>5. EventsNameOwner'
  BY <1>1 DEF IInv, EventsNameOwner
<1>. QED
  BY <1>2, <1>3, <1>4, <1>5

-----------------------------------------------------------------------------
(* The consumer group and the life of an instance. *)

LEMMA HandlersAreMembers ==
    ASSUME IInv
    PROVE  /\ \A i \in Instance : pc[i] # "idle" => i \in member
           /\ next \in [Instance -> Nat] /\ offset \in Nat /\ Len(log) \in Nat
BY DEF IInv, GroupInv, HandlerInv, GroupType, DataType

LEMMA AssignInv == ASSUME IInv, NEW i \in Instance, Assign(i) PROVE IInv'
<1>1. /\ UNCHANGED <<dbVars, topicVars, callVars, outcome, kafka, budget>>
      /\ UNCHANGED <<member, phase, connected, dialing, online, pc, offset>>
      /\ assigned' = i /\ i \in member /\ next' = [next EXCEPT ![i] = offset]
  BY DEF Assign, configVars, producerVars, callVars
<1>2. /\ next' \in [Instance -> Nat] /\ \A j \in Instance : next'[j] \in {next[j], offset}
      /\ budget' \in 0 .. MaxFaults /\ \A j \in Instance : pc[j] # "idle" => j \in member'
  BY <1>1, HandlersAreMembers DEF IInv, DataType
<1>3. /\ DataType' /\ CallType' /\ RequestsInv' /\ GroupInv' /\ EventsNameOwner'
      /\ offset' \in 0 .. Len(log') /\ next' \in [Instance -> 0 .. Len(log')]
  BY <1>1, <1>2, CallsUntouched
<1>4. GroupType' /\ ProducerInv'
  BY <1>1, <1>3 DEF IInv, GroupType, ProducerInv
<1>. QED
  BY <1>3, <1>4 DEF IInv

LEMMA RebalanceInv == ASSUME IInv, Rebalance PROVE IInv'
<1>1. /\ UNCHANGED <<dbVars, topicVars, callVars, outcome, kafka, next, offset>>
      /\ UNCHANGED <<member, phase, connected, dialing, online, pc>>
      /\ assigned' = NoInstance
  BY DEF Rebalance, configVars, producerVars, callVars
<1>2. /\ next' \in [Instance -> Nat] /\ \A j \in Instance : next'[j] \in {next[j], offset}
      /\ budget' \in 0 .. MaxFaults /\ \A j \in Instance : pc[j] # "idle" => j \in member'
  BY <1>1, HandlersAreMembers, Spent DEF IInv, DataType, Rebalance
<1>3. /\ DataType' /\ CallType' /\ RequestsInv' /\ GroupInv' /\ EventsNameOwner'
      /\ offset' \in 0 .. Len(log') /\ next' \in [Instance -> 0 .. Len(log')]
  BY <1>1, <1>2, CallsUntouched
<1>4. GroupType' /\ ProducerInv'
  BY <1>1, <1>3 DEF IInv, GroupType, ProducerInv
<1>. QED
  BY <1>3, <1>4 DEF IInv

LEMMA CommitInv == ASSUME IInv, NEW i \in Instance, Commit(i) PROVE IInv'
<1>1. /\ UNCHANGED <<dbVars, topicVars, callVars, outcome, kafka, next, budget>>
      /\ UNCHANGED <<member, phase, connected, dialing, online, pc, assigned>>
      /\ offset' = next[i]
  BY DEF Commit, configVars, producerVars, callVars
<1>2. /\ next' \in [Instance -> Nat] /\ \A j \in Instance : next'[j] \in {next[j], offset}
      /\ budget' \in 0 .. MaxFaults /\ \A j \in Instance : pc[j] # "idle" => j \in member'
  BY <1>1, HandlersAreMembers DEF IInv, DataType
<1>3. /\ DataType' /\ CallType' /\ RequestsInv' /\ GroupInv' /\ EventsNameOwner'
      /\ offset' \in 0 .. Len(log') /\ next' \in [Instance -> 0 .. Len(log')]
  BY <1>1, <1>2, CallsUntouched
<1>4. GroupType' /\ ProducerInv'
  BY <1>1, <1>3 DEF IInv, GroupType, ProducerInv
<1>. QED
  BY <1>3, <1>4 DEF IInv

LEMMA StopInv == ASSUME IInv, NEW i \in Instance, Stop(i) PROVE IInv'
<1>1. /\ UNCHANGED <<dbVars, topicVars, callVars, outcome, kafka, next, offset>>
      /\ UNCHANGED <<member, assigned, connected, dialing, online, pc>>
      /\ phase[i] = "up" /\ phase' = [phase EXCEPT ![i] = "draining"]
  BY DEF Stop, configVars, producerVars, callVars, groupVars
<1>2. /\ next' \in [Instance -> Nat] /\ \A j \in Instance : next'[j] \in {next[j], offset}
      /\ budget' \in 0 .. MaxFaults /\ \A j \in Instance : pc[j] # "idle" => j \in member'
  BY <1>1, HandlersAreMembers, Spent DEF IInv, DataType, Stop
<1>3. /\ DataType' /\ CallType' /\ RequestsInv' /\ GroupInv' /\ EventsNameOwner'
      /\ offset' \in 0 .. Len(log') /\ next' \in [Instance -> 0 .. Len(log')]
  BY <1>1, <1>2, CallsUntouched
<1>4. GroupType' /\ ProducerInv'
  BY <1>1, <1>3 DEF IInv, GroupType, ProducerInv
<1>. QED
  BY <1>3, <1>4 DEF IInv

\* The consumer stops between two messages.
LEMMA StopConsumerInv == ASSUME IInv, NEW i \in Instance, StopConsumer(i) PROVE IInv'
<1>1. /\ UNCHANGED <<dbVars, topicVars, callVars, outcome, kafka, next, budget>>
      /\ UNCHANGED <<phase, connected, dialing, online, pc>>
      /\ pc[i] = "idle" /\ phase[i] = "draining"
      /\ member' = member \ {i} /\ assigned' = IF assigned = i THEN NoInstance ELSE assigned
      /\ offset' \in {offset, next[i]}
  BY DEF StopConsumer, Leave, configVars, producerVars, callVars
<1>2. /\ next' \in [Instance -> Nat] /\ \A j \in Instance : next'[j] \in {next[j], offset}
      /\ budget' \in 0 .. MaxFaults /\ \A j \in Instance : pc[j] # "idle" => j \in member'
  BY <1>1, HandlersAreMembers DEF IInv, DataType
<1>3. /\ DataType' /\ CallType' /\ RequestsInv' /\ GroupInv' /\ EventsNameOwner'
      /\ offset' \in 0 .. Len(log') /\ next' \in [Instance -> 0 .. Len(log')]
  BY <1>1, <1>2, CallsUntouched
<1>4. GroupType' /\ ProducerInv'
  BY <1>1, <1>3 DEF IInv, GroupType, ProducerInv
<1>. QED
  BY <1>3, <1>4 DEF IInv

LEMMA DisconnectProducerInv ==
    ASSUME IInv, NEW i \in Instance, DisconnectProducer(i) PROVE IInv'
<1>1. /\ UNCHANGED <<dbVars, topicVars, callVars, outcome, kafka, next, offset, budget>>
      /\ UNCHANGED <<member, assigned, connected, dialing, pc>>
      /\ i \notin member /\ phase' = [phase EXCEPT ![i] = "drained"] /\ online' = online \ {i}
  BY DEF DisconnectProducer, configVars, callVars, groupVars
<1>2. /\ next' \in [Instance -> Nat] /\ \A j \in Instance : next'[j] \in {next[j], offset}
      /\ budget' \in 0 .. MaxFaults /\ \A j \in Instance : pc[j] # "idle" => j \in member'
  BY <1>1, HandlersAreMembers DEF IInv, DataType
<1>3. /\ DataType' /\ CallType' /\ RequestsInv' /\ GroupInv' /\ EventsNameOwner'
      /\ offset' \in 0 .. Len(log') /\ next' \in [Instance -> 0 .. Len(log')]
  BY <1>1, <1>2, CallsUntouched
<1>4. pc[i] = "idle"
  BY <1>1, HandlersAreMembers
<1>5. GroupType' /\ ProducerInv'
  BY <1>1, <1>3, <1>4 DEF IInv, GroupType, ProducerInv
<1>. QED
  BY <1>3, <1>5 DEF IInv

LEMMA StartInv == ASSUME IInv, NEW i \in Instance, Start(i) PROVE IInv'
<1>1. /\ UNCHANGED <<dbVars, topicVars, callVars, outcome, kafka, next, offset>>
      /\ UNCHANGED <<assigned, connected, dialing, online, pc>>
      /\ member' \in {member, member \cup {i}}
      /\ phase[i] = "down" /\ phase' = [phase EXCEPT ![i] = "up"]
  BY DEF Start, configVars, producerVars, callVars
<1>2. /\ next' \in [Instance -> Nat] /\ \A j \in Instance : next'[j] \in {next[j], offset}
      /\ budget' \in 0 .. MaxFaults /\ \A j \in Instance : pc[j] # "idle" => j \in member'
  BY <1>1, HandlersAreMembers, Spent DEF IInv, DataType, Start
<1>3. /\ DataType' /\ CallType' /\ RequestsInv' /\ GroupInv' /\ EventsNameOwner'
      /\ offset' \in 0 .. Len(log') /\ next' \in [Instance -> 0 .. Len(log')]
  BY <1>1, <1>2, CallsUntouched
<1>4. GroupType' /\ ProducerInv'
  BY <1>1, <1>3 DEF IInv, GroupType, ProducerInv
<1>. QED
  BY <1>3, <1>4 DEF IInv

LEMMA DeletePostInv == ASSUME IInv, NEW c \in Comment, DeletePost(c) PROVE IInv'
<1>1. /\ withPost' = withPost \ {c} /\ table' = table \ {c}
      /\ UNCHANGED <<log, dlq, lost, pc, at, job, acked, announced, kafka, budget>>
      /\ UNCHANGED <<offset, assigned, member, next, phase, connected, dialing, online>>
  BY DEF DeletePost, configVars, topicVars, groupVars, producerVars, callVars, outcome
<1>2. DataType' /\ CallType' /\ GroupType' /\ ProducerInv' /\ EventsNameOwner'
  BY <1>1 DEF IInv, DataType, CallType, GroupType, ProducerInv, EventsNameOwner
<1>3. RequestsInv'
  BY <1>1 DEF IInv, RequestsInv, RequestInv, OnePublisher
<1>4. GroupInv'
  BY <1>1, GroupKept, HandlersAreMembers DEF IInv
<1>. QED
  BY <1>2, <1>3, <1>4 DEF IInv

\* Crash and Exit: all calls of the instance end.
LEMMA GoesDown ==
    ASSUME IInv, NEW i \in Instance, phase' = [phase EXCEPT ![i] = "down"],
           member' = member \ {i}, assigned' = IF assigned = i THEN NoInstance ELSE assigned,
           connected' = [connected EXCEPT ![i] = FALSE],
           dialing' = dialing \ {i}, online' = online \ {i},
           End({x \in Caller : At(x) = i}), budget' \in 0 .. MaxFaults,
           UNCHANGED <<kafka, withPost, table, log, dlq, lost, offset, next, acked, announced>>
    PROVE  IInv'
<1>. DEFINE who == {x \in Caller : At(x) = i}
<1>1. /\ CallType'
      /\ \A x \in Caller :
            /\ x \in who => pc'[x] = "idle" /\ job'[x].pos = 0
            /\ x \notin who => pc'[x] = pc[x] /\ job'[x] = job[x]
      /\ \A r \in Request : r \notin who => at'[r] = at[r]
  BY EndCalls DEF IInv
<1>2. Request \subseteq Caller /\ Instance \subseteq Caller
      /\ \A j \in Instance : j \in who <=> j = i
  BY DEF Caller, At
<1>. HIDE DEF who
<1>3. DataType' /\ EventsNameOwner'
  BY DEF IInv, DataType, EventsNameOwner
<1>4. RequestsInv'
  BY <1>1, <1>2, RequestsKept DEF IInv
<1>5. GroupInv'
  BY <1>1, <1>2, GroupKept, HandlersAreMembers DEF IInv
<1>6. GroupType'
  BY DEF IInv, GroupType
<1>7. ProducerInv'
  BY <1>1, <1>2 DEF IInv, ProducerInv, GroupType
<1>. QED
  BY <1>1, <1>3, <1>4, <1>5, <1>6, <1>7 DEF IInv

LEMMA CrashInv == ASSUME IInv, NEW i \in Instance, Crash(i) PROVE IInv'
<1>1. budget' \in 0 .. MaxFaults
  BY Spent DEF Crash, IInv, DataType
<1>. QED
  BY <1>1, GoesDown DEF Crash, Leave, configVars, dbVars, topicVars, outcome

LEMMA ExitInv == ASSUME IInv, NEW i \in Instance, Exit(i) PROVE IInv'
<1>1. i \notin member /\ assigned # i
  BY NullAssumption DEF Exit, IInv, GroupType
<1>2. /\ member' = member \ {i} /\ assigned' = IF assigned = i THEN NoInstance ELSE assigned
      /\ budget' \in 0 .. MaxFaults
  BY <1>1 DEF Exit, groupVars, IInv, DataType
<1>. QED
  BY <1>2, GoesDown DEF Exit, groupVars, configVars, dbVars, topicVars, outcome

-----------------------------------------------------------------------------
(* createComment. *)

\* Steps of a request leave the group, and the message handlers, alone.
LEMMA RequestStep ==
    ASSUME IInv, NEW r \in Request,
           CallType', \A i \in Instance : pc'[i] = pc[i] /\ job'[i] = job[i],
           UNCHANGED <<groupVars, phase, producerVars, dlq, lost>>,
           log' = log \/ \E e \in Event : e.owner = TRUE /\ log' = Append(log, e),
           announced \subseteq announced', \A e \in announced' : e \in announced \/ e.owner = TRUE,
           DataType', RequestsInv'
    PROVE  IInv'
<1>1. UNCHANGED <<offset, assigned, member, next, phase, connected, dialing, online>>
  BY DEF groupVars, producerVars
<1>2. /\ GroupInv' /\ offset' \in 0 .. Len(log') /\ next' \in [Instance -> 0 .. Len(log')]
  BY <1>1, GroupKept, HandlersAreMembers DEF IInv
<1>3. GroupType'
  BY <1>1, <1>2 DEF IInv, GroupType
<1>4. ProducerInv'
  BY <1>1 DEF IInv, ProducerInv
<1>5. EventsNameOwner'
  BY EventsKept DEF IInv
<1>. QED
  BY <1>2, <1>3, <1>4, <1>5 DEF IInv

LEMMA Callers ==
    /\ Request \subseteq Caller /\ Instance \subseteq Caller
    /\ \A r \in Request : r \notin Instance /\ At(r) = at[r]
    /\ \A i \in Instance : i \notin Request /\ At(i) = i
BY CallerAssumption DEF Caller, At

LEMMA ArriveInv == ASSUME IInv, NEW r \in Request, Arrive(r) PROVE IInv'
<1>1. PICK i \in Instance, c \in Comment :
         /\ pc' = [pc EXCEPT ![r] = "getPost"]
         /\ at' = [at EXCEPT ![r] = i]
         /\ job' = [job EXCEPT ![r] = [NoJob EXCEPT !.comment = c]]
  BY DEF Arrive
<1>. DEFINE new == [NoJob EXCEPT !.comment = c]
<1>2. new \in Job /\ new.comment = c /\ new.pos = 0
  BY DEF NoJob, Job
<1>. HIDE DEF new
<1>3. /\ CallType' /\ pc'[r] = "getPost" /\ at'[r] = i /\ job'[r] = new
      /\ \A x \in Caller \ {r} : pc'[x] = pc[x] /\ job'[x] = job[x]
      /\ \A s \in Request \ {r} : at'[s] = at[s]
  BY <1>1, <1>2, Callers DEF IInv, CallType, new
<1>4. DataType' /\ UNCHANGED <<withPost, table, acked>>
  BY DEF Arrive, IInv, DataType, configVars, dbVars, topicVars, outcome
<1>5. RequestsInv'
  <2>1. \A s \in Request : RequestInv(s)'
    BY <1>2, <1>3, <1>4, Callers DEF IInv, RequestsInv, RequestInv, Publishing
  <2>2. OnePublisher'
    BY <1>3, Callers DEF IInv, RequestsInv, OnePublisher, Publishing
  <2>. QED
    BY <1>4, <2>1, <2>2 DEF IInv, RequestsInv
<1>. QED
  BY <1>3, <1>4, <1>5, Callers, RequestStep DEF Arrive, topicVars, outcome

LEMMA GetPostInv == ASSUME IInv, NEW r \in Request, GetPost(r) PROVE IInv'
<1>. DEFINE new == [job[r] EXCEPT !.owner = job[r].comment \in withPost]
<1>1. /\ pc[r] = "getPost" /\ pc' = [pc EXCEPT ![r] = "insert"]
      /\ job' = [job EXCEPT ![r] = new] /\ at' = at
  BY DEF GetPost
<1>2. job[r] \in Job
  BY Callers DEF IInv, CallType
<1>3. /\ new \in Job /\ new.comment = job[r].comment /\ new.pos = job[r].pos
      /\ new.owner = TRUE \/ job[r].comment \notin withPost
  <2>. DEFINE found == job[r].comment \in withPost
  <2>1. found \in BOOLEAN /\ (found = TRUE \/ job[r].comment \notin withPost)
    <3>1. found \in BOOLEAN
      OBVIOUS
    <3>2. CASE job[r].comment \in withPost
      BY <3>1, <3>2
    <3>. QED
      BY <3>1, <3>2
  <2>2. new = [job[r] EXCEPT !.owner = found]
    BY Zenon
  <2>. HIDE DEF found, new
  <2>3. /\ new \in Job /\ new.comment = job[r].comment /\ new.pos = job[r].pos
        /\ new.owner = found
    BY <1>2, <2>1, <2>2 DEF Job
  <2>. QED
    BY <2>1, <2>3, Zenon
<1>. HIDE DEF new
<1>4. /\ CallType' /\ pc'[r] = "insert" /\ job'[r] = new
      /\ \A x \in Caller \ {r} : pc'[x] = pc[x] /\ job'[x] = job[x]
  BY <1>1, <1>3, Callers DEF IInv, CallType
<1>5. DataType' /\ UNCHANGED <<withPost, table, acked>>
  BY DEF GetPost, IInv, DataType, configVars, dbVars, topicVars, outcome
<1>6. RequestsInv'
  <2>1. \A s \in Request : RequestInv(s)'
    BY <1>1, <1>3, <1>4, <1>5, Callers DEF IInv, RequestsInv, RequestInv, Publishing
  <2>2. OnePublisher'
    BY <1>4, Callers DEF IInv, RequestsInv, OnePublisher, Publishing
  <2>. QED
    BY <1>5, <2>1, <2>2 DEF IInv, RequestsInv
<1>. QED
  BY <1>4, <1>5, <1>6, Callers, RequestStep DEF GetPost, topicVars, outcome

LEMMA InsertInv == ASSUME IInv, NEW r \in Request, Insert(r) PROVE IInv'
<1>1. /\ pc[r] = "insert" /\ job[r].comment \in Comment
      /\ job[r].owner = TRUE \/ job[r].comment \notin withPost
      /\ UNCHANGED <<withPost, acked, announced, log, dlq, lost, kafka, budget>>
  BY DEF Insert, InsertIf, IInv, RequestsInv, RequestInv, outcome, topicVars, configVars
<1>2. CASE job[r].comment \in withPost \ table /\ table' = table \cup {job[r].comment}
           /\ Goto(r, "publish")
  <2>1. /\ CallType' /\ pc'[r] = "publish" /\ UNCHANGED <<at, job>>
        /\ \A x \in Caller \ {r} : pc'[x] = pc[x]
    BY <1>2, GotoCalls, Callers DEF IInv
  <2>2. DataType'
    BY <1>1, <1>2 DEF IInv, DataType
  <2>3. job[r].comment \notin acked
        /\ \A s \in Request : pc[s] \in Publishing => job[s].comment # job[r].comment
    BY <1>2 DEF IInv, RequestsInv, RequestInv
  <2>4. RequestsInv'
    <3>1. \A s \in Request : RequestInv(s)'
      BY <1>1, <1>2, <2>1, <2>3, Callers DEF IInv, RequestsInv, RequestInv, Publishing
    <3>2. OnePublisher'
      BY <2>1, <2>3, Callers DEF IInv, RequestsInv, OnePublisher
    <3>. QED
      BY <1>1, <1>2, <3>1, <3>2 DEF IInv, RequestsInv
  <2>. QED
    BY <1>1, <2>1, <2>2, <2>4, Callers, RequestStep DEF Insert, InsertIf
<1>3. CASE UNCHANGED table /\ End({r})
  <2>1. /\ CallType' /\ pc'[r] = "idle" /\ job'[r].pos = 0
        /\ \A x \in Caller \ {r} : pc'[x] = pc[x] /\ job'[x] = job[x]
        /\ \A s \in Request \ {r} : at'[s] = at[s]
    BY <1>3, EndCalls, Callers DEF IInv
  <2>2. DataType'
    BY <1>1, <1>3 DEF IInv, DataType
  <2>3. RequestsInv'
    BY <1>1, <1>3, <2>1, Callers, RequestsKept DEF IInv
  <2>. QED
    BY <1>1, <2>1, <2>2, <2>3, Callers, RequestStep DEF Insert, InsertIf
<1>. QED
  BY <1>2, <1>3 DEF Insert, InsertIf

\* A call that was inserting or publishing ends; it is acknowledged or not.
LEMMA CallAnswered ==
    ASSUME IInv, NEW r \in Request, pc[r] \in Publishing, End({r}),
           UNCHANGED <<withPost, table>>,
           acked' = acked \/ acked' = acked \cup {job[r].comment}
    PROVE  /\ CallType' /\ RequestsInv'
           /\ \A i \in Instance : pc'[i] = pc[i] /\ job'[i] = job[i]
<1>1. /\ CallType' /\ pc'[r] = "idle" /\ job'[r].pos = 0
      /\ \A x \in Caller \ {r} : pc'[x] = pc[x] /\ job'[x] = job[x]
      /\ \A s \in Request \ {r} : at'[s] = at[s]
  BY EndCalls, Callers DEF IInv
<1>2. CASE acked' = acked
  BY <1>1, <1>2, Callers, RequestsKept DEF IInv
<1>3. CASE acked' = acked \cup {job[r].comment}
  <2>1. \A s \in Request \ {r} : pc[s] \in Publishing => job[s].comment # job[r].comment
    BY DEF IInv, RequestsInv, OnePublisher
  <2>2. \A s \in Request : RequestInv(s)'
    BY <1>1, <1>3, <2>1, Callers DEF IInv, RequestsInv, RequestInv, Publishing
  <2>3. OnePublisher'
    BY <1>1, Callers DEF IInv, RequestsInv, OnePublisher, Publishing
  <2>4. \A c \in acked' : c \notin withPost' \ table'
    BY <1>3 DEF IInv, RequestsInv, RequestInv
  <2>5. RequestsInv'
    BY <2>2, <2>3, <2>4 DEF RequestsInv
  <2>. QED
    BY <1>1, <2>5, Callers
<1>. QED
  BY <1>1, <1>2, <1>3, Callers

LEMMA PublishDirectlyInv == ASSUME IInv, NEW r \in Request, PublishDirectly(r) PROVE IInv'
<1>1. /\ pc[r] \in Publishing /\ job[r].comment \in Comment /\ job[r].owner = TRUE /\ End({r})
      /\ UNCHANGED <<kafka, withPost, table, log, dlq, lost, groupVars, phase, producerVars>>
  BY DEF PublishDirectly, Publishing, IInv, RequestsInv, RequestInv, configVars, dbVars, topicVars
<1>2. /\ Payload(job[r]) \in Event /\ Payload(job[r]).owner = TRUE
  BY <1>1, EventFacts, Callers DEF IInv
<1>3. /\ announced' = announced \/ announced' = announced \cup {Payload(job[r])}
      /\ acked' = acked \/ acked' = acked \cup {job[r].comment}
  BY DEF PublishDirectly, Announce, Ack, outcome
<1>4. budget' \in 0 .. MaxFaults
  BY Spent DEF PublishDirectly, IInv, DataType
<1>5. DataType'
  BY <1>1, <1>2, <1>3, <1>4 DEF IInv, DataType
<1>6. /\ CallType' /\ RequestsInv'
      /\ \A i \in Instance : pc'[i] = pc[i] /\ job'[i] = job[i]
  BY <1>1, <1>3, CallAnswered
<1>7. announced \subseteq announced' /\ \A e \in announced' : e \in announced \/ e.owner = TRUE
  BY <1>2, <1>3
<1>. QED
  BY <1>1, <1>5, <1>6, <1>7, RequestStep

LEMMA SendInv == ASSUME IInv, NEW r \in Request, Send(r) PROVE IInv'
<1>1. /\ pc[r] \in Publishing /\ job[r].comment \in Comment /\ job[r].owner = TRUE /\ End({r})
      /\ job[r].comment \notin acked
      /\ UNCHANGED <<kafka, withPost, table, dlq, lost, groupVars, phase, producerVars, announced>>
  BY DEF Send, Publishing, IInv, RequestsInv, RequestInv, configVars, dbVars
<1>2. /\ Payload(job[r]) \in Event /\ Payload(job[r]).owner = TRUE
  BY <1>1, EventFacts, Callers DEF IInv
<1>3. /\ log' = log \/ log' = Append(log, Payload(job[r]))
      /\ acked' = acked \/ acked' = acked \cup {job[r].comment}
      /\ (\E fault : Happens(fault)) \/ budget' = budget
  <2>1. acked' = acked \cup {job[r].comment} => acked' # acked
    BY <1>1
  <2>. QED
    BY <2>1 DEF Send, Ack
<1>4. budget' \in 0 .. MaxFaults
  BY <1>3, Spent DEF IInv, DataType
<1>5. DataType'
  BY <1>1, <1>2, <1>3, <1>4 DEF IInv, DataType
<1>6. /\ CallType' /\ RequestsInv'
      /\ \A i \in Instance : pc'[i] = pc[i] /\ job'[i] = job[i]
  BY <1>1, <1>3, CallAnswered
<1>7. log' = log \/ \E e \in Event : e.owner = TRUE /\ log' = Append(log, e)
  BY <1>2, <1>3
<1>. QED
  BY <1>1, <1>5, <1>6, <1>7, RequestStep

-----------------------------------------------------------------------------
(* The producer. *)

\* Whoever publishes is a request on an instance, or the handler of one.
LEMMA CallerAt ==
    ASSUME IInv, NEW x \in Caller, pc[x] # "idle"
    PROVE  At(x) \in Instance /\ (x \in Instance => At(x) = x)
BY Callers DEF IInv, RequestsInv, RequestInv, Caller

\* Calls only move between the insert and their answer.
LEMMA ProducerStep ==
    ASSUME IInv, CallType', UNCHANGED <<at, job>>,
           \A x \in Caller : pc'[x] = pc[x] \/ (pc[x] \in Publishing /\ pc'[x] \in Publishing),
           UNCHANGED <<configVars, dbVars, topicVars, groupVars, phase, outcome, budget>>,
           ProducerInv'
    PROVE  IInv'
<1>1. /\ UNCHANGED <<kafka, withPost, table, log, dlq, lost, acked, announced>>
      /\ UNCHANGED <<offset, assigned, member, next>>
  BY DEF configVars, dbVars, topicVars, outcome, groupVars
<1>2. DataType' /\ GroupType' /\ EventsNameOwner'
  BY <1>1 DEF IInv, DataType, GroupType, EventsNameOwner
<1>3. RequestsInv'
  BY <1>1, Callers, RequestsKept DEF IInv
<1>4. GroupInv'
  <2>1. \A i \in Instance : pc'[i] = pc[i] \/ (pc[i] # "idle" /\ pc'[i] \in Publishing)
    BY Callers DEF Publishing
  <2>. QED
    BY <1>1, <2>1, GroupKept, HandlersAreMembers DEF IInv
<1>. QED
  BY <1>2, <1>3, <1>4 DEF IInv

LEMMA EnsureConnectedInv == ASSUME IInv, NEW x \in Caller, EnsureConnected(x) PROVE IInv'
<1>. DEFINE i == At(x)
<1>1. /\ pc[x] = "publish" /\ i \in Instance /\ (x \in Instance => i = x)
      /\ connected' = [connected EXCEPT ![i] = TRUE] /\ online' = online
      /\ UNCHANGED phase
  BY CallerAt DEF EnsureConnected
<1>2. PICK step \in {"connecting", "send"} :
         /\ Goto(x, step)
         /\ step = "connecting" => dialing' = dialing \cup {i} \/ (dialing' = dialing /\ i \in dialing)
         /\ step = "send" => dialing' = dialing /\ connected[i] = TRUE /\ i \notin dialing
  <2>1. connected[i] \in BOOLEAN
    BY <1>1 DEF IInv, ProducerInv
  <2>. QED
    BY <2>1 DEF EnsureConnected
<1>3. /\ CallType' /\ pc'[x] = step /\ UNCHANGED <<at, job>>
      /\ \A y \in Caller \ {x} : pc'[y] = pc[y]
  BY <1>2, GotoCalls DEF IInv
<1>4. ProducerInv'
  <2>1. x \in Instance => phase[x] # "drained"
    BY <1>1, HandlersAreMembers DEF IInv, GroupType
  <2>2. /\ connected' \in [Instance -> BOOLEAN] /\ dialing' \subseteq Instance
        /\ online' \subseteq Instance
        /\ i \in dialing' \cup online' \/ phase[i] = "drained"
    BY <1>1, <1>2 DEF IInv, ProducerInv
  <2>3. /\ connected'[i] = TRUE /\ \A j \in Instance \ {i} : connected'[j] = connected[j]
        /\ \A j \in Instance \ {i} : j \in dialing' <=> j \in dialing
    BY <1>1, <1>2 DEF IInv, ProducerInv
  <2>4. x \in Instance /\ step = "send" => x \in online
    BY <1>1, <1>2, <2>1 DEF IInv, ProducerInv
  <2>. QED
    BY <1>1, <1>3, <2>2, <2>3, <2>4, Callers DEF IInv, ProducerInv
<1>5. \A y \in Caller : pc'[y] = pc[y] \/ (pc[y] \in Publishing /\ pc'[y] \in Publishing)
  BY <1>1, <1>3 DEF Publishing
<1>. QED
  BY <1>3, <1>4, <1>5, ProducerStep DEF EnsureConnected

LEMMA DialedInv == ASSUME IInv, NEW i \in Instance, Dialed(i) PROVE IInv'
<1>1. /\ i \in dialing /\ dialing' = dialing \ {i} /\ online' = online \cup {i}
      /\ pc' = [x \in Caller |-> IF x \in Awaiting(i) THEN "send" ELSE pc[x]]
      /\ UNCHANGED <<connected, phase, at, job>>
  BY DEF Dialed
<1>2. /\ CallType'
      /\ \A x \in Caller : pc'[x] = pc[x] \/ (pc[x] \in Publishing /\ pc'[x] \in Publishing)
      /\ \A j \in Instance \ {i} : pc'[j] = pc[j]
  BY <1>1, Callers DEF IInv, CallType, Awaiting, Publishing
<1>3. ProducerInv'
  BY <1>1, <1>2 DEF IInv, ProducerInv
<1>. QED
  BY <1>1, <1>2, <1>3, ProducerStep DEF Dialed

\* connect() rejects: whoever awaits it fails, a message handler with its
\* message settled as lost.
LEMMA DialFailsInv == ASSUME IInv, NEW i \in Instance, DialFails(i) PROVE IInv'
<1>. DEFINE who == Awaiting(i)
            handlers == who \cap Instance
<1>1. /\ i \in dialing /\ dialing' = dialing \ {i} /\ connected' = [connected EXCEPT ![i] = FALSE]
      /\ UNCHANGED <<kafka, withPost, table, log, dlq, phase, online, acked, announced>>
      /\ UNCHANGED <<offset, assigned, member>>
      /\ lost' = lost \cup {job[j].comment : j \in handlers}
      /\ next' = [j \in Instance |-> IF j \in handlers THEN job[j].pos ELSE next[j]]
      /\ End(who)
  BY DEF DialFails, GiveUp, configVars, dbVars, outcome
<1>2. /\ CallType'
      /\ \A x \in Caller :
            /\ x \in who => pc'[x] = "idle" /\ job'[x].pos = 0
            /\ x \notin who => pc'[x] = pc[x] /\ job'[x] = job[x]
      /\ \A r \in Request : r \notin who => at'[r] = at[r]
  BY <1>1, EndCalls DEF IInv
<1>3. \A j \in handlers :
         /\ j = i /\ pc[j] = "connecting" /\ job[j].comment \in Comment
         /\ job[j].pos \in Nat
  <2>1. SUFFICES ASSUME NEW j \in handlers
                 PROVE  /\ j = i /\ pc[j] = "connecting" /\ job[j].comment \in Comment
                        /\ job[j].pos \in Nat
    OBVIOUS
  <2>2. j = i /\ pc[j] = "connecting" /\ j \in Instance
    BY Callers DEF Awaiting
  <2>3. job[j].pos \in 1 .. Len(log) /\ job[j].comment = log[job[j].pos].comment
    BY <2>2 DEF IInv, GroupInv, HandlerInv
  <2>4. log[job[j].pos] \in Event
    BY <2>3 DEF IInv, DataType
  <2>. QED
    BY <2>2, <2>3, <2>4 DEF Event
<1>4. budget' \in 0 .. MaxFaults
  BY Spent DEF DialFails, IInv, DataType
<1>5. DataType' /\ EventsNameOwner'
  <2>1. lost' \subseteq Comment
    BY <1>1, <1>3 DEF IInv, DataType
  <2>. QED
    BY <1>1, <1>4, <2>1 DEF IInv, DataType, EventsNameOwner
<1>6. RequestsInv'
  BY <1>1, <1>2, Callers, RequestsKept DEF IInv
<1>7. GroupInv' /\ offset' \in 0 .. Len(log') /\ next' \in [Instance -> 0 .. Len(log')]
  <2>1. next' \in [Instance -> Nat]
    BY <1>1, <1>3, HandlersAreMembers
  <2>2. \A j \in Instance :
           \/ next'[j] \in {next[j], offset}
           \/ /\ pc[j] # "idle" /\ next'[j] = job[j].pos
              /\ \E c : c = job[j].comment /\ Settled(c)'
    <3>1. SUFFICES ASSUME NEW j \in handlers
                   PROVE  \E c : c = job[j].comment /\ Settled(c)'
      BY <1>1, <1>3
    <3>2. job[j].comment \in lost'
      BY <1>1
    <3>. QED
      BY <3>2 DEF Settled
  <2>3. \A j \in Instance :
           \/ pc'[j] = "idle" /\ job'[j].pos = 0
           \/ pc'[j] = pc[j] /\ job'[j] = job[j] /\ (pc[j] # "idle" => j \in member')
    BY <1>1, <1>2, Callers, HandlersAreMembers
  <2>4. lost \subseteq lost'
    BY <1>1
  <2>. QED
    BY <1>1, <2>1, <2>2, <2>3, <2>4, GroupKept DEF IInv
<1>8. GroupType'
  BY <1>1, <1>7 DEF IInv, GroupType
<1>9. ProducerInv'
  BY <1>1, <1>2, Callers DEF IInv, ProducerInv
<1>. QED
  BY <1>2, <1>5, <1>6, <1>7, <1>8, <1>9 DEF IInv

-----------------------------------------------------------------------------
(* Message handlers. *)

LEMMA TakeInv == ASSUME IInv, NEW i \in Instance, Take(i) PROVE IInv'
<1>. DEFINE n == next[i] + 1
            e == log[n]
            new == [comment |-> e.comment, owner |-> e.owner, pos |-> n]
<1>1. /\ assigned = i /\ pc[i] = "idle" /\ next[i] < Len(log)
      /\ job' = [job EXCEPT ![i] = new] /\ pc' = [pc EXCEPT ![i] = "handle"] /\ at' = at
      /\ UNCHANGED <<kafka, withPost, table, log, dlq, lost, acked, announced, budget>>
      /\ UNCHANGED <<offset, assigned, member, phase, connected, dialing, online, next>>
  BY DEF Take, TakeNext, configVars, dbVars, topicVars, producerVars, outcome
<1>2. n \in 1 .. Len(log) /\ e \in Event /\ e.owner = TRUE
  <2>1. n \in 1 .. Len(log)
    BY <1>1 DEF IInv, GroupType, DataType
  <2>2. e \in Event
    BY <2>1 DEF IInv, DataType
  <2>3. e.owner
    BY <2>1 DEF IInv, EventsNameOwner
  <2>4. e.owner = TRUE
    BY <2>2, <2>3 DEF Event
  <2>. QED
    BY <2>1, <2>2, <2>4
<1>3. new \in Job /\ new.comment = e.comment /\ new.owner = TRUE /\ new.pos = n
  BY <1>2 DEF Job, Event
<1>. HIDE DEF new
<1>4. /\ CallType' /\ pc'[i] = "handle" /\ job'[i] = new
      /\ \A x \in Caller \ {i} : pc'[x] = pc[x] /\ job'[x] = job[x]
  BY <1>1, <1>3, Callers DEF IInv, CallType
<1>5. DataType' /\ EventsNameOwner' /\ GroupType'
  BY <1>1 DEF IInv, DataType, EventsNameOwner, GroupType
<1>6. RequestsInv'
  BY <1>1, <1>4, Callers, RequestsKept DEF IInv
<1>7. ProducerInv'
  BY <1>1, <1>4, Callers DEF IInv, ProducerInv
<1>8. GroupInv'
  <2>1. \A k : SettledTo(k)' <=> SettledTo(k)
    BY <1>1 DEF SettledTo, Settled, Announced
  <2>2. n - 1 = next[i] /\ SettledTo(next[i]) /\ i \in member
    BY <1>1, NullAssumption DEF IInv, GroupInv, GroupType
  <2>3. HandlerInv(i)'
    BY <1>1, <1>2, <1>3, <1>4, <2>1, <2>2 DEF HandlerInv
  <2>4. \A j \in Instance \ {i} : HandlerInv(j)'
    BY <1>1, <1>4, <2>1, Callers DEF IInv, GroupInv, HandlerInv
  <2>5. (\A j \in Instance : SettledTo(next[j])') /\ SettledTo(offset)'
    BY <1>1 DEF IInv, GroupInv, SettledTo, Settled, Announced
  <2>. QED
    BY <2>3, <2>4, <2>5 DEF GroupInv
<1>. QED
  BY <1>4, <1>5, <1>6, <1>7, <1>8 DEF IInv

\* A handler ends when the comment of its message is settled.
LEMMA ResolveInv ==
    ASSUME IInv, NEW i \in Instance, pc[i] # "idle", Resolve(i),
           UNCHANGED <<kafka, withPost, table, log, phase, producerVars, acked>>,
           budget' \in 0 .. MaxFaults,
           announced' \in {announced, announced \cup {Payload(job[i])}},
           dlq' \in {dlq, dlq \cup {job[i].comment}},
           lost' \in {lost, lost \cup {job[i].comment}},
           \E c : c = job[i].comment /\ Settled(c)'
    PROVE  IInv'
<1>1. /\ job[i].pos \in Nat /\ job[i].comment \in Comment /\ job[i].owner = TRUE
  <2>1. job[i].pos \in 1 .. Len(log) /\ job[i].comment = log[job[i].pos].comment /\ job[i].owner = TRUE
    BY DEF IInv, GroupInv, HandlerInv
  <2>2. log[job[i].pos] \in Event
    BY <2>1 DEF IInv, DataType
  <2>. QED
    BY <2>1, <2>2 DEF Event
<1>2. /\ CallType' /\ pc'[i] = "idle" /\ job'[i].pos = 0
      /\ \A x \in Caller \ {i} : pc'[x] = pc[x] /\ job'[x] = job[x]
      /\ \A r \in Request : at'[r] = at[r]
  BY EndCalls, Callers DEF IInv, Resolve
<1>3. /\ UNCHANGED <<offset, assigned, member, connected, dialing, online>>
      /\ next' = [next EXCEPT ![i] = job[i].pos]
  BY DEF Resolve, producerVars
<1>4. /\ Payload(job[i]) \in Event /\ Payload(job[i]).owner = TRUE
  BY <1>1, EventFacts, Callers DEF IInv
<1>5. DataType'
  BY <1>1, <1>4 DEF IInv, DataType
<1>6. EventsNameOwner'
  BY <1>4, EventsKept DEF IInv
<1>7. RequestsInv'
  BY <1>2, Callers, RequestsKept DEF IInv
<1>8. GroupInv' /\ offset' \in 0 .. Len(log') /\ next' \in [Instance -> 0 .. Len(log')]
  <2>1. next' \in [Instance -> Nat]
    BY <1>1, <1>3, HandlersAreMembers
  <2>2. \A j \in Instance :
           \/ next'[j] \in {next[j], offset}
           \/ /\ pc[j] # "idle" /\ next'[j] = job[j].pos
              /\ \E c : c = job[j].comment /\ Settled(c)'
    BY <1>3, HandlersAreMembers
  <2>3. \A j \in Instance :
           \/ pc'[j] = "idle" /\ job'[j].pos = 0
           \/ pc'[j] = pc[j] /\ job'[j] = job[j] /\ (pc[j] # "idle" => j \in member')
    BY <1>2, <1>3, Callers, HandlersAreMembers
  <2>4. announced \subseteq announced' /\ dlq \subseteq dlq' /\ lost \subseteq lost'
    OBVIOUS
  <2>. QED
    BY <1>3, <2>1, <2>2, <2>3, <2>4, GroupKept DEF IInv
<1>9. GroupType'
  BY <1>3, <1>8 DEF IInv, GroupType
<1>10. ProducerInv'
  BY <1>2, <1>3, Callers DEF IInv, ProducerInv
<1>. QED
  BY <1>2, <1>5, <1>6, <1>7, <1>8, <1>9, <1>10 DEF IInv

LEMMA HandleInv == ASSUME IInv, NEW i \in Instance, Handle(i) PROVE IInv'
<1>0. /\ pc[i] = "handle"
      /\ UNCHANGED <<kafka, withPost, table, log, dlq, lost, phase, producerVars, acked>>
  BY DEF Handle, configVars, dbVars, topicVars
<1>1. job[i].comment \in Comment /\ job[i].owner = TRUE
  <2>1. job[i].pos \in 1 .. Len(log) /\ job[i].comment = log[job[i].pos].comment /\ job[i].owner = TRUE
    BY <1>0 DEF IInv, GroupInv, HandlerInv
  <2>2. log[job[i].pos] \in Event
    BY <2>1 DEF IInv, DataType
  <2>. QED
    BY <2>1, <2>2 DEF Event
<1>2. /\ Payload(job[i]) \in Event /\ Payload(job[i]).owner = TRUE
      /\ Payload(job[i]).comment = job[i].comment
  BY <1>1, EventFacts, Callers DEF IInv
<1>3. CASE Announce(i) /\ Resolve(i) /\ UNCHANGED budget
  <2>1. announced' = announced \cup {Payload(job[i])}
    BY <1>3 DEF Announce
  <2>2. \E c : c = job[i].comment /\ Settled(c)'
    BY <1>2, <2>1 DEF Settled, Announced
  <2>3. budget' \in 0 .. MaxFaults
    BY <1>3 DEF IInv, DataType
  <2>. QED
    BY <1>0, <1>3, <2>1, <2>2, <2>3, ResolveInv
<1>4. CASE /\ Happens("redis") /\ Goto(i, "publish") /\ UNCHANGED groupVars
           /\ Announce(i) \/ UNCHANGED announced
  <2>1. announced' \in {announced, announced \cup {Payload(job[i])}}
    BY <1>4 DEF Announce
  <2>2. budget' \in 0 .. MaxFaults
    BY <1>4, Spent DEF IInv, DataType
  <2>3. /\ CallType' /\ pc'[i] = "publish" /\ UNCHANGED <<at, job>>
        /\ \A x \in Caller \ {i} : pc'[x] = pc[x]
    BY <1>4, GotoCalls, Callers DEF IInv
  <2>4. UNCHANGED <<offset, assigned, member, next, connected, dialing, online>>
    BY <1>0, <1>4 DEF groupVars, producerVars
  <2>5. DataType'
    BY <1>0, <1>2, <2>1, <2>2 DEF IInv, DataType
  <2>6. EventsNameOwner'
    BY <1>0, <1>2, <2>1, EventsKept DEF IInv
  <2>7. RequestsInv'
    BY <1>0, <2>3, Callers, RequestsKept DEF IInv
  <2>8. GroupInv'
    <3>1. \A j \in Instance :
             /\ job'[j] = job[j] /\ (pc[j] # "idle" => j \in member')
             /\ pc'[j] = pc[j] \/ (pc[j] # "idle" /\ pc'[j] \in Publishing)
      BY <1>0, <2>3, <2>4, Callers, HandlersAreMembers DEF Publishing
    <3>2. announced \subseteq announced'
      BY <2>1
    <3>. QED
      BY <1>0, <2>4, <3>1, <3>2, GroupKept, HandlersAreMembers DEF IInv
  <2>9. GroupType' /\ ProducerInv'
    BY <1>0, <2>3, <2>4, Callers DEF IInv, GroupType, ProducerInv
  <2>. QED
    BY <2>3, <2>5, <2>6, <2>7, <2>8, <2>9 DEF IInv
<1>. QED
  BY <1>3, <1>4 DEF Handle

LEMMA SendToDeadLetterQueueInv ==
    ASSUME IInv, NEW i \in Instance, SendToDeadLetterQueue(i) PROVE IInv'
<1>1. /\ pc[i] = "send" /\ Resolve(i)
      /\ UNCHANGED <<kafka, withPost, table, log, phase, producerVars, acked, announced>>
      /\ \/ dlq' = dlq \cup {job[i].comment} /\ UNCHANGED <<lost, budget>>
         \/ Happens("broker") /\ lost' = lost \cup {job[i].comment} /\ UNCHANGED dlq
  BY DEF SendToDeadLetterQueue, configVars, dbVars, outcome
<1>2. \E c : c = job[i].comment /\ Settled(c)'
  BY <1>1 DEF Settled
<1>3. budget' \in 0 .. MaxFaults
  BY <1>1, Spent DEF IInv, DataType
<1>. QED
  BY <1>1, <1>2, <1>3, ResolveInv

-----------------------------------------------------------------------------
(* Theorems. *)

LEMMA InitInv == Init => IInv
<1>. SUFFICES ASSUME Init PROVE IInv
  OBVIOUS
<1>1. NoJob \in Job /\ NoJob.pos = 0
  BY DEF NoJob, Job
<1>2. DataType /\ EventsNameOwner
  BY FaultsAssumption DEF Init, DataType, EventsNameOwner
<1>3. CallType
  BY <1>1 DEF Init, CallType
<1>4. GroupType
  BY DEF Init, GroupType
<1>5. ProducerInv
  BY Callers DEF Init, ProducerInv
<1>6. \A x \in Caller : pc[x] = "idle" /\ job[x].pos = 0
  BY <1>1 DEF Init
<1>7. RequestsInv
  BY <1>6, Callers DEF Init, RequestsInv, RequestInv, OnePublisher, Publishing
<1>8. GroupInv
  BY <1>6, Callers DEF Init, GroupInv, HandlerInv, SettledTo
<1>. QED
  BY <1>2, <1>3, <1>4, <1>5, <1>7, <1>8 DEF IInv

LEMMA StepInv == IInv /\ [Next]_vars => IInv'
<1>1. ASSUME IInv, NEW r \in Request, Arrive(r) \/ Serve(r) PROVE IInv'
  BY <1>1, ArriveInv, GetPostInv, InsertInv, PublishDirectlyInv, EnsureConnectedInv, SendInv,
     Callers
  DEF Serve
<1>2. ASSUME IInv, NEW i \in Instance, Run(i) \/ DialFails(i) \/ Crash(i) \/ Stop(i)
      PROVE  IInv'
  BY <1>2, DialedInv, AssignInv, TakeInv, HandleInv, EnsureConnectedInv,
     SendToDeadLetterQueueInv, CommitInv, StopConsumerInv, DisconnectProducerInv, ExitInv,
     StartInv, DialFailsInv, CrashInv, StopInv, Callers
  DEF Run
<1>3. ASSUME IInv, UNCHANGED vars PROVE IInv'
  BY <1>3
  DEF vars, configVars, dbVars, topicVars, groupVars, producerVars, callVars, outcome, IInv,
      DataType, CallType, GroupType, ProducerInv, RequestsInv, RequestInv, OnePublisher,
      GroupInv, HandlerInv, SettledTo, Settled, Announced, EventsNameOwner
<1>. QED
  BY <1>1, <1>2, <1>3, RebalanceInv, DeletePostInv DEF Next

\* Who publishes, who holds which message, and what has been settled, through
\* crashes, rebalances, redeployments and failing services.
THEOREM Invariance == Spec => []IInv
BY InitInv, StepInv, PTL DEF Spec

\* Calls, handlers, the group and the producers are well formed; whoever sends
\* to the dead-letter topic has a producer that is connected.
THEOREM TypeCorrect == Spec => []TypeOK
<1>1. ASSUME IInv PROVE TypeOK
  <2>1. /\ DataType /\ CallType /\ GroupType /\ ProducerInv
        /\ \A r \in Request : job[r].pos = 0
        /\ \A i \in Instance : job[i].pos \in 0 .. Len(log)
    BY <1>1 DEF IInv, RequestsInv, RequestInv, GroupInv, HandlerInv, DataType
  <2>2. \A x \in Caller : job[x] \in [comment : Comment \cup {NoComment},
                                      owner : BOOLEAN, pos : 0 .. Len(log)]
    BY <2>1 DEF CallType, Job, Caller, DataType
  <2>3. dialing \subseteq {i \in Instance : connected[i]}
    BY <2>1 DEF ProducerInv
  <2>. QED
    BY <2>1, <2>2, <2>3 DEF TypeOK, DataType, CallType, GroupType, ProducerInv
<1>. QED
  BY <1>1, Invariance, PTL

\* Every event that is published or queued names the owner of its post.
THEOREM OwnersNamed == Spec => []EventsNameOwner
<1>1. IInv => EventsNameOwner
  BY DEF IInv
<1>. QED
  BY <1>1, Invariance, PTL

\* No committed offset passes a message that is not settled, whichever
\* instances held the partition and wherever they died.
THEOREM NothingSkipped == Spec => []HandledBeforeCommitted
<1>1. IInv => HandledBeforeCommitted
  BY DEF IInv, GroupInv, SettledTo, HandledBeforeCommitted
<1>. QED
  BY <1>1, Invariance, PTL

\* A comment that was acknowledged once is not acknowledged again: its row, or
\* the lack of its post, keeps every other call out.
THEOREM NoDuplicate == Spec => DuplicateRejected
<1>1. IInv /\ [Next]_vars =>
        [\A r \in Request :
           pc[r] \in {"publish", "send"} /\ job[r].comment \in acked => pc'[r] # "idle"]_vars
  BY DEF IInv, RequestsInv, RequestInv, Publishing
<1>. QED
  BY <1>1, Invariance, PTL DEF Spec, DuplicateRejected

=============================================================================
