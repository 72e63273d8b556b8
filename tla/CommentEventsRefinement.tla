---------------------- MODULE CommentEventsRefinement ----------------------
(***************************************************************************)
(* CommentEvents keeps the promise of CommentNotices.  Connections,        *)
(* positions and the life of processes do not show; what shows is who      *)
(* speaks for a comment, what is on the topic, and what became of it.      *)
(***************************************************************************)
EXTENDS CommentEventsProofs

Topic == OnTopic(Len(log))

LEMMA SpeakersAre == Speaking = {job[r].comment : r \in {s \in Request : pc[s] \in Publishing}}
BY DEF Speaking, Speakers, Publishing

\* Calls go on.
LEMMA SpeakingKept ==
    ASSUME \A r \in Request :
              /\ pc'[r] \in Publishing <=> pc[r] \in Publishing
              /\ pc[r] \in Publishing => job'[r].comment = job[r].comment
    PROVE  Speaking' = Speaking
BY SpeakersAre DEF Speaking, Speakers, Publishing

\* Calls end.
LEMMA SpeakingFewer ==
    ASSUME \A r \in Request :
              pc'[r] \in Publishing =>
                 pc[r] \in Publishing /\ job'[r].comment = job[r].comment
    PROVE  Speaking' \in SUBSET Speaking
BY DEF Speaking, Speakers, Publishing

\* The calls in who end: if any of them spoke, it speaks no longer.
LEMMA Ended ==
    ASSUME IInv, NEW who, End(who)
    PROVE  Speaking' \in SUBSET Speaking
<1>1. \A r \in Request :
         pc'[r] \in Publishing => pc[r] \in Publishing /\ job'[r].comment = job[r].comment
  BY EndCalls, Callers DEF IInv, Publishing
<1>. QED
  BY <1>1, SpeakingFewer

LEMMA OneLeaves ==
    ASSUME IInv, NEW r \in Request, pc[r] \in Publishing, End({r})
    PROVE  Speaking' = Speaking \ {job[r].comment} /\ job[r].comment \in Speaking
<1>1. /\ pc'[r] = "idle"
      /\ \A s \in Request \ {r} : pc'[s] = pc[s] /\ job'[s] = job[s]
  BY EndCalls, Callers DEF IInv
<1>2. \A s \in Request \ {r} : pc[s] \in Publishing => job[s].comment # job[r].comment
  BY DEF IInv, RequestsInv, OnePublisher
<1>3. Speaking = {job[s].comment : s \in {t \in Request : pc[t] \in Publishing}}
  BY SpeakersAre
<1>4. Speaking' = {job'[s].comment : s \in {t \in Request : pc'[t] \in Publishing}}
  BY DEF Speaking, Speakers, Publishing
<1>5. "idle" \notin Publishing
  BY DEF Publishing
<1>. QED
  BY <1>1, <1>2, <1>3, <1>4, <1>5

\* A message that is handled is on the topic.
LEMMA HandledOnTopic ==
    ASSUME IInv, NEW i \in Instance, pc[i] # "idle"
    PROVE  job[i].comment \in Topic
BY DEF IInv, GroupInv, HandlerInv, Topic, OnTopic

LEMMA TopicGrows ==
    ASSUME IInv, NEW e \in Event, log' = Append(log, e), offset' = offset
    PROVE  Topic' = Topic \cup {e.comment} /\ OnTopic(offset)' = OnTopic(offset)
<1>1. /\ log \in Seq(Event) /\ Len(log) \in Nat /\ offset \in 0 .. Len(log)
  BY DEF IInv, DataType, GroupType
<1>2. /\ Len(log') = Len(log) + 1 /\ log'[Len(log) + 1] = e
      /\ \A k \in 1 .. Len(log) : log'[k] = log[k]
  BY <1>1
<1>. DEFINE n == Len(log)
<1>3. 1 .. n + 1 = (1 .. n) \cup {n + 1} /\ 1 .. offset \subseteq 1 .. n
  BY <1>1
<1>4. Topic' = {log'[k].comment : k \in 1 .. n + 1} /\ Topic = {log[k].comment : k \in 1 .. n}
  BY <1>2 DEF Topic, OnTopic
<1>5. /\ OnTopic(offset)' = {log'[k].comment : k \in 1 .. offset}
      /\ OnTopic(offset) = {log[k].comment : k \in 1 .. offset}
  BY DEF OnTopic
<1>. HIDE DEF n
<1>6. Topic' = Topic \cup {e.comment}
  BY <1>2, <1>3, <1>4 DEF n
<1>7. OnTopic(offset)' = OnTopic(offset)
  BY <1>2, <1>3, <1>5 DEF n
<1>. QED
  BY <1>6, <1>7

LEMMA ToldGrows ==
    ASSUME NEW e, e.owner = TRUE, announced' = announced \cup {e}
    PROVE  Told' = Told \cup {e.comment}
BY DEF Told

\* What is settled has been dealt with: the announcement named the owner.
LEMMA SettledDealt ==
    ASSUME IInv, NEW n \in 0 .. Len(log), SettledTo(n)
    PROVE  OnTopic(n) \in SUBSET (Topic \cap (Told \cup dlq \cup lost))
<1>1. Len(log) \in Nat
  BY DEF IInv, DataType
<1>2. 1 .. n \subseteq 1 .. Len(log)
  BY <1>1
<1>3. OnTopic(n) \subseteq Topic
  BY <1>2 DEF OnTopic, Topic
<1>4. \A c : Settled(c) => c \in Told \cup dlq \cup lost
  BY DEF IInv, EventsNameOwner, Settled, Announced, Told
<1>5. OnTopic(n) \subseteq Told \cup dlq \cup lost
  BY <1>4 DEF SettledTo, OnTopic
<1>. QED
  BY <1>3, <1>5

-----------------------------------------------------------------------------
(* Steps that do not show. *)

LEMMA Unseen ==
    ASSUME UNCHANGED <<dbVars, topicVars, offset, outcome>>, UNCHANGED Speaking
    PROVE  UNCHANGED Notices!vars
<1>1. UNCHANGED <<withPost, table, log, dlq, lost, acked, announced, offset>>
  BY DEF dbVars, topicVars, outcome
<1>2. UNCHANGED <<OnTopic(Len(log)), OnTopic(offset), Told>>
  BY <1>1 DEF OnTopic, Told
<1>. QED
  BY <1>1, <1>2 DEF Notices!vars, Notices!rows, Notices!dealt

LEMMA GroupUnseen ==
    ASSUME IInv, NEW i \in Instance,
           Assign(i) \/ Stop(i) \/ DisconnectProducer(i) \/ Start(i)
    PROVE  UNCHANGED Notices!vars
<1>1. UNCHANGED <<dbVars, topicVars, offset, outcome, callVars>>
  BY DEF Assign, Stop, DisconnectProducer, Start, groupVars
<1>2. UNCHANGED Speaking
  BY <1>1, SpeakingKept DEF callVars
<1>. QED
  BY <1>1, <1>2, Unseen

\* Requests on their way to the insert, and handlers.
LEMMA ArriveUnseen ==
    ASSUME IInv, NEW r \in Request, Arrive(r)
    PROVE  UNCHANGED Notices!vars
<1>1. /\ pc[r] = "idle" /\ pc' = [pc EXCEPT ![r] = "getPost"]
      /\ \E j : job' = [job EXCEPT ![r] = j]
      /\ UNCHANGED <<dbVars, topicVars, offset, outcome>>
  BY DEF Arrive, groupVars
<1>2. UNCHANGED Speaking
  BY <1>1, Callers, SpeakingKept DEF IInv, CallType, Publishing
<1>. QED
  BY <1>1, <1>2, Unseen

LEMMA GetPostUnseen ==
    ASSUME IInv, NEW r \in Request, GetPost(r)
    PROVE  UNCHANGED Notices!vars
<1>1. /\ pc[r] = "getPost" /\ pc' = [pc EXCEPT ![r] = "insert"]
      /\ \E j : job' = [job EXCEPT ![r] = j]
      /\ UNCHANGED <<dbVars, topicVars, offset, outcome>>
  BY DEF GetPost, groupVars
<1>2. UNCHANGED Speaking
  BY <1>1, Callers, SpeakingKept DEF IInv, CallType, Publishing
<1>. QED
  BY <1>1, <1>2, Unseen

LEMMA TakeUnseen ==
    ASSUME IInv, NEW i \in Instance, Take(i)
    PROVE  UNCHANGED Notices!vars
<1>1. /\ pc' = [pc EXCEPT ![i] = "handle"]
      /\ \E j : job' = [job EXCEPT ![i] = j]
      /\ UNCHANGED <<dbVars, topicVars, offset, outcome>>
  BY DEF Take, TakeNext
<1>2. UNCHANGED Speaking
  BY <1>1, Callers, SpeakingKept DEF IInv, CallType
<1>. QED
  BY <1>1, <1>2, Unseen

LEMMA EnsureConnectedUnseen ==
    ASSUME IInv, NEW x \in Caller, EnsureConnected(x)
    PROVE  UNCHANGED Notices!vars
<1>1. /\ pc[x] = "publish" /\ job' = job
      /\ pc' \in {[pc EXCEPT ![x] = "connecting"], [pc EXCEPT ![x] = "send"]}
      /\ UNCHANGED <<dbVars, topicVars, offset, outcome>>
  BY DEF EnsureConnected, Goto, groupVars
<1>2. UNCHANGED Speaking
  BY <1>1, Callers, SpeakingKept DEF IInv, CallType, Publishing
<1>. QED
  BY <1>1, <1>2, Unseen

LEMMA DialedUnseen ==
    ASSUME IInv, NEW i \in Instance, Dialed(i)
    PROVE  UNCHANGED Notices!vars
<1>1. /\ job' = job
      /\ pc' = [x \in Caller |-> IF x \in Awaiting(i) THEN "send" ELSE pc[x]]
      /\ UNCHANGED <<dbVars, topicVars, offset, outcome>>
  BY DEF Dialed, groupVars
<1>2. UNCHANGED Speaking
  BY <1>1, Callers, SpeakingKept DEF Awaiting, Publishing
<1>. QED
  BY <1>1, <1>2, Unseen

-----------------------------------------------------------------------------
(* Steps that do. *)

\* Calls end for want of a broker, of Redis, or of their process.
LEMMA GivesUp ==
    ASSUME IInv, UNCHANGED <<dbVars, log, dlq, offset, outcome>>,
           Speaking' \in SUBSET Speaking,
           lost \subseteq lost', lost' \subseteq lost \cup Topic
    PROVE  Notices!Next
<1>1. UNCHANGED <<withPost, table, acked, announced>>
  BY DEF dbVars, outcome
<1>2. UNCHANGED <<OnTopic(Len(log)), OnTopic(offset), Told>>
  BY <1>1 DEF OnTopic, Told
<1>3. Notices!GiveUp
  BY <1>1, <1>2 DEF Notices!GiveUp, Notices!rows, Topic
<1>. QED
  BY <1>3 DEF Notices!Next

LEMMA InsertRefines ==
    ASSUME IInv, NEW r \in Request, Insert(r)
    PROVE  Notices!Next \/ UNCHANGED Notices!vars
<1>. DEFINE c == job[r].comment
<1>1. /\ pc[r] = "insert" /\ c \in Comment
      /\ UNCHANGED <<withPost, log, dlq, lost, acked, announced, offset>>
  BY DEF Insert, InsertIf, IInv, RequestsInv, RequestInv, topicVars, groupVars, outcome
<1>2. UNCHANGED <<OnTopic(Len(log)), OnTopic(offset), Told>>
  BY <1>1 DEF OnTopic, Told
<1>3. CASE /\ c \in withPost \ table /\ table' = table \cup {c}
           /\ Goto(r, "publish")
  <2>1. pc'[r] = "publish" /\ job' = job /\ \A s \in Request \ {r} : pc'[s] = pc[s]
    BY <1>3, GotoCalls, Callers DEF IInv
  <2>2. Speaking = {job[s].comment : s \in {t \in Request : pc[t] \in Publishing}}
    BY SpeakersAre
  <2>3. Speaking' = {job'[s].comment : s \in {t \in Request : pc'[t] \in Publishing}}
    BY DEF Speaking, Speakers, Publishing
  <2>4. "publish" \in Publishing /\ "insert" \notin Publishing
    BY DEF Publishing
  <2>5. Speaking' = Speaking \cup {c}
    BY <1>1, <2>1, <2>2, <2>3, <2>4
  <2>6. Notices!Create(c)
    BY <1>1, <1>2, <1>3, <2>5 DEF Notices!Create, Notices!dealt
  <2>. QED
    BY <1>1, <2>6 DEF Notices!Next
<1>4. CASE End({r}) /\ UNCHANGED table
  <2>1. \A s \in Request :
           /\ pc'[s] \in Publishing <=> pc[s] \in Publishing
           /\ pc[s] \in Publishing => job'[s].comment = job[s].comment
    BY <1>1, <1>4, EndCalls, Callers DEF IInv, Publishing
  <2>2. UNCHANGED Speaking
    BY <2>1, SpeakingKept
  <2>. QED
    BY <1>1, <1>4, <2>2, Unseen DEF dbVars, topicVars, outcome
<1>. QED
  BY <1>3, <1>4 DEF Insert, InsertIf

LEMMA PublishDirectlyRefines ==
    ASSUME IInv, NEW r \in Request, PublishDirectly(r)
    PROVE  Notices!Next
<1>. DEFINE c == job[r].comment
<1>1. /\ pc[r] \in Publishing /\ c \in Comment /\ job[r].owner = TRUE /\ End({r})
      /\ UNCHANGED <<dbVars, withPost, table, log, dlq, lost, offset>>
  BY DEF PublishDirectly, Publishing, IInv, RequestsInv, RequestInv, dbVars, topicVars, groupVars
<1>2. /\ Payload(job[r]).owner = TRUE /\ Payload(job[r]).comment = c
  BY <1>1, EventFacts, Callers DEF IInv
<1>3. CASE Announce(r) /\ acked' \in {acked, acked \cup {c}}
  <2>1. Told' = Told \cup {c}
    BY <1>2, <1>3, ToldGrows DEF Announce
  <2>2. UNCHANGED <<OnTopic(Len(log)), OnTopic(offset)>>
    BY <1>1 DEF OnTopic
  <2>3. Speaking' = Speaking \ {c} /\ c \in Speaking
    BY <1>1, OneLeaves
  <2>4. Notices!Publish(c)
    BY <1>1, <1>3, <2>1, <2>2, <2>3 DEF Notices!Publish, Notices!rows
  <2>. QED
    BY <1>1, <2>4 DEF Notices!Next
<1>4. CASE UNCHANGED outcome
  BY <1>1, <1>4, Ended, GivesUp
<1>. QED
  BY <1>3, <1>4 DEF PublishDirectly, Ack

LEMMA SendRefines == ASSUME IInv, NEW r \in Request, Send(r) PROVE Notices!Next
<1>. DEFINE c == job[r].comment
<1>1. /\ pc[r] \in Publishing /\ c \in Comment /\ End({r})
      /\ UNCHANGED <<dbVars, withPost, table, dlq, lost, announced, offset>>
  BY DEF Send, Publishing, IInv, RequestsInv, RequestInv, dbVars, groupVars
<1>2. Payload(job[r]) \in Event /\ Payload(job[r]).comment = c
  BY <1>1, EventFacts, Callers DEF IInv
<1>3. CASE log' = Append(log, Payload(job[r])) /\ acked' \in {acked, acked \cup {c}}
  <2>1. Topic' = Topic \cup {c} /\ OnTopic(offset)' = OnTopic(offset)
    BY <1>1, <1>2, <1>3, TopicGrows
  <2>2. UNCHANGED Told
    BY <1>1 DEF Told
  <2>3. Speaking' = Speaking \ {c} /\ c \in Speaking
    BY <1>1, OneLeaves
  <2>4. Notices!Publish(c)
    BY <1>1, <1>3, <2>1, <2>2, <2>3 DEF Notices!Publish, Notices!rows, Topic
  <2>. QED
    BY <1>1, <2>4 DEF Notices!Next
<1>4. CASE UNCHANGED <<log, acked>>
  BY <1>1, <1>4, Ended, GivesUp DEF outcome
<1>. QED
  BY <1>3, <1>4 DEF Send, Ack

LEMMA DialFailsRefines == ASSUME IInv, NEW i \in Instance, DialFails(i) PROVE Notices!Next
<1>1. /\ End(Awaiting(i)) /\ UNCHANGED <<dbVars, log, dlq, offset, outcome>>
      /\ lost' = lost \cup {job[j].comment : j \in Awaiting(i) \cap Instance}
  BY DEF DialFails, GiveUp
<1>2. \A j \in Awaiting(i) \cap Instance : job[j].comment \in Topic
  BY HandledOnTopic DEF Awaiting
<1>. QED
  BY <1>1, <1>2, Ended, GivesUp

LEMMA HandleRefines ==
    ASSUME IInv, NEW i \in Instance, Handle(i)
    PROVE  Notices!Next \/ UNCHANGED Notices!vars
<1>. DEFINE c == job[i].comment
<1>1. /\ pc[i] = "handle" /\ c \in Topic
      /\ UNCHANGED <<dbVars, topicVars, withPost, table, log, dlq, lost, acked, offset>>
      /\ Announce(i) \/ UNCHANGED announced
      /\ Goto(i, "publish") \/ End({i})
  BY HandledOnTopic DEF Handle, Resolve, dbVars, topicVars, groupVars
<1>2. c \in Comment /\ job[i].owner = TRUE
  <2>1. /\ job[i].pos \in 1 .. Len(log) /\ c = log[job[i].pos].comment
        /\ job[i].owner = TRUE /\ log \in Seq(Event)
    BY <1>1 DEF IInv, GroupInv, HandlerInv, DataType
  <2>2. log[job[i].pos] \in Event
    BY <2>1
  <2>. QED
    BY <2>1, <2>2 DEF Event
<1>3. Payload(job[i]).owner = TRUE /\ Payload(job[i]).comment = c
  BY <1>2, EventFacts, Callers DEF IInv
<1>4. UNCHANGED Speaking
  <2>1. \A r \in Request : pc'[r] = pc[r] /\ job'[r] = job[r]
    <3>1. CASE Goto(i, "publish")
      BY <3>1, GotoCalls, Callers DEF IInv
    <3>2. CASE End({i})
      BY <3>2, EndCalls, Callers DEF IInv
    <3>. QED
      BY <1>1, <3>1, <3>2
  <2>. QED
    BY <2>1, SpeakingKept
<1>5. CASE Announce(i)
  <2>1. Told' = Told \cup {c}
    BY <1>3, <1>5, ToldGrows DEF Announce
  <2>2. UNCHANGED <<OnTopic(Len(log)), OnTopic(offset)>>
    BY <1>1 DEF OnTopic
  <2>3. Notices!Tell(c)
    BY <1>1, <1>4, <2>1, <2>2 DEF Notices!Tell, Notices!rows, Topic
  <2>. QED
    BY <1>2, <2>3 DEF Notices!Next
<1>6. CASE UNCHANGED announced
  BY <1>1, <1>4, <1>6, Unseen DEF outcome
<1>. QED
  BY <1>1, <1>5, <1>6

LEMMA SendToDeadLetterQueueRefines ==
    ASSUME IInv, NEW i \in Instance, SendToDeadLetterQueue(i)
    PROVE  Notices!Next
<1>. DEFINE c == job[i].comment
<1>1. /\ pc[i] = "send" /\ End({i}) /\ c \in Topic
      /\ UNCHANGED <<dbVars, outcome, withPost, table, log, acked, announced, offset>>
      /\ \/ dlq' = dlq \cup {c} /\ UNCHANGED lost
         \/ lost' = lost \cup {c} /\ UNCHANGED dlq
  BY HandledOnTopic DEF SendToDeadLetterQueue, Resolve, dbVars, outcome
<1>2. CASE dlq' = dlq \cup {c} /\ UNCHANGED lost
  <2>1. \A r \in Request : pc'[r] = pc[r] /\ job'[r] = job[r]
    BY <1>1, EndCalls, Callers DEF IInv
  <2>2. UNCHANGED Speaking
    BY <2>1, SpeakingKept
  <2>3. UNCHANGED <<OnTopic(Len(log)), OnTopic(offset), Told>>
    BY <1>1 DEF OnTopic, Told
  <2>4. c \in Comment
    <3>1. job[i].pos \in 1 .. Len(log) /\ c = log[job[i].pos].comment /\ log \in Seq(Event)
      BY <1>1 DEF IInv, GroupInv, HandlerInv, DataType
    <3>2. log[job[i].pos] \in Event
      BY <3>1
    <3>. QED
      BY <3>1, <3>2 DEF Event
  <2>5. Notices!Keep(c)
    BY <1>1, <1>2, <2>2, <2>3 DEF Notices!Keep, Notices!rows, Topic
  <2>. QED
    BY <2>4, <2>5 DEF Notices!Next
<1>3. CASE lost' = lost \cup {c} /\ UNCHANGED dlq
  BY <1>1, <1>3, Ended, GivesUp
<1>. QED
  BY <1>1, <1>2, <1>3

\* The committed offset moves to where an instance stands, if at all.
LEMMA CommitRefines ==
    ASSUME IInv, NEW i \in Instance, Commit(i) \/ StopConsumer(i)
    PROVE  Notices!Next
<1>1. /\ UNCHANGED <<dbVars, topicVars, callVars, outcome>>
      /\ offset' = next[i] \/ offset' = offset
  BY DEF Commit, StopConsumer
<1>2. UNCHANGED <<withPost, table, log, dlq, lost, acked, announced, pc, job>>
  BY <1>1 DEF dbVars, topicVars, callVars, outcome
<1>3. offset' \in 0 .. Len(log) /\ SettledTo(offset')
  BY <1>1 DEF IInv, GroupType, GroupInv
<1>4. OnTopic(offset') \in SUBSET (Topic \cap (Told \cup dlq \cup lost))
  BY <1>3, SettledDealt
<1>5. OnTopic(offset)' = OnTopic(offset')
  BY <1>2 DEF OnTopic
<1>6. UNCHANGED <<OnTopic(Len(log)), Told, Speaking>>
  BY <1>2, SpeakingKept DEF OnTopic, Told
<1>7. Notices!Commit
  BY <1>2, <1>4, <1>5, <1>6 DEF Notices!Commit, Notices!rows, Notices!dealt, Topic
<1>. QED
  BY <1>7 DEF Notices!Next

LEMMA DownRefines ==
    ASSUME IInv, NEW i \in Instance, Crash(i) \/ Exit(i)
    PROVE  Notices!Next
<1>1. /\ UNCHANGED <<dbVars, topicVars, log, dlq, lost, offset, outcome>>
      /\ \E who : End(who)
  BY DEF Crash, Exit, topicVars, groupVars
<1>. QED
  BY <1>1, Ended, GivesUp

LEMMA DeletePostRefines == ASSUME IInv, NEW c \in Comment, DeletePost(c) PROVE Notices!Next
<1>1. /\ c \in withPost /\ withPost' = withPost \ {c} /\ table' = table \ {c}
      /\ UNCHANGED <<log, dlq, lost, offset, acked, announced, pc, job>>
  BY DEF DeletePost, topicVars, groupVars, callVars, outcome
<1>2. UNCHANGED <<OnTopic(Len(log)), OnTopic(offset), Told, Speaking>>
  BY <1>1, SpeakingKept DEF OnTopic, Told
<1>3. Notices!DeletePost(c)
  BY <1>1, <1>2 DEF Notices!DeletePost, Notices!dealt
<1>. QED
  BY <1>3 DEF Notices!Next

-----------------------------------------------------------------------------
LEMMA InitRefines == Init => Notices!Init
<1>. SUFFICES ASSUME Init PROVE Notices!Init
  OBVIOUS
<1>1. /\ withPost = Comment /\ table = {} /\ log = <<>> /\ dlq = {} /\ lost = {}
      /\ offset = 0 /\ acked = {} /\ announced = {}
      /\ \A r \in Request : pc[r] = "idle"
  BY Callers DEF Init
<1>2. OnTopic(Len(log)) = {} /\ OnTopic(offset) = {} /\ Told = {}
  BY <1>1 DEF OnTopic, Told
<1>3. Speaking = {}
  BY <1>1 DEF Speaking, Speakers
<1>. QED
  BY <1>1, <1>2, <1>3 DEF Notices!Init

LEMMA StepRefines == IInv /\ [Next]_vars => [Notices!Next]_(Notices!vars)
<1>1. ASSUME IInv, NEW r \in Request, Arrive(r) \/ Serve(r)
      PROVE  [Notices!Next]_(Notices!vars)
  BY <1>1, ArriveUnseen, GetPostUnseen, InsertRefines, PublishDirectlyRefines,
     EnsureConnectedUnseen, SendRefines, Callers
  DEF Serve
<1>2. ASSUME IInv, NEW i \in Instance, Run(i) \/ DialFails(i) \/ Crash(i) \/ Stop(i)
      PROVE  [Notices!Next]_(Notices!vars)
  BY <1>2, DialedUnseen, GroupUnseen, TakeUnseen, HandleRefines, EnsureConnectedUnseen,
     SendToDeadLetterQueueRefines, CommitRefines, DownRefines, DialFailsRefines, Callers
  DEF Run
<1>3. ASSUME IInv, Rebalance PROVE [Notices!Next]_(Notices!vars)
  <2>1. UNCHANGED <<dbVars, topicVars, offset, outcome, callVars>>
    BY <1>3 DEF Rebalance
  <2>2. UNCHANGED Speaking
    BY <2>1, SpeakingKept DEF callVars
  <2>. QED
    BY <2>1, <2>2, Unseen
<1>4. ASSUME IInv, NEW c \in Comment, DeletePost(c) PROVE [Notices!Next]_(Notices!vars)
  BY <1>4, DeletePostRefines
<1>5. ASSUME UNCHANGED vars PROVE UNCHANGED Notices!vars
  <2>1. UNCHANGED <<dbVars, topicVars, offset, outcome, callVars>>
    BY <1>5 DEF vars, groupVars
  <2>2. UNCHANGED Speaking
    BY <2>1, SpeakingKept DEF callVars
  <2>. QED
    BY <2>1, <2>2, Unseen
<1>. QED
  BY <1>1, <1>2, <1>3, <1>4, <1>5 DEF Next

\* Whatever crashes, is rebalanced or fails to connect: a createComment that
\* succeeds has published the one comment it inserted, and the consumer group
\* passes a comment when its post's owner has been told or it is kept
\* (NoticesSpec).
THEOREM Refinement == Spec => NoticesSpec
<1>. SUFFICES Spec => Notices!Spec
  BY DEF NoticesSpec
<1>. QED
  BY InitRefines, StepRefines, Invariance, PTL DEF Spec, Notices!Spec

=============================================================================
