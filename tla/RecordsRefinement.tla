------------------------- MODULE RecordsRefinement -------------------------
(***************************************************************************)
(* The statements of Records, with awaits in between, keep the promise of  *)
(* AtomicRecords.  A call acts when its write runs.  What it has checked   *)
(* by then still holds: a user is who she is, the owner of a post stays    *)
(* its owner, and an id whose row has gone is not given to another one.    *)
(***************************************************************************)
EXTENDS RecordsProofs

\* What is seen of a row is something exactly if the row is there.
LEMMA RowsSeen ==
    ASSUME TablesType
    PROVE  /\ \A id \in UserId :
                 /\ NameTable[id] = NoRow <=> users[id] = NoRow
                 /\ users[id] # NoRow =>
                       NameTable[id] = users[id].name /\ users[id].name \in Name
           /\ \A id \in PostId :
                 /\ PostTable[id] = NoRow <=> posts[id] = NoRow
                 /\ posts[id] # NoRow =>
                       /\ PostTable[id] = [owner |-> posts[id].owner, body |-> posts[id].body]
                       /\ PostTable[id].owner = posts[id].owner
                       /\ posts[id].owner \in UserId
<1>1. ASSUME NEW row \in UserRow \cup {NoRow}
      PROVE  /\ NameOf(row) = NoRow <=> row = NoRow
             /\ row # NoRow => NameOf(row) = row.name /\ row.name \in Name
  BY RowAssumption DEF UserRow, NameOf
<1>2. ASSUME NEW row \in PostRow \cup {NoRow}
      PROVE  /\ PostOf(row) = NoRow <=> row = NoRow
             /\ row # NoRow =>
                   /\ PostOf(row) = [owner |-> row.owner, body |-> row.body]
                   /\ PostOf(row).owner = row.owner /\ row.owner \in UserId
  BY RowAssumption DEF PostRow, PostOf
<1>3. /\ \A id \in UserId : users[id] \in UserRow \cup {NoRow} /\ NameTable[id] = NameOf(users[id])
      /\ \A id \in PostId : posts[id] \in PostRow \cup {NoRow} /\ PostTable[id] = PostOf(posts[id])
  BY DEF TablesType, NameTable, PostTable
<1>. QED
  BY <1>1, <1>2, <1>3

LEMMA CallSeen ==
    ASSUME NEW r \in Request
    PROVE  /\ CallTable[r] = CallOf(req[r]) /\ CallTable[r].stage = StageOf(req[r])
           /\ CallTable[r].op = req[r].op /\ CallTable[r].id = req[r].id
           /\ StageOf(req[r]) = "asked" =>
                 CallTable[r].name = req[r].name /\ CallTable[r].auth = req[r].auth
<1>1. CallTable[r] = CallOf(req[r])
  BY DEF CallTable
<1>. QED
  BY <1>1 DEF CallOf

LEMMA TraceSeen ==
    ASSUME NEW c, StageOf(c) # "asked"
    PROVE  CallOf(c) = Atomic!Trace(StageOf(c), c.op, c.id)
BY DEF CallOf, Atomic!Trace, NoId

-----------------------------------------------------------------------------
(* Steps of a call. *)

LEMMA TurnSeen ==
    ASSUME IInv, NEW r \in Request, NEW q, req' = [req EXCEPT ![r] = q]
    PROVE  Atomic!Turn(r, CallOf(q)) /\ CallTable'[r] = CallOf(q)
<1>1. req'[r] = q /\ \A s \in Request \ {r} : req'[s] = req[s]
  BY DEF IInv, RequestType
<1>2. /\ CallTable = [s \in Request |-> CallOf(req[s])]
      /\ CallTable' = [s \in Request |-> CallOf(req'[s])]
  BY DEF CallTable
<1>3. CallTable' = [CallTable EXCEPT ![r] = CallOf(q)]
  BY <1>1, <1>2
<1>. QED
  BY <1>1, <1>2, <1>3 DEF Atomic!Turn

LEMMA WrittenSeen ==
    ASSUME IInv, NEW r \in Request, NEW step \in {"ref", "reread"}, NEW id, Written(r, step, id)
    PROVE  Atomic!Acted(r, id)
<1>. DEFINE q == [Idle EXCEPT !.pc = step, !.op = req[r].op, !.id = id]
<1>1. Atomic!Turn(r, CallOf(q))
  BY TurnSeen DEF Written
<1>2. q.pc = step /\ q.op = req[r].op /\ q.id = id
  BY DEF Idle
<1>. HIDE DEF q
<1>3. StageOf(q) = "acted" /\ req[r].op = CallTable[r].op
  BY <1>2, CallSeen DEF StageOf
<1>4. CallOf(q) = Atomic!Trace("acted", CallTable[r].op, id)
  BY <1>2, <1>3, TraceSeen
<1>. QED
  BY <1>1, <1>4 DEF Atomic!Acted

LEMMA OverSeen ==
    ASSUME NEW c, NEW a
    PROVE  /\ a \in {"row", "true"} => CallOf(Over(c, a)) = Atomic!Trace("ok", c.op, c.id)
           /\ a = "false" => CallOf(Over(c, a)) = Atomic!Trace("no", "none", 0)
           /\ a \notin {"row", "true", "false"} =>
                 CallOf(Over(c, a)) = Atomic!Trace("failed", "none", 0)
<1>. DEFINE q == Over(c, a)
<1>1. /\ q.pc = "done" /\ q.answer = a
      /\ a \in {"row", "true"} => q.op = c.op /\ q.id = c.id
      /\ a \notin {"row", "true"} => q.op = "none" /\ q.id = 0
  BY DEF Over, Idle, NoId
<1>. HIDE DEF q
<1>2. /\ a \in {"row", "true"} => StageOf(q) = "ok"
      /\ a = "false" => StageOf(q) = "no"
      /\ a \notin {"row", "true", "false"} => StageOf(q) = "failed"
  BY <1>1 DEF StageOf
<1>3. CallOf(q) = Atomic!Trace(StageOf(q), q.op, q.id)
  BY <1>2, TraceSeen
<1>. QED
  BY <1>1, <1>2, <1>3 DEF q

LEMMA AnswerSeen ==
    ASSUME IInv, NEW r \in Request, NEW a, Answer(r, a)
    PROVE  /\ a \in {"row", "true"} => Atomic!Succeeds(r)
           /\ a = "false" => Atomic!Ends(r, "no")
           /\ a \notin {"row", "true", "false"} => Atomic!Ends(r, "failed")
<1>1. Atomic!Turn(r, CallOf(Over(req[r], a)))
  BY TurnSeen DEF Answer
<1>2. req[r].op = CallTable[r].op /\ req[r].id = CallTable[r].id
  BY CallSeen
<1>. QED
  BY <1>1, <1>2, OverSeen DEF Atomic!Succeeds, Atomic!Ends

LEMMA AskedSeen ==
    ASSUME NEW r \in Request, req[r].pc \in {"insert", "load", "write"}
    PROVE  /\ Atomic!Asked(r, req[r].op) /\ CallTable[r].stage = "asked"
           /\ CallTable[r].op = req[r].op /\ CallTable[r].id = req[r].id
           /\ CallTable[r].name = req[r].name /\ CallTable[r].auth = req[r].auth
<1>1. StageOf(req[r]) = "asked"
  BY DEF StageOf
<1>. QED
  BY <1>1, CallSeen DEF Atomic!Asked

\* An error, wherever it comes from.
LEMMA Fails ==
    ASSUME IInv, CountersType', NEW r \in Request, NEW a, a \notin {"row", "true", "false"},
           Answer(r, a), UNCHANGED tables, lastUser <= lastUser', lastPost <= lastPost',
           CallTable[r].stage \in {"none", "asked", "acted", "ok"}
    PROVE  Atomic!Next
<1>1. Atomic!Ends(r, "failed")
  BY AnswerSeen
<1>2. UNCHANGED <<NameTable, PostTable, comments>>
  BY DEF tables, NameTable, PostTable
<1>3. /\ 1 .. lastUser \subseteq 1 .. lastUser' /\ 1 .. lastUser' \subseteq UserId
      /\ 1 .. lastPost \subseteq 1 .. lastPost' /\ 1 .. lastPost' \subseteq PostId
  BY Numbers DEF CountersType, IInv
<1>4. Atomic!Fail(r)
  BY <1>1, <1>2, <1>3 DEF Atomic!Fail, Atomic!tables
<1>. QED
  BY <1>4 DEF Atomic!Next

-----------------------------------------------------------------------------
(* The statements, one by one. *)

LEMMA ArriveRefines == ASSUME IInv, NEW r \in Request, Arrive(r) PROVE Atomic!Next
<1>0. CallTable[r].stage = "none" /\ UNCHANGED <<tables, counters>>
  BY CallSeen DEF Arrive, At, StageOf
<1>1. PICK c \in Calls, auth \in 0 .. lastUser :
        IF Refusal(c, auth) # "none"
        THEN req' = [req EXCEPT ![r] = Over(c, Refusal(c, auth))]
        ELSE req' = [req EXCEPT ![r] =
                   [op |-> c.op, id |-> c.id, name |-> c.name, input |-> c.input,
                    auth |-> auth, answer |-> "none", pc |-> FirstStep(c.op)]]
  BY DEF Arrive
<1>2. UNCHANGED <<NameTable, PostTable, comments, lastUser, lastPost>>
  BY <1>0 DEF tables, counters, NameTable, PostTable
<1>3. CASE Refusal(c, auth) # "none"
  <2>1. Refusal(c, auth) \notin {"row", "true", "false"}
    BY RefusalCodes DEF SafeErrorCodes
  <2>2. Atomic!Ends(r, "failed")
    BY <1>1, <1>3, <2>1, TurnSeen, OverSeen DEF Atomic!Ends
  <2>3. 1 .. lastUser \subseteq UserId /\ 1 .. lastPost \subseteq PostId
    BY Numbers DEF IInv, CountersType
  <2>4. Atomic!Fail(r)
    BY <1>0, <1>2, <2>2, <2>3 DEF Atomic!Fail, Atomic!tables
  <2>. QED
    BY <2>4 DEF Atomic!Next
<1>4. CASE Refusal(c, auth) = "none"
  <2>. DEFINE q == [op |-> c.op, id |-> c.id, name |-> c.name, input |-> c.input,
                    auth |-> auth, answer |-> "none", pc |-> FirstStep(c.op)]
  <2>1. Atomic!Turn(r, CallOf(q)) /\ CallTable'[r] = CallOf(q)
    BY <1>1, <1>4, TurnSeen
  <2>2. /\ q.op = c.op /\ q.id = c.id /\ q.name = c.name /\ q.auth = auth
        /\ q.pc \in {"insert", "load", "write"}
    BY DEF FirstStep
  <2>. HIDE DEF q
  <2>3. StageOf(q) = "asked"
    BY <2>2 DEF StageOf
  <2>4. CallOf(q) = [stage |-> "asked", op |-> c.op, id |-> c.id, name |-> c.name, auth |-> auth]
    BY <2>2, <2>3 DEF CallOf
  <2>5. /\ c.op \in Op /\ c.id \in UserId \cup PostId \cup {0}
        /\ c.name \in Name \cup {NoName} /\ auth \in UserId \cup {0}
    BY Numbers, CallType DEF Id, NoId, IInv, CountersType
  <2>6. CallOf(q) \in Atomic!Calls
    BY <2>4, <2>5 DEF Atomic!Calls, Op
  <2>7. Atomic!Ask(r)
    BY <1>0, <1>2, <2>1, <2>6 DEF Atomic!Ask, Atomic!tables, Atomic!used
  <2>. QED
    BY <2>7 DEF Atomic!Next
<1>. QED
  BY <1>3, <1>4

\* A row with id n is new.
LEMMA NextId ==
    ASSUME NEW n \in Nat
    PROVE  1 .. n + 1 = (1 .. n) \cup {n + 1} /\ n + 1 \notin 1 .. n
OBVIOUS

LEMMA InsertUserRefines == ASSUME IInv, NEW r \in Request, InsertUser(r) PROVE Atomic!Next
<1>. DEFINE n == lastUser + 1
<1>1. /\ n \in UserId /\ lastUser \in Nat /\ lastPost \in Nat
      /\ lastUser' = n /\ UNCHANGED <<posts, comments, lastPost>> /\ TablesType
  BY RoomFor DEF InsertUser, Inserting, At, IInv, CountersType
<1>2. /\ Atomic!Asked(r, "createUser") /\ CallTable[r].stage = "asked"
      /\ CallTable[r].name = req[r].name /\ req[r].name \in Name
  BY AskedSeen DEF InsertUser, At, IInv, CallsInv, CallInv
<1>3. CASE UNCHANGED users /\ Answer(r, "GRAPHQL_VALIDATION_FAILED")
  <2>1. CountersType' /\ lastUser <= lastUser' /\ UNCHANGED tables
    BY <1>1, <1>3 DEF CountersType, UserId, tables, IInv
  <2>. QED
    BY <1>1, <1>2, <1>3, <2>1, Fails
<1>4. CASE /\ ~Taken(req[r].name, NoId) /\ Written(r, "ref", n)
           /\ users' = [users EXCEPT ![n] = [name |-> req[r].name, ref |-> 0]]
  <2>. DEFINE row == [name |-> req[r].name, ref |-> 0]
  <2>1. NameOf(row) = req[r].name
    <3>1. row # NoRow
      BY <1>2, Numbers, RowAssumption DEF UserRow
    <3>. QED
      BY <3>1 DEF NameOf
  <2>2. NameTable' = [NameTable EXCEPT ![n] = req[r].name]
    BY <1>1, <1>4, <2>1 DEF NameTable, TablesType
  <2>3. Atomic!Free(CallTable[r].name, 0)
    BY <1>1, <1>2, <1>4, RowsSeen, Numbers, RowAssumption DEF Atomic!Free, Taken
  <2>4. n \in UserId \ (1 .. lastUser) /\ (1 .. lastUser)' = (1 .. lastUser) \cup {n}
    BY <1>1, NextId
  <2>5. Atomic!Acted(r, n)
    BY <1>4, WrittenSeen
  <2>6. UNCHANGED <<PostTable, comments, lastPost>>
    BY <1>1 DEF PostTable
  <2>. HIDE DEF n
  <2>7. Atomic!CreateUser(r)
    BY <1>2, <2>2, <2>3, <2>4, <2>5, <2>6 DEF Atomic!CreateUser
  <2>. QED
    BY <2>7 DEF Atomic!Next
<1>. QED
  BY <1>3, <1>4 DEF InsertUser

LEMMA InsertPostRefines == ASSUME IInv, NEW r \in Request, InsertPost(r) PROVE Atomic!Next
<1>. DEFINE n == lastPost + 1
<1>1. /\ n \in PostId /\ lastUser \in Nat /\ lastPost \in Nat
      /\ lastPost' = n /\ UNCHANGED <<users, comments, lastUser>> /\ TablesType
  BY RoomFor DEF InsertPost, Inserting, At, IInv, CountersType
<1>2. /\ Atomic!Asked(r, "createPost") /\ CallTable[r].stage = "asked"
      /\ CallTable[r].auth = req[r].auth /\ req[r].auth \in UserId
  BY AskedSeen DEF InsertPost, At, IInv, CallsInv, CallInv
<1>3. CASE UNCHANGED posts /\ Answer(r, "ER_NO_REFERENCED_ROW")
  <2>1. CountersType' /\ lastPost <= lastPost' /\ UNCHANGED tables
    BY <1>1, <1>3 DEF CountersType, PostId, tables, IInv
  <2>. QED
    BY <1>1, <1>2, <1>3, <2>1, Fails
<1>4. CASE /\ users[req[r].auth] # NoRow /\ Written(r, "ref", n)
           /\ posts' = [posts EXCEPT ![n] =
                 [owner |-> req[r].auth, body |-> req[r].auth, ref |-> 0]]
  <2>. DEFINE row == [owner |-> req[r].auth, body |-> req[r].auth, ref |-> 0]
  <2>1. PostOf(row) = [owner |-> req[r].auth, body |-> req[r].auth]
    <3>1. row # NoRow
      BY <1>2, Numbers, RowAssumption DEF PostRow
    <3>. QED
      BY <3>1 DEF PostOf
  <2>2. PostTable' = [PostTable EXCEPT ![n] = [owner |-> req[r].auth, body |-> req[r].auth]]
    BY <1>1, <1>4, <2>1 DEF PostTable, TablesType
  <2>3. NameTable[req[r].auth] # NoRow
    BY <1>1, <1>2, <1>4, RowsSeen
  <2>4. n \in PostId \ (1 .. lastPost) /\ (1 .. lastPost)' = (1 .. lastPost) \cup {n}
    BY <1>1, NextId
  <2>5. Atomic!Acted(r, n)
    BY <1>4, WrittenSeen
  <2>6. UNCHANGED <<NameTable, comments, lastUser>>
    BY <1>1 DEF NameTable
  <2>. HIDE DEF n
  <2>7. Atomic!CreatePost(r)
    BY <1>2, <2>2, <2>3, <2>4, <2>5, <2>6 DEF Atomic!CreatePost
  <2>. QED
    BY <2>7 DEF Atomic!Next
<1>. QED
  BY <1>3, <1>4 DEF InsertPost

\* Nobody sees index_ref.
LEMMA SetRefRefines == ASSUME IInv, NEW r \in Request, SetRef(r) PROVE UNCHANGED Atomic!vars
<1>1. /\ UNCHANGED <<comments, lastUser, lastPost>> /\ req[r].pc = "ref"
      /\ Written(r, "reread", req[r].id) /\ TablesType
      /\ users' = users \/ users' = With(users, req[r].id, req[r].id)
      /\ posts' = posts \/ posts' = With(posts, req[r].id, req[r].id)
  BY DEF SetRef, counters, At, IInv
<1>2. ASSUME NEW row \in UserRow, NEW ref \in Ref
      PROVE  NameOf([row EXCEPT !.ref = ref]) = NameOf(row)
  <2>1. [row EXCEPT !.ref = ref] \in UserRow /\ [row EXCEPT !.ref = ref].name = row.name
    BY DEF UserRow
  <2>2. [row EXCEPT !.ref = ref] # NoRow /\ row # NoRow
    BY <2>1, RowAssumption
  <2>. QED
    BY <2>1, <2>2 DEF NameOf
<1>3. ASSUME NEW row \in PostRow, NEW ref \in Ref
      PROVE  PostOf([row EXCEPT !.ref = ref]) = PostOf(row)
  <2>. DEFINE new == [row EXCEPT !.ref = ref]
  <2>1. new \in PostRow /\ new.owner = row.owner /\ new.body = row.body
    BY DEF PostRow
  <2>2. new # NoRow /\ row # NoRow
    BY <2>1, RowAssumption
  <2>. HIDE DEF new
  <2>3. PostOf(new) = PostOf(row)
    BY <2>1, <2>2 DEF PostOf
  <2>. QED
    BY <2>3 DEF new
<1>4. req[r].id \in Ref
  BY Numbers DEF IInv, RequestType, ReqRecord, NoId
<1>5. \A id \in UserId : NameOf(users'[id]) = NameOf(users[id])
  BY <1>1, <1>2, <1>4 DEF TablesType, With
<1>6. \A id \in PostId : PostOf(posts'[id]) = PostOf(posts[id])
  BY <1>1, <1>3, <1>4 DEF TablesType, With
<1>7. UNCHANGED <<NameTable, PostTable>>
  BY <1>5, <1>6 DEF NameTable, PostTable
<1>8. UNCHANGED CallTable
  <2>1. Atomic!Acted(r, req[r].id)
    BY <1>1, WrittenSeen
  <2>2. StageOf(req[r]) = "acted"
    BY <1>1 DEF StageOf
  <2>3. CallTable[r] = Atomic!Trace("acted", CallTable[r].op, req[r].id)
    BY <2>2, CallSeen, TraceSeen
  <2>4. CallTable' = [CallTable EXCEPT ![r] = CallTable[r]]
    BY <2>1, <2>3 DEF Atomic!Acted, Atomic!Turn
  <2>. QED
    BY <2>4 DEF CallTable
<1>. QED
  BY <1>1, <1>7, <1>8 DEF Atomic!vars, Atomic!tables, Atomic!used

LEMMA RereadRefines == ASSUME IInv, NEW r \in Request, Reread(r) PROVE Atomic!Next
<1>1. /\ UNCHANGED <<tables, counters>> /\ CallTable[r].stage = "acted"
      /\ CallTable[r].op = req[r].op /\ CallTable[r].id = req[r].id
      /\ \/ req[r].op \in {"createUser", "updateUser"} /\ req[r].id \in UserId
         \/ req[r].op \in {"createPost", "updatePost"} /\ req[r].id \in PostId
      /\ TablesType
  BY CallSeen DEF Reread, At, StageOf, IInv, CallsInv, CallInv
<1>2. UNCHANGED <<NameTable, PostTable, comments, lastUser, lastPost>>
  BY <1>1 DEF tables, counters, NameTable, PostTable
<1>3. CASE Answer(r, "null")
  <2>1. CountersType' /\ lastUser <= lastUser' /\ lastPost <= lastPost'
    BY <1>1 DEF counters, IInv, CountersType
  <2>. QED
    BY <1>1, <1>3, <2>1, Fails
<1>4. CASE /\ Answer(r, "row")
           /\ (IF req[r].op \in {"createUser", "updateUser"}
               THEN users[req[r].id] ELSE posts[req[r].id]) # NoRow
  <2>1. IF req[r].op \in {"createUser", "updateUser"}
        THEN NameTable[req[r].id] # NoRow ELSE PostTable[req[r].id] # NoRow
    BY <1>1, <1>4, RowsSeen
  <2>2. Atomic!Succeeds(r)
    BY <1>4, AnswerSeen
  <2>3. Atomic!AnswerRow(r)
    BY <1>1, <1>2, <2>1, <2>2 DEF Atomic!AnswerRow, Atomic!tables, Atomic!used
  <2>. QED
    BY <2>3 DEF Atomic!Next
<1>. QED
  BY <1>3, <1>4 DEF Reread

LEMMA UpdateUserRefines == ASSUME IInv, NEW r \in Request, UpdateUser(r) PROVE Atomic!Next
<1>. DEFINE id == req[r].id name == req[r].name
<1>1. /\ id \in UserId /\ id = req[r].auth /\ TablesType
      /\ name \in Name \cup {NoName} /\ UNCHANGED <<posts, comments, counters>>
  BY AtWrite DEF UpdateUser, Checked, IInv
<1>2. /\ Atomic!Asked(r, "updateUser") /\ CallTable[r].stage = "asked"
      /\ CallTable[r].id = id /\ CallTable[r].auth = id /\ CallTable[r].name = name
  BY <1>1, AskedSeen DEF UpdateUser, At
<1>3. UNCHANGED <<PostTable, comments, lastUser, lastPost>>
  BY <1>1 DEF counters, PostTable
<1>4. NameTable[id] = NoRow <=> users[id] = NoRow
  BY <1>1, RowsSeen
<1>5. CASE UNCHANGED users /\ Answer(r, "GRAPHQL_VALIDATION_FAILED")
  <2>1. CountersType' /\ UNCHANGED tables /\ lastUser <= lastUser' /\ lastPost <= lastPost'
    BY <1>1, <1>5 DEF counters, IInv, CountersType, tables
  <2>. QED
    BY <1>2, <1>5, <2>1, Fails
<1>6. CASE /\ users[id] = NoRow \/ name = NoName
           /\ Written(r, "reread", id) /\ UNCHANGED users
  <2>1. UNCHANGED NameTable /\ Atomic!Acted(r, id)
    BY <1>6, WrittenSeen DEF NameTable
  <2>2. Atomic!UpdateUser(r)
    BY <1>2, <1>3, <1>4, <1>6, <2>1 DEF Atomic!UpdateUser, Atomic!used
  <2>. QED
    BY <2>2 DEF Atomic!Next
<1>7. CASE /\ users[id] # NoRow /\ name # NoName /\ ~Taken(name, id)
           /\ Written(r, "reread", id) /\ users' = [users EXCEPT ![id].name = name]
  <2>. DEFINE row == [users[id] EXCEPT !.name = name]
  <2>1. name \in Name /\ users[id] \in UserRow
    BY <1>1, <1>7 DEF TablesType
  <2>2. row \in UserRow /\ row.name = name
    BY <2>1 DEF UserRow
  <2>3. NameOf(row) = name
    BY <2>2, RowAssumption DEF NameOf
  <2>4. users' = [users EXCEPT ![id] = row]
    BY <1>7
  <2>. HIDE DEF row
  <2>5. NameTable' = [NameTable EXCEPT ![id] = name]
    BY <1>1, <2>3, <2>4 DEF NameTable, TablesType
  <2>6. Atomic!Free(name, id)
    BY <1>1, <1>7, <2>1, RowsSeen, RowAssumption DEF Atomic!Free, Taken
  <2>7. Atomic!Acted(r, id)
    BY <1>7, WrittenSeen
  <2>. HIDE DEF id, name
  <2>8. Atomic!UpdateUser(r)
    BY <1>2, <1>3, <2>5, <2>6, <2>7, <1>4, <1>7 DEF Atomic!UpdateUser, Atomic!used
  <2>. QED
    BY <2>8 DEF Atomic!Next
<1>. QED
  BY <1>5, <1>6, <1>7 DEF UpdateUser

\* A delete that finds nothing leaves the tables as they are: nothing refers
\* to a row that is not there.
LEMMA DeleteUserRefines == ASSUME IInv, NEW r \in Request, DeleteUser(r) PROVE Atomic!Next
<1>. DEFINE id == req[r].id
            orphans == {p \in PostId : posts[p] # NoRow /\ posts[p].owner = id}
<1>1. /\ id \in UserId /\ id = req[r].auth /\ TablesType /\ NoOrphans
      /\ UNCHANGED counters
  BY AtWrite DEF DeleteUser, Checked, IInv
<1>2. /\ Atomic!Asked(r, "deleteUser")
      /\ CallTable[r].id = id /\ CallTable[r].auth = id
  BY <1>1, AskedSeen DEF DeleteUser, At
<1>3. /\ Answer(r, IF users[id] = NoRow THEN "false" ELSE "true")
      /\ users' = [users EXCEPT ![id] = NoRow]
      /\ posts' = [p \in PostId |-> IF p \in orphans THEN NoRow ELSE posts[p]]
      /\ comments' = {c \in Without(orphans) : c[1] # id}
  BY DEF DeleteUser, Deleted
<1>4. /\ users \in [UserId -> UserRow \cup {NoRow}]
      /\ posts \in [PostId -> PostRow \cup {NoRow}]
      /\ comments \subseteq UserId \X PostId /\ UNCHANGED <<lastUser, lastPost>>
  BY <1>1 DEF TablesType, counters
<1>5. NameTable[id] = NoRow <=> users[id] = NoRow
  BY <1>1, RowsSeen
<1>6. CASE users[id] = NoRow
  <2>1. Atomic!Ends(r, "no")
    BY <1>3, <1>6, AnswerSeen
  <2>2. orphans = {}
    BY <1>1, <1>6 DEF NoOrphans
  <2>3. users' = users /\ posts' = posts
    BY <1>3, <1>4, <1>6, <2>2
  <2>4. comments' = comments
    BY <1>1, <1>3, <1>6, <2>2 DEF NoOrphans, Without
  <2>5. UNCHANGED <<NameTable, PostTable, comments>>
    BY <2>3, <2>4 DEF NameTable, PostTable
  <2>6. Atomic!DeleteUser(r)
    BY <1>2, <1>4, <1>5, <1>6, <2>1, <2>5 DEF Atomic!DeleteUser, Atomic!tables, Atomic!used
  <2>. QED
    BY <2>6 DEF Atomic!Next
<1>7. CASE users[id] # NoRow
  <2>. DEFINE hers(p) == PostTable[p] # NoRow /\ PostTable[p].owner = id
  <2>1. Atomic!Succeeds(r)
    BY <1>3, <1>7, AnswerSeen
  <2>2. \A p \in PostId : hers(p) <=> p \in orphans
    BY <1>1, RowsSeen
  <2>3. NameTable' = [NameTable EXCEPT ![id] = NoRow]
    BY <1>1, <1>3, <1>4 DEF NameTable, NameOf
  <2>4. PostTable' = [p \in PostId |-> IF hers(p) THEN NoRow ELSE PostTable[p]]
    <3>1. \A p \in PostId :
             posts'[p] = IF p \in orphans THEN NoRow ELSE posts[p]
      BY <1>3
    <3>2. \A p \in PostId :
             PostOf(posts'[p]) = IF p \in orphans THEN NoRow ELSE PostTable[p]
      BY <3>1 DEF PostOf, PostTable
    <3>3. PostTable' = [p \in PostId |-> PostOf(posts'[p])]
      BY DEF PostTable
    <3>. HIDE DEF hers, orphans
    <3>. QED
      BY <2>2, <3>2, <3>3
  <2>5. comments' = {c \in comments : c[1] # id /\ ~hers(c[2])}
    <3>1. \A c \in comments : c[2] \in PostId
      BY <1>4
    <3>. HIDE DEF hers, orphans
    <3>. QED
      BY <1>3, <2>2, <3>1 DEF Without
  <2>. HIDE DEF id
  <2>6. Atomic!DeleteUser(r)
    BY <1>2, <1>4, <1>5, <1>7, <2>1, <2>3, <2>4, <2>5 DEF Atomic!DeleteUser, Atomic!used
  <2>. QED
    BY <2>6 DEF Atomic!Next
<1>. QED
  BY <1>6, <1>7

LEMMA LoadPostRefines ==
    ASSUME IInv, NEW r \in Request, LoadPost(r)
    PROVE  Atomic!Next \/ UNCHANGED Atomic!vars
<1>1. /\ req[r].pc = "load" /\ UNCHANGED <<tables, counters>>
      /\ \/ Answer(r, "GRAPHQL_VALIDATION_FAILED")
         \/ Answer(r, "UNAUTHENTICATED")
         \/ req' = [req EXCEPT ![r].pc = "write"]
  BY DEF LoadPost, At
<1>2. CallTable[r].stage = "asked"
  BY <1>1, AskedSeen
<1>3. CASE Answer(r, "GRAPHQL_VALIDATION_FAILED") \/ Answer(r, "UNAUTHENTICATED")
  <2>1. CountersType' /\ lastUser <= lastUser' /\ lastPost <= lastPost'
    BY <1>1 DEF counters, IInv, CountersType
  <2>. QED
    BY <1>1, <1>2, <1>3, <2>1, Fails
<1>4. CASE req' = [req EXCEPT ![r].pc = "write"]
  <2>. DEFINE q == [req[r] EXCEPT !.pc = "write"]
  <2>1. req[r] \in ReqRecord /\ req' = [req EXCEPT ![r] = q]
    BY <1>4 DEF IInv, RequestType
  <2>2. /\ q.pc = "write" /\ q.op = req[r].op /\ q.id = req[r].id
        /\ q.name = req[r].name /\ q.auth = req[r].auth
    BY <2>1 DEF ReqRecord
  <2>3. CallTable'[r] = CallOf(q) /\ Atomic!Turn(r, CallOf(q))
    BY <2>1, TurnSeen
  <2>. HIDE DEF q
  <2>4. StageOf(q) = "asked" /\ StageOf(req[r]) = "asked"
    BY <1>1, <2>2 DEF StageOf
  <2>5. CallOf(q) = CallOf(req[r])
    BY <2>2, <2>4 DEF CallOf
  <2>6. UNCHANGED CallTable
    <3>1. CallTable' = [CallTable EXCEPT ![r] = CallTable[r]]
      BY <2>3, <2>5, CallSeen DEF Atomic!Turn
    <3>. QED
      BY <3>1 DEF CallTable
  <2>7. UNCHANGED <<NameTable, PostTable, comments, lastUser, lastPost>>
    BY <1>1 DEF tables, counters, NameTable, PostTable
  <2>. QED
    BY <2>6, <2>7 DEF Atomic!vars, Atomic!tables, Atomic!used
<1>. QED
  BY <1>1, <1>3, <1>4

LEMMA UpdatePostRefines == ASSUME IInv, NEW r \in Request, UpdatePost(r) PROVE Atomic!Next
<1>. DEFINE id == req[r].id auth == req[r].auth
<1>1. /\ id \in PostId /\ auth \in UserId /\ TablesType
      /\ posts[id] = NoRow \/ posts[id].owner = auth
      /\ UNCHANGED <<users, comments, counters>> /\ Written(r, "reread", id)
  BY AtWrite DEF UpdatePost, Checked, IInv
<1>2. /\ Atomic!Asked(r, "updatePost") /\ CallTable[r].id = id /\ CallTable[r].auth = auth
  BY AskedSeen DEF UpdatePost, At
<1>3. UNCHANGED <<NameTable, comments, lastUser, lastPost>> /\ Atomic!Acted(r, id)
  BY <1>1, WrittenSeen DEF counters, NameTable
<1>4. PostTable[id] = NoRow <=> posts[id] = NoRow
  BY <1>1, RowsSeen
<1>5. CASE posts[id] = NoRow
  <2>1. UNCHANGED PostTable
    BY <1>5 DEF UpdatePost, PostTable
  <2>2. Atomic!UpdatePost(r)
    BY <1>2, <1>3, <1>4, <1>5, <2>1 DEF Atomic!UpdatePost, Atomic!used
  <2>. QED
    BY <2>2 DEF Atomic!Next
<1>6. CASE posts[id] # NoRow
  <2>. DEFINE row == [posts[id] EXCEPT !.body = auth]
  <2>1. posts[id] \in PostRow /\ posts[id].owner = auth
    BY <1>1, <1>6 DEF TablesType
  <2>2. row \in PostRow /\ row.owner = auth /\ row.body = auth
    BY <1>1, <2>1 DEF PostRow
  <2>3. PostOf(row) = [owner |-> auth, body |-> auth]
    BY <2>2, RowAssumption DEF PostOf
  <2>4. posts' = [posts EXCEPT ![id] = row]
    BY <1>6 DEF UpdatePost
  <2>. HIDE DEF row
  <2>5. PostTable' = [PostTable EXCEPT ![id] = [owner |-> auth, body |-> auth]]
    BY <1>1, <2>3, <2>4 DEF PostTable, TablesType
  <2>6. PostTable[id] = [owner |-> auth, body |-> posts[id].body]
    BY <1>1, <1>6, <2>1, RowsSeen
  <2>7. [PostTable[id] EXCEPT !.body = auth] = [owner |-> auth, body |-> auth]
    BY <2>6
  <2>8. PostTable' = [PostTable EXCEPT ![id].body = auth]
    BY <2>5, <2>7
  <2>9. PostTable[id].owner = auth
    BY <2>6
  <2>. HIDE DEF id, auth
  <2>10. Atomic!UpdatePost(r)
    BY <1>2, <1>3, <1>4, <1>6, <2>8, <2>9 DEF Atomic!UpdatePost, Atomic!used
  <2>. QED
    BY <2>10 DEF Atomic!Next
<1>. QED
  BY <1>5, <1>6

LEMMA DeletePostRefines == ASSUME IInv, NEW r \in Request, DeletePost(r) PROVE Atomic!Next
<1>. DEFINE id == req[r].id
<1>1. /\ id \in PostId /\ TablesType /\ NoOrphans
      /\ posts[id] = NoRow \/ posts[id].owner = req[r].auth
      /\ UNCHANGED <<users, counters>>
  BY AtWrite DEF DeletePost, Checked, IInv
<1>2. /\ Atomic!Asked(r, "deletePost")
      /\ CallTable[r].id = id /\ CallTable[r].auth = req[r].auth
  BY AskedSeen DEF DeletePost, At
<1>3. /\ Answer(r, IF posts[id] = NoRow THEN "false" ELSE "true")
      /\ posts' = [posts EXCEPT ![id] = NoRow]
      /\ comments' = {c \in comments : c[2] # id}
  BY DEF DeletePost, Deleted, Without
<1>4. posts \in [PostId -> PostRow \cup {NoRow}] /\ UNCHANGED <<NameTable, lastUser, lastPost>>
  BY <1>1 DEF TablesType, counters, NameTable
<1>5. PostTable[id] = NoRow <=> posts[id] = NoRow
  BY <1>1, RowsSeen
<1>6. CASE posts[id] = NoRow
  <2>1. Atomic!Ends(r, "no")
    BY <1>3, <1>6, AnswerSeen
  <2>2. posts' = posts
    BY <1>3, <1>4, <1>6
  <2>3. comments' = comments
    BY <1>1, <1>3, <1>6 DEF NoOrphans
  <2>4. UNCHANGED <<PostTable, comments>>
    BY <2>2, <2>3 DEF PostTable
  <2>5. Atomic!DeletePost(r)
    BY <1>2, <1>4, <1>5, <1>6, <2>1, <2>4 DEF Atomic!DeletePost, Atomic!tables, Atomic!used
  <2>. QED
    BY <2>5 DEF Atomic!Next
<1>7. CASE posts[id] # NoRow
  <2>1. Atomic!Succeeds(r)
    BY <1>3, <1>7, AnswerSeen
  <2>2. PostTable' = [PostTable EXCEPT ![id] = NoRow]
    BY <1>1, <1>3, <1>4 DEF PostTable, PostOf
  <2>3. PostTable[id].owner = req[r].auth
    BY <1>1, <1>7, RowsSeen
  <2>. HIDE DEF id
  <2>4. Atomic!DeletePost(r)
    BY <1>2, <1>3, <1>4, <1>5, <1>7, <2>1, <2>2, <2>3 DEF Atomic!DeletePost, Atomic!used
  <2>. QED
    BY <2>4 DEF Atomic!Next
<1>. QED
  BY <1>6, <1>7

LEMMA InsertCommentRefines ==
    ASSUME IInv, NEW r \in Request, InsertComment(r)
    PROVE  Atomic!Next
<1>. DEFINE id == req[r].id auth == req[r].auth
<1>1. /\ id \in PostId /\ auth \in UserId /\ TablesType
      /\ UNCHANGED <<users, posts, counters>>
  BY AtWrite DEF InsertComment, Checked, IInv
<1>2. /\ Atomic!Asked(r, "createComment") /\ CallTable[r].stage = "asked"
      /\ CallTable[r].id = id /\ CallTable[r].auth = auth
  BY AskedSeen DEF InsertComment, At
<1>3. UNCHANGED <<NameTable, PostTable, lastUser, lastPost>>
  BY <1>1 DEF counters, NameTable, PostTable
<1>4. CASE /\ Answer(r, "ER_NO_REFERENCED_ROW") \/ Answer(r, "GRAPHQL_VALIDATION_FAILED")
           /\ UNCHANGED comments
  <2>1. CountersType' /\ UNCHANGED tables /\ lastUser <= lastUser' /\ lastPost <= lastPost'
    BY <1>1, <1>4 DEF counters, IInv, CountersType, tables
  <2>. QED
    BY <1>2, <1>4, <2>1, Fails
<1>5. CASE /\ users[auth] # NoRow /\ posts[id] # NoRow /\ <<auth, id>> \notin comments
           /\ Answer(r, "row") /\ comments' = comments \cup {<<auth, id>>}
  <2>1. NameTable[auth] # NoRow /\ PostTable[id] # NoRow
    BY <1>1, <1>5, RowsSeen
  <2>2. Atomic!Succeeds(r)
    BY <1>5, AnswerSeen
  <2>3. Atomic!CreateComment(r)
    BY <1>2, <1>3, <1>5, <2>1, <2>2 DEF Atomic!CreateComment, Atomic!used
  <2>. QED
    BY <2>3 DEF Atomic!Next
<1>. QED
  BY <1>4, <1>5 DEF InsertComment

LEMMA IdleSeen == CallOf(Idle) = Atomic!Nothing
<1>1. StageOf(Idle) = "none" /\ Idle.op = "none" /\ Idle.id = 0
  BY DEF StageOf, Idle, NoId
<1>. QED
  BY <1>1, TraceSeen DEF Atomic!Nothing

LEMMA ReturnRefines == ASSUME IInv, NEW r \in Request, Return(r) PROVE Atomic!Next
<1>1. Atomic!Turn(r, Atomic!Nothing)
  BY TurnSeen, IdleSeen DEF Return
<1>2. CallTable[r].stage \in {"ok", "no", "failed"}
  BY CallSeen DEF Return, At, StageOf
<1>3. UNCHANGED <<NameTable, PostTable, comments, lastUser, lastPost>>
  BY DEF Return, tables, counters, NameTable, PostTable
<1>4. Atomic!Return(r)
  BY <1>1, <1>2, <1>3 DEF Atomic!Return, Atomic!tables, Atomic!used
<1>. QED
  BY <1>4 DEF Atomic!Next

LEMMA DbFailsRefines == ASSUME IInv, NEW r \in Request, DbFails(r) PROVE Atomic!Next
<1>1. /\ req[r].pc \in Step
      /\ req[r].pc # "done" => req[r].answer = "none"
      /\ req[r].pc \notin {"idle", "done"} \/ req[r].answer \in {"row", "true"}
  BY DEF DbFails, IInv, RequestType, ReqRecord, CallsInv, CallInv
<1>2. StageOf(req[r]) \in {"asked", "acted", "ok"}
  <2>1. CASE req[r].pc = "done" /\ req[r].answer \in {"row", "true"}
    BY <2>1 DEF StageOf
  <2>2. CASE req[r].pc \in {"insert", "load", "write"}
    BY <2>2 DEF StageOf
  <2>3. CASE req[r].pc \in {"ref", "reread"}
    BY <2>3 DEF StageOf
  <2>. QED
    BY <1>1, <2>1, <2>2, <2>3 DEF Step
<1>3. CountersType' /\ UNCHANGED tables /\ lastUser <= lastUser' /\ lastPost <= lastPost'
  BY DEF DbFails, tables, counters, IInv, CountersType
<1>. QED
  BY <1>2, <1>3, CallSeen, Fails DEF DbFails

LEMMA ValueRejectedRefines ==
    ASSUME IInv, NEW r \in Request, ValueRejected(r) PROVE Atomic!Next
<1>1. StageOf(req[r]) = "asked"
  BY DEF ValueRejected, StageOf
<1>2. CountersType' /\ UNCHANGED tables /\ lastUser <= lastUser' /\ lastPost <= lastPost'
  BY DEF ValueRejected, tables, counters, IInv, CountersType
<1>. QED
  BY <1>1, <1>2, CallSeen, Fails DEF ValueRejected

-----------------------------------------------------------------------------
LEMMA InitRefines == ASSUME Init PROVE Atomic!Init
<1>1. IInv /\ TablesType /\ CountersType /\ NamesUnique /\ NoOrphans /\ Numbered
  BY InitInv DEF IInv
<1>2. NameTable \in [UserId -> Name \cup {NoRow}]
  BY <1>1, RowsSeen DEF NameTable, TablesType
<1>3. PostTable \in [PostId -> [owner : UserId, body : UserId] \cup {NoRow}]
  <2>1. ASSUME NEW id \in PostId
        PROVE  PostTable[id] \in [owner : UserId, body : UserId] \cup {NoRow}
    <3>1. posts[id] # NoRow => posts[id] \in PostRow
      BY <1>1 DEF TablesType
    <3>2. posts[id] # NoRow => posts[id].owner \in UserId /\ posts[id].body \in UserId
      BY <3>1 DEF PostRow
    <3>3. /\ posts[id] = NoRow => PostTable[id] = NoRow
          /\ posts[id] # NoRow =>
                PostTable[id] = [owner |-> posts[id].owner, body |-> posts[id].body]
      BY <1>1, RowsSeen
    <3>. QED
      BY <3>2, <3>3
  <2>. QED
    BY <2>1 DEF PostTable
<1>4. \A i, j \in UserId : NameTable[i] = NameTable[j] /\ NameTable[i] # NoRow => i = j
  BY <1>1, RowsSeen DEF NamesUnique, Taken
<1>5. \A p \in PostId : PostTable[p] # NoRow => NameTable[PostTable[p].owner] # NoRow
  BY <1>1, RowsSeen DEF NoOrphans
<1>6. /\ 1 .. lastUser \subseteq UserId /\ 1 .. lastPost \subseteq PostId
      /\ \A id \in UserId : NameTable[id] # NoRow => id \in 1 .. lastUser
      /\ \A id \in PostId : PostTable[id] # NoRow => id \in 1 .. lastPost
  <2>1. /\ \A id \in UserId : NameTable[id] # NoRow => id <= lastUser
        /\ \A id \in PostId : PostTable[id] # NoRow => id <= lastPost
    BY <1>1, RowsSeen DEF Numbered
  <2>. QED
    BY <1>1, <2>1, Numbers DEF CountersType
<1>7. CallTable = [r \in Request |-> Atomic!Nothing]
  BY IdleSeen DEF Init, CallTable
<1>8. comments = {}
  BY DEF Init
<1>. QED
  BY <1>2, <1>3, <1>4, <1>5, <1>6, <1>7, <1>8 DEF Atomic!Init

LEMMA StepRefines == IInv /\ [Next]_vars => [Atomic!Next]_(Atomic!vars)
<1>. SUFFICES ASSUME IInv, [Next]_vars PROVE [Atomic!Next]_(Atomic!vars)
  OBVIOUS
<1>1. ASSUME NEW r \in Request, Arrive(r) PROVE Atomic!Next
  BY <1>1, ArriveRefines
<1>2. ASSUME NEW r \in Request, InsertUser(r) PROVE Atomic!Next
  BY <1>2, InsertUserRefines
<1>3. ASSUME NEW r \in Request, InsertPost(r) PROVE Atomic!Next
  BY <1>3, InsertPostRefines
<1>4. ASSUME NEW r \in Request, SetRef(r) PROVE UNCHANGED Atomic!vars
  BY <1>4, SetRefRefines
<1>5. ASSUME NEW r \in Request, Reread(r) PROVE Atomic!Next
  BY <1>5, RereadRefines
<1>6. ASSUME NEW r \in Request, UpdateUser(r) PROVE Atomic!Next
  BY <1>6, UpdateUserRefines
<1>7. ASSUME NEW r \in Request, DeleteUser(r) PROVE Atomic!Next
  BY <1>7, DeleteUserRefines
<1>8. ASSUME NEW r \in Request, LoadPost(r) PROVE Atomic!Next \/ UNCHANGED Atomic!vars
  BY <1>8, LoadPostRefines
<1>9. ASSUME NEW r \in Request, UpdatePost(r) PROVE Atomic!Next
  BY <1>9, UpdatePostRefines
<1>10. ASSUME NEW r \in Request, DeletePost(r) PROVE Atomic!Next
  BY <1>10, DeletePostRefines
<1>11. ASSUME NEW r \in Request, InsertComment(r) PROVE Atomic!Next
  BY <1>11, InsertCommentRefines
<1>12. ASSUME NEW r \in Request, Return(r) PROVE Atomic!Next
  BY <1>12, ReturnRefines
<1>13. ASSUME NEW r \in Request, DbFails(r) PROVE Atomic!Next
  BY <1>13, DbFailsRefines
<1>14. ASSUME NEW r \in Request, ValueRejected(r) PROVE Atomic!Next
  BY <1>14, ValueRejectedRefines
<1>15. ASSUME UNCHANGED vars PROVE UNCHANGED Atomic!vars
  BY <1>15 DEF vars, tables, counters, Atomic!vars, Atomic!tables, Atomic!used,
               NameTable, PostTable, CallTable
<1>. QED
  BY <1>1, <1>2, <1>3, <1>4, <1>5, <1>6, <1>7, <1>8, <1>9, <1>10, <1>11, <1>12, <1>13,
     <1>14, <1>15 DEF Next

\* Whatever happens between the statements of a call, it checks its rights and
\* the constraints, and writes, in one step, or fails; and it is answered with
\* what is there (AtomicSpec).
THEOREM Refinement == Spec => AtomicSpec
<1>. SUFFICES Spec => Atomic!Spec
  BY DEF AtomicSpec
<1>1. Init => Atomic!Init
  BY InitRefines
<1>. QED
  BY <1>1, StepRefines, Invariance, PTL DEF Spec, Atomic!Spec

=============================================================================
