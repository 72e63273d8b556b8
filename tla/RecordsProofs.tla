--------------------------- MODULE RecordsProofs ---------------------------
(***************************************************************************)
(* Proofs about Records, for any names, number of overlapping calls and    *)
(* seeds, with MySQL failing at any statement.                             *)
(***************************************************************************)
EXTENDS Records, FiniteSetTheorems, TLAPS

Step == {"idle", "insert", "ref", "load", "write", "reread", "done"}
ReqRecord ==
    [pc : Step, op : Op \cup {"none"}, id : Id \cup {NoId},
     name : Name \cup {NoName}, input : Inputs,
     auth : UserId \cup {NoId}, answer : Answers]

\* The tables, without the counters.
TablesType ==
    /\ users \in [UserId -> UserRow \cup {NoRow}]
    /\ posts \in [PostId -> PostRow \cup {NoRow}]
    /\ comments \subseteq UserId \X PostId
CountersType == lastUser \in 0 .. MaxUser /\ lastPost \in 0 .. MaxPost
RequestType == req \in [Request -> ReqRecord]

\* AUTO_INCREMENT has passed every row there is.
Numbered ==
    /\ \A id \in UserId : users[id] # NoRow => id <= lastUser
    /\ \A id \in PostId : posts[id] # NoRow => id <= lastPost

\* index_ref of a row that was not seeded.
RefsMirror ==
    /\ \A id \in UserId \ DOMAIN SeedName : users[id] # NoRow => users[id].ref \in {0, id}
    /\ \A id \in PostId \ DOMAIN SeedOwner : posts[id] # NoRow => posts[id].ref \in {0, id}

\* There is room for the rows that are about to be inserted.
RoomLeft ==
    /\ IsFiniteSet(Inserting("createUser")) /\ IsFiniteSet(Inserting("createPost"))
    /\ lastUser + Cardinality(Inserting("createUser")) <= MaxUser
    /\ lastPost + Cardinality(Inserting("createPost")) <= MaxPost

\* The row a create has made, after step "ref" and in its answer.
Created(q) ==
    /\ q.op = "createUser" => /\ q.id \in UserId /\ q.id <= lastUser
                              /\ users[q.id] = NoRow \/ users[q.id].ref = q.id
    /\ q.op = "createPost" => /\ q.id \in PostId /\ q.id <= lastPost
                              /\ posts[q.id] = NoRow \/ posts[q.id].ref = q.id

\* What a call that is about to write has checked, and nobody can take back:
\* an id is never used again, and a post never changes hands.
Checked(q) ==
    \/ q.op \in {"updateUser", "deleteUser"} /\ q.id \in UserId /\ q.id = q.auth
    \/ /\ q.op \in {"updatePost", "deletePost"}
       /\ q.id \in PostId /\ q.id <= lastPost /\ q.auth \in UserId
       /\ posts[q.id] = NoRow \/ posts[q.id].owner = q.auth
    \/ q.op = "createComment" /\ q.id \in PostId /\ q.auth \in UserId

\* A row that a call was told it has deleted.
Gone(q) ==
    /\ q.op = "deleteUser" => q.id \in UserId /\ q.id <= lastUser /\ users[q.id] = NoRow
    /\ q.op = "deletePost" => q.id \in PostId /\ q.id <= lastPost /\ posts[q.id] = NoRow

CallInv(r) ==
    LET q == req[r] IN
    /\ q.pc # "done" => q.answer = "none"
    /\ q.pc = "insert" => \/ q.op = "createUser" /\ q.name \in Name
                          \/ q.op = "createPost" /\ q.auth \in UserId
    /\ q.pc = "ref" => \/ q.op = "createUser" /\ q.id \in UserId /\ q.id <= lastUser
                       \/ q.op = "createPost" /\ q.id \in PostId /\ q.id <= lastPost
    /\ q.pc = "load" => /\ q.op \in {"updatePost", "deletePost"}
                        /\ q.id \in PostId /\ q.auth \in UserId
    /\ q.pc = "write" => Checked(q)
    /\ q.pc = "reread" => \/ q.op \in {"createUser", "updateUser"} /\ q.id \in UserId
                          \/ q.op \in {"createPost", "updatePost"} /\ q.id \in PostId
    /\ q.pc = "reread" \/ q.answer = "row" => Created(q)
    /\ q.answer = "true" => Gone(q)
CallsInv == \A r \in Request : CallInv(r)

IInv ==
    /\ TablesType /\ CountersType /\ RequestType
    /\ Numbered /\ RefsMirror /\ RoomLeft /\ CallsInv
    /\ NamesUnique /\ NoOrphans /\ DeletedOnce

-----------------------------------------------------------------------------
(* Calls and inputs. *)

LEMMA Numbers ==
    /\ MaxUser \in Nat /\ MaxPost \in Nat
    /\ UserId \subseteq Nat \ {0} /\ PostId \subseteq Nat \ {0} /\ NoId = 0
    /\ UserId = 1 .. MaxUser /\ PostId = 1 .. MaxPost
    /\ UserId \subseteq Id /\ PostId \subseteq Id /\ Id \subseteq Ref /\ 0 \in Ref
BY BoundAssumption DEF UserId, PostId, Id, Ref, NoId

LEMMA CallType ==
    ASSUME NEW c \in Calls
    PROVE  /\ c.op \in Op /\ c.id \in Id \cup {NoId}
           /\ c.name \in Name \cup {NoName} /\ c.input \in Inputs
           /\ c.op \in {"updateUser", "deleteUser"} => c.id \in UserId
           /\ c.op \in {"updatePost", "deletePost", "createComment"} => c.id \in PostId
           /\ c.op = "createUser" => c.name \in Name
BY DEF Calls, Op, Inputs, Id

LEMMA RefusalCodes ==
    ASSUME NEW c, NEW auth
    PROVE  Refusal(c, auth) \in SafeErrorCodes \cup {"none", "TypeError"}
BY DEF Refusal, SafeErrorCodes

\* A refused call, or one that is over.
LEMMA OverType ==
    ASSUME NEW a \in Answers, NEW c, c.op \in Op \cup {"none"}, c.id \in Id \cup {NoId}
    PROVE  /\ Over(c, a) \in ReqRecord /\ Over(c, a).pc = "done" /\ Over(c, a).answer = a
           /\ a \in {"row", "true"} => Over(c, a).op = c.op /\ Over(c, a).id = c.id
           /\ a \notin {"row", "true"} => Over(c, a).op = "none"
BY DEF Over, Idle, ReqRecord, Step, Inputs, Answers

LEMMA WrittenType ==
    ASSUME RequestType, NEW r \in Request, NEW step \in {"ref", "reread"},
           NEW id \in Id \cup {NoId}, Written(r, step, id)
    PROVE  \E q \in ReqRecord :
              /\ req' = [req EXCEPT ![r] = q]
              /\ q.pc = step /\ q.op = req[r].op /\ q.id = id /\ q.answer = "none"
<1>. DEFINE q == [Idle EXCEPT !.pc = step, !.op = req[r].op, !.id = id]
<1>1. req[r].op \in Op \cup {"none"}
  BY DEF RequestType, ReqRecord
<1>2. /\ q \in ReqRecord
      /\ q.pc = step /\ q.op = req[r].op /\ q.id = id /\ q.answer = "none"
  BY <1>1 DEF Idle, ReqRecord, Step, Inputs, Answers
<1>3. req' = [req EXCEPT ![r] = q]
  BY DEF Written
<1>. QED
  BY <1>2, <1>3

-----------------------------------------------------------------------------
(* What one call does to the others. *)

\* Rows that exist may go, never come back or change hands, and index_ref may
\* become the id.
Evolves ==
    /\ lastUser <= lastUser' /\ lastPost <= lastPost'
    /\ \A id \in UserId : id <= lastUser =>
          \/ users'[id] = NoRow
          \/ users[id] # NoRow /\ users'[id].ref \in {users[id].ref, id}
    /\ \A id \in PostId : id <= lastPost =>
          \/ posts'[id] = NoRow
          \/ /\ posts[id] # NoRow /\ posts'[id].owner = posts[id].owner
             /\ posts'[id].ref \in {posts[id].ref, id}

LEMMA CallKept ==
    ASSUME IInv, Evolves, CountersType', NEW s \in Request, req'[s] = req[s]
    PROVE  CallInv(s)'
<1>0. /\ lastUser \in Nat /\ lastUser' \in Nat /\ lastPost \in Nat /\ lastPost' \in Nat
      /\ UserId \subseteq Nat /\ PostId \subseteq Nat /\ CallInv(s)
  BY Numbers DEF IInv, CountersType, CallsInv
<1>a. ASSUME NEW id \in UserId, id <= lastUser
      PROVE  /\ id <= lastUser'
             /\ users[id] = NoRow => users'[id] = NoRow
             /\ users[id].ref = id => users'[id] = NoRow \/ users'[id].ref = id
  BY <1>0, <1>a DEF Evolves
<1>b. ASSUME NEW id \in PostId, id <= lastPost
      PROVE  /\ id <= lastPost'
             /\ posts[id] = NoRow => posts'[id] = NoRow
             /\ posts[id].ref = id => posts'[id] = NoRow \/ posts'[id].ref = id
             /\ posts'[id] = NoRow \/ posts'[id].owner = posts[id].owner
  BY <1>0, <1>b DEF Evolves
<1>1. ASSUME NEW q PROVE Created(q) => Created(q)'
  BY <1>a, <1>b, Zenon DEF Created
<1>2. ASSUME NEW q PROVE Checked(q) => Checked(q)'
  BY <1>b, Zenon DEF Checked
<1>3. ASSUME NEW q PROVE Gone(q) => Gone(q)'
  BY <1>a, <1>b, Zenon DEF Gone
<1>. QED
  BY <1>0, <1>a, <1>b, <1>1, <1>2, <1>3, Zenon DEF CallInv

LEMMA CallsKept ==
    ASSUME IInv, Evolves, CountersType', NEW r \in Request, NEW q \in ReqRecord,
           req' = [req EXCEPT ![r] = q], CallInv(r)'
    PROVE  CallsInv'
<1>1. \A s \in Request \ {r} : req'[s] = req[s]
  BY DEF IInv, RequestType
<1>2. \A s \in Request \ {r} : CallInv(s)'
  BY <1>1, CallKept
<1>. QED
  BY <1>2 DEF CallsInv

LEMMA OneLess ==
    ASSUME NEW S, NEW x, IsFiniteSet(S)
    PROVE  /\ IsFiniteSet(S \ {x}) /\ Cardinality(S \ {x}) <= Cardinality(S)
           /\ x \in S => Cardinality(S \ {x}) = Cardinality(S) - 1
<1>. DEFINE T == S \ {x}
<1>1. /\ IsFiniteSet(T)
      /\ Cardinality(T) = IF x \in S THEN Cardinality(S) - 1 ELSE Cardinality(S)
  BY FS_RemoveElement
<1>2. Cardinality(S) \in Nat
  BY FS_CardinalityType
<1>. HIDE DEF T
<1>3. /\ Cardinality(T) <= Cardinality(S)
      /\ x \in S => Cardinality(T) = Cardinality(S) - 1
  BY <1>1, <1>2
<1>. QED
  BY <1>1, <1>3, Zenon DEF T

LEMMA RoomKept ==
    ASSUME IInv, NEW r \in Request, NEW q \in ReqRecord, q.pc # "insert",
           req' = [req EXCEPT ![r] = q],
           \/ lastUser' = lastUser
           \/ lastUser' = lastUser + 1 /\ r \in Inserting("createUser"),
           \/ lastPost' = lastPost
           \/ lastPost' = lastPost + 1 /\ r \in Inserting("createPost")
    PROVE  RoomLeft' /\ CountersType'
<1>. DEFINE Before(op) == Inserting(op)
            After(op) == Inserting(op) \ {r}
<1>1. \A op \in Op : Inserting(op)' = After(op)
  <2>1. req'[r].pc # "insert" /\ \A s \in Request \ {r} : req'[s] = req[s]
    BY DEF IInv, RequestType
  <2>2. QED
    BY <2>1 DEF Inserting, At
<1>2. ASSUME NEW op \in {"createUser", "createPost"}
      PROVE  /\ IsFiniteSet(After(op)) /\ Cardinality(After(op)) \in Nat
             /\ Cardinality(Before(op)) \in Nat
             /\ Cardinality(After(op)) <= Cardinality(Before(op))
             /\ r \in Inserting(op) => Cardinality(After(op)) = Cardinality(Before(op)) - 1
  <2>1. IsFiniteSet(Inserting(op))
    BY DEF IInv, RoomLeft
  <2>2. QED
    BY <2>1, OneLess, FS_CardinalityType, Zenon
<1>3. /\ lastUser + Cardinality(Before("createUser")) <= MaxUser
      /\ lastPost + Cardinality(Before("createPost")) <= MaxPost
      /\ lastUser \in Nat /\ lastPost \in Nat /\ MaxUser \in Nat /\ MaxPost \in Nat
  BY Numbers DEF IInv, RoomLeft, CountersType
<1>4. "createUser" \in Op /\ "createPost" \in Op
  BY DEF Op
<1>5. Inserting("createUser")' = After("createUser") /\ Inserting("createPost")' = After("createPost")
  BY <1>1, <1>4, Zenon
<1>. DEFINE u == Cardinality(After("createUser")) v == Cardinality(After("createPost"))
            x == Cardinality(Before("createUser")) y == Cardinality(Before("createPost"))
<1>6. /\ u \in Nat /\ v \in Nat /\ x \in Nat /\ y \in Nat /\ u <= x /\ v <= y
      /\ r \in Inserting("createUser") => u = x - 1
      /\ r \in Inserting("createPost") => v = y - 1
      /\ lastUser + x <= MaxUser /\ lastPost + y <= MaxPost
  BY <1>2, <1>3, Zenon
<1>7. u = Cardinality(Inserting("createUser")') /\ v = Cardinality(Inserting("createPost")')
  BY <1>5, Zenon
<1>. HIDE DEF u, v, x, y, After, Before
<1>8. /\ lastUser' + u <= MaxUser /\ lastPost' + v <= MaxPost
      /\ lastUser' \in 0 .. MaxUser /\ lastPost' \in 0 .. MaxPost
  BY <1>3, <1>6
<1>9. IsFiniteSet(Inserting("createUser")') /\ IsFiniteSet(Inserting("createPost")')
  BY <1>2, <1>5, Zenon
<1>. QED
  BY <1>7, <1>8, <1>9, Zenon DEF RoomLeft, CountersType

\* Only a delete that found its row says so.
LEMMA DeletedKept ==
    ASSUME IInv, NEW r \in Request, NEW q \in ReqRecord, req' = [req EXCEPT ![r] = q],
           q.answer = "true" =>
              /\ q.op = "deleteUser" => users[q.id] # NoRow
              /\ q.op = "deletePost" => posts[q.id] # NoRow
    PROVE  DeletedOnce'
<1>1. req'[r] = q /\ \A s \in Request \ {r} : req'[s] = req[s]
  BY DEF IInv, RequestType
<1>2. \A s \in Request : req[s].answer = "true" => Gone(req[s])
  BY DEF IInv, CallsInv, CallInv
<1>. QED
  BY <1>1, <1>2 DEF IInv, DeletedOnce, Gone

\* A call that does not write.
LEMMA NoWrite ==
    ASSUME IInv, NEW r \in Request, NEW q \in ReqRecord, req' = [req EXCEPT ![r] = q],
           UNCHANGED <<tables, counters>>, q.pc = "insert" => RoomLeft',
           CallInv(r)', q.answer # "true"
    PROVE  IInv'
<1>1. /\ UNCHANGED <<users, posts, comments, lastUser, lastPost>>
      /\ TablesType' /\ CountersType' /\ Numbered' /\ RefsMirror'
      /\ NamesUnique' /\ NoOrphans'
  BY DEF tables, counters, IInv, TablesType, CountersType, Numbered, RefsMirror,
         NamesUnique, NoOrphans, Taken
<1>2. Evolves
  BY <1>1, Numbers DEF Evolves, IInv, CountersType
<1>3. CallsInv' /\ DeletedOnce' /\ RequestType'
  BY <1>1, <1>2, CallsKept, DeletedKept DEF IInv, RequestType
<1>4. RoomLeft'
  BY <1>1, RoomKept
<1>. QED
  BY <1>1, <1>3, <1>4 DEF IInv

-----------------------------------------------------------------------------
(* Steps that do not write. *)

LEMMA OneMore ==
    ASSUME NEW S, NEW x, IsFiniteSet(S)
    PROVE  IsFiniteSet(S \cup {x}) /\ Cardinality(S \cup {x}) <= Cardinality(S) + 1
<1>. DEFINE T == S \cup {x}
<1>1. /\ IsFiniteSet(T)
      /\ Cardinality(T) = IF x \in S THEN Cardinality(S) ELSE Cardinality(S) + 1
  BY FS_AddElement
<1>2. Cardinality(S) \in Nat
  BY FS_CardinalityType
<1>. HIDE DEF T
<1>3. Cardinality(T) <= Cardinality(S) + 1
  BY <1>1, <1>2
<1>. QED
  BY <1>1, <1>3, Zenon DEF T

\* A call that is let in finds the room it asked for.
LEMMA RoomTaken ==
    ASSUME IInv, NEW r \in Request, NEW q \in ReqRecord, req' = [req EXCEPT ![r] = q],
           At(r, "idle"), q.pc = "insert", q.op \in {"createUser", "createPost"},
           Room(q.op), UNCHANGED counters
    PROVE  RoomLeft'
<1>. DEFINE More(op) == Inserting(op) \cup {r}
<1>1. req'[r] = q /\ \A s \in Request \ {r} : req'[s] = req[s]
  BY DEF IInv, RequestType
<1>2. ASSUME NEW op \in {"createUser", "createPost"}
      PROVE  Inserting(op)' = IF op = q.op THEN More(op) ELSE Inserting(op)
  BY <1>1 DEF Inserting, At
<1>3. ASSUME NEW op \in {"createUser", "createPost"}
      PROVE  /\ IsFiniteSet(Inserting(op)) /\ IsFiniteSet(More(op))
             /\ Cardinality(More(op)) <= Cardinality(Inserting(op)) + 1
             /\ Cardinality(Inserting(op)) \in Nat /\ Cardinality(More(op)) \in Nat
  <2>1. IsFiniteSet(Inserting(op))
    BY DEF IInv, RoomLeft
  <2>2. QED
    BY <2>1, OneMore, FS_CardinalityType, Zenon
<1>. HIDE DEF More
<1>4. \A op \in {"createUser", "createPost"} : IsFiniteSet(Inserting(op)')
  BY <1>2, <1>3, Zenon
<1>5. /\ lastUser' = lastUser /\ lastPost' = lastPost /\ lastUser \in Nat /\ lastPost \in Nat
      /\ MaxUser \in Nat /\ MaxPost \in Nat
      /\ lastUser + Cardinality(Inserting("createUser")) <= MaxUser
      /\ lastPost + Cardinality(Inserting("createPost")) <= MaxPost
  BY Numbers DEF IInv, RoomLeft, CountersType, counters
<1>6. CASE q.op = "createUser"
  <2>1. Cardinality(Inserting("createUser")') = Cardinality(More("createUser"))
    BY <1>2, <1>6, Zenon
  <2>2. Cardinality(Inserting("createPost")') = Cardinality(Inserting("createPost"))
    BY <1>2, <1>6
  <2>3. lastUser + Cardinality(Inserting("createUser")) < MaxUser
    BY <1>6 DEF Room
  <2>4. lastUser + Cardinality(More("createUser")) <= MaxUser
    BY <1>3, <1>5, <2>3
  <2>5. QED
    BY <1>4, <1>5, <2>1, <2>2, <2>4, Zenon DEF RoomLeft
<1>7. CASE q.op = "createPost"
  <2>1. Cardinality(Inserting("createPost")') = Cardinality(More("createPost"))
    BY <1>2, <1>7, Zenon
  <2>2. Cardinality(Inserting("createUser")') = Cardinality(Inserting("createUser"))
    BY <1>2, <1>7
  <2>3. lastPost + Cardinality(Inserting("createPost")) < MaxPost
    BY <1>7 DEF Room
  <2>4. lastPost + Cardinality(More("createPost")) <= MaxPost
    BY <1>3, <1>5, <2>3
  <2>5. QED
    BY <1>4, <1>5, <2>1, <2>2, <2>4, Zenon DEF RoomLeft
<1>. QED
  BY <1>6, <1>7

LEMMA ArriveInv == ASSUME IInv, NEW r \in Request, Arrive(r) PROVE IInv'
<1>0. At(r, "idle") /\ UNCHANGED <<tables, counters>>
  BY DEF Arrive
<1>1. PICK c \in Calls, auth \in 0 .. lastUser :
        IF Refusal(c, auth) # "none"
        THEN req' = [req EXCEPT ![r] = Over(c, Refusal(c, auth))]
        ELSE /\ Room(c.op) /\ (c.op \in Public => auth = NoId)
             /\ req' = [req EXCEPT ![r] =
                   [op |-> c.op, id |-> c.id, name |-> c.name, input |-> c.input,
                    auth |-> auth, answer |-> "none", pc |-> FirstStep(c.op)]]
  BY DEF Arrive
<1>2. CASE Refusal(c, auth) # "none"
  <2>. DEFINE a == Refusal(c, auth)
              q == Over(c, a)
  <2>1. a \in SafeErrorCodes \cup {"TypeError"}
    BY <1>2, RefusalCodes
  <2>2. /\ a \in Answers /\ a \notin {"none", "row", "true"}
        /\ c.op \in Op \cup {"none"} /\ c.id \in Id \cup {NoId}
    BY <2>1, CallType DEF Answers, SafeErrorCodes
  <2>3. q \in ReqRecord /\ q.pc = "done" /\ q.answer = a
    BY <2>2, OverType
  <2>4. req' = [req EXCEPT ![r] = q]
    BY <1>1, <1>2
  <2>. HIDE DEF q, a
  <2>5. req'[r] = q
    BY <2>4 DEF IInv, RequestType
  <2>6. CallInv(r)'
    BY <2>2, <2>3, <2>5 DEF CallInv
  <2>. QED
    BY <1>0, <2>2, <2>3, <2>4, <2>6, NoWrite
<1>3. CASE Refusal(c, auth) = "none"
  <2>. DEFINE q == [op |-> c.op, id |-> c.id, name |-> c.name, input |-> c.input,
                    auth |-> auth, answer |-> "none", pc |-> FirstStep(c.op)]
  <2>1. req' = [req EXCEPT ![r] = q] /\ Room(c.op) /\ (c.op \in Public => auth = NoId)
    BY <1>1, <1>3
  <2>2. /\ auth # NoId \/ c.op = "createUser"
        /\ c.op \in {"updateUser", "deleteUser"} => c.id = auth
    BY <1>3 DEF Refusal, Public
  <2>3. auth \in UserId \cup {NoId} /\ "none" \in Answers /\ FirstStep(c.op) \in Step
    BY Numbers DEF IInv, CountersType, Answers, FirstStep, Step
  <2>4. q \in ReqRecord
    BY <2>3, CallType DEF ReqRecord
  <2>5. /\ q.pc = FirstStep(c.op) /\ q.op = c.op /\ q.id = c.id /\ q.auth = auth
        /\ q.name = c.name /\ q.answer = "none"
    OBVIOUS
  <2>. HIDE DEF q
  <2>6. req'[r] = q
    BY <2>1 DEF IInv, RequestType
  <2>7. q.op \in Op /\ (q.op # "createUser" => q.auth \in UserId)
    BY <2>2, <2>3, <2>5, CallType
  <2>8. CASE c.op \in {"createUser", "createPost"}
    <3>1. q.pc = "insert"
      BY <2>5, <2>8 DEF FirstStep
    <3>2. RoomLeft'
      BY <1>0, <2>1, <2>4, <2>5, <2>8, <3>1, RoomTaken
    <3>3. CallInv(r)'
      BY <2>5, <2>6, <2>7, <2>8, <3>1, CallType DEF CallInv
    <3>. QED
      BY <1>0, <2>1, <2>4, <2>5, <3>2, <3>3, NoWrite
  <2>9. CASE c.op \in {"updatePost", "deletePost"}
    <3>1. q.pc = "load" /\ q.id \in PostId
      BY <2>5, <2>9, CallType DEF FirstStep
    <3>2. CallInv(r)'
      BY <2>5, <2>6, <2>7, <2>9, <3>1 DEF CallInv
    <3>. QED
      BY <1>0, <2>1, <2>4, <2>5, <3>1, <3>2, NoWrite
  <2>10. CASE c.op \in {"updateUser", "deleteUser", "createComment"}
    <3>1. q.pc = "write" /\ Checked(q)'
      BY <2>2, <2>5, <2>7, <2>10, CallType DEF FirstStep, Checked
    <3>2. CallInv(r)'
      BY <2>5, <2>6, <3>1 DEF CallInv, Checked
    <3>. QED
      BY <1>0, <2>1, <2>4, <2>5, <3>1, <3>2, NoWrite
  <2>. QED
    BY <2>5, <2>7, <2>8, <2>9, <2>10 DEF Op
<1>. QED
  BY <1>2, <1>3

LEMMA AnswerInv ==
    ASSUME IInv, NEW r \in Request, NEW a \in Answers, Answer(r, a),
           UNCHANGED <<tables, counters>>, a # "true",
           a = "row" => Created(req[r])
    PROVE  IInv'
<1>. DEFINE q == Over(req[r], a)
<1>1. req[r].op \in Op \cup {"none"} /\ req[r].id \in Id \cup {NoId}
  BY DEF IInv, RequestType, ReqRecord
<1>2. /\ q \in ReqRecord /\ q.pc = "done" /\ q.answer = a
      /\ a = "row" => q.op = req[r].op /\ q.id = req[r].id
  BY <1>1, OverType
<1>3. req' = [req EXCEPT ![r] = q]
  BY DEF Answer
<1>. HIDE DEF q
<1>4. req'[r] = q
  BY <1>3 DEF IInv, RequestType
<1>5. CallInv(r)'
  BY <1>2, <1>4 DEF CallInv, Created, tables, counters
<1>. QED
  BY <1>2, <1>3, <1>5, NoWrite

LEMMA RereadInv == ASSUME IInv, NEW r \in Request, Reread(r) PROVE IInv'
<1>1. \E a \in {"null", "row"} : Answer(r, a)
  BY DEF Reread
<1>2. UNCHANGED <<tables, counters>> /\ Created(req[r])
  BY DEF Reread, At, IInv, CallsInv, CallInv
<1>3. {"null", "row"} \subseteq Answers
  BY DEF Answers
<1>. QED
  BY <1>1, <1>2, <1>3, AnswerInv

LEMMA DbFailsInv == ASSUME IInv, NEW r \in Request, DbFails(r) PROVE IInv'
BY AnswerInv DEF DbFails, Answers

LEMMA ValueRejectedInv ==
    ASSUME IInv, NEW r \in Request, ValueRejected(r) PROVE IInv'
BY AnswerInv DEF ValueRejected, Answers

LEMMA ReturnInv == ASSUME IInv, NEW r \in Request, Return(r) PROVE IInv'
<1>1. Idle \in ReqRecord /\ Idle.pc = "idle" /\ Idle.answer = "none"
  BY DEF Idle, ReqRecord, Step, Inputs, Answers
<1>2. req' = [req EXCEPT ![r] = Idle] /\ UNCHANGED <<tables, counters>>
  BY DEF Return
<1>3. req'[r] = Idle
  BY <1>2 DEF IInv, RequestType
<1>4. CallInv(r)'
  BY <1>1, <1>3 DEF CallInv
<1>. QED
  BY <1>1, <1>2, <1>4, NoWrite

LEMMA LoadPostInv == ASSUME IInv, NEW r \in Request, LoadPost(r) PROVE IInv'
<1>1. /\ UNCHANGED <<tables, counters>>
      /\ req[r].pc = "load" /\ req[r].op \in {"updatePost", "deletePost"}
      /\ req[r].id \in PostId /\ req[r].auth \in UserId /\ req[r].answer = "none"
      /\ req[r] \in ReqRecord
  BY DEF LoadPost, At, IInv, CallsInv, CallInv, RequestType
<1>2. CASE \E a \in {"GRAPHQL_VALIDATION_FAILED", "UNAUTHENTICATED"} : Answer(r, a)
  <2>1. {"GRAPHQL_VALIDATION_FAILED", "UNAUTHENTICATED"} \subseteq Answers
    BY DEF Answers, SafeErrorCodes
  <2>2. QED
    BY <1>1, <1>2, <2>1, AnswerInv
<1>3. CASE /\ req' = [req EXCEPT ![r].pc = "write"]
           /\ posts[req[r].id] # NoRow /\ posts[req[r].id].owner = req[r].auth
  <2>. DEFINE q == [req[r] EXCEPT !.pc = "write"]
  <2>1. req' = [req EXCEPT ![r] = q]
    BY <1>3
  <2>2. /\ q \in ReqRecord /\ q.pc = "write" /\ q.answer = "none"
        /\ q.op = req[r].op /\ q.id = req[r].id /\ q.auth = req[r].auth
    BY <1>1 DEF ReqRecord, Step
  <2>. HIDE DEF q
  <2>3. req'[r] = q
    BY <2>1 DEF IInv, RequestType
  <2>4. req[r].id <= lastPost
    BY <1>1, <1>3 DEF IInv, Numbered
  <2>5. CallInv(r)'
    BY <1>1, <1>3, <2>2, <2>3, <2>4 DEF CallInv, Checked, tables, counters
  <2>. QED
    BY <1>1, <2>1, <2>2, <2>5, NoWrite
<1>. QED
  BY <1>2, <1>3 DEF LoadPost

-----------------------------------------------------------------------------
(* Steps that write. *)

LEMMA WriteInv ==
    ASSUME IInv, NEW r \in Request, NEW q \in ReqRecord, q.pc # "insert",
           req' = [req EXCEPT ![r] = q],
           \/ lastUser' = lastUser
           \/ lastUser' = lastUser + 1 /\ r \in Inserting("createUser"),
           \/ lastPost' = lastPost
           \/ lastPost' = lastPost + 1 /\ r \in Inserting("createPost"),
           Evolves, TablesType', Numbered', RefsMirror', NamesUnique', NoOrphans', CallInv(r)',
           q.answer = "true" =>
              /\ q.op = "deleteUser" => users[q.id] # NoRow
              /\ q.op = "deletePost" => posts[q.id] # NoRow
    PROVE  IInv'
<1>1. RoomLeft' /\ CountersType'
  BY RoomKept
<1>2. CallsInv'
  BY <1>1, CallsKept
<1>3. DeletedOnce'
  BY DeletedKept
<1>4. RequestType'
  BY DEF IInv, RequestType
<1>. QED
  BY <1>1, <1>2, <1>3, <1>4 DEF IInv

\* The call that steps, after its step.
LEMMA Stepped ==
    ASSUME IInv, NEW r \in Request, NEW q, req' = [req EXCEPT ![r] = q]
    PROVE  req'[r] = q
BY DEF IInv, RequestType

LEMMA Answered ==
    ASSUME IInv, NEW r \in Request, NEW a \in Answers, Answer(r, a)
    PROVE  \E q \in ReqRecord :
              /\ req' = [req EXCEPT ![r] = q]
              /\ q.pc = "done" /\ q.answer = a
              /\ a \in {"row", "true"} => q.op = req[r].op /\ q.id = req[r].id
<1>1. req[r].op \in Op \cup {"none"} /\ req[r].id \in Id \cup {NoId}
  BY DEF IInv, RequestType, ReqRecord
<1>. QED
  BY <1>1, OverType DEF Answer

LEMMA RoomFor ==
    ASSUME IInv, NEW r \in Request
    PROVE  /\ r \in Inserting("createUser") => lastUser + 1 \in UserId
           /\ r \in Inserting("createPost") => lastPost + 1 \in PostId
<1>1. ASSUME NEW S, IsFiniteSet(S), r \in S PROVE Cardinality(S) \in Nat \ {0}
  BY <1>1, FS_EmptySet, FS_CardinalityType
<1>. DEFINE x == Cardinality(Inserting("createUser")) y == Cardinality(Inserting("createPost"))
<1>2. /\ r \in Inserting("createUser") => x \in Nat \ {0}
      /\ r \in Inserting("createPost") => y \in Nat \ {0}
      /\ lastUser + x <= MaxUser /\ lastPost + y <= MaxPost
  BY <1>1, Zenon DEF IInv, RoomLeft
<1>3. lastUser \in Nat /\ lastPost \in Nat
  BY Numbers DEF IInv, CountersType
<1>. HIDE DEF x, y
<1>. QED
  BY <1>2, <1>3, Numbers

LEMMA InsertUserInv == ASSUME IInv, NEW r \in Request, InsertUser(r) PROVE IInv'
<1>. DEFINE n == lastUser + 1
            row == [name |-> req[r].name, ref |-> 0]
<1>1. r \in Inserting("createUser") /\ n \in UserId
  BY RoomFor DEF InsertUser, Inserting, At
<1>2. /\ lastUser' = lastUser + 1 /\ UNCHANGED <<posts, comments, lastPost>>
      /\ lastUser \in Nat /\ lastPost \in Nat /\ n \in Id \cup {NoId}
      /\ req[r].op = "createUser" /\ req[r].name \in Name \cup {NoName}
  BY <1>1, Numbers DEF InsertUser, IInv, CountersType, RequestType, ReqRecord
<1>3. CASE UNCHANGED users /\ Answer(r, "GRAPHQL_VALIDATION_FAILED")
  <2>1. "GRAPHQL_VALIDATION_FAILED" \in Answers
    BY DEF Answers, SafeErrorCodes
  <2>2. PICK q \in ReqRecord : /\ req' = [req EXCEPT ![r] = q]
                               /\ q.pc = "done" /\ q.answer = "GRAPHQL_VALIDATION_FAILED"
    BY <1>3, <2>1, Answered
  <2>3. CallInv(r)'
    BY <2>2, Stepped DEF CallInv
  <2>4. Evolves /\ Numbered'
    BY <1>2, <1>3, Numbers DEF Evolves, Numbered, IInv
  <2>5. TablesType' /\ RefsMirror' /\ NamesUnique' /\ NoOrphans'
    BY <1>2, <1>3 DEF IInv, TablesType, RefsMirror, NamesUnique, NoOrphans, Taken
  <2>. QED
    BY <1>1, <1>2, <2>2, <2>3, <2>4, <2>5, WriteInv
<1>4. CASE /\ ~Taken(req[r].name, NoId) /\ Written(r, "ref", n)
           /\ users' = [users EXCEPT ![n] = row]
  <2>1. PICK q \in ReqRecord :
           /\ req' = [req EXCEPT ![r] = q]
           /\ q.pc = "ref" /\ q.op = "createUser" /\ q.id = n /\ q.answer = "none"
    BY <1>2, <1>4, WrittenType DEF IInv
  <2>a. n \in UserId /\ n <= lastUser'
    BY <1>1, <1>2
  <2>b. req'[r] = q
    BY <2>1, Stepped
  <2>. HIDE DEF n
  <2>2. CallInv(r)'
    BY <2>1, <2>a, <2>b DEF CallInv
  <2>. USE DEF n
  <2>3. users[n] = NoRow /\ users \in [UserId -> UserRow \cup {NoRow}]
    BY <1>1, <1>2 DEF IInv, Numbered, TablesType
  <2>4. req[r].name \in Name
    BY <1>2 DEF InsertUser, At, IInv, CallsInv, CallInv
  <2>5. row \in UserRow /\ row.ref = 0 /\ row.name = req[r].name /\ row # NoRow
    BY <2>4, Numbers, RowAssumption DEF UserRow
  <2>. HIDE DEF row
  <2>6. /\ users'[n] = row /\ \A id \in UserId \ {n} : users'[id] = users[id]
        /\ TablesType'
    BY <1>1, <1>2, <1>4, <2>3, <2>5 DEF TablesType, IInv
  <2>7. Evolves
    BY <1>2, <2>6, Numbers DEF Evolves
  <2>8. Numbered' /\ RefsMirror'
    BY <1>2, <2>5, <2>6, Numbers DEF Numbered, RefsMirror, IInv
  <2>9. NamesUnique'
    <3>1. \A other \in UserId : users[other] # NoRow => users[other].name # row.name
      BY <1>4, <2>5, Numbers DEF Taken
    <3>2. \A id, other \in UserId :
             users[id] # NoRow /\ users[other] # NoRow /\ id # other
             => users[id].name # users[other].name
      BY DEF IInv, NamesUnique, Taken
    <3>3. \A id, other \in UserId :
             users'[id] # NoRow /\ users'[other] # NoRow /\ id # other
             => users'[id].name # users'[other].name
      BY <2>5, <2>6, <3>1, <3>2
    <3>. QED
      BY <3>3 DEF NamesUnique, Taken
  <2>10. NoOrphans'
    BY <1>2, <2>3, <2>5, <2>6 DEF NoOrphans, IInv, TablesType, PostRow
  <2>. QED
    BY <1>1, <1>2, <2>1, <2>2, <2>6, <2>7, <2>8, <2>9, <2>10, WriteInv
<1>. QED
  BY <1>3, <1>4 DEF InsertUser

LEMMA InsertPostInv == ASSUME IInv, NEW r \in Request, InsertPost(r) PROVE IInv'
<1>. DEFINE n == lastPost + 1
            row == [owner |-> req[r].auth, body |-> req[r].auth, ref |-> 0]
<1>1. r \in Inserting("createPost") /\ n \in PostId
  BY RoomFor DEF InsertPost, Inserting, At
<1>2. /\ lastPost' = lastPost + 1 /\ UNCHANGED <<users, comments, lastUser>>
      /\ lastUser \in Nat /\ lastPost \in Nat /\ n \in Id \cup {NoId}
      /\ req[r].op = "createPost" /\ req[r].auth \in UserId
  BY <1>1, Numbers DEF InsertPost, At, IInv, CountersType, CallsInv, CallInv
<1>3. CASE UNCHANGED posts /\ Answer(r, "ER_NO_REFERENCED_ROW")
  <2>1. "ER_NO_REFERENCED_ROW" \in Answers
    BY DEF Answers
  <2>2. PICK q \in ReqRecord : /\ req' = [req EXCEPT ![r] = q]
                               /\ q.pc = "done" /\ q.answer = "ER_NO_REFERENCED_ROW"
    BY <1>3, <2>1, Answered
  <2>3. CallInv(r)'
    BY <2>2, Stepped DEF CallInv
  <2>4. Evolves /\ Numbered'
    BY <1>2, <1>3, Numbers DEF Evolves, Numbered, IInv
  <2>5. TablesType' /\ RefsMirror' /\ NamesUnique' /\ NoOrphans'
    BY <1>2, <1>3 DEF IInv, TablesType, RefsMirror, NamesUnique, NoOrphans, Taken
  <2>. QED
    BY <1>1, <1>2, <2>2, <2>3, <2>4, <2>5, WriteInv
<1>4. CASE /\ users[req[r].auth] # NoRow /\ Written(r, "ref", n)
           /\ posts' = [posts EXCEPT ![n] = row]
  <2>1. PICK q \in ReqRecord :
           /\ req' = [req EXCEPT ![r] = q]
           /\ q.pc = "ref" /\ q.op = "createPost" /\ q.id = n /\ q.answer = "none"
    BY <1>2, <1>4, WrittenType DEF IInv
  <2>2. CallInv(r)'
    <3>1. n \in PostId /\ n <= lastPost'
      BY <1>1, <1>2
    <3>2. req'[r] = q
      BY <2>1, Stepped
    <3>. HIDE DEF n
    <3>. QED
      BY <2>1, <3>1, <3>2 DEF CallInv
  <2>3. posts[n] = NoRow /\ posts \in [PostId -> PostRow \cup {NoRow}]
    BY <1>1, <1>2 DEF IInv, Numbered, TablesType
  <2>4. row \in PostRow /\ row.ref = 0 /\ row.owner = req[r].auth /\ row # NoRow
    BY <1>2, Numbers, RowAssumption DEF PostRow
  <2>. HIDE DEF row
  <2>5. /\ posts'[n] = row /\ \A id \in PostId \ {n} : posts'[id] = posts[id]
        /\ TablesType'
    BY <1>1, <1>2, <1>4, <2>3, <2>4 DEF TablesType, IInv
  <2>6. Evolves
    BY <1>2, <2>5, Numbers DEF Evolves
  <2>7. Numbered' /\ RefsMirror'
    BY <1>2, <2>4, <2>5, Numbers DEF Numbered, RefsMirror, IInv
  <2>8. NamesUnique'
    BY <1>2 DEF NamesUnique, Taken, IInv
  <2>9. NoOrphans'
    BY <1>2, <1>4, <2>3, <2>4, <2>5 DEF NoOrphans, IInv, TablesType
  <2>. QED
    BY <1>1, <1>2, <2>1, <2>2, <2>5, <2>6, <2>7, <2>8, <2>9, WriteInv
<1>. QED
  BY <1>3, <1>4 DEF InsertPost

\* index_ref of the row that was just inserted, if it is still there.
LEMMA SetRefInv == ASSUME IInv, NEW r \in Request, SetRef(r) PROVE IInv'
<1>. DEFINE n == req[r].id
<1>0. /\ users \in [UserId -> UserRow \cup {NoRow}]
      /\ posts \in [PostId -> PostRow \cup {NoRow}]
      /\ UNCHANGED <<comments, lastUser, lastPost>> /\ n \in Id \cup {NoId}
      /\ lastUser \in Nat /\ lastPost \in Nat
  BY Numbers DEF IInv, TablesType, SetRef, counters, RequestType, ReqRecord, CountersType
<1>1. PICK q \in ReqRecord :
         /\ req' = [req EXCEPT ![r] = q]
         /\ q.pc = "reread" /\ q.op = req[r].op /\ q.id = n /\ q.answer = "none"
  BY <1>0, WrittenType DEF IInv, SetRef
<1>2. req'[r] = q
  BY <1>1, Stepped
<1>3. \/ req[r].op = "createUser" /\ n \in UserId /\ n <= lastUser
      \/ req[r].op = "createPost" /\ n \in PostId /\ n <= lastPost
  BY DEF SetRef, At, IInv, CallsInv, CallInv
<1>4. CASE req[r].op = "createUser"
  <2>1. /\ posts' = posts /\ n \in UserId
        /\ users' = IF users[n] = NoRow THEN users ELSE [users EXCEPT ![n].ref = n]
    BY <1>3, <1>4 DEF SetRef, With
  <2>2. /\ \A id \in UserId : users'[id] = NoRow <=> users[id] = NoRow
        /\ \A id \in UserId : users[id] # NoRow =>
              /\ users'[id].name = users[id].name
              /\ users'[id].ref = IF id = n THEN n ELSE users[id].ref
        /\ users' \in [UserId -> UserRow \cup {NoRow}]
    <3>1. CASE users[n] = NoRow
      BY <1>0, <2>1, <3>1
    <3>2. CASE users[n] # NoRow
      <4>. DEFINE row == [users[n] EXCEPT !.ref = n]
      <4>1. users[n] \in UserRow /\ n \in Ref
        BY <1>0, <2>1, <3>2, Numbers
      <4>2. row \in UserRow /\ row.name = users[n].name /\ row.ref = n
        BY <4>1 DEF UserRow
      <4>3. row # NoRow
        BY <4>2, RowAssumption
      <4>4. users' = [users EXCEPT ![n] = row]
        BY <2>1, <3>2
      <4>. HIDE DEF row
      <4>. QED
        BY <1>0, <2>1, <3>2, <4>2, <4>3, <4>4
    <3>. QED
      BY <3>1, <3>2
  <2>3. TablesType' /\ Evolves /\ Numbered' /\ RefsMirror' /\ NamesUnique'
    BY <1>0, <2>1, <2>2, Numbers
    DEF TablesType, Evolves, Numbered, RefsMirror, NamesUnique, Taken, IInv
  <2>4. NoOrphans'
    BY <1>0, <2>1, <2>2 DEF NoOrphans, IInv, TablesType, PostRow
  <2>5. CallInv(r)'
    BY <1>0, <1>1, <1>2, <1>3, <1>4, <2>2 DEF CallInv, Created
  <2>. QED
    BY <1>0, <1>1, <2>3, <2>4, <2>5, WriteInv
<1>5. CASE req[r].op = "createPost"
  <2>1. /\ users' = users /\ n \in PostId
        /\ posts' = IF posts[n] = NoRow THEN posts ELSE [posts EXCEPT ![n].ref = n]
    BY <1>3, <1>5 DEF SetRef, With
  <2>2. /\ \A id \in PostId : posts'[id] = NoRow <=> posts[id] = NoRow
        /\ \A id \in PostId : posts[id] # NoRow =>
              /\ posts'[id].owner = posts[id].owner
              /\ posts'[id].ref = IF id = n THEN n ELSE posts[id].ref
        /\ posts' \in [PostId -> PostRow \cup {NoRow}]
    <3>1. CASE posts[n] = NoRow
      BY <1>0, <2>1, <3>1
    <3>2. CASE posts[n] # NoRow
      <4>. DEFINE row == [posts[n] EXCEPT !.ref = n]
      <4>1. posts[n] \in PostRow /\ n \in Ref
        BY <1>0, <2>1, <3>2, Numbers
      <4>2. row \in PostRow /\ row.owner = posts[n].owner /\ row.ref = n
        BY <4>1 DEF PostRow
      <4>3. row # NoRow
        BY <4>2, RowAssumption
      <4>4. posts' = [posts EXCEPT ![n] = row]
        BY <2>1, <3>2
      <4>. HIDE DEF row
      <4>. QED
        BY <1>0, <2>1, <3>2, <4>2, <4>3, <4>4
    <3>. QED
      BY <3>1, <3>2
  <2>3. TablesType' /\ Evolves /\ Numbered' /\ RefsMirror' /\ NamesUnique'
    BY <1>0, <2>1, <2>2, Numbers
    DEF TablesType, Evolves, Numbered, RefsMirror, NamesUnique, Taken, IInv
  <2>4. NoOrphans'
    BY <1>0, <2>1, <2>2 DEF NoOrphans, IInv, TablesType
  <2>5. CallInv(r)'
    BY <1>0, <1>1, <1>2, <1>3, <1>5, <2>2 DEF CallInv, Created
  <2>. QED
    BY <1>0, <1>1, <2>3, <2>4, <2>5, WriteInv
<1>. QED
  BY <1>3, <1>4, <1>5

\* What a call at step "write" knows.
LEMMA AtWrite ==
    ASSUME IInv, NEW r \in Request, At(r, "write")
    PROVE  /\ Checked(req[r]) /\ req[r].answer = "none" /\ req[r].op \in Op
           /\ req[r].id \in Id \cup {NoId} /\ req[r].name \in Name \cup {NoName}
           /\ users \in [UserId -> UserRow \cup {NoRow}]
           /\ posts \in [PostId -> PostRow \cup {NoRow}]
           /\ comments \subseteq UserId \X PostId
           /\ lastUser \in Nat /\ lastPost \in Nat
BY Numbers DEF IInv, At, CallsInv, CallInv, Checked, RequestType, ReqRecord, TablesType,
               CountersType, Op

LEMMA UpdateUserInv == ASSUME IInv, NEW r \in Request, UpdateUser(r) PROVE IInv'
<1>. DEFINE n == req[r].id
<1>1. /\ req[r].op = "updateUser" /\ n \in UserId /\ n \in Id \cup {NoId}
      /\ UNCHANGED <<posts, comments, counters>>
  BY AtWrite, Numbers DEF UpdateUser, Checked
<1>2. CASE UNCHANGED users /\ Answer(r, "GRAPHQL_VALIDATION_FAILED")
  BY <1>1, <1>2, AnswerInv DEF Answers, SafeErrorCodes, tables
<1>3. ASSUME Written(r, "reread", n)
      PROVE  \E q \in ReqRecord :
                req' = [req EXCEPT ![r] = q] /\ q.pc = "reread" /\ q.answer = "none" /\ CallInv(r)'
  <2>1. PICK q \in ReqRecord :
           /\ req' = [req EXCEPT ![r] = q]
           /\ q.pc = "reread" /\ q.op = "updateUser" /\ q.id = n /\ q.answer = "none"
    BY <1>1, <1>3, WrittenType DEF IInv
  <2>2. req'[r] = q
    BY <2>1, Stepped
  <2>. QED
    BY <1>1, <2>1, <2>2 DEF CallInv, Created
<1>4. CASE UNCHANGED users /\ Written(r, "reread", n)
  <2>1. UNCHANGED <<tables, counters>>
    BY <1>1, <1>4 DEF tables
  <2>. QED
    BY <1>3, <1>4, <2>1, NoWrite
<1>5. CASE /\ users[n] # NoRow /\ req[r].name # NoName /\ ~Taken(req[r].name, n)
           /\ Written(r, "reread", n) /\ users' = [users EXCEPT ![n].name = req[r].name]
  <2>. DEFINE row == [users[n] EXCEPT !.name = req[r].name]
  <2>1. req[r].name \in Name /\ users[n] \in UserRow
    BY <1>1, <1>5, AtWrite DEF UpdateUser
  <2>2. row \in UserRow /\ row.name = req[r].name /\ row.ref = users[n].ref
    BY <2>1 DEF UserRow
  <2>3. row # NoRow
    BY <2>2, RowAssumption
  <2>4. users' = [users EXCEPT ![n] = row]
    BY <1>5
  <2>. HIDE DEF row
  <2>5. users'[n] = row /\ \A id \in UserId \ {n} : users'[id] = users[id]
    BY <1>1, <2>4, AtWrite DEF UpdateUser
  <2>6. TablesType'
    BY <1>1, <2>2, <2>4, AtWrite DEF UpdateUser, TablesType
  <2>7. UNCHANGED <<posts, comments, lastUser, lastPost>> /\ lastUser \in Nat /\ lastPost \in Nat
    BY <1>1, AtWrite DEF UpdateUser, counters
  <2>8. Evolves /\ Numbered' /\ RefsMirror'
    BY <1>5, <2>2, <2>3, <2>5, <2>7, Numbers DEF Evolves, Numbered, RefsMirror, IInv
  <2>9. NamesUnique'
    <3>1. \A other \in UserId \ {n} : users[other] # NoRow => users[other].name # row.name
      BY <1>5, <2>2 DEF Taken
    <3>2. \A id, other \in UserId :
             users[id] # NoRow /\ users[other] # NoRow /\ id # other
             => users[id].name # users[other].name
      BY DEF IInv, NamesUnique, Taken
    <3>3. \A id, other \in UserId :
             users'[id] # NoRow /\ users'[other] # NoRow /\ id # other
             => users'[id].name # users'[other].name
      BY <2>5, <3>1, <3>2
    <3>. QED
      BY <3>3 DEF NamesUnique, Taken
  <2>10. NoOrphans'
    BY <1>5, <2>3, <2>5, <2>7 DEF NoOrphans, IInv, TablesType, PostRow
  <2>. QED
    BY <1>3, <1>5, <2>6, <2>7, <2>8, <2>9, <2>10, WriteInv
<1>. QED
  BY <1>2, <1>4, <1>5 DEF UpdateUser

LEMMA UpdatePostInv == ASSUME IInv, NEW r \in Request, UpdatePost(r) PROVE IInv'
<1>. DEFINE n == req[r].id
<1>1. /\ req[r].op = "updatePost" /\ n \in PostId /\ n \in Id \cup {NoId}
      /\ req[r].auth \in UserId /\ UNCHANGED <<users, comments, lastUser, lastPost>>
      /\ lastUser \in Nat /\ lastPost \in Nat
      /\ posts \in [PostId -> PostRow \cup {NoRow}]
  BY AtWrite, Numbers DEF UpdatePost, Checked, counters
<1>2. PICK q \in ReqRecord :
         /\ req' = [req EXCEPT ![r] = q]
         /\ q.pc = "reread" /\ q.op = "updatePost" /\ q.id = n /\ q.answer = "none"
  BY <1>1, WrittenType DEF IInv, UpdatePost
<1>3. req'[r] = q
  BY <1>2, Stepped
<1>4. CallInv(r)'
  BY <1>1, <1>2, <1>3 DEF CallInv, Created
<1>5. CASE posts' = posts
  <2>1. UNCHANGED <<tables, counters>>
    BY <1>1, <1>5 DEF tables, counters
  <2>. QED
    BY <1>2, <1>4, <2>1, NoWrite
<1>6. CASE posts[n] # NoRow /\ posts' = [posts EXCEPT ![n].body = req[r].auth]
  <2>. DEFINE row == [posts[n] EXCEPT !.body = req[r].auth]
  <2>1. row \in PostRow /\ row.owner = posts[n].owner /\ row.ref = posts[n].ref
    BY <1>1, <1>6 DEF PostRow
  <2>2. row # NoRow
    BY <2>1, RowAssumption
  <2>3. posts' = [posts EXCEPT ![n] = row]
    BY <1>6
  <2>. HIDE DEF row
  <2>4. posts'[n] = row /\ \A id \in PostId \ {n} : posts'[id] = posts[id]
    BY <1>1, <2>3
  <2>5. TablesType'
    BY <1>1, <2>1, <2>3 DEF IInv, TablesType
  <2>6. Evolves /\ Numbered' /\ RefsMirror'
    BY <1>1, <1>6, <2>1, <2>2, <2>4, Numbers DEF Evolves, Numbered, RefsMirror, IInv
  <2>7. NamesUnique'
    BY <1>1 DEF NamesUnique, Taken, IInv
  <2>8. NoOrphans'
    BY <1>1, <1>6, <2>1, <2>2, <2>4 DEF NoOrphans, IInv, TablesType
  <2>. QED
    BY <1>1, <1>2, <1>4, <2>5, <2>6, <2>7, <2>8, WriteInv
<1>. QED
  BY <1>5, <1>6 DEF UpdatePost

\* The answer of a delete says whether the row was there.
LEMMA DeletedAnswer ==
    ASSUME IInv, NEW r \in Request, NEW row, Deleted(r, row)
    PROVE  \E q \in ReqRecord :
              /\ req' = [req EXCEPT ![r] = q]
              /\ q.pc = "done" /\ q.answer \in {"true", "false"}
              /\ q.answer = "true" => row # NoRow /\ q.op = req[r].op /\ q.id = req[r].id
<1>1. {"true", "false"} \subseteq Answers
  BY DEF Answers
<1>2. PICK a \in {"true", "false"} : Answer(r, a) /\ (a = "true" => row # NoRow)
  BY DEF Deleted
<1>. QED
  BY <1>1, <1>2, Answered

LEMMA DeleteUserInv == ASSUME IInv, NEW r \in Request, DeleteUser(r) PROVE IInv'
<1>. DEFINE n == req[r].id
<1>1. /\ req[r].op = "deleteUser" /\ n \in UserId
      /\ UNCHANGED <<lastUser, lastPost>> /\ lastUser \in Nat /\ lastPost \in Nat
      /\ users \in [UserId -> UserRow \cup {NoRow}]
      /\ posts \in [PostId -> PostRow \cup {NoRow}]
  BY AtWrite DEF DeleteUser, Checked, counters
<1>2. PICK q \in ReqRecord :
         /\ req' = [req EXCEPT ![r] = q]
         /\ q.pc = "done" /\ q.answer \in {"true", "false"}
         /\ q.answer = "true" => users[n] # NoRow /\ q.op = "deleteUser" /\ q.id = n
  BY <1>1, DeletedAnswer DEF DeleteUser
<1>3. req'[r] = q
  BY <1>2, Stepped
<1>4. /\ users'[n] = NoRow /\ \A id \in UserId \ {n} : users'[id] = users[id]
      /\ users' \in [UserId -> UserRow \cup {NoRow}]
  BY <1>1 DEF DeleteUser
<1>5. /\ \A p \in PostId : posts'[p] = IF posts[p] # NoRow /\ posts[p].owner = n
                                       THEN NoRow ELSE posts[p]
      /\ posts' \in [PostId -> PostRow \cup {NoRow}]
  BY <1>1 DEF DeleteUser
<1>6. /\ comments' \subseteq comments
      /\ \A c \in comments' : c[1] # n /\ ~(posts[c[2]] # NoRow /\ posts[c[2]].owner = n)
  BY AtWrite DEF DeleteUser, Without
<1>7. /\ TablesType' /\ NamesUnique'
      /\ Evolves /\ Numbered' /\ RefsMirror'
  <2>1. TablesType'
    BY <1>4, <1>5, <1>6 DEF TablesType, IInv
  <2>2. Evolves
    <3>1. \A id \in UserId : users'[id] = NoRow \/ users'[id] = users[id]
      BY <1>4
    <3>2. \A id \in PostId : posts'[id] = NoRow \/ posts'[id] = posts[id]
      BY <1>5
    <3>3. lastUser <= lastUser' /\ lastPost <= lastPost'
      BY <1>1
    <3>. QED
      BY <3>1, <3>2, <3>3, Zenon DEF Evolves
  <2>3. Numbered' /\ RefsMirror'
    BY <1>1, <1>4, <1>5 DEF Numbered, RefsMirror, IInv
  <2>4. NamesUnique'
    BY <1>4 DEF NamesUnique, Taken, IInv
  <2>. QED
    BY <2>1, <2>2, <2>3, <2>4
<1>8. NoOrphans'
  BY <1>1, <1>4, <1>5, <1>6 DEF NoOrphans, IInv, TablesType, PostRow
<1>9. CallInv(r)'
  BY <1>1, <1>2, <1>3, <1>4 DEF CallInv, Gone, IInv, Numbered
<1>. QED
  BY <1>1, <1>2, <1>7, <1>8, <1>9, WriteInv

LEMMA DeletePostInv == ASSUME IInv, NEW r \in Request, DeletePost(r) PROVE IInv'
<1>. DEFINE n == req[r].id
<1>1. /\ req[r].op = "deletePost" /\ n \in PostId
      /\ UNCHANGED <<users, lastUser, lastPost>> /\ lastUser \in Nat /\ lastPost \in Nat
      /\ posts \in [PostId -> PostRow \cup {NoRow}]
  BY AtWrite DEF DeletePost, Checked, counters
<1>2. PICK q \in ReqRecord :
         /\ req' = [req EXCEPT ![r] = q]
         /\ q.pc = "done" /\ q.answer \in {"true", "false"}
         /\ q.answer = "true" => posts[n] # NoRow /\ q.op = "deletePost" /\ q.id = n
  BY <1>1, DeletedAnswer DEF DeletePost
<1>3. req'[r] = q
  BY <1>2, Stepped
<1>4. /\ posts'[n] = NoRow /\ \A id \in PostId \ {n} : posts'[id] = posts[id]
      /\ posts' \in [PostId -> PostRow \cup {NoRow}]
  BY <1>1 DEF DeletePost
<1>5. comments' \subseteq comments /\ \A c \in comments' : c[2] # n
  BY DEF DeletePost, Without
<1>6. /\ TablesType' /\ NamesUnique'
      /\ Evolves /\ Numbered' /\ RefsMirror'
  <2>1. TablesType'
    BY <1>1, <1>4, <1>5 DEF TablesType, IInv
  <2>2. Evolves
    BY <1>1, <1>4, Numbers DEF Evolves
  <2>3. Numbered' /\ RefsMirror'
    BY <1>1, <1>4 DEF Numbered, RefsMirror, IInv
  <2>4. NamesUnique'
    BY <1>1 DEF NamesUnique, Taken, IInv
  <2>. QED
    BY <2>1, <2>2, <2>3, <2>4
<1>7. NoOrphans'
  BY <1>1, <1>4, <1>5 DEF NoOrphans, IInv, TablesType
<1>8. CallInv(r)'
  BY <1>1, <1>2, <1>3, <1>4 DEF CallInv, Gone, IInv, Numbered
<1>. QED
  BY <1>1, <1>2, <1>6, <1>7, <1>8, WriteInv

LEMMA InsertCommentInv == ASSUME IInv, NEW r \in Request, InsertComment(r) PROVE IInv'
<1>. DEFINE comment == <<req[r].auth, req[r].id>>
<1>1. /\ req[r].op = "createComment" /\ req[r].id \in PostId /\ req[r].auth \in UserId
      /\ UNCHANGED <<users, posts, counters>>
  BY AtWrite DEF InsertComment, Checked
<1>2. CASE /\ UNCHANGED comments
           /\ \E a \in {"ER_NO_REFERENCED_ROW", "GRAPHQL_VALIDATION_FAILED"} : Answer(r, a)
  <2>1. {"ER_NO_REFERENCED_ROW", "GRAPHQL_VALIDATION_FAILED"} \subseteq Answers
    BY DEF Answers, SafeErrorCodes
  <2>2. UNCHANGED <<tables, counters>>
    BY <1>1, <1>2 DEF tables
  <2>. QED
    BY <1>2, <2>1, <2>2, AnswerInv
<1>3. CASE /\ users[req[r].auth] # NoRow /\ posts[req[r].id] # NoRow
           /\ Answer(r, "row") /\ comments' = comments \cup {comment}
  <2>1. "row" \in Answers
    BY DEF Answers
  <2>2. PICK q \in ReqRecord : /\ req' = [req EXCEPT ![r] = q]
                               /\ q.pc = "done" /\ q.answer = "row" /\ q.op = "createComment"
    BY <1>1, <1>3, <2>1, Answered
  <2>3. req'[r] = q
    BY <2>2, Stepped
  <2>4. CallInv(r)'
    BY <2>2, <2>3 DEF CallInv, Created
  <2>5. UNCHANGED <<users, posts, lastUser, lastPost>>
    BY <1>1 DEF counters
  <2>6. TablesType'
    BY <1>1, <1>3, <2>5 DEF IInv, TablesType
  <2>7. Evolves /\ Numbered' /\ RefsMirror' /\ NamesUnique'
    BY <2>5, Numbers DEF Evolves, Numbered, RefsMirror, NamesUnique, Taken, IInv, CountersType
  <2>8. NoOrphans'
    BY <1>3, <2>5 DEF IInv, NoOrphans
  <2>. QED
    BY <2>2, <2>4, <2>5, <2>6, <2>7, <2>8, WriteInv
<1>. QED
  BY <1>2, <1>3 DEF InsertComment

LEMMA InitInv == Init => IInv
<1>. SUFFICES ASSUME Init PROVE IInv
  OBVIOUS
<1>1. PICK m \in 0 .. MaxUser : SeedName \in [1 .. m -> Name]
  BY SeedAssumption
<1>2. PICK n \in 0 .. MaxPost : SeedOwner \in [1 .. n -> DOMAIN SeedName]
  BY SeedAssumption
<1>3. /\ DOMAIN SeedName = 1 .. m /\ DOMAIN SeedOwner = 1 .. n
      /\ 1 .. m \subseteq UserId /\ 1 .. n \subseteq PostId
      /\ m \in Nat /\ n \in Nat
  BY <1>1, <1>2, Numbers
<1>4. lastUser = m /\ lastPost = n
  <2>1. Cardinality(1 .. m) = m /\ Cardinality(1 .. n) = n
    BY <1>3, FS_Interval
  <2>2. lastUser = Cardinality(1 .. m) /\ lastPost = Cardinality(1 .. n)
    BY <1>3, Zenon DEF Init
  <2>. QED
    BY <2>1, <2>2
<1>5. CountersType
  BY <1>1, <1>2, <1>4 DEF CountersType
<1>6. Idle \in ReqRecord /\ Idle.pc = "idle" /\ Idle.answer = "none"
  BY DEF Idle, ReqRecord, Step, Inputs, Answers
<1>7. RequestType /\ \A r \in Request : req[r] = Idle
  BY <1>6 DEF Init, RequestType
<1>8. CallsInv /\ DeletedOnce
  BY <1>6, <1>7 DEF CallsInv, CallInv, DeletedOnce
<1>9. \A id \in UserId :
         users[id] = IF id \in 1 .. m THEN [name |-> SeedName[id], ref |-> SeedRef] ELSE NoRow
  BY <1>3 DEF Init
<1>10. \A id \in PostId :
          posts[id] = IF id \in 1 .. n
                      THEN [owner |-> SeedOwner[id], body |-> SeedOwner[id], ref |-> SeedRef]
                      ELSE NoRow
  BY <1>3 DEF Init
<1>11. \A id \in 1 .. m : [name |-> SeedName[id], ref |-> SeedRef] \in UserRow
  BY <1>1 DEF UserRow, Ref
<1>12. \A id \in 1 .. n :
          /\ SeedOwner[id] \in 1 .. m
          /\ [owner |-> SeedOwner[id], body |-> SeedOwner[id], ref |-> SeedRef] \in PostRow
  <2>1. \A id \in 1 .. n : SeedOwner[id] \in 1 .. m /\ SeedOwner[id] \in UserId
    BY <1>2, <1>3
  <2>. QED
    BY <2>1 DEF PostRow, Ref
<1>13. TablesType
  <2>1. users \in [UserId -> UserRow \cup {NoRow}]
    BY <1>3, <1>9, <1>11 DEF Init
  <2>2. posts \in [PostId -> PostRow \cup {NoRow}]
    BY <1>3, <1>10, <1>12 DEF Init
  <2>. QED
    BY <2>1, <2>2 DEF TablesType, Init
<1>14. Numbered /\ RefsMirror
  <2>1. Numbered
    <3>1. /\ \A id \in UserId : users[id] # NoRow => id \in 1 .. m
          /\ \A id \in PostId : posts[id] # NoRow => id \in 1 .. n
      BY <1>9, <1>10, Zenon
    <3>. QED
      BY <1>3, <1>4, <3>1 DEF Numbered
  <2>2. /\ \A id \in UserId \ DOMAIN SeedName : users[id] = NoRow
        /\ \A id \in PostId \ DOMAIN SeedOwner : posts[id] = NoRow
    BY DEF Init
  <2>. QED
    BY <2>1, <2>2 DEF RefsMirror
<1>15. NamesUnique
  <2>1. \A i, j \in 1 .. m : SeedName[i] = SeedName[j] => i = j
    BY <1>3, SeedAssumption
  <2>2. \A id \in UserId : users[id] # NoRow => id \in 1 .. m /\ users[id].name = SeedName[id]
    <3>. SUFFICES ASSUME NEW id \in UserId, users[id] # NoRow
                  PROVE  id \in 1 .. m /\ users[id].name = SeedName[id]
      OBVIOUS
    <3>1. id \in 1 .. m /\ users[id] = [name |-> SeedName[id], ref |-> SeedRef]
      BY <1>9, Zenon
    <3>. QED
      BY <3>1
  <2>. QED
    BY <2>1, <2>2, Zenon DEF NamesUnique, Taken
<1>16. NoOrphans
  <2>1. \A id \in 1 .. m : users[id] # NoRow
    BY <1>3, <1>9, <1>11, RowAssumption
  <2>. QED
    BY <1>10, <1>12, <2>1 DEF NoOrphans, Init
<1>17. RoomLeft
  <2>1. Inserting("createUser") = {} /\ Inserting("createPost") = {}
    BY <1>6, <1>7 DEF Inserting, At
  <2>2. /\ IsFiniteSet(Inserting("createUser")) /\ IsFiniteSet(Inserting("createPost"))
        /\ Cardinality(Inserting("createUser")) = 0 /\ Cardinality(Inserting("createPost")) = 0
    BY <2>1, FS_EmptySet, Zenon
  <2>. QED
    BY <1>1, <1>2, <1>4, <2>2 DEF RoomLeft
<1>. QED
  BY <1>5, <1>7, <1>8, <1>13, <1>14, <1>15, <1>16, <1>17 DEF IInv

LEMMA StepInv == IInv /\ [Next]_vars => IInv'
<1>1. ASSUME IInv, Next PROVE IInv'
  BY <1>1, ArriveInv, InsertUserInv, InsertPostInv, SetRefInv, RereadInv, UpdateUserInv,
     DeleteUserInv, LoadPostInv, UpdatePostInv, DeletePostInv, InsertCommentInv,
     ReturnInv, ValueRejectedInv, DbFailsInv
  DEF Next
<1>2. ASSUME IInv, UNCHANGED vars PROVE IInv'
  <2>1. UNCHANGED <<users, posts, comments, lastUser, lastPost, req>>
    BY <1>2 DEF vars, tables, counters
  <2>2. /\ TablesType' /\ CountersType' /\ RequestType' /\ Numbered' /\ RefsMirror'
        /\ NamesUnique' /\ NoOrphans' /\ DeletedOnce'
    BY <1>2, <2>1
    DEF IInv, TablesType, CountersType, RequestType, Numbered, RefsMirror, NamesUnique,
        NoOrphans, DeletedOnce, Taken
  <2>3. RoomLeft'
    <3>1. Inserting("createUser")' = Inserting("createUser")
          /\ Inserting("createPost")' = Inserting("createPost")
      BY <2>1 DEF Inserting, At
    <3>. QED
      BY <1>2, <2>1, <3>1, Zenon DEF IInv, RoomLeft
  <2>4. CallsInv'
    BY <1>2, <2>1 DEF IInv, CallsInv, CallInv, Created, Checked, Gone
  <2>. QED
    BY <2>2, <2>3, <2>4 DEF IInv
<1>. QED
  BY <1>1, <1>2

-----------------------------------------------------------------------------
(* Theorems. *)

\* What calls have checked or been told stays true, whatever other calls do
\* at their awaits.
THEOREM Invariance == Spec => []IInv
BY InitInv, StepInv, PTL DEF Spec

\* The tables, and the calls in flight, are well formed.
THEOREM TypeCorrect == Spec => []TypeOK
<1>1. IInv => TypeOK
  BY DEF IInv, TypeOK, TablesType, CountersType, RequestType, ReqRecord, Step
<1>. QED
  BY <1>1, Invariance, PTL

\* The unique index keeps names apart, however creates and renames overlap.
THEOREM OneUserPerName == Spec => []NamesUnique
<1>1. IInv => NamesUnique
  BY DEF IInv
<1>. QED
  BY <1>1, Invariance, PTL

\* The foreign keys leave no post and no comment without its parents.
THEOREM ParentsExist == Spec => []NoOrphans
<1>1. IInv => NoOrphans
  BY DEF IInv
<1>. QED
  BY <1>1, Invariance, PTL

\* index_ref is 0 or the id, and the id once a create was answered: an id is
\* never used again, so a later row cannot take the answer's place.
THEOREM RefMirrors == Spec => []IndexRefMirrorsId
<1>1. IInv => IndexRefMirrorsId
  BY DEF IInv, IndexRefMirrorsId, RefsMirror, CallsInv, CallInv, Created
<1>. QED
  BY <1>1, Invariance, PTL

\* One delete of a row says true: the row is gone then, and never comes back.
THEOREM DeleteSaidOnce == Spec => []DeletedOnce
<1>1. IInv => DeletedOnce
  BY DEF IInv
<1>. QED
  BY <1>1, Invariance, PTL

-----------------------------------------------------------------------------
(* What a step may never do. *)

Acts(r) ==
    \/ Arrive(r) \/ InsertUser(r) \/ InsertPost(r) \/ SetRef(r) \/ Reread(r)
    \/ UpdateUser(r) \/ DeleteUser(r) \/ LoadPost(r) \/ UpdatePost(r)
    \/ DeletePost(r) \/ InsertComment(r) \/ ValueRejected(r) \/ Return(r) \/ DbFails(r)

\* A step is that of the call it changes.
LEMMA OwnStep ==
    ASSUME IInv, [Next]_vars, NEW r \in Request, req'[r] # req[r]
    PROVE  Acts(r)
<1>1. Next
  BY DEF vars
<1>2. PICK s \in Request : Acts(s)
  BY <1>1 DEF Next, Acts
<1>3. \E q : req' = [req EXCEPT ![s] = q]
  BY <1>2, Zenon
  DEF Acts, Arrive, InsertUser, InsertPost, SetRef, Reread, UpdateUser, DeleteUser, LoadPost,
      UpdatePost, DeletePost, InsertComment, ValueRejected, Return, DbFails, Answer,
      Written, Deleted
<1>4. s = r
  BY <1>3 DEF IInv, RequestType
<1>. QED
  BY <1>2, <1>4

LEMMA OwnerStep ==
    ASSUME IInv, [Next]_vars, NEW r \in Request, At(r, "write"), req'[r] # req[r]
    PROVE  /\ \A p \in PostId : posts[p] # NoRow /\ posts'[p] # posts[p] =>
                 posts[p].owner = req[r].auth
           /\ \A id \in UserId : users[id] # NoRow /\ users'[id] # users[id] =>
                 id = req[r].auth
<1>1. \/ UpdateUser(r) \/ DeleteUser(r) \/ UpdatePost(r) \/ DeletePost(r)
      \/ InsertComment(r) \/ ValueRejected(r) \/ DbFails(r)
  BY OwnStep
  DEF Acts, At, Arrive, InsertUser, InsertPost, SetRef, Reread, LoadPost, Return
<1>2. /\ Checked(req[r])
      /\ users \in [UserId -> UserRow \cup {NoRow}]
      /\ posts \in [PostId -> PostRow \cup {NoRow}]
  BY AtWrite
<1>3. CASE InsertComment(r) \/ ValueRejected(r) \/ DbFails(r)
  BY <1>3 DEF InsertComment, ValueRejected, DbFails, tables
<1>4. CASE UpdateUser(r)
  BY <1>2, <1>4 DEF UpdateUser, Checked
<1>5. CASE DeleteUser(r)
  BY <1>2, <1>5 DEF DeleteUser, Checked
<1>6. CASE UpdatePost(r)
  BY <1>2, <1>6 DEF UpdatePost, Checked
<1>7. CASE DeletePost(r)
  BY <1>2, <1>7 DEF DeletePost, Checked
<1>. QED
  BY <1>1, <1>3, <1>4, <1>5, <1>6, <1>7

\* The owner that was checked an await ago still is the owner, or the row is
\* gone: nobody writes another's row.
THEOREM OnlyOwnersWrite == Spec => OwnersWrite
<1>1. IInv /\ [Next]_vars =>
        [\A r \in Request : At(r, "write") /\ req'[r] # req[r] =>
            /\ \A p \in PostId : posts[p] # NoRow /\ posts'[p] # posts[p] =>
                  posts[p].owner = req[r].auth
            /\ \A id \in UserId : users[id] # NoRow /\ users'[id] # users[id] =>
                  id = req[r].auth]_vars
  BY OwnerStep
<1>. QED
  BY <1>1, Invariance, PTL DEF Spec, OwnersWrite

Explained(r) ==
    \/ req'[r].answer = "ER_CONNECTION"
    \/ ~Fits(r)
    \/ At(r, "idle") /\ req'[r].answer = "TypeError"
    \/ Missing(users, req[r].auth)
    \/ req[r].op \in {"createUser", "updateUser"} /\ Missing(users, req[r].id)
    \/ req[r].op \notin {"createUser", "updateUser"} /\ Missing(posts, req[r].id)

\* Answers that a client sees as they are.
Plain == SafeErrorCodes \cup {"row", "true", "false"}

LEMMA PlainSent ==
    ASSUME NEW a \in Plain PROVE Sent(a) # "INTERNAL_SERVER_ERROR"
BY DEF Plain, Sent, SafeErrorCodes

LEMMA AnswerStep ==
    ASSUME IInv, NEW r \in Request, NEW a \in Answers, Answer(r, a)
    PROVE  req'[r].answer = a
<1>1. PICK q \in ReqRecord : req' = [req EXCEPT ![r] = q] /\ q.answer = a
  BY Answered
<1>. QED
  BY <1>1, Stepped

LEMMA ExplainedStep ==
    ASSUME IInv, [Next]_vars, NEW r \in Request, ~At(r, "done"), req'[r].pc = "done",
           Sent(req'[r].answer) = "INTERNAL_SERVER_ERROR"
    PROVE  Explained(r)
<1>1. Acts(r)
  BY OwnStep DEF At
<1>2. req'[r].answer \notin Plain
  BY PlainSent
<1>3. ASSUME NEW a \in Plain \cap Answers, Answer(r, a) PROVE FALSE
  BY <1>2, <1>3, AnswerStep
<1>4. /\ Plain \subseteq Answers
      /\ {"GRAPHQL_VALIDATION_FAILED", "UNAUTHENTICATED", "true", "false", "row"} \subseteq Plain
      /\ {"null", "ER_NO_REFERENCED_ROW", "ER_CONNECTION"} \subseteq Answers
  BY DEF Plain, Answers, SafeErrorCodes
<1>5. ASSUME NEW a \in {"GRAPHQL_VALIDATION_FAILED", "UNAUTHENTICATED", "true", "false", "row"},
             Answer(r, a)
      PROVE  FALSE
  BY <1>3, <1>4, <1>5
<1>6. /\ users \in [UserId -> UserRow \cup {NoRow}]
      /\ posts \in [PostId -> PostRow \cup {NoRow}]
      /\ req \in [Request -> ReqRecord] /\ CallInv(r)
  BY DEF IInv, TablesType, RequestType, CallsInv
<1>7. ASSUME NEW step \in {"ref", "reread"}, NEW id \in Id \cup {NoId}, Written(r, step, id)
      PROVE  FALSE
  <2>1. PICK q \in ReqRecord : req' = [req EXCEPT ![r] = q] /\ q.pc = step
    BY <1>7, WrittenType DEF IInv
  <2>2. req'[r] = q
    BY <2>1, Stepped
  <2>. QED
    BY <2>1, <2>2
<1>8. req[r].id \in Id \cup {NoId}
  BY <1>6 DEF ReqRecord
<1>9. CASE Arrive(r)
  <2>1. PICK c, auth :
           \/ Refusal(c, auth) # "none" /\ req' = [req EXCEPT ![r] = Over(c, Refusal(c, auth))]
           \/ req' = [req EXCEPT ![r] =
                 [op |-> c.op, id |-> c.id, name |-> c.name, input |-> c.input,
                  auth |-> auth, answer |-> "none", pc |-> FirstStep(c.op)]]
    BY <1>9 DEF Arrive
  <2>2. FirstStep(c.op) # "done"
    BY DEF FirstStep
  <2>3. /\ Refusal(c, auth) # "none"
        /\ req' = [req EXCEPT ![r] = Over(c, Refusal(c, auth))]
    BY <1>6, <2>1, <2>2
  <2>4. req'[r].answer = Refusal(c, auth)
    BY <1>6, <2>3 DEF Over, Idle
  <2>5. req'[r].answer = "TypeError"
    BY <1>2, <2>3, <2>4, RefusalCodes DEF Plain
  <2>. QED
    BY <1>9, <2>5 DEF Arrive, Explained
<1>10. CASE InsertUser(r)
  <2>1. lastUser + 1 \in Id \cup {NoId}
    BY <1>10, RoomFor, Numbers DEF InsertUser, Inserting, At
  <2>. QED
    BY <1>5, <1>7, <1>10, <2>1 DEF InsertUser
<1>11. CASE InsertPost(r)
  <2>1. lastPost + 1 \in Id \cup {NoId}
    BY <1>11, RoomFor, Numbers DEF InsertPost, Inserting, At
  <2>2. users[req[r].auth] = NoRow
    BY <1>7, <1>11, <2>1 DEF InsertPost
  <2>3. req[r].auth \in UserId
    BY <1>6, <1>11 DEF InsertPost, At, CallInv
  <2>. QED
    BY <1>6, <2>2, <2>3 DEF Explained, Missing
<1>12. CASE SetRef(r)
  BY <1>7, <1>8, <1>12 DEF SetRef
<1>13. CASE Reread(r)
  <2>1. \/ req[r].op \in {"createUser", "updateUser"} /\ req[r].id \in UserId
        \/ req[r].op \in {"createPost", "updatePost"} /\ req[r].id \in PostId
    BY <1>6, <1>13 DEF Reread, At, CallInv
  <2>2. CASE req[r].op \in {"createUser", "updateUser"}
    <3>1. users[req[r].id] = NoRow
      BY <1>5, <1>13, <2>2 DEF Reread
    <3>. QED
      BY <1>6, <2>1, <2>2, <3>1 DEF Explained, Missing
  <2>3. CASE req[r].op \notin {"createUser", "updateUser"}
    <3>1. posts[req[r].id] = NoRow
      BY <1>5, <1>13, <2>3 DEF Reread
    <3>. QED
      BY <1>6, <2>1, <2>3, <3>1 DEF Explained, Missing
  <2>. QED
    BY <2>2, <2>3
<1>14. CASE UpdateUser(r)
  BY <1>5, <1>7, <1>8, <1>14 DEF UpdateUser
<1>15. CASE DeleteUser(r)
  BY <1>5, <1>15 DEF DeleteUser, Deleted
<1>16. CASE LoadPost(r)
  <2>1. ASSUME req' = [req EXCEPT ![r].pc = "write"] PROVE FALSE
    <3>1. req'[r] = [req[r] EXCEPT !.pc = "write"] /\ req[r] \in ReqRecord
      BY <1>6, <2>1
    <3>2. req'[r].pc = "write"
      BY <3>1 DEF ReqRecord
    <3>. QED
      BY <3>2
  <2>. QED
    BY <1>5, <1>16, <2>1 DEF LoadPost
<1>17. CASE UpdatePost(r)
  BY <1>7, <1>8, <1>17 DEF UpdatePost
<1>18. CASE DeletePost(r)
  BY <1>5, <1>18 DEF DeletePost, Deleted
<1>19. CASE InsertComment(r)
  <2>1. users[req[r].auth] = NoRow \/ posts[req[r].id] = NoRow
    BY <1>5, <1>19 DEF InsertComment
  <2>2. req[r].op = "createComment" /\ req[r].auth \in UserId /\ req[r].id \in PostId
    BY <1>19, AtWrite DEF InsertComment, Checked
  <2>. QED
    BY <1>6, <2>1, <2>2 DEF Explained, Missing
<1>20. CASE Return(r)
  <2>1. req'[r].pc = "idle"
    BY <1>6, <1>20 DEF Return, Idle
  <2>. QED
    BY <2>1
<1>21. CASE DbFails(r)
  BY <1>4, <1>21, AnswerStep DEF DbFails, Explained
<1>22. CASE ValueRejected(r)
  BY <1>22 DEF ValueRejected, Explained
<1>. QED
  BY <1>1, <1>9, <1>10, <1>11, <1>12, <1>13, <1>14, <1>15, <1>16, <1>17, <1>18, <1>19,
     <1>20, <1>21, <1>22
  DEF Acts

\* Whatever the interleaving, "Internal server error" means that MySQL failed,
\* that a row was not there, or that an input got past the validators and not
\* past its column or, the null of a password, past validateUserPassword: the
\* errors the program throws on purpose are never masked.
THEOREM MaskedErrorsExplained == Spec => InternalErrorsExplained
<1>1. IInv /\ [Next]_vars =>
        [\A r \in Request :
           ~At(r, "done") /\ req'[r].pc = "done"
           /\ Sent(req'[r].answer) = "INTERNAL_SERVER_ERROR" =>
              \/ req'[r].answer = "ER_CONNECTION"
              \/ ~Fits(r)
              \/ At(r, "idle") /\ req'[r].answer = "TypeError"
              \/ Missing(users, req[r].auth)
              \/ req[r].op \in {"createUser", "updateUser"} /\ Missing(users, req[r].id)
              \/ req[r].op \notin {"createUser", "updateUser"} /\ Missing(posts, req[r].id)]_vars
  BY ExplainedStep DEF Explained
<1>. QED
  BY <1>1, Invariance, PTL DEF Spec, InternalErrorsExplained

=============================================================================
