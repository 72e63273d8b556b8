------------------------------ MODULE Records ------------------------------
(***************************************************************************)
(* The tables users, posts and comments on the primary, and the operations *)
(* that read and write them: the resolvers' login and ownership checks,    *)
(* the validation of inputs, the SQL statements of the data sources, the   *)
(* constraints of the migrations, and the errors clients get to see.       *)
(*                                                                         *)
(* A statement is atomic; between two statements of a call there is an     *)
(* await, and any other call may run.  A call is authenticated when it     *)
(* arrives: its user may be deleted while it runs, or have been before (a  *)
(* cached token).  Texts, names and passwords are what the checks tell     *)
(* apart; a comment is its author and its post.                            *)
(***************************************************************************)
EXTENDS Naturals, FiniteSetsExt

CONSTANTS
    Name,       \* user names that pass validateUserName
    Request,    \* calls that can be in flight at the same time
    MaxUser,    \* bound: users ever inserted
    MaxPost,    \* bound: posts ever inserted
    MaxComment, \* bound: comments at a time
    SeedName,   \* SeedName[i]: name of the i-th seeded user
    SeedOwner,  \* SeedOwner[i]: author of the i-th seeded post
    NoRow,      \* no such row
    NoName      \* userName is not part of an update

ASSUME BoundAssumption ==
    MaxUser \in Nat /\ MaxPost \in Nat /\ MaxComment \in Nat
ASSUME NullAssumption == NoName \notin Name
ASSUME SeedAssumption ==
    /\ \E n \in 0 .. MaxUser : SeedName \in [1 .. n -> Name]
    /\ \E n \in 0 .. MaxPost : SeedOwner \in [1 .. n -> DOMAIN SeedName]
    /\ \A i, j \in DOMAIN SeedName : SeedName[i] = SeedName[j] => i = j

VARIABLES
    users,      \* users[id]: user_name and index_ref, or NoRow
    posts,      \* posts[id]: user_id, index_ref and who wrote the text
    comments,   \* <<author, post>>
    lastUser,   \* AUTO_INCREMENT of users
    lastPost,   \* AUTO_INCREMENT of posts
    req         \* req[r]: call r, from the first await to its answer

tables == <<users, posts, comments>>
counters == <<lastUser, lastPost>>
vars == <<tables, counters, req>>

UserId == 1 .. MaxUser
PostId == 1 .. MaxPost
Id == UserId \cup PostId
NoId == 0
SeedRef == 17
Ref == Id \cup {NoId, SeedRef}
UserRow == [name : Name, ref : Ref]
PostRow == [owner : UserId, body : UserId, ref : Ref]
ASSUME RowAssumption ==
    NoRow \notin UserRow \cup PostRow \cup Name \cup [owner : UserId, body : UserId]

Op == {"createUser", "updateUser", "deleteUser",
       "createPost", "updatePost", "deletePost", "createComment"}

\* An input is fine, or the first check that it fails, or "unfit": it passes
\* them, but the column or the id in a statement does not take it (null where
\* the schema allows it, a text too long, an id that is no number).
Inputs == {"fine", "badName", "weakPassword", "nullPassword", "empty", "unfit"}
Calls ==
    LET Of(op, ids, names, inputs) ==
            [op : {op}, id : ids, name : names, input : inputs]
    IN  UNION {
          Of("createUser", {NoId}, Name, Inputs \ {"nullPassword", "empty"}),
          Of("updateUser", UserId, Name \cup {NoName}, {"fine"}),
          Of("updateUser", UserId, {NoName}, Inputs \ {"fine"}),
          Of("createPost", {NoId}, {NoName}, {"fine", "empty", "unfit"}),
          Of("updatePost", PostId, {NoName}, {"fine", "empty", "unfit"}),
          Of("deletePost", PostId, {NoName}, {"fine", "unfit"}),
          Of("createComment", PostId, {NoName}, {"fine", "unfit"}),
          Of("deleteUser", UserId, {NoName}, {"fine"}) }

\* What a call ends with.
SafeErrorCodes ==
    {"UNAUTHENTICATED", "BAD_USER_INPUT", "GRAPHQL_VALIDATION_FAILED"}
Answers == SafeErrorCodes \cup
    {"none", "row", "null", "true", "false",
     "TypeError", "ER_DUP_ENTRY", "ER_NO_REFERENCED_ROW", "ER_BAD_VALUE",
     "ER_CONNECTION"}

\* formatGraphQLError: an error of the program keeps its code, all others are
\* masked; so is null where the schema says User! or Post!.
Sent(answer) ==
    IF answer \in SafeErrorCodes THEN answer
    ELSE IF answer \in {"row", "true", "false"} THEN "data"
    ELSE "INTERNAL_SERVER_ERROR"

Idle == [pc |-> "idle", op |-> "none", id |-> NoId, name |-> NoName,
         input |-> "fine", auth |-> NoId, answer |-> "none"]

TypeOK ==
    /\ users \in [UserId -> UserRow \cup {NoRow}]
    /\ posts \in [PostId -> PostRow \cup {NoRow}]
    /\ comments \subseteq UserId \X PostId
    /\ lastUser \in 0 .. MaxUser /\ lastPost \in 0 .. MaxPost
    /\ req \in [Request ->
          [pc : {"idle", "insert", "ref", "load", "write", "reread", "done"},
           op : Op \cup {"none"}, id : Id \cup {NoId},
           name : Name \cup {NoName}, input : Inputs,
           auth : UserId \cup {NoId}, answer : Answers]]

\* Seeded rows have index_refs of their own.
Init ==
    /\ users = [id \in UserId |-> IF id \in DOMAIN SeedName
                  THEN [name |-> SeedName[id], ref |-> SeedRef] ELSE NoRow]
    /\ posts = [id \in PostId |-> IF id \in DOMAIN SeedOwner
                  THEN [owner |-> SeedOwner[id], body |-> SeedOwner[id],
                        ref |-> SeedRef]
                  ELSE NoRow]
    /\ comments = {}
    /\ lastUser = Cardinality(DOMAIN SeedName)
    /\ lastPost = Cardinality(DOMAIN SeedOwner)
    /\ req = [r \in Request |-> Idle]

At(r, step) == req[r].pc = step
\* After a write a call only needs the id of its row.
Written(r, step, id) ==
    req' = [req EXCEPT ![r] =
               [Idle EXCEPT !.pc = step, !.op = req[r].op, !.id = id]]
\* A call that is over, with the row it created or deleted.
Over(c, a) ==
    IF a \in {"row", "true"}
    THEN [Idle EXCEPT !.pc = "done", !.answer = a, !.op = c.op, !.id = c.id]
    ELSE [Idle EXCEPT !.pc = "done", !.answer = a]
Answer(r, a) == req' = [req EXCEPT ![r] = Over(req[r], a)]

-----------------------------------------------------------------------------
(* Up to the first await. *)

\* Operations that do not ask who calls.
Public == {"createUser"}

\* The error a call is refused with at once; in updatePost the check of the
\* input comes after the post is read.  null has no match() to call.
Refusal(c, auth) ==
    IF \/ auth = NoId /\ c.op \notin Public
       \/ auth # c.id /\ c.op \in {"updateUser", "deleteUser"}
    THEN "UNAUTHENTICATED"
    ELSE CASE c.input = "weakPassword" -> "BAD_USER_INPUT"
           [] c.input = "nullPassword" -> "TypeError"
           [] c.input = "badName" -> "GRAPHQL_VALIDATION_FAILED"
           [] c.input = "empty" /\ c.op # "updatePost" -> "GRAPHQL_VALIDATION_FAILED"
           [] OTHER -> "none"

FirstStep(op) ==
    CASE op \in {"createUser", "createPost"} -> "insert"
      [] op \in {"updatePost", "deletePost"} -> "load"
      [] OTHER -> "write"

\* The bounds leave room for the inserts under way.
Inserting(op) == {r \in Request : At(r, "insert") /\ req[r].op = op}
Room(op) ==
    CASE op = "createUser" -> lastUser + Cardinality(Inserting(op)) < MaxUser
      [] op = "createPost" -> lastPost + Cardinality(Inserting(op)) < MaxPost
      [] OTHER -> TRUE

Arrive(r) ==
    /\ At(r, "idle")
    /\ \E c \in Calls, auth \in 0 .. lastUser :
          IF Refusal(c, auth) # "none"
          THEN req' = [req EXCEPT ![r] = Over(c, Refusal(c, auth))]
          ELSE /\ Room(c.op) /\ (c.op \in Public => auth = NoId)
               /\ req' = [req EXCEPT ![r] =
                     [op |-> c.op, id |-> c.id, name |-> c.name, input |-> c.input,
                      auth |-> auth, answer |-> "none", pc |-> FirstStep(c.op)]]
    /\ UNCHANGED <<tables, counters>>

-----------------------------------------------------------------------------
(* The statements. *)

Fits(r) == req[r].input # "unfit"

\* MySQL rejects a value that its column does not take.  A statement that finds
\* no row to write it to may go through.
ValueRejected(r) ==
    /\ req[r].pc \in {"insert", "write"} /\ ~Fits(r)
    /\ Answer(r, "ER_BAD_VALUE")
    /\ UNCHANGED <<tables, counters>>

Taken(name, id) ==
    \E other \in UserId \ {id} : users[other] # NoRow /\ users[other].name = name

\* Mutant: a check that the name is free replaces the unique index.
InsertUserUnchecked(r) ==
    /\ At(r, "insert") /\ req[r].op = "createUser" /\ Fits(r)
    /\ lastUser' = lastUser + 1
    /\ users' = [users EXCEPT ![lastUser + 1] = [name |-> req[r].name, ref |-> 0]]
    /\ Written(r, "ref", lastUser + 1)
    /\ UNCHANGED <<posts, comments, lastPost>>

\* Mutant: ER_DUP_ENTRY is not translated.
InsertUserUntranslated(r) ==
    /\ At(r, "insert") /\ req[r].op = "createUser" /\ Fits(r)
    /\ lastUser' = lastUser + 1
    /\ IF Taken(req[r].name, NoId)
       THEN Answer(r, "ER_DUP_ENTRY") /\ UNCHANGED users
       ELSE /\ users' = [users EXCEPT ![lastUser + 1] =
                            [name |-> req[r].name, ref |-> 0]]
            /\ Written(r, "ref", lastUser + 1)
    /\ UNCHANGED <<posts, comments, lastPost>>

\* An AUTO_INCREMENT value is used up whether or not the insert succeeds, and
\* never used again.
InsertUser(r) ==
    /\ At(r, "insert") /\ req[r].op = "createUser" /\ Fits(r)
    /\ lastUser' = lastUser + 1
    /\ IF Taken(req[r].name, NoId)
       THEN Answer(r, "GRAPHQL_VALIDATION_FAILED") /\ UNCHANGED users
       ELSE /\ users' = [users EXCEPT ![lastUser + 1] =
                            [name |-> req[r].name, ref |-> 0]]
            /\ Written(r, "ref", lastUser + 1)
    /\ UNCHANGED <<posts, comments, lastPost>>

\* Mutant: ids are numbered MAX(id) + 1.
InsertPostReusingIds(r) ==
    /\ At(r, "insert") /\ req[r].op = "createPost" /\ Fits(r)
    /\ users[req[r].auth] # NoRow
    /\ LET free == 1 + Max({p \in PostId : posts[p] # NoRow} \cup {NoId})
       IN  /\ free \in PostId
           /\ posts' = [posts EXCEPT ![free] =
                           [owner |-> req[r].auth, body |-> req[r].auth, ref |-> 0]]
           /\ Written(r, "ref", free)
    /\ UNCHANGED <<users, comments, counters>>

InsertPost(r) ==
    /\ At(r, "insert") /\ req[r].op = "createPost" /\ Fits(r)
    /\ lastPost' = lastPost + 1
    /\ IF users[req[r].auth] = NoRow
       THEN Answer(r, "ER_NO_REFERENCED_ROW") /\ UNCHANGED posts
       ELSE /\ posts' = [posts EXCEPT ![lastPost + 1] =
                [owner |-> req[r].auth, body |-> req[r].auth, ref |-> 0]]
            /\ Written(r, "ref", lastPost + 1)
    /\ UNCHANGED <<users, comments, lastUser>>

\* UPDATE index_ref; a row that is gone matches nothing.
With(rows, id, ref) ==
    IF rows[id] = NoRow THEN rows ELSE [rows EXCEPT ![id].ref = ref]

\* Mutant: MAX(index_ref) + 1, as before.
SetRefToMax(r) ==
    LET next(rows) ==
            1 + Max({NoId} \cup {rows[id].ref : id \in {x \in DOMAIN rows : rows[x] # NoRow}})
    IN  /\ At(r, "ref")
        /\ users' = IF req[r].op = "createUser"
                    THEN With(users, req[r].id, next(users)) ELSE users
        /\ posts' = IF req[r].op = "createPost"
                    THEN With(posts, req[r].id, next(posts)) ELSE posts
        /\ Written(r, "reread", req[r].id)
        /\ UNCHANGED <<comments, counters>>

SetRef(r) ==
    /\ At(r, "ref")
    /\ users' = IF req[r].op = "createUser"
                THEN With(users, req[r].id, req[r].id) ELSE users
    /\ posts' = IF req[r].op = "createPost"
                THEN With(posts, req[r].id, req[r].id) ELSE posts
    /\ Written(r, "reread", req[r].id)
    /\ UNCHANGED <<comments, counters>>

\* getUser and getPost, after a write.
Reread(r) ==
    /\ At(r, "reread")
    /\ LET row == IF req[r].op \in {"createUser", "updateUser"}
                  THEN users[req[r].id] ELSE posts[req[r].id]
       IN  Answer(r, IF row = NoRow THEN "null" ELSE "row")
    /\ UNCHANGED <<tables, counters>>

\* Mutant: ER_DUP_ENTRY is caught and forgotten.
UpdateUserSwallowed(r) ==
    LET id == req[r].id  name == req[r].name IN
    /\ At(r, "write") /\ req[r].op = "updateUser" /\ (Fits(r) \/ users[id] = NoRow)
    /\ Written(r, "reread", req[r].id)
    /\ users' = IF users[id] = NoRow \/ name = NoName \/ Taken(name, id) THEN users
                ELSE [users EXCEPT ![id].name = name]
    /\ UNCHANGED <<posts, comments, counters>>

\* Mutant: a name that is not part of the update is written all the same.
UpdateUserOmitted(r) ==
    LET id == req[r].id  name == req[r].name IN
    /\ At(r, "write") /\ req[r].op = "updateUser" /\ (Fits(r) \/ users[id] = NoRow)
    /\ ~Taken(name, id)
    /\ users' = IF users[id] = NoRow THEN users ELSE [users EXCEPT ![id].name = name]
    /\ Written(r, "reread", req[r].id)
    /\ UNCHANGED <<posts, comments, counters>>

UpdateUser(r) ==
    LET id == req[r].id  name == req[r].name IN
    /\ At(r, "write") /\ req[r].op = "updateUser" /\ (Fits(r) \/ users[id] = NoRow)
    /\ IF users[id] = NoRow \/ name = NoName
       THEN Written(r, "reread", req[r].id) /\ UNCHANGED users
       ELSE IF Taken(name, id)
       THEN Answer(r, "GRAPHQL_VALIDATION_FAILED") /\ UNCHANGED users
       ELSE Written(r, "reread", req[r].id) /\ users' = [users EXCEPT ![id].name = name]
    /\ UNCHANGED <<posts, comments, counters>>

\* Rows that the foreign keys delete along with their parents.
Without(gone) == {c \in comments : c[2] \notin gone}
Deleted(r, row) == Answer(r, IF row = NoRow THEN "false" ELSE "true")

\* Mutant: the foreign keys of comments are left out.
DeleteUserNoCascade(r) ==
    LET id == req[r].id IN
    /\ At(r, "write") /\ req[r].op = "deleteUser"
    /\ Deleted(r, users[id])
    /\ users' = [users EXCEPT ![id] = NoRow]
    /\ posts' = [p \in PostId |-> IF posts[p] # NoRow /\ posts[p].owner = id
                              THEN NoRow ELSE posts[p]]
    /\ UNCHANGED <<comments, counters>>

\* Mutant: the number of deleted rows is not looked at.
DeleteUserAlwaysTrue(r) ==
    LET id == req[r].id IN
    /\ At(r, "write") /\ req[r].op = "deleteUser"
    /\ Answer(r, "true")
    /\ users' = [users EXCEPT ![id] = NoRow]
    /\ LET orphans == {p \in PostId : posts[p] # NoRow /\ posts[p].owner = id}
       IN  /\ posts' = [p \in PostId |-> IF p \in orphans THEN NoRow ELSE posts[p]]
           /\ comments' = {c \in Without(orphans) : c[1] # id}
    /\ UNCHANGED counters

DeleteUser(r) ==
    LET id == req[r].id
        orphans == {p \in PostId : posts[p] # NoRow /\ posts[p].owner = id}
    IN
    /\ At(r, "write") /\ req[r].op = "deleteUser"
    /\ Deleted(r, users[id])
    /\ users' = [users EXCEPT ![id] = NoRow]
    /\ posts' = [p \in PostId |-> IF p \in orphans THEN NoRow ELSE posts[p]]
    /\ comments' = {c \in Without(orphans) : c[1] # id}
    /\ UNCHANGED counters

\* getPost, and what updatePost and deletePost check on it before they write.
LoadPost(r) ==
    LET post == posts[req[r].id] IN
    /\ At(r, "load")
    /\ IF post = NoRow THEN Answer(r, "GRAPHQL_VALIDATION_FAILED")
       ELSE IF post.owner # req[r].auth THEN Answer(r, "UNAUTHENTICATED")
       ELSE IF req[r].input = "empty" THEN Answer(r, "GRAPHQL_VALIDATION_FAILED")
       ELSE req' = [req EXCEPT ![r].pc = "write"]
    /\ UNCHANGED <<tables, counters>>

UpdatePost(r) ==
    LET id == req[r].id IN
    /\ At(r, "write") /\ req[r].op = "updatePost" /\ (Fits(r) \/ posts[id] = NoRow)
    /\ posts' = IF posts[id] = NoRow THEN posts
                ELSE [posts EXCEPT ![id].body = req[r].auth]
    /\ Written(r, "reread", req[r].id)
    /\ UNCHANGED <<users, comments, counters>>

DeletePost(r) ==
    LET id == req[r].id IN
    /\ At(r, "write") /\ req[r].op = "deletePost" /\ (Fits(r) \/ posts[id] = NoRow)
    /\ Deleted(r, posts[id])
    /\ posts' = [posts EXCEPT ![id] = NoRow]
    /\ comments' = Without({id})
    /\ UNCHANGED <<users, counters>>

\* CommentEvents has what precedes and what follows the insert.
InsertComment(r) ==
    LET comment == <<req[r].auth, req[r].id>> IN
    /\ At(r, "write") /\ req[r].op = "createComment" /\ Fits(r)
    /\ IF users[req[r].auth] = NoRow \/ posts[req[r].id] = NoRow
       THEN Answer(r, "ER_NO_REFERENCED_ROW") /\ UNCHANGED comments
       ELSE IF comment \in comments
       THEN Answer(r, "GRAPHQL_VALIDATION_FAILED") /\ UNCHANGED comments
       ELSE /\ Answer(r, "row")
            /\ Cardinality(comments) < MaxComment
            /\ comments' = comments \cup {comment}
    /\ UNCHANGED <<users, posts, counters>>

Return(r) ==
    /\ At(r, "done")
    /\ req' = [req EXCEPT ![r] = Idle]
    /\ UNCHANGED <<tables, counters>>

\* MySQL rejects the statement, or its answer is lost after it took effect.
\* A process that dies does the same to the tables.
DbFails(r) ==
    /\ req[r].pc \notin {"idle", "done"} \/ req[r].answer \in {"row", "true"}
    /\ Answer(r, "ER_CONNECTION")
    /\ UNCHANGED <<tables, counters>>

Next ==
    \E r \in Request :
        \/ Arrive(r) \/ InsertUser(r) \/ InsertPost(r) \/ SetRef(r) \/ Reread(r)
        \/ UpdateUser(r) \/ DeleteUser(r) \/ LoadPost(r) \/ UpdatePost(r)
        \/ DeletePost(r) \/ InsertComment(r) \/ ValueRejected(r)
        \/ Return(r) \/ DbFails(r)

Spec == Init /\ [][Next]_vars

-----------------------------------------------------------------------------
(* Properties. *)

\* However creates and renames overlap, a name belongs to one user: login by
\* name can only mean that one (user/sql-datasource.ts:164-167, 218-220).
NamesUnique ==
    \A id \in UserId : users[id] # NoRow => ~Taken(users[id].name, id)

\* No post or comment outlives its author, no comment its post, also when an
\* insert meets a delete (20260310130002_add-fk-to-comments.ts).
NoOrphans ==
    /\ \A p \in PostId : posts[p] # NoRow => users[posts[p].owner] # NoRow
    /\ \A c \in comments : users[c[1]] # NoRow /\ posts[c[2]] # NoRow

\* updatePost and deletePost check the owner of a row and, an await later,
\* write by id: what is there by then is never somebody else's.  A user row is
\* changed by its user alone (post/sql-datasource.ts:154-176, 181-188,
\* user/resolvers.ts:40, 49).
OwnersWrite ==
    [][\A r \in Request : At(r, "write") /\ req'[r] # req[r] =>
          /\ \A p \in PostId : posts[p] # NoRow /\ posts'[p] # posts[p] =>
                posts[p].owner = req[r].auth
          /\ \A id \in UserId : users[id] # NoRow /\ users'[id] # users[id] =>
                id = req[r].auth]_vars

\* A create that was answered with its row left index_ref equal to the id; a
\* create that died before, or failed, left the row with index_ref 0
\* (user/sql-datasource.ts:185-190, post/sql-datasource.ts:140-144).
IndexRefMirrorsId ==
    /\ \A id \in UserId \ DOMAIN SeedName : users[id] # NoRow => users[id].ref \in {0, id}
    /\ \A id \in PostId \ DOMAIN SeedOwner : posts[id] # NoRow => posts[id].ref \in {0, id}
    /\ \A r \in Request : req[r].answer = "row" =>
          /\ req[r].op = "createUser" =>
                users[req[r].id] = NoRow \/ users[req[r].id].ref = req[r].id
          /\ req[r].op = "createPost" =>
                posts[req[r].id] = NoRow \/ posts[req[r].id].ref = req[r].id

\* Of several calls that delete a row, one is told that it did
\* (user/sql-datasource.ts:235-236, post/sql-datasource.ts:188-189).
DeletedOnce ==
    \A r, s \in Request :
        /\ req[r].op = req[s].op /\ req[r].op \in {"deleteUser", "deletePost"}
        /\ req[r].id = req[s].id
        /\ req[r].answer = "true" /\ req[s].answer = "true"
        => r = s

Missing(rows, id) == id \in DOMAIN rows /\ rows[id] = NoRow

\* "Internal server error" is for failures of MySQL, for rows that are not
\* there, one's own among them, and for what gets past the validators: a value
\* that its column does not take, and the null of updateUser's password, on
\* which validateUserPassword throws a TypeError (user-repository.ts:20).  It is
\* never for a name or comment that is taken, an input that a validator refuses
\* or a right (graphql/format-error.ts:9-17, datasources/sql/db-errors.ts).
InternalErrorsExplained ==
    [][\A r \in Request :
          ~At(r, "done") /\ req'[r].pc = "done"
          /\ Sent(req'[r].answer) = "INTERNAL_SERVER_ERROR" =>
             \/ req'[r].answer = "ER_CONNECTION"
             \/ ~Fits(r)
             \/ At(r, "idle") /\ req'[r].answer = "TypeError"
             \/ Missing(users, req[r].auth)
             \/ req[r].op \in {"createUser", "updateUser"} /\ Missing(users, req[r].id)
             \/ req[r].op \notin {"createUser", "updateUser"} /\ Missing(posts, req[r].id)
      ]_vars

-----------------------------------------------------------------------------
(* What callers may rely on. *)

\* index_ref is nobody's business.
NameOf(row) == IF row = NoRow THEN NoRow ELSE row.name
PostOf(row) == IF row = NoRow THEN NoRow ELSE [owner |-> row.owner, body |-> row.body]

StageOf(c) ==
    CASE c.pc = "idle" -> "none"
      [] c.pc \in {"insert", "load", "write"} -> "asked"
      [] c.pc \in {"ref", "reread"} -> "acted"
      [] c.pc = "done" /\ c.answer \in {"row", "true"} -> "ok"
      [] c.pc = "done" /\ c.answer = "false" -> "no"
      [] OTHER -> "failed"
CallOf(c) ==
    LET asked == StageOf(c) = "asked" IN
    [stage |-> StageOf(c), op |-> c.op, id |-> c.id,
     name |-> IF asked THEN c.name ELSE NoName, auth |-> IF asked THEN c.auth ELSE NoId]

NameTable == [id \in UserId |-> NameOf(users[id])]
PostTable == [id \in PostId |-> PostOf(posts[id])]
CallTable == [r \in Request |-> CallOf(req[r])]

Atomic == INSTANCE AtomicRecords WITH
    names <- NameTable, posts <- PostTable, call <- CallTable,
    usedUsers <- 1 .. lastUser, usedPosts <- 1 .. lastPost

\* Between the check of an owner and the write, and between the write and the
\* row that is answered, there are awaits; nobody who calls can tell: a call
\* checks and writes at once, or fails (post/sql-datasource.ts:149-190,
\* user/sql-datasource.ts:153-237, "owner only", readme.md:177-183).
AtomicSpec == Atomic!Spec

=============================================================================
