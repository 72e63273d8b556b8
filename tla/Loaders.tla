------------------------------ MODULE Loaders ------------------------------
(***************************************************************************)
(* How queries are answered: the lists and the DataLoader batches that go  *)
(* to the read replica, the point reads that stay on the primary, and the  *)
(* loaders' memo, which lives as long as the context that made it: one     *)
(* HTTP request, or one subscription with all its events.                  *)
(*                                                                         *)
(* The contents of the database are the ids in its three tables; who wrote *)
(* a post or a comment never changes.  An operation selects every field    *)
(* that has a resolver of its own, as deep as the post of an author.  The  *)
(* resolvers of one level run in one tick, so their keys reach the next    *)
(* batch together; batches of several loaders, or of one loader from       *)
(* several levels, are in flight at once and answered in any order.        *)
(***************************************************************************)
EXTENDS Naturals, Sequences, FiniteSetsExt

CONSTANTS
    User, Post, Comment,
    Writer,         \* Writer[x]: user_id of post or comment x
    About,          \* About[c]: post_id of comment c
    Seeded,         \* contents before the first write
    Context,        \* contexts that can be open at the same time
    Limits,         \* values of _limit; 0 stands for none, too
    MAX_PAGE_LIMIT,
    MaxWrites,      \* bound: writes
    Replicas        \* whether DATABASE_REPLICA_HOST may be set or not

ASSUME ForeignKeys ==
    /\ Writer \in [Post \cup Comment -> User] /\ About \in [Comment -> Post]
    /\ Seeded \in [users : SUBSET User, posts : SUBSET Post, comments : SUBSET Comment]
    /\ \A p \in Seeded.posts : Writer[p] \in Seeded.users
    /\ \A c \in Seeded.comments : About[c] \in Seeded.posts /\ Writer[c] \in Seeded.users
ASSUME Bounds == MaxWrites \in Nat /\ Limits \subseteq Nat /\ Replicas \subseteq BOOLEAN

VARIABLES
    replicated, \* TRUE iff knexRead is not knex
    history,    \* history[i]: the primary after i - 1 writes
    applied,    \* the replica shows history[applied]
    ctx         \* ctx[c]: context c

vars == <<replicated, history, applied, ctx>>

Id == User \cup Post \cup Comment
primary == history[Len(history)]
replica == history[applied]

-----------------------------------------------------------------------------
(* Fields, loaders and rows. *)

Roots == {"posts", "users", "createPost", "createdComment"}

\* The fields selected under a field that have resolvers of their own.
Selected(f) ==
    CASE f \in {"posts", "createPost"} -> {"user", "comments"}
      [] f = "users" -> {"posts of user"}
      [] f \in {"createdComment", "comments"} -> {"user of comment"}
      [] f = "user" -> {"posts of user"}
      [] f = "user of comment" -> {"posts of commenter"}
      [] OTHER -> {}

Loader(f) ==
    CASE f \in {"user", "user of comment"} -> "_byIdLoader"
      [] f = "comments" -> "batchLoaderCallback"
      [] OTHER -> "_byUserIdLoader"

\* The fields of an operation that load something.
Loading(root) ==
    LET below == UNION {Selected(f) : f \in Selected(root)}
    IN  Selected(root) \cup below \cup UNION {Selected(f) : f \in below}

\* What a resolver loads for a row of the level above.
Key(f, row) == IF Loader(f) = "_byIdLoader" THEN Writer[row] ELSE row
LoadsFor(fields, rows) == {[field |-> f, key |-> Key(f, x)] : f \in fields, x \in rows}

\* What the batch functions align with key k, from the rows of database d.
UsersById(k, d) == d.users \cap {k}
PostsByUserId(k, d) == {p \in d.posts : Writer[p] = k}
CommentsByPostId(k, d) == {c \in d.comments : About[c] = k}

Rows(loader, k, d) ==
    CASE loader = "_byIdLoader" -> UsersById(k, d)
      [] loader = "_byUserIdLoader" -> PostsByUserId(k, d)
      [] OTHER -> CommentsByPostId(k, d)

-----------------------------------------------------------------------------
(* Contexts. *)

Memo == [loader : {"_byIdLoader", "_byUserIdLoader", "batchLoaderCallback"},
         key : Id, rows : SUBSET Id]
Load == [field : UNION {Loading(f) : f \in Roots}, key : Id]

Closed == [todo |-> "closed", since |-> 1, forever |-> FALSE, root |-> "none",
           made |-> {}, memo |-> {}, queue |-> {}, flight |-> {},
           queries |-> 0, failed |-> FALSE]

TypeOK ==
    /\ replicated \in BOOLEAN
    /\ applied \in 1 .. Len(history)
    /\ ~replicated => applied = Len(history)
    /\ \A c \in Context :
          /\ ctx[c].todo \in {"closed", "ready", "reread", "loading"}
          /\ ctx[c].since <= applied
          /\ ctx[c].memo \subseteq Memo
          /\ ctx[c].queue \subseteq Load
          /\ \A b \in ctx[c].flight : b.keys \subseteq Id /\ b.loads \subseteq Load

Init ==
    /\ replicated \in Replicas
    /\ history = <<Seeded>>
    /\ applied = 1
    /\ ctx = [c \in Context |-> Closed]

Update(c, new) == ctx' = [ctx EXCEPT ![c] = new]
Reading == UNCHANGED <<replicated, history, applied>>

\* Mutant: the data sources are made once per process.
OpenShared(c, forever) ==
    /\ ctx[c].todo = "closed"
    /\ Update(c, [Closed EXCEPT !.todo = "ready", !.forever = forever, !.since = applied,
                                !.memo = ctx[c].memo])
    /\ Reading

\* context() builds data sources, and with them loaders, of its own; those of
\* a subscription serve all its events.
Open(c, forever) ==
    /\ ctx[c].todo = "closed"
    /\ Update(c, [Closed EXCEPT !.todo = "ready", !.forever = forever, !.since = applied])
    /\ Reading

\* An operation has the rows of its root field, or an error.
Start(c, root, rows, failed) ==
    Update(c, [ctx[c] EXCEPT !.todo = "loading", !.root = root, !.queries = 0,
                             !.failed = failed,
                             !.queue = LoadsFor(Selected(root), rows)])

Ready(c, forever) == ctx[c].todo = "ready" /\ ctx[c].forever = forever

\* getUsers, getPosts: at most _limit of the rows that _start leaves.  _limit
\* 0, or none, leaves them all, whatever MAX_PAGE_LIMIT is.
Pages(table) ==
    {page \in SUBSET table : \E limit \in Limits :
        limit > 0 => Cardinality(page) <= Min({limit, MAX_PAGE_LIMIT})}

\* Mutant: the list is read on the primary, its fields on the replica.
ListPostsOnPrimary(c) ==
    \E page \in Pages(primary.posts) : Start(c, "posts", page, FALSE)

ListPosts(c) == \E page \in Pages(replica.posts) : Start(c, "posts", page, FALSE)

ListUsers(c) == \E page \in Pages(replica.users) : Start(c, "users", page, FALSE)

\* A column that is not in ALLOWED_SORT_COLUMNS, a caller who is not logged
\* in, a negative number, or MySQL, make it an error.
RefuseList(c) == Start(c, "posts", {}, TRUE)

List(c) ==
    /\ Ready(c, FALSE)
    /\ ListPosts(c) \/ ListUsers(c) \/ RefuseList(c)
    /\ Reading

\* createComment of somebody, announced on PubSub; events are handled one at a
\* time, and may be late.
Event(c) ==
    /\ Ready(c, TRUE)
    /\ \E i \in 1 .. Len(history) : \E x \in history[i].comments :
          Start(c, "createdComment", {x}, FALSE)
    /\ Reading

-----------------------------------------------------------------------------
(* Writes and replication. *)

\* AUTO_INCREMENT: an id is used once.
Unused(x) == \A i \in 1 .. Len(history) :
    x \notin history[i].users \cup history[i].posts \cup history[i].comments

\* Mutant: without DATABASE_REPLICA_HOST, too, lists are read elsewhere.
CommitElsewhere(new) ==
    /\ Len(history) <= MaxWrites
    /\ history' = Append(history, new)
    /\ UNCHANGED <<applied, replicated>>

Commit(new) ==
    /\ Len(history) <= MaxWrites
    /\ history' = Append(history, new)
    /\ applied' = IF replicated THEN applied ELSE Len(history')
    /\ UNCHANGED replicated

\* The rows left, with ON DELETE CASCADE.
Without(users, posts) ==
    LET left == {p \in posts : Writer[p] \in users}
    IN  [users |-> users, posts |-> left,
         comments |-> {c \in primary.comments : Writer[c] \in users /\ About[c] \in left}]

InsertPost(p) ==
    /\ Unused(p)
    /\ Writer[p] \in primary.users
    /\ Commit([primary EXCEPT !.posts = @ \cup {p}])

\* A write of anybody else.
Write ==
    /\ \/ \E u \in User : Unused(u) /\ Commit([primary EXCEPT !.users = @ \cup {u}])
       \/ \E p \in Post : InsertPost(p)
       \/ \E c \in Comment :
             /\ Unused(c)
             /\ Writer[c] \in primary.users /\ About[c] \in primary.posts
             /\ Commit([primary EXCEPT !.comments = @ \cup {c}])
       \/ \E u \in primary.users : Commit(Without(primary.users \ {u}, primary.posts))
       \/ \E p \in primary.posts : Commit(Without(primary.users, primary.posts \ {p}))
    /\ UNCHANGED ctx

Replicate ==
    /\ applied < Len(history)
    /\ applied' = applied + 1
    /\ UNCHANGED <<replicated, history, ctx>>

\* createPost inserts the row and then reads it again with getPost.
CreatePost(c) ==
    /\ Ready(c, FALSE)
    /\ \E p \in Post :
          /\ InsertPost(p)
          /\ Update(c, [ctx[c] EXCEPT !.todo = "reread", !.made = {p}])

\* Mutant: the point read goes to the replica.
GetPostOnReplica(c) ==
    /\ ctx[c].todo = "reread"
    /\ LET found == ctx[c].made \cap replica.posts
       IN  Update(c, [ctx[c] EXCEPT !.todo = "loading", !.root = "createPost",
                                    !.made = @ \ found, !.failed = found = {},
                                    !.queue = LoadsFor(Selected("createPost"), found)])
    /\ Reading

GetPost(c) ==
    /\ ctx[c].todo = "reread"
    /\ LET found == ctx[c].made \cap primary.posts
       IN  Update(c, [ctx[c] EXCEPT !.todo = "loading", !.root = "createPost",
                                    !.made = @ \ found, !.failed = found = {},
                                    !.queue = LoadsFor(Selected("createPost"), found)])
    /\ Reading

-----------------------------------------------------------------------------
(* Batches. *)

Queued(c, loader) == {x \in ctx[c].queue : Loader(x.field) = loader}

\* Keys that are in the memo with their rows, or with a batch in flight.
Known(c, loader) ==
    {e.key : e \in {x \in ctx[c].memo : x.loader = loader}}
    \cup UNION {b.keys : b \in {x \in ctx[c].flight : x.loader = loader}}

Send(c, loader, loads, keys) ==
    Update(c, [ctx[c] EXCEPT
                 !.queue = @ \ loads,
                 !.flight = @ \cup {[loader |-> loader, keys |-> keys, loads |-> loads]},
                 !.queries = @ + IF keys = {} THEN 0 ELSE 1])

\* Mutant: no batching, a query for every key.
DispatchEach(c, loader) ==
    /\ \E x \in Queued(c, loader) : Send(c, loader, {x}, {x.key} \ Known(c, loader))
    /\ Reading

\* Mutant: no memo, a batch asks for all its keys.
DispatchAgain(c, loader) ==
    /\ Queued(c, loader) # {}
    /\ LET loads == Queued(c, loader) IN Send(c, loader, loads, {x.key : x \in loads})
    /\ Reading

\* At the end of a tick, one query asks for all new keys; loads of known keys
\* are part of the batch.
Dispatch(c, loader) ==
    /\ Queued(c, loader) # {}
    /\ LET loads == Queued(c, loader)
       IN  Send(c, loader, loads, {x.key : x \in loads} \ Known(c, loader))
    /\ Reading

\* Batch b is over, with new rows in the memo.  Its loads are answered but
\* those of keys that another batch has in flight; a User! that is null fails
\* the operation; the resolvers of the next level run.
Settle(c, b, new, failed) ==
    LET memo == ctx[c].memo \cup new
        others == ctx[c].flight \ {b}
        answers(x) == {e \in memo : e.loader = b.loader /\ e.key = x.key}
        settled == {x \in b.loads : answers(x) # {}}
        rows(x) == UNION {e.rows : e \in answers(x)}
    IN  Update(c, [ctx[c] EXCEPT
          !.memo = memo,
          !.flight = {IF o.loader = b.loader
                      THEN [o EXCEPT !.loads = @ \cup {x \in b.loads : x.key \in o.keys}]
                      ELSE o : o \in others},
          !.queue = @ \cup UNION {LoadsFor(Selected(x.field), rows(x)) : x \in settled},
          !.failed = \/ @ \/ failed
                     \/ b.loader = "_byIdLoader" /\ \E x \in settled : rows(x) = {}])

Answer(c, b) ==
    /\ Settle(c, b, {[loader |-> b.loader, key |-> k, rows |-> Rows(b.loader, k, replica)] :
                        k \in b.keys}, FALSE)
    /\ Reading

\* A rejected query; the loader forgets the keys.
QueryFails(c, b) ==
    /\ b.keys # {}
    /\ Settle(c, b, {}, TRUE)
    /\ Reading

Finish(c) ==
    /\ ctx[c].todo = "loading"
    /\ ctx[c].queue = {} /\ ctx[c].flight = {}
    /\ Update(c, IF ctx[c].forever
                 THEN [ctx[c] EXCEPT !.todo = "ready", !.failed = FALSE, !.root = "none"]
                 ELSE [ctx[c] EXCEPT !.todo = "closed"])
    /\ Reading

\* The subscription ends.
Unsubscribe(c) ==
    /\ Ready(c, TRUE)
    /\ Update(c, [ctx[c] EXCEPT !.todo = "closed"])
    /\ Reading

Progress(c) ==
    \/ GetPost(c) \/ Finish(c)
    \/ \E loader \in {Loader(f) : f \in UNION {Loading(r) : r \in Roots}} : Dispatch(c, loader)
    \/ \E b \in ctx[c].flight : Answer(c, b) \/ QueryFails(c, b)

Next ==
    \/ \E c \in Context :
          \/ \E forever \in BOOLEAN : Open(c, forever)
          \/ List(c) \/ Event(c) \/ CreatePost(c) \/ Unsubscribe(c) \/ Progress(c)
    \/ Write
    \/ Replicate

Spec == Init /\ [][Next]_vars

-----------------------------------------------------------------------------
(* What the program relies on. *)

Working(c) == ctx[c].todo = "loading"

\* What a field shows was on the replica at some time since the context was
\* made: no request sees what another one loaded before it, though a
\* subscription may show what was there when it began (context/index.ts:94-96,
\* user/sql-datasource.ts:87-96).
AnswersFresh ==
    \A c \in Context : ctx[c].todo # "closed" =>
        \A e \in ctx[c].memo : \E i \in ctx[c].since .. applied :
            e.rows = Rows(e.loader, e.key, history[i])

\* All fields of a response that ask a loader for the same key show the same
\* rows, though the replica moves between the batches (sql-datasource.ts:22-24).
OneValuePerKey ==
    \A c \in Context : \A d, e \in ctx[c].memo :
        d.loader = e.loader /\ d.key = e.key => d = e

\* "kill N+1 queries" (readme.md:5): an operation sends at most one query per
\* field that loads, however many rows there are and whichever of its batches
\* are answered first (user/sql-datasource.ts:87-96).
QueriesBounded ==
    \A c \in Context : Working(c) =>
        ctx[c].queries <= Cardinality(Loading(ctx[c].root))

\* A post that createPost does not find again has been deleted meanwhile
\* (post/sql-datasource.ts:110-119, "need to see it immediately").
ReadYourWrites ==
    \A c \in Context : Working(c) => ctx[c].made \cap primary.posts = {}

\* Post.user and Comment.user are User!, and a list is read before its
\* authors: a row without author, which fails the whole answer, means that a
\* deletion reached the replica meanwhile (post/resolvers.ts:55-61,
\* post/typedefs.ts:19).
MissingAuthorDeleted ==
    \A c \in Context : Working(c) /\ ctx[c].root \in {"posts", "users"} =>
        \A e \in ctx[c].memo : e.loader = "_byIdLoader" /\ e.rows = {} =>
            \E i \in ctx[c].since .. applied : e.key \in history[i].users

=============================================================================
