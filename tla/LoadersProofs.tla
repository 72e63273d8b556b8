--------------------------- MODULE LoadersProofs ---------------------------
(***************************************************************************)
(* Proofs about Loaders, for any tables, numbers of contexts and writes,   *)
(* and any lag of the replica.                                             *)
(***************************************************************************)
EXTENDS Loaders, SequenceTheorems, FiniteSetTheorems, FunctionTheorems, TLAPS

Fields == {"user", "comments", "posts of user", "user of comment", "posts of commenter"}
LoaderName == {"_byIdLoader", "_byUserIdLoader", "batchLoaderCallback"}
Table == [users : SUBSET User, posts : SUBSET Post, comments : SUBSET Comment]
Batch == [loader : LoaderName, keys : SUBSET Id, loads : SUBSET Load]
CtxRecord ==
    [todo : {"closed", "ready", "reread", "loading"}, since : Nat \ {0}, forever : BOOLEAN,
     root : Roots \cup {"none"}, made : SUBSET Post, memo : SUBSET Memo,
     queue : SUBSET Load, flight : SUBSET Batch, queries : Nat, failed : BOOLEAN]

\* What the foreign keys keep true of a state of the database.
Consistent(d) ==
    /\ \A p \in d.posts : Writer[p] \in d.users
    /\ \A k \in d.comments : Writer[k] \in d.users /\ About[k] \in d.posts

DataInv ==
    /\ replicated \in BOOLEAN
    /\ history \in Seq(Table) /\ applied \in 1 .. Len(history)
    /\ \A i \in 1 .. Len(history) : Consistent(history[i])
    /\ ~replicated => applied = Len(history)

\* A key is an id of the table that the loader selects by.
KeyType(loader) == IF loader = "batchLoaderCallback" THEN Post ELSE User
RowType(loader) ==
    CASE loader = "_byIdLoader" -> User
      [] loader = "_byUserIdLoader" -> Post
      [] OTHER -> Comment
LoadType(x) == x.field \in Fields /\ x.key \in KeyType(Loader(x.field))

LoadsInv(q) ==
    /\ \A x \in q.queue : LoadType(x)
    /\ \A b \in q.flight :
          /\ \A x \in b.loads : LoadType(x) /\ Loader(x.field) = b.loader
          /\ b.keys \subseteq KeyType(b.loader)

\* A key is in the memo, or with one batch, or neither.
MemoInv(q) ==
    /\ \A d, e \in q.memo : d.loader = e.loader /\ d.key = e.key => d = e
    /\ \A b \in q.flight : \A e \in q.memo : e.loader = b.loader => e.key \notin b.keys
    /\ \A a, b \in q.flight : a.loader = b.loader /\ a # b => a.keys \cap b.keys = {}

FreshInv(q) ==
    \A e \in q.memo : \E i \in q.since .. applied : e.rows = Rows(e.loader, e.key, history[i])

\* What createPost has made and not found again.
MadeInv(q) ==
    /\ \A p \in q.made : \E i \in 1 .. Len(history) : p \in history[i].posts
    /\ q.todo = "loading" => q.made \cap primary.posts = {}
    /\ q.todo = "ready" \/ q.forever = TRUE => q.made = {}

\* The authors that a list asks for were users when their rows were read.
WasUser(q, k) == \E i \in q.since .. applied : k \in history[i].users
AuthorsInv(q) ==
    /\ \A x \in q.queue : Loader(x.field) = "_byIdLoader" => WasUser(q, x.key)
    /\ \A b \in q.flight : b.loader = "_byIdLoader" => \A k \in b.keys : WasUser(q, k)
    /\ \A e \in q.memo : e.loader = "_byIdLoader" => WasUser(q, e.key)

CtxInv(q) ==
    /\ q \in CtxRecord /\ q.since <= applied
    /\ LoadsInv(q) /\ MemoInv(q) /\ FreshInv(q) /\ MadeInv(q)
    /\ q.todo # "loading" => q.queue = {} /\ q.flight = {}
    /\ q.todo = "ready" /\ q.forever = FALSE => q.memo = {}
    /\ q.todo = "loading" /\ q.root \in {"posts", "users"} => AuthorsInv(q)

IInv ==
    /\ DataInv
    /\ ctx \in [Context -> CtxRecord]
    /\ \A c \in Context : CtxInv(ctx[c])

-----------------------------------------------------------------------------
(* Fields, keys and rows. *)

LEMMA FieldFacts ==
    /\ \A f \in Fields : Loader(f) \in LoaderName /\ Selected(f) \subseteq Fields
    /\ \A f \in Roots : Selected(f) \subseteq Fields
BY DEF Fields, Loader, LoaderName, Selected, Roots

LEMMA FieldsLoad == Fields \subseteq UNION {Loading(f) : f \in Roots}
<1>1. Fields \subseteq Loading("posts")
  <2>1. "user" \in Selected("posts") /\ "comments" \in Selected("posts")
    BY DEF Selected
  <2>2. "posts of user" \in Selected("user") /\ "user of comment" \in Selected("comments")
    BY DEF Selected
  <2>3. "posts of commenter" \in Selected("user of comment")
    BY DEF Selected
  <2>. HIDE DEF Selected
  <2>. QED
    BY <2>1, <2>2, <2>3 DEF Loading, Fields
<1>. QED
  BY <1>1 DEF Roots

LEMMA LoadTyped ==
    ASSUME NEW f \in Fields, NEW k \in KeyType(Loader(f))
    PROVE  /\ [field |-> f, key |-> k] \in Load
           /\ LoadType([field |-> f, key |-> k])
BY FieldsLoad DEF Load, LoadType, KeyType, Id

LEMMA RowsTyped ==
    ASSUME NEW loader \in LoaderName, NEW k, NEW d \in Table
    PROVE  /\ Rows(loader, k, d) \subseteq RowType(loader)
           /\ Rows(loader, k, d) \subseteq Id
           /\ loader = "batchLoaderCallback" => Rows(loader, k, d) \subseteq d.comments
BY DEF Rows, RowType, LoaderName, Table, UsersById, PostsByUserId, CommentsByPostId, Id

\* The rows that a field's selection is resolved for have keys of its loaders.
LEMMA KeysBelow ==
    ASSUME NEW f \in Fields, NEW g \in Selected(f), NEW row \in RowType(Loader(f))
    PROVE  /\ g \in Fields /\ Key(g, row) \in KeyType(Loader(g))
           /\ Loader(g) = "_byIdLoader" =>
                 Loader(f) = "batchLoaderCallback" /\ Key(g, row) = Writer[row]
BY ForeignKeys DEF Fields, Selected, Loader, RowType, KeyType, Key

LEMMA KeysAtRoot ==
    /\ \A g \in Selected("posts"), row \in Post :
          /\ g \in Fields /\ Key(g, row) \in KeyType(Loader(g))
          /\ Loader(g) = "_byIdLoader" => Key(g, row) = Writer[row]
    /\ Selected("createPost") = Selected("posts")
    /\ \A g \in Selected("users"), row \in User :
          g \in Fields /\ Key(g, row) \in KeyType(Loader(g)) /\ Loader(g) # "_byIdLoader"
    /\ \A g \in Selected("createdComment"), row \in Comment :
          g \in Fields /\ Key(g, row) \in KeyType(Loader(g))
BY ForeignKeys DEF Fields, Selected, Loader, KeyType, Key

-----------------------------------------------------------------------------
(* The database moves on. *)

\* Another state follows; its posts are old ones, or never were there before.
Grows ==
    /\ applied <= applied'
    /\ \/ history' = history
       \/ \E new \in Table :
             /\ history' = Append(history, new)
             /\ \A p \in new.posts : p \in primary.posts \/ Unused(p)

LEMMA HistoryKept ==
    ASSUME DataInv, DataInv', Grows
    PROVE  /\ Len(history) \in Nat /\ Len(history') \in Nat /\ Len(history) <= Len(history')
           /\ applied \in Nat /\ applied' \in Nat /\ applied <= applied'
           /\ applied \in 1 .. Len(history) /\ applied' \in 1 .. Len(history')
           /\ \A i \in 1 .. Len(history) : history'[i] = history[i]
           /\ \A p \in Post : p \notin primary'.posts \/ p \in primary.posts \/ Unused(p)
<1>1. /\ Len(history) \in Nat /\ Len(history') \in Nat
      /\ applied \in 1 .. Len(history) /\ applied' \in 1 .. Len(history')
  BY DEF DataInv
<1>2. CASE history' = history
  BY <1>1, <1>2 DEF Grows, primary
<1>3. ASSUME NEW new \in Table, history' = Append(history, new),
             \A p \in new.posts : p \in primary.posts \/ Unused(p)
      PROVE  /\ Len(history) <= Len(history')
             /\ \A i \in 1 .. Len(history) : history'[i] = history[i]
             /\ \A p \in Post : p \notin primary'.posts \/ p \in primary.posts \/ Unused(p)
  <2>1. /\ Len(history') = Len(history) + 1 /\ history'[Len(history')] = new
        /\ \A i \in 1 .. Len(history) : history'[i] = history[i]
    BY <1>3 DEF DataInv
  <2>2. primary' = new
    BY <2>1 DEF primary
  <2>. QED
    BY <1>1, <1>3, <2>1, <2>2
<1>. QED
  BY <1>1, <1>2, <1>3 DEF Grows

LEMMA CtxKept ==
    ASSUME DataInv, DataInv', Grows, NEW q, CtxInv(q)
    PROVE  CtxInv(q)'
<1>0. q \in CtxRecord /\ q.since \in Nat \ {0} /\ q.since <= applied /\ q.made \subseteq Post
  BY DEF CtxInv, CtxRecord
<1>1. \A i \in q.since .. applied :
         i \in q.since .. applied' /\ i \in 1 .. Len(history) /\ history'[i] = history[i]
  BY <1>0, HistoryKept
<1>2. FreshInv(q)'
  BY <1>1 DEF FreshInv, CtxInv
<1>3. AuthorsInv(q) => AuthorsInv(q)'
  <2>1. \A k : WasUser(q, k) => WasUser(q, k)'
    BY <1>1 DEF WasUser
  <2>. QED
    BY <2>1 DEF AuthorsInv
<1>4. MadeInv(q)'
  <2>1. \A p \in q.made : \E i \in 1 .. Len(history') : p \in history'[i].posts
    BY HistoryKept DEF MadeInv, CtxInv
  <2>2. \A p \in q.made : ~Unused(p)
    BY DEF MadeInv, CtxInv, Unused
  <2>3. q.todo = "loading" => q.made \cap primary'.posts = {}
    BY <1>0, <2>2, HistoryKept DEF MadeInv, CtxInv
  <2>. QED
    BY <2>1, <2>3 DEF MadeInv, CtxInv
<1>5. q.since <= applied'
  BY <1>0, HistoryKept
<1>. QED
  BY <1>0, <1>2, <1>3, <1>4, <1>5 DEF CtxInv, LoadsInv, MemoInv

\* A step of context c.
LEMMA CtxStep ==
    ASSUME IInv, DataInv', Grows, NEW c \in Context, NEW new \in CtxRecord,
           Update(c, new), CtxInv(new)'
    PROVE  IInv'
<1>1. /\ ctx' \in [Context -> CtxRecord] /\ ctx'[c] = new
      /\ \A x \in Context \ {c} : ctx'[x] = ctx[x]
  BY DEF IInv, Update
<1>2. \A x \in Context \ {c} : CtxInv(ctx[x])'
  <2>1. \A q : CtxInv(q) => CtxInv(q)'
    BY CtxKept DEF IInv
  <2>. QED
    BY <1>1, <2>1 DEF IInv
<1>3. CtxInv(ctx[c])'
  BY <1>1
<1>. QED
  BY <1>1, <1>2, <1>3 DEF IInv

\* A step that leaves the database alone.
LEMMA ReadStep ==
    ASSUME IInv, NEW c \in Context, NEW new, CtxInv(new), Update(c, new), Reading
    PROVE  IInv'
<1>1. UNCHANGED <<replicated, history, applied>> /\ new \in CtxRecord
  BY DEF Reading, CtxInv
<1>2. DataInv' /\ Grows
  BY <1>1 DEF IInv, DataInv, Grows
<1>3. CtxInv(new)'
  BY <1>2, CtxKept DEF IInv
<1>. QED
  BY <1>1, <1>2, <1>3, CtxStep

-----------------------------------------------------------------------------
(* Operations begin and end. *)

LEMMA LoadsForTyped ==
    ASSUME NEW fields, NEW rows,
           \A g \in fields, row \in rows : g \in Fields /\ Key(g, row) \in KeyType(Loader(g))
    PROVE  LoadsFor(fields, rows) \subseteq Load /\ \A x \in LoadsFor(fields, rows) : LoadType(x)
BY LoadTyped DEF LoadsFor

LEMMA OpenInv == ASSUME IInv, NEW c \in Context, NEW forever \in BOOLEAN, Open(c, forever) PROVE IInv'
<1>. DEFINE new == [Closed EXCEPT !.todo = "ready", !.forever = forever, !.since = applied]
<1>1. applied \in Nat \ {0}
  BY DEF IInv, DataInv
<1>2. /\ new \in CtxRecord /\ new.since = applied /\ new.todo = "ready"
      /\ new.made = {} /\ new.memo = {} /\ new.queue = {} /\ new.flight = {}
  BY <1>1 DEF Closed, CtxRecord, Roots
<1>3. Update(c, new) /\ Reading
  BY DEF Open
<1>. HIDE DEF new
<1>4. CtxInv(new)
  BY <1>1, <1>2 DEF CtxInv, LoadsInv, MemoInv, FreshInv, MadeInv
<1>. QED
  BY <1>3, <1>4, ReadStep

LEMMA StartInv ==
    ASSUME IInv, NEW c \in Context, ctx[c].todo = "ready",
           NEW root \in Roots, NEW rows, NEW failed \in BOOLEAN,
           \A g \in Selected(root), row \in rows :
              g \in Fields /\ Key(g, row) \in KeyType(Loader(g)),
           root \in {"posts", "users"} =>
              /\ ctx[c].forever = FALSE
              /\ \A g \in Selected(root), row \in rows :
                    Loader(g) = "_byIdLoader" => WasUser(ctx[c], Key(g, row)),
           Start(c, root, rows, failed), Reading
    PROVE  IInv'
<1>. DEFINE q == ctx[c]
            new == [ctx[c] EXCEPT !.todo = "loading", !.root = root, !.queries = 0,
                                  !.failed = failed,
                                  !.queue = LoadsFor(Selected(root), rows)]
<1>1. q \in CtxRecord /\ CtxInv(q)
  BY DEF IInv
<1>2. LoadsFor(Selected(root), rows) \subseteq Load
      /\ \A x \in LoadsFor(Selected(root), rows) : LoadType(x)
  BY LoadsForTyped
<1>3. /\ new \in CtxRecord /\ new.todo = "loading" /\ new.root = root
      /\ new.queue = LoadsFor(Selected(root), rows)
      /\ new.since = q.since /\ new.forever = q.forever /\ new.made = q.made
      /\ new.memo = q.memo /\ new.flight = q.flight
  BY <1>1, <1>2 DEF CtxRecord
<1>4. Update(c, new)
  BY DEF Start
<1>5. q.flight = {} /\ q.made = {} /\ (q.forever = FALSE => q.memo = {})
  BY <1>1 DEF CtxInv, MadeInv
<1>. HIDE DEF new
<1>6. root \in {"posts", "users"} => AuthorsInv(new)
  BY <1>3, <1>5 DEF AuthorsInv, LoadsFor, WasUser
<1>7. CtxInv(new)
  <2>1. LoadsInv(new) /\ MemoInv(new) /\ FreshInv(new) /\ MadeInv(new)
    BY <1>1, <1>2, <1>3, <1>5 DEF CtxInv, LoadsInv, MemoInv, FreshInv, MadeInv
  <2>. QED
    BY <1>1, <1>3, <1>6, <2>1 DEF CtxInv
<1>. QED
  BY <1>4, <1>7, ReadStep

LEMMA ListInv == ASSUME IInv, NEW c \in Context, List(c) PROVE IInv'
<1>1. /\ ctx[c].todo = "ready" /\ ctx[c].forever = FALSE /\ Reading
      /\ CtxInv(ctx[c]) /\ ctx[c].since \in Nat /\ ctx[c].since <= applied
  BY DEF List, Ready, IInv, CtxInv, CtxRecord
<1>2. /\ replica \in Table /\ Consistent(replica) /\ applied \in Nat
  BY DEF replica, IInv, DataInv
<1>3. "posts" \in Roots /\ "users" \in Roots
  BY DEF Roots
<1>4. ASSUME NEW k \in replica.users PROVE WasUser(ctx[c], k)
  BY <1>1, <1>2, <1>4 DEF WasUser, replica
<1>5. ASSUME NEW page \in SUBSET replica.posts, NEW failed \in BOOLEAN, Start(c, "posts", page, failed)
      PROVE  IInv'
  <2>1. \A row \in page : row \in Post /\ Writer[row] \in replica.users
    BY <1>2 DEF Table, Consistent
  <2>2. \A g \in Selected("posts"), row \in page :
           g \in Fields /\ Key(g, row) \in KeyType(Loader(g))
    BY <2>1, KeysAtRoot
  <2>3. \A g \in Selected("posts"), row \in page :
           Loader(g) = "_byIdLoader" => WasUser(ctx[c], Key(g, row))
    BY <1>4, <2>1, KeysAtRoot
  <2>. QED
    BY <1>1, <1>3, <1>5, <2>2, <2>3, StartInv
<1>6. ASSUME NEW page \in SUBSET replica.users, Start(c, "users", page, FALSE)
      PROVE  IInv'
  <2>1. \A g \in Selected("users"), row \in page :
           g \in Fields /\ Key(g, row) \in KeyType(Loader(g)) /\ Loader(g) # "_byIdLoader"
    BY <1>2, KeysAtRoot DEF Table
  <2>. QED
    BY <1>1, <1>3, <1>6, <2>1, StartInv
<1>. QED
  BY <1>5, <1>6 DEF List, ListPosts, ListUsers, RefuseList, Pages

LEMMA EventInv == ASSUME IInv, NEW c \in Context, Event(c) PROVE IInv'
<1>1. ctx[c].todo = "ready" /\ Reading /\ "createdComment" \in Roots
  BY DEF Event, Ready, Roots
<1>2. PICK i \in 1 .. Len(history) :
         \E x \in history[i].comments : Start(c, "createdComment", {x}, FALSE)
  BY DEF Event
<1>3. PICK x \in history[i].comments : Start(c, "createdComment", {x}, FALSE)
  BY <1>2
<1>4. x \in Comment
  <2>1. history[i] \in Table
    BY DEF IInv, DataInv
  <2>. QED
    BY <2>1 DEF Table
<1>. DEFINE rows == {x}
<1>5. \A g \in Selected("createdComment"), row \in rows :
         g \in Fields /\ Key(g, row) \in KeyType(Loader(g))
  BY <1>4, KeysAtRoot
<1>6. Start(c, "createdComment", rows, FALSE) /\ "createdComment" \notin {"posts", "users"}
  BY <1>3
<1>. HIDE DEF rows
<1>. QED
  BY <1>1, <1>5, <1>6, StartInv

LEMMA FinishInv == ASSUME IInv, NEW c \in Context, Finish(c) \/ Unsubscribe(c) PROVE IInv'
<1>. DEFINE q == ctx[c]
<1>1. /\ q \in CtxRecord /\ CtxInv(q) /\ Reading
      /\ q.queue = {} /\ q.flight = {}
  BY DEF IInv, CtxInv, Finish, Unsubscribe, Ready
<1>2. CASE Update(c, [q EXCEPT !.todo = "closed"])
  <2>. DEFINE new == [q EXCEPT !.todo = "closed"]
  <2>1. /\ new \in CtxRecord /\ new.todo = "closed" /\ new.root = q.root
        /\ new.queue = q.queue /\ new.since = q.since /\ new.forever = q.forever
        /\ new.made = q.made /\ new.memo = q.memo /\ new.flight = q.flight
    BY <1>1 DEF CtxRecord
  <2>. HIDE DEF new
  <2>2. CtxInv(new)
    BY <1>1, <2>1 DEF CtxInv, LoadsInv, MemoInv, FreshInv, MadeInv
  <2>. QED
    BY <1>1, <1>2, <2>2, ReadStep DEF new
<1>3. CASE /\ Finish(c) /\ q.forever = TRUE
           /\ Update(c, [q EXCEPT !.todo = "ready", !.failed = FALSE, !.root = "none"])
  <2>. DEFINE new == [q EXCEPT !.todo = "ready", !.failed = FALSE, !.root = "none"]
  <2>1. /\ new \in CtxRecord /\ new.todo = "ready" /\ new.root = "none"
        /\ new.queue = q.queue /\ new.since = q.since /\ new.forever = q.forever
        /\ new.made = q.made /\ new.memo = q.memo /\ new.flight = q.flight
    BY <1>1 DEF CtxRecord
  <2>. HIDE DEF new
  <2>2. CtxInv(new)
    BY <1>1, <1>3, <2>1 DEF CtxInv, LoadsInv, MemoInv, FreshInv, MadeInv
  <2>. QED
    BY <1>1, <1>3, <2>2, ReadStep DEF new
<1>4. q.forever \in BOOLEAN
  BY <1>1 DEF CtxRecord
<1>. QED
  BY <1>2, <1>3, <1>4 DEF Finish, Unsubscribe

-----------------------------------------------------------------------------
(* Writes and replication. *)

LEMMA DataStep == ASSUME IInv, DataInv', Grows, UNCHANGED ctx PROVE IInv'
<1>1. \A q : CtxInv(q) => CtxInv(q)'
  BY CtxKept DEF IInv
<1>. QED
  BY <1>1 DEF IInv

LEMMA CommitGrows ==
    ASSUME IInv, NEW new \in Table, Consistent(new), Commit(new),
           \A p \in new.posts : p \in primary.posts \/ Unused(p)
    PROVE  DataInv' /\ Grows
<1>1. /\ history \in Seq(Table) /\ applied \in 1 .. Len(history) /\ replicated \in BOOLEAN
      /\ Len(history) \in Nat /\ \A i \in 1 .. Len(history) : Consistent(history[i])
  BY DEF IInv, DataInv
<1>2. /\ history' = Append(history, new) /\ replicated' = replicated
      /\ applied' = IF replicated THEN applied ELSE Len(history')
  BY DEF Commit
<1>3. /\ history' \in Seq(Table) /\ Len(history') = Len(history) + 1
      /\ history'[Len(history')] = new
      /\ \A i \in 1 .. Len(history) : history'[i] = history[i]
  BY <1>1, <1>2
<1>4. ASSUME NEW i \in 1 .. Len(history') PROVE Consistent(history'[i])
  <2>1. CASE i \in 1 .. Len(history)
    BY <1>1, <1>3, <2>1
  <2>2. CASE i = Len(history')
    BY <1>3, <2>2
  <2>. QED
    BY <1>1, <1>3, <2>1, <2>2
<1>5. applied' \in 1 .. Len(history') /\ applied <= applied'
      /\ (~replicated' => applied' = Len(history'))
  BY <1>1, <1>2, <1>3
<1>6. Grows
  BY <1>2, <1>5 DEF Grows
<1>7. DataInv'
  BY <1>1, <1>2, <1>3, <1>4, <1>5 DEF DataInv, Consistent
<1>. QED
  BY <1>6, <1>7

LEMMA PrimaryFacts == ASSUME DataInv PROVE primary \in Table /\ Consistent(primary)
<1>1. Len(history) \in 1 .. Len(history)
  BY DEF DataInv
<1>. QED
  BY <1>1 DEF DataInv, primary

LEMMA InsertGrows ==
    ASSUME IInv, NEW p \in Post, InsertPost(p)
    PROVE  DataInv' /\ Grows
<1>. DEFINE new == [primary EXCEPT !.posts = @ \cup {p}]
<1>1. primary \in Table /\ Consistent(primary)
  BY PrimaryFacts DEF IInv
<1>2. /\ new \in Table /\ new.users = primary.users /\ new.comments = primary.comments
      /\ new.posts = primary.posts \cup {p}
  BY <1>1 DEF Table
<1>3. Unused(p) /\ Writer[p] \in primary.users /\ Commit(new)
  BY DEF InsertPost
<1>. HIDE DEF new
<1>4. Consistent(new)
  BY <1>1, <1>2, <1>3 DEF Consistent
<1>. QED
  BY <1>2, <1>3, <1>4, CommitGrows

LEMMA WithoutFacts ==
    ASSUME DataInv, NEW users \in SUBSET primary.users, NEW posts \in SUBSET primary.posts
    PROVE  /\ Without(users, posts) \in Table /\ Consistent(Without(users, posts))
           /\ Without(users, posts).posts \subseteq primary.posts
<1>1. primary \in Table
  BY PrimaryFacts
<1>2. primary.users \subseteq User /\ primary.posts \subseteq Post /\ primary.comments \subseteq Comment
  BY <1>1 DEF Table
<1>. QED
  BY <1>2 DEF Without, Table, Consistent

LEMMA WriteInv == ASSUME IInv, Write PROVE IInv'
<1>1. primary \in Table /\ Consistent(primary) /\ DataInv
  BY PrimaryFacts DEF IInv
<1>2. ASSUME NEW u \in User, Unused(u), Commit([primary EXCEPT !.users = @ \cup {u}])
      PROVE  DataInv' /\ Grows
  <2>. DEFINE new == [primary EXCEPT !.users = @ \cup {u}]
  <2>1. /\ new \in Table /\ new.users = primary.users \cup {u}
        /\ new.comments = primary.comments /\ new.posts = primary.posts
    BY <1>1 DEF Table
  <2>2. Commit(new)
    BY <1>2
  <2>. HIDE DEF new
  <2>3. Consistent(new)
    BY <1>1, <2>1 DEF Consistent
  <2>. QED
    BY <2>1, <2>2, <2>3, CommitGrows
<1>3. ASSUME NEW k \in Comment, Writer[k] \in primary.users, About[k] \in primary.posts,
             Commit([primary EXCEPT !.comments = @ \cup {k}])
      PROVE  DataInv' /\ Grows
  <2>. DEFINE new == [primary EXCEPT !.comments = @ \cup {k}]
  <2>1. /\ new \in Table /\ new.users = primary.users
        /\ new.comments = primary.comments \cup {k} /\ new.posts = primary.posts
    BY <1>1 DEF Table
  <2>2. Commit(new)
    BY <1>3
  <2>. HIDE DEF new
  <2>3. Consistent(new)
    BY <1>1, <1>3, <2>1 DEF Consistent
  <2>. QED
    BY <2>1, <2>2, <2>3, CommitGrows
<1>4. ASSUME NEW users \in SUBSET primary.users, NEW posts \in SUBSET primary.posts,
             Commit(Without(users, posts))
      PROVE  DataInv' /\ Grows
  BY <1>1, <1>4, WithoutFacts, CommitGrows
<1>5. DataInv' /\ Grows
  BY <1>2, <1>3, <1>4, InsertGrows DEF Write
<1>. QED
  BY <1>5, DataStep DEF Write

LEMMA ReplicateInv == ASSUME IInv, Replicate PROVE IInv'
<1>1. DataInv'
  BY DEF IInv, DataInv, Replicate, Consistent
<1>2. Grows
  BY DEF IInv, DataInv, Replicate, Grows
<1>. QED
  BY <1>1, <1>2, DataStep DEF Replicate

LEMMA CreatePostInv == ASSUME IInv, NEW c \in Context, CreatePost(c) PROVE IInv'
<1>1. PICK p \in Post :
         InsertPost(p) /\ Update(c, [ctx[c] EXCEPT !.todo = "reread", !.made = {p}])
  BY DEF CreatePost
<1>2. PICK q : q = ctx[c]
  OBVIOUS
<1>3. q \in CtxRecord /\ CtxInv(q) /\ q.todo = "ready" /\ q.forever = FALSE
  BY <1>2 DEF IInv, CreatePost, Ready
<1>4. DataInv' /\ Grows
  BY <1>1, InsertGrows
<1>5. CtxInv(q)'
  BY <1>3, <1>4, CtxKept DEF IInv
<1>6. p \in history'[Len(history')].posts /\ Len(history') \in 1 .. Len(history')
  <2>1. /\ history' = Append(history, [primary EXCEPT !.posts = @ \cup {p}])
        /\ history \in Seq(Table) /\ primary \in Table
    BY <1>1, PrimaryFacts DEF InsertPost, Commit, IInv, DataInv
  <2>2. history'[Len(history')] = [primary EXCEPT !.posts = @ \cup {p}]
    BY <2>1
  <2>3. p \in [primary EXCEPT !.posts = @ \cup {p}].posts
    BY <2>1 DEF Table
  <2>. QED
    BY <1>4, <2>2, <2>3 DEF DataInv
<1>. DEFINE new == [q EXCEPT !.todo = "reread", !.made = {p}]
<1>7. /\ new \in CtxRecord /\ new.todo = "reread" /\ new.root = q.root
      /\ new.queue = q.queue /\ new.since = q.since /\ new.forever = q.forever
      /\ new.made = {p} /\ new.memo = q.memo /\ new.flight = q.flight
  BY <1>3 DEF CtxRecord
<1>8. Update(c, new)
  BY <1>1, <1>2
<1>. HIDE DEF new
<1>9. CtxInv(new)'
  <2>1. MadeInv(new)'
    BY <1>3, <1>6, <1>7 DEF MadeInv
  <2>. QED
    BY <1>3, <1>5, <1>7, <2>1 DEF CtxInv, LoadsInv, MemoInv, FreshInv
<1>. QED
  BY <1>4, <1>7, <1>8, <1>9, CtxStep

LEMMA GetPostInv == ASSUME IInv, NEW c \in Context, GetPost(c) PROVE IInv'
<1>. DEFINE q == ctx[c]
            found == q.made \cap primary.posts
            failed == found = {}
            new == [ctx[c] EXCEPT !.todo = "loading", !.root = "createPost",
                                  !.made = @ \ found, !.failed = failed,
                                  !.queue = LoadsFor(Selected("createPost"), found)]
<1>1. q \in CtxRecord /\ CtxInv(q) /\ q.made \subseteq Post /\ q.todo = "reread"
  BY DEF IInv, CtxRecord, GetPost
<1>2. Update(c, new) /\ Reading /\ failed \in BOOLEAN /\ "createPost" \in Roots
  BY DEF GetPost, Roots
<1>3. \A g \in Selected("createPost"), row \in found :
         g \in Fields /\ Key(g, row) \in KeyType(Loader(g))
  BY <1>1, KeysAtRoot
<1>4. LoadsFor(Selected("createPost"), found) \subseteq Load
      /\ \A x \in LoadsFor(Selected("createPost"), found) : LoadType(x)
  BY <1>3, LoadsForTyped
<1>5. q.made \ found \subseteq q.made /\ (q.made \ found) \cap primary.posts = {}
  OBVIOUS
<1>. HIDE DEF failed, found
<1>6. /\ new \in CtxRecord /\ new.todo = "loading" /\ new.root = "createPost"
      /\ new.queue = LoadsFor(Selected("createPost"), found)
      /\ new.since = q.since /\ new.forever = q.forever /\ new.made = q.made \ found
      /\ new.memo = q.memo /\ new.flight = q.flight
  BY <1>1, <1>2, <1>4 DEF CtxRecord
<1>. HIDE DEF new
<1>7. CtxInv(new)
  BY <1>1, <1>4, <1>5, <1>6 DEF CtxInv, LoadsInv, MemoInv, FreshInv, MadeInv
<1>. QED
  BY <1>2, <1>7, ReadStep

-----------------------------------------------------------------------------
(* Batches. *)

LEMMA DispatchInv ==
    ASSUME IInv, NEW c \in Context, NEW loader \in LoaderName, Dispatch(c, loader)
    PROVE  IInv'
<1>. DEFINE q == ctx[c]
            loads == Queued(c, loader)
            keys == {x.key : x \in loads} \ Known(c, loader)
            batch == [loader |-> loader, keys |-> keys, loads |-> loads]
            asked == IF keys = {} THEN 0 ELSE 1
            queue == q.queue \ loads
            flight == q.flight \cup {batch}
            queries == q.queries + asked
            new == [q EXCEPT !.queue = queue, !.flight = flight, !.queries = queries]
<1>1. q \in CtxRecord /\ CtxInv(q)
  BY DEF IInv
<1>2. Update(c, new) /\ Reading /\ loads # {} /\ asked \in Nat
  BY DEF Dispatch, Send
<1>3. loads \subseteq q.queue /\ \A x \in loads : Loader(x.field) = loader /\ LoadType(x)
  BY <1>1 DEF Queued, CtxInv, LoadsInv
<1>4. q.todo = "loading"
  BY <1>1, <1>2, <1>3 DEF CtxInv
<1>5. keys \subseteq KeyType(loader) /\ \A k \in keys : \E x \in loads : k = x.key
  BY <1>3 DEF LoadType
<1>6. /\ \A e \in q.memo : e.loader = loader => e.key \notin keys
      /\ \A a \in q.flight : a.loader = loader => a.keys \cap keys = {}
  BY DEF Known
<1>. HIDE DEF keys, loads, asked
<1>7. batch \in Batch
  BY <1>1, <1>3, <1>5 DEF Batch, CtxRecord, KeyType, Id
<1>8. batch.loader = loader /\ batch.keys = keys /\ batch.loads = loads
  OBVIOUS
<1>. HIDE DEF batch
<1>9. /\ new \in CtxRecord /\ new.todo = q.todo /\ new.root = q.root
      /\ new.queue = q.queue \ loads /\ new.since = q.since /\ new.forever = q.forever
      /\ new.made = q.made /\ new.memo = q.memo /\ new.flight = q.flight \cup {batch}
  <2>1. queue \in SUBSET Load /\ flight \in SUBSET Batch /\ queries \in Nat
    BY <1>1, <1>2, <1>7 DEF CtxRecord
  <2>. HIDE DEF queue, flight, queries
  <2>2. /\ new \in CtxRecord /\ new.todo = q.todo /\ new.root = q.root
        /\ new.queue = queue /\ new.since = q.since /\ new.forever = q.forever
        /\ new.made = q.made /\ new.memo = q.memo /\ new.flight = flight
    BY <1>1, <2>1 DEF CtxRecord
  <2>. QED
    BY <2>2 DEF queue, flight
<1>. HIDE DEF new
<1>10. LoadsInv(new)
  BY <1>1, <1>3, <1>5, <1>8, <1>9 DEF LoadsInv, CtxInv
<1>11. MemoInv(new)
  BY <1>1, <1>6, <1>8, <1>9 DEF MemoInv, CtxInv
<1>12. AuthorsInv(q) => AuthorsInv(new)
  <2>1. \A k : WasUser(q, k) <=> WasUser(new, k)
    BY <1>9 DEF WasUser
  <2>2. AuthorsInv(q) => \A k \in keys : loader = "_byIdLoader" => WasUser(q, k)
    BY <1>3, <1>5 DEF AuthorsInv
  <2>. QED
    BY <1>8, <1>9, <2>1, <2>2 DEF AuthorsInv
<1>13. FreshInv(new) /\ MadeInv(new)
  BY <1>1, <1>9 DEF FreshInv, MadeInv, CtxInv
<1>14. CtxInv(new)
  BY <1>1, <1>4, <1>9, <1>10, <1>11, <1>12, <1>13 DEF CtxInv
<1>. QED
  BY <1>2, <1>14, ReadStep

\* The rows that a batch is answered with lead to keys of the next level.
LEMMA NextLevel ==
    ASSUME DataInv, NEW f \in Fields, NEW k, NEW i \in 1 .. Len(history),
           NEW g \in Selected(f), NEW row \in Rows(Loader(f), k, history[i])
    PROVE  /\ g \in Fields /\ Key(g, row) \in KeyType(Loader(g))
           /\ Loader(g) = "_byIdLoader" => Key(g, row) \in history[i].users
<1>1. history[i] \in Table /\ Consistent(history[i]) /\ Loader(f) \in LoaderName
  BY FieldFacts DEF DataInv
<1>2. row \in RowType(Loader(f))
  BY <1>1, RowsTyped
<1>3. Loader(f) = "batchLoaderCallback" => row \in history[i].comments
  BY <1>1, RowsTyped
<1>. QED
  BY <1>1, <1>2, <1>3, KeysBelow DEF Consistent

LEMMA SettleInv ==
    ASSUME IInv, NEW c \in Context, NEW b \in ctx[c].flight,
           NEW new \in SUBSET Memo, NEW failed \in BOOLEAN,
           \A e \in new : /\ e.loader = b.loader /\ e.key \in b.keys
                          /\ e.rows = Rows(b.loader, e.key, replica),
           Settle(c, b, new, failed), Reading
    PROVE  IInv'
<1>. DEFINE q == ctx[c]
            memo == q.memo \cup new
            others == q.flight \ {b}
            answers(x) == {e \in memo : e.loader = b.loader /\ e.key = x.key}
            settled == {x \in b.loads : answers(x) # {}}
            rows(x) == UNION {e.rows : e \in answers(x)}
            waiting(o) == IF o.loader = b.loader
                          THEN [o EXCEPT !.loads = @ \cup {x \in b.loads : x.key \in o.keys}]
                          ELSE o
            flight == {waiting(o) : o \in others}
            queue == q.queue \cup UNION {LoadsFor(Selected(x.field), rows(x)) : x \in settled}
            fails == \/ q.failed \/ failed
                     \/ b.loader = "_byIdLoader" /\ \E x \in settled : rows(x) = {}
            next == [q EXCEPT !.memo = memo, !.flight = flight, !.queue = queue,
                              !.failed = fails]
<1>1. /\ q \in CtxRecord /\ CtxInv(q) /\ LoadsInv(q) /\ MemoInv(q) /\ FreshInv(q)
      /\ DataInv
  BY DEF IInv, CtxInv
<1>2. /\ q.since \in Nat \ {0} /\ q.since <= applied /\ applied \in 1 .. Len(history)
      /\ Len(history) \in Nat /\ q.todo = "loading" /\ fails \in BOOLEAN
  BY <1>1 DEF CtxInv, CtxRecord, DataInv
<1>3. Update(c, next)
  BY DEF Settle
<1>4. /\ b \in Batch
      /\ \A x \in b.loads : x \in Load /\ x.field \in Fields /\ Loader(x.field) = b.loader
      /\ b.loads \subseteq Load /\ b.keys \subseteq KeyType(b.loader)
      /\ \A x \in b.loads : LoadType(x)
  BY <1>1 DEF CtxRecord, Batch, LoadsInv, LoadType
<1>5. \A e \in memo : \E i \in q.since .. applied :
         i \in 1 .. Len(history) /\ e.rows = Rows(e.loader, e.key, history[i])
  BY <1>1, <1>2 DEF FreshInv, replica
<1>6. ASSUME NEW y \in queue, y \notin q.queue
      PROVE  /\ y \in Load /\ LoadType(y)
             /\ Loader(y.field) = "_byIdLoader" => WasUser(q, y.key)
  <2>1. PICK x \in settled : y \in LoadsFor(Selected(x.field), rows(x))
    BY <1>6
  <2>2. PICK g \in Selected(x.field) :
           \E row \in rows(x) : y = [field |-> g, key |-> Key(g, row)]
    BY <2>1 DEF LoadsFor
  <2>3. PICK row \in rows(x) : y = [field |-> g, key |-> Key(g, row)]
    BY <2>2
  <2>4. PICK e \in memo : e.loader = b.loader /\ row \in e.rows
    BY <2>3
  <2>5. PICK i \in q.since .. applied :
           i \in 1 .. Len(history) /\ e.rows = Rows(e.loader, e.key, history[i])
    BY <1>5
  <2>6. x.field \in Fields /\ Loader(x.field) = b.loader
    BY <1>4
  <2>7. row \in Rows(Loader(x.field), e.key, history[i])
    BY <2>4, <2>5, <2>6
  <2>8. /\ g \in Fields /\ Key(g, row) \in KeyType(Loader(g))
        /\ Loader(g) = "_byIdLoader" => Key(g, row) \in history[i].users
    BY <1>1, <2>5, <2>6, <2>7, NextLevel
  <2>. QED
    BY <2>3, <2>5, <2>8, LoadTyped DEF WasUser
<1>7. queue \in SUBSET Load /\ memo \in SUBSET Memo
  BY <1>1, <1>6 DEF CtxRecord
<1>8. /\ \A o \in others : o \in Batch /\ waiting(o) \in Batch
                          /\ waiting(o).loader = o.loader /\ waiting(o).keys = o.keys
      /\ \A o \in others : \A x \in waiting(o).loads :
            x \in o.loads \/ (o.loader = b.loader /\ x \in b.loads)
  <2>1. SUFFICES ASSUME NEW o \in others
        PROVE  /\ o \in Batch /\ waiting(o) \in Batch
               /\ waiting(o).loader = o.loader /\ waiting(o).keys = o.keys
               /\ \A x \in waiting(o).loads :
                     x \in o.loads \/ (o.loader = b.loader /\ x \in b.loads)
    OBVIOUS
  <2>2. o \in Batch
    BY <1>1 DEF CtxRecord
  <2>3. CASE o.loader = b.loader
    <3>. DEFINE more == o.loads \cup {x \in b.loads : x.key \in o.keys}
    <3>1. /\ waiting(o) = [o EXCEPT !.loads = more] /\ more \in SUBSET Load
          /\ \A x \in more : x \in o.loads \/ x \in b.loads
      BY <1>4, <2>2, <2>3 DEF Batch
    <3>. HIDE DEF more
    <3>2. PICK w : w = [o EXCEPT !.loads = more] /\ w = waiting(o)
      BY <3>1
    <3>3. /\ w \in Batch /\ w.loader = o.loader
          /\ w.keys = o.keys /\ w.loads = more
      BY <2>2, <3>1, <3>2 DEF Batch
    <3>. HIDE DEF waiting
    <3>. QED
      BY <2>2, <2>3, <3>1, <3>2, <3>3
  <2>4. CASE o.loader # b.loader
    <3>1. waiting(o) = o
      BY <2>4
    <3>. HIDE DEF waiting
    <3>. QED
      BY <2>2, <3>1
  <2>. QED
    BY <2>3, <2>4
<1>9. \A a \in flight : \E o \in others : a = waiting(o)
  OBVIOUS
<1>. HIDE DEF answers, settled, rows, waiting, fails
<1>10. flight \in SUBSET Batch
  BY <1>8, <1>9
<1>11. LoadsInv([queue |-> queue, flight |-> flight])
  BY <1>1, <1>4, <1>6, <1>8, <1>9 DEF LoadsInv
<1>12. MemoInv([memo |-> memo, flight |-> flight])
  <2>. DEFINE r == [memo |-> memo, flight |-> flight]
  <2>1. \A d, e \in memo : d.loader = e.loader /\ d.key = e.key => d = e
    BY <1>1, <1>7 DEF MemoInv, Memo
  <2>2. \A o \in others : \A e \in memo : e.loader = o.loader => e.key \notin o.keys
    BY <1>1 DEF MemoInv
  <2>3. \A o, p \in others : o.loader = p.loader /\ o # p => o.keys \cap p.keys = {}
    BY <1>1 DEF MemoInv
  <2>. HIDE DEF memo, flight, others
  <2>4. \A a \in flight : \A e \in memo : e.loader = a.loader => e.key \notin a.keys
    BY <1>8, <1>9, <2>2
  <2>5. \A a1, a2 \in flight : a1.loader = a2.loader /\ a1 # a2 => a1.keys \cap a2.keys = {}
    BY <1>8, <1>9, <2>3
  <2>. QED
    BY <2>1, <2>4, <2>5 DEF MemoInv
<1>13. AuthorsInv(q) => AuthorsInv([since |-> q.since, queue |-> queue, memo |-> memo, flight |-> flight])
  <2>. DEFINE r == [since |-> q.since, queue |-> queue, memo |-> memo, flight |-> flight]
  <2>1. \A k : WasUser(q, k) <=> WasUser(r, k)
    BY DEF WasUser
  <2>2. SUFFICES ASSUME AuthorsInv(q) PROVE AuthorsInv(r)
    OBVIOUS
  <2>3. \A x \in queue : Loader(x.field) = "_byIdLoader" => WasUser(q, x.key)
    BY <1>6, <2>2 DEF AuthorsInv
  <2>4. \A e \in memo : e.loader = "_byIdLoader" => WasUser(q, e.key)
    BY <2>2 DEF AuthorsInv
  <2>5. \A o \in others : o.loader = "_byIdLoader" => \A k \in o.keys : WasUser(q, k)
    BY <2>2 DEF AuthorsInv
  <2>. HIDE DEF memo, queue, flight, others
  <2>6. \A a \in flight : a.loader = "_byIdLoader" => \A k \in a.keys : WasUser(q, k)
    BY <1>8, <1>9, <2>5
  <2>7. r.queue = queue /\ r.memo = memo /\ r.flight = flight
    OBVIOUS
  <2>. HIDE DEF r
  <2>. QED
    BY <2>1, <2>3, <2>4, <2>6, <2>7 DEF AuthorsInv
<1>. HIDE DEF memo, queue, flight, others
<1>14. /\ next \in CtxRecord /\ next.todo = q.todo /\ next.root = q.root
       /\ next.queue = queue /\ next.since = q.since /\ next.forever = q.forever
       /\ next.made = q.made /\ next.memo = memo /\ next.flight = flight
  BY <1>1, <1>2, <1>7, <1>10 DEF CtxRecord
<1>. HIDE DEF next
<1>15. LoadsInv(next) /\ MemoInv(next) /\ FreshInv(next) /\ MadeInv(next)
  <2>1. FreshInv(next)
    BY <1>5, <1>14 DEF FreshInv
  <2>2. MadeInv(next)
    BY <1>1, <1>14 DEF CtxInv, MadeInv
  <2>. QED
    BY <1>11, <1>12, <1>14, <2>1, <2>2 DEF LoadsInv, MemoInv
<1>16. AuthorsInv(q) => AuthorsInv(next)
  BY <1>13, <1>14 DEF AuthorsInv, WasUser
<1>17. CtxInv(next)
  BY <1>1, <1>2, <1>14, <1>15, <1>16 DEF CtxInv
<1>. QED
  BY <1>3, <1>17, ReadStep

LEMMA AnswerInv ==
    ASSUME IInv, NEW c \in Context, NEW b \in ctx[c].flight, Answer(c, b) PROVE IInv'
<1>. DEFINE new == {[loader |-> b.loader, key |-> k, rows |-> Rows(b.loader, k, replica)] :
                      k \in b.keys}
<1>1. b \in Batch /\ replica \in Table
  BY DEF IInv, CtxRecord, replica, DataInv
<1>2. new \in SUBSET Memo
  BY <1>1, RowsTyped DEF Batch, Memo, LoaderName
<1>3. \A e \in new : /\ e.loader = b.loader /\ e.key \in b.keys
                     /\ e.rows = Rows(b.loader, e.key, replica)
  OBVIOUS
<1>4. Settle(c, b, new, FALSE) /\ Reading
  BY DEF Answer
<1>. HIDE DEF new
<1>. QED
  BY <1>2, <1>3, <1>4, SettleInv

LEMMA QueryFailsInv ==
    ASSUME IInv, NEW c \in Context, NEW b \in ctx[c].flight, QueryFails(c, b) PROVE IInv'
<1>. DEFINE new == {}
<1>1. /\ new \in SUBSET Memo /\ Settle(c, b, new, TRUE) /\ Reading
      /\ \A e \in new : /\ e.loader = b.loader /\ e.key \in b.keys
                         /\ e.rows = Rows(b.loader, e.key, replica)
  BY DEF QueryFails
<1>. HIDE DEF new
<1>. QED
  BY <1>1, SettleInv

-----------------------------------------------------------------------------
(* The invariant and what follows from it. *)

LEMMA InitInv == ASSUME Init PROVE IInv
<1>1. Seeded \in Table /\ Consistent(Seeded)
  BY ForeignKeys DEF Table, Consistent
<1>2. DataInv
  BY <1>1, Bounds DEF Init, DataInv
<1>3. \A c \in Context : ctx[c] = Closed
  BY DEF Init
<1>4. Closed \in CtxRecord
  BY DEF Closed, CtxRecord
<1>5. CtxInv(Closed)
  BY <1>4 DEF Init, Closed, CtxInv, LoadsInv, MemoInv, FreshInv, MadeInv
<1>. QED
  BY <1>2, <1>3, <1>4, <1>5 DEF IInv, Init

LEMMA StepInv == ASSUME IInv, [Next]_vars PROVE IInv'
<1>1. ASSUME UNCHANGED vars PROVE IInv'
  <2>1. DataInv' /\ Grows
    BY <1>1 DEF IInv, DataInv, Consistent, Grows, vars
  <2>. QED
    BY <1>1, <2>1, DataStep DEF vars
<1>2. ASSUME NEW c \in Context, Progress(c) PROVE IInv'
  <2>1. \A f \in UNION {Loading(r) : r \in Roots} : Loader(f) \in LoaderName
    BY DEF Loader, LoaderName
  <2>. QED
    BY <1>2, <2>1, GetPostInv, FinishInv, DispatchInv, AnswerInv, QueryFailsInv DEF Progress
<1>. QED
  BY <1>1, <1>2, OpenInv, ListInv, EventInv, CreatePostInv, FinishInv, WriteInv, ReplicateInv
  DEF Next

\* The invariant holds in every state.
THEOREM Invariance == Spec => []IInv
<1>1. Init => IInv
  BY InitInv
<1>2. IInv /\ [Next]_vars => IInv'
  BY StepInv
<1>. QED
  BY <1>1, <1>2, PTL DEF Spec

\* The contexts, batches and memos have their types, and the replica is
\* never ahead of the primary.
THEOREM TypeCorrect == Spec => []TypeOK
<1>1. IInv => TypeOK
  BY DEF IInv, DataInv, CtxInv, CtxRecord, Batch, TypeOK
<1>. QED
  BY <1>1, Invariance, PTL

\* What a field shows was on the replica since its context was made,
\* whatever other contexts have loaded (context/index.ts:94-96).
THEOREM FreshAnswers == Spec => []AnswersFresh
<1>1. IInv => AnswersFresh
  BY DEF IInv, CtxInv, FreshInv, AnswersFresh
<1>. QED
  BY <1>1, Invariance, PTL

\* A loader gives all fields of a response the same rows for the same key
\* (user/sql-datasource.ts:22-24).
THEOREM SameRows == Spec => []OneValuePerKey
<1>1. IInv => OneValuePerKey
  BY DEF IInv, CtxInv, MemoInv, OneValuePerKey
<1>. QED
  BY <1>1, Invariance, PTL

\* createPost finds the post that it made, unless somebody has deleted it
\* (post/sql-datasource.ts:110-119).
THEOREM FoundAgain == Spec => []ReadYourWrites
<1>1. IInv => ReadYourWrites
  BY DEF IInv, CtxInv, MadeInv, Working, ReadYourWrites
<1>. QED
  BY <1>1, Invariance, PTL

\* A list fails for want of an author only when the author was there and
\* has been deleted (post/resolvers.ts:55-61).
THEOREM AuthorsThere == Spec => []MissingAuthorDeleted
<1>1. IInv => MissingAuthorDeleted
  BY DEF IInv, CtxInv, AuthorsInv, WasUser, Working, MissingAuthorDeleted
<1>. QED
  BY <1>1, Invariance, PTL

-----------------------------------------------------------------------------
(***************************************************************************)
(* The number of queries.  A load that waits, and a batch that is on its   *)
(* way, may lead to one more batch on each level below: Debt is what the   *)
(* operation may still send.  A dispatch pays for its query, an answer for *)
(* the loads it leads to, and together they never exceed the fields.       *)
(***************************************************************************)

Pending(q, loader) == {x \in q.queue : Loader(x.field) = loader}
Sent(q, loader) == {b \in q.flight : b.loader = loader}
One(s) == IF s = {} THEN 0 ELSE 1
Debt(q) ==
    3 * One(Pending(q, "batchLoaderCallback")) + 2 * Cardinality(Sent(q, "batchLoaderCallback"))
    + 2 * One(Pending(q, "_byIdLoader")) + Cardinality(Sent(q, "_byIdLoader"))
    + One(Pending(q, "_byUserIdLoader"))

BudgetInv(q) ==
    /\ IsFiniteSet(q.flight)
    /\ (q.todo = "ready" /\ q.forever = FALSE) \/ q.todo = "reread" => q.queries = 0
    /\ q.todo = "loading" =>
          q.root \in Roots /\ q.queries + Debt(q) <= Cardinality(Loading(q.root))
Budget == \A c \in Context : BudgetInv(ctx[c])

\* The loaders of the level below a loader's.
Below(loader) ==
    CASE loader = "batchLoaderCallback" -> "_byIdLoader"
      [] loader = "_byIdLoader" -> "_byUserIdLoader"
      [] OTHER -> "none"

LEMMA LoadersBelow ==
    \A f \in Fields : \A g \in Selected(f) : Loader(g) = Below(Loader(f))
BY DEF Fields, Selected, Loader, Below

LEMMA LoadersAtRoot ==
    /\ \A g \in Selected("posts") : Loader(g) \in {"_byIdLoader", "batchLoaderCallback"}
    /\ \A g \in Selected("users") : Loader(g) = "_byUserIdLoader"
    /\ \A g \in Selected("createdComment") : Loader(g) = "_byIdLoader"
BY DEF Selected, Loader

LEMMA Count2 ==
    ASSUME NEW a, NEW b, b \notin {a}
    PROVE  IsFiniteSet({a, b}) /\ Cardinality({a, b}) = 2
<1>1. IsFiniteSet({a}) /\ Cardinality({a}) = 1
  BY FS_Singleton
<1>2. IsFiniteSet({a} \cup {b}) /\ Cardinality({a} \cup {b}) = 2
  BY <1>1, FS_AddElement
<1>3. {a} \cup {b} = {a, b}
  OBVIOUS
<1>. QED
  BY <1>2, <1>3

LEMMA Count5 ==
    ASSUME NEW a, NEW b, NEW d, NEW e, NEW f,
           b \notin {a}, d \notin {a, b}, e \notin {a, b, d}, f \notin {a, b, d, e}
    PROVE  Cardinality({a, b, d, e, f}) = 5
<1>0. IsFiniteSet({a, b}) /\ Cardinality({a, b}) = 2
  BY Count2
<1>1. IsFiniteSet({a, b} \cup {d}) /\ Cardinality({a, b} \cup {d}) = 3
  BY <1>0, FS_AddElement
<1>2. {a, b} \cup {d} = {a, b, d}
  OBVIOUS
<1>3. IsFiniteSet({a, b, d} \cup {e}) /\ Cardinality({a, b, d} \cup {e}) = 4
  BY <1>1, <1>2, FS_AddElement
<1>4. {a, b, d} \cup {e} = {a, b, d, e}
  OBVIOUS
<1>5. Cardinality({a, b, d, e} \cup {f}) = 5
  BY <1>3, <1>4, FS_AddElement
<1>6. {a, b, d, e} \cup {f} = {a, b, d, e, f}
  OBVIOUS
<1>. QED
  BY <1>5, <1>6

LEMMA LoadingCount ==
    /\ Cardinality(Loading("posts")) = 5 /\ Cardinality(Loading("createPost")) = 5
    /\ Cardinality(Loading("users")) = 1 /\ Cardinality(Loading("createdComment")) = 2
<1>1. /\ Selected("posts") = {"user", "comments"} /\ Selected("createPost") = {"user", "comments"}
      /\ Selected("users") = {"posts of user"} /\ Selected("user") = {"posts of user"}
      /\ Selected("createdComment") = {"user of comment"}
      /\ Selected("comments") = {"user of comment"}
      /\ Selected("user of comment") = {"posts of commenter"}
      /\ Selected("posts of user") = {} /\ Selected("posts of commenter") = {}
  BY DEF Selected
<1>2. /\ Loading("posts") = {"user", "comments", "posts of user", "user of comment", "posts of commenter"}
      /\ Loading("createPost") = {"user", "comments", "posts of user", "user of comment", "posts of commenter"}
  <2>1. UNION {Selected(f) : f \in {"user", "comments"}} = {"posts of user", "user of comment"}
    BY <1>1
  <2>2. UNION {Selected(f) : f \in {"posts of user", "user of comment"}} = {"posts of commenter"}
    BY <1>1
  <2>. QED
    BY <1>1, <2>1, <2>2 DEF Loading
<1>3. Loading("users") = {"posts of user"}
  <2>1. UNION {Selected(f) : f \in {"posts of user"}} = {} /\ UNION {Selected(f) : f \in {}} = {}
    BY <1>1
  <2>. QED
    BY <1>1, <2>1 DEF Loading
<1>4. Loading("createdComment") = {"user of comment", "posts of commenter"}
  <2>1. UNION {Selected(f) : f \in {"user of comment"}} = {"posts of commenter"}
    BY <1>1
  <2>2. UNION {Selected(f) : f \in {"posts of commenter"}} = {}
    BY <1>1
  <2>. QED
    BY <1>1, <2>1, <2>2 DEF Loading
<1>5. Cardinality({"posts of user"}) = 1
  BY FS_Singleton
<1>6. Cardinality({"user of comment", "posts of commenter"}) = 2
  <2>1. "posts of commenter" \notin {"user of comment"}
    OBVIOUS
  <2>. QED
    BY <2>1, Count2
<1>7. Cardinality({"user", "comments", "posts of user", "user of comment", "posts of commenter"}) = 5
  <2>1. /\ "comments" \notin {"user"} /\ "posts of user" \notin {"user", "comments"}
        /\ "user of comment" \notin {"user", "comments", "posts of user"}
        /\ "posts of commenter" \notin {"user", "comments", "posts of user", "user of comment"}
    OBVIOUS
  <2>. QED
    BY <2>1, Count5
<1>. QED
  BY <1>2, <1>3, <1>4, <1>5, <1>6, <1>7

LEMMA DebtType ==
    ASSUME NEW q, IsFiniteSet(q.flight)
    PROVE  \A loader : /\ IsFiniteSet(Sent(q, loader)) /\ Cardinality(Sent(q, loader)) \in Nat
                       /\ One(Pending(q, loader)) \in {0, 1}
<1>. TAKE loader
<1>1. Sent(q, loader) \in SUBSET q.flight
  BY DEF Sent
<1>2. IsFiniteSet(Sent(q, loader))
  BY <1>1, FS_Subset
<1>. QED
  BY <1>2, FS_CardinalityType DEF One

\* Loads that nobody has sent are one batch of their loader.
LEMMA NothingSent ==
    ASSUME NEW q, q.flight = {} PROVE \A loader : Cardinality(Sent(q, loader)) = 0
<1>1. \A loader : Sent(q, loader) = {}
  BY DEF Sent
<1>. QED
  BY <1>1, FS_EmptySet

LEMMA BudgetStep ==
    ASSUME IInv, Budget, NEW c \in Context, NEW new, Update(c, new), BudgetInv(new)
    PROVE  Budget'
<1>1. ctx'[c] = new /\ \A x \in Context \ {c} : ctx'[x] = ctx[x]
  BY DEF IInv, Update
<1>. QED
  BY <1>1 DEF Budget

\* An operation begins with a debt of its fields.
LEMMA StartBudget ==
    ASSUME NEW q, NEW root \in {"posts", "createPost", "users", "createdComment"}, NEW rows,
           q.flight = {}, q.queue = LoadsFor(Selected(root), rows),
           q.todo = "loading", q.root = root, q.queries = 0
    PROVE  BudgetInv(q)
<1>1. IsFiniteSet(q.flight)
  BY FS_EmptySet
<1>2. \A loader : Cardinality(Sent(q, loader)) = 0 /\ One(Pending(q, loader)) \in {0, 1}
  BY <1>1, NothingSent, DebtType
<1>3. \A x \in q.queue : x.field \in Selected(root)
  BY DEF LoadsFor
<1>4. CASE root \in {"posts", "createPost"}
  <2>1. Pending(q, "_byUserIdLoader") = {}
    BY <1>3, <1>4, LoadersAtRoot, KeysAtRoot DEF Pending
  <2>2. Debt(q) <= 5
    BY <1>2, <2>1 DEF Debt, One
  <2>. QED
    BY <1>1, <1>4, <2>2, LoadingCount, <1>2 DEF BudgetInv, Debt, Roots
<1>5. CASE root = "users"
  <2>1. Pending(q, "_byIdLoader") = {} /\ Pending(q, "batchLoaderCallback") = {}
    BY <1>3, <1>5, LoadersAtRoot DEF Pending
  <2>. QED
    BY <1>1, <1>2, <1>5, <2>1, LoadingCount DEF BudgetInv, Debt, One, Roots
<1>6. CASE root = "createdComment"
  <2>1. Pending(q, "_byUserIdLoader") = {} /\ Pending(q, "batchLoaderCallback") = {}
    BY <1>3, <1>6, LoadersAtRoot DEF Pending
  <2>. QED
    BY <1>1, <1>2, <1>6, <2>1, LoadingCount DEF BudgetInv, Debt, One, Roots
<1>. QED
  BY <1>4, <1>5, <1>6

LEMMA OpenBudget ==
    ASSUME IInv, Budget, NEW c \in Context, NEW forever \in BOOLEAN, Open(c, forever)
    PROVE  Budget'
<1>. DEFINE new == [Closed EXCEPT !.todo = "ready", !.forever = forever, !.since = applied]
<1>1. new.flight = {} /\ new.queries = 0 /\ new.todo = "ready"
  BY DEF Closed
<1>2. Update(c, new)
  BY DEF Open
<1>. HIDE DEF new
<1>3. BudgetInv(new)
  BY <1>1, FS_EmptySet DEF BudgetInv
<1>. QED
  BY <1>2, <1>3, BudgetStep

LEMMA BeginBudget ==
    ASSUME IInv, Budget, NEW c \in Context, ctx[c].todo = "ready",
           NEW root \in {"posts", "users", "createdComment"}, NEW rows, NEW failed,
           Start(c, root, rows, failed)
    PROVE  Budget'
<1>. DEFINE new == [ctx[c] EXCEPT !.todo = "loading", !.root = root, !.queries = 0,
                                  !.failed = failed,
                                  !.queue = LoadsFor(Selected(root), rows)]
<1>1. ctx[c] \in CtxRecord /\ ctx[c].flight = {}
  BY DEF IInv, CtxInv
<1>2. /\ new.todo = "loading" /\ new.root = root /\ new.queries = 0
      /\ new.queue = LoadsFor(Selected(root), rows) /\ new.flight = {}
  BY <1>1 DEF CtxRecord
<1>3. Update(c, new)
  BY DEF Start
<1>. HIDE DEF new
<1>4. BudgetInv(new)
  BY <1>2, StartBudget
<1>. QED
  BY <1>3, <1>4, BudgetStep

LEMMA ListBudget ==
    ASSUME IInv, Budget, NEW c \in Context, List(c) \/ Event(c) PROVE Budget'
<1>1. ctx[c].todo = "ready"
  BY DEF List, Event, Ready
<1>2. ASSUME NEW root \in {"posts", "users", "createdComment"}, NEW rows, NEW failed,
             Start(c, root, rows, failed)
      PROVE  Budget'
  BY <1>1, <1>2, BeginBudget
<1>3. CASE List(c)
  BY <1>2, <1>3 DEF List, ListPosts, ListUsers, RefuseList
<1>4. CASE Event(c)
  BY <1>2, <1>4 DEF Event
<1>. QED
  BY <1>3, <1>4

LEMMA CreatePostBudget ==
    ASSUME IInv, Budget, NEW c \in Context, CreatePost(c) PROVE Budget'
<1>1. PICK p \in Post : Update(c, [ctx[c] EXCEPT !.todo = "reread", !.made = {p}])
  BY DEF CreatePost
<1>. DEFINE new == [ctx[c] EXCEPT !.todo = "reread", !.made = {p}]
<1>2. ctx[c] \in CtxRecord /\ ctx[c].todo = "ready" /\ ctx[c].forever = FALSE
  BY DEF IInv, CreatePost, Ready
<1>3. new.todo = "reread" /\ new.flight = ctx[c].flight /\ new.queries = ctx[c].queries
  BY <1>2 DEF CtxRecord
<1>. HIDE DEF new
<1>4. BudgetInv(new)
  BY <1>2, <1>3 DEF Budget, BudgetInv
<1>. QED
  BY <1>1, <1>4, BudgetStep DEF new

LEMMA GetPostBudget ==
    ASSUME IInv, Budget, NEW c \in Context, GetPost(c) PROVE Budget'
<1>. DEFINE found == ctx[c].made \cap primary.posts
            failed == found = {}
            new == [ctx[c] EXCEPT !.todo = "loading", !.root = "createPost",
                                  !.made = @ \ found, !.failed = failed,
                                  !.queue = LoadsFor(Selected("createPost"), found)]
<1>1. /\ ctx[c] \in CtxRecord /\ ctx[c].flight = {}
      /\ ctx[c].todo = "reread" /\ ctx[c].queries = 0
  BY DEF IInv, CtxInv, GetPost, Budget, BudgetInv
<1>2. Update(c, new)
  BY DEF GetPost
<1>. HIDE DEF found, failed
<1>3. /\ new.todo = "loading" /\ new.root = "createPost" /\ new.queries = 0
      /\ new.queue = LoadsFor(Selected("createPost"), found) /\ new.flight = {}
  BY <1>1 DEF CtxRecord
<1>. HIDE DEF new
<1>4. BudgetInv(new)
  BY <1>3, StartBudget
<1>. QED
  BY <1>2, <1>4, BudgetStep

LEMMA FinishBudget ==
    ASSUME IInv, Budget, NEW c \in Context, Finish(c) \/ Unsubscribe(c) PROVE Budget'
<1>. DEFINE q == ctx[c]
            closed == [q EXCEPT !.todo = "closed"]
            ready == [q EXCEPT !.todo = "ready", !.failed = FALSE, !.root = "none"]
<1>1. q \in CtxRecord /\ IsFiniteSet(q.flight)
  BY DEF IInv, Budget, BudgetInv
<1>2. closed.todo = "closed" /\ closed.flight = q.flight
  BY <1>1 DEF CtxRecord
<1>3. ready.todo = "ready" /\ ready.flight = q.flight /\ ready.forever = q.forever
  BY <1>1 DEF CtxRecord
<1>4. \/ Update(c, closed)
      \/ q.forever /\ Update(c, ready)
  BY DEF Finish, Unsubscribe
<1>. HIDE DEF closed, ready
<1>5. BudgetInv(closed) /\ (q.forever => BudgetInv(ready))
  BY <1>1, <1>2, <1>3 DEF BudgetInv
<1>. QED
  BY <1>4, <1>5, BudgetStep

LEMMA DispatchBudget ==
    ASSUME IInv, Budget, NEW c \in Context, NEW loader \in LoaderName, Dispatch(c, loader)
    PROVE  Budget'
<1>. DEFINE q == ctx[c]
            loads == Queued(c, loader)
            keys == {x.key : x \in loads} \ Known(c, loader)
            batch == [loader |-> loader, keys |-> keys, loads |-> loads]
            asked == IF keys = {} THEN 0 ELSE 1
            queue == q.queue \ loads
            flight == q.flight \cup {batch}
            queries == q.queries + asked
            new == [q EXCEPT !.queue = queue, !.flight = flight, !.queries = queries]
<1>1. /\ q \in CtxRecord /\ q.queries \in Nat /\ IsFiniteSet(q.flight)
      /\ loads # {} /\ loads = Pending(q, loader) /\ asked \in {0, 1}
  BY DEF IInv, CtxRecord, Budget, BudgetInv, Dispatch, Queued, Pending
<1>2. q.todo = "loading"
  BY <1>1 DEF IInv, CtxInv, Pending
<1>3. q.root \in Roots /\ q.queries + Debt(q) <= Cardinality(Loading(q.root))
  BY <1>2 DEF Budget, BudgetInv
<1>4. Update(c, new)
  BY DEF Dispatch, Send
<1>5. batch.loader = loader
  OBVIOUS
<1>6. IsFiniteSet(flight)
  BY <1>1, FS_AddElement
<1>. HIDE DEF loads, keys, asked, batch
<1>7. /\ \A l \in LoaderName \ {loader} : Sent([flight |-> flight], l) = Sent(q, l)
      /\ Sent([flight |-> flight], loader) = Sent(q, loader) \cup {batch}
  BY <1>5 DEF Sent
<1>8. /\ \A l \in LoaderName \ {loader} : Pending([queue |-> queue], l) = Pending(q, l)
      /\ Pending([queue |-> queue], loader) = {}
  BY <1>1 DEF Pending
<1>. HIDE DEF queue, flight, queries
<1>9. /\ new.queue = queue /\ new.flight = flight /\ new.queries = queries
      /\ new.todo = "loading" /\ new.root = q.root
  BY <1>1, <1>2 DEF CtxRecord
<1>. HIDE DEF new
<1>10. /\ \A l \in LoaderName \ {loader} :
             Sent(new, l) = Sent(q, l) /\ Pending(new, l) = Pending(q, l)
       /\ Sent(new, loader) = Sent(q, loader) \cup {batch} /\ Pending(new, loader) = {}
  BY <1>7, <1>8, <1>9 DEF Sent, Pending
<1>11. /\ \A l \in LoaderName :
             /\ Cardinality(Sent(q, l)) \in Nat /\ IsFiniteSet(Sent(q, l))
             /\ One(Pending(q, l)) \in {0, 1} /\ Cardinality(Sent(new, l)) \in Nat
       /\ One(Pending(q, loader)) = 1 /\ One(Pending(new, loader)) = 0
  BY <1>1, <1>6, <1>9, <1>10, DebtType DEF One
<1>12. Cardinality(Sent(new, loader)) <= Cardinality(Sent(q, loader)) + 1
  <2>1. PICK S : S = Sent(q, loader)
    OBVIOUS
  <2>2. IsFiniteSet(S) /\ Cardinality(S) \in Nat
    BY <1>11, <2>1
  <2>3. Cardinality(S \cup {batch}) \in {Cardinality(S), Cardinality(S) + 1}
    BY <2>2, FS_AddElement, Zenon
  <2>. QED
    BY <1>10, <2>1, <2>2, <2>3
<1>. DEFINE sent(l) == Cardinality(Sent(q, l))
            sent1(l) == Cardinality(Sent(new, l))
            one(l) == One(Pending(q, l))
            one1(l) == One(Pending(new, l))
<1>13. Debt(new) + 1 <= Debt(q)
  <2>1. /\ Debt(q) = 3 * one("batchLoaderCallback") + 2 * sent("batchLoaderCallback")
                     + 2 * one("_byIdLoader") + sent("_byIdLoader") + one("_byUserIdLoader")
        /\ Debt(new) = 3 * one1("batchLoaderCallback") + 2 * sent1("batchLoaderCallback")
                     + 2 * one1("_byIdLoader") + sent1("_byIdLoader") + one1("_byUserIdLoader")
    BY DEF Debt
  <2>2. \A l \in LoaderName : sent(l) \in Nat /\ sent1(l) \in Nat /\ one(l) \in {0, 1}
    BY <1>11
  <2>3. /\ \A l \in LoaderName \ {loader} : sent1(l) = sent(l) /\ one1(l) = one(l)
        /\ sent1(loader) <= sent(loader) + 1 /\ one(loader) = 1 /\ one1(loader) = 0
    BY <1>10, <1>11, <1>12
  <2>. HIDE DEF sent, sent1, one, one1
  <2>4. CASE loader = "batchLoaderCallback"
    BY <2>1, <2>2, <2>3, <2>4 DEF LoaderName
  <2>5. CASE loader = "_byIdLoader"
    BY <2>1, <2>2, <2>3, <2>5 DEF LoaderName
  <2>6. CASE loader = "_byUserIdLoader"
    BY <2>1, <2>2, <2>3, <2>6 DEF LoaderName
  <2>. QED
    BY <2>4, <2>5, <2>6 DEF LoaderName
<1>14. Debt(q) \in Nat /\ Debt(new) \in Nat /\ Cardinality(Loading(q.root)) \in Int
  <2>1. Debt(q) \in Nat /\ Debt(new) \in Nat
    BY <1>11, <1>10 DEF Debt, LoaderName, One
  <2>. QED
    BY <1>3, <2>1, LoadingCount DEF Roots
<1>15. BudgetInv(new)
  BY <1>1, <1>3, <1>6, <1>9, <1>13, <1>14 DEF BudgetInv, queries
<1>. QED
  BY <1>4, <1>15, BudgetStep

LEMMA SettleBudget ==
    ASSUME IInv, Budget, NEW c \in Context, NEW b \in ctx[c].flight,
           NEW more, NEW failed, Settle(c, b, more, failed)
    PROVE  Budget'
<1>. DEFINE q == ctx[c]
            memo == q.memo \cup more
            others == q.flight \ {b}
            answers(x) == {e \in memo : e.loader = b.loader /\ e.key = x.key}
            settled == {x \in b.loads : answers(x) # {}}
            rows(x) == UNION {e.rows : e \in answers(x)}
            waiting(o) == IF o.loader = b.loader
                          THEN [o EXCEPT !.loads = @ \cup {x \in b.loads : x.key \in o.keys}]
                          ELSE o
            flight == {waiting(o) : o \in others}
            queue == q.queue \cup UNION {LoadsFor(Selected(x.field), rows(x)) : x \in settled}
            fails == \/ q.failed \/ failed
                     \/ b.loader = "_byIdLoader" /\ \E x \in settled : rows(x) = {}
            new == [q EXCEPT !.memo = memo, !.flight = flight, !.queue = queue,
                             !.failed = fails]
            w == [o \in others |-> waiting(o)]
<1>1. /\ q \in CtxRecord /\ q.queries \in Nat /\ IsFiniteSet(q.flight)
      /\ LoadsInv(q) /\ b \in Batch /\ b.loader \in LoaderName
  BY DEF IInv, CtxInv, CtxRecord, Budget, BudgetInv, Batch
<1>2. q.todo = "loading"
  BY DEF IInv, CtxInv
<1>3. q.root \in Roots /\ q.queries + Debt(q) <= Cardinality(Loading(q.root))
  BY <1>2 DEF Budget, BudgetInv
<1>4. Update(c, new)
  BY DEF Settle
<1>5. \A y \in queue : y \in q.queue \/ Loader(y.field) = Below(b.loader)
  <2>1. SUFFICES ASSUME NEW x \in settled, NEW y \in LoadsFor(Selected(x.field), rows(x))
                 PROVE  Loader(y.field) = Below(b.loader)
    OBVIOUS
  <2>2. y.field \in Selected(x.field)
    BY DEF LoadsFor
  <2>3. x.field \in Fields /\ Loader(x.field) = b.loader
    BY <1>1 DEF LoadsInv, LoadType
  <2>. QED
    BY <2>2, <2>3, LoadersBelow
<1>6. q.queue \subseteq queue
  OBVIOUS
<1>7. \A o \in others : w[o].loader = o.loader
  BY <1>1 DEF CtxRecord, Batch
<1>8. /\ flight = {w[o] : o \in others} /\ DOMAIN w = others
      /\ w \in [others -> flight] /\ \A a \in flight : \E o \in others : w[o] = a
  OBVIOUS
<1>. HIDE DEF memo, settled, rows, answers, waiting, fails, queue, w, flight, others
<1>9. /\ new.queue = queue /\ new.flight = flight /\ new.queries = q.queries
      /\ new.todo = "loading" /\ new.root = q.root
  BY <1>1, <1>2 DEF CtxRecord
<1>. HIDE DEF new
<1>10. IsFiniteSet(flight)
  <2>1. w \in Surjection(others, flight)
    BY <1>8, Fun_IsSurj
  <2>2. IsFiniteSet(others)
    BY <1>1, FS_RemoveElement DEF others
  <2>. QED
    BY <2>1, <2>2, FS_Surjection
<1>11. \A l : /\ Cardinality(Sent(new, l)) <= Cardinality(Sent(q, l))
              /\ b.loader = l => Cardinality(Sent(new, l)) <= Cardinality(Sent(q, l)) - 1
  <2>. TAKE l
  <2>. DEFINE before == Sent(q, l)
              left == Sent(new, l)
              rest == before \ {b}
              onto == [o \in rest |-> w[o]]
  <2>1. /\ IsFiniteSet(before) /\ Cardinality(before) \in Nat
        /\ Cardinality(left) \in Nat
    BY <1>1, <1>9, <1>10, DebtType
  <2>2. /\ b \in before <=> b.loader = l
        /\ \A a \in left : \E o \in rest : w[o] = a
        /\ \A o \in rest : w[o] \in left
    BY <1>7, <1>8, <1>9 DEF Sent, others
  <2>. HIDE DEF before, left
  <2>3. /\ IsFiniteSet(rest) /\ Cardinality(rest) <= Cardinality(before)
        /\ b.loader = l => Cardinality(rest) <= Cardinality(before) - 1
    <3>1. /\ IsFiniteSet(before \ {b})
          /\ Cardinality(before \ {b})
               = IF b \in before THEN Cardinality(before) - 1 ELSE Cardinality(before)
      BY <2>1, FS_RemoveElement
    <3>. QED
      BY <2>1, <2>2, <3>1
  <2>4. onto \in [rest -> left] /\ \A a \in left : \E o \in rest : onto[o] = a
    BY <2>2
  <2>. HIDE DEF onto, rest
  <2>5. onto \in Surjection(rest, left)
    BY <2>4, Fun_IsSurj
  <2>6. Cardinality(left) <= Cardinality(rest) /\ Cardinality(rest) \in Nat
    BY <2>3, <2>5, FS_Surjection, FS_CardinalityType
  <2>7. /\ Cardinality(left) <= Cardinality(before)
        /\ b.loader = l => Cardinality(left) <= Cardinality(before) - 1
    BY <2>1, <2>3, <2>6
  <2>. QED
    BY <2>7 DEF left, before
<1>. DEFINE sent(l) == Cardinality(Sent(q, l))
            sent1(l) == Cardinality(Sent(new, l))
            one(l) == One(Pending(q, l))
            one1(l) == One(Pending(new, l))
<1>12. \A l \in LoaderName : /\ sent(l) \in Nat /\ sent1(l) \in Nat
                             /\ one(l) \in {0, 1} /\ one1(l) \in {0, 1}
  BY <1>1, <1>9, <1>10, DebtType
<1>13. \A l \in LoaderName : l # Below(b.loader) => one1(l) = one(l)
  <2>1. \A l \in LoaderName : l # Below(b.loader) => Pending(new, l) = Pending(q, l)
    BY <1>5, <1>6, <1>9 DEF Pending
  <2>. QED
    BY <2>1
<1>14. \A l \in LoaderName : /\ sent1(l) <= sent(l)
                             /\ l = b.loader => sent1(l) <= sent(l) - 1
  BY <1>11, <1>12
<1>15. /\ Debt(q) = 3 * one("batchLoaderCallback") + 2 * sent("batchLoaderCallback")
                    + 2 * one("_byIdLoader") + sent("_byIdLoader") + one("_byUserIdLoader")
       /\ Debt(new) = 3 * one1("batchLoaderCallback") + 2 * sent1("batchLoaderCallback")
                    + 2 * one1("_byIdLoader") + sent1("_byIdLoader") + one1("_byUserIdLoader")
  BY DEF Debt
<1>. HIDE DEF sent, sent1, one, one1
<1>16. Debt(new) <= Debt(q)
  <2>1. CASE b.loader = "batchLoaderCallback"
    BY <1>12, <1>13, <1>14, <1>15, <2>1 DEF LoaderName, Below
  <2>2. CASE b.loader = "_byIdLoader"
    BY <1>12, <1>13, <1>14, <1>15, <2>2 DEF LoaderName, Below
  <2>3. CASE b.loader = "_byUserIdLoader"
    BY <1>12, <1>13, <1>14, <1>15, <2>3 DEF LoaderName, Below
  <2>. QED
    BY <1>1, <2>1, <2>2, <2>3 DEF LoaderName
<1>17. Debt(q) \in Nat /\ Debt(new) \in Nat /\ Cardinality(Loading(q.root)) \in Int
  BY <1>3, <1>12, <1>15, LoadingCount DEF LoaderName, Roots
<1>18. BudgetInv(new)
  BY <1>1, <1>3, <1>9, <1>10, <1>16, <1>17 DEF BudgetInv
<1>. QED
  BY <1>4, <1>18, BudgetStep

\* An operation sends at most one query per field that loads, however many
\* rows there are and in whatever order its batches are answered
\* (user/sql-datasource.ts:87-96, "kill N+1 queries", readme.md:5).
THEOREM FewQueries == Spec => []QueriesBounded
<1>1. Init => Budget
  <2>1. Closed.flight = {} /\ Closed.todo = "closed"
    BY DEF Closed
  <2>. QED
    BY <2>1, FS_EmptySet DEF Init, Budget, BudgetInv
<1>2. IInv /\ Budget /\ [Next]_vars => Budget'
  <2>1. ASSUME IInv, Budget, UNCHANGED ctx PROVE Budget'
    BY <2>1 DEF Budget
  <2>2. ASSUME IInv, Budget, NEW c \in Context, Progress(c) PROVE Budget'
    <3>1. \A f \in UNION {Loading(r) : r \in Roots} : Loader(f) \in LoaderName
      BY DEF Loader, LoaderName
    <3>2. ASSUME NEW b \in ctx[c].flight, Answer(c, b) \/ QueryFails(c, b) PROVE Budget'
      BY <2>2, <3>2, SettleBudget DEF Answer, QueryFails
    <3>. QED
      BY <2>2, <3>1, <3>2, GetPostBudget, FinishBudget, DispatchBudget DEF Progress
  <2>3. ASSUME IInv, Budget, Next PROVE Budget'
    BY <2>1, <2>2, <2>3, OpenBudget, ListBudget, CreatePostBudget, FinishBudget
    DEF Next, Write, Replicate
  <2>. QED
    BY <2>1, <2>3 DEF vars
<1>3. IInv /\ Budget => QueriesBounded
  <2>1. SUFFICES ASSUME IInv, Budget, NEW c \in Context, Working(c)
                 PROVE  ctx[c].queries <= Cardinality(Loading(ctx[c].root))
    BY DEF QueriesBounded
  <2>2. /\ IsFiniteSet(ctx[c].flight) /\ ctx[c].queries \in Nat /\ ctx[c].root \in Roots
        /\ ctx[c].queries + Debt(ctx[c]) <= Cardinality(Loading(ctx[c].root))
    BY <2>1 DEF IInv, CtxRecord, Budget, BudgetInv, Working
  <2>3. Debt(ctx[c]) \in Nat
    BY <2>2, DebtType DEF Debt
  <2>. QED
    BY <2>2, <2>3, LoadingCount DEF Roots
<1>. QED
  BY <1>1, <1>2, <1>3, Invariance, PTL DEF Spec

=============================================================================
