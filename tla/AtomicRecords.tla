--------------------------- MODULE AtomicRecords ---------------------------
(***************************************************************************)
(* What the operations on users, posts and comments promise to those who   *)
(* call them, however many statements they take: every call acts on the    *)
(* tables at most once, in a single step that checks the rights and the    *)
(* constraints on the very rows it changes ("updatePost ... # owner only", *)
(* readme.md, GraphQL API).  A call that is answered with a row or with    *)
(* true has acted; one that is answered with false has found nothing to    *)
(* act on; an error says nothing of what was done.  An id stands for the   *)
(* same row for ever.                                                      *)
(***************************************************************************)
EXTENDS Naturals

CONSTANTS
    Name, UserId, PostId,
    Request,    \* calls that can be in flight at the same time
    NoRow,      \* no such row
    NoName      \* userName is not part of an update

VARIABLES
    names,      \* names[id]: the name of user id, or NoRow
    posts,      \* posts[id]: owner of post id and who wrote its text, or NoRow
    comments,   \* <<author, post>>
    usedUsers,  \* ids that have been given to a user
    usedPosts,
    call        \* call[r]: call r

tables == <<names, posts, comments>>
used == <<usedUsers, usedPosts>>
vars == <<tables, used, call>>

\* What is left of a call that has acted; nothing, before and after it.
Trace(stage, op, id) ==
    [stage |-> stage, op |-> op, id |-> id, name |-> NoName, auth |-> 0]
Nothing == Trace("none", "none", 0)

Init ==
    /\ names \in [UserId -> Name \cup {NoRow}]
    /\ posts \in [PostId -> [owner : UserId, body : UserId] \cup {NoRow}]
    /\ comments = {}
    /\ \A i, j \in UserId : names[i] = names[j] /\ names[i] # NoRow => i = j
    /\ \A p \in PostId : posts[p] # NoRow => names[posts[p].owner] # NoRow
    /\ usedUsers \subseteq UserId /\ usedPosts \subseteq PostId
    /\ \A id \in UserId : names[id] # NoRow => id \in usedUsers
    /\ \A id \in PostId : posts[id] # NoRow => id \in usedPosts
    /\ call = [r \in Request |-> Nothing]

Turn(r, new) == call' = [call EXCEPT ![r] = new]

\* The call has acted: on a row that it reads again to answer with ...
Acted(r, id) == Turn(r, Trace("acted", call[r].op, id))
\* ... or is over, and has done what it was asked for ...
Succeeds(r) == Turn(r, Trace("ok", call[r].op, call[r].id))
\* ... or has not.
Ends(r, stage) == Turn(r, Trace(stage, "none", 0))

Calls ==
    [stage : {"asked"},
     op : {"createUser", "updateUser", "deleteUser",
           "createPost", "updatePost", "deletePost", "createComment"},
     id : UserId \cup PostId \cup {0}, name : Name \cup {NoName}, auth : UserId \cup {0}]

\* Anybody may ask for anything.
Ask(r) ==
    /\ call[r].stage = "none"
    /\ call'[r] \in Calls
    /\ Turn(r, call'[r])
    /\ UNCHANGED <<tables, used>>

Asked(r, op) == call[r].stage = "asked" /\ call[r].op = op

\* Nobody but id has the name.
Free(name, id) == \A other \in UserId \ {id} : names[other] # name

CreateUser(r) ==
    /\ Asked(r, "createUser")
    /\ Free(call[r].name, 0)
    /\ \E id \in UserId \ usedUsers :
          /\ names' = [names EXCEPT ![id] = call[r].name]
          /\ usedUsers' = usedUsers \cup {id}
          /\ Acted(r, id)
    /\ UNCHANGED <<posts, comments, usedPosts>>

\* A user that is gone stays so.
UpdateUser(r) ==
    LET id == call[r].id  name == call[r].name IN
    /\ Asked(r, "updateUser")
    /\ id = call[r].auth
    /\ IF names[id] = NoRow \/ name = NoName THEN UNCHANGED names
       ELSE Free(name, id) /\ names' = [names EXCEPT ![id] = name]
    /\ Acted(r, id)
    /\ UNCHANGED <<posts, comments, used>>

\* The user goes with all that is hers.
DeleteUser(r) ==
    LET id == call[r].id
        hers(p) == posts[p] # NoRow /\ posts[p].owner = id
    IN
    /\ Asked(r, "deleteUser")
    /\ id = call[r].auth
    /\ IF names[id] = NoRow THEN Ends(r, "no") /\ UNCHANGED tables
       ELSE /\ Succeeds(r)
            /\ names' = [names EXCEPT ![id] = NoRow]
            /\ posts' = [p \in PostId |-> IF hers(p) THEN NoRow ELSE posts[p]]
            /\ comments' = {c \in comments : c[1] # id /\ ~hers(c[2])}
    /\ UNCHANGED used

CreatePost(r) ==
    LET auth == call[r].auth IN
    /\ Asked(r, "createPost")
    /\ names[auth] # NoRow
    /\ \E id \in PostId \ usedPosts :
          /\ posts' = [posts EXCEPT ![id] = [owner |-> auth, body |-> auth]]
          /\ usedPosts' = usedPosts \cup {id}
          /\ Acted(r, id)
    /\ UNCHANGED <<names, comments, usedUsers>>

UpdatePost(r) ==
    LET id == call[r].id IN
    /\ Asked(r, "updatePost")
    /\ IF posts[id] = NoRow THEN UNCHANGED posts
       ELSE /\ posts[id].owner = call[r].auth
            /\ posts' = [posts EXCEPT ![id].body = call[r].auth]
    /\ Acted(r, id)
    /\ UNCHANGED <<names, comments, used>>

DeletePost(r) ==
    LET id == call[r].id IN
    /\ Asked(r, "deletePost")
    /\ IF posts[id] = NoRow THEN Ends(r, "no") /\ UNCHANGED tables
       ELSE /\ posts[id].owner = call[r].auth
            /\ Succeeds(r)
            /\ posts' = [posts EXCEPT ![id] = NoRow]
            /\ comments' = {c \in comments : c[2] # id}
            /\ UNCHANGED names
    /\ UNCHANGED used

CreateComment(r) ==
    LET comment == <<call[r].auth, call[r].id>> IN
    /\ Asked(r, "createComment")
    /\ names[call[r].auth] # NoRow /\ posts[call[r].id] # NoRow
    /\ comment \notin comments
    /\ comments' = comments \cup {comment}
    /\ Succeeds(r)
    /\ UNCHANGED <<names, posts, used>>

\* The answer is the row as it is now: one that has gone meanwhile, or was
\* gone before the call acted, is never answered with.
AnswerRow(r) ==
    /\ call[r].stage = "acted"
    /\ IF call[r].op \in {"createUser", "updateUser"}
       THEN names[call[r].id] # NoRow ELSE posts[call[r].id] # NoRow
    /\ Succeeds(r)
    /\ UNCHANGED <<tables, used>>

\* An error, before the call acts or after.  It may have used up an id.
Fail(r) ==
    /\ call[r].stage \in {"none", "asked", "acted", "ok"}
    /\ Ends(r, "failed")
    /\ usedUsers \subseteq usedUsers' /\ usedUsers' \subseteq UserId
    /\ usedPosts \subseteq usedPosts' /\ usedPosts' \subseteq PostId
    /\ UNCHANGED tables

Return(r) ==
    /\ call[r].stage \in {"ok", "no", "failed"}
    /\ Turn(r, Nothing)
    /\ UNCHANGED <<tables, used>>

Next ==
    \E r \in Request :
        \/ Ask(r) \/ CreateUser(r) \/ UpdateUser(r) \/ DeleteUser(r)
        \/ CreatePost(r) \/ UpdatePost(r) \/ DeletePost(r) \/ CreateComment(r)
        \/ AnswerRow(r) \/ Fail(r) \/ Return(r)

Spec == Init /\ [][Next]_vars

=============================================================================
