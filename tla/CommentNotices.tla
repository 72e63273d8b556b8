-------------------------- MODULE CommentNotices --------------------------
(***************************************************************************)
(* What createComment and the createdComment subscription promise,         *)
(* however many processes, connections and messages are between them.  The *)
(* call that inserted a comment, and nobody else, speaks for it: it puts   *)
(* the comment on the topic, or tells the subscribers itself, before it    *)
(* reports success.  A comment on the topic is done with when the owner of *)
(* its post has been told, or when it is kept, or logged, for somebody to  *)
(* look at.                                                                *)
(***************************************************************************)

CONSTANT Comment    \* each on a post of its own

VARIABLES
    posts,      \* comments whose post exists
    table,      \* comments that are rows
    speaking,   \* comments with a call that has inserted and not answered
    acked,      \* comments whose createComment succeeded
    topic,      \* comments on the topic
    told,       \* comments that the owner of the post was notified of
    kept, lost, \* comments in the dead-letter topic; in the log
    done        \* comments that no consumer will be given, as things are

rows == <<posts, table>>
dealt == <<told, kept, lost>>
vars == <<rows, speaking, acked, topic, dealt, done>>

Init ==
    /\ posts = Comment
    /\ table = {} /\ speaking = {} /\ acked = {} /\ topic = {}
    /\ told = {} /\ kept = {} /\ lost = {} /\ done = {}

\* On a post that exists, and not twice.
Create(c) ==
    /\ c \in posts \ table
    /\ table' = table \cup {c}
    /\ speaking' = speaking \cup {c}
    /\ UNCHANGED <<posts, acked, topic, dealt, done>>

\* The caller may be told otherwise.
Publish(c) ==
    /\ c \in speaking
    /\ speaking' = speaking \ {c}
    /\ \/ topic' = topic \cup {c} /\ UNCHANGED told
       \/ told' = told \cup {c} /\ UNCHANGED topic
    /\ acked' \in {acked, acked \cup {c}}
    /\ UNCHANGED <<rows, kept, lost, done>>

\* Calls end without having published, and handlers with a line in the log.
GiveUp ==
    /\ speaking' \in SUBSET speaking
    /\ lost \subseteq lost' /\ lost' \subseteq lost \cup topic
    /\ UNCHANGED <<rows, acked, topic, told, kept, done>>

Tell(c) ==
    /\ c \in topic
    /\ told' = told \cup {c}
    /\ UNCHANGED <<rows, speaking, acked, topic, kept, lost, done>>

Keep(c) ==
    /\ c \in topic
    /\ kept' = kept \cup {c}
    /\ UNCHANGED <<rows, speaking, acked, topic, told, lost, done>>

\* Comments may be given to a consumer again.
Commit ==
    /\ done' \in SUBSET (topic \cap (told \cup kept \cup lost))
    /\ UNCHANGED <<rows, speaking, acked, topic, dealt>>

DeletePost(c) ==
    /\ c \in posts
    /\ posts' = posts \ {c}
    /\ table' = table \ {c}
    /\ UNCHANGED <<speaking, acked, topic, dealt, done>>

Next ==
    \/ \E c \in Comment :
          Create(c) \/ Publish(c) \/ Tell(c) \/ Keep(c) \/ DeletePost(c)
    \/ GiveUp \/ Commit

Spec == Init /\ [][Next]_vars

=============================================================================
