----------------------------- MODULE MessageBoard -----------------------------
(***************************************************************************)
(* What the handlers of messaging/mod.rs promise to those who write and    *)
(* read by them: a message is posted once, in a thread that it starts or   *)
(* that a posted message is in; its composer is told how the post went,    *)
(* once; and it only moves on, but for the moment of that answer. A sealed *)
(* message, which cannot be decoded, is by none of these handlers marked   *)
(* read, deleted or answered; others of the crate do not look (Mailbox).   *)
(***************************************************************************)
EXTENDS Naturals

CONSTANT Messages

VARIABLE post   \* of each message: status, thread, whether the body is "plain" or "sealed",
                \* and the standing of its post: "none", "open", "accepted" or "failed"

Pending == 0
Sent    == 1
Read    == 3
Deleted == 5

Blank(m) == [status |-> Pending, thread |-> m, body |-> "plain", standing |-> "none"]

BoardInit == post = [m \in Messages |-> Blank(m)]

Posted == {m \in Messages : post[m].standing # "none"}

\* The threads that are open to a new message: its own, and those of what can be answered.
ThreadsFor(m) == {m} \cup {post[p].thread : p \in {q \in Posted : post[q].body = "plain"}}

Publish(m, t, body) ==
  /\ m \notin Posted
  /\ t \in ThreadsFor(m)
  /\ post' = [post EXCEPT ![m] = [status |-> Pending, thread |-> t, body |-> body,
                                  standing |-> "open"]]

\* Success, which leaves the message Sent whatever became of it since it was posted.
Accept(m) ==
  /\ post[m].standing = "open"
  /\ post' = [post EXCEPT ![m] = [status |-> Sent, thread |-> post[m].thread,
                                  body |-> post[m].body, standing |-> "accepted"]]

\* An error or a restart is the answer to any number of composers.
Abandon(S) ==
  /\ \A m \in S : post[m].standing = "open"
  /\ post' = [m \in Messages |-> IF m \in S THEN [post[m] EXCEPT !.standing = "failed"]
                                 ELSE post[m]]

MoveOn(m, s) ==
  /\ m \in Posted /\ post[m].body = "plain"
  /\ s > post[m].status
  /\ post' = [post EXCEPT ![m].status = s]

BoardNext ==
  \/ \E m, t \in Messages, body \in {"plain", "sealed"} : Publish(m, t, body)
  \/ \E m \in Messages : Accept(m) \/ \E s \in {Read, Deleted} : MoveOn(m, s)
  \/ \E S \in SUBSET Messages : Abandon(S)

BoardSpec == BoardInit /\ [][BoardNext]_post
=============================================================================
