-------------------------- MODULE MCUpdatePipeline --------------------------
(* Instances of UpdatePipeline for TLC: two replicas share the queues.     *)
EXTENDS UpdatePipeline

CONSTANTS e1, p1, p2, b1, b2

Message(kind, sender) == [kind |-> kind, sender |-> sender]

\* What people post, and a message of the bot b1.
TopicTraffic ==
  {Message(kind, Nobody) : kind \in {"new", "edit", "delete"}} \cup {Message("new", b1)}

\* For the restart: one new message of a person.
OneMessage == {Message("new", Nobody)}
=============================================================================
