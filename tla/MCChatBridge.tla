---------------------------- MODULE MCChatBridge ----------------------------
(* Instances of ChatBridge for TLC: bot b1 is activated and deactivated    *)
(* while b2, once there, stays.                                            *)
EXTENDS ChatBridgeProperties, TLC

CONSTANTS b1, b2, u1, u2, person, t1

UserOfBots == (b1 :> u1) @@ (b2 :> u2)

Message(kind, sender, isSystem) ==
  [kind |-> kind, topic |-> t1, sender |-> sender, isSystem |-> isSystem]

\* What people, the bot b1 and the chat itself may post in the topic.
TopicTraffic ==
  {Message("new", person, FALSE), Message("new", u1, FALSE),
   Message("edit", person, FALSE), Message("delete", person, FALSE),
   Message("new", person, TRUE)}
=============================================================================
