--------------------------- MODULE MCBotAccounts ----------------------------
(* Instances of BotGateway for TLC: calls are interchangeable, and so are  *)
(* usernames and requests.                                                 *)
EXTENDS BotGateway, TLC

CONSTANTS c1, c2, c3, n1, n2, r1

SymmetricCalls ==
  Permutations(Calls) \cup Permutations(Usernames) \cup Permutations(HttpRequests)
=============================================================================
