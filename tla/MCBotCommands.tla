--------------------------- MODULE MCBotCommands ---------------------------
(* An instance of BotCommands for TLC: names of up to three characters at  *)
(* a limit of two, with the name characters a and A and one other.         *)
EXTENDS BotCommands, TLC

MCLowerCase == "a" :> "a" @@ "A" :> "a" @@ "b" :> "b"

Texts(chars, n) == UNION {[1..k -> chars] : k \in 0..n}

Command(name, description) == [command |-> name, description |-> description]

\* Each name and each description alone; pairs; more than the limit.
MCRequests ==
  {<<Command(n, <<"d">>)>> : n \in Texts({"a", "/", " ", "!"}, 2)
                                    \cup {<<"/", "a", "b">>, <<"/", "/", "a">>}}
    \cup {<<Command(<<"a">>, d)>> : d \in Texts({"d", " "}, 3)}
    \cup {<<Command(n, <<"d">>), Command(o, <<" ", "d">>)>> :
            n \in Texts({"a", "/"}, 2), o \in Texts({"A", "b", "/"}, 2)}
    \cup {<<Command(<<"a">>, <<"d">>), Command(<<"b">>, <<"d">>), Command(<<"a", "b">>, <<"d">>)>>}

MCBackfilled == <<Command(<<"/", "b">>, <<"d">>)>>
=============================================================================
