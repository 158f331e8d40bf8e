----------------------------- MODULE MCLifecycle -----------------------------
(* The daemon started with every pair of options of a kind, and with       *)
(* arguments that are refused.                                             *)
EXTENDS Lifecycle, TLC

Levels == {"--only-errors", "-v", "-trace", "-q"}

MCCmdLines ==
    {<<>>} \cup {<<a>> : a \in Levels \cup {"--help", "-x", "-s"}}
    \cup {<<a, b>> : a, b \in Levels}
    \cup {<<"-s", "">>, <<"-interval", "400">>, <<"-interval", "-v">>}
    \cup {<<"-s", "-q", "-interval", "1800">>, <<"", "-l", "-v", "-v">>}

MCNumber == ("400" :> 400) @@ ("1800" :> 1800)
==============================================================================
