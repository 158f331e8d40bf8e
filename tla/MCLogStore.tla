------------------------------ MODULE MCLogStore ------------------------------
(* A type that is always enabled, errors, and two that need a level; one   *)
(* text is logged as every type.                                           *)
EXTENDS LogStore

MCLevels == {-1, 0, 1, 2, 4}

MCHandlerLogs == {<<"debug", "a">>, <<"verbose", "b">>}

MCLogged == MCHandlerLogs \cup {<<"info", "a">>, <<"error", "a">>, <<"error", "b">>,
                                <<"verbose", "a">>}
==============================================================================
