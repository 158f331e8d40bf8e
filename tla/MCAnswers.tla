------------------------------ MODULE MCAnswers ------------------------------
(* Log frames of every kind the loop tells apart, reports with every kind  *)
(* of entry, each answer cut everywhere.                                   *)
EXTENDS EngineAnswers

Frame(type, text) ==
    <<type, 0, 0, 0, 0, 0, Len(text) \div 256, Len(text) % 256>> \o text

Hello == <<32, 104, 105, 10>>   \* " hi\n"
Long == [i \in 1 .. 130 |-> 120]

Halves(r) == <<Half(r, 0), Half(r, 1)>>

Good(pid, mem, limit) ==
    [error |-> FALSE, stats |-> TRUE, listed |-> TRUE, numbers |-> TRUE,
     mem |-> mem, limit |-> limit, pid |-> pid]

MCEntry == <<
    Good(6, 0, Huge), Good(7, 1023, 1047551), Good(8, 1572464, MaxInt), Good(0, 1048063, Huge),
    [Good(9, 1, 2) EXCEPT !.numbers = FALSE], [Good(9, 1, 2) EXCEPT !.error = TRUE],
    [Good(9, 1, 2) EXCEPT !.stats = FALSE], [Good(9, 1, 2) EXCEPT !.listed = FALSE],
    Good(9, 1048064, 1073217023), Good(9, 1073217024, 1609564160), Good(9, Huge, Huge)>>

MCAnswers == [
    logs |-> {<<>>, <<Frame(1, Hello), Frame(2, <<10>>), Frame(1, <<98>>)>>,
              <<Frame(1, Long), Frame(1, Hello)>>, <<Frame(1, <<>>), Frame(2, Hello)>>},
    stats |-> {<<>>, <<Halves(1)>>, <<Halves(1), Halves(2), Halves(3)>>}
              \cup {<<Halves(1), Halves(r)>> : r \in 2 .. Len(MCEntry)}]

MCPlans == {<<"logs">>, <<"stats", "containers", "stats">>}

(* An uptime below, at and above each unit, one of days and a bit, and a   *)
(* clock that was set back.                                                *)
MCStarted == {0, 1000}
MCClock == {1000 + t : t \in {-1, 0, 60, 61, 3600, 3601, 3660, 3661, 86400, 86401, 90000, 90061}}
==============================================================================
