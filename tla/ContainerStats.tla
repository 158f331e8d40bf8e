---------------------------- MODULE ContainerStats ----------------------------
(***************************************************************************)
(* podman_t::update_stats() and parse_stats() (src/podman/podman_stats.cpp *)
(* and podman_parser_stats.cpp) as one container sees them, and what the   *)
(* ubus reply makes of its uptime and its memory (src/ubus/ubus_podman.cpp)*)
(*                                                                         *)
(* Amounts of memory are integers, as the engine sends them.  The share of *)
(* the CPU is the number of the report it is from (load).                  *)
(***************************************************************************)
EXTENDS Socket

CONSTANTS
    Entry,     \* what each report says of the container
    Started,   \* when the container may have been started, 0 if never
    Clock      \* what the system clock may show, in seconds

MaxInt == 2147483647
Huge == -1     \* any amount from 2 GiB on

ASSUME StatsAssumption ==
    /\ Started \subseteq Nat /\ Clock \subseteq Int
    /\ \A r \in DOMAIN Entry : Entry[r] \in
        [error : BOOLEAN, stats : BOOLEAN, listed : BOOLEAN, numbers : BOOLEAN,
         mem : Int, limit : Int, pid : Int]
        \* pid is 0 for a list, of which the code reads none, and for no number at all
    /\ \A r \in DOMAIN Entry : \A amount \in {Entry[r].mem, Entry[r].limit} :
          amount = Huge \/ (amount >= 0 /\ amount <= MaxInt)
    /\ DOMAIN Entry \subseteq Nat \ {0}
    /\ \A a \in Answers["stats"] : a \in Seq({<<Half(r, 0), Half(r, 1)>> : r \in DOMAIN Entry})

VARIABLES
    cntr,      \* the container in the view
    used,      \* history: the report the last update was made from, 0 if none
    news       \* history: the reports parsed for it and the pids it was listed with,
               \* since parse_stats() last found it stopped

statsVars == <<cntr, used, news>>

(* json_object_get_int() of an amount; a container's figures of memory.    *)
ReadInt(amount) == IF amount = Huge THEN MaxInt ELSE amount

Ram(r) ==
    LET used_ == ReadInt(Entry[r].mem)
        max_ == ReadInt(Entry[r].limit)
    IN [used |-> used_, max |-> max_, free |-> max_ - used_]

NoRam == [used |-> 0, max |-> 0, free |-> 0]

StatsInit ==
    /\ cntr = [isRunning |-> TRUE, startedAt |-> 0, uptime |-> 0,
               load |-> 0, ram |-> NoRam, pids |-> -1, pid |-> -1]
    /\ used = 0 /\ news = <<>>

(* update_containers() lists the container anew, with a pid or without;    *)
(* copy_details() keeps the figures and the pids, but not the pid.         *)
Relist(run, started, pid, now) ==
    /\ at = "idle" /\ plan # <<>> /\ Head(plan) = "containers"
    /\ plan' = Tail(plan)
    /\ cntr' = [cntr EXCEPT !.isRunning = run, !.startedAt = started, !.pid = pid,
                            !.uptime = IF started > 0 THEN now - started ELSE 0]
    /\ news' = Append(news, [source |-> "list", n |-> pid])
    /\ UNCHANGED <<at, query, answer, rest, pieces, body, ok, used>>

Stopped == [cntr EXCEPT !.load = 0, !.ram = NoRam, !.pids = -1, !.pid = -1]

(* Mutant of ParseStats: the pids are taken before the figures are         *)
(* looked at.                                                              *)
ParseStatsPidsFirst(r) ==
    LET pids == IF Entry[r].pid >= 1 THEN Entry[r].pid ELSE cntr.pids IN
    IF ~cntr.isRunning THEN Stopped
    ELSE IF Entry[r].numbers THEN [cntr EXCEPT !.load = r, !.ram = Ram(r), !.pids = pids]
    ELSE [cntr EXCEPT !.pids = pids]

(* Load and memory are written before the pid is looked at, and stay when  *)
(* that is refused.                                                        *)
ParseStats(r) ==
    LET figures == [cntr EXCEPT !.load = r, !.ram = Ram(r)] IN
    IF ~cntr.isRunning THEN Stopped
    ELSE IF ~Entry[r].numbers THEN cntr
    ELSE IF Entry[r].pid >= 1 THEN [figures EXCEPT !.pids = Entry[r].pid, !.pid = Entry[r].pid]
    ELSE figures

(* Mutant of Second: the first report will do.                             *)
First == IF ok /\ IsArray(body) THEN Element(body, 1) ELSE 0

(* The second report is used, since the first covers no interval.          *)
Second == IF ok /\ IsArray(body) /\ ArrayLength(body) >= 2 THEN Element(body, 2) ELSE 0

(* It says of nothing that went wrong, and has a list of containers.       *)
Usable(r) == r # 0 /\ ~Entry[r].error /\ Entry[r].stats

StatsRefused ==
    /\ at = "stats" /\ ~Usable(Second)
    /\ at' = "idle" /\ used' = 0
    /\ UNCHANGED <<query, answer, rest, pieces, body, ok, plan, cntr, news>>

(* A container's uptime is renewed whether its entry was accepted or not.  *)
StatsTaken ==
    LET r == Second IN
    /\ at = "stats" /\ Usable(r)
    /\ \E now \in Clock :
          cntr' = IF ~Entry[r].listed THEN cntr
                  ELSE [ParseStats(r) EXCEPT !.uptime =
                           IF cntr.startedAt > 0 THEN now - cntr.startedAt ELSE 0]
    /\ news' = IF ~Entry[r].listed THEN news
               ELSE IF ~cntr.isRunning THEN <<>>
               ELSE Append(news, [source |-> "stats", n |-> r])
    /\ used' = r
    /\ at' = "idle"
    /\ UNCHANGED <<query, answer, rest, pieces, body, ok, plan>>

UpdateStats == StatsRefused \/ StatsTaken

-----------------------------------------------------------------------------
(* Mutant of Units: what has become days is not taken off.                 *)
UnitsKeepDays(uptime) ==
    LET Whole(t, unit) == IF t > unit THEN t \div unit ELSE 0
        d == Whole(uptime, 86400)
        h == Whole(uptime, 3600)
        m == Whole(uptime - 3600 * h, 60)
    IN [days |-> d, hours |-> h, minutes |-> m, seconds |-> (uptime - 3600 * h - 60 * m) % 65536]

(* The uptime in the reply, in numbers of 16 bits.                         *)
Units(uptime) ==
    LET Whole(t, unit) == IF t > unit THEN t \div unit ELSE 0
        d == Whole(uptime, 86400)
        h == Whole(uptime - 86400 * d, 3600)
        m == Whole(uptime - 86400 * d - 3600 * h, 60)
    IN [days |-> d % 65536, hours |-> h, minutes |-> m,
        seconds |-> (uptime - 86400 * d - 3600 * h - 60 * m) % 65536]

(* Mutant of Larger: the remainder is cut off.                             *)
LargerCut(n, d) == n \div d

(* common::round() of n / d, for a number that is not negative and d even. *)
Larger(n, d) == n \div d + IF n % d >= d \div 2 THEN 1 ELSE 0

(* common::memToStr(amount, true), which rounds at each unit on the way;   *)
(* a value in gb is in hundredths.                                         *)
MemToStr(amount) ==
    LET kb == Larger(amount, 1024)
        mb == Larger(kb, 1024)
    IN IF amount < 1024 THEN [value |-> amount, unit |-> "b"]
       ELSE IF kb < 1024 THEN [value |-> kb, unit |-> "kb"]
       ELSE IF mb < 1024 THEN [value |-> mb, unit |-> "mb"]
       ELSE [value |-> Larger(100 * mb, 1024), unit |-> "gb"]

-----------------------------------------------------------------------------
(* Stats are taken only from an answer that libcurl handed over report by  *)
(* report, and from the second of them; a report that comes in two pieces  *)
(* or two that come in one are never taken for another.                    *)
StatsAligned ==
    at = "idle" /\ query = "stats" /\ used # 0 =>
        /\ Len(answer) >= 2
        /\ pieces = <<answer[1], answer[2]>>
        /\ answer[2] = <<Half(used, 0), Half(used, 1)>>

Latest(i, S) == i \in S /\ \A j \in S : j <= i

(* The reports parsed that have the figures, those that have both figures  *)
(* and pids, and the refreshes of the list.                                *)
Figures == {i \in DOMAIN news : news[i].source = "stats" /\ Entry[news[i].n].numbers}
WithPid == {i \in Figures : Entry[news[i].n].pid >= 1}
Refreshes == {i \in DOMAIN news : news[i].source = "list"}

(* What is shown of a container's figures is that of the last report that  *)
(* has them; its pids are those of the last report that has both, and may  *)
(* be of an earlier one than the figures beside them: a report without a   *)
(* pid that can be read renews the figures only.  pid is overwritten by    *)
(* every list too, with or without a process.  Nothing is left of what     *)
(* came before the container was found stopped.                            *)
FiguresOfLatest ==
    /\ IF Figures = {} THEN cntr.load = 0
       ELSE \A i \in Figures : Latest(i, Figures) => cntr.load = news[i].n
    /\ IF WithPid = {} THEN cntr.pids = -1
       ELSE \A i \in WithPid : Latest(i, WithPid) => cntr.pids = Entry[news[i].n].pid
    /\ IF WithPid \cup Refreshes = {} THEN cntr.pid = -1
       ELSE \A i \in WithPid \cup Refreshes : Latest(i, WithPid \cup Refreshes) =>
               cntr.pid = IF i \in Refreshes THEN news[i].n ELSE Entry[news[i].n].pid

(* The units in the reply make up the uptime, of a clock that was not set  *)
(* back behind the start and as far as 16 bits of days reach.  A unit of a *)
(* full day, hour or minute is left as it is, but nothing beyond it.       *)
UptimeShown ==
    LET u == Units(cntr.uptime) IN
    cntr.uptime >= 0 /\ cntr.uptime \div 86400 < 65536 =>
        /\ 86400 * u.days + 3600 * u.hours + 60 * u.minutes + u.seconds = cntr.uptime
        /\ u.hours <= 24 /\ u.minutes <= 60 /\ u.seconds <= 60

(* Text for an amount is within half of its last digit of the amount, but  *)
(* for the half kb and the half mb that rounding at the smaller units adds;*)
(* and it is in the unit a reader expects, with no 1024 of a smaller one.  *)
Accurate(m, amount) ==
    LET Near(x, y, by) == x - y <= by /\ y - x <= by
    IN CASE m.unit = "b"  -> m.value = amount /\ amount < 1024
         [] m.unit = "kb" -> m.value \in 1 .. 1023 /\ Near(amount, 1024 * m.value, 512)
         [] m.unit = "mb" -> m.value \in 1 .. 1023
                             /\ Near(amount, 1048576 * m.value, 524288 + 512)
         [] m.unit = "gb" -> m.value >= 100
                             /\ Near(25 * (amount \div 1024), 262144 * m.value, 131072 + 25 * 512 + 25)

(* The memory in the reply, used and in all, is that of the report the     *)
(* load is from, to the accuracy of its unit.  From 2 GiB on it is not: an *)
(* amount is read as an integer of 32 bits, and any that is larger shows   *)
(* as 2.00gb.  What is free is the rest, if neither is that large.         *)
MemShown ==
    LET e == Entry[cntr.load]
        Shows(m, amount) == IF amount = Huge THEN m = [value |-> 200, unit |-> "gb"]
                                             ELSE Accurate(m, amount)
    IN IF cntr.load = 0 THEN cntr.ram = NoRam
       ELSE /\ Shows(MemToStr(cntr.ram.used), e.mem)
            /\ Shows(MemToStr(cntr.ram.max), e.limit)
            /\ Huge \notin {e.mem, e.limit} /\ e.mem <= e.limit =>
                  Shows(MemToStr(cntr.ram.free), e.limit - e.mem)
==============================================================================
