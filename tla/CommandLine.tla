----------------------------- MODULE CommandLine -----------------------------
(***************************************************************************)
(* parse_cmdline() (src/shared/app.cpp): the arguments are read from left  *)
(* to right; an option takes the argument behind it whatever that is.      *)
(* Options are named by their first spelling.                              *)
(***************************************************************************)
EXTENDS Integers, Sequences

CONSTANTS
    CmdLines,   \* the command lines the daemon is started with
    Number      \* the arguments that are numbers, with their values

ASSUME CommandLineAssumption == \A w \in DOMAIN Number : Number[w] \in Nat

VARIABLES
    args,       \* what is left of the command line
    log_level,  \* -1 quiet, 0 default, 1 errors only, 2 .. 5 verbose to trace
    delay,      \* Loop::_delay in ms
    exit,       \* "none", or how the program has been left: "ok" or "error"
    given       \* history: the level options that were read

cmdVars == <<args, log_level, delay, exit, given>>

Rank == [o \in {"--only-errors", "-v", "-vv", "-debug", "-trace"} |->
            CASE o = "--only-errors" -> 1 [] o = "-v" -> 2 [] o = "-vv" -> 3
              [] o = "-debug" -> 4 [] OTHER -> 5]

CmdInit ==
    /\ args \in CmdLines
    /\ log_level = 0 /\ delay = 650 /\ exit = "none" /\ given = {}

Leave(how) == exit' = how /\ UNCHANGED <<args, log_level, delay, given>>

Use(n) == args' = SubSeq(args, n + 1, Len(args)) /\ UNCHANGED exit

(* An option that raises the level is not recognised once the level is as  *)
(* high, and is then unknown.                                              *)
RaiseLevel ==
    /\ Head(args) \in DOMAIN Rank /\ log_level < Rank[Head(args)]
    /\ IF log_level < 0
       THEN Leave("error")
       ELSE /\ log_level' = Rank[Head(args)]
            /\ given' = given \cup {Head(args)}
            /\ Use(1) /\ UNCHANGED delay

(* Mutant of Quiet: only a level above "errors only" excludes it.          *)
QuietAfterErrors ==
    /\ Head(args) = "-q"
    /\ IF log_level > 1
       THEN Leave("error")
       ELSE /\ log_level' = -1
            /\ given' = given \cup {"-q"}
            /\ Use(1) /\ UNCHANGED delay

Quiet ==
    /\ Head(args) = "-q"
    /\ IF log_level > 0
       THEN Leave("error")
       ELSE /\ log_level' = -1
            /\ given' = given \cup {"-q"}
            /\ Use(1) /\ UNCHANGED delay

(* -s, -l and --interval with the argument they take: a path that is not   *)
(* empty, anything, a number of milliseconds.                              *)
WithValue ==
    /\ Head(args) \in {"-s", "-l", "-interval"}
    /\ IF \/ Len(args) = 1
          \/ Head(args) = "-s" /\ args[2] = ""
          \/ Head(args) = "-interval" /\ ~(args[2] \in DOMAIN Number /\ Number[args[2]] \in 500 .. 1800)
       THEN Leave("error")
       ELSE /\ delay' = IF Head(args) = "-interval" THEN Number[args[2]] ELSE delay
            /\ Use(2) /\ UNCHANGED <<log_level, given>>

Help == Head(args) = "--help" /\ Leave("ok")

Version == Head(args) = "-version" /\ Leave("ok")

Ignore == Head(args) = "" /\ Use(1) /\ UNCHANGED <<log_level, delay, given>>

Unknown ==
    /\ Head(args) \notin {"-q", "-s", "-l", "-interval", "--help", "-version", ""}
    /\ Head(args) \in DOMAIN Rank => log_level >= Rank[Head(args)]
    /\ Leave("error")

ParseArgument ==
    /\ exit = "none" /\ args # <<>>
    /\ RaiseLevel \/ Quiet \/ WithValue \/ Help \/ Version \/ Ignore \/ Unknown

-----------------------------------------------------------------------------
(* Whatever the order of the options: a daemon that starts is as verbose   *)
(* as the most verbose option it was given, and quiet only if it was told  *)
(* nothing else.                                                           *)
LevelAsAsked ==
    exit = "none" =>
        \/ given = {} /\ log_level = 0
        \/ given = {"-q"} /\ log_level = -1
        \/ /\ given \subseteq DOMAIN Rank
           /\ \E o \in given : log_level = Rank[o]
           /\ \A o \in given : log_level >= Rank[o]
==============================================================================
