------------------------------- MODULE LogStore -------------------------------
(***************************************************************************)
(* The store of log entries (src/shared/log.cpp) as the daemon uses it,    *)
(* and what of them it prints at each log level (src/shared/app.cpp).      *)
(*                                                                         *)
(* The first message comes before main(): the global mutex (src/signal.cpp)*)
(* logs in its constructor that it registers the signal handlers           *)
(* (src/shared/mutex.cpp), and from then on the handler may log.  All this *)
(* is judged at the default level, as parse_cmdline() sets the levels      *)
(* later.                                                                  *)
(*                                                                         *)
(* A message stands for the trimmed text in whatever case; details, the    *)
(* file and messages for the store alone are not used by the daemon.  Two  *)
(* threads write the store without a lock: whatever that does, it is not   *)
(* in this module, which has one message after another.                    *)
(***************************************************************************)
EXTENDS Integers, SequencesExt, FiniteSetsExt

CONSTANTS
    Types,       \* the types of messages: "info", "error", "verbose", "vverbose", "debug"
    Msgs,        \* the texts of messages
    Logged,      \* <<type, msg>> of all the messages of the program but the first
    Registering, \* the text of the first one, which is of type "debug"
    HandlerLogs, \* those of die_handler()
    Levels,      \* the log levels the daemon may be started with
    MaxSize,     \* EVENT_LOG_MAX_SIZE
    MaxMessages  \* bound: messages in one behaviour

ASSUME LogAssumption ==
    /\ MaxSize \in Nat \ {0} /\ MaxMessages \in Nat /\ "" \notin Msgs
    /\ "debug" \in Types /\ Registering \in Msgs
    /\ HandlerLogs \subseteq Logged /\ Logged \subseteq Types \X Msgs
    /\ IsFiniteSet(Types) /\ IsFiniteSet(Msgs)

VARIABLES
    phase,       \* "loading" before main(), "cmdline" till the level is set, "runs"
    log_level,
    store,       \* sequence of entries
    last_msg,    \* what was printed last
    told,        \* history: how often each message came
    dropped,     \* history: the sum of the counts of the entries dropped
    shown,       \* history: the messages printed in full
    early        \* history: the messages that came before the level was set

logVars == <<store, last_msg, told, dropped, shown, early>>
vars == <<phase, log_level, logVars>>

Notice == "(duplicate message atleast once)"

Init ==
    /\ phase = "loading" /\ log_level = 0
    /\ store = <<>> /\ last_msg = ""
    /\ told = [x \in Types \X Msgs |-> 0] /\ dropped = 0 /\ shown = {} /\ early = {}

(* log::output_level                                                       *)
OutputLevel(type) ==
    CASE type = "verbose"  -> log_level > 1
      [] type = "vverbose" -> log_level > 2
      [] type = "debug"    -> log_level > 3
      [] OTHER             -> TRUE

(* The streams a level leaves.                                             *)
TypeShouldEcho(type) == log_level # -1 /\ (log_level = 1 => type = "error")

(* Mutant of Equals: the type does not matter.                             *)
EqualsMsg(type, msg, e) == e.msg = msg

Equals(type, msg, e) == e.type = type /\ e.msg = msg

LastOf(entries) ==
    IF entries = <<>> THEN [type |-> "ANY", msg |-> "", count |-> 0] ELSE Last(entries)

(* Mutant of LastIndexOf: it counts from 0.                                *)
LastIndexOfFromZero(type, msg) ==
    LET same == {i \in DOMAIN store : store[i].type = type} IN
    IF same # {} /\ store[Max(same)].msg = msg THEN Max(same) - 1 ELSE 0

(* The place of the last entry of the type if it has the message, else 0.  *)
LastIndexOf(type, msg) ==
    LET same == {i \in DOMAIN store : store[i].type = type} IN
    IF same # {} /\ store[Max(same)].msg = msg THEN Max(same) ELSE 0

(* Mutant of Dropped: one entry more is kept.                              *)
DroppedLate(entries) == IF Len(entries) > MaxSize + 1 THEN Len(entries) - MaxSize - 1 ELSE 0

(* process_entry() drops the oldest entries, all but MaxSize.              *)
Dropped(entries) == IF Len(entries) > MaxSize THEN Len(entries) - MaxSize ELSE 0

Total(f) == FoldFunction(+, 0, f)

Counts(entries) == Total([i \in DOMAIN entries |-> entries[i].count])

(* What is printed: the message, or a notice in place of one that repeats  *)
(* the last entry that is enabled, unless that was the last thing printed. *)
Echo(type, msg) ==
    LET enabled == {i \in DOMAIN store : OutputLevel(store[i].type)}
        again == \E i \in enabled : (\A j \in enabled : j <= i) /\ Equals(type, msg, store[i]) IN
    IF TypeShouldEcho(type) /\ OutputLevel(type) /\ ~(again /\ last_msg = Notice)
    THEN /\ last_msg' = IF again THEN Notice ELSE msg
         /\ shown' = IF again THEN shown ELSE shown \cup {<<type, msg>>}
    ELSE UNCHANGED <<last_msg, shown>>

(* A message equal to the last entry replaces it; one equal to the last of *)
(* its type counts there; any other is appended.  The place of the entry   *)
(* to count is found before the oldest are dropped.                        *)
ProcessEntry(type, msg) ==
    LET last == LastOf(store)
        again == Equals(type, msg, last)
        index == IF again THEN 0 ELSE LastIndexOf(type, msg)
        others == IF again THEN Front(store) ELSE store
        n == Dropped(others)
        kept == SubSeq(others, n + 1, Len(others)) IN
    /\ Total(told) < MaxMessages
    /\ store' = IF index = 0
                THEN Append(kept, [type |-> type, msg |-> msg,
                                   count |-> IF again THEN last.count + 1 ELSE 1])
                ELSE [kept EXCEPT ![index].count = @ + 1]
    /\ dropped' = dropped + Counts(SubSeq(others, 1, n))
    /\ told' = [told EXCEPT ![<<type, msg>>] = @ + 1]
    /\ early' = IF phase = "runs" THEN early ELSE early \cup {<<type, msg>>}
    /\ Echo(type, msg)
    /\ UNCHANGED log_level

-----------------------------------------------------------------------------
(* The constructor of MutexStore.                                          *)
Register ==
    /\ phase = "loading"
    /\ ProcessEntry("debug", Registering)
    /\ phase' = "cmdline"

(* What parse_cmdline() makes of the options.                              *)
ParseCmdLine ==
    /\ phase = "cmdline"
    /\ log_level' \in Levels
    /\ phase' = "runs"
    /\ UNCHANGED logVars

(* Any message; before the level is set only a TERM can bring one.         *)
Message ==
    /\ phase # "loading"
    /\ \E x \in IF phase = "runs" THEN Logged ELSE HandlerLogs : ProcessEntry(x[1], x[2])
    /\ UNCHANGED phase

Next == Register \/ ParseCmdLine \/ Message

Spec == Init /\ [][Next]_vars

-----------------------------------------------------------------------------
(* Types; and the store never holds more than one entry above its size.    *)
LogTypeOK ==
    /\ store \in Seq([type : Types, msg : Msgs, count : Nat \ {0}])
    /\ Len(store) <= MaxSize + 1
    /\ last_msg \in Msgs \cup {"", Notice}
    /\ shown \subseteq Types \X Msgs /\ early \subseteq Types \X Msgs
    /\ phase \in {"loading", "cmdline", "runs"} /\ (phase # "runs" => log_level = 0)

(* Of the entries of one type no two that follow each other are the same:  *)
(* a repetition is always counted, wherever entries of other types are.    *)
NoRepeats ==
    \A i, j \in DOMAIN store :
        /\ i < j /\ store[i].type = store[j].type /\ store[i].msg = store[j].msg
        => \E k \in i + 1 .. j - 1 : store[k].type = store[i].type /\ store[k].msg # store[i].msg

CountsOf(x, entries) == Total([i \in DOMAIN entries |->
    IF <<entries[i].type, entries[i].msg>> = x THEN entries[i].count ELSE 0])

(* Every message is counted somewhere, and as long as nothing had to be    *)
(* dropped, in an entry of its own: the index found before an entry is     *)
(* taken out or dropped never points behind the store.                     *)
CountsRight ==
    /\ Counts(store) + dropped = Total(told)
    /\ dropped = 0 => \A x \in DOMAIN told : CountsOf(x, store) = told[x]

(* An entry in the store of a type that is printed has been printed in     *)
(* full, or came before the level was set.  So no notice stands for a      *)
(* message that was not seen, but for these: with --debug the store begins *)
(* with an entry that nobody saw, and a second TERM is announced as the    *)
(* repetition of one that came unseen during the start.                    *)
NothingUnseen ==
    \A i \in DOMAIN store :
        TypeShouldEcho(store[i].type) /\ OutputLevel(store[i].type) =>
            <<store[i].type, store[i].msg>> \in shown \cup early
==============================================================================
