------------------------------ MODULE Lifecycle ------------------------------
(***************************************************************************)
(* Start and end of the daemon: main() (src/main.cpp), the TERM handler    *)
(* (src/signal.cpp), the flags of Loop and the loop thread's turns         *)
(* (src/loop.cpp), and what a turn does until the system information is    *)
(* there (update_system(), src/podman/podman_t.cpp).                       *)
(*                                                                         *)
(* The shared objects are made before the loop thread and the handlers,    *)
(* and released after them; the thread and main() tell each other by two   *)
(* flags and a join.                                                       *)
(***************************************************************************)
EXTENDS CommandLine

CONSTANTS
    MaxTerms,      \* bound: TERM and INT signals in one behaviour
    UloopForgets   \* uloop_run() starts anew, whatever uloop_end() was called before

ASSUME LifecycleAssumption == MaxTerms \in Nat /\ UloopForgets \in BOOLEAN

VARIABLES
    main,       \* where main() is
    uloop_cancelled,
    obj,        \* what main() makes: "none", "live", "freed", "freed twice"
    thr,        \* where the loop thread is, "none" before it is made
    sig_exit, running,   \* the flags of Loop
    status,     \* podman_t::status
    known,      \* the parts of the system information the view has
    inited,     \* history: Podman::init has gone on beyond the system
    late,       \* history: turns begun after sig_exit was set
    terms,      \* signals so far
    heard       \* history: one of them came while uloop ran

shutVars == <<main, uloop_cancelled, obj, sig_exit>>
infoVars == <<status, known, inited>>
vars == <<cmdVars, shutVars, thr, running, infoVars, late, terms, heard>>

Data == {"podman_data", "podman_scheduler"}
Obj == Data \cup {"uloop", "ctx"}
Parts == {"host", "version"}

Init ==
    /\ CmdInit
    /\ main = "cmdline" /\ thr = "none"
    /\ uloop_cancelled = FALSE /\ sig_exit = FALSE /\ running = FALSE
    /\ obj = [o \in Obj |-> "none"]
    /\ status = "UNKNOWN" /\ known = {} /\ inited = FALSE
    /\ late = 0 /\ terms = 0 /\ heard = FALSE

(* freedata() hands what new has made to free(): the storage is given      *)
(* back, no destructor is run, and what an object holds elsewhere is not   *)
(* followed here.                                                          *)
Make(os) == [o \in Obj |-> IF o \in os THEN "live" ELSE obj[o]]
Free(os) == [o \in Obj |-> IF o \notin os THEN obj[o]
                                  ELSE IF obj[o] = "live" THEN "freed" ELSE "freed twice"]

-----------------------------------------------------------------------------
(* update_system(): no usable answer; or one whose two parts are objects   *)
(* or not, each complete or not.  The status becomes RUNNING with the      *)
(* first part that is an object, and a part is read only before that.      *)
(* Podman::init goes on to networks, containers and the rest only after an *)
(* answer that lacked nothing; the scheduler does not ask.                 *)
UpdateSystem ==
    \/ UNCHANGED infoVars
    \/ \E objects \in SUBSET Parts : \E complete \in SUBSET objects :
          LET fresh == status # "RUNNING"
              needsSystemUpdate == IF fresh THEN complete # Parts ELSE "host" \notin objects IN
          /\ known' = IF fresh THEN known \cup complete ELSE known
          /\ status' = IF objects # {} THEN "RUNNING" ELSE status
          /\ inited' = IF needsSystemUpdate THEN inited ELSE TRUE

-----------------------------------------------------------------------------
(* main(), from the top.                                                   *)
CmdLine ==
    /\ main = "cmdline"
    /\ IF exit = "none" /\ args # <<>>
       THEN ParseArgument /\ UNCHANGED main
       ELSE /\ main' = IF exit = "none" THEN "construct" ELSE "exited"
            /\ UNCHANGED cmdVars
    /\ UNCHANGED <<uloop_cancelled, obj, sig_exit, thr, running, infoVars, late, terms, heard>>

(* The constructor of podman_t runs Podman::init.                          *)
Construct ==
    /\ main = "construct"
    /\ UpdateSystem
    /\ obj' = Make(Data)
    /\ main' = "connect"
    /\ UNCHANGED <<cmdVars, uloop_cancelled, sig_exit, thr, running, late, terms, heard>>

(* uloop_init(), and a connection to ubus or a way out, on which uloop     *)
(* stays as it is.                                                         *)
Connect ==
    /\ main = "connect"
    /\ \/ main' = "create" /\ obj' = Make({"uloop", "ctx"})
       \/ /\ main' = "exited"
          /\ obj' = [o \in Obj |-> IF o = "uloop" THEN "live" ELSE Free(Data)[o]]
    /\ UNCHANGED <<cmdVars, uloop_cancelled, sig_exit, thr, running, infoVars, late, terms, heard>>

(* ubus_create(), and after a failure the second way out that leaves uloop.*)
Create ==
    /\ main = "create"
    /\ \/ main' = "spawn" /\ UNCHANGED obj
       \/ main' = "exited" /\ obj' = Free({"ctx"} \cup Data)
    /\ UNCHANGED <<cmdVars, uloop_cancelled, sig_exit, thr, running, infoVars, late, terms, heard>>

Spawn ==
    /\ main = "spawn"
    /\ thr' = "begin" /\ main' = "run"
    /\ UNCHANGED <<cmdVars, uloop_cancelled, obj, sig_exit, running, infoVars, late, terms, heard>>

(* uloop_run() calls the handlers of ubus until uloop_end().               *)
UloopRun ==
    /\ main = "run"
    /\ main' = "service"
    /\ uloop_cancelled' = IF UloopForgets THEN FALSE ELSE uloop_cancelled
    /\ UNCHANGED <<cmdVars, obj, sig_exit, thr, running, infoVars, late, terms, heard>>

(* Mutant of UloopDone: everything is released at once.                    *)
UloopDoneFreesAll ==
    /\ main = "service" /\ uloop_cancelled
    /\ main' = "stop"
    /\ obj' = Free(Obj)
    /\ UNCHANGED <<cmdVars, uloop_cancelled, sig_exit, thr, running, infoVars, late, terms, heard>>

UloopDone ==
    /\ main = "service" /\ uloop_cancelled
    /\ main' = "stop"
    /\ obj' = Free({"uloop", "ctx"})
    /\ UNCHANGED <<cmdVars, uloop_cancelled, sig_exit, thr, running, infoVars, late, terms, heard>>

SetExit ==
    /\ main = "stop"
    /\ sig_exit' = TRUE
    /\ main' = "poll"
    /\ UNCHANGED <<cmdVars, uloop_cancelled, obj, thr, running, infoVars, late, terms, heard>>

(* The poll ends as soon as the thread does not count as running, be it    *)
(* that it has not come so far yet.                                        *)
Poll ==
    /\ main = "poll" /\ ~running
    /\ main' = "join"
    /\ UNCHANGED <<cmdVars, uloop_cancelled, obj, sig_exit, thr, running, infoVars, late, terms, heard>>

(* Mutant of Join: the poll is taken to be enough.                         *)
JoinNot ==
    /\ main = "join"
    /\ main' = "exited" /\ obj' = Free(Data)
    /\ UNCHANGED <<cmdVars, uloop_cancelled, sig_exit, thr, running, infoVars, late, terms, heard>>

Join ==
    /\ main = "join" /\ thr = "gone"
    /\ main' = "exited" /\ obj' = Free(Data)
    /\ UNCHANGED <<cmdVars, uloop_cancelled, sig_exit, thr, running, infoVars, late, terms, heard>>

Main == CmdLine \/ Construct \/ Connect \/ Create \/ Spawn \/ UloopRun \/ UloopDone
        \/ SetExit \/ Poll \/ Join

-----------------------------------------------------------------------------
(* Loop::run().  It would return if it were running already; it sleeps     *)
(* first.                                                                  *)
ThreadBegin ==
    /\ thr = "begin"
    /\ thr' = IF running THEN "gone" ELSE "head"
    /\ running' = TRUE
    /\ UNCHANGED <<cmdVars, shutVars, infoVars, late, terms, heard>>

ThreadHead ==
    /\ thr = "head"
    /\ thr' = IF sig_exit THEN "end" ELSE "turn"
    /\ UNCHANGED <<cmdVars, shutVars, running, infoVars, late, terms, heard>>

(* Mutant of ThreadTurn: Podman::init is called until it was carried       *)
(* through, not until the status is RUNNING.                               *)
ThreadTurnInit ==
    /\ thr = "turn"
    /\ thr' = IF inited THEN "run" ELSE "init"
    /\ late' = IF sig_exit THEN late + 1 ELSE late
    /\ UNCHANGED <<cmdVars, shutVars, running, infoVars, terms, heard>>

(* Podman::init or Scheduler::run() is called; main() may set the exit     *)
(* flag between the test of it and this.                                   *)
ThreadTurn ==
    /\ thr = "turn"
    /\ thr' = IF status = "RUNNING" THEN "run" ELSE "init"
    /\ late' = IF sig_exit THEN late + 1 ELSE late
    /\ UNCHANGED <<cmdVars, shutVars, running, infoVars, terms, heard>>

(* Mutant of ThreadTurned: the loop goes on without looking at the flag    *)
(* while the engine has not answered.                                      *)
ThreadTurnedInto ==
    /\ \/ thr = "init" /\ UpdateSystem /\ thr' = "turn"
       \/ thr = "run" /\ UNCHANGED infoVars /\ thr' = "head"
    /\ UNCHANGED <<cmdVars, shutVars, running, late, terms, heard>>

ThreadTurned ==
    /\ \/ thr = "init" /\ UpdateSystem
       \/ thr = "run" /\ UNCHANGED infoVars
    /\ thr' = "head"
    /\ UNCHANGED <<cmdVars, shutVars, running, late, terms, heard>>

(* Mutant of ThreadEnd: the flag stays set.                                *)
ThreadEndSilent ==
    /\ thr = "end"
    /\ thr' = "gone" /\ UNCHANGED running
    /\ UNCHANGED <<cmdVars, shutVars, infoVars, late, terms, heard>>

ThreadEnd ==
    /\ thr = "end"
    /\ thr' = "gone" /\ running' = FALSE
    /\ UNCHANGED <<cmdVars, shutVars, infoVars, late, terms, heard>>

Thread == ThreadBegin \/ ThreadHead \/ ThreadTurn \/ ThreadTurned \/ ThreadEnd

-----------------------------------------------------------------------------
(* die_handler(), on TERM or INT.  It is installed before main() begins.   *)
Term ==
    /\ main # "exited" /\ terms < MaxTerms
    /\ terms' = terms + 1
    /\ uloop_cancelled' = TRUE
    /\ heard' = IF main = "service" THEN TRUE ELSE heard
    /\ UNCHANGED <<cmdVars, main, obj, sig_exit, thr, running, infoVars, late>>

Next == Main \/ Thread \/ Term

Spec == Init /\ [][Next]_vars

(* Both threads run; their sleeps and engine calls end.                    *)
FairSpec == Spec /\ WF_vars(Main) /\ WF_vars(Thread)

-----------------------------------------------------------------------------
MainStates == {"cmdline", "construct", "connect", "create", "spawn", "run", "service",
               "stop", "poll", "join", "exited"}
ThreadStates == {"none", "begin", "head", "turn", "init", "run", "end", "gone"}

(* Types; the poll flag is set exactly while the thread is in its loop.    *)
LifecycleTypeOK ==
    /\ main \in MainStates /\ thr \in ThreadStates
    /\ uloop_cancelled \in BOOLEAN /\ sig_exit \in BOOLEAN
    /\ running \in BOOLEAN /\ (running <=> thr \in {"head", "turn", "init", "run", "end"})
    /\ obj \in [Obj -> {"none", "live", "freed", "freed twice"}]
    /\ status \in {"UNKNOWN", "RUNNING"} /\ known \subseteq Parts
    /\ inited \in BOOLEAN /\ heard \in BOOLEAN /\ late \in Nat /\ terms \in Nat

(* Nothing is used before it is made or after it is released: the loop     *)
(* thread uses the view and the scheduler in its turns, the handlers use   *)
(* them and the connection while uloop runs, wherever the other is.        *)
NoUseAfterFree ==
    /\ thr \in {"turn", "init", "run"} => \A o \in Data : obj[o] = "live"
    /\ main = "service" => \A o \in Obj : obj[o] = "live"

(* What main() gives back.  Nothing twice, on any way out.  The storage of *)
(* view and scheduler and the connection, on every way out on which they   *)
(* were made.  uloop after the service only: the two ways out of a failing *)
(* start leave it to the end of the process.  And the loop thread is gone: *)
(* one that is still running when its std::thread is destroyed would kill  *)
(* the process.                                                            *)
GivenBack ==
    /\ \A o \in Obj : obj[o] # "freed twice"
    /\ main = "exited" =>
          /\ thr \in {"none", "gone"}
          /\ \A o \in Obj \ {"uloop"} : obj[o] # "live"
          /\ obj["uloop"] = "live" <=> thr = "none" /\ obj["podman_data"] = "freed"

(* Once told to end, the loop thread starts one more call of Podman::init  *)
(* or of Scheduler::run() at most: the one whose test of the flag came     *)
(* just before.  A shutdown waits for that, with all the calls of the      *)
(* engine it makes, and for no other.                                      *)
AtMostOneTurn == late <= 1

(* The first answer with a part of the system information decides for good.*)
(* If it is complete, Podman::init is carried through, and only then.  If  *)
(* it is not, the missing part is never asked for again, and Podman::init  *)
(* is never carried through: the loop thread goes on to the scheduler's    *)
(* polls with what there is.                                               *)
FirstAnswerDecides ==
    /\ [](inited <=> known = Parts)
    /\ [][status = "RUNNING" => UNCHANGED infoVars]_vars

(* A TERM that comes while uloop runs ends the process, wherever the loop  *)
(* thread is.                                                              *)
TermEnds == heard ~> main = "exited"
==============================================================================
