--------------------------- MODULE LifecycleProofs ---------------------------
(***************************************************************************)
(* Theorems about Lifecycle, for every set of command lines and any number *)
(* of signals.                                                             *)
(*                                                                         *)
(* LifeInv ties the two threads together: what main() has made and         *)
(* released at each of its places, that the loop thread exists from Spawn  *)
(* on and is gone once Join is passed, and that the exit flag is set in    *)
(* between.  The safety properties follow from it.                         *)
(***************************************************************************)
EXTENDS Lifecycle, TLAPS

Early == {"cmdline", "construct", "connect", "create", "spawn"}
Late == {"run", "service", "stop", "poll", "join"}

(* The loop thread lives while main() is between Spawn and Join.           *)
ThreadPlace ==
    /\ main \in Early => thr = "none"
    /\ main \in Late => thr # "none"
    /\ main = "exited" => thr \in {"none", "gone"}

(* What is live where main() is.                                           *)
ObjPlace ==
    /\ main \in {"cmdline", "construct"} => \A o \in Obj : obj[o] = "none"
    /\ main = "connect" => obj["uloop"] = "none" /\ obj["ctx"] = "none"
    /\ main \in {"create", "spawn", "run", "service"} => obj["uloop"] = "live" /\ obj["ctx"] = "live"
    /\ main \in {"stop", "poll", "join"} => obj["uloop"] = "freed" /\ obj["ctx"] = "freed"
    /\ main \in {"connect", "create", "spawn"} \cup Late => \A o \in Data : obj[o] = "live"
    /\ GivenBack

(* A turn after the exit flag is the only one.                             *)
TurnPlace ==
    /\ ~sig_exit \/ thr = "turn" => late = 0
    /\ AtMostOneTurn

(* update_system() is called only before the status is RUNNING, and        *)
(* nothing is known till then.                                             *)
InfoPlace ==
    /\ main \in {"cmdline", "construct"} \/ thr = "init" => status # "RUNNING"
    /\ status # "RUNNING" => known = {}
    /\ inited <=> known = Parts

LifeInv == LifecycleTypeOK /\ ThreadPlace /\ ObjPlace /\ TurnPlace /\ InfoPlace

-----------------------------------------------------------------------------
LEMMA InitLifeInv == Init => LifeInv
<1> SUFFICES ASSUME Init PROVE LifeInv
  OBVIOUS
<1>1. late \in Nat /\ late <= 1 /\ terms \in Nat
  <2>1. late = 0 /\ terms = 0
    BY DEF Init
  <2> QED
    BY ONLY <2>1
<1> QED
  BY <1>1 DEF Init, LifeInv, LifecycleTypeOK, ThreadPlace, ObjPlace, TurnPlace, InfoPlace, Early, Late,
         GivenBack, AtMostOneTurn, MainStates, ThreadStates, Data, Obj, Parts

(* One call of update_system() before the status is RUNNING keeps the      *)
(* types, and passes for complete only what is.                            *)
LEMMA UpdateSystemInfo ==
    ASSUME LifecycleTypeOK, InfoPlace, status # "RUNNING", UpdateSystem
    PROVE  /\ status' \in {"UNKNOWN", "RUNNING"} /\ known' \subseteq Parts /\ inited' \in BOOLEAN
           /\ status' # "RUNNING" => known' = {}
           /\ inited' <=> known' = Parts
  BY DEF LifecycleTypeOK, InfoPlace, UpdateSystem, infoVars, Parts

(* What main() makes and releases leaves every object in one of its states.*)
LEMMA ObjTypes ==
    ASSUME NEW os, obj \in [Obj -> {"none", "live", "freed", "freed twice"}]
    PROVE  /\ Make(os) \in [Obj -> {"none", "live", "freed", "freed twice"}]
           /\ Free(os) \in [Obj -> {"none", "live", "freed", "freed twice"}]
  BY DEF Make, Free

LEMMA MainLifeInv == LifeInv /\ Main => LifeInv'
<1> SUFFICES ASSUME LifeInv, Main PROVE LifeInv'
  OBVIOUS
<1> USE DEF LifeInv, LifecycleTypeOK, ThreadPlace, ObjPlace, TurnPlace, InfoPlace, Early, Late,
            GivenBack, AtMostOneTurn, MainStates, ThreadStates, Data, Obj, Parts,
            Make, Free, infoVars
<1>1. CASE CmdLine
  <2>1. LifecycleTypeOK'
    BY <1>1 DEF CmdLine
  <2>2. ThreadPlace'
    BY <1>1 DEF CmdLine
  <2>3. ObjPlace'
    BY <1>1 DEF CmdLine
  <2>4. TurnPlace' /\ InfoPlace'
    BY <1>1 DEF CmdLine
  <2> HIDE DEF LifecycleTypeOK, ThreadPlace, ObjPlace, TurnPlace, InfoPlace
  <2> QED
    BY <2>1, <2>2, <2>3, <2>4
<1>2. CASE Construct
  <2>1. /\ status' \in {"UNKNOWN", "RUNNING"} /\ known' \subseteq Parts /\ inited' \in BOOLEAN
        /\ status' # "RUNNING" => known' = {}
        /\ inited' <=> known' = Parts
    BY <1>2, UpdateSystemInfo DEF Construct
  <2> QED
    BY <1>2, <2>1 DEF Construct
<1>3. CASE Connect
  <2>1. LifecycleTypeOK'
    <3> HIDE DEF Make, Free, ThreadPlace, ObjPlace, TurnPlace, InfoPlace, Obj, Data
    <3>1. obj' \in [Obj -> {"none", "live", "freed", "freed twice"}]
      BY <1>3, ObjTypes DEF Connect
    <3> QED
      BY <1>3, <3>1 DEF Connect
  <2>2. ThreadPlace'
    BY <1>3 DEF Connect
  <2>3. ObjPlace'
    BY <1>3 DEF Connect
  <2>4. TurnPlace' /\ InfoPlace'
    BY <1>3 DEF Connect
  <2> HIDE DEF LifecycleTypeOK, ThreadPlace, ObjPlace, TurnPlace, InfoPlace
  <2> QED
    BY <2>1, <2>2, <2>3, <2>4
<1>4. CASE Create
  <2>1. LifecycleTypeOK'
    <3> HIDE DEF Make, Free, ThreadPlace, ObjPlace, TurnPlace, InfoPlace, Obj, Data
    <3>1. obj' \in [Obj -> {"none", "live", "freed", "freed twice"}]
      BY <1>4, ObjTypes DEF Create
    <3> QED
      BY <1>4, <3>1 DEF Create
  <2>2. ThreadPlace'
    BY <1>4 DEF Create
  <2>3. ObjPlace'
    BY <1>4 DEF Create
  <2>4. TurnPlace' /\ InfoPlace'
    BY <1>4 DEF Create
  <2> HIDE DEF LifecycleTypeOK, ThreadPlace, ObjPlace, TurnPlace, InfoPlace
  <2> QED
    BY <2>1, <2>2, <2>3, <2>4
<1>5. CASE Spawn
  <2>1. LifecycleTypeOK'
    BY <1>5 DEF Spawn
  <2>2. ThreadPlace'
    BY <1>5 DEF Spawn
  <2>3. ObjPlace'
    BY <1>5 DEF Spawn
  <2>4. TurnPlace' /\ InfoPlace'
    BY <1>5 DEF Spawn
  <2> HIDE DEF LifecycleTypeOK, ThreadPlace, ObjPlace, TurnPlace, InfoPlace
  <2> QED
    BY <2>1, <2>2, <2>3, <2>4
<1>6. CASE UloopRun
  <2>1. LifecycleTypeOK'
    BY <1>6 DEF UloopRun
  <2>2. ThreadPlace'
    BY <1>6 DEF UloopRun
  <2>3. ObjPlace'
    BY <1>6 DEF UloopRun
  <2>4. TurnPlace' /\ InfoPlace'
    BY <1>6 DEF UloopRun
  <2> HIDE DEF LifecycleTypeOK, ThreadPlace, ObjPlace, TurnPlace, InfoPlace
  <2> QED
    BY <2>1, <2>2, <2>3, <2>4
<1>7. CASE UloopDone
  <2>1. LifecycleTypeOK'
    <3> HIDE DEF Make, Free, ThreadPlace, ObjPlace, TurnPlace, InfoPlace, Obj, Data
    <3>1. obj' \in [Obj -> {"none", "live", "freed", "freed twice"}]
      BY <1>7, ObjTypes DEF UloopDone
    <3> QED
      BY <1>7, <3>1 DEF UloopDone
  <2>2. ThreadPlace'
    BY <1>7 DEF UloopDone
  <2>3. ObjPlace'
    BY <1>7 DEF UloopDone
  <2>4. TurnPlace' /\ InfoPlace'
    BY <1>7 DEF UloopDone
  <2> HIDE DEF LifecycleTypeOK, ThreadPlace, ObjPlace, TurnPlace, InfoPlace
  <2> QED
    BY <2>1, <2>2, <2>3, <2>4
<1>8. CASE SetExit
  <2>1. LifecycleTypeOK'
    BY <1>8 DEF SetExit
  <2>2. ThreadPlace'
    BY <1>8 DEF SetExit
  <2>3. ObjPlace'
    BY <1>8 DEF SetExit
  <2>4. TurnPlace' /\ InfoPlace'
    BY <1>8 DEF SetExit
  <2> HIDE DEF LifecycleTypeOK, ThreadPlace, ObjPlace, TurnPlace, InfoPlace
  <2> QED
    BY <2>1, <2>2, <2>3, <2>4
<1>9. CASE Poll
  <2>1. LifecycleTypeOK'
    BY <1>9 DEF Poll
  <2>2. ThreadPlace'
    BY <1>9 DEF Poll
  <2>3. ObjPlace'
    BY <1>9 DEF Poll
  <2>4. TurnPlace' /\ InfoPlace'
    BY <1>9 DEF Poll
  <2> HIDE DEF LifecycleTypeOK, ThreadPlace, ObjPlace, TurnPlace, InfoPlace
  <2> QED
    BY <2>1, <2>2, <2>3, <2>4
<1>10. CASE Join
  <2>1. LifecycleTypeOK'
    <3> HIDE DEF Make, Free, ThreadPlace, ObjPlace, TurnPlace, InfoPlace, Obj, Data
    <3>1. obj' \in [Obj -> {"none", "live", "freed", "freed twice"}]
      BY <1>10, ObjTypes DEF Join
    <3> QED
      BY <1>10, <3>1 DEF Join
  <2>2. ThreadPlace'
    BY <1>10 DEF Join
  <2>3. ObjPlace'
    BY <1>10 DEF Join
  <2>4. TurnPlace' /\ InfoPlace'
    BY <1>10 DEF Join
  <2> HIDE DEF LifecycleTypeOK, ThreadPlace, ObjPlace, TurnPlace, InfoPlace
  <2> QED
    BY <2>1, <2>2, <2>3, <2>4
<1> QED
  BY <1>1, <1>2, <1>3, <1>4, <1>5, <1>6, <1>7, <1>8, <1>9, <1>10 DEF Main

LEMMA ThreadLifeInv == LifeInv /\ (Thread \/ Term) => LifeInv'
<1> SUFFICES ASSUME LifeInv, Thread \/ Term PROVE LifeInv'
  OBVIOUS
<1> USE DEF LifeInv, LifecycleTypeOK, ThreadPlace, ObjPlace, TurnPlace, InfoPlace, Early, Late,
            GivenBack, AtMostOneTurn, MainStates, ThreadStates, Data, Obj, Parts,
            shutVars, infoVars
<1>1. CASE ThreadBegin
  BY <1>1 DEF ThreadBegin
<1>2. CASE ThreadHead
  BY <1>2 DEF ThreadHead
<1>3. CASE ThreadTurn
  <2>1. late' \in Nat
    <3>1. late \in Nat /\ (late' = late \/ late' = late + 1)
      BY <1>3 DEF ThreadTurn
    <3> QED
      BY ONLY <3>1
  <2>2. ThreadPlace'
    BY <1>3 DEF ThreadTurn
  <2>3. ObjPlace'
    BY <1>3 DEF ThreadTurn
  <2>4. late' = IF sig_exit THEN 1 ELSE 0
    <3>1. late = 0
      BY <1>3 DEF ThreadTurn
    <3>2. late' = IF sig_exit THEN 0 + 1 ELSE 0
      BY <1>3, <3>1 DEF ThreadTurn
    <3> QED
      BY ONLY <3>2
  <2>5. TurnPlace'
    <3>1. late' <= 1
      BY ONLY <2>4
    <3> QED
      BY <1>3, <2>4, <3>1 DEF ThreadTurn
  <2>6. InfoPlace'
    BY <1>3 DEF ThreadTurn
  <2> QED
    BY <1>3, <2>1, <2>2, <2>3, <2>5, <2>6 DEF ThreadTurn
<1>4. CASE ThreadTurned
  <2>1. /\ status' \in {"UNKNOWN", "RUNNING"} /\ known' \subseteq Parts /\ inited' \in BOOLEAN
        /\ status' # "RUNNING" => known' = {}
        /\ inited' <=> known' = Parts
    <3>1. CASE thr = "init" /\ UpdateSystem
      BY <3>1, UpdateSystemInfo
    <3>2. CASE UNCHANGED infoVars
      BY <3>2
    <3> QED
      BY <1>4, <3>1, <3>2 DEF ThreadTurned
  <2> QED
    BY <1>4, <2>1 DEF ThreadTurned
<1>5. CASE ThreadEnd
  BY <1>5 DEF ThreadEnd
<1>6. CASE Term
  <2>1. terms' \in Nat
    <3>1. terms \in Nat /\ terms' = terms + 1
      BY <1>6 DEF Term
    <3> QED
      BY ONLY <3>1
  <2>2. LifecycleTypeOK'
    <3> HIDE DEF ThreadPlace, ObjPlace, TurnPlace, InfoPlace
    <3> QED
      BY <1>6, <2>1 DEF Term
  <2>3. ThreadPlace' /\ ObjPlace' /\ TurnPlace' /\ InfoPlace'
    <3> HIDE DEF LifecycleTypeOK
    <3> QED
      BY <1>6 DEF Term
  <2> QED
    BY <2>2, <2>3
<1> QED
  BY <1>1, <1>2, <1>3, <1>4, <1>5, <1>6 DEF Thread

LEMMA StutterLifeInv == LifeInv /\ UNCHANGED vars => LifeInv'
<1> SUFFICES ASSUME LifeInv, UNCHANGED vars PROVE LifeInv'
  OBVIOUS
<1> USE DEF LifeInv, vars, shutVars, infoVars
<1>1. LifecycleTypeOK'
  BY DEF LifecycleTypeOK
<1>2. ThreadPlace' /\ ObjPlace'
  BY DEF ThreadPlace, ObjPlace, GivenBack
<1>3. TurnPlace' /\ InfoPlace'
  BY DEF TurnPlace, InfoPlace, AtMostOneTurn
<1> QED
  BY <1>1, <1>2, <1>3

LEMMA LifeInvariant == Spec => []LifeInv
<1> QED
  BY InitLifeInv, MainLifeInv, ThreadLifeInv, StutterLifeInv, PTL DEF Spec, Next

-----------------------------------------------------------------------------
(* The threads of the daemon are only at the places listed, and uloop's    *)
(* poll flag is set exactly while the loop thread is in its loop.          *)
THEOREM LifecycleTypeCorrect == Spec => []LifecycleTypeOK
<1>1. LifeInv => LifecycleTypeOK
  BY DEF LifeInv
<1> QED
  BY <1>1, LifeInvariant, PTL

(* The loop thread and the handlers use the shared objects only between    *)
(* their construction and their release, for every interleaving of the     *)
(* threads with the signals.                                               *)
THEOREM LifecycleNoUseAfterFree == Spec => []NoUseAfterFree
<1>1. LifeInv => NoUseAfterFree
  BY DEF LifeInv, LifecycleTypeOK, ThreadPlace, ObjPlace, GivenBack, NoUseAfterFree, Early, Late,
         MainStates, Data, Obj
<1> QED
  BY <1>1, LifeInvariant, PTL

(* On every way out of main() nothing has been released twice, view,       *)
(* scheduler and connection are given back if they were made, the loop     *)
(* thread is gone, and uloop is left exactly by the failing starts.        *)
THEOREM LifecycleGivenBack == Spec => []GivenBack
<1>1. LifeInv => GivenBack
  BY DEF LifeInv, ObjPlace
<1> QED
  BY <1>1, LifeInvariant, PTL

(* After the exit flag at most one more call is started.                   *)
THEOREM LifecycleAtMostOneTurn == Spec => []AtMostOneTurn
<1>1. LifeInv => AtMostOneTurn
  BY DEF LifeInv, TurnPlace
<1> QED
  BY <1>1, LifeInvariant, PTL

(* The first answer with a part of the system information decides for good *)
(* what is known of the system, and whether Podman::init is carried        *)
(* through: it is if and only if nothing was missing.                      *)
THEOREM LifecycleFirstAnswerDecides == Spec => FirstAnswerDecides
<1>1. LifeInv => (inited <=> known = Parts)
  BY DEF LifeInv, InfoPlace
<1>2. LifeInv /\ [Next]_vars => [status = "RUNNING" => UNCHANGED infoVars]_vars
  <2> SUFFICES ASSUME LifeInv, Next, status = "RUNNING" PROVE UNCHANGED infoVars
    OBVIOUS
  <2>1. main # "construct" /\ thr # "init"
    BY DEF LifeInv, InfoPlace
  <2> QED
    BY <2>1 DEF Next, Main, Thread, CmdLine, Construct, Connect, Create, Spawn, UloopRun,
       UloopDone, SetExit, Poll, Join, ThreadBegin, ThreadHead, ThreadTurn, ThreadTurned,
       ThreadEnd, Term, infoVars
<1> QED
  BY <1>1, <1>2, LifeInvariant, PTL DEF Spec, FirstAnswerDecides

-----------------------------------------------------------------------------
(* One argument read keeps the level what the options asked for.           *)
LEMMA ParseLevel == LevelAsAsked /\ ParseArgument => LevelAsAsked'
<1> SUFFICES ASSUME LevelAsAsked, ParseArgument PROVE LevelAsAsked'
  OBVIOUS
<1>0. \A o \in DOMAIN Rank : Rank[o] \in 1 .. 5
  BY DEF Rank
<1>1. CASE RaiseLevel
  <2>1. CASE log_level < 0
    BY <1>1, <2>1 DEF RaiseLevel, Leave, LevelAsAsked
  <2>2. CASE ~(log_level < 0)
    <3>1. /\ log_level' = Rank[Head(args)]
          /\ given' = given \cup {Head(args)}
          /\ exit' = exit
          /\ Head(args) \in DOMAIN Rank /\ log_level < Rank[Head(args)]
      BY <1>1, <2>2 DEF RaiseLevel, Use
    <3>2. log_level # -1
      BY ONLY <2>2
    <3> QED
      BY <1>0, <3>1, <3>2 DEF LevelAsAsked
  <2> QED
    BY <2>1, <2>2
<1>2. CASE Quiet
  BY <1>0, <1>2 DEF Quiet, Leave, Use, LevelAsAsked
<1>3. CASE WithValue
  <2>1. exit' = "error" \/ UNCHANGED <<log_level, given, exit>>
    BY <1>3 DEF WithValue, Leave, Use
  <2> QED
    BY <2>1 DEF LevelAsAsked
<1>4. CASE Help \/ Version \/ Ignore \/ Unknown
  BY <1>4 DEF Help, Version, Ignore, Unknown, Leave, Use, LevelAsAsked
<1> QED
  BY <1>1, <1>2, <1>3, <1>4 DEF ParseArgument

(* A daemon is as verbose as the most verbose of its options, for every    *)
(* command line.                                                           *)
THEOREM LifecycleLevelAsAsked == Spec => []LevelAsAsked
<1>1. Init => LevelAsAsked
  BY DEF Init, CmdInit, LevelAsAsked
<1>2. ASSUME LevelAsAsked, [Next]_vars PROVE LevelAsAsked'
  <2>1. CASE CmdLine /\ ParseArgument
    BY <1>2, <2>1, ParseLevel
  <2>2. CASE ~(CmdLine /\ ParseArgument)
    <3>1. UNCHANGED <<log_level, exit, given>>
      BY <1>2, <2>2 DEF Next, Main, Thread, CmdLine, Construct, Connect, Create, Spawn, UloopRun,
         UloopDone, SetExit, Poll, Join, ThreadBegin, ThreadHead, ThreadTurn, ThreadTurned,
         ThreadEnd, Term, vars, cmdVars
    <3> QED
      BY <1>2, <3>1 DEF LevelAsAsked
  <2> QED
    BY <2>1, <2>2
<1> QED
  BY <1>1, <1>2, PTL DEF Spec
==============================================================================
