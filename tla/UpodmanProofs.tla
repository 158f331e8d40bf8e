---------------------------- MODULE UpodmanProofs ----------------------------
(***************************************************************************)
(* Theorems about the daemon, for every engine, every set of requests and  *)
(* every number of calls.                                                  *)
(*                                                                         *)
(* DaemonInv puts the invariants of the two components beside what the     *)
(* composition adds: where the two threads are (TypeOK, Places), what the  *)
(* handler in progress carries (Carried), and which request is behind each *)
(* accepted command (Behind).  Under it every step of the daemon is a step *)
(* of Scheduler or leaves the queue alone, and the same for Podman, which  *)
(* carries the theorems about the components over to the daemon.           *)
(***************************************************************************)
EXTENDS Upodman, SchedulerProofs, PodmanProofs

(* What Podman::init has left to call, and when the loop thread does what. *)
(* The cycle is counted under a task of run() only, a task is run only     *)
(* with an empty queue, and the queue stays empty while it is.             *)
Places ==
    /\ work \in Seq(UpdateOps \ {"UPDATE_BUSY_CYCLES"})
    /\ at = "UPDATE_BUSY_CYCLES" => loop = "run"
    /\ call = "task" => cmds = <<>>

(* An id that a request gives is that of a container.                      *)
Resolved(r) == r.by = "id" => r.target \in Ctr

(* What exec has read of its request, and found for it, stays what it      *)
(* works on.                                                               *)
Carried ==
    /\ req \in Requests \cup {NoReq}
    /\ ubus \in {"busy", "add"} => Resolved(req) /\ name = NameMeant(req)

(* The i-th accepted command was made from the i-th request.               *)
Behind ==
    /\ wanted \in Seq(Requests)
    /\ Len(wanted) = Len(accepted)
    /\ \A i \in 1 .. Len(wanted) :
          Resolved(wanted[i]) /\ accepted[i] = CmdFor(wanted[i], NameMeant(wanted[i]))

DaemonInv == TypeOK /\ SchedInv /\ PodmanInv /\ Places /\ Carried /\ Behind

-----------------------------------------------------------------------------
(* A request is none, or is by name or by id; with a name found for it, it *)
(* is turned into a command of the type and the name it asks for.          *)
LEMMA RequestKinds ==
    ASSUME NEW r \in Requests
    PROVE  /\ r # NoReq /\ r.by \in {"name", "id"}
           /\ r.action \in {"start", "stop", "restart"} /\ r.group \in {"container", "pod"}
           /\ r.by = "name" => r.target \in Name
<1>1. \/ r \in [action : {"start", "stop", "restart"}, group : {"container", "pod"},
                 by : {"name"}, target : Name]
      \/ r \in [action : {"start", "stop", "restart"}, group : {"container", "pod"},
                 by : {"id"}, target : Ctr \cup Pod]
  BY UpodmanAssumption
<1> QED
  BY <1>1 DEF NoReq

LEMMA RequestTypes ==
    ASSUME NEW r \in Requests, Resolved(r), NEW n, n = NameMeant(r)
    PROVE  /\ n \in Name /\ n # NoName
           /\ CmdFor(r, n) \in Cmd
           /\ CmdFor(r, n) \in AnyCmd
           /\ CmdFor(r, n).name # NoName
           /\ BusyFor(r.action) \in Marks
           /\ Query(CmdFor(r, n)) = [group  |-> IF r.group = "pod" THEN "pods" ELSE "containers",
                                     id     |-> n,
                                     action |-> r.action]
<1>1. r.action \in {"start", "stop", "restart"} /\ r.group \in {"container", "pod"}
  BY RequestKinds
<1>2. n \in Name /\ n # NoName
  <2>1. CASE r.by = "name"
    BY <2>1, RequestKinds, SchedulerAssumption DEF NameMeant
  <2>2. CASE r.by = "id"
    <3>1. NameOf[r.target] \in Names(Ctr)
      BY <2>2 DEF Resolved, Names
    <3> QED
      BY <2>2, <3>1, UpodmanAssumption, SchedulerAssumption DEF NameMeant
  <2> QED
    BY <2>1, <2>2, RequestKinds
<1>3. /\ CmdFor(r, n).type \in CmdTypes
      /\ CmdFor(r, n).name = n
      /\ CmdFor(r, n) \in [type : CmdTypes, name : {n}]
  BY <1>1 DEF CmdFor, CmdTypes
<1>4. BusyFor(r.action) \in Marks
  BY <1>1, UpodmanAssumption DEF BusyFor, BusyValue
<1>5. Query(CmdFor(r, n)) = [group  |-> IF r.group = "pod" THEN "pods" ELSE "containers",
                             id     |-> n,
                             action |-> r.action]
  BY <1>1 DEF Query, CmdFor
<1> QED
  BY <1>1, <1>2, <1>3, <1>4, <1>5, UpodmanAssumption DEF Cmd, AnyCmd

-----------------------------------------------------------------------------
LEMMA InitDaemonInv == Init => DaemonInv
<1> SUFFICES ASSUME Init PROVE DaemonInv
  OBVIOUS
<1>1. SchedInv
  BY InitSchedInv DEF Init
<1>2. PodmanInv
  <2>1. EngineTypeOK
    BY DEF Init, EngineInit, EngineTypeOK
  <2>2. PodmanTypeOK
    BY NoDraftType, EmptyMap DEF Init, ViewInit, PodmanTypeOK, PodsOf, UpdateOps
  <2>3. DraftTypeOK /\ SnapshotCurrent /\ DraftNotAhead
    BY NoDraftType DEF Init, DraftTypeOK, SnapshotCurrent, DraftNotAhead, Copying
  <2> QED
    BY <2>1, <2>2, <2>3 DEF PodmanInv
<1>3. TypeOK
  BY DEF Init, SchedInit, TypeOK, HandlerStates
<1>4. Places
  BY DEF Init, SchedInit, Places, InitWork, UpdateOps
<1>5. Carried /\ Behind
  BY DEF Init, SchedInit, Carried, Behind
<1> QED
  BY <1>1, <1>2, <1>3, <1>4, <1>5 DEF DaemonInv

-----------------------------------------------------------------------------
(* Every step of the daemon uses the queue by run() and addCmd() only.     *)
LEMMA StepOfScheduler == DaemonInv /\ [Next]_vars => [SchedNext]_schedVars
<1> SUFFICES ASSUME DaemonInv, [Next]_vars PROVE [SchedNext]_schedVars
  OBVIOUS
<1>1. CASE LoopRun
  BY <1>1 DEF LoopRun, SchedNext
<1>2. CASE LoopReturn
  BY <1>2 DEF LoopReturn, SchedNext
<1>3. CASE ExecAdd
  <2>1. req \in Requests /\ Resolved(req) /\ name = NameMeant(req)
    BY <1>3 DEF DaemonInv, ExecAdd, Carried, TypeOK
  <2>2. CmdFor(req, name) \in AnyCmd
    BY <2>1, RequestTypes
  <2> QED
    BY <1>3, <2>2 DEF ExecAdd, SchedNext
<1>4. CASE \/ InitNext \/ LoopInit \/ Refresh \/ ExecReceive \/ ReadReceive
           \/ ExecLookup \/ ExecBusy \/ Reply \/ Outside \/ UNCHANGED vars
  BY <1>4 DEF InitNext, LoopInit, Refresh, ExecReceive, ReadReceive, ExecLookup, ExecBusy, Reply,
              Outside, vars
<1> QED
  BY <1>1, <1>2, <1>3, <1>4 DEF Next, Loop, Handler

(* Every step of the daemon changes the view by an update function of the  *)
(* loop thread or by a handler's mark only.                                *)
LEMMA StepOfPodman == DaemonInv /\ [Next]_vars => [PodmanNext]_podmanVars
<1> SUFFICES ASSUME DaemonInv, [Next]_vars PROVE [PodmanNext]_podmanVars
  OBVIOUS
<1>1. CASE InitNext
  <2>1. CASE UNCHANGED podmanVars
    BY <2>1
  <2>2. CASE Call(Head(work)) /\ work # <<>>
    <3>1. Head(work) \in UpdateOps
      BY <2>2, TailElements DEF DaemonInv, Places
    <3> QED
      BY <2>2, <3>1 DEF PodmanNext
  <2> QED
    BY <1>1, <2>1, <2>2 DEF InitNext
<1>2. CASE LoopInit
  BY <1>2 DEF LoopInit, PodmanNext, UpdateOps
<1>3. CASE LoopRun
  <2>1. Task[next_task + 1] \in UpdateOps
    <3>1. next_task \in 0 .. Len(Task) - 1
      BY DEF DaemonInv, SchedInv, SchedTypeOK
    <3> QED
      BY ONLY <3>1 DEF Task, UpdateOps
  <2>2. "UPDATE_SYSTEM" \in UpdateOps
    BY DEF UpdateOps
  <2> QED
    BY <1>3, <2>1, <2>2 DEF LoopRun, PodmanNext
<1>4. CASE ExecBusy
  <2>1. req \in Requests /\ Resolved(req) /\ name = NameMeant(req)
    BY <1>4 DEF DaemonInv, ExecBusy, Carried, TypeOK
  <2>2. BusyFor(req.action) \in Marks /\ SetBusy(name, BusyFor(req.action))
    BY <1>4, <2>1, RequestTypes DEF ExecBusy
  <2>3. CASE name \in Names(Ctr)
    BY <2>2, <2>3 DEF PodmanNext
  <2>4. CASE name \notin Names(Ctr)
    <3>1. name \notin Names(DOMAIN ctrs)
      BY <2>4 DEF Names, DaemonInv, PodmanInv, PodmanTypeOK
    <3> QED
      BY <2>2, <3>1 DEF SetBusy, podmanVars, view
  <2> QED
    BY <2>3, <2>4
<1>5. CASE Refresh \/ Outside
  BY <1>5 DEF Refresh, Outside, PodmanNext
<1>6. CASE \/ LoopReturn \/ ExecReceive \/ ReadReceive \/ ExecLookup \/ ExecAdd
           \/ Reply \/ UNCHANGED vars
  BY <1>6 DEF LoopReturn, ExecReceive, ReadReceive, ExecLookup, ExecAdd, Reply, vars
<1> QED
  BY <1>1, <1>2, <1>3, <1>4, <1>5, <1>6 DEF Next, Loop, Handler
-----------------------------------------------------------------------------
(* What a step of the loop thread inside an update function can change.    *)
LEMMA UpdatePlaces ==
    ASSUME PodmanInv, Update
    PROVE  /\ at # "idle"
           /\ at' = "UPDATE_BUSY_CYCLES" => at = "UPDATE_BUSY_CYCLES"
           /\ status = "RUNNING" => status' = "RUNNING"
           /\ at' = "idle" => podman' = "free"
<1>1. PodmanTypeOK'
  BY UpdateInv DEF PodmanInv
<1> QED
  BY <1>1 DEF Update, UpdateSystem, UpdateNetworks, ContainersLock, ContainersReply, ContainersPublish,
         ContainersCopy, PodsPoll, PodsPublish, UpdateStats, LogsSnapshot, LogsPublish, BusyCycles,
         Done, view, PodmanTypeOK

LEMMA LoopDaemonInv ==
    ASSUME DaemonInv, Loop
    PROVE  TypeOK' /\ Places' /\ Carried' /\ Behind'
<1> USE DEF DaemonInv
<1>1. CASE InitNext
  <2>1. Carried' /\ Behind'
    BY <1>1 DEF InitNext, schedVars, ubusVars, Carried, Behind
  <2>2. work # <<>> => Head(work) \in UpdateOps \ {"UPDATE_BUSY_CYCLES"}
                       /\ Tail(work) \in Seq(UpdateOps \ {"UPDATE_BUSY_CYCLES"})
    BY TailElements DEF Places
  <2>3. Places'
    <3>1. cmds' = cmds /\ call' = call
      BY <1>1 DEF InitNext, schedVars
    <3>2. CASE at' = at /\ work' = <<>>
      <4>1. at = "idle" /\ work' \in Seq(UpdateOps \ {"UPDATE_BUSY_CYCLES"})
        BY <1>1, <3>2 DEF InitNext
      <4> QED
        BY <3>1, <3>2, <4>1 DEF Places
    <3>3. CASE work # <<>> /\ at' = Head(work) /\ work' = Tail(work)
      BY <2>2, <3>1, <3>3 DEF Places
    <3> QED
      BY <1>1, <3>2, <3>3 DEF InitNext, Call, podmanVars
  <2>4. TypeOK'
    BY <1>1 DEF InitNext, Call, TypeOK, schedVars, ubusVars, podmanVars, view, HandlerStates, PodmanInv, PodmanTypeOK
  <2> QED
    BY <2>1, <2>3, <2>4
<1>2. CASE LoopInit
  <2>1. Carried' /\ Behind'
    BY <1>2 DEF LoopInit, schedVars, ubusVars, Carried, Behind
  <2>2. Places'
    BY <1>2 DEF LoopInit, Call, Places, schedVars, InitWork, UpdateOps
  <2>3. TypeOK'
    BY <1>2 DEF LoopInit, Call, TypeOK, schedVars, ubusVars, HandlerStates
  <2> QED
    BY <2>1, <2>2, <2>3
<1>3. CASE LoopRun
  <2>1. Carried' /\ Behind'
    BY <1>3 DEF LoopRun, RunBegin, ubusVars, Carried, Behind
  <2>2. /\ podman_sched' = "loop" /\ cmds' = cmds /\ loop' = "run"
        /\ call' \in {"task", "command", "unnamed"} /\ (call' = "task" => cmds = <<>>)
        /\ UNCHANGED <<work, serving, ubusVars>>
    BY <1>3 DEF LoopRun, RunBegin, NextCall
  <2>3. /\ status' = status /\ status = "RUNNING" /\ serving
        /\ at' # "idle" => call' = "task"
    BY <1>3, <2>2 DEF LoopRun, Call, TypeOK, view, podmanVars
  <2> QED
    BY <2>1, <2>2, <2>3 DEF TypeOK, Places, HandlerStates, ubusVars
<1>4. CASE LoopReturn
  <2>1. Carried' /\ Behind'
    BY <1>4 DEF LoopReturn, RunEnd, ubusVars, Carried, Behind
  <2>2. Places'
    BY <1>4 DEF LoopReturn, RunEnd, Places, podmanVars
  <2>3. TypeOK'
    BY <1>4 DEF LoopReturn, RunEnd, TypeOK, ubusVars, HandlerStates, podmanVars, view, PodmanInv, PodmanTypeOK
  <2> QED
    BY <2>1, <2>2, <2>3
<1>5. CASE Refresh
  <2>1. Carried' /\ Behind'
    BY <1>5 DEF Refresh, schedVars, ubusVars, Carried, Behind
  <2>2. /\ UNCHANGED <<schedVars, loopVars, ubusVars>> /\ at # "idle"
        /\ at' = "UPDATE_BUSY_CYCLES" => at = "UPDATE_BUSY_CYCLES"
        /\ status = "RUNNING" => status' = "RUNNING"
    BY <1>5, UpdatePlaces DEF Refresh
  <2>3. Places'
    BY <2>2 DEF Places, schedVars, loopVars
  <2>4. TypeOK'
    BY <2>2 DEF TypeOK, schedVars, loopVars, ubusVars, HandlerStates
  <2> QED
    BY <2>1, <2>3, <2>4
<1> HIDE DEF DaemonInv
<1> QED
  BY <1>1, <1>2, <1>3, <1>4, <1>5 DEF Loop

LEMMA HandlerDaemonInv ==
    ASSUME DaemonInv, ExecReceive \/ ReadReceive \/ Handler
    PROVE  TypeOK' /\ Places' /\ Carried' /\ Behind'
<1> USE DEF DaemonInv
<1>1. CASE ExecReceive
  <2>1. req' \in Requests /\ req' # NoReq
    BY <1>1, RequestKinds DEF ExecReceive
  <2> QED
    BY <1>1, <2>1 DEF ExecReceive, TypeOK, Places, Carried, Behind, schedVars, podmanVars, view, loopVars, HandlerStates
<1>2. CASE ReadReceive
  BY <1>2 DEF ReadReceive, TypeOK, Places, Carried, Behind, schedVars, podmanVars, view, loopVars, HandlerStates
<1>3. CASE ExecLookup
  <2>1. Carried'
    <3>1. CASE ubus' \in {"busy", "add"}
      <4>1. NameFor # NoName /\ name' = NameFor /\ req' = req /\ req # NoReq
        BY <1>3, <3>1 DEF ExecLookup, TypeOK
      <4>2. req \in Requests /\ req.by \in {"name", "id"}
        BY <4>1, RequestKinds DEF Carried
      <4>3. Resolved(req) /\ NameFor = NameMeant(req)
        <5>1. CASE req.by = "name"
          BY <5>1 DEF Resolved, NameFor, NameMeant
        <5>2. CASE req.by = "id"
          <6>1. req.target \in DOMAIN ctrs /\ NameFor = NameOf[req.target]
            BY <4>1, <5>2 DEF NameFor, ContainerNameForID
          <6> QED
            BY <5>2, <6>1 DEF Resolved, NameMeant, PodmanInv, PodmanTypeOK
        <5> QED
          BY <4>2, <5>1, <5>2
      <4> QED
        BY <4>1, <4>2, <4>3 DEF Carried, Resolved, NameMeant
    <3>2. CASE ubus' \notin {"busy", "add"}
      BY <1>3, <3>2 DEF ExecLookup, Carried
    <3> QED
      BY <3>1, <3>2
  <2> QED
    BY <1>3, <2>1 DEF ExecLookup, TypeOK, Places, Behind, schedVars, podmanVars, view, loopVars, HandlerStates
<1>4. CASE ExecBusy
  BY <1>4 DEF ExecBusy, SetBusy, TypeOK, Places, Carried, Behind, schedVars, loopVars, HandlerStates
<1>5. CASE Reply
  BY <1>5 DEF Reply, TypeOK, Places, Carried, Behind, schedVars, podmanVars, view, loopVars, HandlerStates
<1>6. CASE ExecAdd
  <2>1. req \in Requests /\ Resolved(req) /\ name = NameMeant(req)
    BY <1>6 DEF ExecAdd, Carried, TypeOK
  <2>2. CmdFor(req, name) \in Cmd /\ CmdFor(req, name).name # NoName
    BY <2>1, RequestTypes
  <2>3. podman_sched = "free" /\ call = "none" /\ call' = call /\ podman_sched' = podman_sched
    BY <1>6, <2>2 DEF ExecAdd, AddCmd, SchedInv, HeldDuringCall
  <2>4. Places' /\ Carried'
    BY <1>6, <2>1, <2>3 DEF ExecAdd, Places, Carried, podmanVars, loopVars
  <2>5. TypeOK'
    <3>1. serving
      BY <1>6 DEF ExecAdd, TypeOK
    <3> QED
      BY <1>6, <2>3, <3>1 DEF ExecAdd, TypeOK, podmanVars, view, loopVars, HandlerStates
  <2>6. Behind'
    <3>1. CASE accepted' = accepted
      BY <1>6, <3>1 DEF ExecAdd, Behind
    <3>2. CASE accepted' # accepted
      <4>1. accepted' = Append(accepted, CmdFor(req, name)) /\ wanted' = Append(wanted, req)
        BY <1>6, <3>2 DEF ExecAdd, AddCmd
      <4>2. accepted \in Seq(Cmd) /\ wanted \in Seq(Requests) /\ Len(wanted) = Len(accepted)
        BY DEF SchedInv, SchedTypeOK, Behind
      <4>3. /\ Len(accepted') = Len(accepted) + 1 /\ Len(accepted) \in Nat
            /\ \A i \in 1 .. Len(accepted) : accepted'[i] = accepted[i]
            /\ accepted'[Len(accepted) + 1] = CmdFor(req, name)
        BY <4>1, <4>2, <2>2, AppendElements
      <4>4. /\ wanted' \in Seq(Requests) /\ Len(wanted') = Len(wanted) + 1
            /\ \A i \in 1 .. Len(wanted) : wanted'[i] = wanted[i]
            /\ wanted'[Len(wanted) + 1] = req
        BY <4>1, <4>2, <2>1, AppendElements
      <4>5. ASSUME NEW i \in 1 .. Len(wanted')
            PROVE  /\ Resolved(wanted'[i])
                   /\ accepted'[i] = CmdFor(wanted'[i], NameMeant(wanted'[i]))
        <5>1. CASE i \in 1 .. Len(wanted)
          BY <5>1, <4>2, <4>3, <4>4 DEF Behind
        <5>2. CASE i = Len(wanted) + 1
          BY <5>2, <4>2, <4>3, <4>4, <2>1
        <5> QED
          BY <5>1, <5>2, <4>2, <4>3, <4>4
      <4> QED
        BY <4>2, <4>3, <4>4, <4>5 DEF Behind
    <3> QED
      BY <3>1, <3>2
  <2> QED
    BY <2>4, <2>5, <2>6
<1> HIDE DEF DaemonInv
<1> QED
  BY <1>1, <1>2, <1>3, <1>4, <1>5, <1>6 DEF Handler

LEMMA NextDaemonInv == DaemonInv /\ [Next]_vars => DaemonInv'
<1> SUFFICES ASSUME DaemonInv, [Next]_vars PROVE DaemonInv'
  OBVIOUS
<1>1. SchedInv'
  BY StepOfScheduler, NextSchedInv DEF DaemonInv
<1>2. PodmanInv'
  BY StepOfPodman, NextPodmanInv DEF DaemonInv
<1>3. CASE Outside \/ UNCHANGED vars
  <2>1. UNCHANGED <<schedVars, loopVars, ubusVars, view, podman, at>>
    BY <1>3 DEF Outside, Engine, EngineRun, EngineContainer, EnginePod, EngineNetwork, Event, vars, podmanVars
  <2>2. TypeOK' /\ Places' /\ Carried' /\ Behind'
    BY <2>1 DEF DaemonInv, TypeOK, Places, Carried, Behind, schedVars, loopVars, ubusVars, view, HandlerStates
  <2> QED
    BY <1>1, <1>2, <2>2 DEF DaemonInv
<1>4. CASE Loop
  BY <1>1, <1>2, <1>4, LoopDaemonInv DEF DaemonInv
<1>5. CASE ExecReceive \/ ReadReceive \/ Handler
  BY <1>1, <1>2, <1>5, HandlerDaemonInv DEF DaemonInv
<1> QED
  BY <1>3, <1>4, <1>5 DEF Next

-----------------------------------------------------------------------------
(* DaemonInv holds in every reachable state of the daemon.                 *)
THEOREM DaemonInvariant == Spec => []DaemonInv
  BY InitDaemonInv, NextDaemonInv, PTL DEF Spec

(* The two threads are where the mutexes say: podman_sched is held exactly *)
(* in run(), update functions run under Podman::init or a task only.       *)
THEOREM DaemonTypeCorrect == Spec => []TypeOK
<1>1. DaemonInv => TypeOK
  BY DEF DaemonInv
<1> QED
  BY <1>1, DaemonInvariant, PTL

(* The daemon's threads use the queue as the scheduler alone allows, so    *)
(* what holds of Scheduler holds of the daemon.                            *)
THEOREM DaemonKeepsToScheduler == Spec => KeepsToScheduler
<1>1. Init => SchedInit
  BY DEF Init
<1> QED
  BY <1>1, StepOfScheduler, DaemonInvariant, PTL DEF Spec, KeepsToScheduler, SchedSpec

(* The daemon's threads change the view by update functions, one at a      *)
(* time, and by setting marks, and in no other way.                        *)
THEOREM DaemonKeepsToPodman == Spec => KeepsToPodman
  BY StepOfPodman, DaemonInvariant, PTL DEF Spec, KeepsToPodman

(* In the daemon the engine is sent each accepted command once, in order,  *)
(* and no request is absorbed by a command sent already.                   *)
COROLLARY DaemonCommands == Spec => [](InOrder /\ RequestsHonoured) /\ ImplementsService
  BY DaemonKeepsToScheduler, SchedInOrder, SchedRequestsHonoured, SchedImplementsService, PTL
     DEF KeepsToScheduler

(* In the daemon a write-back loses marks set meanwhile and nothing else.  *)
COROLLARY DaemonSnapshotCurrent == Spec => []SnapshotCurrent
<1>1. DaemonInv => SnapshotCurrent
  BY DEF DaemonInv, PodmanInv
<1> QED
  BY <1>1, DaemonInvariant, PTL

(* Whatever clients and polls do in between, only exec's own mark starts a *)
(* countdown in the daemon or prolongs one.                                *)
COROLLARY DaemonOnlyExecArms == Spec => OnlyExecArms
<1>1. DaemonInv /\ DaemonInv' /\ [Next]_vars => [ArmsByExec]_podmanVars
  BY StepOfPodman, ProlongedByExec DEF DaemonInv
<1>2. [][ArmsByExec]_podmanVars <=> OnlyExecArms
  BY DEF ArmsByExec, OnlyExecArms
<1> QED
  BY <1>1, <1>2, DaemonInvariant, PTL DEF Spec

(* With both threads at work, the hash of containers is still that of a    *)
(* list the view shows.                                                    *)
COROLLARY DaemonContainersCoherent ==
    ASSUME HashesNotZero
    PROVE  Spec => []ContainersCoherent
<1>1. Init => CoherentInv
  BY DEF Init, ViewInit, CoherentInv
<1>2. DaemonInv /\ CoherentInv /\ [Next]_vars => CoherentInv'
  BY StepOfPodman, NextCoherent DEF DaemonInv
<1> QED
  BY <1>1, <1>2, CoherentInvImplies, DaemonInvariant, PTL DEF Spec

(* No mark is counted down while a command waits in the queue: the task    *)
(* that counts is chosen when the queue is empty, and the mutex kept over  *)
(* it lets nothing be queued before it is done.                            *)
THEOREM DaemonCountdownOnlyWhenIdle == Spec => []CountdownOnlyWhenIdle
<1>1. DaemonInv => CountdownOnlyWhenIdle
  BY DEF DaemonInv, Places, TypeOK, CountdownOnlyWhenIdle
<1> QED
  BY <1>1, DaemonInvariant, PTL

(* From client to engine: the i-th request sent is made of the i-th call   *)
(* accepted.  It is of the group and the action of the call, and of the    *)
(* name that the call gives or that the container with its id has.  A call *)
(* that gives the id of a pod is never accepted, and one for a pod that    *)
(* gives the id of a container ends as a request about a pod that has the  *)
(* name of the container.                                                  *)
THEOREM DaemonSentAsRead == Spec => []SentAsRead
<1>1. DaemonInv => SentAsRead
  <2> SUFFICES ASSUME DaemonInv, NEW i \in 1 .. Len(issued)
               PROVE  /\ issued[i] = [group  |-> IF wanted[i].group = "pod" THEN "pods" ELSE "containers",
                                      id     |-> NameMeant(wanted[i]),
                                      action |-> wanted[i].action]
                      /\ wanted[i].by = "id" => wanted[i].target \in Ctr
    BY DEF SentAsRead
  <2>1. issued[i] = Query(accepted[i]) /\ Len(accepted) = Len(issued) + Len(Pending)
    BY DEF DaemonInv, SchedInv, InOrder
  <2>2. Len(issued) \in Nat /\ Len(Pending) \in Nat
    BY TailElements, EmptySeq DEF DaemonInv, SchedInv, SchedTypeOK, HeldDuringCall, Pending
  <2>3. i \in 1 .. Len(wanted)
    BY <2>1, <2>2 DEF DaemonInv, Behind
  <2>4. /\ wanted[i] \in Requests /\ Resolved(wanted[i])
        /\ accepted[i] = CmdFor(wanted[i], NameMeant(wanted[i]))
    BY <2>3 DEF DaemonInv, Behind
  <2> QED
    BY <2>1, <2>4, RequestTypes DEF Resolved
<1> QED
  BY <1>1, DaemonInvariant, PTL
==============================================================================
