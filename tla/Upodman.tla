------------------------------ MODULE Upodman ------------------------------
(***************************************************************************)
(* The daemon: the loop thread (src/loop.cpp, src/podman/podman.cpp) that  *)
(* drives Scheduler and Podman, and the main thread, whose ubus handlers   *)
(* (src/ubus/ubus_podman.cpp) run one at a time and share the queue and    *)
(* the view with it under the mutexes podman_sched and podman.             *)
(*                                                                         *)
(* Every call of the loop thread between two turns is a step of Scheduler  *)
(* or of Podman; the composition adds who calls what, when, and what the   *)
(* handlers have read before they wait for a mutex.                        *)
(***************************************************************************)
EXTENDS Scheduler, Podman

CONSTANTS
    MaxCalls,   \* bound: calls of the exec method in one behaviour
    Requests    \* the calls of exec that clients make

ASSUME UpodmanAssumption ==
    /\ Names(Ctr) \subseteq Name
    /\ CmdType = CmdTypes
    /\ Marks = BusyValue \ {"NONE"}
    /\ Requests \subseteq
          [action : {"start", "stop", "restart"}, group : {"container", "pod"},
           by : {"name"}, target : Name]
          \cup [action : {"start", "stop", "restart"}, group : {"container", "pod"},
                by : {"id"}, target : Ctr \cup Pod]
    /\ MaxCalls \in Nat /\ MaxCalls <= MaxRequests

VARIABLES
    loop,      \* the loop thread: "top" of the while loop, in "init" or in "run"
    work,      \* what Podman::init has left to call
    serving,   \* main() has got past the constructor of podman_t
    ubus,      \* where the handler in progress is, "idle" without one
    req,       \* the exec call being handled
    name,      \* the name it is about
    calls,     \* exec calls so far
    wanted     \* history: the client requests behind the accepted commands

loopVars == <<loop, work, serving>>
ubusVars == <<ubus, req, name, calls, wanted>>
vars == <<schedVars, podmanVars, loopVars, ubusVars>>

NoReq == [action |-> "none"]

InitWork == <<"UPDATE_NETWORKS", "UPDATE_CONTAINERS", "UPDATE_PODS", "UPDATE_STATS", "UPDATE_LOGS">>

(* main() constructs podman_t, which runs Podman::init once, before there  *)
(* is a loop thread or a handler.                                          *)
Init ==
    /\ SchedInit
    /\ ViewInit /\ EngineInit
    /\ podman = "free" /\ ret = TRUE /\ draft = NoDraft
    /\ at = "UPDATE_SYSTEM"
    /\ loop = "init" /\ work = InitWork /\ serving = FALSE
    /\ ubus = "idle" /\ req = NoReq /\ name = NoName /\ calls = 0 /\ wanted = <<>>

-----------------------------------------------------------------------------
(* Podman::init: the system first, the rest only if that succeeded, and    *)
(* whatever the rest returns.                                              *)
InitNext ==
    /\ loop = "init" /\ at = "idle"
    /\ IF work = <<>> \/ (work = InitWork /\ ~ret)
       THEN /\ loop' = "top" /\ serving' = TRUE /\ work' = <<>>
            /\ UNCHANGED podmanVars
       ELSE /\ Call(Head(work))
            /\ work' = Tail(work)
            /\ UNCHANGED <<loop, serving>>
    /\ UNCHANGED <<schedVars, ubusVars>>

(* Loop::run: until the system has answered, it calls Podman::init ...     *)
LoopInit ==
    /\ loop = "top" /\ status # "RUNNING"
    /\ loop' = "init" /\ work' = InitWork
    /\ Call("UPDATE_SYSTEM")
    /\ UNCHANGED <<schedVars, serving, ubusVars>>

(* Mutant of LoopRun: the status is not looked at.                         *)
LoopRunAnyStatus ==
    /\ loop = "top"
    /\ RunBegin(TRUE)
    /\ loop' = "run"
    /\ IF call' = "task" THEN Call(Task[next_task + 1]) ELSE UNCHANGED podmanVars
    /\ UNCHANGED <<work, serving, ubusVars>>

(* ... and then the scheduler.                                             *)
LoopRun ==
    /\ loop = "top" /\ status = "RUNNING"
    /\ RunBegin(status = "RUNNING")
    /\ loop' = "run"
    /\ IF call' = "task" THEN Call(Task[next_task + 1])
       ELSE IF call' = "system" THEN Call("UPDATE_SYSTEM")
       ELSE UNCHANGED podmanVars
    /\ UNCHANGED <<work, serving, ubusVars>>

LoopReturn ==
    /\ loop = "run" /\ at = "idle"
    /\ RunEnd
    /\ loop' = "top"
    /\ UNCHANGED <<podmanVars, work, serving, ubusVars>>

Refresh == Update /\ UNCHANGED <<schedVars, loopVars, ubusVars>>

Loop == InitNext \/ LoopInit \/ LoopRun \/ LoopReturn \/ Refresh

-----------------------------------------------------------------------------
(* exec: calls with an unknown action or group are refused before anything *)
(* is read.                                                                *)
ExecReceive ==
    /\ Alive /\ serving /\ ubus = "idle" /\ calls < MaxCalls
    /\ calls' = calls + 1
    /\ \E r \in Requests : req' = r
    /\ ubus' = "lookup"
    /\ UNCHANGED <<schedVars, podmanVars, loopVars, name, wanted>>

(* A name is used as it is; an id is looked up among the containers, also  *)
(* when the group is pod, and is replaced by the name of the container.    *)
NameFor == IF req.by = "name" THEN req.target ELSE ContainerNameForID(req.target, NoName)

ExecLookup ==
    /\ Alive /\ ubus = "lookup"
    /\ req.by = "id" => podman = "free"
    /\ IF NameFor = NoName
       THEN ubus' = "idle" /\ req' = NoReq /\ UNCHANGED name
       ELSE /\ ubus' = IF req.group = "container" THEN "busy" ELSE "add"
            /\ name' = NameFor
            /\ UNCHANGED req
    /\ UNCHANGED <<schedVars, podmanVars, loopVars, calls, wanted>>

BusyFor(action) == CASE action = "start" -> "STARTING"
                     [] action = "stop"  -> "STOPPING"
                     [] OTHER            -> "RESTARTING"

(* Mutant of ExecBusy: the mark is set without the mutex.                  *)
ExecBusyUnlocked ==
    /\ Alive /\ ubus = "busy"
    /\ ctrs' = [c \in DOMAIN ctrs |->
                  IF NameOf[c] = name THEN [ctrs[c] EXCEPT !.busy = Assign(BusyFor(req.action))]
                  ELSE ctrs[c]]
    /\ ubus' = "add"
    /\ UNCHANGED <<status, podst, nets, hash, cstate, podman, at, ret, draft, engine>>
    /\ UNCHANGED <<schedVars, loopVars, req, name, calls, wanted>>

(* A command for a container marks it before it is queued.                 *)
ExecBusy ==
    /\ Alive /\ ubus = "busy"
    /\ SetBusy(name, BusyFor(req.action))
    /\ ubus' = "add"
    /\ UNCHANGED <<schedVars, loopVars, req, name, calls, wanted>>

(* The command a request is turned into.                                   *)
CmdFor(r, n) ==
    [type |-> CASE r.group = "pod" /\ r.action = "stop"          -> "POD_STOP"
                [] r.group = "pod" /\ r.action = "start"         -> "POD_START"
                [] r.group = "pod" /\ r.action = "restart"       -> "POD_RESTART"
                [] r.group = "container" /\ r.action = "stop"    -> "CONTAINER_STOP"
                [] r.group = "container" /\ r.action = "start"   -> "CONTAINER_START"
                [] r.group = "container" /\ r.action = "restart" -> "CONTAINER_RESTART",
     name |-> n]

(* Mutant of ExecAdd: the queue is appended to without the mutex.          *)
ExecAddUnlocked ==
    /\ Alive /\ ubus = "add"
    /\ cmds' = Append(cmds, CmdFor(req, name))
    /\ accepted' = Append(accepted, CmdFor(req, name))
    /\ asked' = [asked EXCEPT ![CmdFor(req, name)] = Len(issued) + 1]
    /\ UNCHANGED <<next_task, podman_sched, call, issued>>
    /\ wanted' = Append(wanted, req)
    /\ ubus' = "reply"
    /\ UNCHANGED <<podmanVars, loopVars, req, name, calls>>

(* The handler waits here for podman_sched, that is for the end of the     *)
(* run() in progress and of the engine call it makes.                      *)
ExecAdd ==
    /\ Alive /\ ubus = "add"
    /\ AddCmd(CmdFor(req, name))
    /\ wanted' = IF accepted' = accepted THEN wanted ELSE Append(wanted, req)
    /\ ubus' = "reply"
    /\ UNCHANGED <<podmanVars, loopVars, req, name, calls>>

(* The reply reads the status, after the command has been queued, and is   *)
(* all that depends on it.  The same action stands for the handlers that   *)
(* only read the view.                                                     *)
Reply ==
    /\ Alive /\ ubus \in {"reply", "read"} /\ podman = "free"
    /\ ubus' = "idle" /\ req' = NoReq /\ name' = NoName
    /\ UNCHANGED <<schedVars, podmanVars, loopVars, calls, wanted>>

(* status, info, networks, list, logs and running                          *)
ReadReceive ==
    /\ Alive /\ serving /\ ubus = "idle"
    /\ ubus' = "read"
    /\ UNCHANGED <<schedVars, podmanVars, loopVars, req, name, calls, wanted>>

Handler == ExecLookup \/ ExecBusy \/ ExecAdd \/ Reply

-----------------------------------------------------------------------------
(* The engine is another process.                                          *)
Outside == Engine /\ UNCHANGED <<schedVars, loopVars, ubusVars>>

Next == Loop \/ ExecReceive \/ ReadReceive \/ Handler \/ Outside

Spec == Init /\ [][Next]_vars

(* The loop thread runs: its sleeps end and its engine calls return, curl  *)
(* having a timeout.  A handler gets a mutex that is free time and again:  *)
(* Loop::run sleeps with both free between any two turns.  Nothing is      *)
(* assumed of clients and engine.                                          *)
Fairness ==
    /\ WF_vars(Loop)
    /\ SF_vars(Handler)

FairSpec == Spec /\ Fairness

-----------------------------------------------------------------------------
HandlerStates == {"idle", "lookup", "busy", "add", "reply", "read"}

(* Types and the places of the two threads: podman_sched is held exactly   *)
(* in a run() of the loop thread, an update function is in progress only   *)
(* under Podman::init or a task.                                           *)
TypeOK ==
    /\ loop \in {"top", "init", "run"} /\ serving \in BOOLEAN
    /\ ubus \in HandlerStates
    /\ ubus \notin {"idle", "read"} <=> req # NoReq
    /\ loop = "run" <=> podman_sched = "loop"
    /\ loop = "top" => at = "idle" /\ podman = "free"
    /\ loop = "run" => status = "RUNNING" /\ (at # "idle" => call = "task")
    /\ ~serving => ubus = "idle" /\ cmds = <<>> /\ loop = "init"

(* The name a request is about: the one it gives, or that of the container *)
(* with the id it gives.                                                   *)
NameMeant(r) == IF r.by = "name" THEN r.target ELSE NameOf[r.target]

(* From the client to the engine: the i-th request sent has the action of  *)
(* the i-th accepted request, the group of it, and the name it gives or    *)
(* the name of the container that has had its id, through refreshes that   *)
(* come between lookup, mark, queue and switch.  An id is only accepted if *)
(* it is a container's, but for the group pod too: what is sent is then of *)
(* a pod by that container's name, which no client means.                  *)
SentAsRead ==
    \A i \in 1 .. Len(issued) :
        LET r == wanted[i] IN
        /\ issued[i] = [group  |-> IF r.group = "pod" THEN "pods" ELSE "containers",
                        id     |-> NameMeant(r),
                        action |-> r.action]
        /\ r.by = "id" => r.target \in Ctr

(* A queued command's busy mark does not time out: cycles are counted only *)
(* with an empty queue, and nothing is queued while they are.              *)
CountdownOnlyWhenIdle == at = "UPDATE_BUSY_CYCLES" => cmds = <<>>

(* The composition keeps to its parts, so what is shown of Scheduler alone *)
(* holds of the daemon: the handler's steps use the queue by addCmd() only,*)
(* those of the loop thread by run().                                      *)
KeepsToScheduler == SchedSpec

(* The same for Podman: between them, the two threads change the view by   *)
(* nothing but the update functions, one at a time, and by setting marks.  *)
KeepsToPodman == [][PodmanNext]_podmanVars

-----------------------------------------------------------------------------
Up == status = "RUNNING" /\ Alive

(* A handler returns although it waits for mutexes that the loop thread    *)
(* keeps over engine calls, whatever the engine answers.                   *)
HandlersReturn == ubus # "idle" ~> (ubus = "idle" \/ ~Alive)

(* Once the engine has answered, every accepted command is sent to it,     *)
(* those accepted before it answered included.                             *)
CommandsIssued ==
    <>[]Up => \A i \in 1 .. MaxRequests : Len(accepted) >= i ~> Len(issued) >= i

(* Once clients stop calling exec, every mark is cleared: neither a write- *)
(* back nor a refresh brings one back for ever.                            *)
BusyEnds == <>[]Up => <>[](\A c \in DOMAIN ctrs : ctrs[c].busy = NotBusy)

(* Once clients stop calling exec, each periodic task has its turn time    *)
(* and again, the one that counts the marks down among them, whatever the  *)
(* engine answers to the others.                                           *)
TasksRecur == <>[]Up => \A i \in 1 .. Len(Task) : []<>(call = "task" /\ next_task = i - 1)

(* Containers or pods have come or gone.                                   *)
Churned == \E kind \in Changes \cap {"containers", "pods"} : events[kind] > 0

(* The view shows what the engine has, but for a list of networks that is  *)
(* empty, which is taken for an error, for subnets beyond the number of    *)
(* networks, and for the status of a pod that left the view and came back: *)
(* it is unknown until the engine's list of pods differs from the recorded *)
(* one.                                                                    *)
InSync ==
    /\ [c \in DOMAIN ctrs |-> ctrs[c].run] = ectr
    /\ DOMAIN podst = PodsOf(DOMAIN ectr)
    /\ \A p \in DOMAIN podst : podst[p] = PodStatus(p) \/ (Churned /\ podst[p] = "unknown")
    /\ DOMAIN nets = enet \/ enet = {}
    /\ \A n \in enet : Subnets[n] <= Cardinality(enet) => nets[n] = Subnets[n]

(* With an engine that answers and has stopped changing, the view comes to *)
(* be in sync and stays so, through hashes recorded, answers skipped and   *)
(* changes between the polls: no update_*() is skipped for a list that the *)
(* view does not show.                                                     *)
Converges == <>[]Up => <>[]InSync

(* podman_network.cpp:35 says of the comparison of hashes that it is made  *)
(* "against names, cni versions, and types": networks of other names are   *)
(* not taken for the known ones, so in the end the known ones are right.   *)
NetworksCompared == <>[]Up => <>[](DOMAIN nets = enet \/ enet = {})

-----------------------------------------------------------------------------
(* README.md:57 describes exec as { .group = pod/container, .name/.id =    *)
(* pod/container identification, ... }: the id of a pod the daemon shows   *)
(* is accepted.                                                            *)
PodIdAccepted ==
    [][ubus = "lookup" /\ ubus' = "idle" => req.target \notin DOMAIN podst]_vars
=============================================================================
