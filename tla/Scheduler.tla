----------------------------- MODULE Scheduler -----------------------------
(***************************************************************************)
(* Podman::Scheduler (src/podman/podman_scheduler.cpp): the queue of       *)
(* commands that ubus handlers fill and the loop thread empties, and the   *)
(* round robin of periodic tasks the loop thread runs when it is empty.    *)
(*                                                                         *)
(* The loop thread holds the mutex podman_sched from the entry of run()    *)
(* to its return, the engine call in between included.  That call is the   *)
(* one step of run() with a duration, so run() is two actions, RunBegin    *)
(* and RunEnd.  addCmd() keeps the mutex only for memory accesses: it is   *)
(* one action, enabled while the mutex is free.                            *)
(***************************************************************************)
EXTENDS Naturals, Sequences

CONSTANTS
    CmdType,      \* the command types clients use
    Name,         \* names of containers and pods
    NoName,       \* the empty string
    MaxRequests   \* bound: commands put into the queue in one behaviour

CmdTypes == {"CONTAINER_STOP", "CONTAINER_START", "CONTAINER_RESTART",
             "POD_STOP", "POD_START", "POD_RESTART"}

ASSUME SchedulerAssumption ==
    /\ CmdType \subseteq CmdTypes
    /\ NoName \notin Name
    /\ MaxRequests \in Nat

Cmd == [type : CmdType, name : Name]
AnyCmd == [type : CmdType, name : Name \cup {NoName}]

Task == <<"UPDATE_CONTAINERS", "UPDATE_PODS", "UPDATE_STATS",
          "UPDATE_LOGS", "UPDATE_NETWORKS", "UPDATE_BUSY_CYCLES">>

(* The request a command makes of the engine: the switch of run() and the  *)
(* query of the podman_t function it calls.                                *)
Query(cmd) ==
    [group  |-> IF cmd.type \in {"CONTAINER_STOP", "CONTAINER_START", "CONTAINER_RESTART"}
                THEN "containers" ELSE "pods",
     id     |-> cmd.name,
     action |-> CASE cmd.type \in {"CONTAINER_STOP", "POD_STOP"}   -> "stop"
                  [] cmd.type \in {"CONTAINER_START", "POD_START"} -> "start"
                  [] OTHER                                         -> "restart"]

-----------------------------------------------------------------------------
VARIABLES
    cmds,          \* the deque
    next_task,     \* index of the next periodic task
    podman_sched,  \* the mutex: "free" or "loop"
    call,          \* what the run() in progress is doing, "none" outside run()
    accepted,      \* history: commands put into the queue
    issued,        \* history: requests sent to the engine
    asked          \* history: where `issued' had got to at the last request
                   \* for a command, one more than its length; 0 before any

schedVars == <<cmds, next_task, podman_sched, call, accepted, issued, asked>>

Calls == {"none", "system", "unnamed", "command", "task"}

SchedInit ==
    /\ cmds = <<>>
    /\ next_task = 0
    /\ podman_sched = "free"
    /\ call = "none"
    /\ accepted = <<>>
    /\ issued = <<>>
    /\ asked = [c \in Cmd |-> 0]

(* Commands whose request has not been sent.  The head stays in the deque  *)
(* while its call is in progress.                                          *)
Pending == IF call = "command" THEN Tail(cmds) ELSE cmds

-----------------------------------------------------------------------------
(* Mutant of NextCall: periodic tasks go before commands.                  *)
NextCallTasksFirst(running) ==
    IF running THEN "task" ELSE "system"

(* What run() turns to: the system before the engine has answered once, a  *)
(* command if there is one, else the next periodic task.                   *)
NextCall(running) ==
    CASE ~running                                -> "system"
      [] running /\ cmds = <<>>                  -> "task"
      [] running /\ cmds # <<>> /\ Head(cmds).name = NoName -> "unnamed"
      [] OTHER                                   -> "command"

(* Mutant of RunBegin: the mutex is not kept over the engine call.         *)
RunBeginUnlocked(running) ==
    /\ call = "none"
    /\ podman_sched' = "free"
    /\ call' = NextCall(running)
    /\ issued' = IF call' = "command" THEN Append(issued, Query(Head(cmds))) ELSE issued
    /\ UNCHANGED <<cmds, next_task, accepted, asked>>

(* run() up to its engine call.  The result of a command's call is         *)
(* ignored, so the request counts as sent whether or not it succeeds.      *)
RunBegin(running) ==
    /\ podman_sched = "free"
    /\ podman_sched' = "loop"
    /\ call' = NextCall(running)
    /\ issued' = IF call' = "command" THEN Append(issued, Query(Head(cmds))) ELSE issued
    /\ UNCHANGED <<cmds, next_task, accepted, asked>>

(* Mutants of RunEnd: the index wraps one too late; the wrong end of the   *)
(* deque is popped; the same task is run again.                            *)
RunEndWrapsLate ==
    /\ call # "none"
    /\ cmds' = IF call \in {"command", "unnamed"} THEN Tail(cmds) ELSE cmds
    /\ next_task' = IF call = "task" THEN (next_task + 1) % (Len(Task) + 1) ELSE next_task
    /\ call' = "none"
    /\ podman_sched' = "free"
    /\ UNCHANGED <<accepted, issued, asked>>

RunEndPopsBack ==
    /\ call # "none"
    /\ cmds' = IF call \in {"command", "unnamed"} THEN SubSeq(cmds, 1, Len(cmds) - 1) ELSE cmds
    /\ next_task' = IF call = "task" THEN (next_task + 1) % Len(Task) ELSE next_task
    /\ call' = "none"
    /\ podman_sched' = "free"
    /\ UNCHANGED <<accepted, issued, asked>>

RunEndSameTask ==
    /\ call # "none"
    /\ cmds' = IF call \in {"command", "unnamed"} THEN Tail(cmds) ELSE cmds
    /\ call' = "none"
    /\ podman_sched' = "free"
    /\ UNCHANGED <<next_task, accepted, issued, asked>>

(* run() from the return of its engine call.                               *)
RunEnd ==
    /\ call # "none"
    /\ cmds' = IF call \in {"command", "unnamed"} THEN Tail(cmds) ELSE cmds
    /\ next_task' = IF call = "task" THEN (next_task + 1) % Len(Task) ELSE next_task
    /\ call' = "none"
    /\ podman_sched' = "free"
    /\ UNCHANGED <<accepted, issued, asked>>

(* What addCmd() takes for a duplicate.                                    *)
Repeats(cmd) == cmds # <<>> /\ cmds[Len(cmds)] = cmd

(* Mutant of AddCmd: push_front.                                           *)
AddCmdFront(cmd) ==
    /\ cmd.name # NoName => podman_sched = "free"
    /\ IF cmd.name = NoName \/ Repeats(cmd)
       THEN UNCHANGED <<cmds, accepted>>
       ELSE /\ Len(accepted) < MaxRequests
            /\ cmds' = <<cmd>> \o cmds
            /\ accepted' = Append(accepted, cmd)
    /\ asked' = IF cmd.name = NoName THEN asked
                ELSE [asked EXCEPT ![cmd] = Len(issued) + 1]
    /\ UNCHANGED <<next_task, podman_sched, call, issued>>

(* addCmd(): a nameless command is dropped before the mutex is taken, one  *)
(* equal to the last of the queue is dropped with the mutex held.          *)
AddCmd(cmd) ==
    /\ cmd.name # NoName => podman_sched = "free"
    /\ IF cmd.name = NoName \/ Repeats(cmd)
       THEN UNCHANGED <<cmds, accepted>>
       ELSE /\ Len(accepted) < MaxRequests
            /\ cmds' = Append(cmds, cmd)
            /\ accepted' = Append(accepted, cmd)
    /\ asked' = IF cmd.name = NoName THEN asked
                ELSE [asked EXCEPT ![cmd] = Len(issued) + 1]
    /\ UNCHANGED <<next_task, podman_sched, call, issued>>

SchedNext ==
    \/ \E running \in BOOLEAN : RunBegin(running)
    \/ RunEnd
    \/ \E cmd \in AnyCmd : AddCmd(cmd)

SchedSpec == SchedInit /\ [][SchedNext]_schedVars

(* The loop thread keeps calling run(), its engine calls return (curl has  *)
(* a timeout on each), and the engine status stays RUNNING once reached.   *)
SchedFairness == SF_schedVars(RunBegin(TRUE)) /\ WF_schedVars(RunEnd)

FairSchedSpec == SchedSpec /\ SchedFairness

-----------------------------------------------------------------------------
(* Types.  The deque holds named commands only, so the branch of run() for *)
(* a nameless head is never taken.                                         *)
SchedTypeOK ==
    /\ cmds \in Seq(Cmd)
    /\ next_task \in 0 .. Len(Task) - 1
    /\ podman_sched \in {"free", "loop"}
    /\ call \in Calls \ {"unnamed"}
    /\ accepted \in Seq(Cmd)
    /\ issued \in Seq([group : {"containers", "pods"}, id : Name, action : {"stop", "start", "restart"}])
    /\ asked \in [Cmd -> 0 .. Len(issued) + 1]

(* The mutex is held from the choice of a call to its end, and a command   *)
(* being executed is still the head of the deque: addCmd() cannot take the *)
(* mutex in between, so no step makes RunEnd pop another command.          *)
HeldDuringCall ==
    /\ podman_sched = "loop" <=> call # "none"
    /\ call = "command" => /\ cmds # <<>>
                           /\ issued # <<>>
                           /\ issued[Len(issued)] = Query(Head(cmds))

(* The engine is sent exactly the accepted commands, each once and in the  *)
(* order of acceptance, up to the ones still pending, whatever addCmd does *)
(* to the deque between two calls of run() and whatever tasks run.         *)
InOrder ==
    /\ Len(accepted) = Len(issued) + Len(Pending)
    /\ \A i \in 1 .. Len(issued)  : issued[i] = Query(accepted[i])
    /\ \A i \in 1 .. Len(Pending) : Pending[i] = accepted[Len(issued) + i]

(* A client's request is never absorbed by an older copy that the engine   *)
(* has been sent already: after the last request for a command, dropped as *)
(* a duplicate or not, the engine has been sent that command again or the  *)
(* command is still pending.  This is what keeping podman_sched over the   *)
(* engine call buys: the head of the deque is in it while it is executed.  *)
RequestsHonoured ==
    \A c \in Cmd : asked[c] > 0 =>
        \/ \E i \in asked[c] .. Len(issued) : issued[i] = Query(c)
        \/ \E i \in 1 .. Len(Pending) : Pending[i] = c

(* The comment at podman_scheduler.cpp:115 says of the check in addCmd "No *)
(* duplicates": no command is twice in the queue.                          *)
NoDuplicates ==
    \A i, j \in 1 .. Len(cmds) : cmds[i] = cmds[j] => i = j

(* The scheduler implements the command service: dropping duplicates,      *)
(* running tasks and returning from a call are steps that do not show.     *)
Service == INSTANCE CommandService
    WITH Command <- Cmd, Effect <- Query, pending <- Pending, performed <- issued

ImplementsService == Service!Spec

(* And with the loop thread running it does not keep a command waiting for *)
(* ever, periodic tasks and duplicate requests notwithstanding.            *)
ServiceIsLive == Service!LiveSpec
=============================================================================
