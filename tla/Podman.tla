------------------------------- MODULE Podman -------------------------------
(***************************************************************************)
(* Podman::podman_t (src/podman/podman_*.cpp): the daemon's view of the    *)
(* podman engine, refreshed by the loop thread and marked by ubus          *)
(* handlers, with the mutex `podman' that protects it, and the engine.     *)
(*                                                                         *)
(* Containers and pods are their ids.  A container has a name besides, by  *)
(* which commands and marks know it; when it is gone, another may have it. *)
(* The vector of pods is the pair of functions ctrs and podst: PodOf says  *)
(* in which pod a known container is, containers of NoPod being in the     *)
(* vector's nameless pod.                                                  *)
(*                                                                         *)
(* A refresh is cut into actions where it releases the mutex with work     *)
(* left that another thread can get in between of, and where it keeps it   *)
(* over an engine call.  A critical section alone is one action, enabled   *)
(* while the mutex is free.                                                *)
(***************************************************************************)
EXTENDS BusyStat, Integers, FiniteSets, FiniteSetsExt

CONSTANTS
    Ctr, Pod, Net,   \* containers, pods and networks of the engine
    NoPod,           \* the empty pod id
    PodOf,           \* the pod of each container
    NameOf,          \* the name of each container
    Infra,           \* the infra containers
    Nameless,        \* containers listed without a name or an id
    Subnets,         \* the number of subnets of each network
    Bytes(_),        \* sum of the characters of a list element's JSON text
    Replies,         \* how engine calls end: "ok", "fails", "odd" (not a list)
    Marks,           \* the busy marks the handlers set
    Changes,         \* what changes at the engine: "run", "containers", "pods", "networks"
    MaxEvents        \* bound: changes at the engine in one behaviour

ASSUME PodmanAssumption ==
    /\ NoPod \notin Pod
    /\ PodOf \in [Ctr -> Pod \cup {NoPod}]
    /\ DOMAIN NameOf = Ctr
    /\ Infra \subseteq Ctr
    /\ Nameless \subseteq Ctr
    /\ Subnets \in [Net -> Nat]
    /\ "ok" \in Replies
    /\ Marks \subseteq BusyValue \ {"NONE"}
    /\ MaxEvents \in Nat

VARIABLES
    status,    \* podman_t::status
    podman,    \* the mutex: "free" or "loop"
    ctrs,      \* known container -> [run, load, logs, busy]
    podst,     \* known pod -> status
    nets,      \* known network -> the number of its subnets that are known
    hash,      \* podman_t::hash
    cstate,    \* podman_t::state.containers, the one state the code reads
    at,        \* where the loop thread is in a podman_t call; "crashed" once
               \* the process has died of an access outside a vector
    ret,       \* what the last podman_t call returned
    draft,     \* the local variables of the call in progress
    ectr,      \* engine: existing container -> is it running
    epod,      \* engine: existing pods
    enet,      \* engine: existing networks
    events     \* changes at the engine so far, of each kind

view == <<status, ctrs, podst, nets, hash, cstate>>
engine == <<ectr, epod, enet, events>>
podmanVars == <<view, podman, at, ret, draft, engine>>

UpdateOps == {"UPDATE_SYSTEM", "UPDATE_NETWORKS", "UPDATE_CONTAINERS", "UPDATE_PODS",
              "UPDATE_STATS", "UPDATE_LOGS", "UPDATE_BUSY_CYCLES"}

-----------------------------------------------------------------------------
(* The engine's answers.  A pod's entry lists its containers.              *)
CtrElem(c) == [id |-> c, run |-> ectr[c]]
Members(p) == {c \in DOMAIN ectr : PodOf[c] = p}
PodStatus(p) == CASE Members(p) = {}                  -> "Created"
                  [] \A c \in Members(p) : ~ectr[c]    -> "Exited"
                  [] \A c \in Members(p) : ectr[c]     -> "Running"
                  [] OTHER                            -> "Degraded"
CtrList == {CtrElem(c) : c \in DOMAIN ectr}
PodList == {[id |-> p, status |-> PodStatus(p), members |-> {CtrElem(c) : c \in Members(p)}] :
                p \in epod}
NetList == {[id |-> n] : n \in enet}

(* Response::hash(): the sum of the characters of the body, which is a     *)
(* pair of brackets (184 together) around elements divided by commas (44). *)
Hash(list) == 184 + MapThenSumSet(Bytes, list)
                  + (IF list = {} THEN 0 ELSE 44 * (Cardinality(list) - 1))

(* Socket::execute() gives no usable answer: whatever goes wrong, from the *)
(* connection to the parsing, it returns false; or the answer it returns   *)
(* is of another form than the caller wants.                               *)
NoAnswer == Replies # {"ok"}

(* parse_cntr(): what is known of one element of the answer by itself.     *)
NewCtr(c) == [run |-> ectr[c], load |-> FALSE, logs |-> "none", busy |-> NotBusy]

PodsOf(cs) == {PodOf[c] : c \in cs} \ {NoPod}

Names(cs) == {NameOf[c] : c \in cs}

NoDraft == [ctrs |-> <<>>, podst |-> <<>>, todo |-> {}, hash |-> 0]

Done(result) == at' = "idle" /\ ret' = result /\ draft' = NoDraft

-----------------------------------------------------------------------------
(* podman_t::podman_t()                                                    *)
ViewInit ==
    /\ status = "UNKNOWN"
    /\ ctrs = <<>> /\ podst = <<>> /\ nets = <<>>
    /\ hash = [networks |-> 0, pods |-> 0, containers |-> 0]
    /\ cstate = "INCOMPLETE"

(* Whatever may be created later need not exist at the start; no two       *)
(* containers that exist have the same name.                               *)
EngineInit ==
    /\ epod \in SUBSET Pod /\ ("pods" \notin Changes => epod = Pod)
    /\ LET possible == {c \in Ctr : PodOf[c] \in epod \cup {NoPod}} IN
       \E cs \in SUBSET possible :
          /\ \A c, d \in cs : NameOf[c] = NameOf[d] => c = d
          /\ "containers" \notin Changes => Names(cs) = Names(possible)
          /\ ectr \in [cs -> BOOLEAN]
    /\ enet \in SUBSET Net /\ ("networks" \notin Changes => enet = Net)
    /\ events = [kind \in Changes |-> 0]

PodmanInit ==
    /\ ViewInit
    /\ EngineInit
    /\ podman = "free" /\ at = "idle" /\ ret = TRUE /\ draft = NoDraft

(* The loop thread calls an update function.                               *)
Call(op) ==
    /\ at = "idle"
    /\ at' = op
    /\ UNCHANGED <<view, podman, ret, draft, engine>>

(* The process is running.                                                 *)
Alive == at # "crashed"

-----------------------------------------------------------------------------
(* update_system().  An answer without the two objects is refused by       *)
(* verifyJsonElements ("odd"); of the objects it has, one may be of        *)
(* another type, or a field may be missing.  One object is enough for the  *)
(* status to become RUNNING.                                               *)
UpdateSystem ==
    /\ at = "UPDATE_SYSTEM" /\ podman = "free"
    /\ \/ /\ NoAnswer
          /\ Done(FALSE)
          /\ UNCHANGED status
       \/ \E host, version, complete \in (IF "odd" \in Replies THEN BOOLEAN ELSE {TRUE}) :
          /\ status' = IF host \/ version \/ status = "RUNNING" THEN "RUNNING" ELSE status
          /\ Done(host /\ (status = "RUNNING" \/ (version /\ complete)))
    /\ UNCHANGED <<ctrs, podst, nets, hash, cstate, podman, engine>>

(* update_networks(): a list with the recorded hash is taken to be the     *)
(* known one, an empty one is refused.  The loop over the subnets of a     *)
(* network ends with the number of networks in the list.                   *)
UpdateNetworks ==
    /\ at = "UPDATE_NETWORKS" /\ podman = "free"
    /\ \/ /\ NoAnswer
          /\ Done(FALSE)
          /\ UNCHANGED <<nets, hash>>
       \/ /\ Hash(NetList) = hash.networks
          /\ Done(TRUE)
          /\ UNCHANGED <<nets, hash>>
       \/ /\ Hash(NetList) # hash.networks /\ enet = {}
          /\ Done(FALSE)
          /\ UNCHANGED <<nets, hash>>
       \/ /\ Hash(NetList) # hash.networks /\ enet # {}
          /\ nets' = [n \in enet |-> Min({Subnets[n], Cardinality(enet)})]
          /\ hash' = [hash EXCEPT !.networks = Hash(NetList)]
          /\ Done(TRUE)
    /\ UNCHANGED <<status, ctrs, podst, cstate, podman, engine>>

-----------------------------------------------------------------------------
(* update_containers() keeps the mutex from before its engine call to the  *)
(* end of the checks on the answer.                                        *)
ContainersLock ==
    /\ at = "UPDATE_CONTAINERS" /\ podman = "free"
    /\ podman' = "loop" /\ at' = "CONTAINERS_REPLY"
    /\ UNCHANGED <<view, ret, draft, engine>>

(* Mutant of ContainersReply: a failure leaves the mutex locked.           *)
ContainersReplyLeaksMutex ==
    /\ at = "CONTAINERS_REPLY"
    /\ \/ /\ "fails" \in Replies
          /\ podman' = "loop"
          /\ hash' = [hash EXCEPT !.containers = 0]
          /\ cstate' = "INCOMPLETE"
          /\ Done(FALSE)
       \/ /\ "odd" \in Replies
          /\ podman' = "free"
          /\ Done(FALSE)
          /\ UNCHANGED <<hash, cstate>>
       \/ /\ Hash(CtrList) = hash.containers
          /\ podman' = "free"
          /\ cstate' = "OK"
          /\ Done(TRUE)
          /\ UNCHANGED hash
       \/ /\ Hash(CtrList) # hash.containers
          /\ podman' = "free"
          /\ at' = "CONTAINERS_PARSE"
          /\ draft' = LET parsed == DOMAIN ectr \ Nameless IN
                      [ctrs |-> [c \in parsed |-> NewCtr(c)], podst |-> <<>>,
                       todo |-> parsed, hash |-> Hash(CtrList)]
          /\ UNCHANGED <<ret, hash, cstate>>
    /\ UNCHANGED <<status, ctrs, podst, nets, engine>>

(* The mutex is released whatever the answer: none, one that is not a      *)
(* list, the one known, or a new one to be taken apart.                    *)
ContainersReply ==
    /\ at = "CONTAINERS_REPLY"
    /\ podman' = "free"
    /\ \/ /\ "fails" \in Replies
          /\ hash' = [hash EXCEPT !.containers = 0]
          /\ cstate' = "INCOMPLETE"
          /\ Done(FALSE)
       \/ /\ "odd" \in Replies
          /\ Done(FALSE)
          /\ UNCHANGED <<hash, cstate>>
       \/ /\ Hash(CtrList) = hash.containers
          /\ cstate' = "OK"
          /\ Done(TRUE)
          /\ UNCHANGED hash
       \/ /\ Hash(CtrList) # hash.containers
          /\ at' = "CONTAINERS_PARSE"
          /\ draft' = LET parsed == DOMAIN ectr \ Nameless IN
                      [ctrs |-> [c \in parsed |-> NewCtr(c)], podst |-> <<>>,
                       todo |-> parsed, hash |-> Hash(CtrList)]
          /\ UNCHANGED <<ret, hash, cstate>>
    /\ UNCHANGED <<status, ctrs, podst, nets, engine>>

(* Mutants of CopyDetails: the mark is assigned, not copied; what the      *)
(* answer tells is overwritten.                                            *)
CopyDetailsRearms(new, known) == [known EXCEPT !.run = new.run, !.busy = Assign(@.value)]

CopyDetailsOverwrites(new, known) == known

(* copy_details(): a container known already keeps what the answer does    *)
(* not tell.                                                               *)
CopyDetails(new, known) == [known EXCEPT !.run = new.run]

(* Each element of the answer is completed in a critical section of its own.*)
ContainersCopy(c) ==
    /\ at = "CONTAINERS_PARSE" /\ podman = "free"
    /\ c \in draft.todo
    /\ draft' = [draft EXCEPT
           !.todo = @ \ {c},
           !.ctrs[c] = IF c \in DOMAIN ctrs THEN CopyDetails(@, ctrs[c]) ELSE @]
    /\ UNCHANGED <<view, podman, at, ret, engine>>

(* Mutants of ContainersPublish: the pods stay; the hash is of a later     *)
(* answer.                                                                 *)
ContainersPublishKeepsPods ==
    /\ at = "CONTAINERS_PARSE" /\ podman = "free"
    /\ draft.todo = {}
    /\ ctrs' = draft.ctrs
    /\ hash' = [hash EXCEPT !.containers = draft.hash]
    /\ cstate' = "OK"
    /\ Done(TRUE)
    /\ UNCHANGED <<status, podst, nets, podman, engine>>

ContainersPublishLateHash ==
    /\ at = "CONTAINERS_PARSE" /\ podman = "free"
    /\ draft.todo = {}
    /\ ctrs' = draft.ctrs
    /\ podst' = [p \in PodsOf(DOMAIN draft.ctrs) |->
                    IF p \in DOMAIN podst THEN podst[p] ELSE "unknown"]
    /\ hash' = [hash EXCEPT !.containers = Hash(CtrList)]
    /\ cstate' = "OK"
    /\ Done(TRUE)
    /\ UNCHANGED <<status, nets, podman, engine>>

(* The new vector replaces the old one; a pod known already keeps its      *)
(* status, which only this thread writes.                                  *)
ContainersPublish ==
    /\ at = "CONTAINERS_PARSE" /\ podman = "free"
    /\ draft.todo = {}
    /\ ctrs' = draft.ctrs
    /\ podst' = [p \in PodsOf(DOMAIN draft.ctrs) |->
                    IF p \in DOMAIN podst THEN podst[p] ELSE "unknown"]
    /\ hash' = [hash EXCEPT !.containers = draft.hash]
    /\ cstate' = "OK"
    /\ Done(TRUE)
    /\ UNCHANGED <<status, nets, podman, engine>>

-----------------------------------------------------------------------------
(* update_pods(): the answer is compared and the vector is copied in one   *)
(* critical section, the copy is written back in another.  The pods of the *)
(* answer that the copy lacks are left in todo.                            *)
PodsPoll ==
    /\ at = "UPDATE_PODS" /\ podman = "free"
    /\ \/ /\ NoAnswer
          /\ Done(FALSE)
       \/ /\ Hash(PodList) = hash.pods
          /\ Done(TRUE)
       \/ /\ Hash(PodList) # hash.pods
          /\ at' = "PODS_PUBLISH"
          /\ draft' = [ctrs  |-> ctrs,
                       podst |-> [p \in DOMAIN podst |-> IF p \in epod THEN PodStatus(p) ELSE podst[p]],
                       todo  |-> epod \ DOMAIN podst,
                       hash  |-> IF epod = {} THEN 0 ELSE Hash(PodList)]
          /\ UNCHANGED ret
    /\ UNCHANGED <<view, podman, engine>>

(* A pod that is not in the copy is written to index -1 of it: the process *)
(* dies, or memory before the vector is overwritten and it goes on.  An    *)
(* empty vector has no memory, so then it dies.  An answer without any pod *)
(* leaves everything but the hash.                                         *)
PodsPublish ==
    /\ at = "PODS_PUBLISH" /\ podman = "free"
    /\ \/ /\ draft.hash = 0
          /\ hash' = [hash EXCEPT !.pods = 0]
          /\ Done(FALSE)
          /\ UNCHANGED <<ctrs, podst>>
       \/ /\ draft.todo # {}
          /\ at' = "crashed"
          /\ UNCHANGED <<ctrs, podst, hash, ret, draft>>
       \/ /\ draft.hash # 0
          /\ draft.todo = {} \/ DOMAIN draft.ctrs # {}
          /\ ctrs' = draft.ctrs
          /\ podst' = draft.podst
          /\ hash' = [hash EXCEPT !.pods = draft.hash]
          /\ Done(TRUE)
    /\ UNCHANGED <<status, nets, cstate, podman, engine>>

-----------------------------------------------------------------------------
(* parse_stats(): a container the view believes stopped is reset.          *)
ParseStats(known) == [known EXCEPT !.load = known.run]

(* update_stats(): the engine reports on its running containers, and the   *)
(* known ones are updated in place, each under the mutex.  An answer that  *)
(* cannot be parsed leaves the rest of them as they were.  Only this       *)
(* thread writes these fields, so the critical sections are one action.    *)
UpdateStats ==
    /\ at = "UPDATE_STATS" /\ podman = "free"
    /\ LET reported == {c \in DOMAIN ctrs \cap DOMAIN ectr : ectr[c]} IN
       \E got \in SUBSET reported :
          /\ ~NoAnswer => got = reported
          /\ ctrs' = [c \in DOMAIN ctrs |->
                        IF c \in got THEN ParseStats(ctrs[c]) ELSE ctrs[c]]
          /\ \E result \in BOOLEAN :
                /\ ~NoAnswer \/ DOMAIN ctrs = {} => result = TRUE
                /\ Done(result)
    /\ UNCHANGED <<status, podst, nets, hash, cstate, podman, engine>>

(* update_logs(): the vector is copied, the copy gets the logs without the *)
(* mutex, and is written back unless one answer breaks off.                *)
LogsSnapshot ==
    /\ at = "UPDATE_LOGS" /\ podman = "free"
    /\ \/ /\ cstate # "OK"
          /\ Done(FALSE)
       \/ /\ cstate = "OK"
          /\ at' = "LOGS_FETCH"
          /\ draft' = [NoDraft EXCEPT !.ctrs = ctrs, !.podst = podst]
          /\ UNCHANGED ret
    /\ UNCHANGED <<view, podman, engine>>

HasLog(c) == ~(c \in Infra) /\ draft.ctrs[c].run

LogsPublish ==
    /\ at = "LOGS_FETCH" /\ podman = "free"
    /\ \/ /\ NoAnswer
          /\ \E c \in DOMAIN draft.ctrs : HasLog(c)
          /\ Done(FALSE)
          /\ UNCHANGED <<ctrs, podst>>
       \/ \E silent \in SUBSET DOMAIN draft.ctrs :     \* no answer, which is no error
          /\ silent # {} => NoAnswer
          /\ \A c \in silent : HasLog(c)
          /\ ctrs' = [c \in DOMAIN draft.ctrs |->
                 CASE c \in Infra                  -> [draft.ctrs[c] EXCEPT !.logs = "infra"]
                   [] HasLog(c) /\ c \notin silent -> [draft.ctrs[c] EXCEPT !.logs = "text"]
                   [] OTHER                        -> draft.ctrs[c]]
          /\ podst' = draft.podst
          /\ Done(TRUE)
    /\ UNCHANGED <<status, nets, hash, cstate, podman, engine>>

(* update_busy_cycles()                                                    *)
BusyCycles ==
    /\ at = "UPDATE_BUSY_CYCLES" /\ podman = "free"
    /\ ctrs' = [c \in DOMAIN ctrs |-> [ctrs[c] EXCEPT !.busy = Cycle(@)]]
    /\ Done(TRUE)
    /\ UNCHANGED <<status, podst, nets, hash, cstate, podman, engine>>

-----------------------------------------------------------------------------
(* Mutant of SetBusy: the outcome of the command is anticipated.           *)
SetBusyOptimistic(name, v) ==
    /\ Alive /\ podman = "free"
    /\ IF name \in Names(DOMAIN ctrs)
       THEN \E c \in DOMAIN ctrs :
               /\ NameOf[c] = name
               /\ ctrs' = [ctrs EXCEPT ![c].busy = Assign(v), ![c].run = (v # "STOPPING")]
       ELSE UNCHANGED ctrs
    /\ UNCHANGED <<status, podst, nets, hash, cstate, podman, at, ret, draft, engine>>

(* setContainerBusyState(), called by a ubus handler: a container of the   *)
(* name is marked, if any is known.                                        *)
SetBusy(name, v) ==
    /\ Alive /\ podman = "free"
    /\ IF name \in Names(DOMAIN ctrs)
       THEN \E c \in DOMAIN ctrs :
               /\ NameOf[c] = name
               /\ ctrs' = [ctrs EXCEPT ![c].busy = Assign(v)]
       ELSE UNCHANGED ctrs
    /\ UNCHANGED <<status, podst, nets, hash, cstate, podman, at, ret, draft, engine>>

(* Mutant of ContainerNameForID: what is found is the id again.            *)
ContainerNameForIDUnconverted(id, none) == IF id \in DOMAIN ctrs THEN id ELSE none

(* containerNameForID(), called by a ubus handler: the name of the known   *)
(* container with the id.                                                  *)
ContainerNameForID(id, none) == IF id \in DOMAIN ctrs THEN NameOf[id] ELSE none

-----------------------------------------------------------------------------
(* The engine changes of its own, by other clients or by our commands.     *)
Event(kind) ==
    /\ kind \in Changes
    /\ MapThenSumSet(LAMBDA k : events[k], Changes) < MaxEvents
    /\ events' = [events EXCEPT ![kind] = @ + 1]
    /\ UNCHANGED <<view, podman, at, ret, draft>>

EngineRun(c) ==
    /\ Event("run")
    /\ c \in DOMAIN ectr
    /\ ectr' = [ectr EXCEPT ![c] = ~@]
    /\ UNCHANGED <<epod, enet>>

EngineContainer(c) ==
    /\ Event("containers")
    /\ PodOf[c] \in epod \cup {NoPod}
    /\ ectr' = IF c \in DOMAIN ectr
               THEN [d \in DOMAIN ectr \ {c} |-> ectr[d]]
               ELSE [d \in DOMAIN ectr \cup {c} |-> IF d = c THEN FALSE ELSE ectr[d]]
    /\ c \notin DOMAIN ectr => NameOf[c] \notin Names(DOMAIN ectr)
    /\ UNCHANGED <<epod, enet>>

EnginePod(p) ==
    /\ Event("pods")
    /\ IF p \in epod
       THEN /\ epod' = epod \ {p}
            /\ ectr' = [d \in {d \in DOMAIN ectr : PodOf[d] # p} |-> ectr[d]]
       ELSE /\ epod' = epod \cup {p}
            /\ UNCHANGED ectr
    /\ UNCHANGED enet

EngineNetwork(n) ==
    /\ Event("networks")
    /\ enet' = IF n \in enet THEN enet \ {n} ELSE enet \cup {n}
    /\ UNCHANGED <<ectr, epod>>

Engine == \/ \E c \in Ctr : EngineRun(c) \/ EngineContainer(c)
          \/ \E p \in Pod : EnginePod(p)
          \/ \E n \in Net : EngineNetwork(n)

-----------------------------------------------------------------------------
Update ==
    \/ UpdateSystem \/ UpdateNetworks
    \/ ContainersLock \/ ContainersReply \/ ContainersPublish
    \/ \E c \in Ctr : ContainersCopy(c)
    \/ PodsPoll \/ PodsPublish
    \/ UpdateStats
    \/ LogsSnapshot \/ LogsPublish
    \/ BusyCycles

(* The component on its own: the update functions called in any order by   *)
(* one thread, marks set by another.                                       *)
PodmanNext ==
    \/ \E op \in UpdateOps : Call(op)
    \/ Update
    \/ \E name \in Names(Ctr), v \in Marks : SetBusy(name, v)
    \/ Engine

PodmanSpec == PodmanInit /\ [][PodmanNext]_podmanVars

-----------------------------------------------------------------------------
CtrRecord == [run : BOOLEAN, load : BOOLEAN, logs : {"none", "text", "infra"}, busy : Busy]
PodStatuses == {"unknown", "Created", "Exited", "Running", "Degraded"}

(* Types.  The known pods are those of the known containers, in the view   *)
(* and in a copy of it, and the mutex outlasts an action only for the      *)
(* engine call of update_containers().                                     *)
PodmanTypeOK ==
    /\ status \in {"UNKNOWN", "RUNNING"}
    /\ podman = IF at = "CONTAINERS_REPLY" THEN "loop" ELSE "free"
    /\ DOMAIN ctrs \subseteq Ctr /\ ctrs \in [DOMAIN ctrs -> CtrRecord]
    /\ podst \in [PodsOf(DOMAIN ctrs) -> PodStatuses]
    /\ DOMAIN nets \subseteq Net
    /\ DOMAIN hash = {"networks", "pods", "containers"}
    /\ cstate \in {"INCOMPLETE", "OK"}
    /\ at \in UpdateOps \cup {"idle", "CONTAINERS_REPLY", "CONTAINERS_PARSE",
                             "PODS_PUBLISH", "LOGS_FETCH", "crashed"}
    /\ DOMAIN draft.ctrs \subseteq Ctr /\ draft.ctrs \in [DOMAIN draft.ctrs -> CtrRecord]
    /\ at \in {"PODS_PUBLISH", "LOGS_FETCH"} => draft.podst \in [PodsOf(DOMAIN draft.ctrs) -> PodStatuses]
    /\ ret \in BOOLEAN

(* What a write-back may lose.  While update_pods() or update_logs() works *)
(* on a copy, the copy has the containers of the view and agrees with it   *)
(* on everything but busy marks and what the function itself sets: writing *)
(* it back undoes no refresh, and a mark set meanwhile is all it loses.    *)
SnapshotCurrent ==
    at \in {"PODS_PUBLISH", "LOGS_FETCH"} =>
        /\ DOMAIN draft.ctrs = DOMAIN ctrs
        /\ \A c \in DOMAIN ctrs :
              [draft.ctrs[c] EXCEPT !.busy = NotBusy] = [ctrs[c] EXCEPT !.busy = NotBusy]
        /\ at = "LOGS_FETCH" => draft.podst = podst

(* The recorded hash speaks of the containers shown: it is set exactly     *)
(* while the containers count as OK, and it is then the hash of an answer  *)
(* that lists them as the view shows them.  Else an answer could be taken  *)
(* for known that the view never showed.                                   *)
ContainersCoherent ==
    /\ cstate = "OK" <=> hash.containers # 0
    /\ hash.containers # 0 =>
          \E skipped \in SUBSET Nameless : \E up \in [skipped -> BOOLEAN] :
             hash.containers = Hash({[id |-> c, run |-> ctrs[c].run] : c \in DOMAIN ctrs}
                                    \cup {[id |-> c, run |-> up[c]] : c \in skipped})

(* Only a command for a container by its name starts or prolongs its busy  *)
(* mark: no refresh, no write-back of an older copy and no cycle makes a   *)
(* countdown longer.                                                       *)
OnlyExecArms ==
    [][\A c \in DOMAIN ctrs' :
          ctrs'[c].busy.count > (IF c \in DOMAIN ctrs THEN ctrs[c].busy.count ELSE 0)
          => \E v \in BusyValue : SetBusy(NameOf[c], v)]_podmanVars

(* "warning, found pod details for unknown pod with id" is what            *)
(* podman_pod.cpp:77 logs of a pod the view lacks, a condition it goes on  *)
(* from: meeting such a pod does not kill the daemon.                      *)
UnknownPodOnlyWarns == Alive
=============================================================================
