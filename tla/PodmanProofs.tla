---------------------------- MODULE PodmanProofs ----------------------------
(***************************************************************************)
(* Theorems about Podman, for every engine: any containers, pods and       *)
(* networks, any sums of characters, any failures and any number of        *)
(* changes.                                                                *)
(*                                                                         *)
(* The inductive invariant PodmanInv adds to the types and to              *)
(* SnapshotCurrent the shape of the draft, what is known of the engine,    *)
(* and DraftNotAhead, the reason why no write-back prolongs a mark.        *)
(***************************************************************************)
EXTENDS Podman, FoldLemmas

Copying == {"PODS_PUBLISH", "LOGS_FETCH"}

EngineTypeOK ==
    /\ DOMAIN ectr \subseteq Ctr /\ ectr \in [DOMAIN ectr -> BOOLEAN]
    /\ epod \subseteq Pod /\ enet \subseteq Net

DraftTypeOK ==
    /\ DOMAIN draft = {"ctrs", "podst", "todo", "hash"}
    /\ at = "CONTAINERS_PARSE" => draft.todo \subseteq DOMAIN draft.ctrs

CountIn(cs, c) == IF c \in DOMAIN cs THEN cs[c].busy.count ELSE 0

(* No mark of a copy in progress has a longer countdown than the mark of   *)
(* the same container in the view.                                         *)
DraftNotAhead ==
    at \in Copying \cup {"CONTAINERS_PARSE"} =>
        \A c \in DOMAIN draft.ctrs : draft.ctrs[c].busy.count <= CountIn(ctrs, c)

PodmanInv ==
    /\ PodmanTypeOK
    /\ EngineTypeOK
    /\ DraftTypeOK
    /\ SnapshotCurrent
    /\ DraftNotAhead

-----------------------------------------------------------------------------
(* The empty map of a view or draft without containers.                    *)
LEMMA EmptyMap == DOMAIN <<>> = {} /\ (\A S : <<>> \in [{} -> S])
  OBVIOUS

LEMMA NoDraftType ==
    /\ NoDraft.ctrs = <<>> /\ NoDraft.podst = <<>>
    /\ DOMAIN NoDraft = {"ctrs", "podst", "todo", "hash"}
    /\ DOMAIN NoDraft.ctrs = {} /\ (\A S : NoDraft.ctrs \in [{} -> S])
  BY EmptyMap DEF NoDraft

(* A mark is a value with a countdown that fits, when it is set, when it   *)
(* is counted down and when there is none; a cycle never prolongs it.      *)
LEMMA BusyTypes ==
    /\ NotBusy \in Busy /\ NotBusy.count = 0
    /\ \A v \in BusyValue : Assign(v) \in Busy
    /\ \A b \in Busy : Cycle(b) \in Busy /\ Cycle(b).count <= b.count
  BY BusyAssumption DEF NotBusy, Busy, BusyValue, Assign, Cycle

(* What the records of containers are made of.                             *)
LEMMA CtrRecordTypes ==
    /\ \A r \in CtrRecord : /\ ParseStats(r) \in CtrRecord
                            /\ [r EXCEPT !.busy = Cycle(@)] \in CtrRecord
                            /\ [r EXCEPT !.logs = "infra"] \in CtrRecord
                            /\ [r EXCEPT !.logs = "text"] \in CtrRecord
                            /\ r.busy.count \in 0 .. BUSY_COUNTDOWN_CYCLES
    /\ \A new, known \in CtrRecord : CopyDetails(new, known) \in CtrRecord
    /\ \A r \in CtrRecord, v \in BusyValue : [r EXCEPT !.busy = Assign(v)] \in CtrRecord
  BY BusyTypes DEF CtrRecord, ParseStats, CopyDetails, Busy

(* A container seen for the first time has no mark.                        *)
LEMMA NewCtrTypes ==
    EngineTypeOK => \A c \in DOMAIN ectr : NewCtr(c) \in CtrRecord /\ NewCtr(c).busy.count = 0
  BY BusyTypes DEF NewCtr, EngineTypeOK, CtrRecord

(* The view is not ahead of itself, and counts are numbers.                *)
LEMMA ViewCounts ==
    PodmanTypeOK => /\ \A c : CountIn(ctrs, c) \in Nat
                    /\ \A c \in DOMAIN ctrs : ctrs[c].busy.count <= CountIn(ctrs, c)
<1> SUFFICES ASSUME PodmanTypeOK PROVE /\ \A c : CountIn(ctrs, c) \in Nat
                                      /\ \A c \in DOMAIN ctrs : ctrs[c].busy.count <= CountIn(ctrs, c)
  OBVIOUS
<1>1. \A c \in DOMAIN ctrs : ctrs[c].busy.count \in Nat
  <2>1. \A c \in DOMAIN ctrs : ctrs[c] \in CtrRecord
    BY DEF PodmanTypeOK
  <2> QED
    BY <2>1, BusyAssumption DEF CtrRecord, Busy
<1> QED
  BY <1>1 DEF CountIn
-----------------------------------------------------------------------------
LEMMA InitPodmanInv == PodmanInit => PodmanInv
<1> SUFFICES ASSUME PodmanInit PROVE PodmanInv
  OBVIOUS
<1>1. EngineTypeOK
  BY DEF PodmanInit, EngineInit, EngineTypeOK
<1>2. PodmanTypeOK
  BY NoDraftType, EmptyMap DEF PodmanInit, ViewInit, PodmanTypeOK, PodsOf
<1>3. DraftTypeOK /\ SnapshotCurrent /\ DraftNotAhead
  BY NoDraftType DEF PodmanInit, DraftTypeOK, SnapshotCurrent, DraftNotAhead, Copying
<1> QED
  BY <1>1, <1>2, <1>3 DEF PodmanInv

LEMMA UpdateSystemInv == PodmanInv /\ UpdateSystem => PodmanInv'
<1> SUFFICES ASSUME PodmanInv, UpdateSystem PROVE PodmanInv'
  OBVIOUS
<1> USE DEF PodmanInv, UpdateSystem, Done, UpdateOps, Copying, engine, view
<1>1. PodmanTypeOK'
  BY NoDraftType DEF PodmanTypeOK, EngineTypeOK
<1>2. EngineTypeOK' /\ DraftTypeOK'
  BY NoDraftType DEF EngineTypeOK, DraftTypeOK
<1>3. SnapshotCurrent'
  BY DEF PodmanTypeOK, SnapshotCurrent
<1>4. DraftNotAhead'
  BY NoDraftType, CtrRecordTypes DEF PodmanTypeOK, DraftNotAhead, SnapshotCurrent, CountIn, DraftTypeOK, EngineTypeOK
<1> QED
  BY <1>1, <1>2, <1>3, <1>4

LEMMA UpdateNetworksInv == PodmanInv /\ UpdateNetworks => PodmanInv'
<1> SUFFICES ASSUME PodmanInv, UpdateNetworks PROVE PodmanInv'
  OBVIOUS
<1> USE DEF PodmanInv, UpdateNetworks, Done, UpdateOps, Copying, engine, view
<1>1. PodmanTypeOK'
  BY NoDraftType DEF PodmanTypeOK, EngineTypeOK
<1>2. EngineTypeOK' /\ DraftTypeOK'
  BY NoDraftType DEF EngineTypeOK, DraftTypeOK
<1>3. SnapshotCurrent'
  BY DEF PodmanTypeOK, SnapshotCurrent
<1>4. DraftNotAhead'
  BY NoDraftType, CtrRecordTypes DEF PodmanTypeOK, DraftNotAhead, SnapshotCurrent, CountIn, DraftTypeOK, EngineTypeOK
<1> QED
  BY <1>1, <1>2, <1>3, <1>4

LEMMA ContainersLockInv == PodmanInv /\ ContainersLock => PodmanInv'
<1> SUFFICES ASSUME PodmanInv, ContainersLock PROVE PodmanInv'
  OBVIOUS
<1> USE DEF PodmanInv, ContainersLock, Done, UpdateOps, Copying, engine, view
<1>1. PodmanTypeOK'
  BY NoDraftType DEF PodmanTypeOK, EngineTypeOK
<1>2. EngineTypeOK' /\ DraftTypeOK'
  BY NoDraftType DEF EngineTypeOK, DraftTypeOK
<1>3. SnapshotCurrent'
  BY DEF PodmanTypeOK, SnapshotCurrent
<1>4. DraftNotAhead'
  BY NoDraftType, CtrRecordTypes DEF PodmanTypeOK, DraftNotAhead, SnapshotCurrent, CountIn, DraftTypeOK, EngineTypeOK
<1> QED
  BY <1>1, <1>2, <1>3, <1>4

LEMMA ContainersReplyInv == PodmanInv /\ ContainersReply => PodmanInv'
<1> SUFFICES ASSUME PodmanInv, ContainersReply PROVE PodmanInv'
  OBVIOUS
<1> USE DEF PodmanInv, ContainersReply, Done, UpdateOps, Copying, engine, view
<1>0. \/ at' = "idle" /\ draft' = NoDraft
      \/ /\ at' = "CONTAINERS_PARSE"
         /\ draft'.ctrs = [c \in DOMAIN ectr \ Nameless |-> NewCtr(c)]
  OBVIOUS
<1>1. PodmanTypeOK'
  <2>1. status' \in {"UNKNOWN", "RUNNING"} /\ (podman' = IF at' = "CONTAINERS_REPLY" THEN "loop" ELSE "free")
        /\ DOMAIN nets' \subseteq Net /\ (DOMAIN hash)' = {"networks", "pods", "containers"}
        /\ cstate' \in {"INCOMPLETE", "OK"} /\ ret' \in BOOLEAN
        /\ at' \in UpdateOps \cup {"idle", "CONTAINERS_REPLY", "CONTAINERS_PARSE", "PODS_PUBLISH", "LOGS_FETCH", "crashed"}
    BY NoDraftType DEF PodmanTypeOK, DraftTypeOK, SnapshotCurrent
  <2>2. DOMAIN ctrs' \subseteq Ctr /\ ctrs' \in [DOMAIN ctrs' -> CtrRecord]
    BY NoDraftType, CtrRecordTypes DEF PodmanTypeOK, DraftTypeOK, EngineTypeOK
  <2>3. podst' \in [PodsOf(DOMAIN ctrs') -> PodStatuses]
    BY NoDraftType DEF PodmanTypeOK, DraftTypeOK, SnapshotCurrent, PodsOf, PodStatus, PodStatuses
  <2>4. DOMAIN draft'.ctrs \subseteq Ctr /\ draft'.ctrs \in [DOMAIN draft'.ctrs -> CtrRecord]
    <3>1. CASE draft' = NoDraft
      BY <3>1, NoDraftType
    <3>2. CASE draft'.ctrs = [c \in DOMAIN ectr \ Nameless |-> NewCtr(c)]
      <4>1. DOMAIN ectr \subseteq Ctr /\ \A c \in DOMAIN ectr : NewCtr(c) \in CtrRecord
        BY NewCtrTypes DEF EngineTypeOK
      <4> QED
        BY ONLY <3>2, <4>1
    <3> QED
      BY ONLY <1>0, <3>1, <3>2
  <2>5. at' \in {"PODS_PUBLISH", "LOGS_FETCH"} => draft'.podst \in [PodsOf(DOMAIN draft'.ctrs) -> PodStatuses]
    BY NoDraftType DEF PodmanTypeOK, DraftTypeOK, SnapshotCurrent, EngineTypeOK, PodStatus, PodStatuses, PodsOf
  <2> QED
    BY <2>1, <2>2, <2>3, <2>4, <2>5 DEF PodmanTypeOK
<1>2. EngineTypeOK' /\ DraftTypeOK'
  BY NoDraftType DEF EngineTypeOK, DraftTypeOK
<1>3. SnapshotCurrent'
  BY DEF PodmanTypeOK, SnapshotCurrent
<1>4. DraftNotAhead'
  <2>1. CASE at' = "idle"
    BY <2>1 DEF DraftNotAhead
  <2>2. CASE at' # "idle"
    <3>1. \A c \in DOMAIN draft'.ctrs : draft'.ctrs[c].busy.count = 0
      BY <1>0, <2>2, NewCtrTypes
    <3> QED
      BY <3>1, ViewCounts DEF DraftNotAhead, CountIn
  <2> QED
    BY <2>1, <2>2
<1> QED
  BY <1>1, <1>2, <1>3, <1>4

LEMMA ContainersPublishInv == PodmanInv /\ ContainersPublish => PodmanInv'
<1> SUFFICES ASSUME PodmanInv, ContainersPublish PROVE PodmanInv'
  OBVIOUS
<1> USE DEF PodmanInv, ContainersPublish, Done, UpdateOps, Copying, engine, view
<1>1. PodmanTypeOK'
  BY NoDraftType, CtrRecordTypes, EmptyMap DEF PodmanTypeOK, EngineTypeOK, DraftTypeOK, SnapshotCurrent, CtrRecord, PodStatuses, PodsOf, PodStatus
<1>2. EngineTypeOK' /\ DraftTypeOK'
  BY NoDraftType DEF EngineTypeOK, DraftTypeOK
<1>3. SnapshotCurrent'
  BY DEF PodmanTypeOK, SnapshotCurrent
<1>4. DraftNotAhead'
  BY NoDraftType, CtrRecordTypes DEF PodmanTypeOK, DraftNotAhead, SnapshotCurrent, CountIn, DraftTypeOK, EngineTypeOK
<1> QED
  BY <1>1, <1>2, <1>3, <1>4

LEMMA PodsPollInv == PodmanInv /\ PodsPoll => PodmanInv'
<1> SUFFICES ASSUME PodmanInv, PodsPoll PROVE PodmanInv'
  OBVIOUS
<1> USE DEF PodmanInv, PodsPoll, Done, UpdateOps, Copying, engine, view
<1>0. \/ at' = "idle" /\ draft' = NoDraft
      \/ /\ at' = "PODS_PUBLISH"
         /\ draft'.ctrs = ctrs
         /\ draft'.podst = [p \in DOMAIN podst |-> IF p \in epod THEN PodStatus(p) ELSE podst[p]]
  OBVIOUS
<1>1. PodmanTypeOK'
  <2>1. status' \in {"UNKNOWN", "RUNNING"} /\ (podman' = IF at' = "CONTAINERS_REPLY" THEN "loop" ELSE "free")
        /\ DOMAIN nets' \subseteq Net /\ (DOMAIN hash)' = {"networks", "pods", "containers"}
        /\ cstate' \in {"INCOMPLETE", "OK"} /\ ret' \in BOOLEAN
        /\ at' \in UpdateOps \cup {"idle", "CONTAINERS_REPLY", "CONTAINERS_PARSE", "PODS_PUBLISH", "LOGS_FETCH", "crashed"}
    BY NoDraftType DEF PodmanTypeOK, DraftTypeOK, SnapshotCurrent
  <2>2. DOMAIN ctrs' \subseteq Ctr /\ ctrs' \in [DOMAIN ctrs' -> CtrRecord]
    BY NoDraftType, CtrRecordTypes DEF PodmanTypeOK, DraftTypeOK, EngineTypeOK
  <2>3. podst' \in [PodsOf(DOMAIN ctrs') -> PodStatuses]
    BY NoDraftType DEF PodmanTypeOK, DraftTypeOK, SnapshotCurrent, PodsOf, PodStatus, PodStatuses
  <2>4. DOMAIN draft'.ctrs \subseteq Ctr /\ draft'.ctrs \in [DOMAIN draft'.ctrs -> CtrRecord]
    BY <1>0, NoDraftType, CtrRecordTypes DEF PodmanTypeOK, EngineTypeOK
  <2>5. at' \in {"PODS_PUBLISH", "LOGS_FETCH"} => draft'.podst \in [PodsOf(DOMAIN draft'.ctrs) -> PodStatuses]
    BY <1>0 DEF PodmanTypeOK, PodStatus, PodStatuses
  <2> QED
    BY <2>1, <2>2, <2>3, <2>4, <2>5 DEF PodmanTypeOK
<1>2. EngineTypeOK' /\ DraftTypeOK'
  BY NoDraftType DEF EngineTypeOK, DraftTypeOK
<1>3. SnapshotCurrent'
  BY DEF PodmanTypeOK, SnapshotCurrent
<1>4. DraftNotAhead'
  BY <1>0, ViewCounts DEF DraftNotAhead, CountIn
<1> QED
  BY <1>1, <1>2, <1>3, <1>4

LEMMA PodsPublishInv == PodmanInv /\ PodsPublish => PodmanInv'
<1> SUFFICES ASSUME PodmanInv, PodsPublish PROVE PodmanInv'
  OBVIOUS
<1> USE DEF PodmanInv, PodsPublish, Done, UpdateOps, Copying, engine, view
<1>1. PodmanTypeOK'
  <2>1. status' \in {"UNKNOWN", "RUNNING"} /\ (podman' = IF at' = "CONTAINERS_REPLY" THEN "loop" ELSE "free")
        /\ DOMAIN nets' \subseteq Net /\ (DOMAIN hash)' = {"networks", "pods", "containers"}
        /\ cstate' \in {"INCOMPLETE", "OK"} /\ ret' \in BOOLEAN
        /\ at' \in UpdateOps \cup {"idle", "CONTAINERS_REPLY", "CONTAINERS_PARSE", "PODS_PUBLISH", "LOGS_FETCH", "crashed"}
    BY NoDraftType DEF PodmanTypeOK, DraftTypeOK, SnapshotCurrent
  <2>2. DOMAIN ctrs' \subseteq Ctr /\ ctrs' \in [DOMAIN ctrs' -> CtrRecord]
    BY NoDraftType, CtrRecordTypes DEF PodmanTypeOK, DraftTypeOK, EngineTypeOK
  <2>3. podst' \in [PodsOf(DOMAIN ctrs') -> PodStatuses]
    BY NoDraftType DEF PodmanTypeOK, DraftTypeOK, SnapshotCurrent, PodsOf, PodStatus, PodStatuses
  <2>4. DOMAIN draft'.ctrs \subseteq Ctr /\ draft'.ctrs \in [DOMAIN draft'.ctrs -> CtrRecord]
    BY NoDraftType, CtrRecordTypes DEF PodmanTypeOK, DraftTypeOK, EngineTypeOK
  <2>5. at' \in {"PODS_PUBLISH", "LOGS_FETCH"} => draft'.podst \in [PodsOf(DOMAIN draft'.ctrs) -> PodStatuses]
    BY NoDraftType DEF PodmanTypeOK, DraftTypeOK, SnapshotCurrent, EngineTypeOK, PodStatus, PodStatuses, PodsOf
  <2> QED
    BY <2>1, <2>2, <2>3, <2>4, <2>5 DEF PodmanTypeOK
<1>2. EngineTypeOK' /\ DraftTypeOK'
  BY NoDraftType DEF EngineTypeOK, DraftTypeOK
<1>3. SnapshotCurrent'
  BY DEF PodmanTypeOK, SnapshotCurrent
<1>4. DraftNotAhead'
  BY NoDraftType, CtrRecordTypes DEF PodmanTypeOK, DraftNotAhead, SnapshotCurrent, CountIn, DraftTypeOK, EngineTypeOK
<1> QED
  BY <1>1, <1>2, <1>3, <1>4

LEMMA UpdateStatsInv == PodmanInv /\ UpdateStats => PodmanInv'
<1> SUFFICES ASSUME PodmanInv, UpdateStats PROVE PodmanInv'
  OBVIOUS
<1> USE DEF PodmanInv, UpdateStats, Done, UpdateOps, Copying, engine, view
<1>1. PodmanTypeOK'
  <2>1. status' \in {"UNKNOWN", "RUNNING"} /\ (podman' = IF at' = "CONTAINERS_REPLY" THEN "loop" ELSE "free")
        /\ DOMAIN nets' \subseteq Net /\ (DOMAIN hash)' = {"networks", "pods", "containers"}
        /\ cstate' \in {"INCOMPLETE", "OK"} /\ ret' \in BOOLEAN
        /\ at' \in UpdateOps \cup {"idle", "CONTAINERS_REPLY", "CONTAINERS_PARSE", "PODS_PUBLISH", "LOGS_FETCH", "crashed"}
    BY NoDraftType DEF PodmanTypeOK, DraftTypeOK, SnapshotCurrent
  <2>2. DOMAIN ctrs' \subseteq Ctr /\ ctrs' \in [DOMAIN ctrs' -> CtrRecord]
    <3>1. PICK got : ctrs' = [c \in DOMAIN ctrs |-> IF c \in got THEN ParseStats(ctrs[c]) ELSE ctrs[c]]
      OBVIOUS
    <3> QED
      BY <3>1, CtrRecordTypes DEF PodmanTypeOK
  <2>3. podst' \in [PodsOf(DOMAIN ctrs') -> PodStatuses]
    BY NoDraftType DEF PodmanTypeOK, DraftTypeOK, SnapshotCurrent, PodsOf, PodStatus, PodStatuses
  <2>4. DOMAIN draft'.ctrs \subseteq Ctr /\ draft'.ctrs \in [DOMAIN draft'.ctrs -> CtrRecord]
    BY NoDraftType, CtrRecordTypes DEF PodmanTypeOK, DraftTypeOK, EngineTypeOK
  <2>5. at' \in {"PODS_PUBLISH", "LOGS_FETCH"} => draft'.podst \in [PodsOf(DOMAIN draft'.ctrs) -> PodStatuses]
    BY NoDraftType DEF PodmanTypeOK, DraftTypeOK, SnapshotCurrent, EngineTypeOK, PodStatus, PodStatuses, PodsOf
  <2> QED
    BY <2>1, <2>2, <2>3, <2>4, <2>5 DEF PodmanTypeOK
<1>2. EngineTypeOK' /\ DraftTypeOK'
  BY NoDraftType DEF EngineTypeOK, DraftTypeOK
<1>3. SnapshotCurrent'
  BY DEF PodmanTypeOK, SnapshotCurrent
<1>4. DraftNotAhead'
  BY NoDraftType, CtrRecordTypes DEF PodmanTypeOK, DraftNotAhead, SnapshotCurrent, CountIn, DraftTypeOK, EngineTypeOK
<1> QED
  BY <1>1, <1>2, <1>3, <1>4

LEMMA LogsSnapshotInv == PodmanInv /\ LogsSnapshot => PodmanInv'
<1> SUFFICES ASSUME PodmanInv, LogsSnapshot PROVE PodmanInv'
  OBVIOUS
<1> USE DEF PodmanInv, LogsSnapshot, Done, UpdateOps, Copying, engine, view
<1>0. \/ at' = "idle" /\ draft' = NoDraft
      \/ at' = "LOGS_FETCH" /\ draft'.ctrs = ctrs /\ draft'.podst = podst
  BY NoDraftType
<1>1. PodmanTypeOK'
  <2>1. status' \in {"UNKNOWN", "RUNNING"} /\ (podman' = IF at' = "CONTAINERS_REPLY" THEN "loop" ELSE "free")
        /\ DOMAIN nets' \subseteq Net /\ (DOMAIN hash)' = {"networks", "pods", "containers"}
        /\ cstate' \in {"INCOMPLETE", "OK"} /\ ret' \in BOOLEAN
        /\ at' \in UpdateOps \cup {"idle", "CONTAINERS_REPLY", "CONTAINERS_PARSE", "PODS_PUBLISH", "LOGS_FETCH", "crashed"}
    BY NoDraftType DEF PodmanTypeOK, DraftTypeOK, SnapshotCurrent
  <2>2. DOMAIN ctrs' \subseteq Ctr /\ ctrs' \in [DOMAIN ctrs' -> CtrRecord]
    BY NoDraftType, CtrRecordTypes DEF PodmanTypeOK, DraftTypeOK, EngineTypeOK
  <2>3. podst' \in [PodsOf(DOMAIN ctrs') -> PodStatuses]
    BY NoDraftType DEF PodmanTypeOK, DraftTypeOK, SnapshotCurrent, PodsOf, PodStatus, PodStatuses
  <2>4. DOMAIN draft'.ctrs \subseteq Ctr /\ draft'.ctrs \in [DOMAIN draft'.ctrs -> CtrRecord]
    BY NoDraftType, CtrRecordTypes DEF PodmanTypeOK, DraftTypeOK, EngineTypeOK
  <2>5. at' \in {"PODS_PUBLISH", "LOGS_FETCH"} => draft'.podst \in [PodsOf(DOMAIN draft'.ctrs) -> PodStatuses]
    BY NoDraftType DEF PodmanTypeOK, DraftTypeOK, SnapshotCurrent, EngineTypeOK, PodStatus, PodStatuses, PodsOf
  <2> QED
    BY <2>1, <2>2, <2>3, <2>4, <2>5 DEF PodmanTypeOK
<1>2. EngineTypeOK' /\ DraftTypeOK'
  BY NoDraftType DEF EngineTypeOK, DraftTypeOK
<1>3. SnapshotCurrent'
  BY <1>0 DEF PodmanTypeOK, SnapshotCurrent
<1>4. DraftNotAhead'
  BY <1>0, ViewCounts DEF DraftNotAhead, CountIn
<1> QED
  BY <1>1, <1>2, <1>3, <1>4

LEMMA LogsPublishInv == PodmanInv /\ LogsPublish => PodmanInv'
<1> SUFFICES ASSUME PodmanInv, LogsPublish PROVE PodmanInv'
  OBVIOUS
<1> USE DEF PodmanInv, LogsPublish, Done, UpdateOps, Copying, engine, view
<1>1. PodmanTypeOK'
  <2>1. status' \in {"UNKNOWN", "RUNNING"} /\ (podman' = IF at' = "CONTAINERS_REPLY" THEN "loop" ELSE "free")
        /\ DOMAIN nets' \subseteq Net /\ (DOMAIN hash)' = {"networks", "pods", "containers"}
        /\ cstate' \in {"INCOMPLETE", "OK"} /\ ret' \in BOOLEAN
        /\ at' \in UpdateOps \cup {"idle", "CONTAINERS_REPLY", "CONTAINERS_PARSE", "PODS_PUBLISH", "LOGS_FETCH", "crashed"}
    BY NoDraftType DEF PodmanTypeOK, DraftTypeOK, SnapshotCurrent
  <2>2. DOMAIN ctrs' \subseteq Ctr /\ ctrs' \in [DOMAIN ctrs' -> CtrRecord]
    <3>1. CASE ctrs' = ctrs
      BY <3>1 DEF PodmanTypeOK
    <3>2. CASE \E silent \in SUBSET DOMAIN draft.ctrs :
                 ctrs' = [c \in DOMAIN draft.ctrs |->
                     CASE c \in Infra                  -> [draft.ctrs[c] EXCEPT !.logs = "infra"]
                       [] HasLog(c) /\ c \notin silent -> [draft.ctrs[c] EXCEPT !.logs = "text"]
                       [] OTHER                        -> draft.ctrs[c]]
      <4>1. \A c \in DOMAIN draft.ctrs : draft.ctrs[c] \in CtrRecord
        BY DEF PodmanTypeOK
      <4>2. \A c \in DOMAIN draft.ctrs : ctrs'[c] \in CtrRecord
        BY <3>2, <4>1, CtrRecordTypes
      <4>3. DOMAIN ctrs' = DOMAIN draft.ctrs /\ ctrs' = [c \in DOMAIN draft.ctrs |-> ctrs'[c]]
        BY <3>2
      <4> QED
        BY <4>2, <4>3 DEF PodmanTypeOK
    <3> QED
      BY <3>1, <3>2
  <2>3. podst' \in [PodsOf(DOMAIN ctrs') -> PodStatuses]
    BY NoDraftType DEF PodmanTypeOK, DraftTypeOK, SnapshotCurrent, PodsOf, PodStatus, PodStatuses
  <2>4. DOMAIN draft'.ctrs \subseteq Ctr /\ draft'.ctrs \in [DOMAIN draft'.ctrs -> CtrRecord]
    BY NoDraftType, CtrRecordTypes DEF PodmanTypeOK, DraftTypeOK, EngineTypeOK
  <2>5. at' \in {"PODS_PUBLISH", "LOGS_FETCH"} => draft'.podst \in [PodsOf(DOMAIN draft'.ctrs) -> PodStatuses]
    BY NoDraftType DEF PodmanTypeOK, DraftTypeOK, SnapshotCurrent, EngineTypeOK, PodStatus, PodStatuses, PodsOf
  <2> QED
    BY <2>1, <2>2, <2>3, <2>4, <2>5 DEF PodmanTypeOK
<1>2. EngineTypeOK' /\ DraftTypeOK'
  BY NoDraftType DEF EngineTypeOK, DraftTypeOK
<1>3. SnapshotCurrent'
  BY DEF PodmanTypeOK, SnapshotCurrent
<1>4. DraftNotAhead'
  BY NoDraftType, CtrRecordTypes DEF PodmanTypeOK, DraftNotAhead, SnapshotCurrent, CountIn, DraftTypeOK, EngineTypeOK
<1> QED
  BY <1>1, <1>2, <1>3, <1>4

LEMMA BusyCyclesInv == PodmanInv /\ BusyCycles => PodmanInv'
<1> SUFFICES ASSUME PodmanInv, BusyCycles PROVE PodmanInv'
  OBVIOUS
<1> USE DEF PodmanInv, BusyCycles, Done, UpdateOps, Copying, engine, view
<1>1. PodmanTypeOK'
  BY NoDraftType, CtrRecordTypes, EmptyMap DEF PodmanTypeOK, EngineTypeOK, DraftTypeOK, SnapshotCurrent, CtrRecord, PodStatuses, PodsOf, PodStatus
<1>2. EngineTypeOK' /\ DraftTypeOK'
  BY NoDraftType DEF EngineTypeOK, DraftTypeOK
<1>3. SnapshotCurrent'
  BY DEF PodmanTypeOK, SnapshotCurrent
<1>4. DraftNotAhead'
  BY NoDraftType, CtrRecordTypes DEF PodmanTypeOK, DraftNotAhead, SnapshotCurrent, CountIn, DraftTypeOK, EngineTypeOK
<1> QED
  BY <1>1, <1>2, <1>3, <1>4

LEMMA ContainersCopyInv == PodmanInv /\ (\E c \in Ctr : ContainersCopy(c)) => PodmanInv'
<1> SUFFICES ASSUME PodmanInv, NEW c \in Ctr, ContainersCopy(c) PROVE PodmanInv'
  OBVIOUS
<1> USE DEF PodmanInv, engine, view, Copying
<1>1. /\ at = "CONTAINERS_PARSE" /\ at' = at /\ ctrs' = ctrs /\ c \in DOMAIN draft.ctrs
      /\ draft'.todo = draft.todo \ {c} /\ draft'.hash = draft.hash /\ draft'.podst = draft.podst
      /\ DOMAIN draft' = {"ctrs", "podst", "todo", "hash"}
      /\ draft'.ctrs = [draft.ctrs EXCEPT ![c] = IF c \in DOMAIN ctrs THEN CopyDetails(@, ctrs[c]) ELSE @]
  BY DEF ContainersCopy, DraftTypeOK
<1>2. \A d \in DOMAIN draft.ctrs : draft.ctrs[d] \in CtrRecord
  BY DEF PodmanTypeOK
<1>3. c \in DOMAIN ctrs => /\ ctrs[c] \in CtrRecord
                           /\ CopyDetails(draft.ctrs[c], ctrs[c]) \in CtrRecord
                           /\ CopyDetails(draft.ctrs[c], ctrs[c]).busy = ctrs[c].busy
  <2>1. c \in DOMAIN ctrs => ctrs[c] \in CtrRecord
    BY DEF PodmanTypeOK
  <2> QED
    BY <1>1, <1>2, <2>1, CtrRecordTypes DEF CopyDetails, CtrRecord
<1>4. PodmanTypeOK'
  <2>1. DOMAIN draft'.ctrs = DOMAIN draft.ctrs /\ draft'.ctrs \in [DOMAIN draft'.ctrs -> CtrRecord]
    BY <1>1, <1>2, <1>3
  <2> QED
    BY <1>1, <2>1 DEF PodmanTypeOK, ContainersCopy
<1>5. EngineTypeOK' /\ DraftTypeOK' /\ SnapshotCurrent'
  BY <1>1 DEF EngineTypeOK, DraftTypeOK, SnapshotCurrent, ContainersCopy
<1>6. DraftNotAhead'
  <2>1. \A d \in DOMAIN draft'.ctrs : draft'.ctrs[d].busy.count <= CountIn(ctrs, d)
    <3> SUFFICES ASSUME NEW d \in DOMAIN draft'.ctrs
                 PROVE  draft'.ctrs[d].busy.count <= CountIn(ctrs, d)
      OBVIOUS
    <3>1. CASE d = c /\ c \in DOMAIN ctrs
      <4>1. draft'.ctrs[d].busy = ctrs[d].busy
        BY <1>1, <1>3, <3>1
      <4> QED
        BY <3>1, <4>1, ViewCounts
    <3>2. CASE ~(d = c /\ c \in DOMAIN ctrs)
      <4>1. d \in DOMAIN draft.ctrs /\ draft'.ctrs[d] = draft.ctrs[d]
        BY <1>1, <3>2
      <4> QED
        BY <1>1, <4>1 DEF DraftNotAhead
    <3> QED
      BY <3>1, <3>2
  <2> QED
    BY <1>1, <2>1 DEF DraftNotAhead, CountIn
<1> QED
  BY <1>4, <1>5, <1>6

(* A handler marks one container of the name, or none.                     *)
LEMMA MarksOne ==
    ASSUME NEW name, NEW v, SetBusy(name, v)
    PROVE  \/ ctrs' = ctrs
           \/ \E b \in DOMAIN ctrs : /\ NameOf[b] = name
                                     /\ ctrs' = [ctrs EXCEPT ![b].busy = Assign(v)]
  BY DEF SetBusy

(* A handler's mark disturbs no copy: it is what SnapshotCurrent lets a    *)
(* copy miss, and its countdown is the longest there is.                   *)
LEMMA SetBusyInv ==
    ASSUME PodmanInv, NEW name, NEW v \in BusyValue \ {"NONE"}, SetBusy(name, v)
    PROVE  PodmanInv'
<1> USE DEF PodmanInv, engine, view, Copying
<1>1. CASE ctrs' = ctrs
  BY <1>1 DEF SetBusy, PodmanTypeOK, EngineTypeOK, DraftTypeOK, SnapshotCurrent, DraftNotAhead, CountIn
<1>2. ASSUME NEW b \in DOMAIN ctrs, ctrs' = [ctrs EXCEPT ![b].busy = Assign(v)]
      PROVE  PodmanInv'
  <2>1. /\ ctrs' = [ctrs EXCEPT ![b].busy = Assign(v)]
        /\ at' = at /\ draft' = draft /\ DOMAIN ctrs' = DOMAIN ctrs
    BY <1>2 DEF SetBusy
  <2>2. \A c \in DOMAIN ctrs : ctrs[c] \in CtrRecord
    BY DEF PodmanTypeOK
  <2>3. \A c \in DOMAIN ctrs : c # b => ctrs'[c] = ctrs[c]
    BY <2>1
  <2>4. ctrs'[b] = [ctrs[b] EXCEPT !.busy = Assign(v)]
    BY <1>2, <2>1
  <2>5. \A c \in DOMAIN ctrs : ctrs'[c] \in CtrRecord
    BY <1>2, <2>2, <2>3, <2>4, CtrRecordTypes
  <2>6. PodmanTypeOK'
    <3>1. ctrs' \in [DOMAIN ctrs' -> CtrRecord]
      BY <2>1, <2>5
    <3> QED
      BY <2>1, <3>1 DEF PodmanTypeOK, SetBusy
  <2>7. SnapshotCurrent'
    <3>1. \A c \in DOMAIN ctrs :
             [ctrs'[c] EXCEPT !.busy = NotBusy] = [ctrs[c] EXCEPT !.busy = NotBusy]
      <4>1. [ctrs'[b] EXCEPT !.busy = NotBusy] = [ctrs[b] EXCEPT !.busy = NotBusy]
        BY <1>2, <2>2, <2>4 DEF CtrRecord
      <4> QED
        BY <2>3, <4>1
    <3> QED
      BY <2>1, <3>1 DEF SnapshotCurrent, SetBusy
  <2>8. DraftNotAhead'
    <3>1. Assign(v).count = BUSY_COUNTDOWN_CYCLES
      BY DEF Assign
    <3>2. ctrs'[b].busy.count = BUSY_COUNTDOWN_CYCLES
      BY <1>2, <2>2, <2>4, <3>1 DEF CtrRecord
    <3>3. \A c \in DOMAIN draft.ctrs : draft.ctrs[c].busy.count \in 0 .. BUSY_COUNTDOWN_CYCLES
      <4>1. \A c \in DOMAIN draft.ctrs : draft.ctrs[c] \in CtrRecord
        BY DEF PodmanTypeOK
      <4> QED
        BY <4>1 DEF CtrRecord, Busy
    <3>4. \A c : c # b => CountIn(ctrs', c) = CountIn(ctrs, c)
      BY <2>1, <2>3 DEF CountIn
    <3>5. \A c \in DOMAIN draft.ctrs :
             c = b => draft.ctrs[c].busy.count <= CountIn(ctrs', c)
      BY <1>2, <2>1, <3>2, <3>3, BusyAssumption DEF CountIn
    <3> QED
      BY <2>1, <3>4, <3>5 DEF DraftNotAhead
  <2> QED
    BY <2>1, <2>6, <2>7, <2>8 DEF SetBusy, EngineTypeOK, DraftTypeOK
<1> QED
  BY <1>1, <1>2, MarksOne

(* What happens at the engine or before a call leaves the view alone.      *)
LEMMA OutsideInv ==
    ASSUME PodmanInv, Engine \/ (\E op \in UpdateOps : Call(op)) \/ UNCHANGED podmanVars
    PROVE  PodmanInv'
<1> USE DEF PodmanInv, engine, view, Copying
<1>1. CASE Engine
  <2>1. EngineTypeOK'
    BY <1>1 DEF Engine, EngineRun, EngineContainer, EnginePod, EngineNetwork, EngineTypeOK
  <2>2. UNCHANGED <<view, podman, at, ret, draft>>
    BY <1>1 DEF Engine, EngineRun, EngineContainer, EnginePod, EngineNetwork, Event
  <2> QED
    BY <2>1, <2>2 DEF PodmanTypeOK, DraftTypeOK, SnapshotCurrent, DraftNotAhead, CountIn
<1>2. CASE \E op \in UpdateOps : Call(op)
  BY <1>2 DEF Call, UpdateOps, PodmanTypeOK, EngineTypeOK, DraftTypeOK, SnapshotCurrent, DraftNotAhead
<1>3. CASE UNCHANGED podmanVars
  BY <1>3 DEF podmanVars, PodmanTypeOK, EngineTypeOK, DraftTypeOK, SnapshotCurrent, DraftNotAhead, CountIn
<1> QED
  BY <1>1, <1>2, <1>3

LEMMA UpdateInv == PodmanInv /\ Update => PodmanInv'
  BY UpdateSystemInv, UpdateNetworksInv, ContainersLockInv, ContainersReplyInv, ContainersPublishInv,
     ContainersCopyInv, PodsPollInv, PodsPublishInv, UpdateStatsInv, LogsSnapshotInv, LogsPublishInv,
     BusyCyclesInv DEF Update

LEMMA NextPodmanInv == PodmanInv /\ [PodmanNext]_podmanVars => PodmanInv'
<1> SUFFICES ASSUME PodmanInv, [PodmanNext]_podmanVars PROVE PodmanInv'
  OBVIOUS
<1>1. ASSUME NEW name \in Names(Ctr), NEW v \in Marks, SetBusy(name, v) PROVE PodmanInv'
  BY <1>1, SetBusyInv, PodmanAssumption
<1> QED
  BY <1>1, UpdateInv, OutsideInv DEF PodmanNext

(* PodmanInv holds in every reachable state, whatever the engine does.     *)
THEOREM PodmanInvariant == PodmanSpec => []PodmanInv
  BY InitPodmanInv, NextPodmanInv, PTL DEF PodmanSpec

(* The view and the copies of it are well formed; in particular the pods   *)
(* known are always those of the containers known, and podman is held over *)
(* an action for the engine call of update_containers() alone.             *)
THEOREM PodmanTypeCorrect == PodmanSpec => []PodmanTypeOK
<1>1. PodmanInv => PodmanTypeOK
  BY DEF PodmanInv
<1> QED
  BY <1>1, PodmanInvariant, PTL

(* Writing back a copy loses marks set meanwhile and nothing else.         *)
THEOREM PodmanSnapshotCurrent == PodmanSpec => []SnapshotCurrent
<1>1. PodmanInv => SnapshotCurrent
  BY DEF PodmanInv
<1> QED
  BY <1>1, PodmanInvariant, PTL
-----------------------------------------------------------------------------
(* No update function, and nothing at the engine, prolongs a countdown.    *)
NoneProlonged == \A c \in DOMAIN ctrs' : ctrs'[c].busy.count <= CountIn(ctrs, c)

LEMMA UpdateProlongsNone == PodmanInv /\ Update => NoneProlonged
<1> SUFFICES ASSUME PodmanInv, Update PROVE NoneProlonged
  OBVIOUS
<1> USE DEF PodmanInv, NoneProlonged
<1>0. /\ \A c \in DOMAIN ctrs : ctrs[c] \in CtrRecord
      /\ \A c \in DOMAIN draft.ctrs : draft.ctrs[c] \in CtrRecord
  BY DEF PodmanTypeOK
<1>1. CASE ctrs' = ctrs
  BY <1>1, ViewCounts
<1>2. CASE ctrs' = draft.ctrs /\ at \in Copying \cup {"CONTAINERS_PARSE"}
  BY <1>2 DEF DraftNotAhead
<1>3. CASE UpdateStats
  <2>1. PICK got : ctrs' = [c \in DOMAIN ctrs |-> IF c \in got THEN ParseStats(ctrs[c]) ELSE ctrs[c]]
    BY <1>3 DEF UpdateStats
  <2>2. \A c \in DOMAIN ctrs : ParseStats(ctrs[c]).busy = ctrs[c].busy
    BY <1>0 DEF ParseStats, CtrRecord
  <2> QED
    BY <2>1, <2>2, ViewCounts
<1>4. CASE LogsPublish
  <2>1. CASE ctrs' = ctrs
    BY <2>1, ViewCounts
  <2>2. CASE \E silent \in SUBSET DOMAIN draft.ctrs :
               ctrs' = [c \in DOMAIN draft.ctrs |->
                   CASE c \in Infra                  -> [draft.ctrs[c] EXCEPT !.logs = "infra"]
                     [] HasLog(c) /\ c \notin silent -> [draft.ctrs[c] EXCEPT !.logs = "text"]
                     [] OTHER                        -> draft.ctrs[c]]
    <3>1. \A c \in DOMAIN draft.ctrs : ctrs'[c].busy = draft.ctrs[c].busy
      BY <1>0, <2>2 DEF CtrRecord
    <3>2. DOMAIN ctrs' = DOMAIN draft.ctrs /\ at \in Copying
      BY <1>4, <2>2 DEF LogsPublish, Copying
    <3> QED
      BY <3>1, <3>2 DEF DraftNotAhead
  <2> QED
    BY <1>4, <2>1, <2>2 DEF LogsPublish
<1>5. CASE BusyCycles
  <2>1. ctrs' = [c \in DOMAIN ctrs |-> [ctrs[c] EXCEPT !.busy = Cycle(@)]]
    BY <1>5 DEF BusyCycles
  <2>2. \A c \in DOMAIN ctrs : ctrs'[c].busy = Cycle(ctrs[c].busy) /\ ctrs[c].busy \in Busy
    BY <1>0, <2>1 DEF CtrRecord
  <2>3. \A c \in DOMAIN ctrs : ctrs'[c].busy.count <= ctrs[c].busy.count
    BY <2>2, BusyTypes
  <2> QED
    BY <2>1, <2>3 DEF CountIn
<1>6. ctrs' = ctrs \/ (ctrs' = draft.ctrs /\ at \in Copying \cup {"CONTAINERS_PARSE"})
      \/ UpdateStats \/ LogsPublish \/ BusyCycles
  BY DEF Update, Copying, UpdateSystem, UpdateNetworks, ContainersLock, ContainersReply, ContainersCopy,
         ContainersPublish, PodsPoll, PodsPublish, LogsSnapshot, view
<1> HIDE DEF PodmanInv, NoneProlonged
<1> QED
  BY <1>1, <1>2, <1>3, <1>4, <1>5, <1>6

(* A step prolongs the countdown of a container only by marking it.        *)
ArmsByExec ==
    \A c \in DOMAIN ctrs' :
        ctrs'[c].busy.count > (IF c \in DOMAIN ctrs THEN ctrs[c].busy.count ELSE 0)
        => \E v \in BusyValue : SetBusy(NameOf[c], v)

LEMMA ProlongedByExec ==
    ASSUME PodmanInv, PodmanInv', [PodmanNext]_podmanVars
    PROVE  ArmsByExec
<1> DEFINE Arms(c) == \E v \in BusyValue : SetBusy(NameOf[c], v)
<1>1. \A c : CountIn(ctrs, c) \in Nat
  BY ViewCounts DEF PodmanInv
<1>2. \A c \in DOMAIN ctrs' : ctrs'[c].busy.count \in Nat
  <2>1. \A c \in DOMAIN ctrs' : ctrs'[c] \in CtrRecord
    BY DEF PodmanInv, PodmanTypeOK
  <2> QED
    BY <2>1, BusyAssumption DEF CtrRecord, Busy
<1>3. CASE NoneProlonged
  <2>1. \A c \in DOMAIN ctrs' : ~(ctrs'[c].busy.count > CountIn(ctrs, c))
    BY <1>1, <1>2, <1>3 DEF NoneProlonged
  <2> QED
    BY <2>1 DEF CountIn, ArmsByExec
<1>4. ASSUME NEW name \in Names(Ctr), NEW v \in Marks, SetBusy(name, v) PROVE ArmsByExec
  <2> SUFFICES ASSUME NEW c \in DOMAIN ctrs', ctrs'[c].busy.count > CountIn(ctrs, c)
               PROVE  Arms(c)
    BY DEF CountIn, ArmsByExec
  <2>1. ~(c \in DOMAIN ctrs /\ ctrs'[c] = ctrs[c])
    BY <1>1 DEF CountIn
  <2>2. CASE ctrs' = ctrs
    BY <2>1, <2>2
  <2>3. ASSUME NEW b \in DOMAIN ctrs, NameOf[b] = name, ctrs' = [ctrs EXCEPT ![b].busy = Assign(v)]
        PROVE  Arms(c)
    <3>1. c = b
      BY <2>1, <2>3
    <3> QED
      BY <1>4, <2>3, <3>1, PodmanAssumption
  <2> QED
    BY <1>4, <2>2, <2>3, MarksOne
<1>5. CASE Engine \/ (\E op \in UpdateOps : Call(op)) \/ UNCHANGED podmanVars
  <2>1. ctrs' = ctrs
    BY <1>5 DEF Engine, EngineRun, EngineContainer, EnginePod, EngineNetwork, Event, Call, podmanVars, view
  <2> QED
    BY <2>1, <1>3, ViewCounts DEF NoneProlonged, PodmanInv
<1>6. CASE Update
  BY <1>3, <1>6, UpdateProlongsNone
<1> HIDE DEF Arms
<1> QED
  BY <1>4, <1>5, <1>6 DEF PodmanNext

(* A countdown gets longer only by a handler's setContainerBusyState() on  *)
(* that container: no refresh and no write-back of an older copy revives a *)
(* mark.                                                                   *)
THEOREM PodmanOnlyExecArms == PodmanSpec => OnlyExecArms
<1>1. PodmanInv /\ PodmanInv' /\ [PodmanNext]_podmanVars => [ArmsByExec]_podmanVars
  BY ProlongedByExec
<1>2. [][ArmsByExec]_podmanVars <=> OnlyExecArms
  BY DEF ArmsByExec, OnlyExecArms
<1> QED
  BY <1>1, <1>2, PodmanInvariant, PTL DEF PodmanSpec

-----------------------------------------------------------------------------
(* The characters of a list do not add up to nothing: this is all          *)
(* ContainersCoherent asks of the sums of characters.                      *)
HashesNotZero ==
    \A cs \in SUBSET Ctr : \A up \in [cs -> BOOLEAN] :
        Hash({[id |-> c, run |-> up[c]] : c \in cs}) # 0

(* There are finitely many containers, and no character of a list is       *)
(* negative as a char, which Response::hash() adds up.                     *)
PlainText ==
    /\ IsFiniteSet([id : Ctr, run : BOOLEAN])
    /\ \A e \in [id : Ctr, run : BOOLEAN] : Bytes(e) \in Nat

(* A sum of numbers from 0 on is one.                                      *)
LEMMA BytesAddUp ==
    ASSUME NEW S, IsFiniteSet(S), \A e \in S : Bytes(e) \in Nat
    PROVE  MapThenSumSet(Bytes, S) \in Nat
<1> DEFINE OneOf(s) == CHOOSE x \in s : TRUE
           Def(g, s) == IF s = {} THEN 0 ELSE Bytes(OneOf(s)) + g[s \ {OneOf(s)}]
           t == CHOOSE g : g = [s \in SUBSET S |-> Def(g, s)]
<1>1. \A s : s # {} => OneOf(s) \in s
  OBVIOUS
<1> HIDE DEF OneOf
<1>2. \E g \in [SUBSET S -> Nat] : g = [s \in SUBSET S |-> Def(g, s)]
  <2> DEFINE pick == [s \in SUBSET S |-> OneOf(s)]
             h == [x \in S |-> [v \in Nat |-> Bytes(x) + v]]
  <2>1. h \in [S -> [Nat -> Nat]] /\ \A s \in SUBSET S : s # {} => pick[s] \in s
    BY <1>1
  <2>2. \A x \in S : \A v \in Nat : h[x][v] = Bytes(x) + v
    OBVIOUS
  <2>3. \A s \in SUBSET S : pick[s] = OneOf(s)
    OBVIOUS
  <2> HIDE DEF pick, h
  <2>4. SubsetRecursive(S, Nat, 0, pick, h)
    <3> DEFINE V == Nat
               base == 0
    <3>1. base \in V /\ h \in [S -> [V -> V]]
      BY <2>1
    <3> HIDE DEF V, base
    <3>2. SubsetRecursive(S, V, base, pick, h)
      BY <2>1, <3>1, SubsetRecursion
    <3> QED
      BY <3>2 DEF V, base
  <2>5. PICK g \in [SUBSET S -> Nat] :
           g = [s \in SUBSET S |-> IF s = {} THEN 0 ELSE h[pick[s]][g[s \ {pick[s]}]]]
    BY <2>4 DEF SubsetRecursive
  <2>6. ASSUME NEW s \in SUBSET S PROVE g[s] = Def(g, s)
    <3>1. CASE s = {}
      BY <2>5, <3>1
    <3>2. CASE s # {}
      <4>1. OneOf(s) \in S /\ g[s \ {OneOf(s)}] \in Nat
        BY <1>1, <3>2
      <4>2. g[s] = h[OneOf(s)][g[s \ {OneOf(s)}]]
        BY <2>3, <2>5, <3>2
      <4> QED
        BY <2>2, <3>2, <4>1, <4>2
    <3> QED
      BY <3>1, <3>2
  <2>7. g = [s \in SUBSET S |-> Def(g, s)]
    <3> HIDE DEF Def
    <3> QED
      BY <2>6
  <2> QED
    BY <2>7
<1>3. MapThenSumSet(Bytes, S) = t[S]
  BY DEF MapThenSumSet, MapThenFoldSet, OneOf
<1>4. t \in [SUBSET S -> Nat]
  <2> DEFINE Is(g) == g = [s \in SUBSET S |-> Def(g, s)]
  <2>1. \E g : Is(g)
    BY <1>2
  <2>2. Is(t)
    <3> HIDE DEF Is
    <3>1. Is(CHOOSE g : Is(g))
      BY <2>1
    <3> QED
      BY <3>1 DEF Is
  <2>3. \A s \in SUBSET S : t[s] = Def(t, s)
    <3> HIDE DEF Def, t
    <3> QED
      BY <2>2
  <2> HIDE DEF t
  <2> DEFINE Typed == {s \in SUBSET S : t[s] \in Nat}
  <2>4. {} \in Typed
    <3>1. t[{}] = 0
      BY <2>3
    <3> QED
      BY <3>1
  <2>5. ASSUME NEW s \in SUBSET S, s # {}, \A x \in s : s \ {x} \in Typed PROVE s \in Typed
    <3>1. OneOf(s) \in s /\ t[s] = Bytes(OneOf(s)) + t[s \ {OneOf(s)}]
      BY <1>1, <2>3, <2>5
    <3>2. t[s \ {OneOf(s)}] \in Nat /\ Bytes(OneOf(s)) \in Nat
      BY <2>5, <3>1
    <3> QED
      BY <3>1, <3>2
  <2>6. \A s \in SUBSET S : s \in Typed
    <3> HIDE DEF Typed
    <3> QED
      BY <2>4, <2>5, SubsetInduction
  <2>7. t = [s \in SUBSET S |-> t[s]]
    <3> HIDE DEF Def
    <3> QED
      BY <2>2
  <2> QED
    BY <2>6, <2>7
<1> HIDE DEF t
<1> QED
  BY <1>3, <1>4

(* For such text the hypothesis of the theorem below holds: its brackets   *)
(* alone add up to more than nothing.                                      *)
THEOREM PodmanHashesNotZero ==
    ASSUME PlainText
    PROVE  HashesNotZero
<1> SUFFICES ASSUME NEW cs \in SUBSET Ctr, NEW up \in [cs -> BOOLEAN]
             PROVE  Hash({[id |-> c, run |-> up[c]] : c \in cs}) # 0
  BY DEF HashesNotZero
<1>1. PICK list : list = {[id |-> c, run |-> up[c]] : c \in cs}
  OBVIOUS
<1>2. list \subseteq [id : Ctr, run : BOOLEAN]
  BY <1>1
<1>3. IsFiniteSet(list) /\ \A e \in list : Bytes(e) \in Nat
  BY <1>2, FS_Subset DEF PlainText
<1>4. MapThenSumSet(Bytes, list) \in Nat
  BY <1>3, BytesAddUp
<1>5. list # {} => Cardinality(list) \in Nat /\ Cardinality(list) # 0
  BY <1>3, FS_CardinalityType, FS_EmptySet
<1>6. PICK sum, size : /\ sum = MapThenSumSet(Bytes, list) /\ sum \in Nat
                       /\ size = Cardinality(list)
                       /\ list # {} => size \in Nat /\ size # 0
  BY <1>4, <1>5
<1>7. Hash(list) = 184 + sum + (IF list = {} THEN 0 ELSE 44 * (size - 1))
  <2>1. Hash(list) = 184 + MapThenSumSet(Bytes, list)
                         + (IF list = {} THEN 0 ELSE 44 * (Cardinality(list) - 1))
    BY DEF Hash
  <2> QED
    BY ONLY <1>6, <2>1, Zenon
<1>8. Hash(list) # 0
  <2>1. ASSUME list = {} PROVE Hash(list) # 0
    <3>1. Hash(list) = 184 + sum + 0
      BY ONLY <1>7, <2>1, Zenon
    <3>2. 184 + sum + 0 # 0
      BY ONLY <1>6, SMT
    <3> QED
      BY ONLY <3>1, <3>2, Zenon
  <2>2. ASSUME list # {} PROVE Hash(list) # 0
    <3>1. Hash(list) = 184 + sum + 44 * (size - 1)
      BY ONLY <1>7, <2>2, Zenon
    <3>2. sum \in Nat /\ size \in Nat /\ size # 0
      BY ONLY <1>6, <2>2
    <3>3. 184 + sum + 44 * (size - 1) # 0
      BY ONLY <3>2, SMT
    <3> QED
      BY ONLY <3>1, <3>3, Zenon
  <2> QED
    BY <2>1, <2>2, Zenon
<1> QED
  BY ONLY <1>1, <1>8, Zenon

(* A list of the containers of cs, as they are in cs, has the hash h.      *)
Runs(cs) == {[id |-> c, run |-> cs[c].run] : c \in DOMAIN cs}

Listed(cs, h) ==
    \E skipped \in SUBSET Nameless : \E up \in [skipped -> BOOLEAN] :
        h = Hash(Runs(cs) \cup {[id |-> c, run |-> up[c]] : c \in skipped})

(* What makes ContainersCoherent inductive: the list being taken apart is  *)
(* described by its own hash, whatever the engine does meanwhile.          *)
CoherentInv ==
    /\ cstate = "OK" <=> hash.containers # 0
    /\ hash.containers # 0 => Listed(ctrs, hash.containers)
    /\ at = "CONTAINERS_PARSE" => draft.hash # 0 /\ Listed(draft.ctrs, draft.hash)

LEMMA CoherentInvImplies == CoherentInv => ContainersCoherent
  BY DEF CoherentInv, ContainersCoherent, Listed, Runs

LEMMA InitCoherent == PodmanInit => CoherentInv
  BY DEF PodmanInit, ViewInit, CoherentInv

(* A step that neither publishes nor polls containers: what runs in the    *)
(* view, the hash and the state stay.                                      *)
LEMMA CoherentFrame ==
    ASSUME CoherentInv, Runs(ctrs') = Runs(ctrs),
           hash'.containers = hash.containers, cstate' = cstate,
           at' = "CONTAINERS_PARSE" =>
               at = "CONTAINERS_PARSE" /\ Runs(draft'.ctrs) = Runs(draft.ctrs) /\ draft'.hash = draft.hash
    PROVE  CoherentInv'
  BY DEF CoherentInv, Listed

(* The answer being taken apart is what was hashed, its skipped elements   *)
(* included.                                                               *)
LEMMA ReplyCoherent ==
    ASSUME HashesNotZero, PodmanInv, CoherentInv, ContainersReply
    PROVE  CoherentInv'
<1>1. Hash(CtrList) # 0
  <2>1. DOMAIN ectr \in SUBSET Ctr /\ ectr \in [DOMAIN ectr -> BOOLEAN]
    BY DEF PodmanInv, EngineTypeOK
  <2>2. CtrList = {[id |-> c, run |-> ectr[c]] : c \in DOMAIN ectr}
    BY DEF CtrList, CtrElem
  <2> QED
    BY <2>1, <2>2 DEF HashesNotZero
<1>2. ctrs' = ctrs
  BY DEF ContainersReply
<1>3. CASE at' = "CONTAINERS_PARSE"
  <2>1. /\ draft'.ctrs = [c \in DOMAIN ectr \ Nameless |-> NewCtr(c)]
        /\ draft'.hash = Hash(CtrList) /\ hash' = hash /\ cstate' = cstate
    BY <1>3 DEF ContainersReply, Done
  <2> DEFINE skipped == DOMAIN ectr \cap Nameless
             up == [c \in skipped |-> ectr[c]]
  <2>2. skipped \in SUBSET Nameless /\ up \in [skipped -> BOOLEAN]
    BY DEF PodmanInv, EngineTypeOK
  <2>3. Runs(draft'.ctrs) = {[id |-> c, run |-> ectr[c]] : c \in DOMAIN ectr \ Nameless}
    BY <2>1 DEF Runs, NewCtr
  <2>4. {[id |-> c, run |-> up[c]] : c \in skipped} = {[id |-> c, run |-> ectr[c]] : c \in skipped}
    OBVIOUS
  <2>5. CtrList = Runs(draft'.ctrs) \cup {[id |-> c, run |-> up[c]] : c \in skipped}
    BY <2>3, <2>4 DEF CtrList, CtrElem
  <2> HIDE DEF skipped, up
  <2>6. Listed(draft'.ctrs, draft'.hash)
    BY <2>1, <2>2, <2>5 DEF Listed
  <2> QED
    BY <1>1, <1>2, <2>1, <2>6 DEF CoherentInv
<1>4. CASE at' # "CONTAINERS_PARSE"
  <2>1. \/ hash'.containers = 0 /\ cstate' = "INCOMPLETE"
        \/ hash' = hash /\ cstate' = cstate
        \/ hash' = hash /\ cstate' = "OK" /\ hash.containers # 0
    BY <1>1, <1>4 DEF ContainersReply, PodmanInv, PodmanTypeOK
  <2> QED
    BY <1>2, <1>4, <2>1 DEF CoherentInv
<1> QED
  BY <1>3, <1>4

LEMMA UpdateCoherent ==
    ASSUME HashesNotZero, PodmanInv, CoherentInv, Update
    PROVE  CoherentInv'
<1> USE DEF PodmanInv
<1>0. /\ \A c \in DOMAIN ctrs : ctrs[c] \in CtrRecord
      /\ \A c \in DOMAIN draft.ctrs : draft.ctrs[c] \in CtrRecord
  BY DEF PodmanTypeOK
<1>1. CASE ContainersReply
  BY <1>1, ReplyCoherent
<1>2. CASE ContainersPublish
  <2>1. /\ ctrs' = draft.ctrs /\ hash'.containers = draft.hash /\ cstate' = "OK"
        /\ at = "CONTAINERS_PARSE" /\ at' = "idle"
    BY <1>2 DEF ContainersPublish, Done, PodmanTypeOK
  <2> QED
    BY <2>1 DEF CoherentInv
<1>3. ASSUME NEW c \in Ctr, ContainersCopy(c) PROVE CoherentInv'
  <2>1. /\ c \in DOMAIN draft.ctrs /\ at' = at /\ at = "CONTAINERS_PARSE"
        /\ UNCHANGED <<ctrs, hash, cstate>> /\ draft'.hash = draft.hash
        /\ draft'.ctrs = [draft.ctrs EXCEPT ![c] = IF c \in DOMAIN ctrs THEN CopyDetails(@, ctrs[c]) ELSE @]
    BY <1>3 DEF ContainersCopy, DraftTypeOK, view
  <2>2. \A d \in DOMAIN ctrs : \A r \in CtrRecord : CopyDetails(r, ctrs[d]).run = r.run
    BY <1>0 DEF CopyDetails, CtrRecord
  <2>3. DOMAIN draft'.ctrs = DOMAIN draft.ctrs
        /\ \A d \in DOMAIN draft.ctrs : draft'.ctrs[d].run = draft.ctrs[d].run
    BY <1>0, <2>1, <2>2
  <2>4. Runs(draft'.ctrs) = Runs(draft.ctrs)
    BY <2>3 DEF Runs
  <2> QED
    BY <2>1, <2>4, CoherentFrame
<1>4. CASE PodsPublish \/ UpdateStats \/ LogsPublish \/ BusyCycles
  <2>1. at' # "CONTAINERS_PARSE" /\ hash'.containers = hash.containers /\ cstate' = cstate
    BY <1>4 DEF PodsPublish, UpdateStats, LogsPublish, BusyCycles, Done, PodmanTypeOK
  <2>2. DOMAIN ctrs' = DOMAIN ctrs /\ \A c \in DOMAIN ctrs : ctrs'[c].run = ctrs[c].run
    <3>0. at \in Copying => /\ DOMAIN draft.ctrs = DOMAIN ctrs
                            /\ \A c \in DOMAIN ctrs : draft.ctrs[c].run = ctrs[c].run
      <4> SUFFICES ASSUME at \in Copying, NEW c \in DOMAIN ctrs
                   PROVE  DOMAIN draft.ctrs = DOMAIN ctrs /\ draft.ctrs[c].run = ctrs[c].run
        BY DEF SnapshotCurrent, Copying
      <4>1. /\ DOMAIN draft.ctrs = DOMAIN ctrs
            /\ [draft.ctrs[c] EXCEPT !.busy = NotBusy] = [ctrs[c] EXCEPT !.busy = NotBusy]
        BY DEF SnapshotCurrent, Copying
      <4>2. \A r \in CtrRecord : [r EXCEPT !.busy = NotBusy].run = r.run
        BY DEF CtrRecord
      <4> QED
        BY <1>0, <4>1, <4>2
    <3>1. CASE PodsPublish
      BY <3>0, <3>1 DEF PodsPublish, Copying
    <3>2. CASE UpdateStats
      <4>1. PICK got : ctrs' = [c \in DOMAIN ctrs |-> IF c \in got THEN ParseStats(ctrs[c]) ELSE ctrs[c]]
        BY <3>2 DEF UpdateStats
      <4>2. \A r \in CtrRecord : ParseStats(r).run = r.run
        BY DEF ParseStats, CtrRecord
      <4> QED
        BY <1>0, <4>1, <4>2
    <3>3. CASE LogsPublish
      <4>1. CASE ctrs' = ctrs
        BY <4>1
      <4>2. CASE \E silent \in SUBSET DOMAIN draft.ctrs :
                   ctrs' = [c \in DOMAIN draft.ctrs |->
                       CASE c \in Infra                  -> [draft.ctrs[c] EXCEPT !.logs = "infra"]
                         [] HasLog(c) /\ c \notin silent -> [draft.ctrs[c] EXCEPT !.logs = "text"]
                         [] OTHER                        -> draft.ctrs[c]]
        <5>1. \A r \in CtrRecord : /\ [r EXCEPT !.logs = "infra"].run = r.run
                                  /\ [r EXCEPT !.logs = "text"].run = r.run
          BY DEF CtrRecord
        <5>2. \A c \in DOMAIN draft.ctrs : ctrs'[c].run = draft.ctrs[c].run
          BY <1>0, <4>2, <5>1
        <5> QED
          BY <3>0, <3>3, <4>2, <5>2 DEF LogsPublish, Copying
      <4> QED
        BY <3>3, <4>1, <4>2 DEF LogsPublish
    <3>4. CASE BusyCycles
      <4>1. \A r \in CtrRecord : [r EXCEPT !.busy = Cycle(@)].run = r.run
        BY DEF CtrRecord
      <4> QED
        BY <1>0, <3>4, <4>1 DEF BusyCycles
    <3> QED
      BY <1>4, <3>1, <3>2, <3>3, <3>4
  <2>3. Runs(ctrs') = Runs(ctrs)
    BY <2>2 DEF Runs
  <2> QED
    BY <2>1, <2>3, CoherentFrame
<1>5. CASE UpdateSystem \/ UpdateNetworks \/ ContainersLock \/ PodsPoll \/ LogsSnapshot
  <2>1. /\ at' # "CONTAINERS_PARSE" /\ hash'.containers = hash.containers
        /\ cstate' = cstate /\ ctrs' = ctrs
    BY <1>5 DEF UpdateSystem, UpdateNetworks, ContainersLock, PodsPoll, LogsSnapshot, Done, view, PodmanTypeOK
  <2> QED
    BY <2>1, CoherentFrame
<1> QED
  BY <1>1, <1>2, <1>3, <1>4, <1>5 DEF Update

LEMMA NextCoherent ==
    ASSUME HashesNotZero, PodmanInv, CoherentInv, [PodmanNext]_podmanVars
    PROVE  CoherentInv'
<1>1. ASSUME NEW name, NEW v, SetBusy(name, v) PROVE CoherentInv'
  <2>1. UNCHANGED <<hash, cstate, at, draft>>
    BY <1>1 DEF SetBusy
  <2>2. DOMAIN ctrs' = DOMAIN ctrs /\ \A c \in DOMAIN ctrs : ctrs'[c].run = ctrs[c].run
    <3>1. \A c \in DOMAIN ctrs : ctrs[c] \in CtrRecord
      BY DEF PodmanInv, PodmanTypeOK
    <3>2. \A r \in CtrRecord : [r EXCEPT !.busy = Assign(v)].run = r.run
      BY DEF CtrRecord
    <3>3. ASSUME NEW b \in DOMAIN ctrs, ctrs' = [ctrs EXCEPT ![b].busy = Assign(v)]
          PROVE  DOMAIN ctrs' = DOMAIN ctrs /\ \A c \in DOMAIN ctrs : ctrs'[c].run = ctrs[c].run
      BY <3>1, <3>2, <3>3
    <3> QED
      BY <1>1, <3>3, MarksOne
  <2>3. Runs(ctrs') = Runs(ctrs)
    BY <2>2 DEF Runs
  <2> QED
    BY <2>1, <2>3, CoherentFrame
<1>2. CASE Engine \/ (\E op \in UpdateOps : Call(op)) \/ UNCHANGED podmanVars
  <2>1. /\ UNCHANGED <<ctrs, hash, cstate, draft>>
        /\ at' = "CONTAINERS_PARSE" => at = "CONTAINERS_PARSE"
    BY <1>2 DEF Engine, EngineRun, EngineContainer, EnginePod, EngineNetwork, Event, Call, UpdateOps,
                podmanVars, view
  <2> QED
    BY <2>1, CoherentFrame
<1> QED
  BY <1>1, <1>2, UpdateCoherent DEF PodmanNext

(* The recorded hash is that of a list that shows the containers as the    *)
(* view does, and is set exactly while they count as OK: no answer is      *)
(* taken for known that the view never showed.                             *)
THEOREM PodmanContainersCoherent ==
    ASSUME HashesNotZero
    PROVE  PodmanSpec => []ContainersCoherent
<1>1. PodmanInv /\ CoherentInv /\ [PodmanNext]_podmanVars => CoherentInv'
  BY NextCoherent
<1> QED
  BY <1>1, InitCoherent, CoherentInvImplies, PodmanInvariant, PTL DEF PodmanSpec
=============================================================================
