---------------------------- MODULE EngineAnswers ----------------------------
(***************************************************************************)
(* The loop thread's updates of the logs and the stats of a container,     *)
(* down to the pieces in which the engine's answers arrive.  Podman.tla    *)
(* takes each of them as one answer, and models the locks around it.       *)
(***************************************************************************)
EXTENDS ContainerLogs, ContainerStats

vars == <<socketVars, logVars, statsVars>>

Init == SocketInit /\ LogsInit /\ StatsInit

Next ==
    \/ Transfer /\ UNCHANGED <<logVars, statsVars>>
    \/ UpdateLogs /\ UNCHANGED statsVars
    \/ UpdateStats /\ UNCHANGED logVars
    \/ \E run \in BOOLEAN, started \in Started, pid \in {0, 1}, now \in Clock :
          Relist(run, started, pid, now) /\ UNCHANGED logVars

Spec == Init /\ [][Next]_vars

-----------------------------------------------------------------------------
(* Types; and nothing of the answer is lost or repeated between the pieces *)
(* handed over and what is left.                                           *)
AnswersTypeOK ==
    /\ at \in {"idle", "receive"} \cup DOMAIN Answers /\ query \in DOMAIN Answers
    /\ FlattenSeq(answer) = FlattenSeq(pieces) \o rest
    /\ at = "receive" => Len(body) = Len(FlattenSeq(pieces)) + Len(pieces)
    /\ ok \in BOOLEAN /\ returned \in BOOLEAN /\ signed \in CharSigned
    /\ \A s \in ToSet(logs) \cup ToSet(lines) : s # <<>> /\ s = Trim(s)
    /\ cntr.isRunning \in BOOLEAN /\ cntr.pid \in Int /\ cntr.pids # 0 /\ used \in {0} \cup DOMAIN Entry
    /\ cntr.load \in {0} \cup DOMAIN Entry /\ cntr.uptime \in Int
==============================================================================
