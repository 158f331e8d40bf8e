--------------------------- MODULE SchedulerProofs ---------------------------
(***************************************************************************)
(* Theorems about Scheduler, for every set of names and command types and  *)
(* every number of requests.                                               *)
(*                                                                         *)
(* The inductive invariant SchedInv is the conjunction of the types, of    *)
(* HeldDuringCall and of the two properties of interest.  Neither of these *)
(* is inductive without HeldDuringCall: that the mutex is held over a call *)
(* is why addCmd() only ever sees a deque whose every entry is pending.    *)
(***************************************************************************)
EXTENDS Scheduler, SequenceTheorems, TLAPS

SchedInv == SchedTypeOK /\ HeldDuringCall /\ InOrder /\ RequestsHonoured

-----------------------------------------------------------------------------
(* A command with a name makes a well-formed request of the engine: the    *)
(* switch of run() has a case for every command type.                      *)
LEMMA QueryType ==
    ASSUME NEW cmd \in Cmd
    PROVE  Query(cmd) \in [group : {"containers", "pods"}, id : Name,
                           action : {"stop", "start", "restart"}]
<1>1. cmd.name \in Name
  BY DEF Cmd
<1>2. (IF cmd.type \in {"CONTAINER_STOP", "CONTAINER_START", "CONTAINER_RESTART"}
       THEN "containers" ELSE "pods") \in {"containers", "pods"}
  OBVIOUS
<1>3. (CASE cmd.type \in {"CONTAINER_STOP", "POD_STOP"}   -> "stop"
         [] cmd.type \in {"CONTAINER_START", "POD_START"} -> "start"
         [] OTHER -> "restart") \in {"stop", "start", "restart"}
  OBVIOUS
<1> QED
  BY <1>1, <1>2, <1>3 DEF Query

(* Taking the head off a sequence renumbers the rest by one.               *)
LEMMA TailElements ==
    ASSUME NEW S, NEW s \in Seq(S), s # <<>>
    PROVE  /\ Head(s) = s[1]
           /\ Head(s) \in S
           /\ Tail(s) \in Seq(S)
           /\ Len(s) \in Nat \ {0}
           /\ Len(Tail(s)) = Len(s) - 1
           /\ \A i \in 1 .. Len(Tail(s)) : Tail(s)[i] = s[i + 1]
  BY HeadTailProperties, EmptySeq

(* What Append does to the length and to each element.                     *)
LEMMA AppendElements ==
    ASSUME NEW S, NEW s \in Seq(S), NEW e \in S
    PROVE  /\ Append(s, e) \in Seq(S)
           /\ Append(s, e) # <<>>
           /\ Len(s) \in Nat
           /\ Len(Append(s, e)) = Len(s) + 1
           /\ \A i \in 1 .. Len(s) : Append(s, e)[i] = s[i]
           /\ Append(s, e)[Len(s) + 1] = e
  BY AppendProperties

-----------------------------------------------------------------------------
(* The daemon starts with nothing accepted and nothing sent.               *)
LEMMA InitSchedInv == SchedInit => SchedInv
<1> SUFFICES ASSUME SchedInit PROVE SchedInv
  OBVIOUS
<1>1. SchedTypeOK
  BY DEF SchedInit, SchedTypeOK, Calls, Task
<1>2. HeldDuringCall
  BY DEF SchedInit, HeldDuringCall
<1>3. InOrder
  BY DEF SchedInit, InOrder, Pending
<1>4. RequestsHonoured
  BY DEF SchedInit, RequestsHonoured
<1> QED
  BY <1>1, <1>2, <1>3, <1>4 DEF SchedInv

-----------------------------------------------------------------------------
(* Entering run() with a command to execute moves the head of the pending  *)
(* commands to the sent ones; with none it changes neither.                *)
LEMMA RunBeginSchedInv ==
    ASSUME SchedInv, NEW running \in BOOLEAN, RunBegin(running)
    PROVE  SchedInv'
<1> USE DEF SchedInv
<1>1. call = "none" /\ Pending = cmds
  BY DEF RunBegin, HeldDuringCall, Pending
<1>2. CASE call' = "command"
  <2>1. cmds # <<>>
    BY <1>2 DEF RunBegin, NextCall
  <2>2. /\ Head(cmds) = cmds[1]
        /\ Head(cmds) \in Cmd
        /\ Tail(cmds) \in Seq(Cmd)
        /\ Len(cmds) \in Nat \ {0}
        /\ Len(Tail(cmds)) = Len(cmds) - 1
        /\ \A i \in 1 .. Len(Tail(cmds)) : Tail(cmds)[i] = cmds[i + 1]
    BY <2>1, TailElements DEF SchedTypeOK
  <2>3. issued' = Append(issued, Query(Head(cmds))) /\ Pending' = Tail(cmds)
    BY <1>2 DEF RunBegin, Pending
  <2> DEFINE Request == [group : {"containers", "pods"}, id : Name,
                         action : {"stop", "start", "restart"}]
  <2>4. Query(Head(cmds)) \in Request
    BY <2>2, QueryType
  <2>5. /\ issued' \in Seq(Request)
        /\ issued' # <<>>
        /\ Len(issued) \in Nat
        /\ Len(issued') = Len(issued) + 1
        /\ \A i \in 1 .. Len(issued) : issued'[i] = issued[i]
        /\ issued'[Len(issued) + 1] = Query(Head(cmds))
    <3>1. issued \in Seq(Request)
      BY DEF SchedTypeOK
    <3> HIDE DEF Request
    <3> QED
      BY <2>3, <2>4, <3>1, AppendElements
  <2>6. SchedTypeOK'
    BY <2>5, <1>2 DEF SchedTypeOK, RunBegin, Calls
  <2>7. HeldDuringCall'
    BY <2>1, <2>5, <1>2 DEF RunBegin, HeldDuringCall
  <2>8. InOrder'
    <3>1. Len(accepted) = Len(issued) + Len(cmds)
      BY <1>1 DEF InOrder
    <3>2. Len(accepted') = Len(issued') + Len(Pending')
      BY <3>1, <2>2, <2>3, <2>5 DEF RunBegin
    <3>3. \A i \in 1 .. Len(issued') : issued'[i] = Query(accepted'[i])
      <4> SUFFICES ASSUME NEW i \in 1 .. Len(issued') PROVE issued'[i] = Query(accepted[i])
        BY DEF RunBegin
      <4>1. CASE i \in 1 .. Len(issued)
        BY <4>1, <2>5 DEF InOrder
      <4>2. CASE i = Len(issued) + 1
        <5>1. cmds[1] = accepted[Len(issued) + 1]
          BY <1>1, <2>2 DEF InOrder
        <5> QED
          BY <4>2, <5>1, <2>2, <2>5
      <4> QED
        BY <4>1, <4>2, <2>5
    <3>4. \A i \in 1 .. Len(Pending') : Pending'[i] = accepted'[Len(issued') + i]
      <4> SUFFICES ASSUME NEW i \in 1 .. Len(Tail(cmds))
                   PROVE  Tail(cmds)[i] = accepted[Len(issued') + i]
        BY <2>3 DEF RunBegin
      <4>1. i + 1 \in 1 .. Len(cmds) /\ i \in Nat
        BY <2>2
      <4>2. cmds[i + 1] = accepted[Len(issued) + (i + 1)]
        BY <4>1, <1>1 DEF InOrder
      <4>3. Len(issued) + (i + 1) = Len(issued') + i
        BY <4>1, <2>5
      <4> QED
        BY <4>2, <4>3, <2>2
    <3> QED
      BY <3>2, <3>3, <3>4 DEF InOrder
  <2>9. RequestsHonoured'
    <3> SUFFICES ASSUME NEW c \in Cmd, asked[c] > 0
                 PROVE  \/ \E i \in asked[c] .. Len(issued') : issued'[i] = Query(c)
                        \/ \E i \in 1 .. Len(Tail(cmds)) : Tail(cmds)[i] = c
      BY <2>3 DEF RunBegin, RequestsHonoured
    <3>1. asked[c] \in Nat /\ asked[c] <= Len(issued) + 1
      BY <2>5 DEF SchedTypeOK
    <3>2. CASE \E i \in asked[c] .. Len(issued) : issued[i] = Query(c)
      BY <3>1, <3>2, <2>5
    <3>3. CASE \E i \in 1 .. Len(cmds) : cmds[i] = c
      <4>1. PICK i \in 1 .. Len(cmds) : cmds[i] = c
        BY <3>3
      <4>2. CASE i = 1
        BY <4>1, <4>2, <2>2, <2>5, <3>1
      <4>3. CASE i # 1
        <5>1. i - 1 \in 1 .. Len(Tail(cmds)) /\ (i - 1) + 1 = i
          BY <4>3, <2>2
        <5> QED
          BY <4>1, <5>1, <2>2
      <4> QED
        BY <4>2, <4>3
    <3> QED
      BY <3>2, <3>3, <1>1 DEF RequestsHonoured
  <2> QED
    BY <2>6, <2>7, <2>8, <2>9
<1>3. CASE call' # "command"
  <2>1. issued' = issued /\ Pending' = Pending
    BY <1>1, <1>3 DEF RunBegin, Pending
  <2>2. call' # "unnamed"
    <3>1. cmds # <<>> => Head(cmds).name # NoName
      <4> SUFFICES ASSUME cmds # <<>> PROVE Head(cmds).name # NoName
        OBVIOUS
      <4>1. Head(cmds) \in Cmd
        BY TailElements DEF SchedTypeOK
      <4>2. Head(cmds).name \in Name
        BY <4>1 DEF Cmd
      <4> QED
        BY <4>2, SchedulerAssumption
    <3> QED
      BY <3>1 DEF RunBegin, NextCall
  <2>3. SchedTypeOK'
    BY <2>1, <2>2 DEF SchedTypeOK, RunBegin, NextCall, Calls
  <2>4. HeldDuringCall'
    BY <1>3 DEF HeldDuringCall, RunBegin, NextCall
  <2>5. InOrder'
    BY <2>1 DEF InOrder, RunBegin
  <2>6. RequestsHonoured'
    BY <2>1 DEF RequestsHonoured, RunBegin
  <2> QED
    BY <2>3, <2>4, <2>5, <2>6
<1> QED
  BY <1>2, <1>3

(* Returning from a call drops a command that counts as sent already, so   *)
(* nothing changes for the pending ones.                                   *)
LEMMA RunEndSchedInv ==
    ASSUME SchedInv, RunEnd
    PROVE  SchedInv'
<1> USE DEF SchedInv
<1>1. call # "unnamed"
  BY DEF SchedTypeOK
<1>2. Pending' = Pending
  BY <1>1 DEF RunEnd, Pending
<1>3. SchedTypeOK'
  <2>1. cmds' \in Seq(Cmd)
    BY <1>1, TailElements DEF RunEnd, SchedTypeOK, HeldDuringCall
  <2>2. next_task' \in 0 .. Len(Task) - 1
    BY DEF RunEnd, SchedTypeOK, Task
  <2> QED
    BY <2>1, <2>2 DEF RunEnd, SchedTypeOK, Calls
<1>4. HeldDuringCall'
  BY DEF RunEnd, HeldDuringCall
<1>5. InOrder'
  BY <1>2 DEF RunEnd, InOrder
<1>6. RequestsHonoured'
  BY <1>2 DEF RunEnd, RequestsHonoured
<1> QED
  BY <1>3, <1>4, <1>5, <1>6

(* addCmd() runs with no call in progress: what it compares the command    *)
(* with, and what it appends it to, is pending to the last entry.          *)
LEMMA AddCmdSchedInv ==
    ASSUME SchedInv, NEW cmd \in AnyCmd, AddCmd(cmd)
    PROVE  SchedInv'
<1> USE DEF SchedInv
<1>1. CASE cmd.name = NoName
  BY <1>1 DEF AddCmd, SchedTypeOK, HeldDuringCall, InOrder, RequestsHonoured, Pending
<1>2. CASE cmd.name # NoName
  <2>1. cmd \in Cmd
    BY <1>2 DEF AnyCmd, Cmd
  <2>2. call = "none" /\ Pending = cmds /\ Pending' = cmds'
    BY <1>2 DEF AddCmd, HeldDuringCall, Pending
  <2>3. /\ asked' = [asked EXCEPT ![cmd] = Len(issued) + 1]
        /\ issued' = issued
        /\ Len(issued) \in Nat
        /\ asked \in [Cmd -> 0 .. Len(issued) + 1]
    BY <1>2 DEF AddCmd, SchedTypeOK
  <2>4. asked' \in [Cmd -> 0 .. Len(issued') + 1]
    BY <2>1, <2>3
  <2>5. HeldDuringCall'
    BY <2>2 DEF AddCmd, HeldDuringCall
  <2>6. CASE Repeats(cmd)
    <3>1. cmds' = cmds /\ accepted' = accepted
      BY <2>6 DEF AddCmd
    <3>2. SchedTypeOK'
      BY <2>4, <3>1 DEF AddCmd, SchedTypeOK
    <3>3. InOrder'
      BY <2>2, <2>3, <3>1 DEF InOrder
    <3>4. RequestsHonoured'
      <4> SUFFICES ASSUME NEW c \in Cmd, asked'[c] > 0
                   PROVE  \/ \E i \in asked'[c] .. Len(issued) : issued[i] = Query(c)
                          \/ \E i \in 1 .. Len(cmds) : cmds[i] = c
        BY <2>2, <2>3, <3>1 DEF RequestsHonoured
      <4>1. CASE c = cmd
        <5>1. cmds[Len(cmds)] = c /\ Len(cmds) \in 1 .. Len(cmds)
          BY <4>1, <2>6, EmptySeq DEF Repeats, SchedTypeOK
        <5> QED
          BY <5>1
      <4>2. CASE c # cmd
        BY <4>2, <2>2, <2>3 DEF RequestsHonoured
      <4> QED
        BY <4>1, <4>2
    <3> QED
      BY <2>5, <3>2, <3>3, <3>4
  <2>7. CASE ~Repeats(cmd)
    <3>1. cmds' = Append(cmds, cmd) /\ accepted' = Append(accepted, cmd)
      BY <1>2, <2>7 DEF AddCmd
    <3>2. /\ cmds' \in Seq(Cmd)
          /\ Len(cmds) \in Nat
          /\ Len(cmds') = Len(cmds) + 1
          /\ \A i \in 1 .. Len(cmds) : cmds'[i] = cmds[i]
          /\ cmds'[Len(cmds) + 1] = cmd
      BY <2>1, <3>1, AppendElements DEF SchedTypeOK
    <3>3. /\ accepted' \in Seq(Cmd)
          /\ Len(accepted) \in Nat
          /\ Len(accepted') = Len(accepted) + 1
          /\ \A i \in 1 .. Len(accepted) : accepted'[i] = accepted[i]
          /\ accepted'[Len(accepted) + 1] = cmd
      BY <2>1, <3>1, AppendElements DEF SchedTypeOK
    <3>4. SchedTypeOK'
      BY <2>4, <3>2, <3>3 DEF AddCmd, SchedTypeOK
    <3>5. Len(accepted) = Len(issued) + Len(cmds)
      BY <2>2 DEF InOrder
    <3>6. InOrder'
      <4>1. \A i \in 1 .. Len(issued) : i \in 1 .. Len(accepted) /\ issued[i] = Query(accepted[i])
        BY <2>3, <3>2, <3>5 DEF InOrder
      <4>2. \A i \in 1 .. Len(issued') : issued'[i] = Query(accepted'[i])
        BY <4>1, <2>3, <3>3
      <4>3. ASSUME NEW i \in 1 .. Len(cmds')
            PROVE  cmds'[i] = accepted'[Len(issued') + i]
        <5>1. CASE i = Len(cmds) + 1
          BY <5>1, <2>3, <3>2, <3>3, <3>5
        <5>2. CASE i \in 1 .. Len(cmds)
          <6>1. Len(issued) + i \in 1 .. Len(accepted)
            BY <5>2, <2>3, <3>2, <3>5
          <6>2. cmds[i] = accepted[Len(issued) + i]
            BY <5>2, <2>2 DEF InOrder
          <6> QED
            BY <5>2, <6>1, <6>2, <2>3, <3>2, <3>3
        <5> QED
          BY <5>1, <5>2, <3>2
      <4> QED
        BY <4>2, <4>3, <2>2, <2>3, <3>2, <3>3, <3>5 DEF InOrder
    <3>7. RequestsHonoured'
      <4> SUFFICES ASSUME NEW c \in Cmd, asked'[c] > 0
                   PROVE  \/ \E i \in asked'[c] .. Len(issued) : issued[i] = Query(c)
                          \/ \E i \in 1 .. Len(cmds') : cmds'[i] = c
        BY <2>2, <2>3 DEF RequestsHonoured
      <4>1. CASE c = cmd
        BY <4>1, <3>2
      <4>2. CASE c # cmd
        <5>1. asked'[c] = asked[c]
          BY <4>2, <2>3
        <5> QED
          BY <5>1, <2>2, <3>2 DEF RequestsHonoured
      <4> QED
        BY <4>1, <4>2
    <3> QED
      BY <2>5, <3>4, <3>6, <3>7
  <2> QED
    BY <2>6, <2>7
<1> QED
  BY <1>1, <1>2

-----------------------------------------------------------------------------
(* Every step of the scheduler keeps the inductive invariant.              *)
LEMMA NextSchedInv == SchedInv /\ [SchedNext]_schedVars => SchedInv'
<1> SUFFICES ASSUME SchedInv, [SchedNext]_schedVars PROVE SchedInv'
  OBVIOUS
<1>1. ASSUME NEW running \in BOOLEAN, RunBegin(running) PROVE SchedInv'
  BY <1>1, RunBeginSchedInv
<1>2. CASE RunEnd
  BY <1>2, RunEndSchedInv
<1>3. ASSUME NEW cmd \in AnyCmd, AddCmd(cmd) PROVE SchedInv'
  BY <1>3, AddCmdSchedInv
<1>4. CASE UNCHANGED schedVars
  BY <1>4 DEF schedVars, SchedInv, SchedTypeOK, HeldDuringCall, InOrder,
              RequestsHonoured, Pending
<1> QED
  BY <1>1, <1>2, <1>3, <1>4 DEF SchedNext

(* SchedInv holds in every reachable state, for every set of commands and  *)
(* every number of requests.                                               *)
THEOREM SchedInvariant == SchedSpec => []SchedInv
  BY InitSchedInv, NextSchedInv, PTL DEF SchedSpec

(* The state is well typed; in particular the deque never holds a nameless *)
(* command and next_task is always the index of a task.                    *)
THEOREM SchedTypeCorrect == SchedSpec => []SchedTypeOK
<1>1. SchedInv => SchedTypeOK
  BY DEF SchedInv
<1> QED
  BY <1>1, SchedInvariant, PTL

(* The command being executed is the head of the deque from the choice to  *)
(* the pop, because podman_sched is held in between.                       *)
THEOREM SchedHeldDuringCall == SchedSpec => []HeldDuringCall
<1>1. SchedInv => HeldDuringCall
  BY DEF SchedInv
<1> QED
  BY <1>1, SchedInvariant, PTL

(* The engine is sent the accepted commands in order and once each.        *)
THEOREM SchedInOrder == SchedSpec => []InOrder
<1>1. SchedInv => InOrder
  BY DEF SchedInv
<1> QED
  BY <1>1, SchedInvariant, PTL

(* No request of a client is absorbed by a command already sent.           *)
THEOREM SchedRequestsHonoured == SchedSpec => []RequestsHonoured
<1>1. SchedInv => RequestsHonoured
  BY DEF SchedInv
<1> QED
  BY <1>1, SchedInvariant, PTL

-----------------------------------------------------------------------------
(* The scheduler starts as an empty command service.                       *)
LEMMA InitRefines == SchedInit => Service!Init
  BY DEF SchedInit, Service!Init, Pending

(* Entering run() with a command is the service's Perform, accepting one   *)
(* is its Submit, and no other step shows.                                 *)
LEMMA NextRefines ==
    ASSUME SchedInv, SchedInv', [SchedNext]_schedVars
    PROVE  [Service!Next]_(Service!vars)
<1> USE DEF SchedInv
<1> DEFINE Shown == Service!Perform \/ (\E c \in Cmd : Service!Submit(c))
                    \/ UNCHANGED <<Pending, issued>>
<1>1. ASSUME NEW running \in BOOLEAN, RunBegin(running) PROVE Shown
  <2>1. call = "none" /\ Pending = cmds
    BY <1>1 DEF RunBegin, HeldDuringCall, Pending
  <2>2. CASE call' = "command"
    <3>1. cmds # <<>>
      BY <1>1, <2>2 DEF RunBegin, NextCall
    <3>2. issued' = Append(issued, Query(Head(cmds))) /\ Pending' = Tail(cmds)
      BY <1>1, <2>2 DEF RunBegin, Pending
    <3> QED
      BY <2>1, <3>1, <3>2 DEF Service!Perform
  <2>3. CASE call' # "command"
    BY <1>1, <2>1, <2>3 DEF RunBegin, Pending
  <2> QED
    BY <2>2, <2>3
<1>2. ASSUME RunEnd PROVE Shown
  BY <1>2 DEF RunEnd, Pending, SchedTypeOK
<1>3. ASSUME NEW cmd \in AnyCmd, AddCmd(cmd)
      PROVE  Shown
  <2>1. CASE cmd.name = NoName \/ Repeats(cmd)
    BY <1>3, <2>1 DEF AddCmd, Pending
  <2>2. CASE ~(cmd.name = NoName \/ Repeats(cmd))
    <3>1. cmd \in Cmd
      BY <2>2 DEF AnyCmd, Cmd
    <3>2. Pending = cmds /\ Pending' = cmds'
      BY <1>3, <2>2 DEF AddCmd, HeldDuringCall, Pending
    <3>3. Service!Submit(cmd)
      BY <1>3, <2>2, <3>2 DEF AddCmd, Service!Submit
    <3> QED
      BY <3>1, <3>3
  <2> QED
    BY <2>1, <2>2
<1>4. ASSUME UNCHANGED schedVars PROVE Shown
  BY <1>4 DEF schedVars, Pending
<1>5. Shown => [Service!Next]_(Service!vars)
  BY DEF Service!Next, Service!vars
<1> HIDE DEF Shown
<1>6. Shown
  BY <1>1, <1>2, <1>3, <1>4 DEF SchedNext
<1> QED
  BY <1>5, <1>6

(* The scheduler implements the command service.                           *)
THEOREM SchedImplementsService == SchedSpec => ImplementsService
<1>1. SchedInit => Service!Init
  BY InitRefines
<1>2. SchedInv /\ SchedInv' /\ [SchedNext]_schedVars => [Service!Next]_(Service!vars)
  BY NextRefines
<1> QED
  BY <1>1, <1>2, SchedInvariant, PTL DEF SchedSpec, ImplementsService, Service!Spec
=============================================================================
