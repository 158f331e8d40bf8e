--------------------------- MODULE LogStoreProofs ---------------------------
(***************************************************************************)
(* Theorems about LogStore, for every size of the store, every log level   *)
(* and any number of messages.                                             *)
(***************************************************************************)
EXTENDS LogStore, FoldLemmas

LogEntry == [type : Types, msg : Msgs, count : Nat \ {0}]

(* All that is there before the level is set came before.                  *)
EarlyPlace ==
    phase # "runs" => \A i \in DOMAIN store : <<store[i].type, store[i].msg>> \in early

LogInv == LogTypeOK /\ NothingUnseen /\ EarlyPlace

LEMMA InitLogInv == Init => LogInv
<1> SUFFICES ASSUME Init PROVE LogInv
  OBVIOUS
<1>0. store = <<>> /\ MaxSize \in Nat
  BY LogAssumption DEF Init
<1>1. DOMAIN store = {} /\ store \in Seq(LogEntry)
  BY <1>0
<1>2. Len(store) <= MaxSize + 1
  BY <1>0
<1> QED
  BY <1>1, <1>2 DEF Init, LogInv, LogTypeOK, NothingUnseen, EarlyPlace, LogEntry

(* All entries but the last.                                               *)
LEMMA FrontEntries ==
    ASSUME NEW s \in Seq(LogEntry), s # <<>>
    PROVE  /\ Front(s) \in Seq(LogEntry) /\ Len(Front(s)) = Len(s) - 1
           /\ \A j \in 1 .. Len(s) - 1 : Front(s)[j] = s[j]
<1> DEFINE n == Len(s) - 1
<1>1. Len(s) \in Nat \ {0}
  BY LenProperties, EmptySeq
<1>2. n \in Int /\ n >= 0 /\ \A j \in 1 .. n : s[j] \in LogEntry
  BY <1>1, ElementOfSeq
<1> HIDE DEF n
<1>3. /\ SubSeq(s, 1, n) \in Seq(LogEntry)
      /\ Len(SubSeq(s, 1, n)) = IF 1 <= n THEN n - 1 + 1 ELSE 0
      /\ \A j \in 1 .. n - 1 + 1 : SubSeq(s, 1, n)[j] = s[1 + j - 1]
  BY <1>2, SubSeqProperties
<1>4. /\ SubSeq(s, 1, n) \in Seq(LogEntry) /\ Len(SubSeq(s, 1, n)) = n
      /\ \A j \in 1 .. n : SubSeq(s, 1, n)[j] = s[1 + j - 1]
  BY <1>2, <1>3
<1>5. \A j \in 1 .. n : SubSeq(s, 1, n)[j] = s[j]
  BY <1>2, <1>4
<1>6. Front(s) = SubSeq(s, 1, n)
  BY DEF Front, n
<1>7. /\ Front(s) \in Seq(LogEntry) /\ Len(Front(s)) = n
      /\ \A j \in 1 .. n : Front(s)[j] = s[j]
  BY <1>4, <1>5, <1>6
<1> QED
  BY <1>7 DEF n

(* What dropping the oldest entries leaves is the entries behind them, no  *)
(* more than MaxSize.                                                      *)
LEMMA KeptEntries ==
    ASSUME NEW s \in Seq(LogEntry)
    PROVE  LET kept == SubSeq(s, Dropped(s) + 1, Len(s)) IN
           /\ Dropped(s) \in 0 .. Len(s) /\ Len(kept) = Len(s) - Dropped(s)
           /\ \A i \in 1 .. Len(kept) : kept[i] = s[Dropped(s) + i]
           /\ kept \in Seq(LogEntry) /\ Len(kept) <= MaxSize
           /\ \A i \in DOMAIN kept : \E j \in DOMAIN s : kept[i] = s[j]
<1> DEFINE n == Dropped(s)
           kept == SubSeq(s, n + 1, Len(s))
<1>1. Len(s) \in Nat /\ n \in 0 .. Len(s) /\ Len(s) - n <= MaxSize
  <2>1. Len(s) \in Nat /\ MaxSize \in Nat
    BY LenProperties, LogAssumption
  <2> QED
    BY <2>1 DEF Dropped
<1> HIDE DEF n
<1>2. /\ kept \in Seq(LogEntry) /\ Len(kept) = Len(s) - n
      /\ \A i \in 1 .. Len(kept) : kept[i] = s[n + i]
  BY <1>1, SubSeqProperties
<1> HIDE DEF kept
<1>3. \A i \in DOMAIN kept : n + i \in DOMAIN s
  BY <1>1, <1>2, LenProperties
<1>4. /\ n \in 0 .. Len(s) /\ Len(kept) = Len(s) - n
      /\ \A i \in 1 .. Len(kept) : kept[i] = s[n + i]
      /\ kept \in Seq(LogEntry) /\ Len(kept) <= MaxSize
      /\ \A i \in DOMAIN kept : \E j \in DOMAIN s : kept[i] = s[j]
  BY <1>1, <1>2, <1>3, LenProperties
<1> QED
  BY <1>4 DEF kept, n

(* One message: what stays in the store was there, what comes is the       *)
(* message, and it is shown by Echo() or, as the notice says, was before,  *)
(* if it did not come early.                                               *)
LEMMA ProcessEntryInv ==
    ASSUME LogInv, NEW type \in Types, NEW msg \in Msgs, ProcessEntry(type, msg)
    PROVE  /\ store' \in Seq(LogEntry) /\ Len(store') <= MaxSize + 1
           /\ last_msg' \in Msgs \cup {"", Notice}
           /\ shown' \subseteq Types \X Msgs /\ early' \subseteq Types \X Msgs
           /\ NothingUnseen'
           /\ phase # "runs" => \A i \in DOMAIN store' : <<store'[i].type, store'[i].msg>> \in early'
<1> DEFINE last == LastOf(store)
           again == Equals(type, msg, last)
           index == IF again THEN 0 ELSE LastIndexOf(type, msg)
           others == IF again THEN Front(store) ELSE store
           kept == SubSeq(others, Dropped(others) + 1, Len(others))
           new == [type |-> type, msg |-> msg, count |-> IF again THEN last.count + 1 ELSE 1]
           Was(e) == \E j \in DOMAIN store : e.type = store[j].type /\ e.msg = store[j].msg
<1>1. store \in Seq(LogEntry) /\ Len(store) \in Nat
  BY LenProperties DEF LogInv, LogTypeOK, LogEntry
<1>2. /\ store' = IF index = 0 THEN Append(kept, new) ELSE [kept EXCEPT ![index].count = @ + 1]
      /\ Echo(type, msg) /\ log_level' = log_level
  BY DEF ProcessEntry
<1>3. again => store # <<>> /\ last = store[Len(store)]
  <2>1. store = <<>> => ~again
    BY LogAssumption DEF LastOf, Equals
  <2> QED
    BY <2>1 DEF LastOf, Last
<1>4. others \in Seq(LogEntry) /\ \A j \in DOMAIN others : j \in DOMAIN store /\ others[j] = store[j]
  <2>1. CASE ~again
    BY <1>1, <2>1
  <2>2. CASE again
    <3>1. /\ Front(store) \in Seq(LogEntry) /\ Len(Front(store)) = Len(store) - 1
          /\ \A j \in 1 .. Len(store) - 1 : Front(store)[j] = store[j]
      BY <1>1, <1>3, <2>2, FrontEntries
    <3> QED
      BY <1>1, <2>2, <3>1
  <2> QED
    BY <2>1, <2>2
<1>5. new \in LogEntry
  <2>1. again => last \in LogEntry
    BY <1>1, <1>3
  <2>2. (IF again THEN last.count + 1 ELSE 1) \in Nat \ {0}
    BY <2>1 DEF LogEntry
  <2> QED
    BY <2>2 DEF LogEntry
<1> HIDE DEF last, again, index, others, new
<1>6. /\ kept \in Seq(LogEntry) /\ Len(kept) <= MaxSize /\ Len(kept) \in Nat
      /\ \A i \in DOMAIN kept : \E j \in DOMAIN others : kept[i] = others[j]
  BY <1>4, KeptEntries, LenProperties
<1>7. \A i \in DOMAIN kept : Was(kept[i])
  BY <1>4, <1>6
<1> HIDE DEF kept
<1>8. /\ store' \in Seq(LogEntry) /\ Len(store') <= MaxSize + 1
      /\ \A i \in DOMAIN store' : Was(store'[i]) \/ store'[i] = new
  <2>0. MaxSize \in Nat
    BY LogAssumption
  <2>1. CASE index = 0
    <3>1. store' = Append(kept, new)
      BY <1>2, <2>1
    <3>2. /\ store' \in Seq(LogEntry) /\ Len(store') = Len(kept) + 1
          /\ \A i \in 1 .. Len(kept) : store'[i] = kept[i]
          /\ store'[Len(kept) + 1] = new
      BY <3>1, <1>5, <1>6, AppendProperties
    <3> QED
      BY <1>6, <1>7, <2>0, <3>2, LenProperties
  <2>2. CASE index # 0
    <3>1. store' = [kept EXCEPT ![index].count = @ + 1]
      BY <1>2, <2>2
    <3>2. \A e \in LogEntry : [e EXCEPT !.count = @ + 1] \in LogEntry
      BY DEF LogEntry
    <3>3. DOMAIN store' = DOMAIN kept /\ \A i \in DOMAIN kept :
             store'[i] \in LogEntry /\ store'[i].type = kept[i].type /\ store'[i].msg = kept[i].msg
      <4>1. \A i \in DOMAIN kept : kept[i] \in LogEntry
        BY <1>6
      <4> QED
        BY <3>1, <3>2, <4>1 DEF LogEntry
    <3>4. store' \in Seq(LogEntry) /\ Len(store') = Len(kept)
      <4>1. CASE index \in DOMAIN kept
        <5>1. index \in 1 .. Len(kept) /\ [kept[index] EXCEPT !.count = @ + 1] \in LogEntry
          BY <1>6, <3>2, <4>1, LenProperties, ElementOfSeq
        <5>2. store' = [kept EXCEPT ![index] = [kept[index] EXCEPT !.count = @ + 1]]
          BY <3>1, <4>1
        <5> QED
          BY <1>6, <5>1, <5>2, ExceptSeq
      <4>2. CASE index \notin DOMAIN kept
        <5>1. store' = kept
          BY <1>6, <3>1, <4>2
        <5> QED
          BY <1>6, <5>1
      <4> QED
        BY <4>1, <4>2
    <3> QED
      BY <1>6, <1>7, <2>0, <3>3, <3>4
  <2> QED
    BY <2>1, <2>2
<1>9. /\ last_msg' \in Msgs \cup {"", Notice} /\ shown' \subseteq Types \X Msgs /\ shown \subseteq shown'
      /\ TypeShouldEcho(type) /\ OutputLevel(type) => <<type, msg>> \in shown' \cup early
  <2> DEFINE enabled == {i \in DOMAIN store : OutputLevel(store[i].type)}
             repeats == \E i \in enabled : (\A j \in enabled : j <= i) /\ Equals(type, msg, store[i])
  <2>1. IF TypeShouldEcho(type) /\ OutputLevel(type) /\ ~(repeats /\ last_msg = Notice)
        THEN /\ last_msg' = IF repeats THEN Notice ELSE msg
             /\ shown' = IF repeats THEN shown ELSE shown \cup {<<type, msg>>}
        ELSE UNCHANGED <<last_msg, shown>>
    BY <1>2 DEF Echo
  <2>2. repeats /\ TypeShouldEcho(type) /\ OutputLevel(type) => <<type, msg>> \in shown \cup early
    BY DEF LogInv, NothingUnseen, Equals
  <2>3. shown \subseteq Types \X Msgs /\ last_msg \in Msgs \cup {"", Notice}
    BY DEF LogInv, LogTypeOK
  <2> HIDE DEF repeats
  <2>4. CASE ~(TypeShouldEcho(type) /\ OutputLevel(type))
    <3>1. last_msg' = last_msg /\ shown' = shown
      BY <2>1, <2>4, Zenon
    <3> QED
      BY <2>3, <2>4, <3>1, Zenon
  <2>5. CASE TypeShouldEcho(type) /\ OutputLevel(type) /\ repeats
    <3>1. shown' = shown /\ (last_msg' = last_msg \/ last_msg' = Notice)
      BY <2>1, <2>5, Zenon
    <3>2. last_msg' \in Msgs \cup {"", Notice} /\ shown' \subseteq Types \X Msgs /\ shown \subseteq shown'
      BY <2>3, <3>1
    <3>3. <<type, msg>> \in shown' \cup early
      BY <2>2, <2>5, <3>1, Zenon
    <3> QED
      BY <3>2, <3>3, Zenon
  <2>6. CASE TypeShouldEcho(type) /\ OutputLevel(type) /\ ~repeats
    <3>1. shown' = shown \cup {<<type, msg>>} /\ last_msg' = msg
      BY <2>1, <2>6, Zenon
    <3>2. /\ last_msg' \in Msgs \cup {"", Notice} /\ shown' \subseteq Types \X Msgs
          /\ shown \subseteq shown' /\ <<type, msg>> \in shown'
      <4>1. <<type, msg>> \in Types \X Msgs
        OBVIOUS
      <4>2. shown' \subseteq Types \X Msgs
        BY <2>3, <3>1, <4>1
      <4>3. shown \subseteq shown' /\ <<type, msg>> \in shown'
        BY <3>1, Zenon
      <4>4. last_msg' \in Msgs \cup {"", Notice}
        BY <3>1
      <4> QED
        BY <4>2, <4>3, <4>4
    <3> QED
      BY <3>2, Zenon
  <2> QED
    BY <2>4, <2>5, <2>6, Zenon
<1>10. /\ early' = IF phase = "runs" THEN early ELSE early \cup {<<type, msg>>}
       /\ early \subseteq Types \X Msgs
  BY DEF ProcessEntry, LogInv, LogTypeOK
<1>11. early \subseteq early' /\ early' \subseteq Types \X Msgs
  BY <1>10
<1>12. NothingUnseen'
  <2>1. \A t : /\ TypeShouldEcho(t)' = TypeShouldEcho(t)
               /\ OutputLevel(t)' = OutputLevel(t)
    BY <1>2 DEF TypeShouldEcho, OutputLevel
  <2> SUFFICES ASSUME NEW i \in DOMAIN store',
                      TypeShouldEcho(store'[i].type), OutputLevel(store'[i].type)
               PROVE  <<store'[i].type, store'[i].msg>> \in shown' \cup early'
    BY <1>2 DEF NothingUnseen, TypeShouldEcho, OutputLevel
  <2>2. CASE Was(store'[i])
    <3>1. <<store'[i].type, store'[i].msg>> \in shown \cup early
      BY <2>2 DEF LogInv, NothingUnseen
    <3> QED
      BY <1>9, <1>11, <3>1
  <2>3. CASE store'[i] = new
    <3>1. store'[i].type = type /\ store'[i].msg = msg
      BY <2>3 DEF new
    <3>2. <<type, msg>> \in shown' \cup early
      BY <1>9, <3>1
    <3> QED
      BY <1>11, <3>1, <3>2
  <2> QED
    BY <1>8, <2>2, <2>3
<1>13. ASSUME phase # "runs", NEW i \in DOMAIN store'
       PROVE  <<store'[i].type, store'[i].msg>> \in early'
  <2>1. CASE Was(store'[i])
    <3>1. <<store'[i].type, store'[i].msg>> \in early
      BY <1>13, <2>1 DEF LogInv, EarlyPlace
    <3> QED
      BY <1>11, <3>1
  <2>2. CASE store'[i] = new
    <3>1. store'[i].type = type /\ store'[i].msg = msg
      BY <2>2 DEF new
    <3> QED
      BY <1>10, <1>13, <3>1
  <2> QED
    BY <1>8, <2>1, <2>2
<1> QED
  BY <1>8, <1>9, <1>11, <1>12, <1>13

LEMMA TakesEntry ==
    ASSUME Register \/ Message
    PROVE  \E type \in Types, msg \in Msgs : ProcessEntry(type, msg)
<1>1. CASE Register
  BY <1>1, LogAssumption DEF Register
<1>2. CASE Message
  <2>1. PICK x \in Logged : ProcessEntry(x[1], x[2])
    BY <1>2, LogAssumption DEF Message
  <2>2. x[1] \in Types /\ x[2] \in Msgs
    BY LogAssumption
  <2> QED
    BY <2>1, <2>2
<1> QED
  BY <1>1, <1>2

(* Every step takes a message or leaves the store alone.                   *)
LEMMA NextEntry ==
    ASSUME [Next]_vars
    PROVE  \/ \E type \in Types, msg \in Msgs : ProcessEntry(type, msg)
           \/ UNCHANGED logVars
  BY TakesEntry DEF Next, ParseCmdLine, vars

(* Setting the level makes nothing unseen: all that is there came early.   *)
LEMMA NextLogInv == LogInv /\ [Next]_vars => LogInv'
<1> SUFFICES ASSUME LogInv, [Next]_vars PROVE LogInv'
  OBVIOUS
<1>1. CASE UNCHANGED vars
  BY <1>1 DEF vars, logVars, LogInv, LogTypeOK, NothingUnseen, EarlyPlace, TypeShouldEcho, OutputLevel
<1>2. CASE ParseCmdLine
  <2>1. \A i \in DOMAIN store : <<store[i].type, store[i].msg>> \in early
    BY <1>2 DEF ParseCmdLine, LogInv, EarlyPlace
  <2>2. UNCHANGED logVars /\ phase' = "runs"
    BY <1>2 DEF ParseCmdLine
  <2> QED
    BY <2>1, <2>2 DEF logVars, LogInv, LogTypeOK, NothingUnseen, EarlyPlace
<1>3. CASE Register \/ Message
  <2>1. PICK type \in Types, msg \in Msgs : ProcessEntry(type, msg)
    BY <1>3, TakesEntry
  <2>2. phase' \in {"loading", "cmdline", "runs"} /\ (phase' # "runs" => phase # "runs")
    BY <1>3 DEF Register, Message, LogInv, LogTypeOK
  <2>3. log_level' = log_level /\ (phase # "runs" => log_level = 0)
    BY <2>1 DEF ProcessEntry, LogInv, LogTypeOK
  <2>4. /\ store' \in Seq(LogEntry) /\ Len(store') <= MaxSize + 1
        /\ last_msg' \in Msgs \cup {"", Notice}
        /\ shown' \subseteq Types \X Msgs /\ early' \subseteq Types \X Msgs
        /\ NothingUnseen'
        /\ phase # "runs" => \A i \in DOMAIN store' : <<store'[i].type, store'[i].msg>> \in early'
    BY <2>1, ProcessEntryInv
  <2>5. LogTypeOK'
    BY <2>2, <2>3, <2>4 DEF LogTypeOK, LogEntry
  <2>6. EarlyPlace'
    BY <2>2, <2>4 DEF EarlyPlace
  <2> QED
    BY <2>4, <2>5, <2>6 DEF LogInv
<1> QED
  BY <1>1, <1>2, <1>3 DEF Next

(* The store keeps to its size and one entry more.                         *)
THEOREM LogTypeCorrect == Spec => []LogTypeOK
<1>1. LogInv => LogTypeOK
  BY DEF LogInv
<1> QED
  BY <1>1, InitLogInv, NextLogInv, PTL DEF Spec

(* A notice of a duplicate never stands for a message that was not seen,   *)
(* if that did not come before the level was set: the entries compared     *)
(* with are filtered by level, and they were shown.                        *)
THEOREM LogNothingUnseen == Spec => []NothingUnseen
<1>1. LogInv => NothingUnseen
  BY DEF LogInv
<1> QED
  BY <1>1, InitLogInv, NextLogInv, PTL DEF Spec

-----------------------------------------------------------------------------
(* Two entries that say the same.                                          *)
Same(d, e) == d.type = e.type /\ d.msg = e.msg

(* The store after a message: the len entries behind the oldest n, with    *)
(* the message they had, and perhaps the message itself behind them; then  *)
(* it has taken the place of the last entry, or is not the last of its     *)
(* type.                                                                   *)
LEMMA StoreAfter ==
    ASSUME LogInv, NEW type \in Types, NEW msg \in Msgs, ProcessEntry(type, msg)
    PROVE  \E n, len \in Nat :
             /\ n + len <= Len(store)
             /\ \A i \in 1 .. len : Same(store'[i], store[n + i])
             /\ \/ Len(store') = len
                \/ /\ Len(store') = len + 1
                   /\ store'[len + 1].type = type /\ store'[len + 1].msg = msg
                   /\ \/ /\ n + len + 1 = Len(store)
                         /\ store[Len(store)].type = type /\ store[Len(store)].msg = msg
                      \/ n + len = Len(store) /\ LastIndexOf(type, msg) = 0
<1> DEFINE last == LastOf(store)
           again == Equals(type, msg, last)
           index == IF again THEN 0 ELSE LastIndexOf(type, msg)
           others == IF again THEN Front(store) ELSE store
           n == Dropped(others)
           kept == SubSeq(others, n + 1, Len(others))
           new == [type |-> type, msg |-> msg, count |-> IF again THEN last.count + 1 ELSE 1]
<1>1. store \in Seq(LogEntry) /\ Len(store) \in Nat
  BY LenProperties DEF LogInv, LogTypeOK, LogEntry
<1>2. store' = IF index = 0 THEN Append(kept, new) ELSE [kept EXCEPT ![index].count = @ + 1]
  BY DEF ProcessEntry
<1>3. new.type = type /\ new.msg = msg /\ new \in LogEntry
  <2>1. again => last \in LogEntry
    <3>1. store = <<>> => ~again
      BY LogAssumption DEF LastOf, Equals
    <3>2. store # <<>> => last = store[Len(store)] /\ Len(store) \in 1 .. Len(store)
      BY <1>1, EmptySeq DEF LastOf, Last
    <3> QED
      BY <1>1, <3>1, <3>2, ElementOfSeq
  <2>2. (IF again THEN last.count + 1 ELSE 1) \in Nat \ {0}
    BY <2>1 DEF LogEntry
  <2> QED
    BY <2>2 DEF LogEntry
<1>4. again => store # <<>> /\ store[Len(store)].type = type /\ store[Len(store)].msg = msg
  <2>1. store = <<>> => ~again
    BY LogAssumption DEF LastOf, Equals
  <2> QED
    BY <2>1 DEF LastOf, Last, Equals
<1>5. /\ again => others = Front(store) /\ index = 0
      /\ ~again => others = store /\ index = LastIndexOf(type, msg)
  OBVIOUS
<1> HIDE DEF again, index, others, new
<1>6. /\ others \in Seq(LogEntry) /\ Len(others) \in Nat
      /\ again => Len(others) + 1 = Len(store)
      /\ ~again => Len(others) = Len(store)
      /\ \A j \in 1 .. Len(others) : others[j] = store[j]
  <2>1. CASE again
    <3>1. /\ Front(store) \in Seq(LogEntry) /\ Len(Front(store)) = Len(store) - 1
          /\ \A j \in 1 .. Len(store) - 1 : Front(store)[j] = store[j]
      BY <1>1, <1>4, <2>1, FrontEntries
    <3>2. Len(Front(store)) \in Nat
      BY <3>1, LenProperties
    <3> QED
      BY <1>1, <1>5, <2>1, <3>1, <3>2
  <2>2. CASE ~again
    BY <1>1, <1>5, <2>2
  <2> QED
    BY <2>1, <2>2
<1>7. /\ n \in 0 .. Len(others) /\ Len(kept) = Len(others) - n
      /\ kept \in Seq(LogEntry)
      /\ \A i \in 1 .. Len(kept) : kept[i] = others[n + i]
  BY <1>6, KeptEntries
<1> HIDE DEF n, kept
<1>8. /\ n \in Nat /\ Len(kept) \in Nat /\ n + Len(kept) = Len(others)
      /\ \A i \in 1 .. Len(kept) : kept[i] = store[n + i]
  BY <1>6, <1>7
<1>9. CASE index = 0
  <2>1. /\ Len(store') = Len(kept) + 1 /\ store'[Len(kept) + 1] = new
        /\ \A i \in 1 .. Len(kept) : store'[i] = kept[i]
    BY <1>2, <1>3, <1>7, <1>9, AppendProperties
  <2>2. \A i \in 1 .. Len(kept) : Same(store'[i], store[n + i])
    BY <1>8, <2>1 DEF Same
  <2>3. CASE again
    <3>1. n + Len(kept) + 1 = Len(store) /\ n + Len(kept) <= Len(store)
      BY <1>1, <1>6, <1>8, <2>3
    <3> QED
      BY <1>3, <1>4, <1>8, <2>1, <2>2, <2>3, <3>1
  <2>4. CASE ~again
    <3>1. n + Len(kept) = Len(store) /\ n + Len(kept) <= Len(store)
      BY <1>1, <1>6, <1>8, <2>4
    <3>2. LastIndexOf(type, msg) = 0
      BY <1>5, <1>9, <2>4
    <3> QED
      BY <1>3, <1>8, <2>1, <2>2, <3>1, <3>2
  <2> QED
    BY <2>3, <2>4
<1>10. CASE index # 0
  <2>1. store' = [kept EXCEPT ![index].count = @ + 1]
    BY <1>2, <1>10
  <2>2. \A i \in 1 .. Len(kept) : kept[i] \in LogEntry
    BY <1>7, ElementOfSeq
  <2>3. Len(store') = Len(kept) /\ \A i \in 1 .. Len(kept) : Same(store'[i], kept[i])
    BY <1>7, <2>1, <2>2 DEF Same, LogEntry
  <2>4. \A i \in 1 .. Len(kept) : Same(store'[i], store[n + i])
    BY <1>8, <2>3
  <2>5. n + Len(kept) <= Len(store)
    BY <1>1, <1>6, <1>8
  <2> QED
    BY <1>8, <2>3, <2>4, <2>5
<1> QED
  BY <1>9, <1>10

(* Between two entries of a type that say the same there is another one of *)
(* the type: so in what is kept, and a message is put behind an entry like *)
(* it only in place of the last, or with the last of its type in between.  *)
LEMMA ProcessEntryNoRepeats ==
    ASSUME LogInv, NoRepeats, NEW type \in Types, NEW msg \in Msgs, ProcessEntry(type, msg)
    PROVE  NoRepeats'
<1> DEFINE Apart(s, i, j) == \E k \in i + 1 .. j - 1 : s[k].type = s[i].type /\ s[k].msg # s[i].msg
<1>0. store \in Seq(LogEntry) /\ Len(store) \in Nat /\ DOMAIN store = 1 .. Len(store)
  BY LenProperties DEF LogInv, LogTypeOK, LogEntry
<1>1. \A i, j \in 1 .. Len(store) : i < j /\ Same(store[i], store[j]) => Apart(store, i, j)
  BY <1>0 DEF NoRepeats, Same
<1>2. PICK n, len \in Nat :
             /\ n + len <= Len(store)
             /\ \A i \in 1 .. len : Same(store'[i], store[n + i])
             /\ \/ Len(store') = len
                \/ /\ Len(store') = len + 1
                   /\ store'[len + 1].type = type /\ store'[len + 1].msg = msg
                   /\ \/ /\ n + len + 1 = Len(store)
                         /\ store[Len(store)].type = type /\ store[Len(store)].msg = msg
                      \/ n + len = Len(store) /\ LastIndexOf(type, msg) = 0
  BY StoreAfter
<1>2a. n + len <= Len(store) /\ Len(store') \in {len, len + 1}
  BY <1>2
<1>3. DOMAIN store' = 1 .. Len(store')
  BY ProcessEntryInv, LenProperties DEF LogInv, LogTypeOK
<1>4. ASSUME NEW i \in 1 .. len, NEW j \in i + 1 .. len + 1, Apart(store, n + i, n + j)
      PROVE  Apart(store', i, j)
  <2>1. PICK k \in n + i + 1 .. n + j - 1 :
           store[k].type = store[n + i].type /\ store[k].msg # store[n + i].msg
    BY <1>4
  <2>2. k - n \in i + 1 .. j - 1 /\ k - n \in 1 .. len /\ n + (k - n) = k
    OBVIOUS
  <2>3. Same(store'[k - n], store[k]) /\ Same(store'[i], store[n + i])
    BY <1>2, <2>2
  <2> QED
    BY <2>1, <2>2, <2>3 DEF Same
<1>5. ASSUME NEW i \in 1 .. Len(store'), NEW j \in 1 .. Len(store'), i < j, Same(store'[i], store'[j])
      PROVE  Apart(store', i, j)
  <2>1. CASE j \in 1 .. len
    <3>1. /\ i \in 1 .. len /\ j \in i + 1 .. len + 1
          /\ n + i \in 1 .. Len(store) /\ n + j \in 1 .. Len(store) /\ n + i < n + j
      BY <1>0, <1>2a, <1>5, <2>1
    <3>2. Same(store[n + i], store[n + j])
      BY <1>2, <1>5, <2>1, <3>1 DEF Same
    <3>3. Apart(store, n + i, n + j)
      BY <1>1, <3>1, <3>2
    <3> QED
      BY <1>4, <3>1, <3>3
  <2>2. CASE j = len + 1
    <3>1. /\ i \in 1 .. len /\ n + i \in 1 .. Len(store) /\ j \in i + 1 .. len + 1
          /\ Len(store') = len + 1
      BY <1>0, <1>2a, <1>5, <2>2
    <3>2. store[n + i].type = type /\ store[n + i].msg = msg
      BY <1>2, <1>5, <2>2, <3>1 DEF Same
    <3>3. CASE n + len + 1 = Len(store) /\ store[Len(store)].type = type /\ store[Len(store)].msg = msg
      <4>1. n + j \in 1 .. Len(store) /\ n + i < n + j /\ n + j = Len(store)
        <5>1. n + len + 1 = Len(store)
          BY <3>3
        <5>2. i \in 1 .. len
          BY <3>1
        <5>3. /\ n + (len + 1) \in 1 .. n + len + 1 /\ n + i < n + (len + 1)
              /\ n + (len + 1) = n + len + 1
          BY <5>2
        <5> QED
          BY <2>2, <5>1, <5>3
      <4>2. Apart(store, n + i, n + j)
        BY <1>1, <3>1, <3>2, <3>3, <4>1 DEF Same
      <4> QED
        BY <1>4, <3>1, <4>2
    <3>4. CASE n + len = Len(store) /\ LastIndexOf(type, msg) = 0
      <4> DEFINE same == {k \in DOMAIN store : store[k].type = type}
      <4>1. same \in SUBSET (1 .. Len(store)) /\ n + i \in same
        BY <1>0, <3>1, <3>2
      <4>2. Max(same) \in same /\ n + i <= Max(same)
        BY <1>0, <4>1, LastPlace
      <4>3. store[Max(same)].msg # msg
        BY <1>0, <3>4, <4>1, <4>2 DEF LastIndexOf
      <4>4. Max(same) \in n + i + 1 .. n + j - 1 /\ store[Max(same)].type = type
        BY <1>0, <2>2, <3>1, <3>2, <3>4, <4>1, <4>2, <4>3
      <4> HIDE DEF same
      <4>5. Apart(store, n + i, n + j)
        BY <3>2, <4>3, <4>4
      <4> QED
        BY <1>4, <3>1, <4>5
    <3> QED
      BY <1>2, <3>1, <3>3, <3>4
  <2> QED
    BY <1>2, <1>5, <2>1, <2>2
<1> HIDE DEF Apart
<1>6. \A i, j \in DOMAIN store' : i < j /\ Same(store'[i], store'[j]) => Apart(store', i, j)
  BY <1>3, <1>5
<1> QED
  BY <1>6 DEF NoRepeats, Same, Apart

(* However messages of several types come, a repetition is merged with the *)
(* last entry of its type: no two that follow each other say the same.     *)
THEOREM LogNoRepeats == Spec => []NoRepeats
<1>1. Init => NoRepeats
  <2> SUFFICES ASSUME Init PROVE NoRepeats
    OBVIOUS
  <2>1. store = <<>>
    BY DEF Init
  <2>2. DOMAIN store = {}
    BY <2>1
  <2> QED
    BY <2>2 DEF NoRepeats
<1>2. LogInv /\ NoRepeats /\ [Next]_vars => NoRepeats'
  <2>1. NoRepeats /\ UNCHANGED logVars => NoRepeats'
    BY DEF NoRepeats, logVars
  <2> QED
    BY <2>1, ProcessEntryNoRepeats, NextEntry
<1> QED
  BY <1>1, <1>2, InitLogInv, NextLogInv, PTL DEF Spec

-----------------------------------------------------------------------------
(* The totals of f over the subsets of S.                                  *)
Totals(t, f, S) ==
    /\ t \in [SUBSET S -> Nat] /\ t[{}] = 0
    /\ \A s \in SUBSET S : \A x \in s : t[s] = f[x] + t[s \ {x}]

(* Total, a fold that takes the elements in some order, is the total over  *)
(* the whole domain: the order does not matter.                            *)
LEMMA TotalTotals ==
    ASSUME NEW S, IsFiniteSet(S), NEW f \in [S -> Nat]
    PROVE  \E t : Totals(t, f, S) /\ Total(f) = t[S]
<1> DEFINE OneOf(s) == CHOOSE x \in s : TRUE
           Def(g, s) == IF s = {} THEN 0 ELSE f[OneOf(s)] + g[s \ {OneOf(s)}]
           t == CHOOSE g : g = [s \in SUBSET S |-> Def(g, s)]
<1>1. \A s : s # {} => OneOf(s) \in s
  OBVIOUS
<1> HIDE DEF OneOf
<1>2. \E g \in [SUBSET S -> Nat] : g = [s \in SUBSET S |-> Def(g, s)]
  <2> DEFINE pick == [s \in SUBSET S |-> OneOf(s)]
             h == [x \in S |-> [v \in Nat |-> f[x] + v]]
  <2>1. h \in [S -> [Nat -> Nat]] /\ \A s \in SUBSET S : s # {} => pick[s] \in s
    BY <1>1
  <2>2. \A x \in S : \A v \in Nat : h[x][v] = f[x] + v
    OBVIOUS
  <2>3. \A s \in SUBSET S : pick[s] = OneOf(s)
    OBVIOUS
  <2> HIDE DEF pick, h
  <2>4. SubsetRecursive(S, Nat, 0, pick, h)
    <3> DEFINE V == Nat
               base == 0
    <3>1. base \in V /\ h \in [S -> [V -> V]]
      BY <2>1
    <3> HIDE DEF V, base
    <3>2. SubsetRecursive(S, V, base, pick, h)
      BY <2>1, <3>1, SubsetRecursion
    <3> QED
      BY <3>2 DEF V, base
  <2>5. PICK g \in [SUBSET S -> Nat] :
           g = [s \in SUBSET S |-> IF s = {} THEN 0 ELSE h[pick[s]][g[s \ {pick[s]}]]]
    BY <2>4 DEF SubsetRecursive
  <2>6. ASSUME NEW s \in SUBSET S PROVE g[s] = Def(g, s)
    <3>1. CASE s = {}
      BY <2>5, <3>1
    <3>2. CASE s # {}
      <4>1. OneOf(s) \in S /\ g[s \ {OneOf(s)}] \in Nat
        BY <1>1, <3>2
      <4>2. g[s] = h[OneOf(s)][g[s \ {OneOf(s)}]]
        BY <2>3, <2>5, <3>2
      <4> QED
        BY <2>2, <3>2, <4>1, <4>2
    <3> QED
      BY <3>1, <3>2
  <2>7. g = [s \in SUBSET S |-> Def(g, s)]
    <3> HIDE DEF Def
    <3> QED
      BY <2>6
  <2> QED
    BY <2>7
<1>3. t = [s \in SUBSET S |-> Def(t, s)]
  <2> DEFINE Is(g) == g = [s \in SUBSET S |-> Def(g, s)]
  <2>1. \E g : Is(g)
    BY <1>2
  <2>2. Is(CHOOSE g : Is(g))
    <3> HIDE DEF Is
    <3> QED
      BY <2>1
  <2> QED
    BY <2>2
<1>4. Total(f) = t[S]
  BY DEF Total, FoldFunction, FoldFunctionOnSet, MapThenFoldSet, OneOf
<1> HIDE DEF t
<1>5. \A s \in SUBSET S : t[s] = Def(t, s)
  <2> HIDE DEF Def
  <2> QED
    BY <1>3
<1>6. \A s \in SUBSET S : t[s] \in Nat
  <2> DEFINE Typed == {s \in SUBSET S : t[s] \in Nat}
  <2>1. {} \in Typed
    <3>1. t[{}] = 0
      BY <1>5
    <3> QED
      BY <3>1
  <2>2. ASSUME NEW s \in SUBSET S, s # {}, \A x \in s : s \ {x} \in Typed PROVE s \in Typed
    <3>1. OneOf(s) \in s /\ t[s] = f[OneOf(s)] + t[s \ {OneOf(s)}]
      BY <1>1, <1>5, <2>2
    <3>2. f[OneOf(s)] \in Nat
      BY <3>1
    <3>3. s \ {OneOf(s)} \in Typed
      BY ONLY <2>2, <3>1
    <3>4. t[s \ {OneOf(s)}] \in Nat
      BY ONLY <3>3
    <3>5. t[s] \in Nat
      BY ONLY <3>1, <3>2, <3>4
    <3> QED
      BY ONLY <2>2, <3>5
  <2>3. \A s \in SUBSET S : s \in Typed
    <3> HIDE DEF Typed
    <3> QED
      BY <2>1, <2>2, SubsetInduction
  <2> QED
    BY <2>3
<1> DEFINE Good == {s \in SUBSET S : \A x \in s : t[s] = f[x] + t[s \ {x}]}
<1>7. ASSUME NEW s \in SUBSET S, s # {}, \A x \in s : s \ {x} \in Good PROVE s \in Good
  <2> DEFINE a == OneOf(s)
  <2>1. a \in s /\ t[s] = f[a] + t[s \ {a}]
    BY <1>1, <1>5, <1>7
  <2> HIDE DEF a
  <2>2. ASSUME NEW x \in s, x # a PROVE t[s] = f[x] + t[s \ {x}]
    <3>1. (s \ {a}) \ {x} = (s \ {x}) \ {a} /\ x \in s \ {a} /\ a \in s \ {x}
      BY <2>1, <2>2
    <3>2. /\ t[s \ {a}] = f[x] + t[(s \ {a}) \ {x}]
          /\ t[s \ {x}] = f[a] + t[(s \ {a}) \ {x}]
      BY <1>7, <2>1, <3>1
    <3>3. f[x] \in Nat /\ f[a] \in Nat /\ t[(s \ {a}) \ {x}] \in Nat
      BY <1>6, <2>1
    <3> QED
      BY ONLY <2>1, <3>2, <3>3
  <2> QED
    BY <2>1, <2>2
<1>8. \A s \in SUBSET S : s \in Good
  <2>1. {} \in Good
    OBVIOUS
  <2> HIDE DEF Good
  <2> QED
    BY <1>7, <2>1, SubsetInduction
<1>9. Totals(t, f, S)
  <2>1. t \in [SUBSET S -> Nat]
    <3> HIDE DEF Def, Good
    <3> QED
      BY <1>3, <1>6
  <2>2. t[{}] = 0
    BY <1>5
  <2> QED
    BY <1>8, <2>1, <2>2 DEF Totals
<1> QED
  BY <1>4, <1>9

LEMMA TotalType ==
    ASSUME NEW S, IsFiniteSet(S), NEW f \in [S -> Nat]
    PROVE  Total(f) \in Nat
<1>1. PICK t : Totals(t, f, S) /\ Total(f) = t[S]
  BY TotalTotals
<1> QED
  BY <1>1 DEF Totals

(* What is zero everywhere has the total zero.                             *)
LEMMA TotalZero ==
    ASSUME NEW S, IsFiniteSet(S), NEW f \in [S -> Nat], \A x \in S : f[x] = 0
    PROVE  Total(f) = 0
<1>1. PICK t : Totals(t, f, S) /\ Total(f) = t[S]
  BY TotalTotals
<1> DEFINE Good == {s \in SUBSET S : t[s] = 0}
<1>2. {} \in Good
  BY <1>1 DEF Totals
<1>3. ASSUME NEW s \in SUBSET S, s # {}, \A x \in s : s \ {x} \in Good PROVE s \in Good
  <2>1. PICK x \in s : TRUE
    BY <1>3
  <2>2. t[s] = f[x] + t[s \ {x}]
    BY <1>1 DEF Totals
  <2> QED
    BY <1>3, <2>1, <2>2
<1>4. \A s \in SUBSET S : s \in Good
  <2> HIDE DEF Good
  <2> QED
    BY <1>2, <1>3, SubsetInduction
<1> QED
  BY <1>1, <1>4

(* g is f, a function on S, without x.                                     *)
Without(g, R, f, S, x) ==
    /\ IsFiniteSet(S) /\ f \in [S -> Nat] /\ x \in S
    /\ R = S \ {x} /\ g \in [R -> Nat] /\ \A y \in R : g[y] = f[y]

(* The total is that of the others and one element.                        *)
LEMMA TotalWithout ==
    ASSUME NEW S, NEW f, NEW x, NEW R, NEW g, Without(g, R, f, S, x)
    PROVE  Total(f) = Total(g) + f[x]
<1>0. /\ IsFiniteSet(S) /\ f \in [S -> Nat] /\ x \in S
      /\ R = S \ {x} /\ g \in [R -> Nat] /\ \A y \in R : g[y] = f[y]
  BY DEF Without
<1>1. PICK t : Totals(t, f, S) /\ Total(f) = t[S]
  BY <1>0, TotalTotals
<1>2. PICK u : Totals(u, g, R) /\ Total(g) = u[R]
  <2>1. IsFiniteSet(R)
    BY <1>0, FS_RemoveElement
  <2>2. \E u : Totals(u, g, R) /\ Total(g) = u[R]
    BY <1>0, <2>1, TotalTotals
  <2> QED
    BY <2>2
<1> DEFINE Good == {s \in SUBSET (R) : t[s] = u[s]}
<1>3. {} \in Good
  BY <1>1, <1>2 DEF Totals
<1>4. ASSUME NEW s \in SUBSET (R), s # {}, \A y \in s : s \ {y} \in Good PROVE s \in Good
  <2>1. PICK y \in s : TRUE
    BY <1>0, <1>4
  <2>2. t[s] = f[y] + t[s \ {y}]
    BY <1>0, <1>1 DEF Totals
  <2>3. u[s] = g[y] + u[s \ {y}]
    BY <1>0, <1>2 DEF Totals
  <2>4. t[s \ {y}] = u[s \ {y}] /\ f[y] = g[y]
    BY <1>0, <1>4
  <2> QED
    BY <2>2, <2>3, <2>4
<1>5. \A s \in SUBSET (R) : s \in Good
  <2>1. IsFiniteSet(R)
    BY <1>0, FS_RemoveElement
  <2> HIDE DEF Good
  <2>2. IsFiniteSet(R) /\ \A s \in SUBSET R : s # {} /\ (\A y \in s : s \ {y} \in Good) => s \in Good
    BY <1>4, <2>1
  <2> QED
    BY <1>3, <2>2, SubsetInduction
<1>6. t[S] = f[x] + t[R] /\ t[R] = u[R] /\ f[x] \in Nat /\ t[R] \in Nat
  <2>1. t[S] = f[x] + t[R] /\ t[R] \in Nat
    BY <1>0, <1>1 DEF Totals
  <2> QED
    BY <1>0, <1>5, <2>1
<1> QED
  BY <1>1, <1>2, <1>6

(* f and g, functions on S, differ only in x.                              *)
Differ(f, g, S, x) ==
    /\ IsFiniteSet(S) /\ f \in [S -> Nat] /\ g \in [S -> Nat] /\ x \in S
    /\ \A y \in S : y # x => g[y] = f[y]

(* Where one element changes the total changes by as much.                 *)
LEMMA TotalChange ==
    ASSUME NEW S, NEW f, NEW g, NEW x, Differ(f, g, S, x)
    PROVE  Total(g) + f[x] = Total(f) + g[x]
<1>0. /\ IsFiniteSet(S) /\ f \in [S -> Nat] /\ g \in [S -> Nat] /\ x \in S
      /\ \A y \in S : y # x => g[y] = f[y]
  BY DEF Differ
<1> DEFINE R == S \ {x}
           r == [y \in R |-> f[y]]
<1>1. /\ R = S \ {x} /\ IsFiniteSet(R) /\ r \in [R -> Nat]
      /\ \A y \in R : r[y] = f[y] /\ r[y] = g[y]
  BY <1>0, FS_RemoveElement
<1> HIDE DEF r, R
<1>2. Total(f) = Total(r) + f[x]
  BY <1>0, <1>1, TotalWithout DEF Without
<1>3. Total(g) = Total(r) + g[x]
  BY <1>0, <1>1, TotalWithout DEF Without
<1>4. Total(r) \in Nat
  BY <1>1, TotalType
<1> QED
  BY <1>0, <1>2, <1>3, <1>4

-----------------------------------------------------------------------------
(* The counts of the entries of s that say one of X.                       *)
CountsIn(X, s) ==
    Total([i \in DOMAIN s |-> IF <<s[i].type, s[i].msg>> \in X THEN s[i].count ELSE 0])

(* What an entry counts in it.                                             *)
Part(X, e) == IF <<e.type, e.msg>> \in X THEN e.count ELSE 0

LEMMA CountsInParts ==
    ASSUME NEW X, NEW s \in Seq(LogEntry)
    PROVE  /\ IsFiniteSet(1 .. Len(s))
           /\ [i \in 1 .. Len(s) |-> Part(X, s[i])] \in [1 .. Len(s) -> Nat]
           /\ CountsIn(X, s) = Total([i \in 1 .. Len(s) |-> Part(X, s[i])])
           /\ CountsIn(X, s) \in Nat
<1> DEFINE n == Len(s)
           f == [i \in 1 .. n |-> Part(X, s[i])]
<1>1. n \in Nat /\ DOMAIN s = 1 .. n
  BY LenProperties
<1>2. IsFiniteSet(1 .. n)
  BY <1>1, FS_Interval
<1>3. f \in [1 .. n -> Nat]
  <2>1. \A i \in 1 .. n : s[i] \in LogEntry
    BY ElementOfSeq
  <2> QED
    BY <2>1 DEF Part, LogEntry
<1>4. CountsIn(X, s) = Total(f)
  BY <1>1 DEF CountsIn, Part
<1>5. Total(f) \in Nat
  <2> HIDE DEF f
  <2> QED
    BY <1>2, <1>3, TotalType
<1> QED
  BY <1>2, <1>3, <1>4, <1>5

LEMMA CountsInAll == \A s \in Seq(LogEntry) : Counts(s) = CountsIn(Types \X Msgs, s)
<1> SUFFICES ASSUME NEW s \in Seq(LogEntry) PROVE Counts(s) = CountsIn(Types \X Msgs, s)
  OBVIOUS
<1>1. ASSUME NEW i \in DOMAIN s PROVE <<s[i].type, s[i].msg>> \in Types \X Msgs
  <2>1. s[i] \in LogEntry
    BY ElementOfSeq, LenProperties
  <2>2. s[i].type \in Types /\ s[i].msg \in Msgs
    BY <2>1 DEF LogEntry
  <2> QED
    BY <2>2
<1> QED
  BY <1>1 DEF Counts, CountsIn

LEMMA CountsInEmpty == \A X : CountsIn(X, <<>>) = 0
<1> SUFFICES ASSUME NEW X PROVE CountsIn(X, <<>>) = 0
  OBVIOUS
<1> DEFINE S == 1 .. 0
           f == [i \in S |-> Part(X, <<>>[i])]
<1>1. <<>> \in Seq(LogEntry) /\ Len(<<>>) = 0
  OBVIOUS
<1>2. CountsIn(X, <<>>) = Total(f) /\ IsFiniteSet(S) /\ f \in [S -> Nat]
  BY <1>1, CountsInParts
<1>3. \A x \in S : f[x] = 0
  OBVIOUS
<1> HIDE DEF f, S
<1>4. Total(f) = 0
  BY <1>2, <1>3, TotalZero
<1> QED
  BY <1>2, <1>4

(* The last entry counts with those before it.                             *)
LEMMA CountsInStep ==
    ASSUME NEW X, NEW s \in Seq(LogEntry), NEW r \in Seq(LogEntry),
           Len(s) = Len(r) + 1, \A i \in 1 .. Len(r) : s[i] = r[i]
    PROVE  CountsIn(X, s) = CountsIn(X, r) + Part(X, s[Len(s)])
<1> DEFINE S == 1 .. Len(s)
           R == 1 .. Len(r)
           f == [i \in S |-> Part(X, s[i])]
           g == [i \in R |-> Part(X, r[i])]
<1>1. PICK n : n = Len(s)
  OBVIOUS
<1>2. /\ IsFiniteSet(S) /\ f \in [S -> Nat] /\ CountsIn(X, s) = Total(f)
      /\ g \in [R -> Nat] /\ CountsIn(X, r) = Total(g)
  BY CountsInParts
<1>3. n \in S /\ R = S \ {n}
  BY <1>1, LenProperties
<1>4. f[n] = Part(X, s[n]) /\ \A i \in R : g[i] = f[i]
  BY <1>3
<1> HIDE DEF f, g, S, R
<1>5. Total(f) = Total(g) + f[n]
  <2>1. Without(g, R, f, S, n)
    BY <1>2, <1>3, <1>4 DEF Without
  <2> QED
    BY <2>1, TotalWithout
<1> QED
  BY <1>1, <1>2, <1>4, <1>5

(* The oldest entries and those behind them count together.                *)
LEMMA CountsInSplit ==
    ASSUME NEW X, NEW s \in Seq(LogEntry), NEW n \in 0 .. Len(s)
    PROVE  CountsIn(X, s) = CountsIn(X, SubSeq(s, 1, n)) + CountsIn(X, SubSeq(s, n + 1, Len(s)))
<1> DEFINE Upto(k) == SubSeq(s, 1, k)
           From(k) == SubSeq(s, n + 1, k)
<1>1. Len(s) \in Nat /\ n \in Nat /\ n <= Len(s) /\ \A i \in 1 .. Len(s) : s[i] \in LogEntry
  BY LenProperties, ElementOfSeq
<1>2. \A k \in 0 .. Len(s) :
         /\ Upto(k) \in Seq(LogEntry) /\ Len(Upto(k)) = k
         /\ \A i \in 1 .. k : Upto(k)[i] = s[i]
  <2> SUFFICES ASSUME NEW k \in 0 .. Len(s)
               PROVE  /\ Upto(k) \in Seq(LogEntry) /\ Len(Upto(k)) = k
                      /\ \A i \in 1 .. k : Upto(k)[i] = s[i]
    OBVIOUS
  <2>1. /\ Upto(k) \in Seq(LogEntry) /\ Len(Upto(k)) = IF 1 <= k THEN k - 1 + 1 ELSE 0
        /\ \A i \in 1 .. k - 1 + 1 : Upto(k)[i] = s[1 + i - 1]
    BY <1>1, SubSeqProperties
  <2>2. \A i \in 1 .. k : i \in 1 .. k - 1 + 1 /\ 1 + i - 1 = i
    BY <1>1
  <2> QED
    BY <1>1, <2>1, <2>2
<1>3. \A k \in n .. Len(s) :
         /\ From(k) \in Seq(LogEntry) /\ Len(From(k)) = k - n
         /\ \A i \in 1 .. k - n : From(k)[i] = s[n + i]
  <2> SUFFICES ASSUME NEW k \in n .. Len(s)
               PROVE  /\ From(k) \in Seq(LogEntry) /\ Len(From(k)) = k - n
                      /\ \A i \in 1 .. k - n : From(k)[i] = s[n + i]
    OBVIOUS
  <2>0. n + 1 \in Int /\ k \in Int /\ \A i \in n + 1 .. k : i \in 1 .. Len(s)
    BY <1>1
  <2>1. /\ From(k) \in Seq(LogEntry)
        /\ Len(From(k)) = IF n + 1 <= k THEN k - (n + 1) + 1 ELSE 0
        /\ \A i \in 1 .. k - (n + 1) + 1 : From(k)[i] = s[(n + 1) + i - 1]
    BY <1>1, <2>0, SubSeqProperties
  <2>2. \A i \in 1 .. k - n : i \in 1 .. k - (n + 1) + 1 /\ (n + 1) + i - 1 = n + i
    BY <1>1
  <2> QED
    BY <1>1, <2>1, <2>2
<1>4. SubSeq(s, 1, Len(s)) = s
  BY SubSeqFull
<1> HIDE DEF Upto, From
<1> DEFINE Good == {d \in Nat : n + d <= Len(s) =>
                       CountsIn(X, Upto(n + d)) = CountsIn(X, Upto(n)) + CountsIn(X, From(n + d))}
<1>5. 0 \in Good
  <2>1. From(n) = <<>>
    BY <1>1, <1>3, EmptySeq
  <2>2. n + 0 = n /\ n \in 0 .. Len(s)
    BY <1>1
  <2>3. CountsIn(X, Upto(n)) \in Nat /\ CountsIn(X, From(n)) = 0
    BY <1>2, <2>1, <2>2, CountsInParts, CountsInEmpty
  <2> QED
    BY <2>2, <2>3
<1>6. ASSUME NEW d \in Nat, d \in Good PROVE d + 1 \in Good
  <2> DEFINE k == n + d
  <2> SUFFICES ASSUME k + 1 <= Len(s)
               PROVE  CountsIn(X, Upto(k + 1)) = CountsIn(X, Upto(n)) + CountsIn(X, From(k + 1))
    BY <1>1
  <2>1. /\ k \in Nat /\ k \in 0 .. Len(s) /\ k + 1 \in 0 .. Len(s) /\ n \in 0 .. Len(s)
        /\ k \in n .. Len(s) /\ k + 1 \in n .. Len(s) /\ (k + 1) - n = d + 1 /\ k - n = d
        /\ n + (d + 1) = k + 1 /\ \A i \in 1 .. k : i \in 1 .. k + 1
        /\ \A i \in 1 .. d : i \in 1 .. d + 1
        /\ k + 1 \in 1 .. k + 1 /\ d + 1 \in 1 .. d + 1
    BY <1>1
  <2>2. CountsIn(X, Upto(k)) = CountsIn(X, Upto(n)) + CountsIn(X, From(k))
    BY <1>6, <2>1
  <2> HIDE DEF k
  <2>3. CountsIn(X, Upto(k + 1)) = CountsIn(X, Upto(k)) + Part(X, s[k + 1])
    <3>1. /\ Upto(k) \in Seq(LogEntry) /\ Upto(k + 1) \in Seq(LogEntry)
          /\ Len(Upto(k)) = k /\ Len(Upto(k + 1)) = k + 1
          /\ \A i \in 1 .. k : Upto(k + 1)[i] = Upto(k)[i]
          /\ Upto(k + 1)[k + 1] = s[k + 1]
      BY <1>2, <2>1
    <3> QED
      BY <3>1, CountsInStep
  <2>4. CountsIn(X, From(k + 1)) = CountsIn(X, From(k)) + Part(X, s[k + 1])
    <3>1. /\ From(k) \in Seq(LogEntry) /\ From(k + 1) \in Seq(LogEntry)
          /\ Len(From(k)) = d /\ Len(From(k + 1)) = d + 1
          /\ \A i \in 1 .. d : From(k + 1)[i] = From(k)[i]
          /\ From(k + 1)[d + 1] = s[k + 1]
      <4>1. From(k) \in Seq(LogEntry) /\ Len(From(k)) = d /\ \A i \in 1 .. d : From(k)[i] = s[n + i]
        BY <1>3, <2>1
      <4>2. /\ From(k + 1) \in Seq(LogEntry) /\ Len(From(k + 1)) = d + 1
            /\ \A i \in 1 .. d + 1 : From(k + 1)[i] = s[n + i]
        BY <1>3, <2>1
      <4> QED
        BY <2>1, <4>1, <4>2
    <3> QED
      BY <3>1, CountsInStep
  <2>5. /\ CountsIn(X, From(k)) \in Nat /\ CountsIn(X, Upto(n)) \in Nat
        /\ Part(X, s[k + 1]) \in Nat
    <3>1. s[k + 1] \in LogEntry
      BY <1>1, <2>1
    <3> QED
      BY <1>2, <1>3, <2>1, <3>1, CountsInParts DEF Part, LogEntry
  <2> QED
    BY <2>2, <2>3, <2>4, <2>5
<1>7. \A d \in Nat : d \in Good
  <2> HIDE DEF Good
  <2> QED
    BY <1>5, <1>6, NumberInduction
<1>8. CountsIn(X, Upto(Len(s))) = CountsIn(X, Upto(n)) + CountsIn(X, From(Len(s)))
  <2>1. Len(s) - n \in Nat /\ n + (Len(s) - n) = Len(s)
    BY <1>1
  <2>2. Len(s) - n \in Good
    BY <1>7, <2>1
  <2> QED
    BY <1>1, <2>1, <2>2
<1> QED
  BY <1>4, <1>8 DEF Upto, From

(* Where one entry changes the counts change by as much.                   *)
LEMMA CountsInChange ==
    ASSUME NEW X, NEW s \in Seq(LogEntry), NEW r \in Seq(LogEntry), Len(s) = Len(r),
           NEW k \in 1 .. Len(r), \A i \in 1 .. Len(r) : i # k => s[i] = r[i]
    PROVE  CountsIn(X, s) + Part(X, r[k]) = CountsIn(X, r) + Part(X, s[k])
<1> DEFINE S == 1 .. Len(r)
           f == [i \in S |-> Part(X, r[i])]
           g == [i \in S |-> Part(X, s[i])]
<1>1. /\ IsFiniteSet(S) /\ f \in [S -> Nat] /\ CountsIn(X, r) = Total(f)
      /\ g \in [S -> Nat] /\ CountsIn(X, s) = Total(g)
  BY CountsInParts
<1>2. /\ k \in S /\ f[k] = Part(X, r[k]) /\ g[k] = Part(X, s[k])
      /\ \A i \in S : i # k => g[i] = f[i]
  OBVIOUS
<1> HIDE DEF f, g, S
<1>3. Total(g) + f[k] = Total(f) + g[k]
  <2>1. Differ(f, g, S, k)
    BY <1>1, <1>2 DEF Differ
  <2> QED
    BY <2>1, TotalChange
<1> QED
  BY <1>1, <1>2, <1>3

(* Every entry counts.                                                     *)
LEMMA CountsInNone ==
    ASSUME NEW s \in Seq(LogEntry), CountsIn(Types \X Msgs, s) = 0
    PROVE  s = <<>>
<1> DEFINE X == Types \X Msgs
<1> SUFFICES ASSUME s # <<>> PROVE FALSE
  OBVIOUS
<1>1. /\ Front(s) \in Seq(LogEntry) /\ Len(Front(s)) = Len(s) - 1
      /\ \A j \in 1 .. Len(s) - 1 : Front(s)[j] = s[j]
  BY FrontEntries
<1>2. Len(s) \in Nat \ {0} /\ Len(s) \in 1 .. Len(s)
  BY LenProperties, EmptySeq
<1>3. CountsIn(X, s) = CountsIn(X, Front(s)) + Part(X, s[Len(s)])
  BY <1>1, <1>2, CountsInStep
<1>4. Part(X, s[Len(s)]) \in Nat \ {0}
  <2>1. s[Len(s)] \in LogEntry
    BY <1>2, ElementOfSeq
  <2> QED
    BY <2>1 DEF LogEntry, Part
<1>5. CountsIn(X, Front(s)) \in Nat
  BY <1>1, CountsInParts
<1> QED
  BY <1>3, <1>4, <1>5

(* A message counts once, in the store with what is dropped for it: where  *)
(* it is put in place of the last entry that entry's count goes with it,   *)
(* and where it counts in another entry its index is in what is kept: only *)
(* one entry is dropped then, and the index is not that of the last.  It   *)
(* is the index of its own entry when none is dropped.                     *)
LEMMA ProcessEntryCounts ==
    ASSUME LogInv, NEW type \in Types, NEW msg \in Msgs, ProcessEntry(type, msg)
    PROVE  \E head \in Seq(LogEntry) :
             /\ dropped' = dropped + Counts(head)
             /\ \A X : X = Types \X Msgs \/ head = <<>> =>
                   CountsIn(X, store') + CountsIn(X, head) =
                       CountsIn(X, store) + IF <<type, msg>> \in X THEN 1 ELSE 0
<1> DEFINE last == LastOf(store)
           again == Equals(type, msg, last)
           index == IF again THEN 0 ELSE LastIndexOf(type, msg)
           others == IF again THEN Front(store) ELSE store
           n == Dropped(others)
           kept == SubSeq(others, n + 1, Len(others))
           head == SubSeq(others, 1, n)
           new == [type |-> type, msg |-> msg, count |-> IF again THEN last.count + 1 ELSE 1]
           one(X) == IF <<type, msg>> \in X THEN 1 ELSE 0
<1>1. store \in Seq(LogEntry) /\ Len(store) \in Nat /\ Len(store) <= MaxSize + 1 /\ MaxSize \in Nat
  BY LenProperties, LogAssumption DEF LogInv, LogTypeOK, LogEntry
<1>2. /\ store' = IF index = 0 THEN Append(kept, new) ELSE [kept EXCEPT ![index].count = @ + 1]
      /\ dropped' = dropped + Counts(head)
  BY DEF ProcessEntry
<1>3. again => /\ store # <<>> /\ last = store[Len(store)] /\ last \in LogEntry
               /\ last.type = type /\ last.msg = msg
  <2>1. store = <<>> => ~again
    BY LogAssumption DEF LastOf, Equals
  <2>2. store # <<>> => last = store[Len(store)] /\ Len(store) \in 1 .. Len(store)
    BY <1>1, EmptySeq DEF LastOf, Last
  <2>3. store # <<>> => last \in LogEntry
    BY <1>1, <2>2, ElementOfSeq
  <2> QED
    BY <2>1, <2>2, <2>3 DEF Equals
<1>4. /\ again => others = Front(store) /\ index = 0
      /\ ~again => others = store /\ index = LastIndexOf(type, msg)
  OBVIOUS
<1>5. new \in LogEntry /\ new.type = type /\ new.msg = msg
      /\ new.count = IF again THEN last.count + 1 ELSE 1
  <2>1. (IF again THEN last.count + 1 ELSE 1) \in Nat \ {0}
    BY <1>3 DEF LogEntry
  <2> QED
    BY <2>1 DEF LogEntry
<1>6. ~again /\ store # <<>> => ~Equals(type, msg, store[Len(store)])
  BY DEF LastOf, Last
<1> HIDE DEF again, index, others, new, last
<1>7. /\ others \in Seq(LogEntry)
      /\ \A X : CountsIn(X, others) + (IF again THEN Part(X, last) ELSE 0) = CountsIn(X, store)
  <2>1. CASE again
    <3>1. /\ Front(store) \in Seq(LogEntry) /\ Len(Front(store)) = Len(store) - 1
          /\ \A j \in 1 .. Len(store) - 1 : Front(store)[j] = store[j]
      BY <1>1, <1>3, <2>1, FrontEntries
    <3>2. \A X : CountsIn(X, store) = CountsIn(X, Front(store)) + Part(X, store[Len(store)])
      <4>1. Len(store) = Len(Front(store)) + 1
        BY <1>1, <3>1
      <4> QED
        BY <1>1, <3>1, <4>1, CountsInStep
    <3> QED
      BY <1>3, <1>4, <2>1, <3>1, <3>2
  <2>2. CASE ~again
    <3>1. \A X : CountsIn(X, store) \in Nat
      BY <1>1, CountsInParts
    <3> QED
      BY <1>1, <1>4, <2>2, <3>1
  <2> QED
    BY <2>1, <2>2
<1>8. /\ n \in 0 .. Len(others) /\ Len(kept) = Len(others) - n /\ kept \in Seq(LogEntry)
      /\ \A i \in 1 .. Len(kept) : kept[i] = others[n + i]
  BY <1>7, KeptEntries
<1>9. head \in Seq(LogEntry) /\ (head = <<>> => n = 0)
  <2>1. Len(others) \in Nat /\ n \in Int /\ \A i \in 1 .. n : i \in 1 .. Len(others)
    BY <1>7, <1>8, LenProperties
  <2>2. \A i \in 1 .. n : others[i] \in LogEntry
    BY <1>7, <2>1, ElementOfSeq
  <2> HIDE DEF n
  <2>3. head \in Seq(LogEntry) /\ Len(head) = IF 1 <= n THEN n - 1 + 1 ELSE 0
    BY <2>1, <2>2, SubSeqProperties
  <2>4. head = <<>> => Len(head) = 0
    BY EmptySeq
  <2>5. n \in 0 .. Len(others)
    BY <1>8
  <2> HIDE DEF head
  <2> QED
    BY <2>1, <2>3, <2>4, <2>5
<1>10. \A X : CountsIn(X, others) = CountsIn(X, head) + CountsIn(X, kept)
  <2> HIDE DEF n
  <2> QED
    BY <1>7, <1>8, CountsInSplit
<1>11. again = FALSE /\ index # 0 => n <= 1
  BY <1>1, <1>4 DEF n, Dropped
<1> HIDE DEF n, kept, head
<1>12. \A X : /\ CountsIn(X, others) \in Nat /\ CountsIn(X, head) \in Nat
               /\ CountsIn(X, kept) \in Nat /\ CountsIn(X, store) \in Nat
  BY <1>1, <1>7, <1>8, <1>9, CountsInParts
<1>13. CASE index = 0
  <2>1. /\ store' \in Seq(LogEntry) /\ Len(store') = Len(kept) + 1
        /\ \A i \in 1 .. Len(kept) : store'[i] = kept[i]
        /\ store'[Len(kept) + 1] = new
    BY <1>2, <1>5, <1>8, <1>13, AppendProperties
  <2>2. \A X : CountsIn(X, store') = CountsIn(X, kept) + Part(X, new)
    <3>1. \A t \in Seq(LogEntry) :
            /\ Len(t) = Len(kept) + 1 /\ \A i \in 1 .. Len(kept) : t[i] = kept[i]
            => \A X : CountsIn(X, t) = CountsIn(X, kept) + Part(X, t[Len(t)])
      BY <1>8, CountsInStep
    <3> QED
      BY <2>1, <3>1
  <2>3. \A X : Part(X, new) = (IF again THEN Part(X, last) ELSE 0) + one(X)
    BY <1>3, <1>5 DEF Part, LogEntry
  <2>4. \A X : (IF again THEN Part(X, last) ELSE 0) \in Nat /\ one(X) \in Nat
    BY <1>3 DEF Part, LogEntry
  <2> HIDE DEF one
  <2>5. ASSUME NEW X PROVE CountsIn(X, store') + CountsIn(X, head) = CountsIn(X, store) + one(X)
    <3> DEFINE c == IF again THEN Part(X, last) ELSE 0
    <3>1. /\ CountsIn(X, store') = CountsIn(X, kept) + (c + one(X))
          /\ CountsIn(X, others) + c = CountsIn(X, store) /\ c \in Nat /\ one(X) \in Nat
      BY <1>7, <2>2, <2>3, <2>4
    <3> HIDE DEF c
    <3> QED
      BY <1>10, <1>12, <3>1
  <2> QED
    BY <1>2, <1>9, <2>5 DEF one
<1>14. CASE index # 0
  <2>1. ~again /\ index = LastIndexOf(type, msg) /\ others = store
    BY <1>4, <1>14
  <2>2. index \in 1 .. Len(store) /\ store[index].type = type /\ store[index].msg = msg
    <3> DEFINE same == {i \in DOMAIN store : store[i].type = type}
    <3>1. same \in SUBSET (1 .. Len(store))
      BY <1>1, LenProperties
    <3>2. same # {} /\ store[Max(same)].msg = msg /\ index = Max(same)
      BY <1>14, <2>1 DEF LastIndexOf
    <3>3. Max(same) \in same
      <4> HIDE DEF same
      <4> QED
        BY <1>1, <3>1, <3>2, LastPlace
    <3> QED
      BY <3>1, <3>2, <3>3
  <2>3. index # Len(store)
    <3>1. store # <<>>
      BY <2>2
    <3> QED
      BY <1>6, <2>1, <2>2, <3>1 DEF Equals
  <2>4. n \in Nat /\ n <= 1 /\ Len(kept) = Len(store) - n
    BY <1>1, <1>8, <1>11, <1>14, <2>1
  <2>5. index \in 1 .. Len(kept)
    BY <1>1, <2>2, <2>3, <2>4
  <2>6. kept[index] \in LogEntry
    BY <1>8, <2>5, ElementOfSeq
  <2> DEFINE e == [kept[index] EXCEPT !.count = @ + 1]
  <2>7. /\ e \in LogEntry /\ e.type = kept[index].type /\ e.msg = kept[index].msg
        /\ e.count = kept[index].count + 1
    BY <2>6 DEF LogEntry
  <2>8. /\ store' \in Seq(LogEntry) /\ Len(store') = Len(kept) /\ store'[index] = e
        /\ \A i \in 1 .. Len(kept) : i # index => store'[i] = kept[i]
    <3>1. store' = [kept EXCEPT ![index] = e]
      BY <1>2, <1>14
    <3> HIDE DEF e
    <3> QED
      BY <1>8, <2>5, <2>7, <3>1, ExceptSeq, LenProperties
  <2> HIDE DEF e
  <2>9. \A X : CountsIn(X, store') + Part(X, kept[index]) = CountsIn(X, kept) + Part(X, e)
    <3>1. \A t \in Seq(LogEntry) :
            /\ Len(t) = Len(kept) /\ \A i \in 1 .. Len(kept) : i # index => t[i] = kept[i]
            => \A X : CountsIn(X, t) + Part(X, kept[index]) = CountsIn(X, kept) + Part(X, t[index])
      BY <1>8, <2>5, CountsInChange
    <3> QED
      BY <2>8, <3>1
  <2>10. ASSUME NEW X, X = Types \X Msgs \/ head = <<>>
         PROVE  Part(X, e) = Part(X, kept[index]) + one(X) /\ Part(X, kept[index]) \in Nat
    <3>1. CASE X = Types \X Msgs
      BY <2>6, <2>7, <3>1 DEF Part, LogEntry
    <3>2. CASE head = <<>>
      <4>1. kept[index] = store[index]
        <5>1. n = 0
          BY <1>9, <3>2
        <5>2. kept[index] = others[n + index] /\ n + index = index
          BY <1>8, <2>5, <5>1
        <5> QED
          BY <2>1, <5>2
      <4> QED
        BY <2>2, <2>6, <2>7, <4>1 DEF Part, LogEntry
    <3> QED
      BY <2>10, <3>1, <3>2
  <2> HIDE DEF one
  <2>11. ASSUME NEW X, X = Types \X Msgs \/ head = <<>>
         PROVE  CountsIn(X, store') + CountsIn(X, head) = CountsIn(X, store) + one(X)
    <3>1. /\ CountsIn(X, store') \in Nat
          /\ CountsIn(X, store') + Part(X, kept[index]) = CountsIn(X, kept) + Part(X, e)
          /\ CountsIn(X, store) = CountsIn(X, head) + CountsIn(X, kept)
      BY <1>10, <2>1, <2>8, <2>9, CountsInParts
    <3>2. one(X) \in Nat
      BY DEF one
    <3>3. Part(X, e) = Part(X, kept[index]) + one(X) /\ Part(X, kept[index]) \in Nat
      BY <2>10, <2>11
    <3>4. CountsIn(X, kept) \in Nat /\ CountsIn(X, head) \in Nat
      BY <1>12
    <3> QED
      BY ONLY <3>1, <3>2, <3>3, <3>4
  <2> QED
    BY <1>2, <1>9, <2>11 DEF one
<1> QED
  BY <1>13, <1>14

(* What is told, and how much of it the store counts and has dropped.      *)
CountsInv ==
    /\ told \in [Types \X Msgs -> Nat] /\ dropped \in Nat
    /\ CountsIn(Types \X Msgs, store) + dropped = Total(told)
    /\ dropped = 0 => \A x \in Types \X Msgs : CountsIn({x}, store) = told[x]

LEMMA CountsInvRight == LogInv /\ CountsInv => CountsRight
<1> SUFFICES ASSUME LogInv, CountsInv PROVE CountsRight
  OBVIOUS
<1>1. store \in Seq(LogEntry)
  BY DEF LogInv, LogTypeOK, LogEntry
<1>2. Counts(store) = CountsIn(Types \X Msgs, store)
  BY <1>1, CountsInAll
<1>3. \A x : CountsOf(x, store) = CountsIn({x}, store)
  BY DEF CountsOf, CountsIn
<1>4. DOMAIN told = Types \X Msgs
  BY DEF CountsInv
<1> QED
  BY <1>2, <1>3, <1>4 DEF CountsRight, CountsInv

LEMMA InitCountsInv == Init => CountsInv
<1> SUFFICES ASSUME Init PROVE CountsInv
  OBVIOUS
<1> DEFINE S == Types \X Msgs
<1>1. store = <<>> /\ told = [x \in S |-> 0] /\ dropped = 0
  BY DEF Init
<1>2. Total(told) = 0
  <2>1. IsFiniteSet(S) /\ told \in [S -> Nat] /\ \A x \in S : told[x] = 0
    BY <1>1, LogAssumption, FS_Product
  <2> HIDE DEF S
  <2> QED
    BY <2>1, TotalZero
<1> QED
  BY <1>1, <1>2, CountsInEmpty DEF CountsInv

LEMMA ProcessEntryCountsInv ==
    ASSUME LogInv, CountsInv, NEW type \in Types, NEW msg \in Msgs, ProcessEntry(type, msg)
    PROVE  CountsInv'
<1> DEFINE S == Types \X Msgs
           x0 == <<type, msg>>
<1>1. /\ store \in Seq(LogEntry) /\ store' \in Seq(LogEntry)
      /\ told \in [S -> Nat] /\ dropped \in Nat /\ x0 \in S
      /\ CountsIn(S, store) + dropped = Total(told)
      /\ dropped = 0 => \A x \in S : CountsIn({x}, store) = told[x]
  BY ProcessEntryInv DEF LogInv, LogTypeOK, LogEntry, CountsInv
<1>2. PICK head \in Seq(LogEntry) :
         /\ dropped' = dropped + Counts(head)
         /\ \A X : X = S \/ head = <<>> =>
               CountsIn(X, store') + CountsIn(X, head) =
                   CountsIn(X, store) + IF x0 \in X THEN 1 ELSE 0
  BY ProcessEntryCounts
<1>3. told' = [told EXCEPT ![x0] = @ + 1]
  BY DEF ProcessEntry
<1>4. Counts(head) = CountsIn(S, head) /\ CountsIn(S, head) \in Nat
  BY CountsInAll, CountsInParts
<1>5. told' \in [S -> Nat] /\ dropped' \in Nat
  BY <1>1, <1>2, <1>3, <1>4
<1>6. Total(told') = Total(told) + 1
  <2>1. IsFiniteSet(S)
    BY LogAssumption, FS_Product
  <2>2. told'[x0] = told[x0] + 1 /\ told[x0] \in Nat /\ \A y \in S : y # x0 => told'[y] = told[y]
    BY <1>1, <1>3
  <2> HIDE DEF S, x0
  <2>3. Differ(told, told', S, x0)
    BY <1>1, <1>5, <2>1, <2>2 DEF Differ
  <2>4. Total(told') + told[x0] = Total(told) + told'[x0]
    BY <2>3, TotalChange
  <2>5. Total(told) \in Nat /\ Total(told') \in Nat
    BY <1>1, <1>5, <2>1, TotalType
  <2> QED
    BY <2>2, <2>4, <2>5
<1>7. CountsIn(S, store') + dropped' = Total(told')
  <2>1. CountsIn(S, store') + CountsIn(S, head) = CountsIn(S, store) + 1
    BY <1>1, <1>2
  <2>2. CountsIn(S, store) \in Nat /\ CountsIn(S, store') \in Nat
    BY <1>1, CountsInParts
  <2>3. /\ dropped' = dropped + CountsIn(S, head) /\ dropped \in Nat
        /\ CountsIn(S, store) + dropped = Total(told)
    BY <1>1, <1>2, <1>4
  <2> HIDE DEF S
  <2> QED
    BY <1>4, <1>6, <2>1, <2>2, <2>3
<1>8. ASSUME dropped' = 0, NEW x \in S PROVE CountsIn({x}, store') = told'[x]
  <2>1. dropped = 0 /\ CountsIn(S, head) = 0
    BY <1>1, <1>2, <1>4, <1>8
  <2>2. head = <<>>
    BY <2>1, CountsInNone
  <2>3. CountsIn({x}, store') + CountsIn({x}, head) =
            CountsIn({x}, store) + IF x0 \in {x} THEN 1 ELSE 0
    BY <1>2, <2>2
  <2>4. CountsIn({x}, head) = 0 /\ CountsIn({x}, store') \in Nat /\ CountsIn({x}, store) = told[x]
    BY <1>1, <1>8, <2>1, <2>2, CountsInEmpty, CountsInParts
  <2>5. told'[x] = told[x] + (IF x0 \in {x} THEN 1 ELSE 0) /\ told[x] \in Nat
    <3> HIDE DEF x0, S
    <3> QED
      BY <1>1, <1>3, <1>8
  <2> HIDE DEF x0
  <2> QED
    BY <2>3, <2>4, <2>5
<1> QED
  BY <1>5, <1>7, <1>8 DEF CountsInv

(* Every message is counted once, in the store or in what was dropped of   *)
(* it, and in its own entry as long as nothing was dropped: although       *)
(* process_entry() finds the index of the entry before it drops others.    *)
THEOREM LogCountsRight == Spec => []CountsRight
<1>1. LogInv /\ CountsInv /\ [Next]_vars => CountsInv'
  <2>1. CountsInv /\ UNCHANGED logVars => CountsInv'
    BY DEF CountsInv, logVars
  <2> QED
    BY <2>1, ProcessEntryCountsInv, NextEntry
<1> QED
  BY <1>1, InitCountsInv, CountsInvRight, InitLogInv, NextLogInv, PTL DEF Spec
=============================================================================
