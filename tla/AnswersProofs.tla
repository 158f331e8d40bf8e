---------------------------- MODULE AnswersProofs ----------------------------
(***************************************************************************)
(* Theorems about how the engine's answers are taken apart, for every      *)
(* answer that consists of reports or of log frames, and for every way in  *)
(* which it is cut into pieces, lost or ended.                             *)
(***************************************************************************)
EXTENDS StatsProofs, FoldLemmas

Bytes == Seq(Nat)

(* Concatenation is associative.                                           *)
Joined(s, t, u) == (s \o t) \o u = s \o (t \o u)

LEMMA ThreeJoined ==
    ASSUME NEW s \in Seq(Nat), NEW t \in Seq(Nat), NEW u \in Seq(Nat)
    PROVE  (s \o t) \o u = s \o (t \o u)
  BY ConcatAssociative

LEMMA BytesJoined ==
    ASSUME NEW s \in Bytes, NEW t \in Bytes, NEW u \in Bytes
    PROVE  Joined(s, t, u)
  BY ThreeJoined DEF Joined, Bytes

(* What is received, with what is left, is what the engine sent.           *)
SocketInv ==
    /\ query \in DOMAIN Answers /\ at \in {"idle", "receive", query}
    /\ answer \in Answers[query] \/ answer = <<>>
    /\ pieces \in Seq(Bytes) /\ rest \in Bytes /\ body \in Bytes
    /\ FlattenSeq(answer) = FlattenSeq(pieces) \o rest
    /\ at = "receive" => Len(body) = Len(FlattenSeq(pieces)) + Len(pieces)

LEMMA AnswerType == SocketInv => answer \in Seq(Bytes) /\ FlattenSeq(answer) \in Bytes
<1> SUFFICES ASSUME SocketInv PROVE answer \in Seq(Bytes) /\ FlattenSeq(answer) \in Bytes
  OBVIOUS
<1>1. answer \in Seq(Bytes)
  <2>1. answer = <<>> => answer \in Seq(Bytes)
    OBVIOUS
  <2> QED
    BY <2>1, SocketAssumption DEF SocketInv, Bytes
<1> QED
  BY <1>1, FlattenType DEF Bytes

LEMMA InitSocketInv == Init => SocketInv
<1> SUFFICES ASSUME Init PROVE SocketInv
  OBVIOUS
<1>1. /\ at = "idle" /\ query = "logs" /\ answer = <<>> /\ rest = <<>> /\ pieces = <<>> /\ body = <<>>
  BY DEF Init, SocketInit
<1>2. <<>> \in Seq(Bytes) /\ <<>> \in Bytes /\ <<>> \o <<>> = <<>>
  BY EmptySeq, ConcatEmptySeq DEF Bytes
<1> QED
  BY <1>1, <1>2, FlattenEmpty, SocketAssumption DEF SocketInv

LEMMA ExecuteSocketInv == SocketInv /\ Execute => SocketInv'
<1> SUFFICES ASSUME SocketInv, Execute PROVE SocketInv'
  OBVIOUS
<1>1. /\ query' \in DOMAIN Answers /\ at' = "receive" /\ answer' \in Answers[query']
      /\ rest' = FlattenSeq(answer') /\ pieces' = <<>> /\ body' = <<>>
  BY DEF Execute
<1>2. answer' \in Seq(Bytes)
  BY <1>1, SocketAssumption DEF Bytes
<1>3. rest' \in Bytes
  BY <1>1, <1>2, FlattenType DEF Bytes
<1>4. FlattenSeq(<<>>) \o rest' = rest' /\ Len(FlattenSeq(<<>>)) = 0 /\ Len(<<>>) = 0
  BY <1>3, FlattenEmpty, ConcatEmptySeq, EmptySeq DEF Bytes
<1>5. <<>> \in Bytes /\ <<>> \in Seq(Bytes)
  BY EmptySeq DEF Bytes
<1> QED
  BY <1>1, <1>3, <1>4, <1>5 DEF SocketInv

(* A piece is the next of what is left.                                    *)
LEMMA ReceivePiece ==
    ASSUME SocketInv, NEW n \in 1 .. Len(rest), Receive(n)
    PROVE  LET data == SubSeq(rest, 1, n) IN
           /\ data \in Bytes /\ Len(data) = n /\ rest' \in Bytes /\ rest = data \o rest'
           /\ pieces' = Append(pieces, data) /\ pieces' \in Seq(Bytes)
           /\ Len(pieces') = Len(pieces) + 1 /\ Len(pieces) \in Nat
           /\ \A i \in 1 .. Len(pieces) : pieces'[i] = pieces[i]
           /\ pieces'[Len(pieces')] = data
           /\ at = "receive" /\ UNCHANGED <<query, answer, plan>>
<1> DEFINE data == SubSeq(rest, 1, n)
<1>1. rest \in Seq(Nat) /\ pieces \in Seq(Bytes) /\ Len(rest) \in Nat /\ Len(pieces) \in Nat
  BY LenProperties DEF SocketInv, Bytes
<1>2. \A i \in 1 .. Len(rest) : rest[i] \in Nat
  BY <1>1, ElementOfSeq
<1>3. data \in Seq(Nat) /\ Len(data) = n
  <2>1. /\ data \in Seq(Nat) /\ Len(data) = IF 1 <= n THEN n - 1 + 1 ELSE 0
    BY <1>1, <1>2, SubSeqProperties
  <2> HIDE DEF data
  <2> QED
    BY <2>1
<1>4. rest' = SubSeq(rest, n + 1, Len(rest)) /\ pieces' = Append(pieces, data)
      /\ at = "receive" /\ UNCHANGED <<query, answer, plan>>
  BY DEF Receive, Received
<1>5. rest' \in Seq(Nat)
  <2>1. n + 1 \in Int /\ Len(rest) \in Int /\ \A i \in n + 1 .. Len(rest) : i \in 1 .. Len(rest)
    BY <1>1
  <2> QED
    BY <1>2, <1>4, <2>1, SubSeqProperties
<1>6. rest = data \o rest'
  <2>1. 1 \in 1 .. Len(rest) + 1 /\ n \in 1 - 1 .. Len(rest) /\ Len(rest) \in n .. Len(rest)
    BY <1>1
  <2>2. SubSeq(rest, 1, n) \o SubSeq(rest, n + 1, Len(rest)) = SubSeq(rest, 1, Len(rest))
    BY <1>1, <2>1, ConcatAdjacentSubSeq
  <2>3. SubSeq(rest, 1, Len(rest)) = rest
    BY <1>1, SubSeqFull
  <2> QED
    BY <1>4, <2>2, <2>3
<1> HIDE DEF data
<1>7. data \in Bytes
  BY <1>3 DEF Bytes
<1>8. /\ pieces' \in Seq(Bytes) /\ Len(pieces') = Len(pieces) + 1
      /\ \A i \in 1 .. Len(pieces) : pieces'[i] = pieces[i]
      /\ pieces'[Len(pieces) + 1] = data
  BY <1>1, <1>4, <1>7, AppendProperties
<1>9. /\ data \in Bytes /\ Len(data) = n /\ rest' \in Bytes /\ rest = data \o rest'
      /\ pieces' = Append(pieces, data) /\ pieces' \in Seq(Bytes)
      /\ Len(pieces') = Len(pieces) + 1 /\ Len(pieces) \in Nat
      /\ \A i \in 1 .. Len(pieces) : pieces'[i] = pieces[i]
      /\ pieces'[Len(pieces')] = data
      /\ at = "receive" /\ UNCHANGED <<query, answer, plan>>
  BY <1>1, <1>3, <1>4, <1>5, <1>6, <1>7, <1>8 DEF Bytes
<1> QED
  BY <1>9 DEF data

LEMMA ReceiveSocketInv ==
    ASSUME SocketInv, NEW n \in 1 .. Len(rest), Receive(n)
    PROVE  SocketInv'
<1> DEFINE data == SubSeq(rest, 1, n)
           mark == IF Len(pieces) + 1 = 1 THEN Open ELSE Comma
           full == ChunksAllowed[query] > 0 /\ Len(pieces) + 1 >= ChunksAllowed[query]
           end == IF full THEN <<Close>> ELSE <<>>
<1>1. /\ data \in Seq(Nat) /\ Len(data) = n /\ rest' \in Seq(Nat) /\ rest = data \o rest'
      /\ pieces' = Append(pieces, data) /\ pieces' \in Seq(Bytes)
      /\ Len(pieces') = Len(pieces) + 1 /\ Len(pieces) \in Nat
      /\ at = "receive" /\ UNCHANGED <<query, answer, plan>>
  BY ReceivePiece DEF Bytes
<1>2. body' = body \o <<mark>> \o data \o end
  BY DEF Receive
<1>3. at' = IF full THEN query ELSE "receive"
  BY <1>1 DEF Receive, Received
<1>4. FlattenSeq(pieces) \in Seq(Nat) /\ FlattenSeq(pieces') = FlattenSeq(pieces) \o data
  BY <1>1, FlattenType, FlattenAppend DEF SocketInv, Bytes
<1>5. FlattenSeq(answer') = FlattenSeq(pieces') \o rest'
  <2>1. FlattenSeq(answer') = FlattenSeq(pieces) \o (data \o rest')
    BY <1>1 DEF SocketInv
  <2>2. data \in Bytes /\ rest' \in Bytes /\ FlattenSeq(pieces) \in Bytes
    BY <1>1, <1>4 DEF Bytes
  <2> HIDE DEF data
  <2>3. (FlattenSeq(pieces) \o data) \o rest' = FlattenSeq(pieces) \o (data \o rest')
    <3>1. Joined(FlattenSeq(pieces), data, rest')
      BY <2>2, BytesJoined
    <3> QED
      BY <3>1 DEF Joined
  <2> QED
    BY <1>4, <2>1, <2>3, Zenon
<1>6. body \in Seq(Nat) /\ <<mark>> \in Seq(Nat) /\ Len(<<mark>>) = 1 /\ end \in Seq(Nat)
  BY DEF Open, Comma, Close, SocketInv, Bytes
<1> HIDE DEF data, mark, full
<1>7. body' \in Seq(Nat) /\ (~full => Len(body') = Len(body) + 1 + n)
  <2>1. body \o <<mark>> \in Seq(Nat) /\ Len(body \o <<mark>>) = Len(body) + 1
    BY <1>6, ConcatProperties
  <2>2. (body \o <<mark>>) \o data \in Seq(Nat) /\ Len((body \o <<mark>>) \o data) = Len(body) + 1 + n
    <3>1. data \in Seq(Nat) /\ Len(data) = n
      BY <1>1
    <3>2. /\ (body \o <<mark>>) \o data \in Seq(Nat)
          /\ Len((body \o <<mark>>) \o data) = Len(body \o <<mark>>) + Len(data)
      BY <2>1, <3>1, ConcatProperties
    <3> QED
      BY <2>1, <3>1, <3>2
  <2>3. body' \in Seq(Nat)
    BY <1>2, <1>6, <2>2, ConcatProperties
  <2>4. ~full => body' = (body \o <<mark>>) \o data
    BY <1>2, <2>2, ConcatEmptySeq
  <2> QED
    BY <2>2, <2>3, <2>4
<1>8. Len(FlattenSeq(pieces')) = Len(FlattenSeq(pieces)) + n
  BY <1>1, <1>4, ConcatProperties
<1>9. at' = "receive" => Len(body') = Len(FlattenSeq(pieces')) + Len(pieces')
  <2>1. query # "receive"
    BY SocketAssumption DEF SocketInv
  <2>2. ~full => Len(body) = Len(FlattenSeq(pieces)) + Len(pieces) /\ Len(body') = Len(body) + 1 + n
    BY <1>1, <1>7 DEF SocketInv
  <2>3. Len(FlattenSeq(pieces)) \in Nat /\ n \in Nat
    BY <1>4, LenProperties
  <2> QED
    BY <1>1, <1>3, <1>8, <2>1, <2>2, <2>3
<1> QED
  BY <1>1, <1>3, <1>5, <1>7, <1>9 DEF SocketInv, Bytes

(* What a round of update_logs() finds in the body behind the mark.        *)
Behind(b) == IF b = <<>> THEN <<>> ELSE Tail(b)
TextLength(b) == Min({Length(b, Len(b)), Len(b) - 8})

(* What a frame at the beginning of b is, which ends in b.                 *)
Header(b) ==
    /\ Length(b, Len(b)) \in Nat
    /\ TextLength(b) \in 0 .. Len(b) - 8 /\ TextLength(b) <= Length(b, Len(b))
    /\ Length(b, Len(b)) <= Len(b) - 8 => TextLength(b) = Length(b, Len(b))
    /\ SubSeq(b, 9, 8 + TextLength(b)) \in Bytes
    /\ SubSeq(b, 9 + TextLength(b), Len(b)) \in Bytes

LEMMA FrameBounds ==
    ASSUME NEW s \in Bytes, NEW b, b = Behind(s)
    PROVE  b \in Bytes /\ Len(b) \in Nat /\ (Len(b) >= 8 => Header(b))
<1>1. b \in Seq(Nat) /\ Len(b) \in Nat
  <2>1. s # <<>> => Tail(s) \in Seq(Nat)
    BY HeadTailProperties DEF Bytes
  <2>2. b \in Seq(Nat)
    BY <2>1 DEF Behind
  <2> QED
    BY <2>2, LenProperties
<1>2. \A i \in 1 .. Len(b) : b[i] \in Nat
  BY <1>1, ElementOfSeq
<1> SUFFICES ASSUME Len(b) >= 8 PROVE Header(b)
  BY <1>1 DEF Bytes
<1>3. Length(b, Len(b)) \in Nat
  <2>1. b[5] \in Nat /\ b[6] \in Nat /\ b[7] \in Nat /\ b[8] \in Nat
    BY <1>1, <1>2
  <2>2. b[5] * 16777216 + b[6] * 65536 + b[7] * 256 + b[8] \in Nat
    BY ONLY <2>1, SMT
  <2>3. Length(b, Len(b)) \in {Len(b), b[5] * 16777216 + b[6] * 65536 + b[7] * 256 + b[8]}
    BY SMT DEF Length
  <2> QED
    BY ONLY <1>1, <2>2, <2>3, SMT
<1>4. /\ TextLength(b) \in 0 .. Len(b) - 8 /\ TextLength(b) <= Length(b, Len(b))
      /\ Length(b, Len(b)) <= Len(b) - 8 => TextLength(b) = Length(b, Len(b))
  <2>1. ASSUME NEW x \in Nat, NEW y \in Nat
        PROVE  Min({x, y}) = IF x <= y THEN x ELSE y
    BY DEF Min
  <2>2. Len(b) - 8 \in Nat
    BY <1>1
  <2>3. TextLength(b) = IF Length(b, Len(b)) <= Len(b) - 8 THEN Length(b, Len(b)) ELSE Len(b) - 8
    BY <1>3, <2>1, <2>2 DEF TextLength
  <2> QED
    BY <1>3, <2>2, <2>3
<1>5. /\ 8 + TextLength(b) \in Int /\ \A i \in 9 .. 8 + TextLength(b) : i \in 1 .. Len(b)
      /\ 9 + TextLength(b) \in Int /\ \A i \in 9 + TextLength(b) .. Len(b) : i \in 1 .. Len(b)
  BY <1>1, <1>4
<1>6. SubSeq(b, 9, 8 + TextLength(b)) \in Seq(Nat)
  <2>1. \A i \in 9 .. 8 + TextLength(b) : b[i] \in Nat
    BY <1>2, <1>5
  <2> QED
    BY <1>5, <2>1, SubSeqProperties
<1>7. SubSeq(b, 9 + TextLength(b), Len(b)) \in Seq(Nat)
  <2>1. Len(b) \in Int /\ \A i \in 9 + TextLength(b) .. Len(b) : b[i] \in Nat
    BY <1>1, <1>2, <1>5
  <2> QED
    BY <1>5, <2>1, SubSeqProperties
<1> QED
  BY <1>3, <1>4, <1>6, <1>7 DEF Header, Bytes

(* A round of the loop, in terms of these.                                 *)
LEMMA ParseFrameRound ==
    ASSUME SocketInv, ParseFrame, NEW b, b = Behind(body)
    PROVE  \/ /\ Len(b) < 8 \/ Length(b, Len(b)) < 1
              /\ logs' = lines /\ lines' = <<>> /\ body' = body /\ at' = "idle"
           \/ /\ Len(b) >= 8 /\ Length(b, Len(b)) >= 1
              /\ body' = SubSeq(b, 9 + TextLength(b), Len(b))
              /\ LET entry == Trim(SubSeq(b, 9, 8 + TextLength(b))) IN
                 lines' = IF entry = <<>> THEN lines ELSE Append(lines, entry)
              /\ logs' = logs /\ at' = at
<1>1. b \in Bytes /\ Len(b) \in Nat /\ (Len(b) >= 8 => Header(b))
  BY FrameBounds DEF SocketInv
<1>2. CASE Len(b) >= 8
  <2>1. Length(b, Len(b)) \in Nat
    BY <1>1, <1>2 DEF Header
  <2>2. CASE Length(b, Len(b)) < 1
    BY <1>2, <2>2 DEF ParseFrame, Behind
  <2>3. CASE ~(Length(b, Len(b)) < 1)
    <3> DEFINE b0 == IF body = <<>> THEN <<>> ELSE Tail(body)
               header == Len(b0) >= 8
               len == IF header THEN Min({Length(b0, Len(b0)), Len(b0) - 8}) ELSE 0
               entry == Trim(SubSeq(b0, 9, 8 + len))
    <3>1. b0 = b
      BY DEF Behind
    <3>2. /\ IF ~header \/ Length(b0, Len(b0)) < 1
             THEN /\ logs' = lines /\ lines' = <<>>
                  /\ returned' = TRUE
                  /\ at' = "idle" /\ UNCHANGED body
             ELSE /\ body' = SubSeq(b0, 9 + len, Len(b0))
                  /\ lines' = IF entry = <<>> THEN lines ELSE Append(lines, entry)
                  /\ UNCHANGED <<logs, returned, at>>
      BY DEF ParseFrame
    <3>3. header /\ len = TextLength(b)
      BY <1>2, <3>1 DEF TextLength
    <3>4. entry = Trim(SubSeq(b, 9, 8 + TextLength(b)))
      BY <3>1, <3>3
    <3> HIDE DEF header, len, entry, b0
    <3>5. /\ body' = SubSeq(b, 9 + TextLength(b), Len(b))
          /\ lines' = IF entry = <<>> THEN lines ELSE Append(lines, entry)
          /\ logs' = logs /\ at' = at
      BY <2>3, <3>1, <3>2, <3>3
    <3>6. Length(b, Len(b)) >= 1
      BY <2>1, <2>3
    <3> QED
      BY <1>2, <3>4, <3>5, <3>6
  <2> QED
    BY <2>2, <2>3
<1>3. CASE ~(Len(b) >= 8)
  BY <1>1, <1>3 DEF ParseFrame, Behind
<1> QED
  BY <1>2, <1>3

LEMMA ParseFrameSocketInv == SocketInv /\ ParseFrame => SocketInv'
<1> SUFFICES ASSUME SocketInv, ParseFrame PROVE SocketInv'
  OBVIOUS
<1>1. body' \in Bytes /\ at' \in {"idle", at}
  <2>1. PICK b : b = Behind(body)
    OBVIOUS
  <2>2. Len(b) >= 8 => SubSeq(b, 9 + TextLength(b), Len(b)) \in Bytes
    BY <2>1, FrameBounds DEF SocketInv, Header
  <2>3. body \in Bytes
    BY DEF SocketInv
  <2> QED
    BY <2>1, <2>2, <2>3, ParseFrameRound
<1>2. at = "logs" /\ UNCHANGED <<query, answer, rest, pieces, ok, plan, signed>>
  BY DEF ParseFrame
<1> QED
  BY <1>1, <1>2 DEF SocketInv

LEMMA NextSocketInv == SocketInv /\ [Next]_vars => SocketInv'
<1> SUFFICES ASSUME SocketInv, [Next]_vars PROVE SocketInv'
  OBVIOUS
<1>1. CASE Transfer
  <2>1. CASE Execute
    BY <2>1, ExecuteSocketInv
  <2>2. CASE \E n \in 1 .. Len(rest) : Receive(n)
    BY <2>2, ReceiveSocketInv
  <2>3. CASE End \/ Drop
    <3>1. at' = query /\ UNCHANGED <<query, answer, rest, pieces, body>>
      BY <2>3 DEF End, Drop, Received
    <3>2. query # "receive"
      BY SocketAssumption DEF SocketInv
    <3> QED
      BY <3>1, <3>2 DEF SocketInv
  <2> QED
    BY <1>1, <2>1, <2>2, <2>3 DEF Transfer
<1>2. CASE UpdateLogs
  <2>1. CASE NoLogs
    <3>1. at' = "idle" /\ UNCHANGED <<query, answer, rest, pieces, body>>
      BY <2>1 DEF NoLogs
    <3> QED
      BY <3>1 DEF SocketInv
  <2> QED
    BY <1>2, <2>1, ParseFrameSocketInv DEF UpdateLogs
<1>3. CASE UpdateStats
  <2>1. at' = "idle" /\ UNCHANGED <<query, answer, rest, pieces, body>>
    BY <1>3 DEF UpdateStats, StatsRefused, StatsTaken
  <2> QED
    BY <2>1 DEF SocketInv
<1>4. CASE \E run \in BOOLEAN, started \in Started, pid \in {0, 1}, now \in Clock :
              Relist(run, started, pid, now)
  <2>1. UNCHANGED <<at, query, answer, rest, pieces, body>>
    BY <1>4 DEF Relist
  <2> QED
    BY <2>1 DEF SocketInv
<1>5. CASE UNCHANGED vars
  BY <1>5 DEF vars, socketVars, SocketInv
<1> QED
  BY <1>1, <1>2, <1>3, <1>4, <1>5 DEF Next

-----------------------------------------------------------------------------
(* The halves of a report stand for text with no mark in it.               *)
Large == {k \in Nat : k >= 256}
Reports == {<<Half(r, 0), Half(r, 1)>> : r \in DOMAIN Entry}

(* The array made of up to two pieces.                                     *)
Marked(b, p) ==
    /\ Len(p) <= 2 /\ (p = <<>> => b = <<>>)
    /\ Len(p) = 1 => b = <<Open>> \o p[1]
    /\ Len(p) = 2 => b = <<Open>> \o p[1] \o <<Comma>> \o p[2] \o <<Close>>

StatsPlace ==
    query = "stats" =>
        /\ pieces \in Seq(Seq(Large)) /\ rest \in Seq(Large)
        /\ at = "receive" => Len(pieces) <= 1
        /\ Marked(body, pieces)

LEMMA ReportType == Reports \subseteq Seq(Large) /\ \A p \in Reports : Len(p) = 2
<1>1. ASSUME NEW r \in DOMAIN Entry
      PROVE  <<Half(r, 0), Half(r, 1)>> \in Seq(Large) /\ Len(<<Half(r, 0), Half(r, 1)>>) = 2
  <2>1. Half(r, 0) \in Large /\ Half(r, 1) \in Large
    BY StatsAssumption DEF Half, Large
  <2> QED
    BY <2>1
<1> HIDE DEF Large
<1> QED
  BY <1>1 DEF Reports

LEMMA StatsAnswer ==
    ASSUME SocketInv, query = "stats"
    PROVE  answer \in Seq(Reports) /\ answer \in Seq(Seq(Large))
<1>1. answer \in Seq(Reports)
  <2>1. answer \in Answers["stats"] => answer \in Seq(Reports)
    BY StatsAssumption DEF Reports
  <2>2. answer = <<>> => answer \in Seq(Reports)
    OBVIOUS
  <2> QED
    BY <2>1, <2>2 DEF SocketInv
<1> QED
  BY <1>1, ReportType, SeqMonotonic

LEMMA ExecuteStatsPlace == SocketInv /\ Execute => StatsPlace'
<1> SUFFICES ASSUME SocketInv, Execute, query' = "stats"
             PROVE  /\ pieces' \in Seq(Seq(Large)) /\ rest' \in Seq(Large)
                    /\ at' = "receive" => Len(pieces') <= 1
                    /\ Marked(body', pieces')
  BY DEF StatsPlace, Marked
<1>1. answer' \in Seq(Seq(Large))
  <2>1. answer' \in Answers["stats"]
    BY DEF Execute
  <2>2. answer' \in Seq(Reports)
    BY <2>1, StatsAssumption DEF Reports
  <2> QED
    BY <2>2, ReportType, SeqMonotonic
<1>2. rest' = FlattenSeq(answer') /\ pieces' = <<>> /\ body' = <<>>
  BY DEF Execute
<1>3. rest' \in Seq(Large)
  BY <1>1, <1>2, FlattenType
<1>4. Len(pieces') = 0 /\ pieces' \in Seq(Seq(Large))
  BY <1>2, EmptySeq
<1> QED
  BY <1>2, <1>3, <1>4 DEF Marked

(* The second piece ends the array and the transfer.                       *)
LEMMA ReceiveStatsPlace ==
    ASSUME SocketInv, StatsPlace, NEW n \in 1 .. Len(rest), Receive(n)
    PROVE  StatsPlace'
<1> DEFINE data == SubSeq(rest, 1, n)
           mark == IF Len(pieces) + 1 = 1 THEN Open ELSE Comma
           full == ChunksAllowed[query] > 0 /\ Len(pieces) + 1 >= ChunksAllowed[query]
           end == IF full THEN <<Close>> ELSE <<>>
<1>1. /\ pieces' = Append(pieces, data)
      /\ Len(pieces') = Len(pieces) + 1 /\ Len(pieces) \in Nat
      /\ \A i \in 1 .. Len(pieces) : pieces'[i] = pieces[i]
      /\ pieces'[Len(pieces')] = data
      /\ at = "receive" /\ UNCHANGED <<query, answer, plan>>
  BY ReceivePiece
<1> SUFFICES ASSUME query = "stats"
             PROVE  /\ pieces' \in Seq(Seq(Large)) /\ rest' \in Seq(Large)
                    /\ at' = "receive" => Len(pieces') <= 1
                    /\ Marked(body', pieces')
  BY <1>1 DEF StatsPlace, Marked
<1>2. /\ pieces \in Seq(Seq(Large)) /\ rest \in Seq(Large) /\ Len(pieces) <= 1
      /\ Marked(body, pieces)
  BY <1>1 DEF StatsPlace
<1>2a. Len(pieces) \in {0, 1} /\ Len(pieces') = Len(pieces) + 1
  <2>1. Len(pieces) \in Nat /\ Len(pieces) <= 1 /\ Len(pieces') = Len(pieces) + 1
    BY <1>1, <1>2
  <2>2. \A k \in Nat : k <= 1 => k \in {0, 1}
    OBVIOUS
  <2> QED
    BY ONLY <2>1, <2>2, Zenon
<1>3. /\ body' = body \o <<mark>> \o data \o end
      /\ rest' = SubSeq(rest, n + 1, Len(rest))
  BY DEF Receive
<1>4. (full <=> Len(pieces) = 1) /\ (full => at' = "stats")
  <2>1. full <=> Len(pieces) = 1
    <3>1. ChunksAllowed[query] = 2
      BY DEF ChunksAllowed
    <3>2. ChunksAllowed[query] > 0 /\ (Len(pieces) + 1 >= ChunksAllowed[query] <=> Len(pieces) = 1)
      BY ONLY <1>2a, <3>1
    <3> QED
      BY <3>2
  <2>2. full => at' = query
    BY DEF Receive, Received
  <2> QED
    BY <2>1, <2>2
<1>5. data \in Seq(Large) /\ rest' \in Seq(Large)
  <2>1. /\ Len(rest) \in Nat /\ \A i \in 1 .. n : i \in 1 .. Len(rest)
        /\ n + 1 \in Int /\ \A i \in n + 1 .. Len(rest) : i \in 1 .. Len(rest)
    BY <1>2, LenProperties
  <2>2. (\A i \in 1 .. n : rest[i] \in Large) /\ \A i \in n + 1 .. Len(rest) : rest[i] \in Large
    BY <1>2, <2>1, ElementOfSeq
  <2> QED
    BY <1>3, <2>1, <2>2, SubSeqProperties
<1>6. pieces' \in Seq(Seq(Large))
  BY <1>1, <1>2, <1>5, AppendProperties
<1> HIDE DEF data, full
<1>7. Marked(body', pieces')
  <2>1. CASE Len(pieces) = 0
    <3>1. pieces = <<>> /\ body = <<>> /\ mark = Open /\ end = <<>>
      BY <1>2, <1>4, <2>1, EmptySeq DEF Marked
    <3>2. body' = <<>> \o <<Open>> \o data \o <<>>
      BY <1>3, <3>1
    <3>3. <<>> \o <<Open>> = <<Open>> /\ <<Open>> \in Seq(Nat) /\ data \in Seq(Nat)
      <4>1. <<Open>> \in Seq(Nat)
        BY DEF Open
      <4>2. data \in Seq(Nat)
        BY <1>5, SeqMonotonic DEF Large
      <4> QED
        BY <4>1, <4>2, ConcatEmptySeq
    <3>4. <<Open>> \o data \in Seq(Nat)
      BY <3>3, ConcatProperties
    <3>5. (<<Open>> \o data) \o <<>> = <<Open>> \o data
      BY <3>4, ConcatEmptySeq
    <3>6. body' = <<Open>> \o data
      BY <3>2, <3>3, <3>5, Zenon
    <3>7. pieces'[1] = data /\ Len(pieces') = 1 /\ pieces' # <<>>
      <4>1. Len(pieces') = 1 /\ pieces'[Len(pieces')] = data
        BY <1>1, <2>1
      <4> QED
        BY <4>1, EmptySeq
    <3> QED
      BY <3>6, <3>7 DEF Marked
  <2>2. CASE Len(pieces) = 1
    <3>1. body = <<Open>> \o pieces[1] /\ mark = Comma /\ end = <<Close>>
      BY <1>2, <1>4, <2>2 DEF Marked
    <3>2. body' = <<Open>> \o pieces[1] \o <<Comma>> \o data \o <<Close>>
      BY <1>3, <3>1
    <3>3. pieces'[1] = pieces[1] /\ pieces'[2] = data /\ Len(pieces') = 2 /\ pieces' # <<>>
      BY <1>1, <2>2
    <3> QED
      BY <3>2, <3>3 DEF Marked
  <2>3. Len(pieces) = 0 \/ Len(pieces) = 1
    BY <1>2a
  <2> QED
    BY <2>1, <2>2, <2>3
<1>8. at' = "receive" => Len(pieces') <= 1
  BY <1>2a, <1>4
<1> QED
  BY <1>5, <1>6, <1>7, <1>8

(* The places of an array of two pieces.                                   *)
TwoPlaces(b, p, q) ==
    /\ Len(b) = Len(p) + Len(q) + 3
    /\ b[1] = Open /\ b[Len(p) + 2] = Comma
    /\ \A i \in 1 .. Len(p) : b[1 + i] = p[i]
    /\ \A i \in 1 .. Len(q) : b[Len(p) + 2 + i] = q[i]

LEMMA TwoMarked ==
    ASSUME NEW p \in Seq(Nat), NEW q \in Seq(Nat)
    PROVE  TwoPlaces(<<Open>> \o p \o <<Comma>> \o q \o <<Close>>, p, q)
<1>0. PICK b : b = <<Open>> \o p \o <<Comma>> \o q \o <<Close>>
  OBVIOUS
<1>1. /\ <<Open>> \in Seq(Nat) /\ Len(<<Open>>) = 1 /\ <<Open>>[1] = Open
      /\ <<Comma>> \in Seq(Nat) /\ Len(<<Comma>>) = 1 /\ <<Comma>>[1] = Comma
      /\ <<Close>> \in Seq(Nat) /\ Len(<<Close>>) = 1
  BY DEF Open, Comma, Close
<1>2. PICK k, m : k = Len(p) /\ m = Len(q) /\ k \in Nat /\ m \in Nat
  BY LenProperties
<1> DEFINE b1 == <<Open>> \o p
           b2 == b1 \o <<Comma>>
           b3 == b2 \o q
<1>3. b1 \in Seq(Nat) /\ SideBySide(b1, 1 + k, <<Open>>, 1, p, k)
  BY <1>1, <1>2, ConcatPlaces
<1>4. b2 \in Seq(Nat) /\ SideBySide(b2, (1 + k) + 1, b1, 1 + k, <<Comma>>, 1)
  <2> HIDE DEF b1
  <2>1. Len(b1) = 1 + k
    BY <1>3 DEF SideBySide
  <2>2. b2 \in Seq(Nat) /\ SideBySide(b2, Len(b1) + Len(<<Comma>>), b1, Len(b1), <<Comma>>, Len(<<Comma>>))
    BY <1>1, <1>3, ConcatPlaces
  <2> HIDE DEF b2
  <2> QED
    BY <1>1, <2>1, <2>2
<1>5. b3 \in Seq(Nat) /\ SideBySide(b3, ((1 + k) + 1) + m, b2, (1 + k) + 1, q, m)
  <2> HIDE DEF b2
  <2>1. Len(b2) = (1 + k) + 1
    BY <1>4 DEF SideBySide
  <2>2. b3 \in Seq(Nat) /\ SideBySide(b3, Len(b2) + Len(q), b2, Len(b2), q, Len(q))
    BY <1>4, ConcatPlaces
  <2> HIDE DEF b3
  <2> QED
    BY <1>2, <2>1, <2>2
<1>6. b = b3 \o <<Close>>
  BY <1>0 DEF b1, b2
<1> HIDE DEF b1, b2, b3
<1>7. SideBySide(b, (((1 + k) + 1) + m) + 1, b3, ((1 + k) + 1) + m, <<Close>>, 1)
  <2>1. Len(b3) = ((1 + k) + 1) + m
    BY <1>5 DEF SideBySide
  <2>2. SideBySide(b, Len(b3) + Len(<<Close>>), b3, Len(b3), <<Close>>, Len(<<Close>>))
    BY <1>1, <1>5, <1>6, ConcatPlaces
  <2> QED
    BY <1>1, <2>1, <2>2
<1>8. /\ 1 \in 1 .. 1 /\ 1 \in 1 .. 1 + k /\ 1 \in 1 .. (1 + k) + 1 /\ 1 \in 1 .. ((1 + k) + 1) + m
      /\ (1 + k) + 1 = k + 2 /\ k + 2 \in 1 .. (1 + k) + 1 /\ k + 2 \in 1 .. ((1 + k) + 1) + m
      /\ (((1 + k) + 1) + m) + 1 = k + m + 3
      /\ \A i \in 1 .. k : /\ 1 + i \in 1 .. 1 + k /\ 1 + i \in 1 .. (1 + k) + 1
                           /\ 1 + i \in 1 .. ((1 + k) + 1) + m
      /\ \A i \in 1 .. m : /\ k + 2 + i \in 1 .. ((1 + k) + 1) + m
                           /\ k + 2 + i = ((1 + k) + 1) + i
  BY ONLY <1>2
<1>8a. /\ Len(b) = (((1 + k) + 1) + m) + 1
       /\ \A i \in 1 .. ((1 + k) + 1) + m : b[i] = b3[i]
       /\ \A i \in 1 .. (1 + k) + 1 : b3[i] = b2[i]
       /\ \A i \in 1 .. m : b3[((1 + k) + 1) + i] = q[i]
       /\ \A i \in 1 .. 1 + k : b2[i] = b1[i]
       /\ b2[(1 + k) + 1] = Comma
       /\ b1[1] = Open /\ \A i \in 1 .. k : b1[1 + i] = p[i]
  BY <1>1, <1>3, <1>4, <1>5, <1>7, <1>8 DEF SideBySide
<1>9. b[1] = Open /\ b[k + 2] = Comma /\ Len(b) = k + m + 3
  <2>1. b[1] = Open
    BY <1>8, <1>8a
  <2>2. b[(1 + k) + 1] = Comma
    <3>1. b[(1 + k) + 1] = b3[(1 + k) + 1] /\ b3[(1 + k) + 1] = b2[(1 + k) + 1]
      BY <1>8, <1>8a
    <3> QED
      BY <1>8a, <3>1
  <2>3. Len(b) = k + m + 3
    BY <1>8, <1>8a
  <2> QED
    BY <1>8, <2>1, <2>2, <2>3
<1>10. (\A i \in 1 .. k : b[1 + i] = p[i]) /\ \A i \in 1 .. m : b[k + 2 + i] = q[i]
  <2>1. ASSUME NEW i \in 1 .. k PROVE b[1 + i] = p[i]
    <3>1. b[1 + i] = b3[1 + i] /\ b3[1 + i] = b2[1 + i] /\ b2[1 + i] = b1[1 + i]
      BY <1>8, <1>8a
    <3> QED
      BY <1>8a, <3>1
  <2>2. ASSUME NEW i \in 1 .. m PROVE b[k + 2 + i] = q[i]
    <3>1. b[k + 2 + i] = b3[k + 2 + i] /\ k + 2 + i = ((1 + k) + 1) + i
      BY <1>8, <1>8a
    <3> QED
      BY <1>8a, <3>1
  <2> QED
    BY <2>1, <2>2
<1>11. TwoPlaces(b, p, q)
  BY <1>2, <1>9, <1>10 DEF TwoPlaces
<1> QED
  BY <1>0, <1>11

(* An array of two reports or more is made of two pieces, a report each.   *)
LEMMA ArrayOfTwo ==
    ASSUME NEW p \in Seq(Seq(Large)), NEW b \in Seq(Nat),
           Marked(b, p), IsArray(b), ArrayLength(b) >= 2
    PROVE  /\ Len(p) = 2 /\ Len(p[1]) = 2 /\ Len(p[2]) = 2
           /\ p[2][1] = Half(Element(b, 2), 0) /\ p[2][2] = Half(Element(b, 2), 1)
<1>1. PICK n : /\ n = ArrayLength(b) /\ n > 0 /\ n >= 2 /\ Len(b) = 3 * n + 1
               /\ \A k \in 1 .. n : /\ WholeReport(3 * k - 1, b)
                                    /\ b[3 * k + 1] = IF k = n THEN Close ELSE Comma
  BY DEF IsArray, ArrayLength
<1>1a. n \in Nat
  <2>1. Len(b) \in Nat
    BY LenProperties
  <2>2. \A l \in Nat : (l - 1) \div 3 \in Int
    OBVIOUS
  <2>3. n \in Int /\ n > 0
    BY <1>1, <2>1, <2>2 DEF ArrayLength
  <2> QED
    BY ONLY <2>3
<1>2. /\ 1 \in 1 .. n /\ 3 * 1 - 1 = 2 /\ 3 * 1 + 1 = 4
      /\ 2 \in 1 .. n /\ 3 * 2 - 1 = 5 /\ 3 * 2 + 1 = 7 /\ n \in Nat /\ 1 # n
      /\ 2 \in 1 .. 3 * n + 1 /\ 3 * n + 1 # 0 /\ 3 * n + 1 >= 7
  <2>1. n >= 2
    BY <1>1
  <2> QED
    BY ONLY <1>1a, <2>1
<1>3. b[4] = Comma /\ b[7] \in {Comma, Close} /\ WholeReport(2, b) /\ WholeReport(5, b)
  BY <1>1, <1>2
<1>4. /\ b[2] >= 256 /\ b[2] = Half(Report(b[2]), 0) /\ b[3] = Half(Report(b[2]), 1)
      /\ b[5] = Half(Report(b[5]), 0) /\ b[6] = Half(Report(b[5]), 1)
  BY <1>3 DEF WholeReport
<1>5. Element(b, 2) = Report(b[5])
  BY <1>2 DEF Element
<1>6. Len(p) \in Nat /\ Len(p) <= 2 /\ (Len(p) = 0 => p = <<>>)
  BY LenProperties, EmptySeq DEF Marked
<1>7. \A s \in Seq(Large) : /\ s \in Seq(Nat) /\ Len(s) \in Nat
                            /\ \A i \in 1 .. Len(s) : s[i] \in Large
  <2>1. Large \subseteq Nat
    BY DEF Large
  <2> HIDE DEF Large
  <2> QED
    BY <2>1, SeqMonotonic, LenProperties, ElementOfSeq
<1>8. \A x \in Large : x >= 256 /\ x # Open /\ x # Comma /\ x # Close
  BY DEF Large, Open, Comma, Close
<1>9. Len(p) # 0
  <2>1. Len(p) = 0 => Len(b) = 0
    BY <1>6, EmptySeq DEF Marked
  <2>2. Len(b) # 0
    BY <1>1, <1>2
  <2> QED
    BY <2>1, <2>2
<1>10. Len(p) # 1
  <2> SUFFICES ASSUME Len(p) = 1 PROVE FALSE
    OBVIOUS
  <2>1. b = <<Open>> \o p[1]
    BY DEF Marked
  <2>2. p[1] \in Seq(Large)
    <3>1. 1 \in 1 .. Len(p)
      BY <1>6
    <3> QED
      BY <3>1, ElementOfSeq
  <2>3. <<Open>> \in Seq(Nat) /\ Len(<<Open>>) = 1
    BY DEF Open
  <2>4. PICK k : k = Len(p[1]) /\ k \in Nat
    BY <1>7, <2>2
  <2>5. SideBySide(b, 1 + k, <<Open>>, 1, p[1], k)
    BY <1>7, <2>1, <2>2, <2>3, <2>4, ConcatPlaces
  <2>6. Len(b) = 1 + k /\ \A i \in 1 .. k : b[1 + i] = p[1][i]
    BY <2>5 DEF SideBySide
  <2>7. 3 \in 1 .. k /\ 1 + 3 = 4
    BY <1>1, <1>2, <2>4, <2>6
  <2>8. b[4] \in Large
    BY <1>7, <2>2, <2>4, <2>6, <2>7
  <2> QED
    BY <1>3, <1>8, <2>8
<1>11. Len(p) = 2
  <2>1. \A k \in Nat : k <= 2 => k = 0 \/ k = 1 \/ k = 2
    OBVIOUS
  <2> QED
    BY ONLY <1>6, <1>9, <1>10, <2>1, Zenon
<1>12. p[1] \in Seq(Large) /\ p[2] \in Seq(Large)
  <2>1. 1 \in 1 .. Len(p) /\ 2 \in 1 .. Len(p)
    BY <1>11
  <2> QED
    BY <2>1, ElementOfSeq
<1>13. b = <<Open>> \o p[1] \o <<Comma>> \o p[2] \o <<Close>>
  BY <1>11 DEF Marked
<1>14. PICK k, m : k = Len(p[1]) /\ m = Len(p[2]) /\ k \in Nat /\ m \in Nat
  BY <1>7, <1>12
<1>15. /\ Len(b) = k + m + 3 /\ b[k + 2] = Comma
       /\ \A i \in 1 .. k : b[1 + i] \in Large
       /\ \A i \in 1 .. m : b[k + 2 + i] = p[2][i] /\ b[k + 2 + i] \in Large
  <2>1. p[1] \in Seq(Nat) /\ p[2] \in Seq(Nat)
    BY <1>7, <1>12
  <2>2. /\ Len(b) = Len(p[1]) + Len(p[2]) + 3 /\ b[Len(p[1]) + 2] = Comma
        /\ \A i \in 1 .. Len(p[1]) : b[1 + i] = p[1][i]
        /\ \A i \in 1 .. Len(p[2]) : b[Len(p[1]) + 2 + i] = p[2][i]
    <3>1. TwoPlaces(b, p[1], p[2])
      BY <1>13, <2>1, TwoMarked
    <3> QED
      BY <3>1 DEF TwoPlaces
  <2>3. (\A i \in 1 .. k : p[1][i] \in Large) /\ \A i \in 1 .. m : p[2][i] \in Large
    BY <1>7, <1>12, <1>14
  <2> QED
    BY <1>14, <2>2, <2>3
<1>16. Half(Report(b[2]), 1) # Comma /\ Half(Report(b[2]), 0) # Comma
  <2>1. b[2] \in Nat /\ b[2] >= 256
    BY <1>1, <1>2, <1>4, ElementOfSeq
  <2>2. \A x \in Nat : x >= 256 => Half(Report(x), 1) # Comma /\ Half(Report(x), 0) # Comma
    BY DEF Half, Report, Comma
  <2> QED
    BY <2>1, <2>2
<1>17. k = 2
  <2>1. k # 0
    <3>1. k = 0 => b[2] = Comma
      BY <1>15
    <3> QED
      BY <1>4, <1>16, <3>1
  <2>2. k # 1
    <3>1. k = 1 => b[3] = Comma
      BY <1>15
    <3> QED
      BY <1>4, <1>16, <3>1
  <2>3. ~(k >= 3)
    <3>1. k >= 3 => 3 \in 1 .. k /\ 1 + 3 = 4
      BY <1>14
    <3>2. k >= 3 => b[4] \in Large
      BY <1>15, <3>1
    <3> QED
      BY <1>3, <1>8, <3>2
  <2> QED
    <3>1. \A x \in Nat : x # 0 /\ x # 1 /\ ~(x >= 3) => x = 2
      OBVIOUS
    <3> QED
      BY ONLY <1>14, <2>1, <2>2, <2>3, <3>1, Zenon
<1>18. m = 2
  <2>1. ~(m >= 3)
    <3>1. m >= 3 => 3 \in 1 .. m /\ k + 2 + 3 = 7
      BY <1>14, <1>17
    <3>2. m >= 3 => b[7] \in Large
      BY <1>15, <3>1
    <3> QED
      BY <1>3, <1>8, <3>2
  <2>2. k + m + 3 = 3 * n + 1
    BY <1>1, <1>15
  <2>3. n >= 2 /\ n \in Nat
    BY <1>1, <1>2
  <2> QED
    <3>1. \A x, y \in Nat : ~(x >= 3) /\ 2 + x + 3 = 3 * y + 1 /\ y >= 2 => x = 2
      OBVIOUS
    <3>2. 2 + m + 3 = 3 * n + 1
      BY <1>17, <2>2
    <3> QED
      BY ONLY <1>14, <2>1, <2>3, <3>1, <3>2, Zenon
<1>19. p[2][1] = b[5] /\ p[2][2] = b[6]
  <2>1. 1 \in 1 .. m /\ 2 \in 1 .. m /\ k + 2 + 1 = 5 /\ k + 2 + 2 = 6
    BY ONLY <1>17, <1>18
  <2> QED
    BY <1>15, <2>1
<1> QED
  BY <1>4, <1>5, <1>11, <1>14, <1>17, <1>18, <1>19

(* The report used is the second the engine sent, after the first.         *)
Aligned(r) ==
    /\ Len(answer) >= 2 /\ pieces = <<answer[1], answer[2]>>
    /\ answer[2] = <<Half(r, 0), Half(r, 1)>> /\ r \in DOMAIN Entry

(* What makes an array of two reports came report by report: the pieces    *)
(* are two of two halves each, which are the first four halves sent.       *)
LEMMA ArrayAligned ==
    ASSUME SocketInv, StatsPlace, query = "stats", IsArray(body), ArrayLength(body) >= 2
    PROVE  Aligned(Element(body, 2))
<1>1. pieces \in Seq(Seq(Large)) /\ body \in Seq(Nat) /\ rest \in Seq(Large) /\ Marked(body, pieces)
  BY DEF SocketInv, StatsPlace, Bytes
<1>2. PICK r : r = Element(body, 2)
  OBVIOUS
<1>3. /\ Len(pieces) = 2 /\ Len(pieces[1]) = 2 /\ Len(pieces[2]) = 2
      /\ pieces[2][1] = Half(r, 0) /\ pieces[2][2] = Half(r, 1)
  BY <1>1, <1>2, ArrayOfTwo
<1>4. answer \in Seq(Reports) /\ answer \in Seq(Seq(Large)) /\ Len(answer) \in Nat
  BY StatsAnswer, LenProperties
<1>5. \A i \in 1 .. Len(answer) : answer[i] \in Reports
  BY <1>4, ElementOfSeq
<1>6. \A i \in 1 .. Len(answer) : Len(answer[i]) = 2
  BY <1>5, ReportType
<1>7. \A i \in 1 .. 2 : Len(pieces[i]) = 2
  BY <1>3
<1>8. PICK fa, fp : fa = FlattenSeq(answer) /\ fp = FlattenSeq(pieces)
  OBVIOUS
<1>9. /\ Len(fa) = 2 * Len(answer)
      /\ \A i \in 1 .. Len(answer) : fa[2 * i - 1] = answer[i][1] /\ fa[2 * i] = answer[i][2]
  BY <1>4, <1>6, <1>8, FlattenPairs
<1>10. /\ Len(fp) = 2 * Len(pieces)
       /\ \A i \in 1 .. Len(pieces) : fp[2 * i - 1] = pieces[i][1] /\ fp[2 * i] = pieces[i][2]
  BY <1>1, <1>3, <1>7, <1>8, FlattenPairs
<1>11. fa = fp \o rest /\ fp \in Seq(Large) /\ Len(rest) \in Nat
  BY <1>1, <1>8, FlattenType, LenProperties DEF SocketInv
<1>12. SideBySide(fa, Len(fp) + Len(rest), fp, Len(fp), rest, Len(rest))
  BY <1>1, <1>11, ConcatPlaces
<1>13. /\ Len(fp) = 4 /\ 2 * Len(answer) = 4 + Len(rest)
       /\ \A i \in 1 .. 4 : fa[i] = fp[i]
  BY <1>3, <1>9, <1>10, <1>12 DEF SideBySide
<1>14. Len(answer) >= 2
  <2>1. \A x, y \in Nat : 2 * x = 4 + y => x >= 2
    OBVIOUS
  <2> QED
    BY <1>4, <1>11, <1>13, <2>1
<1>15. ASSUME NEW i \in 1 .. 2 PROVE pieces[i] = answer[i]
  <2>1. /\ i \in 1 .. Len(answer) /\ i \in 1 .. Len(pieces)
        /\ 2 * i - 1 \in 1 .. 4 /\ 2 * i \in 1 .. 4
    BY <1>3, <1>4, <1>14
  <2>2. pieces[i][1] = answer[i][1] /\ pieces[i][2] = answer[i][2]
    BY <1>9, <1>10, <1>13, <2>1
  <2>3. /\ pieces[i] \in Seq(Large) /\ answer[i] \in Seq(Large)
        /\ Len(pieces[i]) = 2 /\ Len(answer[i]) = 2
    BY <1>1, <1>4, <1>6, <1>7, <2>1, ElementOfSeq
  <2>4. \A j \in 1 .. Len(pieces[i]) : j = 1 \/ j = 2
    BY <2>3
  <2> QED
    BY <2>2, <2>3, <2>4, SeqEqual
<1>16. pieces = <<answer[1], answer[2]>>
  <2>1. /\ <<answer[1], answer[2]>> \in Seq(Seq(Large)) /\ Len(<<answer[1], answer[2]>>) = 2
        /\ pieces[1] = answer[1] /\ pieces[2] = answer[2]
    <3>1. 1 \in 1 .. Len(answer) /\ 2 \in 1 .. Len(answer)
      BY <1>4, <1>14
    <3>2. answer[1] \in Seq(Large) /\ answer[2] \in Seq(Large)
      BY <1>4, <3>1, ElementOfSeq
    <3> QED
      BY <1>15, <3>2
  <2>2. \A i \in 1 .. Len(pieces) : pieces[i] = <<answer[1], answer[2]>>[i]
    BY <1>3, <2>1
  <2> QED
    BY <1>1, <1>3, <2>1, <2>2, SeqEqual
<1>17. PICK r0 \in DOMAIN Entry : answer[2] = <<Half(r0, 0), Half(r0, 1)>>
  <2>1. answer[2] \in Reports
    BY <1>4, <1>5, <1>14
  <2> QED
    BY <2>1 DEF Reports
<1>18. r = r0
  <2>1. Half(r, 0) = Half(r0, 0)
    BY <1>3, <1>15, <1>17
  <2>2. r0 \in Nat
    BY StatsAssumption
  <2>3. r \in Int
    <3>1. 3 * 2 - 1 = 5 /\ 5 \in 1 .. Len(body)
      <4>1. Len(body) \in Nat /\ (Len(body) - 1) \div 3 >= 2
        BY <1>1, LenProperties DEF ArrayLength
      <4>2. \A l \in Nat : (l - 1) \div 3 >= 2 => 5 \in 1 .. l
        OBVIOUS
      <4> QED
        BY <4>1, <4>2
    <3>2. body[5] \in Nat
      BY <1>1, <3>1, ElementOfSeq
    <3> QED
      BY <1>2, <3>1, <3>2 DEF Element, Report
  <2> QED
    BY <2>1, <2>2, <2>3 DEF Half
<1> QED
  BY <1>2, <1>14, <1>16, <1>17, <1>18 DEF Aligned

(* What is known of the container, each field on its own.                  *)
Containers == [isRunning : BOOLEAN, startedAt : Nat, uptime : Int,
               load : {0} \cup DOMAIN Entry, ram : [used : Int, max : Int, free : Int],
               pids : Int \ {0}, pid : Int]

RamOfLoad == cntr.ram = IF cntr.load = 0 THEN NoRam ELSE Ram(cntr.load)

(* A refresh of the list, or a report parsed.                              *)
News == [source : {"list"}, n : {0, 1}] \cup [source : {"stats"}, n : DOMAIN Entry]

(* The container and its figures, and where they come from.                *)
StatsInv ==
    /\ StatsPlace
    /\ cntr \in Containers /\ RamOfLoad
    /\ news \in Seq(News)
    /\ used \in {0} \cup DOMAIN Entry
    /\ at = "idle" /\ query = "stats" /\ used # 0 => Aligned(used)

(* The figures of a report; what a stopped container has.                  *)
LEMMA RamType ==
    /\ NoRam \in [used : Int, max : Int, free : Int]
    /\ \A r \in DOMAIN Entry : Ram(r) \in [used : Int, max : Int, free : Int]
<1>1. ASSUME NEW r \in DOMAIN Entry
      PROVE  ReadInt(Entry[r].mem) \in Int /\ ReadInt(Entry[r].limit) \in Int
  BY StatsAssumption DEF ReadInt, MaxInt
<1> QED
  BY <1>1 DEF Ram, NoRam

LEMMA SecondAligned ==
    ASSUME SocketInv, StatsPlace, at = "stats", Usable(Second)
    PROVE  Aligned(Second) /\ Second \in DOMAIN Entry
<1>1. query = "stats"
  BY DEF SocketInv
<1>2. IsArray(body) /\ ArrayLength(body) >= 2 /\ Second = Element(body, 2)
  BY DEF Usable, Second
<1>3. Aligned(Element(body, 2))
  BY <1>1, <1>2, ArrayAligned
<1> QED
  BY <1>2, <1>3 DEF Aligned

LEMMA InitStatsInv == Init => StatsInv
<1> SUFFICES ASSUME Init PROVE StatsInv
  OBVIOUS
<1>1. query = "logs" /\ used = 0
  BY DEF Init, SocketInit, StatsInit
<1>2. cntr \in Containers /\ RamOfLoad
  BY RamType DEF Init, StatsInit, Containers, RamOfLoad
<1>3. news \in Seq(News)
  BY EmptySeq DEF Init, StatsInit
<1> QED
  BY <1>1, <1>2, <1>3 DEF StatsInv, StatsPlace

LEMMA NextStatsInv == SocketInv /\ StatsInv /\ [Next]_vars => StatsInv'
<1> SUFFICES ASSUME SocketInv, StatsInv, [Next]_vars PROVE StatsInv'
  OBVIOUS
<1>0. /\ StatsPlace /\ cntr \in Containers /\ RamOfLoad /\ news \in Seq(News)
      /\ used \in {0} \cup DOMAIN Entry
      /\ at = "idle" /\ query = "stats" /\ used # 0 => Aligned(used)
  BY DEF StatsInv
<1>1. CASE Transfer /\ UNCHANGED statsVars
  <2>1. cntr' = cntr /\ used' = used /\ news' = news
    BY <1>1 DEF statsVars
  <2>2. at' # "idle"
    <3>1. query # "idle"
      BY SocketAssumption DEF SocketInv
    <3> QED
      BY <1>1, <3>1 DEF Transfer, Execute, Receive, End, Drop, Received
  <2>3. StatsPlace'
    <3>1. CASE Execute
      BY <3>1, ExecuteStatsPlace
    <3>2. CASE \E n \in 1 .. Len(rest) : Receive(n)
      BY <1>0, <3>2, ReceiveStatsPlace
    <3>3. CASE End \/ Drop
      <4>1. at' = query /\ UNCHANGED <<query, answer, rest, pieces, body>>
        BY <3>3 DEF End, Drop, Received
      <4>2. query # "receive"
        BY SocketAssumption DEF SocketInv
      <4> QED
        BY <1>0, <4>1, <4>2 DEF StatsPlace, Marked
    <3> QED
      BY <1>1, <3>1, <3>2, <3>3 DEF Transfer
  <2> QED
    BY <1>0, <2>1, <2>2, <2>3 DEF StatsInv, RamOfLoad
<1>2. CASE UpdateLogs /\ UNCHANGED statsVars
  <2>1. query' = query /\ cntr' = cntr /\ used' = used /\ news' = news /\ at = "logs"
    BY <1>2 DEF UpdateLogs, NoLogs, ParseFrame, statsVars
  <2>2. query # "stats"
    BY <2>1 DEF SocketInv
  <2> QED
    BY <1>0, <2>1, <2>2 DEF StatsInv, StatsPlace, RamOfLoad
<1>3. CASE StatsRefused
  <2>1. at' = "idle" /\ used' = 0 /\ UNCHANGED <<query, answer, rest, pieces, body, cntr, news>>
    BY <1>3 DEF StatsRefused
  <2> QED
    BY <1>0, <2>1 DEF StatsInv, StatsPlace, Marked, RamOfLoad
<1>4. CASE StatsTaken
  <2>1. PICK r : r = Second
    OBVIOUS
  <2>2. /\ at = "stats" /\ Usable(r) /\ used' = r /\ at' = "idle"
        /\ UNCHANGED <<query, answer, rest, pieces, body, ok, plan>>
    BY <1>4, <2>1 DEF StatsTaken
  <2>3. query = "stats"
    BY <2>2 DEF SocketInv
  <2>4. Aligned(r) /\ r \in DOMAIN Entry
    BY <1>0, <2>1, <2>2, SecondAligned
  <2>5. StatsPlace' /\ Aligned(r)'
    <3>1. StatsPlace'
      BY <1>0, <2>2 DEF StatsPlace, Marked
    <3> QED
      BY <2>2, <2>4, <3>1 DEF Aligned
  <2>6. cntr' \in Containers /\ RamOfLoad'
    <3>1. /\ ParseStats(r) \in Containers
          /\ ParseStats(r).ram = IF ParseStats(r).load = 0 THEN NoRam ELSE Ram(ParseStats(r).load)
      <4>1. /\ Ram(r) \in [used : Int, max : Int, free : Int] /\ r # 0
            /\ NoRam \in [used : Int, max : Int, free : Int]
        BY <2>2, <2>4, RamType DEF Usable
      <4>2. CASE ~cntr.isRunning
        <5>1. ParseStats(r) = [cntr EXCEPT !.load = 0, !.ram = NoRam, !.pids = -1, !.pid = -1]
          BY <4>2 DEF ParseStats, Stopped
        <5>2. -1 \in Int \ {0} /\ 0 \in {0} \cup DOMAIN Entry
          OBVIOUS
        <5> QED
          BY <1>0, <4>1, <5>1, <5>2 DEF Containers
      <4>3. CASE cntr.isRunning /\ ~Entry[r].numbers
        BY <1>0, <4>3 DEF ParseStats, RamOfLoad
      <4>4. CASE cntr.isRunning /\ Entry[r].numbers /\ Entry[r].pid >= 1
        <5>1. ParseStats(r) = [cntr EXCEPT !.load = r, !.ram = Ram(r), !.pids = Entry[r].pid,
                                           !.pid = Entry[r].pid]
          BY <1>0, <4>4 DEF ParseStats, Containers
        <5>2. Entry[r].pid \in Int \ {0} /\ r \in {0} \cup DOMAIN Entry
          BY <2>4, <4>4, StatsAssumption
        <5> QED
          BY <1>0, <4>1, <5>1, <5>2 DEF Containers
      <4>5. CASE cntr.isRunning /\ Entry[r].numbers /\ ~(Entry[r].pid >= 1)
        <5>1. ParseStats(r) = [cntr EXCEPT !.load = r, !.ram = Ram(r)]
          BY <4>5 DEF ParseStats
        <5> QED
          BY <1>0, <2>4, <4>1, <5>1 DEF Containers
      <4> QED
        BY <4>2, <4>3, <4>4, <4>5
    <3>2. CASE ~Entry[r].listed
      BY <1>0, <1>4, <2>1, <3>2 DEF StatsTaken, RamOfLoad
    <3>3. CASE Entry[r].listed
      <4>1. PICK now \in Clock : cntr' = [ParseStats(r) EXCEPT !.uptime =
                                  IF cntr.startedAt > 0 THEN now - cntr.startedAt ELSE 0]
        BY <1>4, <2>1, <3>3 DEF StatsTaken
      <4>2. (IF cntr.startedAt > 0 THEN now - cntr.startedAt ELSE 0) \in Int
        <5>1. cntr.startedAt \in Int /\ now \in Int
          BY <1>0, StatsAssumption DEF Containers
        <5> QED
          BY <5>1
      <4>3. cntr' \in Containers
        BY <3>1, <4>1, <4>2 DEF Containers
      <4>4. cntr'.ram = ParseStats(r).ram /\ cntr'.load = ParseStats(r).load
        BY <3>1, <4>1 DEF Containers
      <4> QED
        BY <3>1, <4>3, <4>4 DEF RamOfLoad
    <3> QED
      BY <3>2, <3>3
  <2>7. news' \in Seq(News)
    <3>1. [source |-> "stats", n |-> r] \in News
      BY <2>4 DEF News
    <3>2. news' \in {news, <<>>, Append(news, [source |-> "stats", n |-> r])}
      BY <1>4, <2>1 DEF StatsTaken
    <3> HIDE DEF News
    <3>3. <<>> \in Seq(News)
      BY EmptySeq
    <3>4. Append(news, [source |-> "stats", n |-> r]) \in Seq(News)
      BY <1>0, <3>1, AppendProperties
    <3> QED
      BY <1>0, <3>2, <3>3, <3>4
  <2> QED
    BY <2>2, <2>4, <2>5, <2>6, <2>7 DEF StatsInv
<1>5. CASE \E run \in BOOLEAN, started \in Started, pid \in {0, 1}, now \in Clock :
              Relist(run, started, pid, now)
  <2>1. PICK run \in BOOLEAN, started \in Started, pid \in {0, 1}, now \in Clock :
              Relist(run, started, pid, now)
    BY <1>5
  <2>2. UNCHANGED <<at, query, answer, rest, pieces, body, used>>
    BY <2>1 DEF Relist
  <2>3. cntr' \in Containers /\ RamOfLoad'
    <3>1. cntr' = [cntr EXCEPT !.isRunning = run, !.startedAt = started, !.pid = pid,
                               !.uptime = IF started > 0 THEN now - started ELSE 0]
      BY <2>1 DEF Relist
    <3>2. (IF started > 0 THEN now - started ELSE 0) \in Int /\ started \in Nat
      BY StatsAssumption
    <3>3. cntr' \in Containers
      <4>1. run \in BOOLEAN /\ pid \in Int
        OBVIOUS
      <4>2. PICK up \in Int : cntr' = [cntr EXCEPT !.isRunning = run, !.startedAt = started,
                                                  !.pid = pid, !.uptime = up]
        BY <3>1, <3>2
      <4>3. cntr \in Containers /\ started \in Nat
        BY <1>0, <3>2
      <4> QED
        BY <4>1, <4>2, <4>3 DEF Containers
    <3>4. cntr'.ram = cntr.ram /\ cntr'.load = cntr.load
      BY <1>0, <3>1 DEF Containers
    <3> QED
      BY <1>0, <3>3, <3>4 DEF RamOfLoad
  <2>4. news' \in Seq(News)
    <3>1. news' = Append(news, [source |-> "list", n |-> pid])
      BY <2>1 DEF Relist
    <3>2. [source |-> "list", n |-> pid] \in News
      BY DEF News
    <3> HIDE DEF News
    <3> QED
      BY <1>0, <3>1, <3>2, AppendProperties
  <2> QED
    BY <1>0, <2>2, <2>3, <2>4 DEF StatsInv, StatsPlace, Marked, Aligned
<1>6. CASE UNCHANGED vars
  <2>1. UNCHANGED <<at, query, answer, rest, pieces, body, used, cntr, news>>
    BY <1>6 DEF vars, socketVars, statsVars
  <2> QED
    BY <1>0, <2>1 DEF StatsInv, StatsPlace, Marked, Aligned, RamOfLoad
<1> QED
  BY <1>1, <1>2, <1>3, <1>4, <1>5, <1>6 DEF Next, UpdateStats

(* A report from the middle of the answer, from a piece that was cut, or   *)
(* from two that came as one, is never used: update_stats() takes the      *)
(* second report the engine sent, after the first, or none.                *)
THEOREM AnswersStatsAligned == Spec => []StatsAligned
<1>1. Init => SocketInv /\ StatsInv
  BY InitSocketInv, InitStatsInv
<1>2. SocketInv /\ StatsInv /\ [Next]_vars => (SocketInv /\ StatsInv)'
  BY NextSocketInv, NextStatsInv
<1>3. StatsInv => StatsAligned
  BY DEF StatsInv, Aligned, StatsAligned
<1> QED
  BY <1>1, <1>2, <1>3, PTL DEF Spec

(* From 2 GiB on the reply shows 2.00gb; below, the memory it shows as used *)
(* and in all is what the report of the load it shows beside it has, to    *)
(* the accuracy of the unit: a stopped container has lost all three, and a *)
(* report that is refused leaves all three.                                *)
THEOREM AnswersMemShown == Spec => []MemShown
<1>1. Init => SocketInv /\ StatsInv
  BY InitSocketInv, InitStatsInv
<1>2. SocketInv /\ StatsInv /\ [Next]_vars => (SocketInv /\ StatsInv)'
  BY NextSocketInv, NextStatsInv
<1>3. StatsInv => MemShown
  <2> SUFFICES ASSUME StatsInv PROVE MemShown
    OBVIOUS
  <2>1. cntr.load = 0 => cntr.ram = NoRam
    BY DEF StatsInv, RamOfLoad
  <2>2. CASE cntr.load # 0
    <3>1. cntr.load \in DOMAIN Entry
      BY <2>2 DEF StatsInv, Containers
    <3>2. PICK e : e = Entry[cntr.load]
      OBVIOUS
    <3>3. \A amount \in {e.mem, e.limit} : amount = Huge \/ amount \in Nat
      BY <3>1, <3>2, StatsAssumption
    <3>4. /\ cntr.ram.used = ReadInt(e.mem) /\ cntr.ram.max = ReadInt(e.limit)
          /\ cntr.ram.free = ReadInt(e.limit) - ReadInt(e.mem)
      BY <2>2, <3>2 DEF StatsInv, RamOfLoad, Ram
    <3>5. \A amount \in {e.mem, e.limit} :
             IF amount = Huge THEN MemToStr(ReadInt(amount)) = [value |-> 200, unit |-> "gb"]
                              ELSE Accurate(MemToStr(ReadInt(amount)), amount)
      BY <3>3, StatsMemAccurate, LargestShown DEF ReadInt
    <3>6. ASSUME Huge \notin {e.mem, e.limit}, e.mem <= e.limit
          PROVE  Accurate(MemToStr(cntr.ram.free), e.limit - e.mem)
      <4>1. cntr.ram.free = e.limit - e.mem /\ e.limit - e.mem \in Nat
        BY <3>3, <3>4, <3>6 DEF ReadInt
      <4> QED
        BY <4>1, StatsMemAccurate
    <3>7. ASSUME Huge \notin {e.mem, e.limit}, e.mem <= e.limit
          PROVE  e.limit - e.mem # Huge
      BY <3>3, <3>7 DEF Huge
    <3> QED
      BY <2>2, <3>2, <3>4, <3>5, <3>6, <3>7 DEF MemShown
  <2> QED
    BY <2>1, <2>2 DEF MemShown
<1> QED
  BY <1>1, <1>2, <1>3, PTL DEF Spec

(* What the reply shows of the uptime adds up to it.                       *)
THEOREM AnswersUptimeShown == Spec => []UptimeShown
<1>1. Init => SocketInv /\ StatsInv
  BY InitSocketInv, InitStatsInv
<1>2. SocketInv /\ StatsInv /\ [Next]_vars => (SocketInv /\ StatsInv)'
  BY NextSocketInv, NextStatsInv
<1>3. StatsInv => UptimeShown
  BY UnitsMakeUp DEF StatsInv, Containers, UptimeShown
<1> QED
  BY <1>1, <1>2, <1>3, PTL DEF Spec

-----------------------------------------------------------------------------
(* What is appended to the news is the latest of the sets it is in.        *)
LEMMA NewsAppended ==
    ASSUME news \in Seq(News), NEW m \in News, news' = Append(news, m),
           NEW k, k = Len(news) + 1
    PROVE  /\ news'[k] = m /\ \A i \in DOMAIN news : news'[i] = news[i]
           /\ Figures' = Figures \cup IF m.source = "stats" /\ Entry[m.n].numbers THEN {k} ELSE {}
           /\ WithPid' = WithPid \cup IF /\ m.source = "stats" /\ Entry[m.n].numbers
                                        /\ Entry[m.n].pid >= 1 THEN {k} ELSE {}
           /\ Refreshes' = Refreshes \cup IF m.source = "list" THEN {k} ELSE {}
           /\ Figures \subseteq 1 .. Len(news) /\ WithPid \subseteq Figures
           /\ Refreshes \subseteq 1 .. Len(news)
<1> HIDE DEF News
<1>1. /\ Len(news) \in Nat /\ DOMAIN news = 1 .. Len(news) /\ DOMAIN news' = 1 .. k
      /\ news'[k] = m /\ \A i \in DOMAIN news : news'[i] = news[i]
  BY AppendProperties, LenProperties
<1>2. DOMAIN news' = DOMAIN news \cup {k} /\ k \notin DOMAIN news
  BY <1>1
<1>3. Figures' = {i \in DOMAIN news' : news'[i].source = "stats" /\ Entry[news'[i].n].numbers}
  BY DEF Figures
<1>4. WithPid' = {i \in Figures' : Entry[news'[i].n].pid >= 1}
  BY DEF WithPid
<1>5. Refreshes' = {i \in DOMAIN news' : news'[i].source = "list"}
  BY DEF Refreshes
<1>6. Figures' = Figures \cup IF m.source = "stats" /\ Entry[m.n].numbers THEN {k} ELSE {}
  BY <1>1, <1>2, <1>3 DEF Figures
<1>7. Figures \subseteq DOMAIN news
  BY DEF Figures
<1>8. WithPid' = WithPid \cup IF /\ m.source = "stats" /\ Entry[m.n].numbers
                                 /\ Entry[m.n].pid >= 1 THEN {k} ELSE {}
  BY <1>1, <1>2, <1>4, <1>6, <1>7 DEF WithPid
<1>9. Refreshes' = Refreshes \cup IF m.source = "list" THEN {k} ELSE {}
  BY <1>1, <1>2, <1>5 DEF Refreshes
<1>10. WithPid \subseteq Figures /\ Refreshes \subseteq DOMAIN news
  BY DEF WithPid, Refreshes
<1> QED
  BY <1>1, <1>6, <1>7, <1>8, <1>9, <1>10

LEMMA LatestAppended ==
    ASSUME NEW l \in Nat, NEW S \in SUBSET (1 .. l)
    PROVE  \A i : Latest(i, S \cup {l + 1}) <=> i = l + 1
<1>1. \A j \in S : j \in Nat /\ j <= l + 1 /\ ~(l + 1 <= j)
  OBVIOUS
<1>2. Latest(l + 1, S \cup {l + 1})
  BY <1>1 DEF Latest
<1>3. \A i \in S : ~Latest(i, S \cup {l + 1})
  BY <1>1 DEF Latest
<1> QED
  BY <1>2, <1>3 DEF Latest

LEMMA NextFigures == SocketInv /\ StatsInv /\ FiguresOfLatest /\ [Next]_vars => FiguresOfLatest'
<1> SUFFICES ASSUME SocketInv, StatsInv, FiguresOfLatest, [Next]_vars PROVE FiguresOfLatest'
  OBVIOUS
<1>0. news \in Seq(News) /\ cntr \in Containers /\ Len(news) \in Nat
  BY LenProperties DEF StatsInv
<1>1. CASE cntr' = cntr /\ news' = news
  BY <1>1 DEF FiguresOfLatest, Figures, WithPid, Refreshes, Latest
<1>2. ASSUME NEW run \in BOOLEAN, NEW started \in Started, NEW pid \in {0, 1}, NEW now \in Clock,
             Relist(run, started, pid, now)
      PROVE  FiguresOfLatest'
  <2>1. /\ cntr'.load = cntr.load /\ cntr'.pids = cntr.pids /\ cntr'.pid = pid
        /\ news' = Append(news, [source |-> "list", n |-> pid])
    BY <1>0, <1>2 DEF Relist, Containers
  <2>2. [source |-> "list", n |-> pid] \in News
    BY DEF News
  <2>3. PICK k, m : k = Len(news) + 1 /\ m = [source |-> "list", n |-> pid]
    OBVIOUS
  <2> m \in News /\ news' = Append(news, m) /\ m.source = "list" /\ m.n = pid
    BY <2>1, <2>2, <2>3
  <2>4. /\ news'[k].source = "list" /\ news'[k].n = pid
        /\ \A i \in DOMAIN news : news'[i] = news[i]
        /\ Figures' = Figures /\ WithPid' = WithPid /\ Refreshes' = Refreshes \cup {k}
        /\ Figures \subseteq 1 .. Len(news) /\ WithPid \subseteq Figures
        /\ Refreshes \subseteq 1 .. Len(news)
    BY <1>0, <2>3, NewsAppended
  <2>5. (WithPid \cup Refreshes)' = (WithPid \cup Refreshes) \cup {k}
    BY <2>4
  <2>6. \A i : Latest(i, (WithPid \cup Refreshes)') <=> i = k
    BY <1>0, <2>3, <2>4, <2>5, LatestAppended
  <2>7. DOMAIN news = 1 .. Len(news)
    BY <1>0
  <2>8. \A i \in Figures : news'[i] = news[i]
    BY <2>4, <2>7
  <2> QED
    BY <2>1, <2>4, <2>5, <2>6, <2>8 DEF FiguresOfLatest, Latest
<1>3. CASE StatsTaken
  <2>1. PICK r : r = Second
    OBVIOUS
  <2>2. CASE ~Entry[r].listed
    BY <1>1, <1>3, <2>1, <2>2 DEF StatsTaken
  <2>3. CASE Entry[r].listed /\ ~cntr.isRunning
    <3>1. PICK now \in Clock : cntr' = [ParseStats(r) EXCEPT !.uptime =
                                IF cntr.startedAt > 0 THEN now - cntr.startedAt ELSE 0]
      BY <1>3, <2>1, <2>3 DEF StatsTaken
    <3>2. cntr'.load = 0 /\ cntr'.pids = -1 /\ cntr'.pid = -1 /\ news' = <<>>
      BY <1>0, <1>3, <2>1, <2>3, <3>1 DEF StatsTaken, ParseStats, Stopped, Containers
    <3>3. Figures' = {} /\ WithPid' = {} /\ Refreshes' = {}
      BY <3>2 DEF Figures, WithPid, Refreshes
    <3> QED
      BY <3>2, <3>3 DEF FiguresOfLatest
  <2>4. CASE Entry[r].listed /\ cntr.isRunning
    <3>1. PICK now \in Clock : cntr' = [ParseStats(r) EXCEPT !.uptime =
                                IF cntr.startedAt > 0 THEN now - cntr.startedAt ELSE 0]
      BY <1>3, <2>1, <2>4 DEF StatsTaken
    <3>2. PICK k, has, pid :
             /\ k = Len(news) + 1 /\ has = Entry[r].numbers
             /\ pid = (has /\ Entry[r].pid >= 1)
      OBVIOUS
    <3>3. /\ cntr'.load = IF has THEN r ELSE cntr.load
          /\ cntr'.pids = IF pid THEN Entry[r].pid ELSE cntr.pids
          /\ cntr'.pid = IF pid THEN Entry[r].pid ELSE cntr.pid
      BY <1>0, <2>4, <3>1, <3>2 DEF ParseStats, Containers
    <3>4. news' = Append(news, [source |-> "stats", n |-> r]) /\ r \in DOMAIN Entry
      BY <1>3, <2>1, <2>4, SecondAligned DEF StatsTaken, StatsInv
    <3>5. [source |-> "stats", n |-> r] \in News
      BY <3>4 DEF News
    <3> DEFINE m == [source |-> "stats", n |-> r]
    <3> m \in News /\ news' = Append(news, m) /\ m.source = "stats" /\ m.n = r
      BY <3>4, <3>5
    <3> HIDE DEF m
    <3>6. /\ news'[k].source = "stats" /\ news'[k].n = r
          /\ \A i \in DOMAIN news : news'[i] = news[i]
          /\ Figures' = Figures \cup IF has THEN {k} ELSE {}
          /\ WithPid' = WithPid \cup IF pid THEN {k} ELSE {}
          /\ Refreshes' = Refreshes
          /\ Figures \subseteq 1 .. Len(news) /\ WithPid \subseteq Figures
          /\ Refreshes \subseteq 1 .. Len(news)
      BY <1>0, <3>2, NewsAppended
    <3>7. \A i \in Figures \cup Refreshes : news'[i] = news[i] /\ i # k
      BY <1>0, <3>2, <3>6, LenProperties
    <3>8. /\ has => \A i : Latest(i, Figures') <=> i = k
          /\ pid => \A i : Latest(i, WithPid') <=> i = k
          /\ pid => \A i : Latest(i, (WithPid \cup Refreshes)') <=> i = k
      <4>1. pid => (WithPid \cup Refreshes)' = (WithPid \cup Refreshes) \cup {k}
        BY <3>6
      <4>2. /\ Figures \in SUBSET (1 .. Len(news)) /\ WithPid \in SUBSET (1 .. Len(news))
            /\ WithPid \cup Refreshes \in SUBSET (1 .. Len(news))
        BY <3>6
      <4> QED
        BY <1>0, <3>2, <3>6, <4>1, <4>2, LatestAppended
    <3>9. /\ IF Figures' = {} THEN cntr'.load = 0
             ELSE \A i \in Figures' : Latest(i, Figures') => cntr'.load = news'[i].n
      <4>1. CASE has
        <5>1. Figures' # {} /\ \A i : Latest(i, Figures') => i = k
          BY <3>6, <3>8, <4>1
        <5>2. cntr'.load = news'[k].n
          BY <3>2, <3>3, <3>6, <4>1
        <5> QED
          BY <5>1, <5>2
      <4>2. CASE ~has
        <5>1. Figures' = Figures /\ cntr'.load = cntr.load
          BY <3>3, <3>6, <4>2
        <5> QED
          BY <3>3, <3>6, <3>7, <4>2, <5>1 DEF FiguresOfLatest
      <4> QED
        BY <4>1, <4>2
    <3>10. /\ IF WithPid' = {} THEN cntr'.pids = -1
              ELSE \A i \in WithPid' : Latest(i, WithPid') => cntr'.pids = Entry[news'[i].n].pid
      <4>1. CASE pid
        <5>1. WithPid' # {} /\ \A i : Latest(i, WithPid') => i = k
          BY <3>6, <3>8, <4>1
        <5>2. cntr'.pids = Entry[news'[k].n].pid
          BY <3>2, <3>3, <3>6, <4>1
        <5> QED
          BY <5>1, <5>2
      <4>2. CASE ~pid
        <5>1. WithPid' = WithPid /\ cntr'.pids = cntr.pids
          BY <3>3, <3>6, <4>2
        <5> QED
          BY <3>3, <3>6, <3>7, <4>2, <5>1 DEF FiguresOfLatest
      <4> QED
        BY <4>1, <4>2
    <3>11. LET S == (WithPid \cup Refreshes)' IN
           IF S = {} THEN cntr'.pid = -1
           ELSE \A i \in S : Latest(i, S) =>
                   cntr'.pid = IF i \in Refreshes' THEN news'[i].n ELSE Entry[news'[i].n].pid
      <4>1. CASE pid
        <5>1. (WithPid \cup Refreshes)' # {} /\ \A i : Latest(i, (WithPid \cup Refreshes)') => i = k
          BY <3>6, <3>8, <4>1
        <5>2. cntr'.pid = Entry[news'[k].n].pid /\ k \notin Refreshes'
          BY <3>2, <3>3, <3>6, <4>1
        <5> QED
          BY <5>1, <5>2
      <4>2. CASE ~pid
        <5>1. /\ (WithPid \cup Refreshes)' = WithPid \cup Refreshes
                /\ cntr'.pid = cntr.pid /\ Refreshes' = Refreshes
          BY <3>3, <3>6, <4>2
        <5>2. \A i \in WithPid \cup Refreshes : news'[i] = news[i]
          BY <3>6, <3>7
        <5> QED
          BY <5>1, <5>2 DEF FiguresOfLatest
      <4> QED
        BY <4>1, <4>2
    <3> QED
      BY <3>9, <3>10, <3>11 DEF FiguresOfLatest, Latest
  <2> QED
    BY <2>2, <2>3, <2>4
<1>4. \/ cntr' = cntr /\ news' = news
      \/ StatsTaken
      \/ \E run \in BOOLEAN, started \in Started, pid \in {0, 1}, now \in Clock :
            Relist(run, started, pid, now)
  BY DEF Next, UpdateStats, StatsRefused, statsVars, vars
<1> QED
  BY <1>1, <1>2, <1>3, <1>4

(* The figures shown are those of the last report that has any, and the    *)
(* pids those of the last that has a pid too, which may be another: a      *)
(* report whose pid is refused takes the place of the figures only.        *)
THEOREM AnswersFiguresOfLatest == Spec => []FiguresOfLatest
<1> DEFINE Inv == SocketInv /\ StatsInv /\ FiguresOfLatest
<1>1. Init => Inv
  <2>1. Init => FiguresOfLatest
    BY DEF Init, StatsInit, FiguresOfLatest, Figures, WithPid, Refreshes
  <2> QED
    BY <2>1, InitSocketInv, InitStatsInv
<1>2. Inv /\ [Next]_vars => Inv'
  BY NextSocketInv, NextStatsInv, NextFigures
<1>3. Inv => FiguresOfLatest
  OBVIOUS
<1> QED
  BY <1>1, <1>2, <1>3, PTL DEF Spec

-----------------------------------------------------------------------------
(* Lines of a log: text that trimming leaves as it is.                     *)
Texts == {s \in Bytes : s # <<>> /\ s = Trim(s)}

(* common::trim_ws() leaves nothing, or what it would not trim again.      *)
LEMMA TrimType ==
    ASSUME NEW s \in Bytes
    PROVE  Trim(s) \in {<<>>} \cup Texts
<1> DEFINE Inked(u) == {i \in DOMAIN u : u[i] \notin Blank}
<1>1. s \in Seq(Nat) /\ Len(s) \in Nat /\ DOMAIN s = 1 .. Len(s)
  BY LenProperties DEF Bytes
<1>2. CASE Inked(s) = {}
  BY <1>2 DEF Trim
<1>3. CASE Inked(s) # {}
  <2>1. Inked(s) \subseteq Nat /\ Inked(s) \in SUBSET (1 .. Len(s))
    BY <1>1
  <2>2. PICK a, c : a = Min(Inked(s)) /\ c = Max(Inked(s))
    OBVIOUS
  <2>3. a \in Inked(s)
    <3> HIDE DEF Inked
    <3>1. \E m \in Inked(s) : \A y \in Inked(s) : m <= y
      BY <1>3, <2>1, LeastNumber
    <3> QED
      BY <2>2, <3>1 DEF Min
  <2>4. c \in Inked(s) /\ \A y \in Inked(s) : y <= c
    <3> HIDE DEF Inked
    <3> QED
      BY <1>1, <1>3, <2>1, <2>2, LastPlace
  <2>5. a \in 1 .. Len(s) /\ c \in 1 .. Len(s) /\ a <= c /\ s[a] \notin Blank /\ s[c] \notin Blank
    BY <1>1, <2>3, <2>4
  <2>6. Trim(s) = SubSeq(s, a, c)
    BY <1>3, <2>2 DEF Trim
  <2>7. PICK u : u = SubSeq(s, a, c)
    OBVIOUS
  <2>8. /\ u \in Seq(Nat) /\ Len(u) = c - a + 1
        /\ \A i \in 1 .. c - a + 1 : u[i] = s[a + i - 1]
    <3>1. \A i \in a .. c : s[i] \in Nat
      <4>1. \A i \in a .. c : i \in 1 .. Len(s)
        BY <1>1, <2>5
      <4> QED
        BY <1>1, <4>1, ElementOfSeq
    <3>2. a \in Int /\ c \in Int
      BY <1>1, <2>5
    <3>3. /\ u \in Seq(Nat) /\ Len(u) = IF a <= c THEN c - a + 1 ELSE 0
          /\ \A i \in 1 .. c - a + 1 : u[i] = s[a + i - 1]
      BY <2>7, <3>1, <3>2, SubSeqProperties
    <3> QED
      BY <2>5, <3>3
  <2>9. PICK n \in Nat \ {0} : n = Len(u)
    BY <1>1, <2>5, <2>8
  <2>10. u[1] = s[a] /\ u[n] = s[c]
    <3>1. /\ 1 \in 1 .. c - a + 1 /\ a + 1 - 1 = a
          /\ n \in 1 .. c - a + 1 /\ a + n - 1 = c
      BY <1>1, <2>5, <2>8, <2>9
    <3> QED
      BY <2>8, <3>1
  <2>11. DOMAIN u = 1 .. n
    BY <2>8, <2>9, LenProperties
  <2>12. 1 \in Inked(u) /\ n \in Inked(u) /\ Inked(u) \subseteq 1 .. n
    BY <2>5, <2>9, <2>10, <2>11
  <2> HIDE DEF Inked
  <2>13. Min(Inked(u)) = 1
    <3>1. \A x \in Inked(u) : x \in Nat /\ 1 <= x
      BY <2>9, <2>12
    <3>2. \A x \in Inked(u) : (\A y \in Inked(u) : x <= y) => x = 1
      BY <2>12, <3>1
    <3> QED
      BY <2>12, <3>1, <3>2 DEF Min
  <2>14. Max(Inked(u)) = n
    <3>1. \A x \in Inked(u) : x \in Nat /\ x <= n
      BY <2>9, <2>12
    <3>2. \A x \in Inked(u) : (\A y \in Inked(u) : x >= y) => x = n
      BY <2>9, <2>12, <3>1
    <3>3. \A y \in Inked(u) : n >= y
      BY <2>9, <3>1
    <3> QED
      BY <2>12, <3>2, <3>3 DEF Max
  <2>15. Trim(u) = u
    <3>1. Inked(u) # {}
      BY <2>12
    <3>2. Trim(u) = SubSeq(u, Min(Inked(u)), Max(Inked(u)))
      BY <3>1 DEF Trim, Inked
    <3> QED
      BY <2>8, <2>9, <2>13, <2>14, <3>2, SubSeqFull
  <2>16. u # <<>>
    BY <2>9, EmptySeq
  <2> QED
    BY <2>6, <2>7, <2>8, <2>15, <2>16 DEF Texts, Bytes
<1> QED
  BY <1>2, <1>3

(* The log, the lines of the loop, and what the calls returned.            *)
LogsInv ==
    /\ ok \in BOOLEAN /\ returned \in BOOLEAN /\ signed \in CharSigned
    /\ logs \in Seq(Texts) /\ lines \in Seq(Texts)

LEMMA InitLogsInv == Init => LogsInv
<1>1. <<>> \in Seq(Texts)
  BY EmptySeq
<1> QED
  BY <1>1 DEF Init, SocketInit, LogsInit, LogsInv

LEMMA NextLogsInv == SocketInv /\ LogsInv /\ [Next]_vars => LogsInv'
<1> SUFFICES ASSUME SocketInv, LogsInv, [Next]_vars PROVE LogsInv'
  OBVIOUS
<1>1. CASE Transfer /\ UNCHANGED logVars
  <2>1. ok' \in BOOLEAN
    BY <1>1 DEF Transfer, Execute, Receive, Received, End, Drop, LogsInv
  <2> QED
    BY <1>1, <2>1 DEF LogsInv, logVars
<1>2. CASE NoLogs
  <2>1. returned' \in BOOLEAN /\ UNCHANGED <<ok, signed, logs, lines>>
    BY <1>2 DEF NoLogs
  <2> QED
    BY <2>1 DEF LogsInv
<1>3. CASE ParseFrame
  <2>1. UNCHANGED <<ok, signed>> /\ returned' \in {TRUE, returned}
    BY <1>3 DEF ParseFrame
  <2>2. PICK b : b = Behind(body)
    OBVIOUS
  <2>3. logs' \in Seq(Texts) /\ lines' \in Seq(Texts)
    <3>1. CASE logs' = lines /\ lines' = <<>>
      BY <3>1, EmptySeq DEF LogsInv
    <3>2. CASE /\ Len(b) >= 8 /\ logs' = logs
               /\ LET entry == Trim(SubSeq(b, 9, 8 + TextLength(b))) IN
                  lines' = IF entry = <<>> THEN lines ELSE Append(lines, entry)
      <4>1. PICK entry : entry = Trim(SubSeq(b, 9, 8 + TextLength(b)))
        OBVIOUS
      <4>2. SubSeq(b, 9, 8 + TextLength(b)) \in Bytes
        BY <2>2, <3>2, FrameBounds DEF SocketInv, Header
      <4>3. entry \in {<<>>} \cup Texts
        BY <4>1, <4>2, TrimType
      <4>4. lines' = IF entry = <<>> THEN lines ELSE Append(lines, entry)
        BY <3>2, <4>1
      <4> QED
        BY <3>2, <4>3, <4>4, AppendProperties DEF LogsInv
    <3> QED
      BY <1>3, <2>2, <3>1, <3>2, ParseFrameRound
  <2> QED
    BY <2>1, <2>3 DEF LogsInv
<1>4. CASE UNCHANGED logVars /\ ok' = ok
  BY <1>4 DEF LogsInv, logVars
<1>5. UpdateStats => ok' = ok
  BY DEF UpdateStats, StatsRefused, StatsTaken
<1>6. (\E run \in BOOLEAN, started \in Started, pid \in {0, 1}, now \in Clock :
          Relist(run, started, pid, now)) => ok' = ok
  BY DEF Relist
<1> QED
  BY <1>1, <1>2, <1>3, <1>4, <1>5, <1>6 DEF Next, UpdateLogs, vars, socketVars

(* The types; and of an answer nothing is lost or repeated between the     *)
(* pieces receiveCallback() was handed and what is left, with one mark     *)
(* before each in the body.                                                *)
THEOREM AnswersTypeCorrect == Spec => []AnswersTypeOK
<1> DEFINE Inv == SocketInv /\ StatsInv /\ LogsInv
<1>1. Init => Inv
  BY InitSocketInv, InitStatsInv, InitLogsInv
<1>2. Inv /\ [Next]_vars => Inv'
  BY NextSocketInv, NextStatsInv, NextLogsInv
<1>3. Inv => AnswersTypeOK
  <2> SUFFICES ASSUME SocketInv, StatsInv, LogsInv PROVE AnswersTypeOK
    OBVIOUS
  <2>1. \A s \in ToSet(logs) \cup ToSet(lines) : s \in Texts
    <3>1. ToSet(logs) \subseteq Texts /\ ToSet(lines) \subseteq Texts
      BY LenProperties, ElementOfSeq DEF LogsInv, ToSet
    <3> QED
      BY <3>1
  <2>2. /\ cntr.isRunning \in BOOLEAN /\ cntr.pid \in Int /\ cntr.pids # 0
        /\ cntr.load \in {0} \cup DOMAIN Entry /\ cntr.uptime \in Int
    BY DEF StatsInv, Containers
  <2>3. used \in {0} \cup DOMAIN Entry
    BY DEF StatsInv
  <2>4. /\ at \in {"idle", "receive"} \cup DOMAIN Answers /\ query \in DOMAIN Answers
        /\ FlattenSeq(answer) = FlattenSeq(pieces) \o rest
        /\ at = "receive" => Len(body) = Len(FlattenSeq(pieces)) + Len(pieces)
    BY DEF SocketInv
  <2> QED
    BY <2>1, <2>2, <2>3, <2>4 DEF AnswersTypeOK, Texts, LogsInv
<1> QED
  BY <1>1, <1>2, <1>3, PTL DEF Spec

-----------------------------------------------------------------------------
(* The lines of the first frames, one frame more at a time.                *)
LEMMA LinesOfMore ==
    ASSUME NEW a \in Seq(Bytes)
    PROVE  /\ Lines(SubSeq(a, 1, 0)) = <<>> /\ Lines(SubSeq(a, 1, Len(a))) = Lines(a)
           /\ \A k \in 0 .. Len(a) : Lines(SubSeq(a, 1, k)) \in Seq(Texts)
           /\ \A k \in 0 .. Len(a) - 1 :
                 Lines(SubSeq(a, 1, k + 1)) = Lines(SubSeq(a, 1, k)) \o Line(a[k + 1])
<1>1. Len(a) \in Nat /\ \A i \in 1 .. Len(a) : a[i] \in Bytes
  BY LenProperties, ElementOfSeq
<1>2. \A i \in 1 .. Len(a) : Line(a[i]) \in Seq(Texts)
  <2> SUFFICES ASSUME NEW i \in 1 .. Len(a) PROVE Line(a[i]) \in Seq(Texts)
    OBVIOUS
  <2>1. PICK f : f = a[i] /\ f \in Seq(Nat) /\ Len(f) \in Nat
    BY <1>1, LenProperties DEF Bytes
  <2>2. Text(f) \in Bytes
    <3>1. \A j \in 9 .. Len(f) : f[j] \in Nat
      BY <2>1, ElementOfSeq
    <3> QED
      BY <2>1, <3>1, SubSeqProperties DEF Text, Bytes
  <2>3. Trim(Text(f)) \in {<<>>} \cup Texts
    BY <2>2, TrimType
  <2> HIDE DEF Texts
  <2> QED
    BY <2>1, <2>3 DEF Line
<1> DEFINE L(k) == [i \in 1 .. k |-> Line(a[i])]
<1>3. ASSUME NEW k \in 0 .. Len(a)
      PROVE  Lines(SubSeq(a, 1, k)) = FlattenSeq(L(k)) /\ L(k) \in Seq(Seq(Texts)) /\ Len(L(k)) = k
  <2>1. PICK s : s = SubSeq(a, 1, k)
    OBVIOUS
  <2>2. k \in Int /\ \A i \in 1 .. k : a[i] \in Bytes
    BY <1>1
  <2>3. s \in Seq(Bytes) /\ Len(s) = k /\ \A i \in 1 .. k : s[i] = a[i]
    <3>1. /\ s \in Seq(Bytes) /\ Len(s) = IF 1 <= k THEN k - 1 + 1 ELSE 0
          /\ \A i \in 1 .. k - 1 + 1 : s[i] = a[1 + i - 1]
      BY <2>1, <2>2, SubSeqProperties
    <3>2. (IF 1 <= k THEN k - 1 + 1 ELSE 0) = k /\ k - 1 + 1 = k
      BY <1>1
    <3> QED
      BY <3>1, <3>2
  <2>4. DOMAIN s = 1 .. k
    BY <2>3, LenProperties
  <2>5. [i \in DOMAIN s |-> Line(s[i])] = L(k)
    BY <2>3, <2>4
  <2>6. L(k) \in Seq(Seq(Texts)) /\ Len(L(k)) = k
    <3>1. \A i \in 1 .. k : Line(a[i]) \in Seq(Texts) /\ k \in Nat
      BY <1>1, <1>2
    <3> HIDE DEF Texts
    <3> QED
      BY <1>1, <3>1
  <2> QED
    BY <2>1, <2>5, <2>6 DEF Lines
<1>4. Lines(SubSeq(a, 1, Len(a))) = Lines(a)
  BY SubSeqFull
<1>5. Lines(SubSeq(a, 1, 0)) = <<>>
  <2>1. 0 \in 0 .. Len(a)
    BY <1>1
  <2>2. L(0) = <<>>
    BY <1>3, <2>1, EmptySeq
  <2> QED
    BY <1>3, <2>1, <2>2, FlattenEmpty
<1>6. \A k \in 0 .. Len(a) : Lines(SubSeq(a, 1, k)) \in Seq(Texts)
  <2> HIDE DEF L
  <2> QED
    BY <1>3, FlattenType
<1>7. ASSUME NEW k \in 0 .. Len(a) - 1
      PROVE  Lines(SubSeq(a, 1, k + 1)) = Lines(SubSeq(a, 1, k)) \o Line(a[k + 1])
  <2>1. k \in 0 .. Len(a) /\ k + 1 \in 0 .. Len(a) /\ k + 1 \in 1 .. Len(a) /\ k \in Nat
    BY <1>1
  <2>2. Line(a[k + 1]) \in Seq(Texts)
    BY <1>2, <2>1
  <2>3. L(k + 1) = Append(L(k), Line(a[k + 1]))
    <3>1. /\ L(k) \in Seq(Seq(Texts)) /\ Len(L(k)) = k
          /\ L(k + 1) \in Seq(Seq(Texts)) /\ Len(L(k + 1)) = k + 1
      BY <1>3, <2>1
    <3>2. PICK u : u = Append(L(k), Line(a[k + 1]))
      OBVIOUS
    <3>3. /\ u \in Seq(Seq(Texts)) /\ Len(u) = k + 1 /\ u[k + 1] = Line(a[k + 1])
          /\ \A i \in 1 .. k : u[i] = L(k)[i]
      <4> HIDE DEF L
      <4> QED
        BY <2>2, <3>1, <3>2, AppendProperties
    <3>4. \A i \in 1 .. k + 1 : u[i] = L(k + 1)[i]
      BY <2>1, <3>3
    <3> HIDE DEF L
    <3> QED
      BY <3>1, <3>2, <3>3, <3>4, SeqEqual
  <2> HIDE DEF L
  <2>4. FlattenSeq(L(k + 1)) = FlattenSeq(L(k)) \o Line(a[k + 1])
    BY <1>3, <2>1, <2>2, <2>3, FlattenAppend
  <2> QED
    BY <1>3, <2>1, <2>4
<1> QED
  BY <1>4, <1>5, <1>6, <1>7

(* The length in a header.                                                 *)
Told(h) == h[5] * 16777216 + h[6] * 65536 + h[7] * 256 + h[8]

(* A frame whose length the target reads as it was written.                *)
Readable(f) ==
    /\ f \in Bytes /\ Len(f) > 8
    /\ f[5] < 128 /\ (signed => \A j \in 6 .. 8 : f[j] < 128)
    /\ Told(f) = Len(f) - 8

(* Behind the mark, s has a piece p that begins with such a frame, and t.  *)
FrameAhead(b, s, f, p, t) ==
    /\ s \in Bytes /\ b = Behind(s) /\ b = p \o t
    /\ p \in Bytes /\ t \in Bytes /\ Readable(f) /\ IsPrefix(f, p)

(* A round that begins at such a frame takes its text, and no more.        *)
LEMMA FrameRead ==
    ASSUME signed \in BOOLEAN, NEW b, NEW s, NEW f, NEW p, NEW t, FrameAhead(b, s, f, p, t)
    PROVE  /\ Len(b) >= 8 /\ Length(b, Len(b)) >= 1
           /\ SubSeq(b, 9, 8 + TextLength(b)) = Text(f)
           /\ p = f => SubSeq(b, 9 + TextLength(b), Len(b)) = t
<1>1. /\ f \in Seq(Nat) /\ p \in Seq(Nat) /\ t \in Seq(Nat) /\ b = p \o t
      /\ b \in Seq(Nat) /\ Len(b) >= 8 => Header(b)
  <2>1. b \in Bytes /\ (Len(b) >= 8 => Header(b))
    BY FrameBounds DEF FrameAhead
  <2> QED
    BY <2>1 DEF FrameAhead, Readable, Bytes
<1>2. PICK lf, lp, lt : /\ lf = Len(f) /\ lp = Len(p) /\ lt = Len(t)
                        /\ lf \in Nat /\ lp \in Nat /\ lt \in Nat
  BY <1>1, LenProperties
<1>3. SideBySide(b, lp + lt, p, lp, t, lt)
  BY <1>1, <1>2, ConcatPlaces
<1>4. Len(b) = lp + lt /\ (\A i \in 1 .. lp : b[i] = p[i]) /\ \A i \in 1 .. lt : b[lp + i] = t[i]
  BY <1>3 DEF SideBySide
<1>5. lf <= lp /\ lf > 8 /\ Len(b) >= lf /\ Len(b) \in Nat
  BY <1>2, <1>4 DEF FrameAhead, IsPrefix, Readable
<1>6. \A i \in 1 .. lf : f[i] = p[i] /\ f[i] \in Nat /\ p[i] \in Nat
  <2>1. \A i \in 1 .. lf : f[i] \in Nat
    BY <1>1, <1>2, ElementOfSeq
  <2>2. \A i \in 1 .. lf : p[i] \in Nat
    <3>1. \A i \in 1 .. lf : i \in 1 .. lp
      BY ONLY <1>2, <1>5
    <3> QED
      BY <1>1, <1>2, <3>1, ElementOfSeq
  <2>3. \A i \in 1 .. lf - 1 + 1 : SubSeq(f, 1, lf)[i] = f[1 + i - 1]
    BY <1>2, <2>1, SubSeqProperties
  <2>4. \A i \in 1 .. lf - 1 + 1 : SubSeq(p, 1, lf)[i] = p[1 + i - 1]
    BY <1>2, <2>2, SubSeqProperties
  <2>5. SubSeq(f, 1, lf) = SubSeq(p, 1, lf)
    BY <1>2 DEF FrameAhead, IsPrefix
  <2>6. \A i \in 1 .. lf : i \in 1 .. lf - 1 + 1 /\ 1 + i - 1 = i
    BY ONLY <1>2
  <2>7. \A i \in 1 .. lf : f[i] = p[i]
    BY <2>3, <2>4, <2>5, <2>6
  <2> QED
    BY <2>1, <2>2, <2>7
<1>7. \A i \in 1 .. lf : b[i] = f[i] /\ b[i] \in Nat
  <2>1. \A i \in 1 .. lf : i \in 1 .. lp
    BY ONLY <1>2, <1>5
  <2> QED
    BY <1>4, <1>6, <2>1
<1>8. Length(b, Len(b)) = lf - 8
  <2>1. /\ b[5] = f[5] /\ b[6] = f[6] /\ b[7] = f[7] /\ b[8] = f[8]
        /\ f[5] \in Nat /\ f[6] \in Nat /\ f[7] \in Nat /\ f[8] \in Nat
    <3>1. 5 \in 1 .. lf /\ 6 \in 1 .. lf /\ 7 \in 1 .. lf /\ 8 \in 1 .. lf
      BY ONLY <1>2, <1>5
    <3> QED
      BY <1>6, <1>7, <3>1
  <2>2. f[5] < 128 /\ (signed => f[6] < 128 /\ f[7] < 128 /\ f[8] < 128) /\ Told(f) = lf - 8
    BY <1>2 DEF FrameAhead, Readable
  <2>3. ~(b[5] >= 128 \/ (signed /\ \E i \in 6 .. 8 : b[i] >= 128))
    <3>1. \A i \in 6 .. 8 : i = 6 \/ i = 7 \/ i = 8
      OBVIOUS
    <3>2. \A x \in Nat : x < 128 => ~(x >= 128)
      OBVIOUS
    <3> QED
      BY ONLY <2>1, <2>2, <3>1, <3>2, Zenon
  <2>4. Length(b, Len(b)) = Told(b)
    <3>1. Length(b, Len(b)) = IF b[5] >= 128 \/ (signed /\ \E i \in 6 .. 8 : b[i] >= 128)
                              THEN Len(b) ELSE Told(b)
      BY ONLY <2>1, SMT DEF Length, Told
    <3> QED
      BY ONLY <2>3, <3>1, Zenon
  <2>5. Told(b) = Told(f)
    BY <2>1, SMT DEF Told
  <2> QED
    BY <2>2, <2>4, <2>5
<1>9. TextLength(b) = lf - 8
  <2>1. lf - 8 <= Len(b) - 8 /\ Len(b) >= 8
    BY <1>2, <1>5
  <2> QED
    BY <1>1, <1>8, <2>1 DEF Header
<1>10. 8 + TextLength(b) = lf /\ 9 + TextLength(b) = lf + 1 /\ Length(b, Len(b)) >= 1
  BY ONLY <1>2, <1>5, <1>8, <1>9
<1>11. SubSeq(b, 9, lf) = SubSeq(f, 9, lf)
  <2>1. \A i \in 9 .. lf : i \in 1 .. lf
    BY ONLY <1>2
  <2>2. \A i \in 9 .. lf : b[i] \in Nat /\ f[i] \in Nat /\ b[i] = f[i]
    BY <1>6, <1>7, <2>1
  <2>3. /\ SubSeq(b, 9, lf) \in Seq(Nat)
        /\ Len(SubSeq(b, 9, lf)) = IF 9 <= lf THEN lf - 9 + 1 ELSE 0
        /\ \A i \in 1 .. lf - 9 + 1 : SubSeq(b, 9, lf)[i] = b[9 + i - 1]
    <3>1. 9 \in Int /\ lf \in Int /\ \A i \in 9 .. lf : b[i] \in Nat
      BY ONLY <1>2, <2>2
    <3> QED
      BY ONLY <3>1, SubSeqProperties
  <2>4. /\ SubSeq(f, 9, lf) \in Seq(Nat)
        /\ Len(SubSeq(f, 9, lf)) = IF 9 <= lf THEN lf - 9 + 1 ELSE 0
        /\ \A i \in 1 .. lf - 9 + 1 : SubSeq(f, 9, lf)[i] = f[9 + i - 1]
    <3>1. 9 \in Int /\ lf \in Int /\ \A i \in 9 .. lf : f[i] \in Nat
      BY ONLY <1>2, <2>2
    <3> QED
      BY ONLY <3>1, SubSeqProperties
  <2>5. (IF 9 <= lf THEN lf - 9 + 1 ELSE 0) = lf - 9 + 1
    BY ONLY <1>2, <1>5
  <2>6. \A i \in 1 .. lf - 9 + 1 : 9 + i - 1 \in 9 .. lf
    BY ONLY <1>2
  <2>7. \A i \in 1 .. lf - 9 + 1 : SubSeq(b, 9, lf)[i] = SubSeq(f, 9, lf)[i]
    BY <2>2, <2>3, <2>4, <2>6
  <2> QED
    BY <2>3, <2>4, <2>5, <2>7, SeqEqual
<1>12. ASSUME p = f PROVE SubSeq(b, lf + 1, Len(b)) = t
  <2>1. lp = lf /\ Len(b) = lf + lt
    BY <1>2, <1>4, <1>12
  <2>2. lf + 1 \in Int /\ lf + lt \in Int /\ (lf + lt) - (lf + 1) + 1 = lt
    BY ONLY <1>2
  <2>3. \A i \in lf + 1 .. lf + lt : b[i] \in Nat
    <3>1. \A i \in lf + 1 .. lf + lt : i \in 1 .. Len(b)
      BY <1>2, <2>1
    <3> QED
      BY <1>1, <3>1, ElementOfSeq
  <2>4. /\ SubSeq(b, lf + 1, lf + lt) \in Seq(Nat)
        /\ Len(SubSeq(b, lf + 1, lf + lt)) = IF lf + 1 <= lf + lt THEN (lf + lt) - (lf + 1) + 1 ELSE 0
        /\ \A i \in 1 .. (lf + lt) - (lf + 1) + 1 : SubSeq(b, lf + 1, lf + lt)[i] = b[(lf + 1) + i - 1]
    BY ONLY <2>2, <2>3, SubSeqProperties
  <2>5. Len(SubSeq(b, lf + 1, lf + lt)) = lt
    <3>1. (IF lf + 1 <= lf + lt THEN (lf + lt) - (lf + 1) + 1 ELSE 0) = lt
      BY ONLY <1>2
    <3> QED
      BY <2>4, <3>1
  <2>6. \A i \in 1 .. lt : SubSeq(b, lf + 1, lf + lt)[i] = t[i]
    <3>1. \A i \in 1 .. lt : (lf + 1) + i - 1 = lf + i
      BY ONLY <1>2
    <3> QED
      BY <1>4, <2>1, <2>2, <2>4, <3>1
  <2> QED
    <3>1. PICK u : u = SubSeq(b, lf + 1, lf + lt)
      OBVIOUS
    <3>2. u \in Seq(Nat) /\ t \in Seq(Nat) /\ Len(u) = Len(t) /\ \A i \in 1 .. Len(u) : u[i] = t[i]
      BY <1>1, <1>2, <2>4, <2>5, <2>6, <3>1
    <3>3. u = t
      BY ONLY <3>2, SeqEqual
    <3> QED
      BY <2>1, <3>1, <3>3
<1>13. Len(b) >= 8
  BY ONLY <1>2, <1>5
<1>14. SubSeq(b, 9, 8 + TextLength(b)) = Text(f)
  BY ONLY <1>2, <1>10, <1>11, Zenon DEF Text
<1>15. p = f => SubSeq(b, 9 + TextLength(b), Len(b)) = t
  BY ONLY <1>10, <1>12, Zenon
<1> QED
  BY ONLY <1>10, <1>13, <1>14, <1>15, Zenon

(* What comes behind a mark, when more is added at the end.                *)
LEMMA BehindConcat ==
    ASSUME NEW x \in Bytes, x # <<>>, NEW y \in Bytes
    PROVE  x \o y \in Bytes /\ x \o y # <<>> /\ Behind(x) \in Bytes
           /\ Behind(x \o y) = Behind(x) \o y
<1>1. x \in Seq(Nat) /\ y \in Seq(Nat)
  BY DEF Bytes
<1>2. PICK l, m : l = Len(x) /\ m = Len(y) /\ l \in Nat \ {0} /\ m \in Nat
  BY <1>1, EmptySeq, LenProperties
<1>3. PICK z : z = x \o y
  OBVIOUS
<1>4. z \in Seq(Nat) /\ Len(z) = l + m /\ \A i \in 1 .. l + m : z[i] = IF i <= l THEN x[i] ELSE y[i - l]
  BY <1>1, <1>2, <1>3, ConcatProperties
<1>5. z # <<>>
  BY <1>1, <1>3, ConcatEqualIffEmpty
<1>6. PICK u : u = Tail(x)
  OBVIOUS
<1>7. u \in Seq(Nat) /\ Len(u) = l - 1 /\ \A i \in 1 .. l - 1 : u[i] = x[i + 1]
  BY <1>1, <1>2, <1>6, HeadTailProperties
<1>8. PICK v : v = u \o y
  OBVIOUS
<1>9. /\ v \in Seq(Nat) /\ Len(v) = l - 1 + m
      /\ \A i \in 1 .. l - 1 + m : v[i] = IF i <= l - 1 THEN u[i] ELSE y[i - (l - 1)]
  <2>1. /\ v \in Seq(Nat) /\ Len(v) = Len(u) + Len(y)
        /\ \A i \in 1 .. Len(u) + Len(y) : v[i] = IF i <= Len(u) THEN u[i] ELSE y[i - Len(u)]
    BY <1>1, <1>7, <1>8, ConcatProperties
  <2>2. Len(u) = l - 1 /\ Len(y) = m
    BY <1>2, <1>7
  <2> QED
    BY ONLY <2>1, <2>2
<1>10. PICK w : w = Tail(z)
  OBVIOUS
<1>11. w \in Seq(Nat) /\ Len(w) = l + m - 1 /\ \A i \in 1 .. l + m - 1 : w[i] = z[i + 1]
  <2>1. w \in Seq(Nat) /\ Len(w) = Len(z) - 1 /\ \A i \in 1 .. Len(w) : w[i] = z[i + 1]
    BY <1>4, <1>5, <1>10, HeadTailProperties
  <2>2. Len(w) = l + m - 1
    BY <1>2, <1>4, <2>1
  <2> QED
    BY <2>1, <2>2
<1>12. \A i \in 1 .. l + m - 1 : w[i] = v[i]
  <2> SUFFICES ASSUME NEW i \in 1 .. l + m - 1 PROVE w[i] = v[i]
    OBVIOUS
  <2>1. /\ i + 1 \in 1 .. l + m /\ i \in 1 .. l - 1 + m /\ (i + 1) - l = i - (l - 1)
        /\ i + 1 <= l <=> i <= l - 1
        /\ i <= l - 1 => i \in 1 .. l - 1
    BY ONLY <1>2
  <2>2. CASE i <= l - 1
    BY <1>4, <1>7, <1>9, <1>11, <2>1, <2>2
  <2>3. CASE ~(i <= l - 1)
    BY <1>4, <1>9, <1>11, <2>1, <2>3
  <2> QED
    BY <2>2, <2>3
<1>13. w = v
  <2>1. Len(w) = Len(v) /\ Len(w) = l + m - 1
    BY <1>2, <1>9, <1>11
  <2> QED
    BY <1>9, <1>11, <1>12, <2>1, SeqEqual
<1> QED
  BY <1>3, <1>4, <1>5, <1>6, <1>7, <1>8, <1>10, <1>13 DEF Behind, Bytes

(* What is left of the body from each mark on, with pieces p.              *)
Tails(tb, p) ==
    /\ tb \in [0 .. Len(p) -> Bytes] /\ tb[Len(p)] = <<>>
    /\ \A k \in 1 .. Len(p) : tb[k - 1] # <<>> /\ Behind(tb[k - 1]) = p[k] \o tb[k]

LEMMA TailsEmpty ==
    ASSUME NEW p, p = <<>>
    PROVE  \E tb : Tails(tb, p) /\ tb[0] = <<>>
<1> DEFINE tb == [k \in {0} |-> <<>>]
<1>1. Len(p) = 0 /\ <<>> \in Bytes
  BY EmptySeq DEF Bytes
<1>2. tb \in [0 .. Len(p) -> Bytes] /\ tb[Len(p)] = <<>> /\ 1 .. Len(p) = {} /\ tb[0] = <<>>
  BY <1>1
<1> HIDE DEF tb
<1> QED
  BY <1>2 DEF Tails

(* A piece more, with its mark.                                            *)
LEMMA TailsAppend ==
    ASSUME NEW p \in Seq(Bytes), NEW tb, Tails(tb, p), NEW mark \in Nat, NEW d \in Bytes
    PROVE  \E tc : Tails(tc, Append(p, d)) /\ tc[0] = tb[0] \o <<mark>> \o d
<1>1. PICK n : n = Len(p) /\ n \in Nat
  BY LenProperties
<1>2. PICK q : q = Append(p, d)
  OBVIOUS
<1>3. Len(q) = n + 1 /\ q[n + 1] = d /\ \A i \in 1 .. n : q[i] = p[i] /\ p[i] \in Bytes
  BY <1>1, <1>2, AppendProperties, ElementOfSeq
<1>4. PICK e : e = <<mark>> \o d
  OBVIOUS
<1>5. e \in Bytes /\ e # <<>> /\ Behind(e) = d
  <2>1. <<mark>> \in Bytes /\ <<mark>> # <<>> /\ Behind(<<mark>>) = <<>>
    BY DEF Bytes, Behind
  <2>2. e \in Bytes /\ e # <<>> /\ Behind(e) = Behind(<<mark>>) \o d
    BY <1>4, <2>1, BehindConcat
  <2> QED
    BY <2>1, <2>2, ConcatEmptySeq DEF Bytes
<1>6. /\ \A k \in 0 .. n : tb[k] \in Bytes /\ tb[k] \o e \in Bytes
      /\ tb[n] = <<>>
      /\ \A k \in 1 .. n : tb[k - 1] # <<>> /\ Behind(tb[k - 1]) = p[k] \o tb[k]
  <2>1. \A k \in 0 .. n : tb[k] \in Bytes
    BY <1>1 DEF Tails
  <2>2. \A k \in 0 .. n : tb[k] \o e \in Bytes
    BY <1>5, <2>1, ConcatProperties DEF Bytes
  <2> QED
    BY <1>1, <2>1, <2>2 DEF Tails
<1> DEFINE tc == [k \in 0 .. n + 1 |-> IF k <= n THEN tb[k] \o e ELSE <<>>]
<1>7. PICK c : c = tc
  OBVIOUS
<1>8. /\ c \in [0 .. n + 1 -> Bytes] /\ c[n + 1] = <<>>
      /\ \A k \in 0 .. n : c[k] = tb[k] \o e
  <2>1. <<>> \in Bytes
    BY EmptySeq DEF Bytes
  <2>2. /\ \A k \in 0 .. n + 1 : k <= n => k \in 0 .. n
        /\ \A k \in 0 .. n : k \in 0 .. n + 1 /\ k <= n
        /\ n + 1 \in 0 .. n + 1 /\ ~(n + 1 <= n)
    BY ONLY <1>1
  <2> QED
    BY <1>6, <1>7, <2>1, <2>2
<1> HIDE DEF tc
<1>9. ASSUME NEW k \in 1 .. n + 1 PROVE c[k - 1] # <<>> /\ Behind(c[k - 1]) = q[k] \o c[k]
  <2>1. CASE k = n + 1
    <3>1. c[k - 1] = e
      <4>1. k - 1 = n /\ n \in 0 .. n
        BY <1>1, <2>1
      <4> QED
        BY <1>5, <1>6, <1>8, <4>1, ConcatEmptySeq DEF Bytes
    <3>2. q[k] \o c[k] = d
      BY <1>3, <1>8, <2>1, ConcatEmptySeq DEF Bytes
    <3> QED
      BY <1>5, <3>1, <3>2
  <2>2. CASE k # n + 1
    <3>1. k \in 1 .. n /\ k - 1 \in 0 .. n /\ k \in 0 .. n
      BY <1>1, <2>2
    <3>2. /\ tb[k - 1] \in Bytes /\ tb[k - 1] # <<>> /\ Behind(tb[k - 1]) = p[k] \o tb[k]
          /\ c[k - 1] = tb[k - 1] \o e /\ c[k] = tb[k] \o e
          /\ p[k] \in Bytes /\ q[k] = p[k] /\ tb[k] \in Bytes
      BY <1>3, <1>6, <1>8, <3>1
    <3>3. PICK x, y, z : x = tb[k - 1] /\ y = p[k] /\ z = tb[k]
      OBVIOUS
    <3>4. x \o e # <<>> /\ Behind(x \o e) = Behind(x) \o e
      BY <1>5, <3>2, <3>3, BehindConcat
    <3>5. (y \o z) \o e = y \o (z \o e)
      <4>1. Joined(y, z, e)
        BY <1>5, <3>2, <3>3, BytesJoined
      <4> QED
        BY <4>1 DEF Joined
    <3> QED
      BY <3>2, <3>3, <3>4, <3>5
  <2> QED
    BY <2>1, <2>2
<1>10. c[0] = tb[0] \o <<mark>> \o d
  <2>1. 0 \in 0 .. n
    BY <1>1
  <2>2. PICK x, y : x = tb[0] /\ y = <<mark>>
    OBVIOUS
  <2>3. x \in Bytes /\ y \in Bytes
    BY <1>6, <2>1, <2>2 DEF Bytes
  <2>4. (x \o y) \o d = x \o (y \o d)
    <3>1. Joined(x, y, d)
      BY <2>3, BytesJoined
    <3> QED
      BY <3>1 DEF Joined
  <2> QED
    BY <1>4, <1>8, <2>1, <2>2, <2>4
<1>11. Tails(c, q)
  BY <1>3, <1>8, <1>9 DEF Tails
<1> QED
  BY <1>2, <1>10, <1>11

(* Prefixes: of itself, and of what has more at the end.                   *)
LEMMA PrefixAppend ==
    ASSUME NEW D, NEW s \in Seq(D), NEW t \in Seq(D), NEW e \in D
    PROVE  /\ IsPrefix(<<>>, t) /\ IsPrefix(s, s)
           /\ IsPrefix(s, t) => IsPrefix(s, Append(t, e))
<1>1. PICK l, m : l = Len(s) /\ m = Len(t) /\ l \in Nat /\ m \in Nat
  BY LenProperties
<1>2. IsPrefix(<<>>, t)
  <2>1. Len(<<>>) = 0 /\ SubSeq(<<>>, 1, 0) = <<>> /\ SubSeq(t, 1, 0) = <<>>
    BY EmptySeq, SubSeqEmpty
  <2> QED
    BY <1>1, <2>1 DEF IsPrefix
<1>3. IsPrefix(s, s)
  BY <1>1 DEF IsPrefix
<1>4. ASSUME IsPrefix(s, t) PROVE IsPrefix(s, Append(t, e))
  <2>1. PICK u : u = Append(t, e)
    OBVIOUS
  <2>2. Len(u) = m + 1 /\ \A i \in 1 .. m : u[i] = t[i] /\ t[i] \in D
    BY <1>1, <2>1, AppendProperties, ElementOfSeq
  <2>3. l <= m /\ SubSeq(s, 1, l) = SubSeq(t, 1, l)
    BY <1>1, <1>4 DEF IsPrefix
  <2>4. 1 \in Int /\ l \in Int /\ \A i \in 1 .. l : i \in 1 .. m
    BY ONLY <1>1, <2>3
  <2>5. \A i \in 1 .. l : u[i] = t[i] /\ t[i] \in D /\ u[i] \in D
    BY <2>2, <2>4
  <2>6. /\ SubSeq(u, 1, l) \in Seq(D) /\ Len(SubSeq(u, 1, l)) = IF 1 <= l THEN l - 1 + 1 ELSE 0
        /\ \A i \in 1 .. l - 1 + 1 : SubSeq(u, 1, l)[i] = u[1 + i - 1]
    BY ONLY <2>4, <2>5, SubSeqProperties
  <2>7. /\ SubSeq(t, 1, l) \in Seq(D) /\ Len(SubSeq(t, 1, l)) = IF 1 <= l THEN l - 1 + 1 ELSE 0
        /\ \A i \in 1 .. l - 1 + 1 : SubSeq(t, 1, l)[i] = t[1 + i - 1]
    BY ONLY <2>4, <2>5, SubSeqProperties
  <2>8. \A i \in 1 .. l - 1 + 1 : 1 + i - 1 = i /\ i \in 1 .. l
    BY ONLY <1>1
  <2>9. (IF 1 <= l THEN l - 1 + 1 ELSE 0) = l /\ l - 1 + 1 = l
    BY ONLY <1>1
  <2>10. \A i \in 1 .. l : SubSeq(u, 1, l)[i] = SubSeq(t, 1, l)[i]
    BY <2>5, <2>6, <2>7, <2>8, <2>9
  <2>11. SubSeq(u, 1, l) = SubSeq(t, 1, l)
    BY <2>6, <2>7, <2>9, <2>10, SeqEqual
  <2>12. Len(s) <= Len(u)
    BY <1>1, <2>2, <2>3
  <2> QED
    BY <1>1, <2>1, <2>3, <2>11, <2>12 DEF IsPrefix
<1> QED
  BY <1>2, <1>3, <1>4

(* What FramesDecoded says of the first n frames.                          *)
Shown(n) ==
    /\ IsPrefix(Lines(SubSeq(answer, 1, n)), logs)
    /\ pieces = answer /\ n = Len(answer) => logs = Lines(answer)

(* How far the loop of update_logs() is, if these are intact: before the   *)
(* n-th frame exactly the lines of some are taken, and the rest begins at  *)
(* the mark of the next; behind it the lines begin with theirs.            *)
Progress(tb, n) ==
    \/ \E k \in 0 .. n - 1 : lines = Lines(SubSeq(answer, 1, k)) /\ body = tb[k]
    \/ /\ IsPrefix(Lines(SubSeq(answer, 1, n)), lines)
       /\ pieces = answer /\ n = Len(answer) => lines = Lines(answer) /\ body = <<>>

Parsed(tb) == \A n \in 0 .. Len(answer) : Intact(n) => Progress(tb, n)

FramesInv ==
    /\ at # "logs" \/ ~ok => lines = <<>>
    /\ query = "logs" /\ at = "receive" => \E tb : Tails(tb, pieces) /\ tb[0] = body
    /\ at = "logs" /\ ok => \E tb : Tails(tb, pieces) /\ Parsed(tb)
    /\ at = "idle" /\ query = "logs" /\ ok => \A n \in 0 .. Len(answer) : Intact(n) => Shown(n)

(* Before the first round, no line is taken.                               *)
LEMMA StartParsed ==
    ASSUME SocketInv, lines = <<>>, NEW tb, Tails(tb, pieces), tb[0] = body
    PROVE  Parsed(tb)
<1>1. answer \in Seq(Bytes) /\ Len(answer) \in Nat /\ Lines(SubSeq(answer, 1, 0)) = <<>>
      /\ Lines(SubSeq(answer, 1, Len(answer))) = Lines(answer)
  BY AnswerType, LinesOfMore, LenProperties
<1>2. ASSUME NEW n \in 0 .. Len(answer) PROVE Progress(tb, n)
  <2>1. CASE n = 0
    <3>1. IsPrefix(<<>>, <<>>)
      BY EmptySeq, PrefixAppend
    <3>2. pieces = answer /\ 0 = Len(answer) => tb[0] = <<>> /\ Lines(answer) = <<>>
      BY <1>1 DEF Tails
    <3> QED
      BY <1>1, <2>1, <3>1, <3>2 DEF Progress
  <2>2. CASE n # 0
    <3>1. 0 \in 0 .. n - 1
      BY <1>1, <2>2
    <3> QED
      BY <1>1, <3>1 DEF Progress
  <2> QED
    BY <2>1, <2>2
<1> QED
  BY <1>2 DEF Parsed

(* Each of the intact frames can be read off its piece.                    *)
LEMMA IntactFrame ==
    ASSUME SocketInv, LogsInv, query = "logs", NEW n \in 0 .. Len(answer), Intact(n),
           NEW k \in 0 .. n - 1
    PROVE  /\ Readable(answer[k + 1]) /\ k + 1 \in 1 .. Len(pieces)
           /\ pieces[k + 1] \in Bytes /\ IsPrefix(answer[k + 1], pieces[k + 1])
           /\ k + 1 < n \/ pieces = answer => pieces[k + 1] = answer[k + 1]
<1>1. answer \in Seq(Bytes) /\ Len(answer) \in Nat /\ pieces \in Seq(Bytes) /\ Len(pieces) \in Nat
  BY AnswerType, LenProperties DEF SocketInv
<1>2. k + 1 \in 1 .. n /\ k + 1 \in 1 .. Len(answer) /\ n \in Nat
  BY <1>1
<1>3. PICK i : i = k + 1
  OBVIOUS
<1>4. /\ i <= Len(pieces) /\ Len(answer[i]) > 8 /\ answer[i][5] < 128
      /\ IF i < n THEN pieces[i] = answer[i] ELSE IsPrefix(answer[i], pieces[i])
      /\ signed => \A j \in 6 .. 8 : answer[i][j] < 128
  BY <1>2, <1>3 DEF Intact
<1>5. answer[i] \in Bytes /\ Told(answer[i]) = Len(answer[i]) - 8
  <2>1. answer \in Answers["logs"]
    <3>1. answer # <<>>
      BY <1>2, EmptySeq
    <3> QED
      BY <3>1 DEF SocketInv
  <2>2. i \in DOMAIN answer
    BY <1>1, <1>2, <1>3, LenProperties
  <2>3. Told(answer[i]) = Len(answer[i]) - 8
    BY <2>1, <2>2, LogsAssumption, SMT DEF Told
  <2> QED
    BY <1>1, <1>2, <1>3, <2>3, ElementOfSeq
<1>6. Readable(answer[i])
  BY <1>4, <1>5 DEF Readable
<1>7. i \in 1 .. Len(pieces)
  BY <1>1, <1>2, <1>3, <1>4
<1>8. pieces[i] \in Bytes
  BY <1>1, <1>7, ElementOfSeq
<1>9. IsPrefix(answer[i], pieces[i])
  BY <1>4, <1>5, PrefixAppend DEF Bytes
<1>10. i < n \/ pieces = answer => pieces[i] = answer[i]
  BY <1>4
<1> QED
  BY <1>3, <1>6, <1>7, <1>8, <1>9, <1>10

(* A round of the loop at an intact frame takes its line and ends at the   *)
(* next mark; behind the intact frames it only adds lines.                 *)
LEMMA RoundParsed ==
    ASSUME SocketInv, LogsInv, ParseFrame, NEW tb, Tails(tb, pieces),
           NEW n \in 0 .. Len(answer), Intact(n), Progress(tb, n)
    PROVE  IF at' = "idle" THEN Shown(n)' ELSE Progress(tb, n)'
<1>1. at = "logs" /\ query = "logs" /\ UNCHANGED <<query, answer, rest, pieces, ok, plan, signed>>
  BY DEF ParseFrame, SocketInv
<1>2. PICK b : b = Behind(body)
  OBVIOUS
<1>3. PICK entry : entry = Trim(SubSeq(b, 9, 8 + TextLength(b)))
  OBVIOUS
<1>4. \/ /\ Len(b) < 8 \/ Length(b, Len(b)) < 1
         /\ logs' = lines /\ lines' = <<>> /\ body' = body /\ at' = "idle"
      \/ /\ Len(b) >= 8 /\ Length(b, Len(b)) >= 1
         /\ body' = SubSeq(b, 9 + TextLength(b), Len(b))
         /\ lines' = IF entry = <<>> THEN lines ELSE Append(lines, entry)
         /\ logs' = logs /\ at' = at
  BY <1>2, <1>3, ParseFrameRound
<1>5. answer \in Seq(Bytes) /\ Len(answer) \in Nat /\ n \in Nat
  BY AnswerType, LenProperties
<1>6. ASSUME NEW k \in 0 .. n - 1, lines = Lines(SubSeq(answer, 1, k)), body = tb[k]
      PROVE  at' # "idle" /\ Progress(tb, n)'
  <2>1. PICK f, p, t : f = answer[k + 1] /\ p = pieces[k + 1] /\ t = tb[k + 1]
    OBVIOUS
  <2>2. /\ Readable(f) /\ k + 1 \in 1 .. Len(pieces) /\ p \in Bytes /\ IsPrefix(f, p)
        /\ k + 1 < n \/ pieces = answer => p = f
    BY <1>1, <2>1, IntactFrame
  <2>3. t \in Bytes /\ body \in Bytes /\ Behind(body) = p \o t
    <3>1. k + 1 \in 0 .. Len(pieces) /\ (k + 1) - 1 = k
      BY <1>5, <2>2
    <3> QED
      BY <1>6, <2>1, <2>2, <3>1 DEF Tails, SocketInv
  <2>4. signed \in BOOLEAN
    BY LogsAssumption DEF LogsInv
  <2>5. /\ Len(b) >= 8 /\ Length(b, Len(b)) >= 1
        /\ SubSeq(b, 9, 8 + TextLength(b)) = Text(f)
        /\ p = f => SubSeq(b, 9 + TextLength(b), Len(b)) = t
    <3>1. FrameAhead(b, body, f, p, t)
      BY <1>2, <2>2, <2>3 DEF FrameAhead
    <3> QED
      BY <2>4, <3>1, FrameRead
  <2>6. /\ body' = SubSeq(b, 9 + TextLength(b), Len(b)) /\ at' = "logs"
        /\ lines' = IF entry = <<>> THEN lines ELSE Append(lines, entry)
    <3>1. Len(b) \in Nat /\ Length(b, Len(b)) \in Nat
      BY <1>2, <2>3, <2>5, FrameBounds DEF Header
    <3>2. ~(Len(b) < 8 \/ Length(b, Len(b)) < 1)
      BY <2>5, <3>1
    <3> QED
      BY <1>1, <1>4, <3>2
  <2>7. lines' = Lines(SubSeq(answer, 1, k + 1)) /\ lines' \in Seq(Texts)
    <3>1. PICK old : old = Lines(SubSeq(answer, 1, k))
      OBVIOUS
    <3>2. k \in 0 .. Len(answer) - 1 /\ k \in 0 .. Len(answer) /\ k + 1 \in 0 .. Len(answer)
      BY <1>5
    <3>3. /\ old \in Seq(Texts) /\ Lines(SubSeq(answer, 1, k + 1)) = old \o Line(f)
          /\ Lines(SubSeq(answer, 1, k + 1)) \in Seq(Texts)
      BY <1>5, <2>1, <3>1, <3>2, LinesOfMore
    <3>4. entry = Trim(Text(f)) /\ Line(f) = IF entry = <<>> THEN <<>> ELSE <<entry>>
      BY <1>3, <2>5 DEF Line
    <3>5. CASE entry = <<>>
      BY <1>6, <2>6, <3>1, <3>3, <3>4, <3>5, ConcatEmptySeq
    <3>6. CASE entry # <<>>
      <4>1. old \o <<entry>> = Append(old, entry)
        OBVIOUS
      <4> QED
        BY <1>6, <2>6, <3>1, <3>3, <3>4, <3>6, <4>1
    <3> QED
      BY <3>5, <3>6
  <2>8. CASE k + 1 < n
    <3>1. body' = tb[k + 1] /\ k + 1 \in 0 .. n - 1
      BY <1>5, <2>1, <2>2, <2>5, <2>6, <2>8
    <3> QED
      BY <1>1, <2>6, <2>7, <3>1 DEF Progress
  <2>9. CASE ~(k + 1 < n)
    <3>1. k + 1 = n
      BY <1>5, <2>9
    <3>2. IsPrefix(Lines(SubSeq(answer, 1, n)), lines')
      <4>1. IsPrefix(lines', lines')
        <5>1. PICK s : s = lines'
          OBVIOUS
        <5>2. Len(s) \in Nat
          BY <2>7, <5>1, LenProperties
        <5> QED
          BY <5>1, <5>2 DEF IsPrefix
      <4> QED
        BY <2>7, <3>1, <4>1
    <3>3. pieces = answer /\ n = Len(answer) => lines' = Lines(answer) /\ body' = <<>>
      <4> SUFFICES ASSUME pieces = answer, n = Len(answer)
                   PROVE  lines' = Lines(answer) /\ body' = <<>>
        OBVIOUS
      <4>1. lines' = Lines(answer)
        BY <1>5, <2>7, <3>1, LinesOfMore
      <4>2. body' = tb[k + 1] /\ tb[Len(pieces)] = <<>>
        BY <2>1, <2>2, <2>5, <2>6 DEF Tails
      <4> QED
        BY <3>1, <4>1, <4>2
    <3> QED
      BY <1>1, <2>6, <3>2, <3>3 DEF Progress
  <2> QED
    BY <2>8, <2>9
<1>7. ASSUME IsPrefix(Lines(SubSeq(answer, 1, n)), lines),
             pieces = answer /\ n = Len(answer) => lines = Lines(answer) /\ body = <<>>
      PROVE  IF at' = "idle" THEN Shown(n)' ELSE Progress(tb, n)'
  <2>1. CASE at' = "idle"
    <3>1. logs' = lines
      BY <1>1, <1>4, <2>1
    <3> QED
      BY <1>1, <1>7, <2>1, <3>1 DEF Shown
  <2>2. CASE at' # "idle"
    <3>1. /\ Len(b) >= 8
          /\ lines' = IF entry = <<>> THEN lines ELSE Append(lines, entry)
      BY <1>4, <2>2
    <3>2. ~(pieces = answer /\ n = Len(answer))
      <4>1. Len(<<>>) = 0
        BY EmptySeq
      <4>2. body = <<>> => b = <<>>
        BY <1>2 DEF Behind
      <4> QED
        BY <1>7, <3>1, <4>1, <4>2
    <3>3. IsPrefix(Lines(SubSeq(answer, 1, n)), lines')
      <4>1. entry \in {<<>>} \cup Texts
        <5>1. SubSeq(b, 9, 8 + TextLength(b)) \in Bytes
          BY <1>2, <3>1, FrameBounds DEF SocketInv, Header
        <5> QED
          BY <1>3, <5>1, TrimType
      <4>2. PICK s : s = Lines(SubSeq(answer, 1, n))
        OBVIOUS
      <4>3. s \in Seq(Texts) /\ lines \in Seq(Texts) /\ IsPrefix(s, lines)
        BY <1>5, <1>7, <4>2, LinesOfMore DEF LogsInv
      <4>4. entry \in Texts => IsPrefix(s, Append(lines, entry))
        BY <4>3, PrefixAppend
      <4> QED
        BY <3>1, <4>1, <4>2, <4>3, <4>4
    <3> QED
      BY <1>1, <2>2, <3>2, <3>3 DEF Progress
  <2> QED
    BY <2>1, <2>2
<1> QED
  BY <1>6, <1>7 DEF Progress

LEMMA InitFramesInv == Init => FramesInv
<1> SUFFICES ASSUME Init PROVE FramesInv
  OBVIOUS
<1>1. at = "idle" /\ answer = <<>> /\ pieces = <<>> /\ logs = <<>> /\ lines = <<>>
  BY DEF Init, SocketInit, LogsInit
<1>2. answer \in Seq(Bytes) /\ logs \in Seq(Texts) /\ Len(answer) = 0
  BY <1>1, EmptySeq
<1>3. \A n \in 0 .. Len(answer) : Shown(n)
  <2>1. Lines(SubSeq(answer, 1, 0)) = <<>> /\ Lines(answer) = <<>>
    BY <1>2, LinesOfMore
  <2>2. IsPrefix(<<>>, <<>>)
    BY EmptySeq, PrefixAppend
  <2>3. \A n \in 0 .. Len(answer) : n = 0
    BY <1>2
  <2> QED
    BY <1>1, <2>1, <2>2, <2>3 DEF Shown
<1> QED
  BY <1>1, <1>3 DEF FramesInv

LEMMA ReceiveFramesInv ==
    ASSUME SocketInv, FramesInv, NEW n \in 1 .. Len(rest), Receive(n), query = "logs"
    PROVE  at' = "receive" /\ \E tb : Tails(tb, pieces') /\ tb[0] = body'
<1>1. PICK d : d = SubSeq(rest, 1, n)
  OBVIOUS
<1>2. /\ d \in Bytes /\ pieces' = Append(pieces, d) /\ at = "receive"
      /\ UNCHANGED <<query, answer, plan>>
  BY <1>1, ReceivePiece
<1>3. ChunksAllowed[query] = 0
  BY DEF ChunksAllowed
<1>4. PICK mark : mark = IF Len(pieces) + 1 = 1 THEN Open ELSE Comma
  OBVIOUS
<1>5. body' = body \o <<mark>> \o d \o <<>> /\ at' = at
  BY <1>1, <1>3, <1>4 DEF Receive
<1>6. mark \in Nat
  BY <1>4 DEF Open, Comma
<1>7. body' = body \o <<mark>> \o d
  <2>1. body \in Seq(Nat) /\ <<mark>> \in Seq(Nat) /\ d \in Seq(Nat)
    BY <1>2, <1>6 DEF SocketInv, Bytes
  <2>2. body \o <<mark>> \in Seq(Nat)
    BY <2>1, ConcatProperties
  <2>3. body \o <<mark>> \o d \in Seq(Nat)
    BY <2>1, <2>2, ConcatProperties
  <2> QED
    BY <1>5, <2>3, ConcatEmptySeq
<1>8. PICK tb : Tails(tb, pieces) /\ tb[0] = body
  BY <1>2 DEF FramesInv
<1>9. PICK tc : Tails(tc, Append(pieces, d)) /\ tc[0] = tb[0] \o <<mark>> \o d
  <2>1. pieces \in Seq(Bytes)
    BY DEF SocketInv
  <2> QED
    BY <1>2, <1>6, <1>8, <2>1, TailsAppend
<1> QED
  BY <1>2, <1>5, <1>7, <1>8, <1>9

LEMMA NextFramesInv == SocketInv /\ LogsInv /\ FramesInv /\ [Next]_vars => FramesInv'
<1> SUFFICES ASSUME SocketInv, LogsInv, FramesInv, [Next]_vars PROVE FramesInv'
  OBVIOUS
<1>0. /\ at # "logs" \/ ~ok => lines = <<>>
      /\ at = "logs" /\ ok => \E tb : Tails(tb, pieces) /\ Parsed(tb)
      /\ at = "idle" /\ query = "logs" /\ ok => \A n \in 0 .. Len(answer) : Intact(n) => Shown(n)
      /\ query = "logs" /\ at = "receive" => \E tb : Tails(tb, pieces) /\ tb[0] = body
  BY DEF FramesInv
<1>1. CASE Transfer /\ UNCHANGED logVars
  <2>1. lines' = lines /\ logs' = logs /\ signed' = signed
    BY <1>1 DEF logVars
  <2>2. at = "idle" \/ at = "receive"
    BY <1>1 DEF Transfer, Execute, Receive, End, Drop
  <2>3. lines = <<>>
    BY <1>0, <2>2
  <2>4. CASE Execute
    <3>1. at' = "receive" /\ pieces' = <<>> /\ body' = <<>>
      BY <2>4 DEF Execute
    <3>2. \E tb : Tails(tb, pieces') /\ tb[0] = body'
      BY <3>1, TailsEmpty
    <3> QED
      BY <2>1, <2>3, <3>1, <3>2 DEF FramesInv
  <2>5. CASE \E n \in 1 .. Len(rest) : Receive(n)
    <3>1. PICK n \in 1 .. Len(rest) : Receive(n)
      BY <2>5
    <3>2. query' = query /\ query \in {"logs", "stats"} /\ at = "receive"
      BY <3>1, ReceivePiece, SocketAssumption DEF SocketInv
    <3>3. CASE query = "logs"
      <4>1. at' = "receive" /\ \E tb : Tails(tb, pieces') /\ tb[0] = body'
        BY <3>1, <3>3, ReceiveFramesInv
      <4> QED
        BY <2>1, <2>3, <4>1 DEF FramesInv
    <3>4. CASE query = "stats"
      <4>1. at' \in {"stats", "receive"}
        BY <3>1, <3>2, <3>4 DEF Receive, Received
      <4> QED
        BY <2>1, <2>3, <3>2, <3>4, <4>1 DEF FramesInv
    <3> QED
      BY <3>2, <3>3, <3>4
  <2>6. CASE End \/ Drop
    <3>1. at' = query /\ at = "receive" /\ UNCHANGED <<query, answer, rest, pieces, body>>
      BY <2>6 DEF End, Drop, Received
    <3>2. query \in {"logs", "stats"}
      BY SocketAssumption DEF SocketInv
    <3>3. CASE query = "logs"
      <4>1. PICK tb : Tails(tb, pieces) /\ tb[0] = body
        BY <1>0, <3>1, <3>3
      <4>2. Parsed(tb)
        BY <2>3, <4>1, StartParsed
      <4>3. Parsed(tb)'
        BY <2>1, <3>1, <4>2 DEF Parsed, Progress, Intact
      <4> QED
        BY <2>1, <2>3, <3>1, <3>3, <4>1, <4>3 DEF FramesInv
    <3>4. CASE query = "stats"
      BY <2>1, <2>3, <3>1, <3>4 DEF FramesInv
    <3> QED
      BY <3>2, <3>3, <3>4
  <2> QED
    BY <1>1, <2>4, <2>5, <2>6 DEF Transfer
<1>2. CASE NoLogs
  <2>1. at' = "idle" /\ at = "logs" /\ ~ok /\ UNCHANGED <<query, answer, rest, pieces, body, ok, lines>>
    BY <1>2 DEF NoLogs
  <2> QED
    BY <1>0, <2>1 DEF FramesInv
<1>3. CASE ParseFrame
  <2>1. at = "logs" /\ ok /\ UNCHANGED <<query, answer, rest, pieces, ok, plan, signed>>
    BY <1>3 DEF ParseFrame
  <2>2. PICK tb : Tails(tb, pieces) /\ Parsed(tb)
    BY <1>0, <2>1
  <2>3. \A n \in 0 .. Len(answer) :
           Intact(n) => IF at' = "idle" THEN Shown(n)' ELSE Progress(tb, n)'
    <3>1. ASSUME NEW n \in 0 .. Len(answer), Intact(n)
          PROVE  IF at' = "idle" THEN Shown(n)' ELSE Progress(tb, n)'
      <4>1. Progress(tb, n)
        BY <2>2, <3>1 DEF Parsed
      <4> QED
        BY <1>3, <2>2, <3>1, <4>1, RoundParsed
    <3> QED
      BY <3>1
  <2>4. \A n \in 0 .. Len(answer) : Intact(n)' => Intact(n)
    BY <2>1 DEF Intact
  <2>5. CASE at' = "idle"
    <3>1. lines' = <<>>
      <4>1. at' # at
        BY <2>1, <2>5
      <4> QED
        BY <1>3, <4>1, ParseFrameRound
    <3>2. \A n \in 0 .. Len(answer') : Intact(n)' => Shown(n)'
      BY <2>1, <2>3, <2>4, <2>5
    <3> QED
      BY <2>5, <3>1, <3>2 DEF FramesInv
  <2>6. CASE at' # "idle"
    <3>1. at' = "logs"
      BY <1>3, <2>1, <2>6 DEF ParseFrame
    <3>2. \A n \in 0 .. Len(answer') : Intact(n)' => Progress(tb, n)'
      BY <2>1, <2>3, <2>4, <2>6
    <3>3. Parsed(tb)' /\ Tails(tb, pieces')
      BY <2>1, <2>2, <3>2 DEF Parsed
    <3> QED
      BY <2>1, <3>1, <3>3 DEF FramesInv
  <2> QED
    BY <2>5, <2>6
<1>4. CASE UpdateStats /\ UNCHANGED logVars
  <2>1. /\ at = "stats" /\ at' = "idle" /\ UNCHANGED <<query, answer, rest, pieces, body, ok>>
        /\ lines' = lines
    BY <1>4 DEF UpdateStats, StatsRefused, StatsTaken, logVars
  <2>2. query = "stats"
    BY <2>1 DEF SocketInv
  <2> QED
    BY <1>0, <2>1, <2>2 DEF FramesInv
<1>5. CASE (\/ UNCHANGED vars
            \/ /\ UNCHANGED logVars
               /\ \E run \in BOOLEAN, started \in Started, pid \in {0, 1}, now \in Clock :
                     Relist(run, started, pid, now))
  <2>1. UNCHANGED <<at, query, answer, rest, pieces, body, ok, signed, logs, lines>>
    BY <1>5 DEF Relist, vars, socketVars, logVars
  <2> QED
    BY <1>0, <2>1 DEF FramesInv, Shown, Intact, Parsed, Progress
<1> QED
  BY <1>1, <1>2, <1>3, <1>4, <1>5 DEF Next, UpdateLogs

(* For frames that come in a callback each and with lengths that the       *)
(* target's chars read right, the view shows their lines and no others, up *)
(* to the first frame that does not: the byte that update_logs() takes off *)
(* before a header is then the mark of receiveCallback().  Of a frame that *)
(* is cut, or joined to the next, or of 128 to 255 in a byte of its length *)
(* where chars are signed, and of what comes after, nothing is said.       *)
THEOREM AnswersFramesDecoded == Spec => []FramesDecoded
<1> DEFINE Inv == SocketInv /\ LogsInv /\ FramesInv
<1>1. Init => Inv
  BY InitSocketInv, InitLogsInv, InitFramesInv
<1>2. Inv /\ [Next]_vars => Inv'
  BY NextSocketInv, NextLogsInv, NextFramesInv
<1>3. Inv => FramesDecoded
  BY DEF FramesInv, Shown, FramesDecoded
<1> QED
  BY <1>1, <1>2, <1>3, PTL DEF Spec
=============================================================================
