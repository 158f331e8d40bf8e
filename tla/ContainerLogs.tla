---------------------------- MODULE ContainerLogs ----------------------------
(***************************************************************************)
(* Container::update_logs() (src/podman/podman_logs.cpp): the log of one   *)
(* container, taken out of the frames of the engine.  A frame is a header  *)
(* of eight bytes, the type of the stream and the length of the text among *)
(* them, and the text.                                                     *)
(***************************************************************************)
EXTENDS Socket, FiniteSetsExt

CONSTANT CharSigned   \* whether char has a sign: targets of either kind

(* The engine's frames: bytes, four of which are the length of the text.   *)
ASSUME LogsAssumption ==
    /\ CharSigned \subseteq BOOLEAN
    /\ \A a \in Answers["logs"] : \A i \in DOMAIN a :
          /\ Len(a[i]) >= 8
          /\ a[i][5] * 16777216 + a[i][6] * 65536 + a[i][7] * 256 + a[i][8] = Len(a[i]) - 8

VARIABLES
    signed,    \* the target
    logs,      \* Container::logs
    lines,     \* the local vector of that name
    returned   \* what update_logs() returned

logVars == <<signed, logs, lines, returned>>

Blank == {9, 10, 11, 12, 13, 32}

Trim(s) ==
    LET text == {i \in DOMAIN s : s[i] \notin Blank} IN
    IF text = {} THEN <<>> ELSE SubSeq(s, Min(text), Max(text))

(* Mutant of Length: the bytes are taken in the other order.               *)
LengthLittleEndian(h, huge) ==
    IF h[8] >= 128 \/ (signed /\ \E i \in 5 .. 7 : h[i] >= 128) THEN huge
    ELSE h[8] * 16777216 + h[7] * 65536 + h[6] * 256 + h[5]

(* The four bytes of the length, each widened to 32 bits and shifted; a    *)
(* byte that is negative as a char sets all the bits above it.  huge       *)
(* stands for all the numbers from 2^31 on.                                *)
Length(h, huge) ==
    IF h[5] >= 128 \/ (signed /\ \E i \in 6 .. 8 : h[i] >= 128) THEN huge
    ELSE h[5] * 16777216 + h[6] * 65536 + h[7] * 256 + h[8]

LogsInit == signed \in CharSigned /\ logs = <<>> /\ lines = <<>> /\ returned = TRUE

(* No answer leaves the known log; it is no failure if nothing came.       *)
NoLogs ==
    /\ at = "logs" /\ ~ok
    /\ returned' = (body = <<>>)
    /\ at' = "idle"
    /\ UNCHANGED <<query, answer, rest, pieces, body, ok, plan, signed, logs, lines>>

(* One round of the loop: one byte is erased, the mark if all is well, and *)
(* the frame behind it is taken.                                           *)
ParseFrame ==
    /\ at = "logs" /\ ok
    /\ LET b == IF body = <<>> THEN <<>> ELSE Tail(body)
           header == Len(b) >= 8
           len == IF header THEN Min({Length(b, Len(b)), Len(b) - 8}) ELSE 0
           entry == Trim(SubSeq(b, 9, 8 + len)) IN
       IF ~header \/ Length(b, Len(b)) < 1
       THEN /\ logs' = lines /\ lines' = <<>>
            /\ returned' = TRUE
            /\ at' = "idle" /\ UNCHANGED body
       ELSE /\ body' = SubSeq(b, 9 + len, Len(b))
            /\ lines' = IF entry = <<>> THEN lines ELSE Append(lines, entry)
            /\ UNCHANGED <<logs, returned, at>>
    /\ UNCHANGED <<query, answer, rest, pieces, ok, plan, signed>>

UpdateLogs == NoLogs \/ ParseFrame

-----------------------------------------------------------------------------
(* The lines the engine's frames hold.                                     *)
Text(frame) == SubSeq(frame, 9, Len(frame))
Line(frame) == IF Trim(Text(frame)) = <<>> THEN <<>> ELSE <<Trim(Text(frame))>>
Lines(frames) == FlattenSeq([i \in DOMAIN frames |-> Line(frames[i])])

(* The first n frames came in a callback each, but for what follows the    *)
(* last of them, and have a text of a length the target can read.          *)
Intact(n) ==
    \A i \in 1 .. n :
        /\ i <= Len(pieces)
        /\ IF i < n THEN pieces[i] = answer[i] ELSE IsPrefix(answer[i], pieces[i])
        /\ Len(answer[i]) > 8
        /\ answer[i][5] < 128
        /\ signed => \A j \in 6 .. 8 : answer[i][j] < 128

(* As long as frames come in a callback each, with a length the target     *)
(* reads right, the log the view shows begins with their lines, in order   *)
(* and trimmed, and is just these if all of them do: the byte taken off    *)
(* before a header is the mark, and nothing of a frame is lost or added.   *)
(* It says nothing of a frame that is not so, or of those behind it.       *)
FramesDecoded ==
    at = "idle" /\ query = "logs" /\ ok =>
        \A n \in 0 .. Len(answer) :
            Intact(n) => /\ IsPrefix(Lines(SubSeq(answer, 1, n)), logs)
                         /\ pieces = answer /\ n = Len(answer) => logs = Lines(answer)
==============================================================================
