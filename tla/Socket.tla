-------------------------------- MODULE Socket --------------------------------
(***************************************************************************)
(* Podman::Socket::execute() for the two queries whose answer is cut into  *)
(* an array (src/podman/podman_socket.cpp): containers/<id>/logs and       *)
(* containers/stats.  libcurl hands the answer over in pieces that need    *)
(* not be those the engine wrote; receiveCallback() puts a mark before     *)
(* each piece, and ends the transfer of stats at the second.               *)
(*                                                                         *)
(* The answer is a sequence of units, each a sequence of numbers: the      *)
(* bytes of a log frame, or the two halves of a report as numbers from 256 *)
(* on, which stand for its JSON text.                                      *)
(***************************************************************************)
EXTENDS Integers, Sequences, SequencesExt

CONSTANTS
    Answers,      \* the answers of the engine to each query
    MaxCallbacks, \* bound: pieces of an answer that is transferred whole
    Plans         \* bound: the updates of one behaviour, in their order

ASSUME SocketAssumption ==
    /\ DOMAIN Answers = {"logs", "stats"}
    /\ \A q \in DOMAIN Answers : \A a \in Answers[q] : a \in Seq(Seq(Nat))
    /\ MaxCallbacks \in Nat \ {0}
    /\ \A p \in Plans : p \in Seq({"logs", "stats", "containers"})

VARIABLES
    at,       \* "idle", "receive", or the query whose answer is being used
    query,    \* the query in execution
    answer,   \* what the engine sends: a sequence of units
    rest,     \* what is left of it to receive
    pieces,   \* history: the data of each callback; their number is chunks
    body,     \* Response::body
    ok,       \* what the transfer returned
    plan      \* the updates to come

socketVars == <<at, query, answer, rest, pieces, body, ok, plan>>

Open == 91   \* the characters [ , ]
Comma == 44
Close == 93

ChunksAllowed == [logs |-> 0, stats |-> 2]

SocketInit ==
    /\ at = "idle" /\ query = "logs" /\ answer = <<>> /\ rest = <<>>
    /\ pieces = <<>> /\ body = <<>> /\ ok = TRUE /\ plan \in Plans

Execute ==
    /\ at = "idle" /\ plan # <<>> /\ Head(plan) \in DOMAIN Answers
    /\ at' = "receive"
    /\ query' = Head(plan) /\ plan' = Tail(plan)
    /\ answer' \in Answers[query']
    /\ rest' = FlattenSeq(answer')
    /\ pieces' = <<>> /\ body' = <<>>
    /\ UNCHANGED ok

Received(how) ==
    /\ at' = query
    /\ ok' = how
    /\ UNCHANGED <<query, answer, plan>>

(* Mutant of Receive: only the first piece gets a mark.                    *)
ReceiveMarksOnce(n) ==
    LET data == SubSeq(rest, 1, n)
        chunks == Len(pieces) + 1
        full == ChunksAllowed[query] > 0 /\ chunks >= ChunksAllowed[query] IN
    /\ at = "receive"
    /\ chunks < MaxCallbacks \/ n = Len(rest)
    /\ rest' = SubSeq(rest, n + 1, Len(rest))
    /\ pieces' = Append(pieces, data)
    /\ body' = body \o (IF chunks = 1 THEN <<Open>> ELSE <<>>) \o data
                    \o (IF full THEN <<Close>> ELSE <<>>)
    /\ \/ full /\ Received(TRUE)
       \/ ~full /\ UNCHANGED <<at, query, answer, ok, plan>>

(* The array is ended by the last of the chunks allowed, which is refused  *)
(* to stop the transfer; the error this gives counts as success.           *)
Receive(n) ==
    LET data == SubSeq(rest, 1, n)
        chunks == Len(pieces) + 1
        full == ChunksAllowed[query] > 0 /\ chunks >= ChunksAllowed[query] IN
    /\ at = "receive"
    /\ chunks < MaxCallbacks \/ n = Len(rest)
    /\ rest' = SubSeq(rest, n + 1, Len(rest))
    /\ pieces' = Append(pieces, data)
    /\ body' = body \o <<IF chunks = 1 THEN Open ELSE Comma>> \o data
                    \o (IF full THEN <<Close>> ELSE <<>>)
    /\ \/ full /\ Received(TRUE)
       \/ ~full /\ UNCHANGED <<at, query, answer, ok, plan>>

(* The answer ends; an empty one counts as a failure.                      *)
End ==
    /\ at = "receive" /\ rest = <<>>
    /\ Received(body # <<>>)
    /\ UNCHANGED <<rest, pieces, body>>

(* Whatever goes wrong, from the connection to the time limit.             *)
Drop ==
    /\ at = "receive"
    /\ Received(FALSE)
    /\ UNCHANGED <<rest, pieces, body>>

Transfer == Execute \/ (\E n \in 1 .. Len(rest) : Receive(n)) \/ End \/ Drop

-----------------------------------------------------------------------------
(* Response::parseJson() on an answer to stats, which has a body: the text *)
(* is an array of whole reports, or is refused here or by the caller's     *)
(* test for an array.                                                      *)
Half(report, i) == 256 + 2 * report + i
Report(number) == (number - 256) \div 2
WholeReport(i, b) == b[i] >= 256 /\ b[i] = Half(Report(b[i]), 0) /\ b[i + 1] = Half(Report(b[i]), 1)

IsArray(b) ==
    LET n == (Len(b) - 1) \div 3 IN
    /\ n > 0 /\ Len(b) = 3 * n + 1
    /\ b[1] = Open
    /\ \A k \in 1 .. n : /\ WholeReport(3 * k - 1, b)
                         /\ b[3 * k + 1] = IF k = n THEN Close ELSE Comma

ArrayLength(b) == (Len(b) - 1) \div 3
Element(b, k) == Report(b[3 * k - 1])
==============================================================================
