----------------------------- MODULE BodyCapture -----------------------------
(***************************************************************************)
(* The capture of response bodies, from AllScans.ExecCaptureScan through   *)
(* the Scan of Fingerprinter/Capture.cs to the engine of                   *)
(* Native_CPP_build/Response_Body_capture, which reads a reply segment by  *)
(* segment into one buffer and looks for the status and for the end of the *)
(* headers in all it has so far; and the text report written at the end.   *)
(*                                                                         *)
(* A reply is a sequence of units: the two halves of "HTTP/1.1 ", a status *)
(* code, the blank line, and text.  A segment ends after any unit.         *)
(***************************************************************************)
EXTENDS Transport, SequencesExt

CONSTANTS
    Replies,    \* what a peer may send, in full
    BodyCap,    \* the 4096 bytes of captured_body, in units
    MaxWords,   \* length of the wordlist
    MaxRuns     \* bound on the captures run in a session

Half1 == 1000
Half2 == 1001
Blank == 1002
Text == 1003
Units == Codes \cup {Half1, Half2, Blank, Text}

ASSUME BodyCaptureAssumption ==
    /\ Replies \subseteq Seq(Units) /\ BodyCap \in Nat \ {0, 1}
    /\ MaxWords \in Nat /\ MaxRuns \in Nat

VARIABLES
    engine,   \* the native engine exists
    peer,     \* all the peer sends in answer to this request
    head,     \* body_start: units up to the blank line, 0 before it is seen
    unset,    \* fields of myData not written yet: "status", "body"
    body,     \* myData.captured_body
    rows,     \* mainScan.Result of the run in progress
    report,   \* the text at htmlFile, <<>> when there is no file
    runs      \* captures begun

inner == <<peer, head, unset, body>>
outer == <<engine, rows, report, runs>>
vars == <<pc, https, cancel, sock, fds, ssl, tls, got, answer, named, faults,
          engine, peer, head, unset, body, rows, report, runs>>

\* answer is myData.statusCode here, named that myData.domain is written.
Row == [status |-> answer, named |-> named, unset |-> unset, body |-> body]

Init ==
    /\ pc = "prompt" /\ https \in BOOLEAN /\ cancel = FALSE
    /\ sock = NoFd /\ fds = {} /\ ssl = "null" /\ tls = 0
    /\ got = 0 /\ answer = Unknown /\ named = FALSE /\ faults = {}
    /\ engine = FALSE /\ peer = <<>> /\ head = 0 /\ unset = {} /\ body = <<>>
    /\ rows = <<>> /\ report = <<>> /\ runs = 0

(***************************************************************************)
(* ExecCaptureScan.                                                        *)
(***************************************************************************)

StartCapture ==
    /\ pc = "prompt" /\ runs < MaxRuns
    /\ runs' = runs + 1 /\ rows' = <<>> /\ pc' = "word"
    /\ UNCHANGED <<https, cancel, conn, reply, faults, inner, engine, report>>

\* An engine for the next word; its constructor resolves the domain, and
\* whether it could tells only in whether connect succeeds.
Begin ==
    /\ pc = "word" /\ Len(rows) < MaxWords
    /\ engine' = TRUE /\ cancel' = FALSE
    /\ sock' = NoFd /\ ssl' = "null"
    /\ got' = 0 /\ answer' = Unknown /\ named' = FALSE
    /\ head' = 0 /\ unset' = {"status", "body"} /\ body' = <<>>
    /\ pc' = "enter"
    /\ UNCHANGED <<https, fds, tls, faults, peer, rows, report, runs>>

\* The struct of the call becomes a row.
Back ==
    /\ pc = "back"
    /\ rows' = Append(rows, Row) /\ engine' = FALSE /\ pc' = "word"
    /\ peer' = <<>>
    /\ UNCHANGED <<https, cancel, conn, reply, faults, head, unset, body, report, runs>>

\* Of a program that writes to finalFilePath.
WrittenBeside == IF report = <<>> THEN rows ELSE report
\* WriteTextResBody works out a new name and then writes to the old one.
Written == rows

WriteTextResBody ==
    /\ pc = "word" /\ Len(rows) = MaxWords
    /\ report' = Written /\ pc' = "prompt"
    /\ UNCHANGED <<https, cancel, conn, reply, faults, inner, engine, rows, runs>>

(***************************************************************************)
(* ReconDeBodyCaptio::scan up to the request.                              *)
(***************************************************************************)

\* A cancel check with no connection, or with a bare one.
EnterCancelled ==
    /\ pc = "enter" /\ cancel /\ pc' = "back"
    /\ UNCHANGED <<https, cancel, conn, reply, faults, inner, outer>>

Socket ==
    /\ pc = "enter" /\ ~cancel
    /\ OpenSock \/ UNCHANGED <<sock, fds>>
    /\ named' = TRUE /\ pc' = "socket"
    /\ UNCHANGED <<https, cancel, ssl, tls, got, answer, faults, inner, outer>>

\* close(sock) alone.
CloseSock == fds' = fds \ {sock} /\ faults' = faults \cup CloseFault

BareCancelled ==
    /\ pc \in {"socket", "connected"} /\ cancel
    /\ CloseSock /\ pc' = "back"
    /\ UNCHANGED <<https, cancel, sock, ssl, tls, reply, inner, outer>>

\* The struct returned is a new one, all zero.
Zeroed == answer' = 0 /\ named' = FALSE /\ unset' = {} /\ body' = <<>>

ConnectFails ==
    /\ pc = "socket" /\ ~cancel
    /\ CloseSock /\ Zeroed /\ pc' = "back"
    /\ UNCHANGED <<https, cancel, sock, ssl, tls, got, peer, head, outer>>

Connect ==
    /\ pc = "socket" /\ ~cancel /\ sock \in fds
    /\ pc' = "connected"
    /\ UNCHANGED <<https, cancel, conn, reply, faults, inner, outer>>

PlainReady ==
    /\ pc = "connected" /\ ~cancel /\ ~https
    /\ pc' = "ready"
    /\ UNCHANGED <<https, cancel, conn, reply, faults, inner, outer>>

\* SSL_connect below 0 is a failure; 0, a refused handshake, passes for a
\* success, and then nothing is ever read.
Handshake ==
    /\ pc = "connected" /\ ~cancel /\ https
    /\ ssl' = "live" /\ tls' = tls + 1
    /\ pc' = "ready"
    /\ UNCHANGED <<https, cancel, sock, fds, reply, faults, inner, outer>>

HandshakeFails ==
    /\ pc = "connected" /\ ~cancel /\ https
    /\ CloseSock /\ Zeroed /\ pc' = "back"
    /\ UNCHANGED <<https, cancel, sock, ssl, tls, got, peer, head, outer>>

(***************************************************************************)
(* The request and the read loop.                                          *)
(***************************************************************************)

\* Checks after the handshake, after the request, after a segment, after its
\* parse and after the loop.
CancelPoints == {"ready", "sent", "parse", "read", "close"}
\* Of a program whose check after the request returns at once.
CleanupAtLax == CancelPoints \ {"sent"}
\* Each releases, and returns myData as it is.
CleanupAt == CancelPoints

ScanCancelled ==
    /\ pc \in CancelPoints /\ cancel
    /\ IF pc \in CleanupAt THEN Release ELSE UNCHANGED <<fds, tls, faults>>
    /\ pc' = "back"
    /\ UNCHANGED <<https, cancel, sock, ssl, reply, inner, outer>>

\* Whether the request was written is not looked at: of one that was not, no
\* reply comes.
Send ==
    /\ pc = "ready" /\ ~cancel
    /\ peer' \in Replies \cup {<<>>}
    /\ pc' = "sent"
    /\ UNCHANGED <<https, cancel, conn, reply, faults, head, unset, body, outer>>

Sent ==
    /\ pc = "sent" /\ ~cancel /\ pc' = "read"
    /\ UNCHANGED <<https, cancel, conn, reply, faults, inner, outer>>

\* remainingSpace: room for one more unit.
Room == got < BufUnits

Segment ==
    /\ pc = "read" /\ ~cancel /\ Room
    /\ \E n \in 1..(BufUnits - got) :
         got + n <= Len(peer) /\ got' = got + n
    /\ pc' = "parse"
    /\ UNCHANGED <<https, cancel, conn, answer, named, faults, inner, outer>>

\* Of a TLS read that the timeout does not end.
ReadEndsPlain ==
    /\ pc = "read" /\ ~cancel /\ (https => ~Room)
    /\ pc' = "close"
    /\ UNCHANGED <<https, cancel, conn, reply, faults, inner, outer>>

\* The buffer is full, the peer closes, or SO_RCVTIMEO expires: over TLS too,
\* where SSL_read then returns -1.
ReadEnds ==
    /\ pc = "read" /\ ~cancel
    /\ pc' = "close"
    /\ UNCHANGED <<https, cancel, conn, reply, faults, inner, outer>>

\* buff: what has been received.
Received == SubSeq(peer, 1, got)

\* extract_status_from_buffer: what follows the last mark, if it is a code.
\* Without a mark it searches from a null pointer.
StatusOf(buff) ==
    LET marks == {i \in 2..Len(buff) : buff[i - 1] = Half1 /\ buff[i] = Half2}
        last == CHOOSE i \in marks : \A j \in marks : i >= j
    IN  IF marks = {} THEN Foreign
        ELSE IF last < Len(buff) /\ buff[last + 1] \in Codes THEN buff[last + 1]
        ELSE Unknown

\* The end of the headers in a buffer, 0 without one.
HeadOf(buff) ==
    LET ends == {i \in DOMAIN buff : buff[i] = Blank}
    IN  IF ends = {} THEN 0 ELSE CHOOSE i \in ends : \A j \in ends : i <= j

\* Of a program that parses the first segment only.
UnparsedFirst == "status" \in unset
\* The headers are parsed again until their end has been seen.
Unparsed == head = 0

Parse ==
    /\ pc = "parse" /\ ~cancel
    /\ Unparsed => StatusOf(Received) # Foreign
    /\ IF Unparsed
       THEN /\ answer' = StatusOf(Received) /\ unset' = unset \ {"status"}
            /\ head' = HeadOf(Received)
       ELSE UNCHANGED <<answer, unset, head>>
    /\ pc' = IF head' > 0 /\ got - head' >= BodyCap THEN "close" ELSE "read"
    /\ UNCHANGED <<https, cancel, conn, got, named, faults, peer, body, outer>>

\* strchr on the null pointer of a buffer without "HTTP/".
ParseForeign ==
    /\ pc = "parse" /\ ~cancel /\ Unparsed /\ StatusOf(Received) = Foreign
    /\ pc' = "dead"
    /\ UNCHANGED <<https, cancel, conn, reply, faults, inner, outer>>

\* Of a program that leaves no room for the terminator.
CopiedFull == IF got - head > BodyCap THEN BodyCap ELSE got - head
\* bytesToCopy: one unit less than the field, for the terminator.
Copied == IF got - head > BodyCap - 1 THEN BodyCap - 1 ELSE got - head

Close ==
    /\ pc = "close" /\ ~cancel
    /\ Release
    /\ IF head = 0 THEN UNCHANGED <<unset, body>>
       ELSE body' = SubSeq(peer, head + 1, head + Copied) /\ unset' = unset \ {"body"}
    /\ pc' = "back"
    /\ UNCHANGED <<https, cancel, sock, ssl, reply, peer, head, outer>>

Resting == {"prompt", "word", "dead"}

\* *cancel_flag is set while the call runs.
Cancel ==
    /\ ~cancel /\ pc \notin Resting \cup {"back"}
    /\ cancel' = TRUE
    /\ UNCHANGED <<pc, https, conn, reply, faults, inner, outer>>

\* The session ends, or the process has died.
Finished ==
    /\ pc = "dead" \/ (pc = "prompt" /\ runs = MaxRuns)
    /\ UNCHANGED vars

Step ==
    \/ StartCapture \/ Begin \/ Back \/ WriteTextResBody
    \/ EnterCancelled \/ Socket \/ BareCancelled \/ ConnectFails \/ Connect
    \/ PlainReady \/ Handshake \/ HandshakeFails
    \/ ScanCancelled \/ Send \/ Sent \/ Segment \/ ReadEnds
    \/ Parse \/ ParseForeign \/ Close

Next == Step \/ Cancel \/ Finished

Spec == Init /\ [][Next]_vars /\ WF_vars(Step)

(***************************************************************************)
(* Properties.                                                             *)
(***************************************************************************)

\* However a call ends, cancelled in the middle of a segment or cut off, it
\* has closed its descriptor and freed its SSL object, once, and the engine
\* is destroyed before the next word.
AllReleased ==
    /\ pc \in {"back", "word", "prompt"} => fds = {} /\ tls = 0
    /\ pc \in {"word", "prompt"} => ~engine
    /\ faults = {}

BodyOf(p) == SubSeq(p, HeadOf(p) + 1, Len(p))
Mentions(text) == \E i \in 2..Len(text) : text[i - 1] = Half1 /\ text[i] = Half2

\* However the reply is cut into segments, the status of a finished call is
\* the one of its status line as soon as the blank line was received, unless
\* the body mentions "HTTP/"; and the body is a prefix of the reply's own that
\* leaves room in its field for the terminator, shorter than it only when the
\* field or the buffer is full or the peer stopped.
CaptureIsReplys ==
    pc = "back" /\ ~cancel /\ head > 0 =>
        /\ ~Mentions(BodyOf(peer)) => answer = StatusOf(SubSeq(peer, 1, HeadOf(peer)))
        /\ IsPrefix(body, BodyOf(peer)) /\ Len(body) < BodyCap
        /\ Len(body) = BodyCap - 1 \/ body = BodyOf(Received)

\* A call that was not cancelled and received anything hands back no
\* uninitialised status, and an uninitialised body exactly when the blank
\* line did not come.
FieldsFilled ==
    pc = "back" /\ ~cancel /\ got > 0 =>
        /\ "status" \notin unset
        /\ "body" \in unset <=> HeadOf(Received) = 0

\* Every capture comes to its end: each wait of the loop is bounded by
\* SO_RCVTIMEO, and each segment takes room in the buffer.
Returns == pc = "word" ~> pc \in {"prompt", "dead"}

\* "Construct a completely unique new name": the report of an earlier capture
\* is still there after a later one.
ReportKept == [][report # <<>> => report' = report]_vars
==============================================================================
