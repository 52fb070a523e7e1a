------------------------------- MODULE TorScan -------------------------------
(***************************************************************************)
(* Native_CPP_build/TorScan/tor_scan.cpp, the engine behind start_tor_scan,*)
(* with the end of Tor/TorScan.cs's SendAsync that turns its output struct *)
(* into a row.  A call opens a SOCKS tunnel, asks the target and, when the *)
(* answer looks like a block, drops everything, asks the Tor control port  *)
(* for a new circuit and asks the target a second time.                    *)
(***************************************************************************)
EXTENDS Transport, Sequences

CONSTANT MaxCalls   \* bound on the words of the wordlist

ASSUME TorScanAssumption == MaxCalls \in Nat

VARIABLES
    attempt,    \* 1 for the first query of a call, 2 for the re-run
    ctrl,       \* ctrl_sock of TorRotation
    engine,     \* the native Scan object is allocated
    out,        \* the ScanOutputStruct the call returns
    row,        \* the ScanOutput last delivered
    calls,      \* calls made
    statuses,   \* history: the statuses extracted in this call
    circuits    \* history: NEWNYM signals sent in this call

torVars == <<attempt, ctrl, engine, out, row, calls, statuses, circuits>>
vars == <<pc, https, cancel, sock, fds, ssl, tls, got, answer, named, faults,
          attempt, ctrl, engine, out, row, calls, statuses, circuits>>

Statuses == Codes \cup {Unknown, 0}
Zeroed == [named |-> FALSE, status |-> 0]
Outputs == [named : BOOLEAN, status : Statuses]
Rows == [kind : {"halted", "scanned"}, named : BOOLEAN, status : Statuses]

\* "Bad status target match": below 200, or an error other than 404.
Blocked(s) == s < 200 \/ (s >= 400 /\ s # 404)

Init ==
    /\ pc = "idle" /\ https \in BOOLEAN /\ cancel = FALSE
    /\ sock = NoFd /\ fds = {} /\ ssl = "null" /\ tls = 0
    /\ got = 0 /\ answer = Unknown /\ named = FALSE /\ faults = {}
    /\ attempt = 1 /\ ctrl = NoFd /\ engine = FALSE /\ out = Zeroed
    /\ row = [kind |-> "halted", named |-> FALSE, status |-> 0]
    /\ calls = 0 /\ statuses = <<>> /\ circuits = 0

(***************************************************************************)
(* The call.                                                               *)
(***************************************************************************)

\* create_engine, then tor_scan_engine with a flag that may already be set.
Begin ==
    /\ pc = "idle" /\ calls < MaxCalls
    /\ calls' = calls + 1 /\ engine' = TRUE
    /\ cancel' \in BOOLEAN
    /\ sock' = NoFd /\ ssl' = "null"
    /\ attempt' = 1 /\ out' = Zeroed /\ statuses' = <<>> /\ circuits' = 0
    /\ pc' = IF cancel' THEN "deliver" ELSE "tunnel"
    /\ UNCHANGED <<https, fds, tls, reply, faults, ctrl, row>>

\* SockTunnel hands over a descriptor.  What it takes for an accepted
\* CONNECT is SocksTunnel's subject; a tunnel accepted by mistake fails at
\* the first write or read.
TunnelOpen ==
    /\ pc = "tunnel" /\ OpenSock
    /\ pc' = CASE https -> "handshake"
               [] ~https /\ attempt = 1 -> "ready"
               [] ~https /\ attempt = 2 -> "query"
    /\ UNCHANGED <<https, cancel, ssl, tls, reply, faults, torVars>>

\* SockTunnel closed what it had opened and returned -1.  The first attempt
\* returns; the re-run goes on to its query all the same.
TunnelFails ==
    /\ pc = "tunnel"
    /\ sock' = NoFd
    /\ pc' = IF attempt = 1 THEN "deliver" ELSE "query"
    /\ UNCHANGED <<https, cancel, fds, ssl, tls, reply, faults, torVars>>

HandshakeDone ==
    /\ pc = "handshake"
    /\ ssl' = "live" /\ tls' = tls + 1
    /\ pc' = IF attempt = 1 THEN "ready" ELSE "query"
    /\ UNCHANGED <<https, cancel, sock, fds, reply, faults, torVars>>

\* Mutant of HandshakeFails: the descriptor is forgotten, not closed.
HandshakeFailsOpen ==
    /\ pc = "handshake"
    /\ sock' = NoFd /\ ssl' = "null"
    /\ pc' = "deliver"
    /\ UNCHANGED <<https, cancel, fds, tls, reply, faults, torVars>>

\* SSL_connect <= 0: the new SSL object is freed and the descriptor closed.
HandshakeFails ==
    /\ pc = "handshake"
    /\ fds' = fds \ {sock} /\ faults' = faults \cup CloseFault
    /\ sock' = NoFd /\ ssl' = "null"
    /\ pc' = "deliver"
    /\ UNCHANGED <<https, cancel, tls, reply, torVars>>

\* The check between the connection and the first query.
ReadyCancelled ==
    /\ pc = "ready" /\ cancel
    /\ Release /\ sock' = NoFd /\ ssl' = "null"
    /\ pc' = "deliver"
    /\ UNCHANGED <<https, cancel, reply, torVars>>

Ready ==
    /\ pc = "ready" /\ ~cancel
    /\ pc' = "query"
    /\ UNCHANGED <<https, cancel, conn, reply, faults, torVars>>

Query == InterfaceScan("judge") /\ UNCHANGED torVars

(***************************************************************************)
(* After a query: extract_status_from_buffer, then report or rotate.       *)
(***************************************************************************)

\* No "HTTP/" in the headers: strchr is called on a null pointer.
JudgeForeign ==
    /\ pc = "judge" /\ answer = Foreign
    /\ pc' = "dead"
    /\ UNCHANGED <<https, cancel, conn, reply, faults, torVars>>

\* Mutant of Retry: the circuit is rotated as long as the answer is a block.
RetryAlways ==
    /\ pc = "judge" /\ answer # Foreign /\ Blocked(answer)
    /\ Release /\ sock' = NoFd /\ ssl' = "null"
    /\ statuses' = Append(statuses, answer)
    /\ pc' = "rotate"
    /\ UNCHANGED <<https, cancel, reply, attempt, ctrl, engine, out, row, calls, circuits>>

Retry ==
    /\ pc = "judge" /\ answer # Foreign
    /\ attempt = 1 /\ Blocked(answer)
    /\ Release /\ sock' = NoFd /\ ssl' = "null"
    /\ statuses' = Append(statuses, answer)
    /\ pc' = "rotate"
    /\ UNCHANGED <<https, cancel, reply, attempt, ctrl, engine, out, row, calls, circuits>>

\* Mutant of Report: a blocked answer is taken at once.
ReportUnchecked ==
    /\ pc = "judge" /\ answer # Foreign
    /\ out' = [named |-> named, status |-> answer]
    /\ Release /\ sock' = NoFd /\ ssl' = "null"
    /\ statuses' = Append(statuses, answer)
    /\ pc' = "deliver"
    /\ UNCHANGED <<https, cancel, reply, attempt, ctrl, engine, row, calls, circuits>>

Report ==
    /\ pc = "judge" /\ answer # Foreign
    /\ attempt = 2 \/ ~Blocked(answer)
    /\ out' = [named |-> named, status |-> answer]
    /\ Release /\ sock' = NoFd /\ ssl' = "null"
    /\ statuses' = Append(statuses, answer)
    /\ pc' = "deliver"
    /\ UNCHANGED <<https, cancel, reply, attempt, ctrl, engine, row, calls, circuits>>

(***************************************************************************)
(* TorRotation.  Its result is not looked at.                              *)
(***************************************************************************)

\* No descriptor, or the control port refuses the connection.
NoControlPort ==
    /\ pc = "rotate" /\ pc' = "rerun"
    /\ UNCHANGED <<https, cancel, conn, reply, faults, torVars>>

ControlOpen ==
    /\ pc = "rotate"
    /\ \E f \in Fd \ fds : ctrl' = f /\ fds' = fds \cup {f}
    /\ pc' = "control"
    /\ UNCHANGED <<https, cancel, sock, ssl, tls, reply, faults, attempt, engine, out,
                   row, calls, statuses, circuits>>

CloseControl ==
    /\ fds' = fds \ {ctrl} /\ ctrl' = NoFd
    /\ UNCHANGED <<https, cancel, sock, ssl, tls, reply, faults, attempt, engine, out,
                   row, calls, statuses>>

ControlRefused ==
    /\ pc = "control" /\ pc' = "rerun"
    /\ CloseControl /\ UNCHANGED circuits

NewCircuit ==
    /\ pc = "control" /\ pc' = "rerun"
    /\ circuits' = circuits + 1
    /\ CloseControl

RerunCancelled ==
    /\ pc = "rerun" /\ cancel
    /\ pc' = "deliver"
    /\ UNCHANGED <<https, cancel, conn, reply, faults, torVars>>

Rerun ==
    /\ pc = "rerun" /\ ~cancel
    /\ attempt' = 2
    /\ pc' = "tunnel"
    /\ UNCHANGED <<https, cancel, conn, reply, faults, ctrl, engine, out, row, calls,
                   statuses, circuits>>

(***************************************************************************)
(* SendAsync: the row, and destroy_tor_engine in its finally block.        *)
(***************************************************************************)

Deliver ==
    /\ pc = "deliver" /\ pc' = "idle"
    /\ row' = [kind |-> IF ~out.named /\ out.status = 0 THEN "halted" ELSE "scanned",
               named |-> out.named, status |-> out.status]
    /\ engine' = FALSE
    /\ UNCHANGED <<https, cancel, conn, reply, faults, attempt, ctrl, out, calls,
                   statuses, circuits>>

\* The owner of the flag cancels the call in progress.
Cancel ==
    /\ pc \notin {"idle", "dead"} /\ ~cancel
    /\ cancel' = TRUE
    /\ UNCHANGED <<pc, https, conn, reply, faults, torVars>>

\* The wordlist is done, or the process is.
Finished ==
    /\ pc = "dead" \/ (pc = "idle" /\ calls = MaxCalls)
    /\ UNCHANGED vars

Step ==
    \/ Begin \/ TunnelOpen \/ TunnelFails \/ HandshakeDone \/ HandshakeFails
    \/ ReadyCancelled \/ Ready \/ Query \/ JudgeForeign \/ Retry \/ Report
    \/ NoControlPort \/ ControlOpen \/ ControlRefused \/ NewCircuit
    \/ RerunCancelled \/ Rerun \/ Deliver

Next == Step \/ Cancel \/ Finished

\* recv on the control port has no timeout: a silent control port is waited
\* for.  Every other blocking call returns, by SO_RCVTIMEO or by TCP.
SilentPeer == SilentTlsPeer \/ pc = "control"

Spec == Init /\ [][Next]_vars
FairSpec == Spec /\ WF_vars(Step /\ ~SilentPeer)

(***************************************************************************)
(* Properties.                                                             *)
(***************************************************************************)
InCall == pc \notin {"idle", "dead"}

TypeOK ==
    /\ TransportType
    /\ pc \in {"idle", "tunnel", "handshake", "ready", "query", "read", "judge",
               "rotate", "control", "rerun", "deliver", "dead"}
    /\ attempt \in {1, 2} /\ ctrl \in Fd \cup {NoFd} /\ engine \in BOOLEAN
    /\ out \in Outputs /\ row \in Rows
    /\ calls \in 0..MaxCalls /\ circuits \in Nat
    /\ statuses \in Seq(Codes \cup {Unknown})

\* Whatever the network and the flag do, on every one of the dozen ways out
\* of tor_scan the target descriptor, the control descriptor, the SSL object
\* and the native engine have all been given back when the row is delivered.
AllReleased == pc = "idle" => fds = {} /\ tls = 0 /\ ~engine

\* No descriptor is closed and no SSL object freed a second time, although
\* interface_scan, the retry branch and the end of tor_scan all release.
NoStaleHandle == faults \subseteq {"nullTls"}

\* The row of a call is about the last query answered; an acceptable answer
\* is never thrown away; and a blocked answer is only recorded when the first
\* query was blocked too and the target was asked a second time.
RowHonest ==
    pc = "idle" /\ calls > 0 =>
        /\ row.kind = "scanned" =>
               /\ statuses # <<>>
               /\ row.status = statuses[Len(statuses)]
               /\ Blocked(row.status) => Len(statuses) = 2 /\ Blocked(statuses[1])
        /\ (\E i \in DOMAIN statuses : ~Blocked(statuses[i])) => row.kind = "scanned"

\* A row counted as scanned but with no target name comes only from a cancel
\* that struck inside a query: TorScan.cs's test for an empty structure lets
\* it through, because its status is -1 and not 0.
NamelessMeansCancelled ==
    pc = "idle" /\ row.kind = "scanned" /\ ~row.named => cancel

\* A call returns unless the target stays silent over TLS or the Tor control
\* port accepts a connection and stays silent: the only two unbounded waits.
\* A cancelled call returns, over TLS too; only the wait for the control port
\* does not look at the flag.
Returns ==
    /\ InCall ~> (~InCall \/ []SilentPeer)
    /\ InCall /\ cancel ~> (~InCall \/ [](pc = "control"))

(***************************************************************************)
(* The engine implements the contract of a scan call.                      *)
(***************************************************************************)
Phase == CASE pc = "idle" -> "idle" [] pc = "dead" -> "dead" [] OTHER -> "busy"

Contract == INSTANCE ScanContract WITH
    Handles <- Fd, phase <- Phase, held <- fds,
    queries <- Len(statuses), renewed <- circuits > 0

\* Every call is one call of the contract: at most two queries, at most one
\* new circuit and that between them, one row, nothing held at delivery.
ImplementsContract == Contract!Spec
==============================================================================
