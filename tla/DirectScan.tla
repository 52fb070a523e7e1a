------------------------------ MODULE DirectScan ------------------------------
(***************************************************************************)
(* The direct scan, from AllScans.ExecCppScan through the SendAsync of     *)
(* Fingerprinter/Warmup.cs to the native engine of ScanModule/scan.cpp.    *)
(* For each word of the list an engine is made, which resolves the target; *)
(* after a delay the engine is asked to scan and its output is made a row; *)
(* the rows are written when the list is done.                             *)
(*                                                                         *)
(* The flag the engine looks at is a copy: SendAsync passes its bool by    *)
(* ref, which the marshaller copies to a native cell before the call and   *)
(* back from it afterwards.  cancel is that cell, managed the C# variable. *)
(***************************************************************************)
EXTENDS Transport, Sequences

CONSTANT MaxWords   \* length of the wordlist

ASSUME DirectScanAssumption == MaxWords \in Nat /\ IsFiniteSet(Fd)

VARIABLES
    literal,   \* the target is an address
    resolved,  \* the engine's domain_resolved is not empty
    token,     \* the CancellationToken is cancelled
    managed,   \* cancelFlag, which the token's callback sets
    engines,   \* native engines not destroyed
    out,       \* what the native call returns
    rows,      \* mainScan.Result
    queried    \* history: queries sent to the target

outer == <<literal, resolved, token, managed, engines, out, rows, queried>>
vars == <<pc, https, cancel, sock, fds, ssl, tls, got, answer, named, faults,
          literal, resolved, token, managed, engines, out, rows, queried>>

\* "junk" is a struct returned before its status was written: the status is
\* any number, the one of an earlier call included.  "empty" is the row of a
\* call given up, which has nothing in it.
Outputs == [kind : {"junk", "empty", "result"}, status : Codes \cup {Unknown}]
Junk == [kind : {"junk"}, status : Codes \cup {Unknown}]
Empty == [kind |-> "empty", status |-> Unknown]

Init ==
    /\ pc = "idle" /\ https \in BOOLEAN /\ cancel = FALSE
    /\ sock = NoFd /\ fds = {} /\ ssl = "null" /\ tls = 0
    /\ got = 0 /\ answer = Unknown /\ named = FALSE /\ faults = {}
    /\ literal \in BOOLEAN /\ resolved = FALSE
    /\ token = FALSE /\ managed = FALSE
    /\ engines = 0 /\ out = Empty /\ rows = <<>> /\ queried = 0

(***************************************************************************)
(* The constructor, which resolves a name by DomainStack.                  *)
(***************************************************************************)

\* cts.Register, once the engine is made: a token cancelled before sets the
\* new flag at once.
Register == managed' = token /\ pc' = "delay"

\* The next word.
Begin ==
    /\ pc = "idle" /\ Len(rows) < MaxWords
    /\ engines' = engines + 1
    /\ sock' = NoFd /\ ssl' = "null"
    /\ resolved' = literal
    /\ IF literal THEN Register ELSE managed' = FALSE /\ pc' = "resolve"
    /\ UNCHANGED <<https, cancel, fds, tls, reply, faults, literal, token, out, rows, queried>>

\* No descriptor, or the question cannot be sent.
ResolveUnasked ==
    /\ pc = "resolve" /\ Register
    /\ UNCHANGED <<https, cancel, conn, reply, faults, literal, resolved, token, engines,
                   out, rows, queried>>

ResolveAsk ==
    /\ pc = "resolve" /\ OpenSock
    /\ pc' = "asked"
    /\ UNCHANGED <<https, cancel, ssl, tls, reply, faults, outer>>

ResolveDone ==
    /\ pc = "asked" /\ Register
    /\ resolved' \in BOOLEAN
    /\ fds' = fds \ {sock} /\ sock' = NoFd
    /\ UNCHANGED <<https, cancel, ssl, tls, reply, faults, literal, token, engines, out,
                   rows, queried>>

(***************************************************************************)
(* SendAsync before the native call.                                       *)
(***************************************************************************)
Row(r) ==
    /\ rows' = Append(rows, r) /\ pc' = "idle"
    /\ engines' = engines - 1

\* Task.Delay throws, past engine_destroy and out of the loop over the list.
DelayCancelled ==
    /\ pc = "delay" /\ token
    /\ pc' = "aborted"
    /\ UNCHANGED <<https, cancel, conn, reply, faults, outer>>

DelayEnds ==
    /\ pc = "delay" /\ ~token
    /\ pc' = "check"
    /\ UNCHANGED <<https, cancel, conn, reply, faults, outer>>

CheckCancelled ==
    /\ pc = "check" /\ token /\ Row(Empty)
    /\ UNCHANGED <<https, cancel, conn, reply, faults, literal, resolved, token, managed,
                   out, queried>>

Check ==
    /\ pc = "check" /\ ~token
    /\ pc' = "enter"
    /\ UNCHANGED <<https, cancel, conn, reply, faults, outer>>

(***************************************************************************)
(* CppScanModule::scan.                                                    *)
(***************************************************************************)

\* Mutant of Enter: the output is static, and keeps the result of the call before.
EnterStale ==
    /\ pc = "enter" /\ cancel' = managed
    /\ pc' = IF resolved THEN "socket" ELSE "back"
    /\ UNCHANGED <<https, conn, reply, faults, literal, resolved, token, managed, engines,
                   out, rows, queried>>

\* The flag is copied into the call, which gives up at once with no address.
\* The output is a local that nothing has been written to.
Enter ==
    /\ pc = "enter" /\ cancel' = managed
    /\ out' \in Junk
    /\ pc' = IF resolved THEN "socket" ELSE "back"
    /\ UNCHANGED <<https, conn, reply, faults, literal, resolved, token, managed, engines,
                   rows, queried>>

NoSocket ==
    /\ pc = "socket" /\ pc' = "back"
    /\ UNCHANGED <<https, cancel, conn, reply, faults, outer>>

Socket ==
    /\ pc = "socket" /\ OpenSock
    /\ pc' = "connect"
    /\ UNCHANGED <<https, cancel, ssl, tls, reply, faults, outer>>

\* Mutant of ConnectFails: the descriptor of a refused connection is kept.
ConnectFailsOpen ==
    /\ pc = "connect" /\ pc' = "back"
    /\ sock' = NoFd
    /\ UNCHANGED <<https, cancel, fds, ssl, tls, reply, faults, outer>>

ConnectFails ==
    /\ pc = "connect" /\ pc' = "back"
    /\ fds' = fds \ {sock} /\ sock' = NoFd
    /\ UNCHANGED <<https, cancel, ssl, tls, reply, faults, outer>>

Connect ==
    /\ pc = "connect"
    /\ pc' = IF https THEN "handshake" ELSE "query"
    /\ UNCHANGED <<https, cancel, conn, reply, faults, outer>>

HandshakeDone ==
    /\ pc = "handshake" /\ pc' = "query"
    /\ ssl' = "live" /\ tls' = tls + 1
    /\ UNCHANGED <<https, cancel, sock, fds, reply, faults, outer>>

HandshakeFails ==
    /\ pc = "handshake" /\ pc' = "back"
    /\ fds' = fds \ {sock} /\ sock' = NoFd
    /\ UNCHANGED <<https, cancel, ssl, tls, reply, faults, outer>>

Query ==
    /\ InterfaceScan("judge")
    /\ queried' = IF pc = "query" /\ pc' = "read" THEN queried + 1 ELSE queried
    /\ UNCHANGED <<literal, resolved, token, managed, engines, out, rows>>

JudgeForeign ==
    /\ pc = "judge" /\ answer = Foreign
    /\ pc' = "dead"
    /\ UNCHANGED <<https, cancel, conn, reply, faults, outer>>

\* The output is filled in; sock and ssl, locals of the call, are neither
\* closed nor freed.
Judge ==
    /\ pc = "judge" /\ answer # Foreign
    /\ out' = [kind |-> "result", status |-> answer]
    /\ pc' = "back"
    /\ UNCHANGED <<https, cancel, conn, reply, faults, literal, resolved, token, managed,
                   engines, rows, queried>>

(***************************************************************************)
(* SendAsync after it, and the end of the list.                            *)
(***************************************************************************)

\* The cell is copied back over the flag; the token decides, not the flag.
Back ==
    /\ pc = "back" /\ managed' = cancel
    /\ Row(IF token THEN Empty ELSE out)
    /\ UNCHANGED <<https, cancel, conn, reply, faults, literal, resolved, token, out, queried>>

Save ==
    /\ pc = "idle" /\ Len(rows) = MaxWords
    /\ pc' = "saved"
    /\ UNCHANGED <<https, cancel, conn, reply, faults, outer>>

Ended == {"saved", "aborted", "dead"}

\* The token's owner cancels: the callback runs before Cancel returns.
Cancel ==
    /\ ~token /\ pc \notin Ended
    /\ token' = TRUE
    /\ managed' = IF pc \in {"idle", "resolve", "asked"} THEN managed ELSE TRUE
    /\ UNCHANGED <<pc, https, cancel, conn, reply, faults, literal, resolved, engines, out,
                   rows, queried>>

Finished == pc \in Ended /\ UNCHANGED vars

Step ==
    \/ Begin \/ ResolveUnasked \/ ResolveAsk \/ ResolveDone
    \/ DelayCancelled \/ DelayEnds \/ CheckCancelled \/ Check
    \/ Enter \/ NoSocket \/ Socket \/ ConnectFails \/ Connect
    \/ HandshakeDone \/ HandshakeFails \/ Query \/ JudgeForeign \/ Judge
    \/ Back \/ Save

Next == Step \/ Cancel \/ Finished

\* No SO_RCVTIMEO on the resolver's socket: a lost reply is waited for.
SilentPeer == SilentTlsPeer \/ pc = "asked"

Spec == Init /\ [][Next]_vars /\ WF_vars(Step /\ ~SilentPeer)

(***************************************************************************)
(* Properties.                                                             *)
(***************************************************************************)
AtRest == pc \in {"idle", "saved", "aborted"}

\* Between calls the process holds no more connections than queries were
\* sent, each with its SSL object over HTTPS: a call leaks only when it got as
\* far as asking the target, and then one connection.  Its native engine is
\* destroyed, but that of a word whose delay was cancelled, after which the
\* list is given up.
LeaksPerQuery ==
    AtRest => /\ Cardinality(fds) <= queried
              /\ tls = IF https THEN Cardinality(fds) ELSE 0
              /\ engines = IF pc = "aborted" THEN 1 ELSE 0

\* The rows in which the target's own answer is recorded.
Answered(s) == {i \in DOMAIN s : s[i].kind = "result" /\ s[i].status # Unknown}

\* With every answered query keeping its descriptor, a list records at most as
\* many answers as the process may hold descriptors, and no row repeats
\* another's.  The words after those have rows too: a status in one of them is
\* what the uninitialised struct held, and no answer.
AnswersBounded == Cardinality(Answered(rows)) <= Cardinality(Fd)

\* The list ends, unless the resolver's reply is lost or the target stays
\* silent over TLS.
ListEnds == <>(pc \in Ended) \/ <>[]SilentPeer

\* "Shared cancellation state across managed/unmanaged boundary": the native
\* engine sees the flag SendAsync's callback sets.
FlagShared ==
    pc \in {"socket", "connect", "handshake", "query", "read"} => cancel = managed
==============================================================================
