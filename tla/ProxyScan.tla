------------------------------ MODULE ProxyScan ------------------------------
(***************************************************************************)
(* Native_CPP_build/Proxy_Scanning: the engines of start_http_proxy_scan   *)
(* (HttpProxyScanModule.cpp over the CONNECT of Proxy_Scan.cpp) and of     *)
(* start_socks_proxy_scan (SockProxy_module.cpp over SockTunnel), with the *)
(* end of the SendAsync that delivers their output as a row.               *)
(*                                                                         *)
(* The two are one program text that came apart: they look at a failed     *)
(* tunnel and at a failed query in other places, and end in other ways.    *)
(* The SSL* is a member of the engine that no constructor sets, so that    *)
(* before the first SSL_new it is what the heap held.                      *)
(***************************************************************************)
EXTENDS Transport

CONSTANT MaxCalls   \* bound on the words of the wordlist

ASSUME ProxyScanAssumption == MaxCalls \in Nat

VARIABLES
    kind,     \* which engine: "http" or "socks"
    engine,   \* the native engine is allocated
    out,      \* the ProxyScanOutputModel of the call
    row,      \* the ScanOutput last delivered
    calls,    \* calls made
    sent      \* history: this call's query was sent

proxyVars == <<kind, engine, out, row, calls, sent>>
vars == <<pc, https, cancel, sock, fds, ssl, tls, got, answer, named, faults,
          kind, engine, out, row, calls, sent>>

\* A struct returned before anything was written to it is "junk".
Outputs == [kind : {"junk", "result"}, named : BOOLEAN, status : Codes \cup {Unknown}]
Junk == [kind |-> "junk", named |-> FALSE, status |-> Unknown]

Init ==
    /\ pc = "idle" /\ https \in BOOLEAN /\ cancel = FALSE
    /\ sock = NoFd /\ fds = {} /\ ssl = "null" /\ tls = 0
    /\ got = 0 /\ answer = Unknown /\ named = FALSE /\ faults = {}
    /\ kind \in {"http", "socks"} /\ engine = FALSE
    /\ out = Junk /\ row = Junk /\ calls = 0 /\ sent = FALSE

(***************************************************************************)
(* The connection.                                                         *)
(***************************************************************************)

\* http_create or socks_create, then the scan with a flag that may be set.
Begin ==
    /\ pc = "idle" /\ calls < MaxCalls
    /\ calls' = calls + 1 /\ engine' = TRUE
    /\ cancel' \in BOOLEAN
    /\ sock' = NoFd /\ ssl' \in {"null", "wild"}
    /\ out' = Junk /\ sent' = FALSE
    /\ pc' = IF cancel' THEN "deliver" ELSE "tunnel"
    /\ UNCHANGED <<https, fds, tls, reply, faults, kind, row>>

\* The proxy's answer to CONNECT has "200" in its first segment, or
\* SockTunnel returns a descriptor.
TunnelOpen ==
    /\ pc = "tunnel" /\ OpenSock
    /\ pc' = IF https THEN "handshake" ELSE "gate"
    /\ UNCHANGED <<https, cancel, ssl, tls, reply, faults, proxyVars>>

\* The tunnel has closed what it opened; sock is -1, which is not looked at.
TunnelFails ==
    /\ pc = "tunnel"
    /\ sock' = NoFd
    /\ pc' = IF https THEN "handshake" ELSE "gate"
    /\ UNCHANGED <<https, cancel, fds, ssl, tls, reply, faults, proxyVars>>

\* SSL_connect >= 0.  It is 0 when the peer shuts TLS down in the handshake:
\* the code goes on, and its query cannot be written.
HandshakeDone ==
    /\ pc = "handshake" /\ sock # NoFd
    /\ ssl' = "live" /\ tls' = tls + 1
    /\ pc' = "gate"
    /\ UNCHANGED <<https, cancel, sock, fds, reply, faults, proxyVars>>

\* SSL_connect < 0, as it is on the descriptor -1.  What was allocated is
\* freed; the member keeps pointing at it.
HandshakeFails ==
    /\ pc = "handshake"
    /\ fds' = fds \ {sock} /\ faults' = faults \cup CloseFault
    /\ ssl' = "stale"
    /\ pc' = "deliver"
    /\ UNCHANGED <<https, cancel, sock, tls, reply, proxyVars>>

\* SSL_shutdown of the member, of a null one too: that is a null dereference
\* or an error, by the version of OpenSSL, and of a wild one anything.
ShutdownFault == IF ssl = "null" THEN {"nullTls"} ELSE FreeFault

AfterRelease(misuse) ==
    pc' \in {"deliver"} \cup (IF misuse = {} THEN {} ELSE {"dead"})

\* The block each cancel check has: over HTTPS shutdown and free, then close.
GiveBack ==
    LET misuse == IF https THEN ShutdownFault ELSE {}
    IN  ReleaseAfter(misuse) /\ AfterRelease(misuse)

\* Mutant of GateCancelled: only the descriptor is closed.
GateCancelledPlain ==
    /\ pc = "gate" /\ cancel
    /\ fds' = fds \ {sock} /\ faults' = faults \cup CloseFault
    /\ pc' = "deliver"
    /\ UNCHANGED <<https, cancel, sock, ssl, tls, reply, proxyVars>>

\* The check between the connection and the query.
GateCancelled ==
    /\ pc = "gate" /\ cancel
    /\ GiveBack
    /\ UNCHANGED <<https, cancel, sock, ssl, reply, proxyVars>>

\* The SOCKS engine looks at sock before the query.
GateNoTunnel ==
    /\ pc = "gate" /\ ~cancel
    /\ kind = "socks" /\ sock = NoFd
    /\ pc' = "deliver"
    /\ UNCHANGED <<https, cancel, conn, reply, faults, proxyVars>>

Gate ==
    /\ pc = "gate" /\ ~cancel
    /\ kind = "socks" => sock # NoFd
    /\ pc' = "query"
    /\ UNCHANGED <<https, cancel, conn, reply, faults, proxyVars>>

Query ==
    /\ InterfaceScan("back")
    /\ sent' = (sent \/ pc' = "read")
    /\ UNCHANGED <<kind, engine, out, row, calls>>

(***************************************************************************)
(* After the query.                                                        *)
(***************************************************************************)
BackCancelled ==
    /\ pc = "back" /\ cancel
    /\ GiveBack
    /\ UNCHANGED <<https, cancel, sock, ssl, reply, proxyVars>>

\* Mutant of BackNoTunnel: the check on sock that the SOCKS engine has here,
\* none.
BackGoesOn ==
    /\ pc = "back" /\ ~cancel
    /\ kind = "http" /\ sock = NoFd
    /\ pc' = "judge"
    /\ UNCHANGED <<https, cancel, conn, reply, faults, proxyVars>>

\* The HTTP engine looks at sock after it: the tunnel failed, or the query.
BackNoTunnel ==
    /\ pc = "back" /\ ~cancel
    /\ kind = "http" /\ sock = NoFd
    /\ pc' = "deliver"
    /\ UNCHANGED <<https, cancel, conn, reply, faults, proxyVars>>

Back ==
    /\ pc = "back" /\ ~cancel
    /\ kind = "http" => sock # NoFd
    /\ pc' = "judge"
    /\ UNCHANGED <<https, cancel, conn, reply, faults, proxyVars>>

JudgeForeign ==
    /\ pc = "judge" /\ answer = Foreign
    /\ pc' = "dead"
    /\ UNCHANGED <<https, cancel, conn, reply, faults, proxyVars>>

Judge ==
    /\ pc = "judge" /\ answer # Foreign
    /\ out' = [kind |-> "result", named |-> named, status |-> answer]
    /\ pc' = "close"
    /\ UNCHANGED <<https, cancel, conn, reply, faults, kind, engine, row, calls, sent>>

\* The checks made while the output is filled in: what is in it is returned.
CloseCancelled ==
    /\ pc = "close" /\ cancel
    /\ GiveBack
    /\ UNCHANGED <<https, cancel, sock, ssl, reply, proxyVars>>

\* Mutant of CloseHttp: the second close is gone, and with it the only one of
\* a plain connection.
CloseHttpOnce ==
    /\ pc = "close" /\ ~cancel /\ kind = "http"
    /\ IF https THEN Release ELSE UNCHANGED <<fds, tls, faults>>
    /\ pc' = "deliver"
    /\ UNCHANGED <<https, cancel, sock, ssl, reply, proxyVars>>

\* Over HTTPS the descriptor is closed with the SSL object, and then again.
CloseHttp ==
    /\ pc = "close" /\ ~cancel /\ kind = "http"
    /\ ReleaseAfter(IF https /\ ssl # "null" THEN {"staleFd"} ELSE {})
    /\ pc' = "deliver"
    /\ UNCHANGED <<https, cancel, sock, ssl, reply, proxyVars>>

\* Mutant of CloseSocks: the descriptor is closed twice, as in CloseHttp.
CloseSocksTwice ==
    /\ pc = "close" /\ ~cancel /\ kind = "socks"
    /\ ReleaseAfter(ShutdownFault \cup {"staleFd"})
    /\ pc' = "deliver"
    /\ UNCHANGED <<https, cancel, sock, ssl, reply, proxyVars>>

\* Over plain HTTP too the SSL member is shut down and freed.
CloseSocks ==
    /\ pc = "close" /\ ~cancel /\ kind = "socks"
    /\ ReleaseAfter(ShutdownFault)
    /\ AfterRelease(ShutdownFault)
    /\ UNCHANGED <<https, cancel, sock, ssl, reply, proxyVars>>

(***************************************************************************)
(* SendAsync: the row, and the engine destroyed.                           *)
(***************************************************************************)
Deliver ==
    /\ pc = "deliver" /\ pc' = "idle"
    /\ row' = out /\ engine' = FALSE
    /\ UNCHANGED <<https, cancel, conn, reply, faults, kind, out, calls, sent>>

Cancel ==
    /\ pc \notin {"idle", "dead"} /\ ~cancel
    /\ cancel' = TRUE
    /\ UNCHANGED <<pc, https, conn, reply, faults, proxyVars>>

Finished ==
    /\ pc = "dead" \/ (pc = "idle" /\ calls = MaxCalls)
    /\ UNCHANGED vars

Step ==
    \/ Begin \/ TunnelOpen \/ TunnelFails \/ HandshakeDone \/ HandshakeFails
    \/ GateCancelled \/ GateNoTunnel \/ Gate \/ Query
    \/ BackCancelled \/ BackNoTunnel \/ Back \/ JudgeForeign \/ Judge
    \/ CloseCancelled \/ CloseHttp \/ CloseSocks \/ Deliver

Next == Step \/ Cancel \/ Finished

Spec == Init /\ [][Next]_vars /\ WF_vars(Step /\ ~SilentTlsPeer)

(***************************************************************************)
(* Properties.                                                             *)
(***************************************************************************)
InCall == pc \notin {"idle", "dead"}

\* Whatever fails and whenever the flag is set, what the two engines acquire
\* for a call is given back when its row is delivered.
AllReleased == pc = "idle" => fds = {} /\ tls = 0 /\ ~engine

\* A descriptor is closed twice only by the HTTP engine, at the end of an
\* HTTPS call; an SSL pointer that names nothing is used only by the SOCKS
\* engine, at the end of a plain call; a null one is never used by the HTTP
\* engine unless the call is cancelled.
MisuseConfined ==
    /\ "staleFd" \in faults => kind = "http" /\ https
    /\ "badTls" \in faults => kind = "socks" /\ ~https
    /\ pc = "dead" /\ kind = "http" => answer = Foreign \/ cancel

\* A query that was sent gives a row with a result unless the flag intervenes.
\* The HTTP engine makes a result of no other; the SOCKS engine also makes one,
\* with no status, of a query that could not be sent.
ResultMeansSent ==
    pc = "idle" /\ calls > 0 =>
        /\ sent /\ ~cancel => row.kind = "result"
        /\ row.kind = "result" /\ ~sent => kind = "socks" /\ row.status = Unknown

\* A call returns unless the target stays silent over TLS; one cancelled at
\* any point returns even then.
Returns ==
    /\ InCall ~> (~InCall \/ []SilentTlsPeer)
    /\ InCall /\ cancel ~> ~InCall

(***************************************************************************)
(* How far the engines implement the contract of a scan call.              *)
(***************************************************************************)
Phase == IF InCall THEN "busy" ELSE pc

\* The queries of the call that came back, and the row as a list counts it.
Returned == IF sent /\ pc # "read" THEN 1 ELSE 0
Counted == [row EXCEPT !.kind = IF row.kind = "result" THEN "scanned" ELSE "halted"]

Contract == INSTANCE ScanContract WITH
    Handles <- Fd, Statuses <- Codes \cup {Unknown},
    phase <- Phase, held <- fds, queries <- Returned, renewed <- FALSE,
    row <- Counted

\* What the contract has no step for: a result, with no status, of a query
\* that could not be sent.
BlindRow ==
    /\ Deliver /\ kind = "socks" /\ ~sent /\ fds = {}
    /\ row'.kind = "result" /\ row'.status = Unknown

\* Every call of the HTTP engine is one call of the contract, with one query
\* at most, and so is every call of the SOCKS engine but for its BlindRow.
ImplementsContract ==
    Contract!Init /\ [][Contract!Next \/ BlindRow]_(Contract!vars)
==============================================================================
