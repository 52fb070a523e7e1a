------------------------------ MODULE Transport ------------------------------
(***************************************************************************)
(* Native_CPP_build/Generic_Module: the connection a scan engine holds and *)
(* GenericInterface::interface_scan, the query every engine runs over it.  *)
(*                                                                         *)
(* An engine's call is a sequence of control points, pc.  A blocking call  *)
(* of the C library is one step with one action per outcome.  The engine   *)
(* keeps a descriptor (sock) and a TLS object (ssl); fds and tls count     *)
(* what it has really acquired from the kernel and from OpenSSL, so that a *)
(* variable and the thing it names can disagree.                           *)
(*                                                                         *)
(* cancel is the cell *cancel_flag of the extern "C" interface, which the  *)
(* engine reads again at every check: the model lets it become TRUE        *)
(* between any two steps of a call, as that interface allows.              *)
(***************************************************************************)
EXTENDS Integers, FiniteSets

CONSTANTS
    Fd,        \* descriptors the process may hold at once (its limit)
    NoFd,      \* the value -1 of a descriptor variable
    Codes,     \* HTTP status codes a peer may answer
    BufUnits   \* the 65535 usable bytes of buff, in receive units

\* What extract_status_from_buffer returns when it finds no code, and header
\* bytes in which it finds no "HTTP/" at all.
Unknown == -1
Foreign == -2

ASSUME TransportAssumption ==
    /\ NoFd \notin Fd
    /\ Codes \subseteq 0..999
    /\ BufUnits \in Nat \ {0}

VARIABLES
    pc,      \* control point of the call in progress
    https,   \* proto_port is "443"
    cancel,  \* *cancel_flag
    sock,    \* the engine's descriptor variable
    fds,     \* descriptors acquired and not closed
    ssl,     \* the engine's SSL*: "null", "live", "stale" or "wild"
    tls,     \* SSL objects allocated and not freed
    got,     \* units of the reply received so far
    answer,  \* what the reply's header block says, as a status
    named,   \* GenericStruct.domain is filled in
    faults   \* misuses of a descriptor or of a TLS object so far

conn == <<sock, fds, ssl, tls>>
reply == <<got, answer, named>>

Answers == Codes \cup {Unknown, Foreign}
Pointers == {"null", "live", "stale", "wild"}
Faults == {"staleFd", "badTls", "nullTls"}

TransportType ==
    /\ https \in BOOLEAN /\ cancel \in BOOLEAN /\ named \in BOOLEAN
    /\ sock \in Fd \cup {NoFd} /\ fds \subseteq Fd
    /\ ssl \in Pointers /\ tls \in Nat
    /\ got \in 0..BufUnits /\ answer \in Answers
    /\ faults \subseteq Faults

(***************************************************************************)
(* Acquiring and giving back.                                              *)
(***************************************************************************)

\* A descriptor the kernel may hand out, now held in sock.
OpenSock ==
    \E f \in Fd \ fds : sock' = f /\ fds' = fds \cup {f}

CloseFault == IF sock \in fds \cup {NoFd} THEN {} ELSE {"staleFd"}
FreeFault == IF ssl \in {"null", "live"} THEN {} ELSE {"badTls"}

\* SSL_shutdown and SSL_free of the TLS object of an HTTPS connection, then
\* close of the descriptor: the block every early return repeats.
ReleaseAfter(misuse) ==
    /\ tls' = IF https /\ ssl = "live" THEN tls - 1 ELSE tls
    /\ fds' = fds \ {sock}
    /\ faults' = faults \cup misuse \cup CloseFault \cup (IF https THEN FreeFault ELSE {})

Release == ReleaseAfter({})

\* Mutant of ForgetBoth: sock and ssl passed by value.
KeepBoth == UNCHANGED <<sock, ssl>>

\* The callee's variables are the caller's (int &sock, SSL *&ssl): nulling
\* them here is what keeps the caller from closing a second time.
ForgetBoth ==
    /\ sock' = NoFd
    /\ ssl' = IF https THEN "null" ELSE ssl

(***************************************************************************)
(* interface_scan, entered at "query"; k is where the engine goes on.      *)
(***************************************************************************)

\* Mutant of QueryCancelled: the flag is not looked at in the read loop.
QueryCancelledEarly(k) ==
    /\ pc = "query" /\ cancel
    /\ Release /\ ForgetBoth
    /\ answer' = Unknown /\ named' = FALSE
    /\ pc' = k
    /\ UNCHANGED <<https, cancel, got>>

\* One of the cancel checks fires: release and return an empty struct.
QueryCancelled(k) ==
    /\ pc \in {"query", "read"} /\ cancel
    /\ Release /\ ForgetBoth
    /\ answer' = Unknown /\ named' = FALSE
    /\ pc' = k
    /\ UNCHANGED <<https, cancel, got>>

\* Mutant of QueryUnsent: the struct returned is empty.
QueryUnsentEmpty(k) ==
    /\ pc = "query" /\ ~cancel
    /\ ReleaseAfter(IF https /\ ssl = "null" THEN {"nullTls"} ELSE {})
    /\ ForgetBoth
    /\ answer' = Unknown /\ named' = FALSE
    /\ pc' = k
    /\ UNCHANGED <<https, cancel, got>>

\* The request cannot be written (a broken connection, or none: sock is -1
\* or ssl is null): release and return a struct with the domain alone.
QueryUnsent(k) ==
    /\ pc = "query" /\ ~cancel
    /\ ReleaseAfter(IF https /\ ssl = "null" THEN {"nullTls"} ELSE {})
    /\ ForgetBoth
    /\ answer' = Unknown /\ named' = TRUE
    /\ pc' = k
    /\ UNCHANGED <<https, cancel, got>>

\* SSL_write on a null SSL* dereferences it in the OpenSSL versions that do
\* not test for it: the process dies.
QueryOnNull ==
    /\ pc = "query" /\ ~cancel /\ https /\ ssl = "null"
    /\ pc' = "dead"
    /\ UNCHANGED <<https, cancel, conn, reply, faults>>

QuerySent ==
    /\ pc = "query" /\ ~cancel
    /\ sock \in fds /\ (https => ssl = "live")
    /\ got' = 0 /\ answer' = Unknown /\ named' = TRUE
    /\ pc' = "read"
    /\ UNCHANGED <<https, cancel, conn, faults>>

\* Mutant of ReadPart: the loop does not stop at a full buffer.
ReadPartUncapped(k) ==
    /\ pc = "read" /\ ~cancel
    /\ got' = got + 1
    /\ UNCHANGED <<pc, https, cancel, conn, answer, named, faults>>

\* Mutant of ReadPart: a full buffer is filled again from its start.
ReadPartWraps(k) ==
    /\ pc = "read" /\ ~cancel
    /\ got' = (got + 1) % BufUnits
    /\ UNCHANGED <<pc, https, cancel, conn, answer, named, faults>>

\* A segment without the blank line that ends the headers; the loop also
\* ends when the buffer is full.
ReadPart(k) ==
    /\ pc = "read" /\ ~cancel
    /\ got' = got + 1
    /\ pc' = IF got' = BufUnits THEN k ELSE "read"
    /\ UNCHANGED <<https, cancel, conn, answer, named, faults>>

\* The blank line is in the buffer: the header block is copied out.
ReadHeaders(k) ==
    /\ pc = "read" /\ ~cancel
    /\ answer' \in Answers
    /\ pc' = k
    /\ UNCHANGED <<https, cancel, conn, got, named, faults>>

\* The peer closes, the read fails or, over plain TCP, SO_RCVTIMEO expires.
\* Over TLS an expired timeout is SSL_ERROR_WANT_READ: the loop sleeps and
\* reads again, which changes nothing.
ReadEnd(k) ==
    /\ pc = "read" /\ ~cancel
    /\ pc' = k
    /\ UNCHANGED <<https, cancel, conn, reply, faults>>

InterfaceScan(k) ==
    \/ QueryCancelled(k) \/ QueryUnsent(k) \/ QueryOnNull \/ QuerySent
    \/ ReadPart(k) \/ ReadHeaders(k) \/ ReadEnd(k)

\* Nothing in the code bounds this wait: the peer is silent over TLS.
SilentTlsPeer == pc = "read" /\ https /\ ~cancel
==============================================================================
