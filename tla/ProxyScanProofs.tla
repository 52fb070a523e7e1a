--------------------------- MODULE ProxyScanProofs ---------------------------
(***************************************************************************)
(* Theorems about ProxyScan: the HTTP and the SOCKS proxy engine, for any  *)
(* descriptors, codes, buffer and wordlist.                                *)
(***************************************************************************)
EXTENDS ProxyScan, TLAPS

(***************************************************************************)
(* The inductive invariant.  The engines give back what they hold in six   *)
(* places and keep the names of it in five, so what is held at each        *)
(* control point has to be said beside the names; and what a row says      *)
(* follows from what each control point has seen of the query.             *)
(***************************************************************************)

TypeOK ==
    /\ TransportType
    /\ kind \in {"http", "socks"} /\ out \in Outputs /\ row \in Outputs
    /\ calls \in 0..MaxCalls /\ sent \in BOOLEAN

\* A connection as the engine's variables name it.  Before SSL_new the member
\* is what the constructor left; after a query that failed it is null.
Held ==
    /\ fds = {sock} \ {NoFd}
    /\ https => \/ ssl = "live" /\ tls = 1 /\ sock # NoFd
                \/ ssl = "null" /\ tls = 0
    /\ ~https => ssl \in {"null", "wild"} /\ tls = 0

Connected == {"gate", "query", "read", "back", "judge", "close"}

Ledger ==
    /\ pc \in {"idle", "tunnel", "deliver"} => fds = {} /\ tls = 0
    /\ pc \in {"tunnel", "handshake"} => ssl \in {"null", "wild"}
    /\ pc = "handshake" => https /\ fds = {sock} \ {NoFd} /\ tls = 0
    /\ pc \in Connected => Held
    /\ pc \in {"gate", "query", "read"} /\ https => ssl = "live"
    /\ pc = "read" => sock # NoFd /\ got < BufUnits
    /\ engine <=> pc # "idle"

\* What the output o says of the query.
FromQuery(o) ==
    /\ sent /\ ~cancel => o.kind = "result"
    /\ o.kind = "result" /\ ~sent => kind = "socks" /\ o.status = Unknown

History ==
    /\ pc \in {"tunnel", "handshake", "gate", "query", "read", "back", "judge"} => out = Junk
    /\ pc \in {"tunnel", "handshake", "gate", "query"} => ~sent
    /\ pc = "read" => sent
    /\ pc \in {"back", "judge"} /\ ~cancel =>
           IF sent THEN sock # NoFd ELSE sock = NoFd /\ answer = Unknown
    /\ pc = "judge" => sent \/ (kind = "socks" /\ answer = Unknown)
    /\ pc \in {"close", "deliver"} => FromQuery(out)
    /\ pc = "idle" /\ calls > 0 => FromQuery(row)

Inv == TypeOK /\ Ledger /\ MisuseConfined /\ History

(***************************************************************************)
(* Facts used by several cases.                                            *)
(***************************************************************************)

\* The release block gives back all that is held, and over HTTPS frees no
\* pointer that names nothing.
LEMMA Released ==
    ASSUME NEW m, Held, ReleaseAfter(m)
    PROVE  tls' = 0 /\ fds' = {} /\ faults' = faults \cup m
<1>1. tls' = 0
  BY DEF ReleaseAfter, Held
<1>2. fds' = {}
  BY DEF ReleaseAfter, Held
<1>3. CloseFault = {} /\ (https => FreeFault = {})
  BY DEF CloseFault, FreeFault, Held
<1>4. faults' = faults \cup m
  BY <1>3 DEF ReleaseAfter
<1>5. QED
  BY <1>1, <1>2, <1>4

\* The five places that give back and keep the names.
GivingBack == GateCancelled \/ BackCancelled \/ CloseCancelled \/ CloseHttp \/ CloseSocks

\* After any of them nothing is held; a descriptor is closed twice only at the
\* HTTP engine's end, a wild pointer freed only at the SOCKS engine's, and the
\* process dies of one only there or of a null one in a cancelled call.
LEMMA Given ==
    ASSUME Inv, GivingBack
    PROVE  /\ tls' = 0 /\ fds' = {} /\ pc' \in {"deliver", "dead"}
           /\ pc \in {"gate", "back", "close"}
           /\ pc \in {"gate", "back"} => cancel
           /\ UNCHANGED <<https, cancel, sock, ssl, got, answer, named,
                          kind, engine, out, row, calls, sent>>
           /\ \E m \in SUBSET Faults :
                 /\ faults' = faults \cup m
                 /\ "staleFd" \in m => kind = "http" /\ https
                 /\ "badTls" \in m => kind = "socks" /\ ~https
           /\ pc' = "dead" => kind = "socks" \/ cancel
<1> USE DEF GivingBack
<1>1. Held
  BY DEF Inv, Ledger, Connected, GateCancelled, BackCancelled, CloseCancelled, CloseHttp,
     CloseSocks
<1>2. UNCHANGED <<https, cancel, sock, ssl, got, answer, named,
                  kind, engine, out, row, calls, sent>>
  BY DEF GateCancelled, BackCancelled, CloseCancelled, CloseHttp, CloseSocks, reply, proxyVars
<1>3. /\ https => ShutdownFault \subseteq {"nullTls"}
      /\ ~https => ShutdownFault \subseteq {"nullTls", "badTls"}
  BY <1>1 DEF ShutdownFault, FreeFault, Held
<1>4. CASE GateCancelled \/ BackCancelled \/ CloseCancelled
  <2>1. GiveBack /\ cancel /\ pc \in {"gate", "back", "close"}
    BY <1>4 DEF GateCancelled, BackCancelled, CloseCancelled
  <2> DEFINE m == IF https THEN ShutdownFault ELSE {}
  <2>2. ReleaseAfter(m) /\ pc' \in {"deliver", "dead"}
    BY <2>1 DEF GiveBack, AfterRelease
  <2>3. m \subseteq {"nullTls"}
    BY <1>3
  <2>4. tls' = 0 /\ fds' = {} /\ faults' = faults \cup m
    BY <1>1, <2>2, Released
  <2>5. QED
    BY <1>2, <2>1, <2>2, <2>3, <2>4 DEF Faults
<1>5. CASE CloseHttp
  <2> DEFINE m == IF https /\ ssl # "null" THEN {"staleFd"} ELSE {}
  <2>1. ReleaseAfter(m) /\ pc = "close" /\ pc' = "deliver" /\ kind = "http"
    BY <1>5 DEF CloseHttp
  <2>2. tls' = 0 /\ fds' = {} /\ faults' = faults \cup m
    BY <1>1, <2>1, Released
  <2>3. QED
    BY <1>2, <2>1, <2>2 DEF Faults
<1>6. CASE CloseSocks
  <2>1. /\ ReleaseAfter(ShutdownFault) /\ AfterRelease(ShutdownFault)
        /\ pc = "close" /\ kind = "socks"
    BY <1>6 DEF CloseSocks
  <2>2. tls' = 0 /\ fds' = {} /\ faults' = faults \cup ShutdownFault
    BY <1>1, <2>1, Released
  <2>3. pc' \in {"deliver", "dead"}
    BY <2>1 DEF AfterRelease
  <2>4. QED
    BY <1>2, <1>3, <2>1, <2>2, <2>3 DEF Faults
<1>7. QED
  BY <1>4, <1>5, <1>6

\* A query that is cancelled or cannot be sent gives back all and names
\* nothing afterwards: the caller's variables are the callee's.
LEMMA Unsent ==
    ASSUME Inv, QueryCancelled("back") \/ QueryUnsent("back")
    PROVE  /\ tls' = 0 /\ fds' = {} /\ faults' = faults
           /\ sock' = NoFd /\ ssl' = IF https THEN "null" ELSE ssl
<1>1. Held /\ (https => ssl = "live")
  BY DEF Inv, Ledger, Connected, QueryCancelled, QueryUnsent
<1>2. ReleaseAfter({})
  BY <1>1 DEF QueryCancelled, QueryUnsent, Release
<1>3. sock' = NoFd /\ ssl' = IF https THEN "null" ELSE ssl
  BY DEF QueryCancelled, QueryUnsent, ForgetBoth
<1>4. QED
  BY <1>1, <1>2, <1>3, Released

(***************************************************************************)
(* Each part of the invariant is preserved, one case per action.           *)
(***************************************************************************)

\* The invariant holds before the first call.
LEMMA InitInv == Init => Inv
<1> SUFFICES ASSUME Init PROVE Inv
  OBVIOUS
<1> USE DEF Init
<1>1. TypeOK
  <2>1. TransportType
    <3>1. got \in 0..BufUnits /\ answer \in Answers
      BY TransportAssumption DEF Answers
    <3>2. QED
      BY <3>1 DEF TransportType, Pointers
  <2>2. out \in Outputs /\ row \in Outputs
    BY DEF Outputs, Junk
  <2>3. calls \in 0..MaxCalls
    BY ProxyScanAssumption
  <2>4. sent \in BOOLEAN
    OBVIOUS
  <2>5. QED
    BY <2>1, <2>2, <2>3, <2>4 DEF TypeOK
<1>2. Ledger /\ MisuseConfined
  BY DEF Ledger, MisuseConfined, Connected
<1>3. History
  BY DEF History
<1>4. QED
  BY <1>1, <1>2, <1>3 DEF Inv

\* Types: an SSL object is freed only while one is held, and no read is made
\* of a full buffer.
LEMMA TypeStep == ASSUME Inv, [Next]_vars PROVE TypeOK'
<1> USE TransportAssumption DEF Inv, TypeOK, TransportType
<1>1. CASE Begin
  <2>1. TransportType'
    BY <1>1 DEF Begin, Pointers, reply
  <2>2. out' \in Outputs /\ UNCHANGED <<kind, row>>
    BY <1>1 DEF Begin, Outputs, Junk
  <2>3. calls' \in 0..MaxCalls
    BY <1>1, ProxyScanAssumption DEF Begin
  <2>4. sent' \in BOOLEAN
    BY <1>1 DEF Begin
  <2>5. QED
    BY <2>1, <2>2, <2>3, <2>4
<1>2. CASE TunnelOpen
  BY <1>2 DEF TunnelOpen, OpenSock, reply, proxyVars
<1>3. CASE TunnelFails
  BY <1>3 DEF TunnelFails, reply, proxyVars
<1>4. CASE HandshakeDone
  BY <1>4 DEF HandshakeDone, reply, proxyVars, Pointers
<1>5. CASE HandshakeFails
  BY <1>5 DEF HandshakeFails, CloseFault, Ledger, Pointers, reply, proxyVars
<1>6. CASE GivingBack
  BY <1>6, Given
<1>7. CASE GateNoTunnel
  BY <1>7 DEF GateNoTunnel, conn, reply, proxyVars
<1>8. CASE Gate
  BY <1>8 DEF Gate, conn, reply, proxyVars
<1>9. CASE Query
  <2>1. CASE QueryCancelled("back")
    <3>1. answer' \in Answers /\ named' = FALSE /\ UNCHANGED <<https, cancel, got>>
      BY <2>1 DEF QueryCancelled, Answers
    <3>2. /\ UNCHANGED <<kind, out, row, calls>>
          /\ sent' \in BOOLEAN
      BY <1>9 DEF Query
    <3>3. /\ tls' = 0 /\ fds' = {} /\ faults' = faults
          /\ sock' = NoFd /\ ssl' = IF https THEN "null" ELSE ssl
      BY <2>1, Unsent
    <3>4. TransportType'
      BY <3>1, <3>3, ZenonT(30) DEF Pointers
    <3>5. QED
      BY <3>2, <3>4
  <2>2. CASE QueryUnsent("back")
    BY <1>9, <2>2, Unsent DEF Query, QueryUnsent, Pointers, Answers
  <2>3. CASE QueryOnNull
    BY <1>9, <2>3 DEF Query, QueryOnNull, conn, reply
  <2>4. CASE QuerySent
    BY <1>9, <2>4 DEF Query, QuerySent, conn, Answers
  <2>5. CASE ReadPart("back")
    BY <1>9, <2>5 DEF Query, ReadPart, conn, Ledger
  <2>6. CASE ReadHeaders("back")
    BY <1>9, <2>6 DEF Query, ReadHeaders, conn
  <2>7. CASE ReadEnd("back")
    BY <1>9, <2>7 DEF Query, ReadEnd, conn, reply
  <2>8. QED
    BY <1>9, <2>1, <2>2, <2>3, <2>4, <2>5, <2>6, <2>7 DEF Query, InterfaceScan
<1>10. CASE BackNoTunnel
  BY <1>10 DEF BackNoTunnel, conn, reply, proxyVars
<1>11. CASE Back
  BY <1>11 DEF Back, conn, reply, proxyVars
<1>12. CASE JudgeForeign
  BY <1>12 DEF JudgeForeign, conn, reply, proxyVars
<1>13. CASE Judge
  BY <1>13 DEF Judge, conn, reply, Outputs, Answers
<1>14. CASE Deliver
  BY <1>14 DEF Deliver, conn, reply
<1>15. CASE Cancel
  BY <1>15 DEF Cancel, conn, reply, proxyVars
<1>16. CASE UNCHANGED vars
  BY <1>16 DEF vars
<1>17. QED
  BY <1>1, <1>2, <1>3, <1>4, <1>5, <1>6, <1>7, <1>8, <1>9, <1>10, <1>11, <1>12,
     <1>13, <1>14, <1>15, <1>16 DEF Next, Step, Finished, GivingBack

\* What is acquired is what each control point may hold.
LEMMA LedgerStep == ASSUME Inv, [Next]_vars PROVE Ledger'
<1> USE TransportAssumption DEF Inv, TypeOK, TransportType, Ledger, Connected, Held
<1>1. CASE Begin
  BY <1>1 DEF Begin, reply
<1>2. CASE TunnelOpen
  BY <1>2 DEF TunnelOpen, OpenSock, reply, proxyVars
<1>3. CASE TunnelFails
  BY <1>3 DEF TunnelFails, reply, proxyVars
<1>4. CASE HandshakeDone
  BY <1>4 DEF HandshakeDone, reply, proxyVars
<1>5. CASE HandshakeFails
  BY <1>5 DEF HandshakeFails, reply, proxyVars
<1>6. CASE GivingBack
  BY <1>6, Given
<1>7. CASE GateNoTunnel
  BY <1>7 DEF GateNoTunnel, conn, reply, proxyVars
<1>8. CASE Gate
  BY <1>8 DEF Gate, conn, reply, proxyVars
<1>9. CASE Query
  <2>1. CASE QueryCancelled("back")
    <3>1. https' = https /\ pc' = "back" /\ engine' = engine /\ pc # "idle"
      BY <1>9, <2>1 DEF Query, QueryCancelled
    <3>2. ~https => ssl \in {"null", "wild"}
      BY <2>1 DEF QueryCancelled
    <3>3. QED
      BY <2>1, <3>1, <3>2, Unsent
  <2>2. CASE QueryUnsent("back")
    BY <1>9, <2>2, Unsent DEF Query, QueryUnsent
  <2>3. CASE QueryOnNull
    BY <1>9, <2>3 DEF Query, QueryOnNull, conn, reply
  <2>4. CASE QuerySent
    BY <1>9, <2>4 DEF Query, QuerySent, conn
  <2>5. CASE ReadPart("back")
    BY <1>9, <2>5 DEF Query, ReadPart, conn
  <2>6. CASE ReadHeaders("back")
    BY <1>9, <2>6 DEF Query, ReadHeaders, conn
  <2>7. CASE ReadEnd("back")
    BY <1>9, <2>7 DEF Query, ReadEnd, conn, reply
  <2>8. QED
    BY <1>9, <2>1, <2>2, <2>3, <2>4, <2>5, <2>6, <2>7 DEF Query, InterfaceScan
<1>10. CASE BackNoTunnel
  BY <1>10 DEF BackNoTunnel, conn, reply, proxyVars
<1>11. CASE Back
  BY <1>11 DEF Back, conn, reply, proxyVars
<1>12. CASE JudgeForeign
  BY <1>12 DEF JudgeForeign, conn, reply, proxyVars
<1>13. CASE Judge
  BY <1>13 DEF Judge, conn, reply
<1>14. CASE Deliver
  BY <1>14 DEF Deliver, conn, reply
<1>15. CASE Cancel
  BY <1>15 DEF Cancel, conn, reply, proxyVars
<1>16. CASE UNCHANGED vars
  BY <1>16 DEF vars
<1>17. QED
  BY <1>1, <1>2, <1>3, <1>4, <1>5, <1>6, <1>7, <1>8, <1>9, <1>10, <1>11, <1>12,
     <1>13, <1>14, <1>15, <1>16 DEF Next, Step, Finished, GivingBack

\* Who misuses a handle, and what the HTTP engine dies of.
LEMMA MisuseStep == ASSUME Inv, [Next]_vars PROVE MisuseConfined'
<1> USE DEF Inv, MisuseConfined
<1>1. CASE Begin
  BY <1>1 DEF Begin, Ledger, reply
<1>2. CASE TunnelOpen
  BY <1>2 DEF TunnelOpen, OpenSock, reply, proxyVars
<1>3. CASE TunnelFails
  BY <1>3 DEF TunnelFails, reply, proxyVars
<1>4. CASE HandshakeDone
  BY <1>4 DEF HandshakeDone, reply, proxyVars
<1>5. CASE HandshakeFails
  BY <1>5 DEF HandshakeFails, Ledger, CloseFault, reply, proxyVars
<1>6. CASE GivingBack
  BY <1>6, Given
<1>7. CASE GateNoTunnel
  BY <1>7 DEF GateNoTunnel, conn, reply, proxyVars
<1>8. CASE Gate
  BY <1>8 DEF Gate, conn, reply, proxyVars
<1>9. CASE Query
  <2>1. CASE QueryCancelled("back")
    BY <1>9, <2>1, Unsent DEF Query, QueryCancelled
  <2>2. CASE QueryUnsent("back")
    BY <1>9, <2>2, Unsent DEF Query, QueryUnsent
  <2>3. CASE QueryOnNull
    BY <1>9, <2>3 DEF Query, QueryOnNull, conn, reply, Ledger
  <2>4. CASE QuerySent
    BY <1>9, <2>4 DEF Query, QuerySent, conn
  <2>5. CASE ReadPart("back")
    BY <1>9, <2>5 DEF Query, ReadPart, conn
  <2>6. CASE ReadHeaders("back")
    BY <1>9, <2>6 DEF Query, ReadHeaders, conn
  <2>7. CASE ReadEnd("back")
    BY <1>9, <2>7 DEF Query, ReadEnd, conn, reply
  <2>8. QED
    BY <1>9, <2>1, <2>2, <2>3, <2>4, <2>5, <2>6, <2>7 DEF Query, InterfaceScan
<1>10. CASE BackNoTunnel
  BY <1>10 DEF BackNoTunnel, conn, reply, proxyVars
<1>11. CASE Back
  BY <1>11 DEF Back, conn, reply, proxyVars
<1>12. CASE JudgeForeign
  BY <1>12 DEF JudgeForeign, conn, reply, proxyVars
<1>13. CASE Judge
  BY <1>13 DEF Judge, conn, reply
<1>14. CASE Deliver
  BY <1>14 DEF Deliver, conn, reply
<1>15. CASE Cancel
  BY <1>15 DEF Cancel, conn, reply, proxyVars
<1>16. CASE UNCHANGED vars
  BY <1>16 DEF vars
<1>17. QED
  BY <1>1, <1>2, <1>3, <1>4, <1>5, <1>6, <1>7, <1>8, <1>9, <1>10, <1>11, <1>12,
     <1>13, <1>14, <1>15, <1>16 DEF Next, Step, Finished, GivingBack

\* What the output says of the query.
LEMMA HistoryStep == ASSUME Inv, [Next]_vars PROVE History'
<1> USE TransportAssumption DEF Inv, TypeOK, TransportType, History, FromQuery, Junk, Unknown
<1>1. CASE Begin
  BY <1>1 DEF Begin, reply
<1>2. CASE TunnelOpen
  BY <1>2 DEF TunnelOpen, OpenSock, reply, proxyVars
<1>3. CASE TunnelFails
  BY <1>3 DEF TunnelFails, reply, proxyVars
<1>4. CASE HandshakeDone
  BY <1>4 DEF HandshakeDone, reply, proxyVars
<1>5. CASE HandshakeFails
  BY <1>5 DEF HandshakeFails, reply, proxyVars
<1>6. CASE GivingBack
  BY <1>6, Given
<1>7. CASE GateNoTunnel
  BY <1>7 DEF GateNoTunnel, conn, reply, proxyVars
<1>8. CASE Gate
  BY <1>8 DEF Gate, conn, reply, proxyVars
<1>9. CASE Query
  <2>1. CASE QueryCancelled("back")
    BY <1>9, <2>1, Unsent DEF Query, QueryCancelled
  <2>2. CASE QueryUnsent("back")
    BY <1>9, <2>2, Unsent DEF Query, QueryUnsent
  <2>3. CASE QueryOnNull
    BY <1>9, <2>3 DEF Query, QueryOnNull, conn, reply
  <2>4. CASE QuerySent
    BY <1>9, <2>4 DEF Query, QuerySent, conn
  <2>5. CASE ReadPart("back")
    <3>1. /\ pc = "read" /\ pc' \in {"read", "back"} /\ sent' = (sent \/ pc' = "read")
          /\ UNCHANGED <<sock, cancel, answer, kind, out>>
      BY <1>9, <2>5 DEF Query, ReadPart, conn
    <3>2. sent = TRUE /\ sent' = TRUE
      BY <3>1
    <3>3. QED
      BY <3>1, <3>2 DEF Ledger
  <2>6. CASE ReadHeaders("back")
    BY <1>9, <2>6, ZenonT(30) DEF Query, ReadHeaders, conn, Ledger
  <2>7. CASE ReadEnd("back")
    BY <1>9, <2>7, ZenonT(30) DEF Query, ReadEnd, conn, reply, Ledger
  <2>8. QED
    BY <1>9, <2>1, <2>2, <2>3, <2>4, <2>5, <2>6, <2>7 DEF Query, InterfaceScan
<1>10. CASE BackNoTunnel
  BY <1>10 DEF BackNoTunnel, conn, reply, proxyVars
<1>11. CASE Back
  <2>1. /\ pc = "back" /\ pc' = "judge" /\ ~cancel /\ (kind = "http" => sock # NoFd)
        /\ UNCHANGED <<sock, answer, kind, out, sent>>
    BY <1>11 DEF Back, conn, reply, proxyVars
  <2>2. sent \/ (kind = "socks" /\ answer = Unknown)
    <3>1. kind \in {"http", "socks"}
      OBVIOUS
    <3>2. IF sent THEN sock # NoFd ELSE sock = NoFd /\ answer = Unknown
      BY <2>1
    <3>3. QED
      BY <2>1, <3>1, <3>2
  <2>3. out' = Junk /\ cancel' = cancel
    BY <1>11, <2>1 DEF Back
  <2>4. QED
    BY <2>1, <2>2, <2>3
<1>12. CASE JudgeForeign
  BY <1>12 DEF JudgeForeign, conn, reply, proxyVars
<1>13. CASE Judge
  BY <1>13 DEF Judge, conn, reply
<1>14. CASE Deliver
  BY <1>14 DEF Deliver, conn, reply
<1>15. CASE Cancel
  BY <1>15 DEF Cancel, conn, reply, proxyVars
<1>16. CASE UNCHANGED vars
  BY <1>16 DEF vars
<1>17. QED
  BY <1>1, <1>2, <1>3, <1>4, <1>5, <1>6, <1>7, <1>8, <1>9, <1>10, <1>11, <1>12,
     <1>13, <1>14, <1>15, <1>16 DEF Next, Step, Finished, GivingBack

\* The strengthened invariant of the proxy engines.
THEOREM InvHolds == Spec => []Inv
<1>1. Inv /\ [Next]_vars => Inv'
  BY TypeStep, LedgerStep, MisuseStep, HistoryStep DEF Inv
<1>2. QED
  BY InitInv, <1>1, PTL DEF Spec

(***************************************************************************)
(* What it gives.                                                          *)
(***************************************************************************)

\* Every variable of the proxy engines keeps its type.
THEOREM TypeCorrect == Spec => []TypeOK
<1>1. Inv => TypeOK
  BY DEF Inv
<1>2. QED
  BY <1>1, InvHolds, PTL

\* A delivered row leaves no descriptor, SSL object or native engine behind.
THEOREM ReleaseCorrect == Spec => []AllReleased
<1>1. Inv => AllReleased
  BY DEF Inv, Ledger, AllReleased
<1>2. QED
  BY <1>1, InvHolds, PTL

\* Handles are misused in two places only, and the HTTP engine dies only of a
\* foreign answer or in a cancelled call.
THEOREM MisuseCorrect == Spec => []MisuseConfined
<1>1. Inv => MisuseConfined
  BY DEF Inv
<1>2. QED
  BY <1>1, InvHolds, PTL

\* A row of a call that was not cancelled is a result when the query was sent,
\* and without one only from the SOCKS engine and with no status.
THEOREM ResultCorrect == Spec => []ResultMeansSent
<1>1. Inv => ResultMeansSent
  BY DEF Inv, History, FromQuery, ResultMeansSent
<1>2. QED
  BY <1>1, InvHolds, PTL

(***************************************************************************)
(* Refinement.                                                             *)
(***************************************************************************)

\* The contract sees nothing of a step that keeps the call in its phase and
\* touches neither the row nor the query; taking or giving back is its Hold.
LEMMA Unseen ==
    ASSUME Inv', Phase' = Phase, Returned' = Returned, row' = row,
           fds' = fds \/ Phase = "busy"
    PROVE  Contract!Hold \/ UNCHANGED Contract!vars
<1>1. fds' \in SUBSET Fd
  BY DEF Inv, TypeOK, TransportType
<1>2. Counted' = Counted
  BY DEF Counted
<1>3. CASE fds' = fds
  BY <1>2, <1>3 DEF Contract!vars
<1>4. CASE Phase = "busy"
  BY <1>1, <1>2, <1>4 DEF Contract!Hold
<1>5. QED
  BY <1>3, <1>4

\* A step that takes a call on, over no query, is one the contract does not see.
LEMMA TakenOn ==
    ASSUME Inv', InCall, InCall', pc # "read", pc' # "read", sent' = sent, row' = row
    PROVE  Contract!Hold \/ UNCHANGED Contract!vars
<1>1. Phase = "busy" /\ Phase' = "busy"
  BY DEF Phase
<1>2. Returned' = Returned
  BY DEF Returned
<1>3. QED
  BY <1>1, <1>2, Unseen

\* A process that dies may have given back what it held.
LEMMA Dies ==
    ASSUME InCall, pc' = "dead", pc # "read", sent' = sent, row' = row, fds' \subseteq fds
    PROVE  Contract!Die
<1>1. Phase = "busy" /\ Phase' = "dead"
  BY DEF Phase, InCall
<1>2. Returned' = Returned /\ Counted' = Counted
  BY DEF Returned, Counted
<1>3. QED
  BY <1>1, <1>2 DEF Contract!Die

\* A row is one the contract has.
LEMMA RowCounts ==
    ASSUME NEW r \in Outputs,
           NEW c, c = [r EXCEPT !.kind = IF r.kind = "result" THEN "scanned" ELSE "halted"]
    PROVE  c \in Contract!Rows /\ (c.kind = "scanned" <=> r.kind = "result")
BY DEF Outputs, Contract!Rows

\* Before the first call the contract is at its beginning.
LEMMA RefineInit == Init => Contract!Init
<1> SUFFICES ASSUME Init PROVE Contract!Init
  OBVIOUS
<1>1. Phase = "idle" /\ fds = {} /\ Returned = 0
  BY DEF Init, Phase, InCall, Returned
<1>2. Counted \in Contract!Rows
  BY InitInv, RowCounts DEF Inv, TypeOK, Counted
<1>3. QED
  BY <1>1, <1>2 DEF Contract!Init

\* Each step of a call is one step of the contract, or none, or a BlindRow.
LEMMA RefineStep ==
    ASSUME Inv, Inv', [Next]_vars
    PROVE  [Contract!Next \/ BlindRow]_(Contract!vars)
<1> USE DEF Contract!Next
<1>1. CASE Begin
  <2>1. Phase = "idle" /\ Phase' = "busy"
    BY <1>1 DEF Begin, Phase, InCall
  <2>2. Returned' = 0
    BY <1>1 DEF Begin, Returned
  <2>3. fds' = fds /\ Counted' = Counted
    BY <1>1 DEF Begin, Counted
  <2>4. QED
    BY <2>1, <2>2, <2>3 DEF Contract!Begin
<1>2. CASE TunnelOpen
  BY <1>2, TakenOn DEF TunnelOpen, InCall, proxyVars
<1>3. CASE TunnelFails
  BY <1>3, TakenOn DEF TunnelFails, InCall, proxyVars
<1>4. CASE HandshakeDone
  BY <1>4, TakenOn DEF HandshakeDone, InCall, proxyVars
<1>5. CASE HandshakeFails
  BY <1>5, TakenOn DEF HandshakeFails, InCall, proxyVars
<1>6. CASE GivingBack
  <2>1. /\ InCall /\ pc # "read" /\ sent' = sent /\ row' = row
        /\ fds' = {} /\ pc' \in {"deliver", "dead"}
    BY <1>6, Given DEF InCall
  <2>2. CASE pc' = "dead"
    BY <2>1, <2>2, Dies
  <2>3. CASE pc' = "deliver"
    BY <2>1, <2>3, TakenOn DEF InCall
  <2>4. QED
    BY <2>1, <2>2, <2>3
<1>7. CASE GateNoTunnel
  BY <1>7, TakenOn DEF GateNoTunnel, InCall, proxyVars
<1>8. CASE Gate
  BY <1>8, TakenOn DEF Gate, InCall, proxyVars
<1>9. CASE Query
  <2>1. row' = row /\ sent' = (sent \/ pc' = "read")
    BY <1>9 DEF Query
  <2>2. CASE QueryOnNull
    <3>1. pc = "query" /\ pc' = "dead" /\ fds' = fds
      BY <2>2 DEF QueryOnNull, conn
    <3>2. sent' = sent
      BY <2>1, <3>1 DEF Inv, TypeOK
    <3>3. QED
      BY <2>1, <3>1, <3>2, Dies DEF InCall
  <2>3. CASE ~QueryOnNull
    <3>1. pc \in {"query", "read"} /\ pc' \in {"read", "back"}
      BY <1>9, <2>3 DEF Query, InterfaceScan, QueryCancelled, QueryUnsent, QuerySent,
         ReadPart, ReadHeaders, ReadEnd
    <3>2. Phase = "busy" /\ Phase' = "busy"
      BY <3>1 DEF Phase, InCall
    <3>3. /\ pc = "query" => ~sent
          /\ pc = "read" => sent
      BY DEF Inv, History
    <3>4. CASE pc = "read" /\ pc' = "back"
      <4>1. Returned = 0 /\ Returned' = 1
        BY <2>1, <3>3, <3>4 DEF Returned
      <4>2. Counted' = Counted /\ fds' \in SUBSET Fd
        BY <2>1 DEF Counted, Inv, TypeOK, TransportType
      <4>3. QED
        BY <3>2, <4>1, <4>2 DEF Contract!Query
    <3>5. CASE ~(pc = "read" /\ pc' = "back")
      <4>1. Returned' = Returned
        BY <2>1, <3>1, <3>3, <3>5 DEF Returned
      <4>2. QED
        BY <2>1, <3>2, <4>1, Unseen
    <3>6. QED
      BY <3>4, <3>5
  <2>4. QED
    BY <2>2, <2>3
<1>10. CASE BackNoTunnel
  BY <1>10, TakenOn DEF BackNoTunnel, InCall, proxyVars
<1>11. CASE Back
  BY <1>11, TakenOn DEF Back, InCall, proxyVars
<1>12. CASE JudgeForeign
  BY <1>12, Dies DEF JudgeForeign, InCall, conn, proxyVars
<1>13. CASE Judge
  BY <1>13, TakenOn DEF Judge, InCall
<1>14. CASE Deliver
  <2>1. Phase = "busy" /\ Phase' = "idle" /\ Returned' = Returned
    BY <1>14 DEF Deliver, Phase, InCall, Returned
  <2>2. fds = {} /\ fds' = fds
    BY <1>14 DEF Deliver, conn, Inv, Ledger
  <2>3. Counted' \in Contract!Rows /\ (Counted'.kind = "scanned" <=> row'.kind = "result")
    <3>1. row' \in Outputs
      BY DEF Inv, TypeOK
    <3>2. QED
      BY <3>1, RowCounts DEF Counted
  <2>4. row' = out /\ FromQuery(out)
    BY <1>14 DEF Deliver, Inv, History
  <2>5. CASE row'.kind = "result" /\ ~sent
    BY <1>14, <2>2, <2>4, <2>5 DEF BlindRow, FromQuery
  <2>6. CASE row'.kind = "result" => sent
    <3>1. Counted'.kind = "scanned" => Returned > 0
      BY <1>14, <2>3, <2>6 DEF Returned, Deliver
    <3>2. QED
      BY <2>1, <2>2, <2>3, <3>1 DEF Contract!Deliver
  <2>7. QED
    BY <2>5, <2>6
<1>15. CASE Cancel
  <2>1. pc' = pc /\ sent' = sent /\ row' = row /\ fds' = fds
    BY <1>15 DEF Cancel, conn, proxyVars
  <2>2. Phase' = Phase /\ Returned' = Returned
    BY <2>1 DEF Phase, InCall, Returned
  <2>3. QED
    BY <2>1, <2>2, Unseen
<1>16. CASE UNCHANGED vars
  <2>1. pc' = pc /\ sent' = sent /\ row' = row /\ fds' = fds
    BY <1>16 DEF vars
  <2>2. Phase' = Phase /\ Returned' = Returned
    BY <2>1 DEF Phase, InCall, Returned
  <2>3. QED
    BY <2>1, <2>2, Unseen
<1>17. QED
  BY <1>1, <1>2, <1>3, <1>4, <1>5, <1>6, <1>7, <1>8, <1>9, <1>10, <1>11, <1>12,
     <1>13, <1>14, <1>15, <1>16 DEF Next, Step, Finished, GivingBack

\* Every call of the HTTP engine is a call of the contract, and every call of
\* the SOCKS engine is but for a result of a query that could not be sent.
THEOREM RefinesContract == Spec => ImplementsContract
<1>1. Inv /\ Inv' /\ [Next]_vars => [Contract!Next \/ BlindRow]_(Contract!vars)
  BY RefineStep
<1>2. QED
  BY RefineInit, <1>1, InvHolds, PTL DEF Spec, ImplementsContract

\* An engine is of one kind throughout.
LEMMA KindKept == ASSUME Inv, [Next]_vars PROVE kind' = kind
<1>1. CASE Begin \/ TunnelOpen \/ TunnelFails \/ HandshakeDone \/ HandshakeFails
  BY <1>1 DEF Begin, TunnelOpen, TunnelFails, HandshakeDone, HandshakeFails, proxyVars
<1>2. CASE GivingBack
  BY <1>2, Given
<1>3. CASE GateNoTunnel \/ Gate \/ BackNoTunnel \/ Back \/ JudgeForeign
  BY <1>3 DEF GateNoTunnel, Gate, BackNoTunnel, Back, JudgeForeign, proxyVars
<1>4. CASE Query \/ Judge \/ Deliver \/ Cancel
  BY <1>4 DEF Query, Judge, Deliver, Cancel, proxyVars
<1>5. CASE UNCHANGED vars
  BY <1>5 DEF vars
<1>6. QED
  BY <1>1, <1>2, <1>3, <1>4, <1>5 DEF Next, Step, Finished, GivingBack

\* The HTTP engine alone implements the contract, with no step left over.
THEOREM HttpRefinesContract == Spec /\ kind = "http" => Contract!Spec
<1>1. Inv /\ kind = "http" /\ [Next]_vars => (kind = "http")'
  BY KindKept
<1>2. Spec /\ kind = "http" => [](kind = "http")
  BY <1>1, InvHolds, PTL DEF Spec
<1>3. kind = "http" /\ [Contract!Next \/ BlindRow]_(Contract!vars)
          => [Contract!Next]_(Contract!vars)
  BY DEF BlindRow
<1>4. QED
  BY RefinesContract, <1>2, <1>3, PTL DEF ImplementsContract, Contract!Spec
==============================================================================
