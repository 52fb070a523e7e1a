---------------------------- MODULE TorScanProofs ----------------------------
(***************************************************************************)
(* Theorems about TorScan, for any descriptors, codes, buffer and wordlist.*)
(***************************************************************************)
EXTENDS TorScan, TLAPS

(***************************************************************************)
(* The inductive invariant.  None of the safety properties is inductive:   *)
(* what has been given back at delivery depends on what each control point *)
(* may hold, and what a row says on what each control point has seen.      *)
(***************************************************************************)

\* The variables name exactly what has been acquired, at every point.
Ledger ==
    /\ fds = {sock, ctrl} \ {NoFd}
    /\ \/ ssl = "null" /\ tls = 0
       \/ ssl = "live" /\ tls = 1 /\ https
    /\ faults \subseteq {"nullTls"}
    /\ engine <=> pc # "idle"

\* What may be held at each control point.
Holds ==
    /\ pc \in {"idle", "tunnel", "rotate", "control", "rerun", "deliver"} =>
           sock = NoFd /\ ssl = "null"
    /\ pc \in {"handshake", "ready", "read"} => sock # NoFd
    /\ pc = "handshake" => ssl = "null" /\ https
    /\ pc # "control" => ctrl = NoFd
    /\ pc = "control" => ctrl # NoFd
    /\ pc = "read" => got < BufUnits

\* One blocked answer, or none, is what precedes each control point.
OneBlocked == Len(statuses) = 1 /\ Blocked(statuses[1])

Early == out = Zeroed /\ (statuses = <<>> \/ OneBlocked)

Final ==
    /\ Len(statuses) \in {1, 2}
    /\ out.status = statuses[Len(statuses)]
    /\ Len(statuses) = 2 => Blocked(statuses[1])
    /\ Blocked(out.status) => Len(statuses) = 2
    /\ ~out.named => cancel /\ out.status = Unknown

History ==
    /\ pc \in {"tunnel", "handshake", "ready", "query", "read", "judge"} =>
           /\ out = Zeroed
           /\ attempt = 1 => statuses = <<>> /\ circuits = 0
           /\ attempt = 2 => OneBlocked
    /\ pc \in {"rotate", "control", "rerun"} => out = Zeroed /\ OneBlocked
    /\ pc \in {"rotate", "control"} => circuits = 0
    /\ pc = "ready" => attempt = 1
    /\ pc = "judge" /\ ~named => cancel /\ answer = Unknown
    /\ pc = "read" => named
    /\ pc = "deliver" => Early \/ Final
    /\ calls = 0 => pc = "idle" /\ row.kind = "halted"
    /\ pc = "idle" /\ calls > 0 =>
           \/ row.kind = "halted" /\ Early
           \/ /\ row.kind = "scanned" /\ Final
              /\ row.status = out.status /\ row.named = out.named

Inv == TypeOK /\ Ledger /\ Holds /\ History

(***************************************************************************)
(* Facts used by several cases.                                            *)
(***************************************************************************)

\* The release block gives back all that is held once the control socket is
\* closed, and misuses nothing.
LEMMA Released ==
    ASSUME NEW m, m \subseteq {"nullTls"},
           Ledger, ctrl = NoFd, ReleaseAfter(m)
    PROVE  tls' = 0 /\ fds' = {} /\ faults' \subseteq {"nullTls"}
<1>1. tls' = 0
  <2>1. tls' = IF https /\ ssl = "live" THEN tls - 1 ELSE tls
    BY DEF ReleaseAfter
  <2>2. CASE ssl = "null" /\ tls = 0
    BY <2>1, <2>2
  <2>3. CASE ssl = "live" /\ tls = 1 /\ https
    BY <2>1, <2>3
  <2>4. QED
    BY <2>2, <2>3 DEF Ledger
<1>2. fds' = {}
  BY DEF ReleaseAfter, Ledger
<1>3. CloseFault = {} /\ FreeFault = {}
  BY DEF CloseFault, FreeFault, Ledger
<1>4. faults' \subseteq {"nullTls"}
  BY <1>3 DEF ReleaseAfter, Ledger
<1>5. QED
  BY <1>1, <1>2, <1>4

\* So every releasing action of a call leaves nothing held and nothing named.
Releasing ==
    ReadyCancelled \/ QueryCancelled("judge") \/ QueryUnsent("judge") \/ Retry \/ Report

LEMMA Bare ==
    ASSUME Inv, Releasing
    PROVE  /\ tls' = 0 /\ fds' = {} /\ faults' \subseteq {"nullTls"}
           /\ sock' = NoFd /\ ssl' = "null"
<1>1. Ledger /\ ctrl = NoFd
  BY DEF Inv, Holds, Releasing, ReadyCancelled, QueryCancelled, QueryUnsent, Retry, Report
<1>2. sock' = NoFd /\ ssl' = "null"
  BY DEF Inv, Ledger, Releasing, ReadyCancelled, QueryCancelled, QueryUnsent, Retry, Report,
     ForgetBoth
<1>3. PICK m \in SUBSET {"nullTls"} : ReleaseAfter(m)
  <2>1. CASE QueryUnsent("judge")
    BY <2>1 DEF QueryUnsent
  <2>2. CASE ~QueryUnsent("judge")
    <3>1. Release
      BY <2>2 DEF Releasing, ReadyCancelled, QueryCancelled, Retry, Report
    <3>2. QED
      BY <3>1 DEF Release
  <2>3. QED
    BY <2>1, <2>2
<1>4. QED
  BY <1>1, <1>2, <1>3, Released

\* Closing the descriptor in sock is never closing a stale one.
LEMMA NoFault == Inv => CloseFault = {}
BY DEF Inv, Ledger, CloseFault

\* A status that was extracted is a code or -1.
LEMMA Extracted ==
    ASSUME TypeOK, answer # Foreign
    PROVE  /\ answer \in Codes \cup {Unknown}
           /\ Append(statuses, answer) \in Seq(Codes \cup {Unknown})
BY DEF TypeOK, TransportType, Answers

(***************************************************************************)
(* Each part of the invariant is preserved, one case per action.           *)
(***************************************************************************)

\* The invariant holds before the first call.
LEMMA InitInv == Init => Inv
<1> SUFFICES ASSUME Init PROVE Inv
  OBVIOUS
<1> USE DEF Init, Zeroed, Unknown
<1>1. TypeOK
  <2>1. TransportType
    <3>1. got \in 0..BufUnits /\ answer \in Answers
      BY TransportAssumption DEF Answers
    <3>2. QED
      BY <3>1 DEF TransportType, Pointers
  <2>2. out \in Outputs /\ row \in Rows
    BY DEF Outputs, Rows, Statuses
  <2>3. calls \in 0..MaxCalls /\ circuits \in Nat
    BY TorScanAssumption
  <2>4. statuses \in Seq(Codes \cup {Unknown})
    OBVIOUS
  <2>5. QED
    BY <2>1, <2>2, <2>3, <2>4 DEF TypeOK
<1>2. Ledger /\ Holds
  BY DEF Ledger, Holds
<1>3. History
  BY DEF History
<1>4. QED
  BY <1>1, <1>2, <1>3 DEF Inv

\* Types: no count goes below zero and no fill beyond the buffer, because an
\* SSL object is only freed while one is held and a read only made below the cap.
LEMMA TypeStep == ASSUME Inv, [Next]_vars PROVE TypeOK'
<1> USE DEF Inv, TypeOK, TransportType
<1>1. CASE Begin
  <2> USE <1>1 DEF Begin, reply
  <2>1. TransportType'
    BY DEF Pointers
  <2>2. out' \in Outputs /\ row' \in Rows
    BY DEF Zeroed, Outputs, Statuses
  <2>3. calls' \in 0..MaxCalls /\ circuits' \in Nat
    BY TorScanAssumption
  <2>4. statuses' \in Seq(Codes \cup {Unknown})
    OBVIOUS
  <2>5. QED
    BY <2>1, <2>2, <2>3, <2>4
<1>2. CASE TunnelOpen
  BY <1>2 DEF TunnelOpen, OpenSock, reply, torVars
<1>3. CASE TunnelFails
  BY <1>3 DEF TunnelFails, reply, torVars
<1>4. CASE HandshakeDone
  BY <1>4 DEF HandshakeDone, Pointers, reply, torVars
<1>5. CASE HandshakeFails
  BY <1>5, NoFault DEF HandshakeFails, Pointers, reply, torVars
<1>6. CASE ReadyCancelled
  BY <1>6, Bare DEF Releasing, ReadyCancelled, Pointers, Faults, reply, torVars,
     Holds
<1>7. CASE Ready
  BY <1>7 DEF Ready, conn, reply, torVars
<1>8. CASE Query
  <2>1. CASE QueryCancelled("judge")
    <3>1. answer' \in Answers
      BY <2>1 DEF QueryCancelled, Answers
    <3>2. /\ UNCHANGED torVars /\ UNCHANGED <<https, cancel, got>>
          /\ named' = FALSE /\ pc' = "judge"
      BY <1>8, <2>1 DEF Query, QueryCancelled
    <3>3. /\ tls' = 0 /\ fds' = {} /\ faults' \subseteq {"nullTls"}
          /\ sock' = NoFd /\ ssl' = "null"
      BY <2>1, Bare DEF Releasing
    <3>4. TransportType'
      BY <3>1, <3>2, <3>3 DEF Pointers, Faults
    <3>5. QED
      BY <3>2, <3>4 DEF torVars
  <2>2. CASE QueryUnsent("judge")
    BY <1>8, <2>2, Bare DEF Query, Releasing, QueryUnsent, Pointers, Faults,
       Answers, Holds, torVars
  <2>3. CASE QueryOnNull
    BY <1>8, <2>3 DEF Query, QueryOnNull, conn, reply, torVars
  <2>4. CASE QuerySent
    BY <1>8, <2>4, TransportAssumption DEF Query, QuerySent, Answers, conn, torVars
  <2>5. CASE ReadPart("judge")
    BY <1>8, <2>5, TransportAssumption DEF Query, ReadPart, Holds, conn, torVars
  <2>6. CASE ReadHeaders("judge")
    BY <1>8, <2>6 DEF Query, ReadHeaders, conn, torVars
  <2>7. CASE ReadEnd("judge")
    BY <1>8, <2>7 DEF Query, ReadEnd, conn, reply, torVars
  <2>8. QED
    BY <1>8, <2>1, <2>2, <2>3, <2>4, <2>5, <2>6, <2>7 DEF Query, InterfaceScan
<1>9. CASE JudgeForeign
  BY <1>9 DEF JudgeForeign, conn, reply, torVars
<1>10. CASE Retry
  BY <1>10, Bare, Extracted DEF Releasing, Retry, Pointers, Faults, reply, Holds
<1>11. CASE Report
  BY <1>11, Bare, Extracted DEF Releasing, Report, Pointers, Faults, Outputs,
     Statuses, reply, Holds
<1>12. CASE NoControlPort
  BY <1>12 DEF NoControlPort, conn, reply, torVars
<1>13. CASE ControlOpen
  BY <1>13 DEF ControlOpen, reply
<1>14. CASE ControlRefused
  BY <1>14 DEF ControlRefused, CloseControl, reply
<1>15. CASE NewCircuit
  BY <1>15 DEF NewCircuit, CloseControl, reply
<1>16. CASE RerunCancelled
  BY <1>16 DEF RerunCancelled, conn, reply, torVars
<1>17. CASE Rerun
  BY <1>17 DEF Rerun, conn, reply
<1>18. CASE Deliver
  BY <1>18 DEF Deliver, Outputs, Rows, conn, reply
<1>19. CASE Cancel
  BY <1>19 DEF Cancel, conn, reply, torVars
<1>20. CASE UNCHANGED vars
  BY <1>20 DEF vars
<1>21. QED
  BY <1>1, <1>2, <1>3, <1>4, <1>5, <1>6, <1>7, <1>8, <1>9, <1>10, <1>11, <1>12,
     <1>13, <1>14, <1>15, <1>16, <1>17, <1>18, <1>19, <1>20 DEF Next, Step, Finished

\* What is acquired is what the variables name, and each control point holds
\* what it should.
LEMMA LedgerStep == ASSUME Inv, [Next]_vars PROVE Ledger' /\ Holds'
<1> USE TransportAssumption DEF Inv, TypeOK, TransportType, Ledger, Holds
<1>1. CASE Begin
  BY <1>1 DEF Begin, reply, Zeroed, Outputs, Statuses
<1>2. CASE TunnelOpen
  <2> USE <1>2 DEF TunnelOpen, reply, torVars
  <2>1. PICK f \in Fd \ fds : sock' = f /\ fds' = fds \cup {f}
    BY DEF OpenSock
  <2>2. fds' = {sock', ctrl'} \ {NoFd}
    BY <2>1
  <2>3. QED
    BY <2>1, <2>2
<1>3. CASE TunnelFails
  BY <1>3 DEF TunnelFails, reply, torVars
<1>4. CASE HandshakeDone
  BY <1>4 DEF HandshakeDone, Pointers, reply, torVars
<1>5. CASE HandshakeFails
  BY <1>5, NoFault, ZenonT(30) DEF HandshakeFails, Pointers, reply, torVars
<1>6. CASE ReadyCancelled
  BY <1>6, Bare DEF Releasing, ReadyCancelled, Pointers, Faults, reply, torVars
<1>7. CASE Ready
  BY <1>7 DEF Ready, conn, reply, torVars
<1>8. CASE Query
  <2>1. CASE QueryCancelled("judge")
    BY <1>8, <2>1, Bare, ZenonT(30) DEF Query, Releasing, QueryCancelled, Pointers, Faults,
       Answers, torVars
  <2>2. CASE QueryUnsent("judge")
    BY <1>8, <2>2, Bare DEF Query, Releasing, QueryUnsent, Pointers, Faults,
       Answers, torVars
  <2>3. CASE QueryOnNull
    BY <1>8, <2>3 DEF Query, QueryOnNull, conn, reply, torVars
  <2>4. CASE QuerySent
    BY <1>8, <2>4 DEF Query, QuerySent, Answers, conn, torVars
  <2>5. CASE ReadPart("judge")
    BY <1>8, <2>5 DEF Query, ReadPart, conn, torVars
  <2>6. CASE ReadHeaders("judge")
    BY <1>8, <2>6 DEF Query, ReadHeaders, conn, torVars
  <2>7. CASE ReadEnd("judge")
    BY <1>8, <2>7 DEF Query, ReadEnd, conn, reply, torVars
  <2>8. QED
    BY <1>8, <2>1, <2>2, <2>3, <2>4, <2>5, <2>6, <2>7 DEF Query, InterfaceScan
<1>9. CASE JudgeForeign
  BY <1>9 DEF JudgeForeign, conn, reply, torVars
<1>10. CASE Retry
  BY <1>10, Bare, Extracted DEF Releasing, Retry, Pointers, Faults, reply
<1>11. CASE Report
  BY <1>11, Bare, Extracted DEF Releasing, Report, Pointers, Faults, Outputs,
     Statuses, reply
<1>12. CASE NoControlPort
  BY <1>12 DEF NoControlPort, conn, reply, torVars
<1>13. CASE ControlOpen
  <2> USE <1>13 DEF ControlOpen, reply
  <2>1. PICK f \in Fd \ fds : ctrl' = f /\ fds' = fds \cup {f}
    OBVIOUS
  <2>2. fds' = {sock', ctrl'} \ {NoFd}
    BY <2>1
  <2>3. QED
    BY <2>1, <2>2
<1>14. CASE ControlRefused
  BY <1>14 DEF ControlRefused, CloseControl, reply
<1>15. CASE NewCircuit
  BY <1>15 DEF NewCircuit, CloseControl, reply
<1>16. CASE RerunCancelled
  BY <1>16 DEF RerunCancelled, conn, reply, torVars
<1>17. CASE Rerun
  BY <1>17 DEF Rerun, conn, reply
<1>18. CASE Deliver
  BY <1>18 DEF Deliver, Outputs, Rows, conn, reply
<1>19. CASE Cancel
  BY <1>19 DEF Cancel, conn, reply, torVars
<1>20. CASE UNCHANGED vars
  BY <1>20 DEF vars
<1>21. QED
  BY <1>1, <1>2, <1>3, <1>4, <1>5, <1>6, <1>7, <1>8, <1>9, <1>10, <1>11, <1>12,
     <1>13, <1>14, <1>15, <1>16, <1>17, <1>18, <1>19, <1>20 DEF Next, Step, Finished

\* What has been asked and answered at each control point.
LEMMA HistoryStep == ASSUME Inv, [Next]_vars PROVE History'
<1> USE TransportAssumption DEF Inv, TypeOK, TransportType, Holds, History, OneBlocked, Early,
        Final, Zeroed, Unknown, Blocked
<1>1. CASE Begin
  BY <1>1 DEF Begin, reply, Zeroed, Outputs, Statuses
<1>2. CASE TunnelOpen
  BY <1>2 DEF TunnelOpen, OpenSock, reply, torVars
<1>3. CASE TunnelFails
  BY <1>3 DEF TunnelFails, reply, torVars
<1>4. CASE HandshakeDone
  BY <1>4 DEF HandshakeDone, Pointers, reply, torVars
<1>5. CASE HandshakeFails
  BY <1>5, NoFault DEF HandshakeFails, Pointers, reply, torVars
<1>6. CASE ReadyCancelled
  BY <1>6, Bare DEF Releasing, ReadyCancelled, Pointers, Faults, reply, torVars
<1>7. CASE Ready
  BY <1>7 DEF Ready, conn, reply, torVars
<1>8. CASE Query
  <2>1. CASE QueryCancelled("judge")
    BY <1>8, <2>1, Bare DEF Query, Releasing, QueryCancelled, Pointers, Faults,
       Answers, torVars
  <2>2. CASE QueryUnsent("judge")
    BY <1>8, <2>2, Bare DEF Query, Releasing, QueryUnsent, Pointers, Faults,
       Answers, torVars
  <2>3. CASE QueryOnNull
    BY <1>8, <2>3 DEF Query, QueryOnNull, conn, reply, torVars
  <2>4. CASE QuerySent
    BY <1>8, <2>4 DEF Query, QuerySent, Answers, conn, torVars
  <2>5. CASE ReadPart("judge")
    BY <1>8, <2>5 DEF Query, ReadPart, conn, torVars
  <2>6. CASE ReadHeaders("judge")
    BY <1>8, <2>6 DEF Query, ReadHeaders, conn, torVars
  <2>7. CASE ReadEnd("judge")
    BY <1>8, <2>7 DEF Query, ReadEnd, conn, reply, torVars
  <2>8. QED
    BY <1>8, <2>1, <2>2, <2>3, <2>4, <2>5, <2>6, <2>7 DEF Query, InterfaceScan
<1>9. CASE JudgeForeign
  BY <1>9 DEF JudgeForeign, conn, reply, torVars
<1>10. CASE Retry
  BY <1>10, Bare, Extracted DEF Releasing, Retry, Pointers, Faults, reply
<1>11. CASE Report
  <2> USE <1>11 DEF Report, reply
  <2>1. /\ Len(statuses') = Len(statuses) + 1
        /\ statuses'[Len(statuses')] = answer
        /\ Len(statuses) = 1 => statuses'[1] = statuses[1]
    OBVIOUS
  <2>2. out'.status = answer /\ out'.named = named /\ cancel' = cancel /\ pc' = "deliver"
    OBVIOUS
  <2>3. Len(statuses') = 2 => Blocked(statuses'[1])
    BY <2>1
  <2>4. Len(statuses') \in {1, 2} /\ (Blocked(answer) => Len(statuses') = 2)
    BY <2>1, SMTT(30)
  <2>5. ~named => cancel /\ answer = Unknown
    OBVIOUS
  <2>6. Final'
    BY <2>1, <2>2, <2>3, <2>4, <2>5
  <2>7. QED
    BY <2>2, <2>6
<1>12. CASE NoControlPort
  BY <1>12 DEF NoControlPort, conn, reply, torVars
<1>13. CASE ControlOpen
  BY <1>13 DEF ControlOpen, reply
<1>14. CASE ControlRefused
  BY <1>14 DEF ControlRefused, CloseControl, reply
<1>15. CASE NewCircuit
  BY <1>15 DEF NewCircuit, CloseControl, reply
<1>16. CASE RerunCancelled
  BY <1>16 DEF RerunCancelled, conn, reply, torVars
<1>17. CASE Rerun
  BY <1>17 DEF Rerun, conn, reply
<1>18. CASE Deliver
  BY <1>18 DEF Deliver, Outputs, Rows, conn, reply
<1>19. CASE Cancel
  BY <1>19 DEF Cancel, conn, reply, torVars
<1>20. CASE UNCHANGED vars
  BY <1>20 DEF vars
<1>21. QED
  BY <1>1, <1>2, <1>3, <1>4, <1>5, <1>6, <1>7, <1>8, <1>9, <1>10, <1>11, <1>12,
     <1>13, <1>14, <1>15, <1>16, <1>17, <1>18, <1>19, <1>20 DEF Next, Step, Finished

\* The strengthened invariant of the Tor engine.
THEOREM InvHolds == Spec => []Inv
<1>1. Inv /\ [Next]_vars => Inv'
  BY TypeStep, LedgerStep, HistoryStep DEF Inv
<1>2. QED
  BY InitInv, <1>1, PTL DEF Spec

(***************************************************************************)
(* What it gives.                                                          *)
(***************************************************************************)

\* Every variable of the Tor engine keeps its type.
THEOREM TypeCorrect == Spec => []TypeOK
<1>1. Inv => TypeOK
  BY DEF Inv
<1>2. QED
  BY <1>1, InvHolds, PTL

\* A delivered row leaves no descriptor, SSL object or native engine behind.
THEOREM ReleaseCorrect == Spec => []AllReleased
<1>1. Inv => AllReleased
  BY DEF Inv, Ledger, Holds, AllReleased
<1>2. QED
  BY <1>1, InvHolds, PTL

\* No handle is released twice.
THEOREM HandleCorrect == Spec => []NoStaleHandle
<1>1. Inv => NoStaleHandle
  BY DEF Inv, Ledger, NoStaleHandle
<1>2. QED
  BY <1>1, InvHolds, PTL

\* Rows are about the last query, good answers are kept, blocked ones were
\* asked for twice.
THEOREM RowCorrect == Spec => []RowHonest
<1>1. ASSUME Inv, pc = "idle", calls > 0, row.kind # "scanned"
      PROVE  statuses = <<>> \/ OneBlocked
  BY <1>1 DEF Inv, History, Early
<1>2. ASSUME Inv, pc = "idle", calls > 0, row.kind = "scanned"
      PROVE  Final /\ row.status = out.status
  BY <1>2 DEF Inv, History
<1>3. ASSUME Inv PROVE RowHonest
  <2>1. statuses \in Seq(Codes \cup {Unknown})
    BY <1>3 DEF Inv, TypeOK
  <2>2. CASE pc = "idle" /\ calls > 0 /\ row.kind # "scanned"
    BY <1>1, <1>3, <2>1, <2>2 DEF RowHonest, OneBlocked
  <2>3. CASE pc = "idle" /\ calls > 0 /\ row.kind = "scanned"
    BY <1>2, <1>3, <2>1, <2>3 DEF RowHonest, Final
  <2>4. QED
    BY <2>2, <2>3 DEF RowHonest
<1>4. QED
  BY <1>3, InvHolds, PTL

\* A nameless scanned row comes from a cancelled query.
THEOREM NamelessCorrect == Spec => []NamelessMeansCancelled
<1>1. Inv => NamelessMeansCancelled
  BY DEF Inv, TypeOK, History, Final, NamelessMeansCancelled
<1>2. QED
  BY <1>1, InvHolds, PTL

(***************************************************************************)
(* Refinement.                                                             *)
(***************************************************************************)

\* The contract sees nothing of a step that keeps the call in its phase and
\* touches neither what is held nor the history nor the row; taking or giving
\* back something is its Hold.
LEMMA Unseen ==
    ASSUME Inv, Inv', Phase' = Phase,
           UNCHANGED <<statuses, circuits, row>>,
           fds' = fds \/ Phase = "busy"
    PROVE  Contract!Hold \/ UNCHANGED Contract!vars
<1>1. fds' \in SUBSET Fd
  BY DEF Inv, TypeOK, TransportType
<1>2. QED
  BY <1>1 DEF Contract!Hold, Contract!vars

\* An extracted status is one more answered query, and there are at most two.
LEMMA Answered ==
    ASSUME Inv, Inv', Retry \/ Report
    PROVE  Contract!Query
<1>1. pc = "judge" /\ pc' \in {"rotate", "deliver"}
  BY DEF Retry, Report
<1>2. Phase = "busy" /\ Phase' = "busy"
  BY <1>1 DEF Phase
<1>3. Len(statuses) < 2
  <2>1. attempt \in {1, 2} /\ History
    BY DEF Inv, TypeOK
  <2>2. statuses = <<>> \/ Len(statuses) = 1
    BY <1>1, <2>1 DEF History, OneBlocked
  <2>3. QED
    BY <2>2
<1>4. Len(statuses') = Len(statuses) + 1
  BY DEF Inv, TypeOK, Retry, Report
<1>5. fds' \in SUBSET Fd
  BY DEF Inv, TypeOK, TransportType
<1>6. row' = row /\ circuits' = circuits
  BY DEF Retry, Report
<1>7. QED
  BY <1>2, <1>3, <1>4, <1>5, <1>6 DEF Contract!Query

\* The engine starts as its contract does.
LEMMA RefineInit == Init => Contract!Init
BY DEF Init, Contract!Init, Contract!Rows, Rows, Phase, Statuses

\* Every step of the engine is a step of the contract or is not seen by it.
LEMMA RefineStep ==
    ASSUME Inv, Inv', [Next]_vars
    PROVE  [Contract!Next]_(Contract!vars)
<1> USE DEF Contract!Next
<1>1. CASE Begin
  <2>1. Phase = "idle" /\ Phase' = "busy"
    BY <1>1 DEF Begin, Phase
  <2>2. Len(statuses') = 0 /\ (circuits' > 0) = FALSE /\ fds' = fds /\ row' = row
    BY <1>1 DEF Begin
  <2>3. QED
    BY <2>1, <2>2 DEF Contract!Begin
<1>2. CASE TunnelOpen
  <2>1. pc = "tunnel" /\ pc' \in {"handshake", "ready", "query"}
    BY <1>2 DEF TunnelOpen, Inv, TypeOK, TransportType
  <2>2. Phase = "busy" /\ Phase' = "busy"
    BY <2>1 DEF Phase
  <2>3. QED
    BY <1>2, <2>2, Unseen DEF TunnelOpen, torVars
<1>3. CASE TunnelFails
  BY <1>3, Unseen DEF TunnelFails, Phase, torVars
<1>4. CASE HandshakeDone
  BY <1>4, Unseen DEF HandshakeDone, Phase, torVars
<1>5. CASE HandshakeFails
  BY <1>5, Unseen DEF HandshakeFails, Phase, torVars
<1>6. CASE ReadyCancelled
  BY <1>6, Unseen DEF ReadyCancelled, Phase, torVars
<1>7. CASE Ready
  BY <1>7, Unseen DEF Ready, Phase, torVars
<1>8. CASE Query
  <2>1. UNCHANGED <<statuses, circuits, row>>
    BY <1>8 DEF Query, torVars
  <2>2. CASE QueryOnNull
    <3>1. Phase = "busy" /\ Phase' = "dead" /\ fds' = fds
      BY <2>2 DEF QueryOnNull, Phase, conn
    <3>2. QED
      BY <2>1, <3>1 DEF Contract!Die
  <2>3. CASE ~QueryOnNull
    <3>1. pc \in {"query", "read"} /\ pc' \in {"read", "judge"}
      BY <1>8, <2>3 DEF Query, InterfaceScan, QueryCancelled, QueryUnsent, QuerySent,
         ReadPart, ReadHeaders, ReadEnd
    <3>2. Phase = "busy" /\ Phase' = "busy"
      BY <3>1 DEF Phase
    <3>3. QED
      BY <2>1, <3>2, Unseen
  <2>4. QED
    BY <2>2, <2>3
<1>9. CASE JudgeForeign
  <2>1. Phase = "busy" /\ Phase' = "dead"
    BY <1>9 DEF JudgeForeign, Phase
  <2>2. UNCHANGED <<fds, statuses, circuits, row>>
    BY <1>9 DEF JudgeForeign, conn, torVars
  <2>3. QED
    BY <2>1, <2>2 DEF Contract!Die
<1>10. CASE Retry
  BY <1>10, Answered
<1>11. CASE Report
  BY <1>11, Answered
<1>12. CASE NoControlPort
  BY <1>12, Unseen DEF NoControlPort, Phase, torVars
<1>13. CASE ControlOpen
  BY <1>13, Unseen DEF ControlOpen, Phase
<1>14. CASE ControlRefused
  BY <1>14, Unseen DEF ControlRefused, CloseControl, Phase
<1>15. CASE NewCircuit
  <2>1. Phase = "busy" /\ Phase' = "busy"
    BY <1>15 DEF NewCircuit, Phase
  <2>2. Len(statuses) = 1 /\ circuits = 0
    BY <1>15 DEF NewCircuit, Inv, History, OneBlocked
  <2>3. statuses' = statuses /\ row' = row /\ circuits' = circuits + 1
    BY <1>15 DEF NewCircuit, CloseControl
  <2>4. fds' = {}
    BY <1>15 DEF NewCircuit, CloseControl, Inv, Ledger, Holds
  <2>5. QED
    BY <2>1, <2>2, <2>3, <2>4 DEF Contract!Renew
<1>16. CASE RerunCancelled
  BY <1>16, Unseen DEF RerunCancelled, Phase, torVars
<1>17. CASE Rerun
  BY <1>17, Unseen DEF Rerun, Phase
<1>18. CASE Deliver
  <2>1. Phase = "busy" /\ Phase' = "idle"
    BY <1>18 DEF Deliver, Phase
  <2>2. fds = {} /\ UNCHANGED <<fds, statuses, circuits>>
    BY <1>18 DEF Deliver, conn, Inv, Ledger, Holds
  <2>3. row' \in Contract!Rows
    BY DEF Inv, TypeOK, Rows, Contract!Rows
  <2>4. row'.kind = "scanned" => Len(statuses) > 0
    BY <1>18 DEF Deliver, Inv, History, Early, Final, Zeroed
  <2>5. QED
    BY <2>1, <2>2, <2>3, <2>4 DEF Contract!Deliver
<1>19. CASE Cancel
  BY <1>19, Unseen DEF Cancel, Phase, torVars
<1>20. CASE UNCHANGED vars
  BY <1>20 DEF vars, Phase, Contract!vars
<1>21. QED
  BY <1>1, <1>2, <1>3, <1>4, <1>5, <1>6, <1>7, <1>8, <1>9, <1>10, <1>11, <1>12,
     <1>13, <1>14, <1>15, <1>16, <1>17, <1>18, <1>19, <1>20 DEF Next, Step, Finished

\* The Tor engine implements the contract of a scan call.
THEOREM RefinesContract == Spec => ImplementsContract
<1>1. Inv /\ Inv' /\ [Next]_vars => [Contract!Next]_(Contract!vars)
  BY RefineStep
<1>2. QED
  BY RefineInit, <1>1, InvHolds, PTL DEF Spec, ImplementsContract, Contract!Spec
==============================================================================
