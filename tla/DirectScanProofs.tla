--------------------------- MODULE DirectScanProofs ---------------------------
(***************************************************************************)
(* Theorems about DirectScan: what a list of any length leaks and how many *)
(* of its words can be answered, for any descriptors, codes and buffer.    *)
(***************************************************************************)
EXTENDS DirectScan, FiniteSetTheorems, TLAPS

(***************************************************************************)
(* The inductive invariant.  Both properties count descriptors, and a call *)
(* in progress holds one that is not yet paid for by a query or by a row;  *)
(* so the counts are kept at every control point, corrected there by that  *)
(* one.                                                                    *)
(***************************************************************************)

TypeOK ==
    /\ TransportType
    /\ literal \in BOOLEAN /\ resolved \in BOOLEAN
    /\ token \in BOOLEAN /\ managed \in BOOLEAN
    /\ engines \in 0..1 /\ out \in Outputs /\ rows \in Seq(Outputs) /\ queried \in Nat

Opening == {"asked", "connect", "handshake"}

\* What each control point holds of the call in progress.
Holds ==
    /\ pc \in Opening \cup {"query", "read"} => sock \in fds
    /\ pc = "handshake" => https
    /\ pc \in {"query", "read"} /\ https => ssl = "live"
    /\ pc = "read" => got < BufUnits
    /\ pc \in {"socket", "connect", "handshake", "query", "read", "judge"} => out \in Junk
    /\ engines = IF pc \in {"idle", "saved"} THEN 0 ELSE 1

\* An output that records an answer.
IsAnswer(r) == r.kind = "result" /\ r.status # Unknown

\* The descriptor of the call in progress: no query was sent over it yet, it
\* has no SSL object yet, its answer is in no row yet.
Unasked == IF pc \in Opening \cup {"query"} THEN 1 ELSE 0
Plain == IF pc \in Opening THEN 1 ELSE 0
Unrowed ==
    IF \/ pc \in Opening \cup {"query", "read"}
       \/ pc = "judge" /\ answer # Unknown
       \/ pc = "back" /\ IsAnswer(out)
    THEN 1 ELSE 0

Counts ==
    /\ IsFiniteSet(fds)
    /\ Cardinality(fds) <= queried + Unasked
    /\ tls = IF https THEN Cardinality(fds) - Plain ELSE 0
    /\ Cardinality(Answered(rows)) + Unrowed <= Cardinality(fds)

Inv == TypeOK /\ Holds /\ Counts

(***************************************************************************)
(* Facts used by several cases.                                            *)
(***************************************************************************)

\* Acquiring a descriptor adds one to what is held.
LEMMA Opened ==
    ASSUME IsFiniteSet(fds), OpenSock
    PROVE  /\ sock' \in fds' /\ IsFiniteSet(fds')
           /\ Cardinality(fds') = Cardinality(fds) + 1
<1>1. PICK f \in Fd \ fds : sock' = f /\ fds' = fds \cup {f}
  BY DEF OpenSock
<1>2. IsFiniteSet(fds \cup {f}) /\ Cardinality(fds \cup {f}) = Cardinality(fds) + 1
  BY <1>1, FS_AddElement
<1>3. QED
  BY <1>1, <1>2

\* Closing the one in sock takes one away.
LEMMA Closed ==
    ASSUME IsFiniteSet(fds), sock \in fds
    PROVE  /\ IsFiniteSet(fds \ {sock})
           /\ Cardinality(fds \ {sock}) = Cardinality(fds) - 1
BY FS_RemoveElement

\* A count of descriptors is a number.
LEMMA Held == Counts => Cardinality(fds) \in Nat
BY FS_CardinalityType DEF Counts

\* The rows with an answer are finitely many; a row appended adds itself when
\* it has one.
LEMMA AnsweredFinite ==
    ASSUME NEW s \in Seq(Outputs)
    PROVE  IsFiniteSet(Answered(s)) /\ Cardinality(Answered(s)) \in Nat
<1>1. Answered(s) \subseteq 1..Len(s) /\ Len(s) \in Nat
  BY DEF Answered
<1>2. IsFiniteSet(1..Len(s))
  BY <1>1, FS_Interval
<1>3. IsFiniteSet(Answered(s))
  BY <1>1, <1>2, FS_Subset
<1>4. QED
  BY <1>3, FS_CardinalityType

LEMMA AnsweredAppend ==
    ASSUME NEW s \in Seq(Outputs), NEW r \in Outputs
    PROVE  Cardinality(Answered(Append(s, r)))
             = Cardinality(Answered(s)) + (IF IsAnswer(r) THEN 1 ELSE 0)
<1> DEFINE t == Append(s, r)
<1>1. /\ Len(s) \in Nat /\ DOMAIN s = 1..Len(s) /\ DOMAIN t = 1..(Len(s) + 1)
      /\ t[Len(s) + 1] = r /\ \A i \in 1..Len(s) : t[i] = s[i]
  OBVIOUS
<1>2. CASE IsAnswer(r)
  <2>1. Answered(t) = Answered(s) \cup {Len(s) + 1} /\ Len(s) + 1 \notin Answered(s)
    BY <1>1, <1>2 DEF Answered, IsAnswer
  <2>2. Cardinality(Answered(s) \cup {Len(s) + 1}) = Cardinality(Answered(s)) + 1
    BY <2>1, AnsweredFinite, FS_AddElement
  <2>3. QED
    BY <1>2, <2>1, <2>2
<1>3. CASE ~IsAnswer(r)
  <2>1. Answered(t) = Answered(s)
    BY <1>1, <1>3 DEF Answered, IsAnswer
  <2>2. QED
    BY <1>3, <2>1, AnsweredFinite
<1>4. QED
  BY <1>2, <1>3

\* What was never written to is no answer.
LEMMA JunkIsNone == \A r \in Junk : ~IsAnswer(r)
BY DEF Junk, IsAnswer

\* A query that is cancelled or cannot be sent closes its descriptor and
\* frees the SSL object it has over HTTPS.
LEMMA Unsent ==
    ASSUME Inv, QueryCancelled("judge") \/ QueryUnsent("judge")
    PROVE  /\ fds' = fds \ {sock} /\ sock' = NoFd
           /\ tls' = IF https THEN tls - 1 ELSE tls
           /\ faults' = faults /\ ssl' \in Pointers
           /\ answer' = Unknown /\ pc' = "judge" /\ pc \in {"query", "read"}
           /\ named' \in BOOLEAN /\ UNCHANGED <<https, cancel, got>>
<1>1. pc \in {"query", "read"} /\ sock \in fds /\ (https => ssl = "live")
  BY DEF Inv, Holds, QueryCancelled, QueryUnsent
<1>2. ReleaseAfter({})
  BY <1>1 DEF QueryCancelled, QueryUnsent, Release
<1>3. CloseFault = {} /\ (https => FreeFault = {})
  BY <1>1 DEF CloseFault, FreeFault
<1>4. fds' = fds \ {sock} /\ tls' = (IF https THEN tls - 1 ELSE tls) /\ faults' = faults
  BY <1>1, <1>2, <1>3 DEF ReleaseAfter
<1>5. sock' = NoFd /\ ssl' \in Pointers
  BY DEF QueryCancelled, QueryUnsent, ForgetBoth, Inv, TypeOK, TransportType, Pointers
<1>6. answer' = Unknown /\ pc' = "judge" /\ named' \in BOOLEAN /\ UNCHANGED <<https, cancel, got>>
  BY DEF QueryCancelled, QueryUnsent
<1>7. QED
  BY <1>1, <1>4, <1>5, <1>6

(***************************************************************************)
(* Each part of the invariant is preserved, one case per action.           *)
(***************************************************************************)

\* The invariant holds before the first word.
LEMMA InitInv == Init => Inv
<1> SUFFICES ASSUME Init PROVE Inv
  OBVIOUS
<1> USE DEF Init
<1>1. TypeOK
  <2>1. TransportType
    <3>1. got \in 0..BufUnits /\ answer \in Answers
      BY TransportAssumption DEF Answers
    <3>2. QED
      BY <3>1 DEF TransportType, Pointers
  <2>2. out \in Outputs /\ rows \in Seq(Outputs)
    BY DEF Outputs, Empty
  <2>3. /\ literal \in BOOLEAN /\ resolved \in BOOLEAN
        /\ token \in BOOLEAN /\ managed \in BOOLEAN
    OBVIOUS
  <2>4. engines \in 0..1 /\ queried \in Nat
    OBVIOUS
  <2>5. QED
    BY <2>1, <2>2, <2>3, <2>4 DEF TypeOK
<1>2. Holds
  BY DEF Holds, Opening
<1>3. Counts
  <2>1. Answered(rows) = {}
    BY DEF Answered
  <2>2. Unasked = 0 /\ Plain = 0 /\ Unrowed = 0
    BY DEF Unasked, Plain, Unrowed, Opening
  <2>3. QED
    BY <2>1, <2>2, FS_EmptySet DEF Counts
<1>4. QED
  BY <1>1, <1>2, <1>3 DEF Inv

\* Types: an SSL object is freed only while one is held, and no read is made
\* of a full buffer.
LEMMA TypeStep == ASSUME Inv, [Next]_vars PROVE TypeOK'
<1> USE TransportAssumption DEF Inv, TypeOK, TransportType
<1>1. CASE Begin
  <2>1. engines' \in 0..1
    BY <1>1 DEF Begin, Holds
  <2>2. TransportType'
    BY <1>1 DEF Begin, Pointers, reply
  <2>3. managed' \in BOOLEAN /\ resolved' \in BOOLEAN
    BY <1>1, ZenonT(60) DEF Begin, Register
  <2>4. QED
    BY <1>1, <2>1, <2>2, <2>3 DEF Begin
<1>2. CASE ResolveUnasked
  BY <1>2 DEF ResolveUnasked, Register, conn, reply
<1>3. CASE ResolveAsk
  BY <1>3 DEF ResolveAsk, reply, outer, OpenSock
<1>4. CASE ResolveDone
  BY <1>4 DEF ResolveDone, Register, reply
<1>5. CASE DelayCancelled
  BY <1>5 DEF DelayCancelled, conn, reply, outer
<1>6. CASE DelayEnds
  BY <1>6 DEF DelayEnds, conn, reply, outer
<1>7. CASE CheckCancelled
  <2>1. engines' \in 0..1
    BY <1>7 DEF CheckCancelled, Row, Holds
  <2>2. rows' \in Seq(Outputs)
    BY <1>7 DEF CheckCancelled, Row, Outputs, Empty
  <2>3. TransportType' /\ managed' \in BOOLEAN
    BY <1>7 DEF CheckCancelled, conn, reply
  <2>4. QED
    BY <1>7, <2>1, <2>2, <2>3 DEF CheckCancelled
<1>8. CASE Check
  BY <1>8 DEF Check, conn, reply, outer
<1>9. CASE Enter
  BY <1>9 DEF Enter, conn, reply, Outputs, Junk
<1>10. CASE NoSocket
  BY <1>10 DEF NoSocket, conn, reply, outer
<1>11. CASE Socket
  BY <1>11 DEF Socket, reply, outer, OpenSock
<1>12. CASE ConnectFails
  BY <1>12 DEF ConnectFails, reply, outer
<1>13. CASE Connect
  BY <1>13 DEF Connect, conn, reply, outer
<1>14. CASE HandshakeDone
  BY <1>14 DEF HandshakeDone, reply, outer, Pointers
<1>15. CASE HandshakeFails
  BY <1>15 DEF HandshakeFails, reply, outer
<1>16. CASE Query
  <2>1. CASE QueryCancelled("judge")
    <3>1. tls' \in Nat
      <4>1. Cardinality(fds) \in Nat /\ Cardinality(fds) - 1 \in Nat
        BY <2>1, Unsent, Closed, Held, FS_CardinalityType DEF Counts, Holds
      <4>2. QED
        BY <2>1, <4>1, Unsent DEF Counts, Plain, Opening
    <3>2. TransportType'
      BY <2>1, <3>1, Unsent DEF Answers
    <3>3. QED
      BY <1>16, <3>2 DEF Query
  <2>2. CASE QueryUnsent("judge")
    <3>1. tls' \in Nat
      <4>1. Cardinality(fds) \in Nat /\ Cardinality(fds) - 1 \in Nat
        BY <2>2, Unsent, Closed, Held, FS_CardinalityType DEF Counts, Holds
      <4>2. QED
        BY <2>2, <4>1, Unsent DEF Counts, Plain, Opening
    <3>2. TransportType'
      BY <2>2, <3>1, Unsent DEF Answers
    <3>3. QED
      BY <1>16, <3>2 DEF Query
  <2>3. CASE QueryOnNull
    BY <1>16, <2>3 DEF Query, QueryOnNull, conn, reply
  <2>4. CASE QuerySent
    BY <1>16, <2>4 DEF Query, QuerySent, conn, Answers
  <2>5. CASE ReadPart("judge")
    BY <1>16, <2>5 DEF Query, ReadPart, conn, Holds
  <2>6. CASE ReadHeaders("judge")
    BY <1>16, <2>6 DEF Query, ReadHeaders, conn
  <2>7. CASE ReadEnd("judge")
    BY <1>16, <2>7 DEF Query, ReadEnd, conn, reply
  <2>8. QED
    BY <1>16, <2>1, <2>2, <2>3, <2>4, <2>5, <2>6, <2>7 DEF Query, InterfaceScan
<1>17. CASE JudgeForeign
  BY <1>17 DEF JudgeForeign, conn, reply, outer
<1>18. CASE Judge
  BY <1>18 DEF Judge, conn, reply, Outputs, Answers
<1>19. CASE Back
  <2>1. engines' \in 0..1
    BY <1>19 DEF Back, Row, Holds
  <2>2. rows' \in Seq(Outputs)
    BY <1>19 DEF Back, Row, Outputs, Empty
  <2>3. TransportType' /\ managed' \in BOOLEAN
    BY <1>19 DEF Back, conn, reply
  <2>4. QED
    BY <1>19, <2>1, <2>2, <2>3 DEF Back
<1>20. CASE Save
  BY <1>20 DEF Save, conn, reply, outer
<1>21. CASE Cancel
  BY <1>21, ZenonT(30) DEF Cancel, conn, reply
<1>22. CASE UNCHANGED vars
  BY <1>22 DEF vars
<1>23. QED
  BY <1>1, <1>2, <1>3, <1>4, <1>5, <1>6, <1>7, <1>8, <1>9, <1>10, <1>11, <1>12,
     <1>13, <1>14, <1>15, <1>16, <1>17, <1>18, <1>19, <1>20, <1>21, <1>22 DEF Next, Step, Finished

\* What each control point holds.
LEMMA HoldsStep == ASSUME Inv, [Next]_vars PROVE Holds'
<1> USE TransportAssumption DEF Inv, TypeOK, TransportType, Holds, Opening
<1>1. CASE Begin
  BY <1>1 DEF Begin, Register, reply
<1>2. CASE ResolveUnasked
  BY <1>2 DEF ResolveUnasked, Register, conn, reply
<1>3. CASE ResolveAsk
  BY <1>3, Opened DEF ResolveAsk, reply, outer, Counts
<1>4. CASE ResolveDone
  BY <1>4 DEF ResolveDone, Register, reply
<1>5. CASE DelayCancelled
  BY <1>5 DEF DelayCancelled, conn, reply, outer
<1>6. CASE DelayEnds
  BY <1>6 DEF DelayEnds, conn, reply, outer
<1>7. CASE CheckCancelled
  BY <1>7 DEF CheckCancelled, Row, conn, reply
<1>8. CASE Check
  BY <1>8 DEF Check, conn, reply, outer
<1>9. CASE Enter
  BY <1>9 DEF Enter, conn, reply
<1>10. CASE NoSocket
  BY <1>10 DEF NoSocket, conn, reply, outer
<1>11. CASE Socket
  BY <1>11, Opened DEF Socket, reply, outer, Counts
<1>12. CASE ConnectFails
  BY <1>12 DEF ConnectFails, reply, outer
<1>13. CASE Connect
  BY <1>13 DEF Connect, conn, reply, outer
<1>14. CASE HandshakeDone
  BY <1>14 DEF HandshakeDone, reply, outer
<1>15. CASE HandshakeFails
  BY <1>15 DEF HandshakeFails, reply, outer
<1>16. CASE Query
  <2>1. CASE QueryCancelled("judge")
    <3>1. pc' = "judge" /\ pc # "idle" /\ pc # "saved" /\ UNCHANGED <<out, engines>> /\ out \in Junk
      BY <1>16, <2>1, Unsent DEF Query
    <3>2. QED
      BY <3>1
  <2>2. CASE QueryUnsent("judge")
    <3>1. pc' = "judge" /\ pc # "idle" /\ pc # "saved" /\ UNCHANGED <<out, engines>> /\ out \in Junk
      BY <1>16, <2>2, Unsent DEF Query
    <3>2. QED
      BY <3>1
  <2>3. CASE QueryOnNull
    BY <1>16, <2>3 DEF Query, QueryOnNull, conn, reply
  <2>4. CASE QuerySent
    BY <1>16, <2>4 DEF Query, QuerySent, conn
  <2>5. CASE ReadPart("judge")
    BY <1>16, <2>5 DEF Query, ReadPart, conn
  <2>6. CASE ReadHeaders("judge")
    BY <1>16, <2>6 DEF Query, ReadHeaders, conn
  <2>7. CASE ReadEnd("judge")
    BY <1>16, <2>7 DEF Query, ReadEnd, conn, reply
  <2>8. QED
    BY <1>16, <2>1, <2>2, <2>3, <2>4, <2>5, <2>6, <2>7 DEF Query, InterfaceScan
<1>17. CASE JudgeForeign
  BY <1>17 DEF JudgeForeign, conn, reply, outer
<1>18. CASE Judge
  BY <1>18 DEF Judge, conn, reply
<1>19. CASE Back
  BY <1>19 DEF Back, Row, conn, reply
<1>20. CASE Save
  BY <1>20 DEF Save, conn, reply, outer
<1>21. CASE Cancel
  BY <1>21 DEF Cancel, conn, reply
<1>22. CASE UNCHANGED vars
  BY <1>22 DEF vars
<1>23. QED
  BY <1>1, <1>2, <1>3, <1>4, <1>5, <1>6, <1>7, <1>8, <1>9, <1>10, <1>11, <1>12,
     <1>13, <1>14, <1>15, <1>16, <1>17, <1>18, <1>19, <1>20, <1>21, <1>22 DEF Next, Step, Finished

\* Descriptors, SSL objects and answered rows keep in step.
LEMMA CountsStep == ASSUME Inv, [Next]_vars PROVE Counts'
<1> USE TransportAssumption, Held, AnsweredFinite
    DEF Inv, TypeOK, TransportType, Holds, Counts, Opening, Unasked, Plain, Unrowed, Unknown, IsAnswer
<1>1. CASE Begin
  BY <1>1 DEF Begin, Register, reply
<1>2. CASE ResolveUnasked
  BY <1>2 DEF ResolveUnasked, Register, conn, reply
<1>3. CASE ResolveAsk
  BY <1>3, Opened DEF ResolveAsk, reply, outer
<1>4. CASE ResolveDone
  BY <1>4, Closed DEF ResolveDone, Register, reply
<1>5. CASE DelayCancelled
  BY <1>5 DEF DelayCancelled, conn, reply, outer
<1>6. CASE DelayEnds
  BY <1>6 DEF DelayEnds, conn, reply, outer
<1>7. CASE CheckCancelled
  <2>1. UNCHANGED <<fds, tls, https, queried>> /\ pc' = "idle"
    BY <1>7 DEF CheckCancelled, Row, conn
  <2>2. PICK r \in Outputs : rows' = Append(rows, r) /\ ~IsAnswer(r)
    BY <1>7 DEF CheckCancelled, Row, Outputs, Empty
  <2>3. /\ Cardinality(Answered(rows')) <= Cardinality(Answered(rows)) + Unrowed
        /\ Cardinality(Answered(rows')) \in Nat
    BY <2>2, AnsweredAppend, AnsweredFinite, <1>7 DEF CheckCancelled
  <2>4. Unasked' = 0 /\ Plain' = 0 /\ Unrowed' = 0 /\ Unasked = 0 /\ Plain = 0
    BY <2>1, <1>7 DEF CheckCancelled
  <2>5. QED
    BY <2>1, <2>3, <2>4, Held, AnsweredFinite
<1>8. CASE Check
  BY <1>8 DEF Check, conn, reply, outer
<1>9. CASE Enter
  <2>1. UNCHANGED <<fds, tls, https, queried, rows>> /\ pc' \in {"socket", "back"} /\ pc = "enter"
    BY <1>9 DEF Enter, conn
  <2>2. ~IsAnswer(out')
    BY <1>9 DEF Enter, Junk
  <2>3. QED
    BY <2>1, <2>2
<1>10. CASE NoSocket
  BY <1>10, JunkIsNone DEF NoSocket, conn, reply, outer
<1>11. CASE Socket
  BY <1>11, Opened DEF Socket, reply, outer
<1>12. CASE ConnectFails
  <2>1. /\ fds' = fds \ {sock} /\ sock \in fds /\ pc' = "back"
        /\ UNCHANGED <<tls, https, queried, rows, out>>
    BY <1>12 DEF ConnectFails, outer
  <2>2. IsFiniteSet(fds') /\ Cardinality(fds') = Cardinality(fds) - 1
    BY <2>1, Closed
  <2>3. ~IsAnswer(out')
    BY <1>12, <2>1, JunkIsNone DEF ConnectFails
  <2>4. QED
    BY <1>12, <2>1, <2>2, <2>3 DEF ConnectFails
<1>13. CASE Connect
  BY <1>13 DEF Connect, conn, reply, outer
<1>14. CASE HandshakeDone
  BY <1>14 DEF HandshakeDone, reply, outer
<1>15. CASE HandshakeFails
  <2>1. /\ fds' = fds \ {sock} /\ sock \in fds /\ pc' = "back"
        /\ UNCHANGED <<tls, https, queried, rows, out>>
    BY <1>15 DEF HandshakeFails, outer
  <2>2. IsFiniteSet(fds') /\ Cardinality(fds') = Cardinality(fds) - 1
    BY <2>1, Closed
  <2>3. ~IsAnswer(out')
    BY <1>15, <2>1, JunkIsNone DEF HandshakeFails
  <2>4. QED
    BY <1>15, <2>1, <2>2, <2>3 DEF HandshakeFails
<1>16. CASE Query
  <2>1. CASE QueryCancelled("judge")
    <3>1. /\ fds' = fds \ {sock} /\ sock \in fds /\ pc \in {"query", "read"}
          /\ tls' = IF https THEN tls - 1 ELSE tls
          /\ pc' = "judge" /\ answer' = Unknown /\ https' = https
      BY <2>1, Unsent DEF Holds
    <3>2. rows' = rows /\ queried' \in {queried, queried + 1} /\ (pc = "query" => queried' = queried)
      BY <1>16, <3>1 DEF Query
    <3>3. IsFiniteSet(fds') /\ Cardinality(fds') = Cardinality(fds) - 1
      BY <3>1, Closed
    <3>4. Unasked' = 0 /\ Plain' = 0 /\ Plain = 0 /\ Unrowed' = 0 /\ Unrowed = 1 /\ Unasked \in {0, 1}
      BY <3>1
    <3>5. QED
      BY <3>1, <3>2, <3>3, <3>4, Held, AnsweredFinite
  <2>2. CASE QueryUnsent("judge")
    <3>1. /\ fds' = fds \ {sock} /\ sock \in fds /\ pc \in {"query", "read"}
          /\ tls' = IF https THEN tls - 1 ELSE tls
          /\ pc' = "judge" /\ answer' = Unknown /\ https' = https
      BY <2>2, Unsent DEF Holds
    <3>2. rows' = rows /\ queried' \in {queried, queried + 1} /\ (pc = "query" => queried' = queried)
      BY <1>16, <3>1 DEF Query
    <3>3. IsFiniteSet(fds') /\ Cardinality(fds') = Cardinality(fds) - 1
      BY <3>1, Closed
    <3>4. Unasked' = 0 /\ Plain' = 0 /\ Plain = 0 /\ Unrowed' = 0 /\ Unrowed = 1 /\ Unasked \in {0, 1}
      BY <3>1
    <3>5. QED
      BY <3>1, <3>2, <3>3, <3>4, Held, AnsweredFinite
  <2>3. CASE QueryOnNull
    BY <1>16, <2>3 DEF Query, QueryOnNull, conn, reply
  <2>4. CASE QuerySent
    BY <1>16, <2>4 DEF Query, QuerySent, conn
  <2>5. CASE ReadPart("judge")
    BY <1>16, <2>5 DEF Query, ReadPart, conn
  <2>6. CASE ReadHeaders("judge")
    BY <1>16, <2>6 DEF Query, ReadHeaders, conn
  <2>7. CASE ReadEnd("judge")
    BY <1>16, <2>7 DEF Query, ReadEnd, conn, reply
  <2>8. QED
    BY <1>16, <2>1, <2>2, <2>3, <2>4, <2>5, <2>6, <2>7 DEF Query, InterfaceScan
<1>17. CASE JudgeForeign
  BY <1>17 DEF JudgeForeign, conn, reply, outer
<1>18. CASE Judge
  BY <1>18 DEF Judge, conn, reply
<1>19. CASE Back
  <2>1. UNCHANGED <<fds, tls, https, queried>> /\ pc' = "idle"
    BY <1>19 DEF Back, Row, conn
  <2>2. PICK r \in Outputs : rows' = Append(rows, r) /\ (IsAnswer(r) => r = out)
    BY <1>19 DEF Back, Row, Outputs, Empty
  <2>3. /\ Cardinality(Answered(rows')) <= Cardinality(Answered(rows)) + Unrowed
        /\ Cardinality(Answered(rows')) \in Nat
    BY <2>2, AnsweredAppend, AnsweredFinite, <1>19 DEF Back
  <2>4. Unasked' = 0 /\ Plain' = 0 /\ Unrowed' = 0 /\ Unasked = 0 /\ Plain = 0
    BY <2>1, <1>19 DEF Back
  <2>5. QED
    BY <2>1, <2>3, <2>4, Held, AnsweredFinite
<1>20. CASE Save
  BY <1>20 DEF Save, conn, reply, outer
<1>21. CASE Cancel
  BY <1>21 DEF Cancel, conn, reply
<1>22. CASE UNCHANGED vars
  BY <1>22 DEF vars
<1>23. QED
  BY <1>1, <1>2, <1>3, <1>4, <1>5, <1>6, <1>7, <1>8, <1>9, <1>10, <1>11, <1>12,
     <1>13, <1>14, <1>15, <1>16, <1>17, <1>18, <1>19, <1>20, <1>21, <1>22 DEF Next, Step, Finished

\* The strengthened invariant of the direct scan.
THEOREM InvHolds == Spec => []Inv
<1>1. Inv /\ [Next]_vars => Inv'
  BY TypeStep, HoldsStep, CountsStep DEF Inv
<1>2. QED
  BY InitInv, <1>1, PTL DEF Spec

(***************************************************************************)
(* What it gives.                                                          *)
(***************************************************************************)

\* Every variable of the direct scan keeps its type.
THEOREM TypeCorrect == Spec => []TypeOK
<1>1. Inv => TypeOK
  BY DEF Inv
<1>2. QED
  BY <1>1, InvHolds, PTL

\* Between calls the scan holds at most a connection for each query it sent,
\* each with its SSL object over HTTPS.
THEOREM LeakBounded == Spec => []LeaksPerQuery
<1>1. Inv => LeaksPerQuery
  <2> SUFFICES ASSUME Inv, AtRest PROVE LeaksPerQuery
    BY DEF LeaksPerQuery
  <2>1. Unasked = 0 /\ Plain = 0
    BY DEF AtRest, Unasked, Plain, Opening
  <2>2. Cardinality(fds) <= queried /\ tls = (IF https THEN Cardinality(fds) ELSE 0)
    BY <2>1, Held DEF Inv, TypeOK, Counts
  <2>3. engines = IF pc = "aborted" THEN 1 ELSE 0
    BY DEF Inv, Holds, AtRest
  <2>4. QED
    BY <2>2, <2>3 DEF LeaksPerQuery
<1>2. QED
  BY <1>1, InvHolds, PTL

\* No list, however long, records more answers than the process may hold
\* descriptors, whatever statuses its other rows were left with.
THEOREM AnswersLimited == Spec => []AnswersBounded
<1>1. Inv => AnswersBounded
  <2> SUFFICES ASSUME Inv PROVE AnswersBounded
    OBVIOUS
  <2>1. Cardinality(Answered(rows)) <= Cardinality(fds)
    BY Held, AnsweredFinite DEF Inv, TypeOK, Counts, Unrowed
  <2>2. Cardinality(fds) <= Cardinality(Fd)
    BY DirectScanAssumption, FS_Subset DEF Inv, TypeOK, TransportType
  <2>3. Cardinality(Fd) \in Nat
    BY DirectScanAssumption, FS_CardinalityType
  <2>4. Cardinality(fds) \in Nat /\ Cardinality(Answered(rows)) \in Nat
    BY Held, AnsweredFinite DEF Inv, TypeOK
  <2>5. Cardinality(Answered(rows)) <= Cardinality(Fd)
    BY <2>1, <2>2, <2>3, <2>4
  <2>6. QED
    BY <2>5 DEF AnswersBounded, Answered
<1>2. QED
  BY <1>1, InvHolds, PTL
==============================================================================
