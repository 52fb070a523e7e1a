-------------------------- MODULE BodyCaptureProofs --------------------------
(***************************************************************************)
(* Theorems about BodyCapture, for any replies, however they are cut into  *)
(* segments, and any descriptors, codes, buffer, field and wordlist.       *)
(***************************************************************************)
EXTENDS BodyCapture, SequenceTheorems, WellFoundedInduction, TLAPS

(***************************************************************************)
(* The inductive invariant.  What is handed back depends on what was known *)
(* of the reply after each segment: the end of the headers is where it is  *)
(* in all that has been received, and the status is the one read from some *)
(* earlier part that already had it.                                       *)
(***************************************************************************)

Fields == {"status", "body"}
Rows == [status : Answers \cup {0}, named : BOOLEAN, unset : SUBSET Fields, body : Seq(Units)]

TypeOK ==
    /\ https \in BOOLEAN /\ cancel \in BOOLEAN /\ named \in BOOLEAN
    /\ sock \in Fd \cup {NoFd} /\ fds \subseteq Fd
    /\ ssl \in Pointers /\ tls \in Nat
    /\ got \in 0..BufUnits /\ answer \in Answers \cup {0}
    /\ engine \in BOOLEAN /\ peer \in Seq(Units)
    /\ head \in 0..BufUnits /\ unset \subseteq Fields /\ body \in Seq(Units)
    /\ rows \in Seq(Rows) /\ report \in Seq(Rows) /\ runs \in 0..MaxRuns

\* What is acquired at each control point, and that nothing is misused.
Ledger ==
    /\ faults = {}
    /\ pc \in {"prompt", "word", "enter", "back"} => fds = {} /\ tls = 0
    /\ pc = "enter" => sock = NoFd
    /\ pc \in {"enter", "socket", "connected"} => ssl = "null"
    /\ pc \in {"socket", "connected"} => fds = {sock} \ {NoFd} /\ tls = 0
    /\ pc \in CancelPoints =>
           /\ fds = {sock} \ {NoFd}
           /\ IF https THEN ssl = "live" /\ tls = 1 ELSE tls = 0
    /\ pc \in {"word", "prompt"} => ~engine

\* The headers' end has been seen: the status is what was read at some fill
\* of the buffer from then on.
Seen ==
    /\ head = HeadOf(Received) /\ "status" \notin unset
    /\ \E g \in head..got : answer = StatusOf(SubSeq(peer, 1, g))

Reading ==
    /\ pc \in {"enter", "socket", "connected", "ready", "sent"} =>
           got = 0 /\ head = 0 /\ unset = Fields
    /\ pc \in {"parse", "read", "close"} => got <= Len(peer) /\ "body" \in unset
    /\ pc \in {"parse", "read", "close"} /\ head > 0 => Seen
    /\ pc = "parse" => got > 0
    /\ pc \in {"read", "close"} =>
           head = HeadOf(Received) /\ (got > 0 => "status" \notin unset)

\* What a call that came to its end hands back.
Finishing ==
    pc = "back" /\ ~cancel =>
        \/ got = 0 /\ head = 0
        \/ /\ got > 0 /\ got <= Len(peer) /\ head = HeadOf(Received)
           /\ "status" \notin unset /\ ("body" \in unset <=> head = 0)
           /\ head > 0 => Seen /\ body = SubSeq(peer, head + 1, head + Copied)

Inv == TypeOK /\ Ledger /\ Reading /\ Finishing

(***************************************************************************)
(* Where the headers end and what the status is, in a prefix of a reply.   *)
(***************************************************************************)

\* A set of naturals that is not empty has a least member, and one that is
\* bounded a greatest.
LEMMA Least ==
    ASSUME NEW S, S \subseteq Nat, S # {}
    PROVE  \E m \in S : \A n \in S : m <= n
<1> DEFINE R == OpToRel(<, Nat)
<1>1. IsWellFoundedOn(R, Nat)
  BY NatLessThanWellFounded
<1>2. PICK m \in S : \A n \in S : <<n, m>> \notin R
  BY <1>1, WFMin
<1>3. \A n \in S : ~(n < m)
  BY <1>2 DEF OpToRel
<1>4. QED
  BY <1>3

LEMMA Greatest ==
    ASSUME NEW b \in Nat, NEW S, S \subseteq 0..b, S # {}
    PROVE  \E m \in S : \A n \in S : m >= n
<1> DEFINE D == {b - n : n \in S}
<1>1. D \subseteq Nat /\ D # {}
  <2>1. \A n \in S : b - n \in Nat
    OBVIOUS
  <2>2. QED
    BY <2>1
<1>2. PICK d \in D : \A e \in D : d <= e
  BY <1>1, Least
<1>3. PICK m \in S : d = b - m
  OBVIOUS
<1>4. ASSUME NEW n \in S PROVE m >= n
  <2>1. d <= b - n
    BY <1>2
  <2>2. QED
    BY <1>3, <2>1
<1>5. QED
  BY <1>4

\* A prefix has the units of the whole.
LEMMA Prefix ==
    ASSUME NEW p \in Seq(Units), NEW g \in 0..Len(p)
    PROVE  /\ SubSeq(p, 1, g) \in Seq(Units) /\ Len(SubSeq(p, 1, g)) = g
           /\ DOMAIN SubSeq(p, 1, g) = 1..g
           /\ \A i \in 1..g : SubSeq(p, 1, g)[i] = p[i]
OBVIOUS

\* So has what is after the first h.
LEMMA Suffix ==
    ASSUME NEW p \in Seq(Units), NEW h \in 0..Len(p), NEW k \in h..Len(p)
    PROVE  /\ SubSeq(p, h + 1, k) \in Seq(Units) /\ Len(SubSeq(p, h + 1, k)) = k - h
           /\ \A i \in 1..(k - h) : SubSeq(p, h + 1, k)[i] = p[h + i]
<1>1. \A i \in h + 1 .. k : i \in 1..Len(p)
  OBVIOUS
<1>2. SubSeq(p, h + 1, k) \in Seq(Units) /\ Len(SubSeq(p, h + 1, k)) = k - h
  BY <1>1
<1>3. ASSUME NEW i \in 1..(k - h) PROVE SubSeq(p, h + 1, k)[i] = p[h + i]
  <2>1. SubSeq(p, h + 1, k)[i] = p[(h + 1) + i - 1]
    BY <1>1, <1>2
  <2>2. (h + 1) + i - 1 = h + i
    OBVIOUS
  <2>3. QED
    BY <2>1, <2>2
<1>4. QED
  BY <1>2, <1>3

\* HeadOf is the first blank line,
LEMMA HeadIs ==
    ASSUME NEW s \in Seq(Units), NEW h \in 1..Len(s), s[h] = Blank,
           \A i \in 1..(h - 1) : s[i] # Blank
    PROVE  HeadOf(s) = h
<1> DEFINE ends == {i \in DOMAIN s : s[i] = Blank}
<1>1. h \in ends /\ \A j \in ends : h <= j
  OBVIOUS
<1>2. \A i \in ends : (\A j \in ends : i <= j) => i = h
  BY <1>1
<1>3. (CHOOSE i \in ends : \A j \in ends : i <= j) = h
  BY <1>1, <1>2
<1>4. QED
  BY <1>1, <1>3 DEF HeadOf

\* and 0 when there is none.
LEMMA HeadWhere ==
    ASSUME NEW s \in Seq(Units)
    PROVE  \/ HeadOf(s) = 0 /\ \A i \in 1..Len(s) : s[i] # Blank
           \/ /\ HeadOf(s) \in 1..Len(s) /\ s[HeadOf(s)] = Blank
              /\ \A i \in 1..(HeadOf(s) - 1) : s[i] # Blank
<1> DEFINE ends == {i \in DOMAIN s : s[i] = Blank}
<1>1. CASE ends = {}
  BY <1>1 DEF HeadOf
<1>2. CASE ends # {}
  <2>1. PICK h \in ends : \A j \in ends : h <= j
    <3>1. ends \subseteq Nat
      OBVIOUS
    <3>2. QED
      BY <1>2, <3>1, Least
  <2>2. h \in 1..Len(s) /\ s[h] = Blank /\ \A i \in 1..(h - 1) : s[i] # Blank
    BY <2>1
  <2>3. QED
    BY <2>2, HeadIs
<1>3. QED
  BY <1>1, <1>2

\* Once it is in a part of the reply it is in the same place in more of it.
LEMMA HeadStable ==
    ASSUME NEW p \in Seq(Units), NEW g \in 0..Len(p), NEW k \in g..Len(p),
           HeadOf(SubSeq(p, 1, g)) # 0
    PROVE  HeadOf(SubSeq(p, 1, k)) = HeadOf(SubSeq(p, 1, g))
<1> DEFINE h == HeadOf(SubSeq(p, 1, g))
<1>1. /\ SubSeq(p, 1, g) \in Seq(Units) /\ Len(SubSeq(p, 1, g)) = g
      /\ \A i \in 1..g : SubSeq(p, 1, g)[i] = p[i]
  BY Prefix
<1>2. /\ SubSeq(p, 1, k) \in Seq(Units) /\ Len(SubSeq(p, 1, k)) = k
      /\ \A i \in 1..k : SubSeq(p, 1, k)[i] = p[i]
  BY Prefix
<1>3. h \in 1..g /\ p[h] = Blank /\ \A i \in 1..(h - 1) : p[i] # Blank
  <2> DEFINE s == SubSeq(p, 1, g)
  <2>1. /\ h \in 1..Len(s) /\ s[h] = Blank
        /\ \A i \in 1..(h - 1) : s[i] # Blank
    BY <1>1, HeadWhere
  <2>2. h \in 1..g /\ \A i \in 1..(h - 1) : i \in 1..g
    BY <1>1, <2>1
  <2>3. QED
    BY <1>1, <2>1, <2>2
<1>4. /\ h \in 1..Len(SubSeq(p, 1, k)) /\ SubSeq(p, 1, k)[h] = Blank
      /\ \A i \in 1..(h - 1) : SubSeq(p, 1, k)[i] # Blank
  BY <1>2, <1>3
<1>5. QED
  BY <1>2, <1>4, HeadIs

\* The marks "HTTP/1.1 " of a text, and the status after the last of them.
Marks(s) == {i \in 2..Len(s) : s[i - 1] = Half1 /\ s[i] = Half2}
Newest(M) == CHOOSE i \in M : \A j \in M : i >= j

LEMMA StatusByMarks ==
    ASSUME NEW s
    PROVE  StatusOf(s) = IF Marks(s) = {} THEN Foreign
                         ELSE IF Newest(Marks(s)) < Len(s) /\ s[Newest(Marks(s)) + 1] \in Codes
                              THEN s[Newest(Marks(s)) + 1]
                              ELSE Unknown
BY DEF StatusOf, Marks, Newest

\* A body without a mark does not change the status of the headers before it.
LEMMA StatusStable ==
    ASSUME NEW p \in Seq(Units), NEW h \in 1..Len(p), h = HeadOf(p),
           NEW g \in h..Len(p), ~Mentions(BodyOf(p))
    PROVE  StatusOf(SubSeq(p, 1, g)) = StatusOf(SubSeq(p, 1, h))
<1> DEFINE a == SubSeq(p, 1, g)
           b == SubSeq(p, 1, h)
           M == Marks(b)
<1>1. /\ Len(a) = g /\ Len(b) = h
      /\ \A i \in 1..g : a[i] = p[i]
      /\ \A i \in 1..h : b[i] = p[i]
  BY Prefix
<1>2. p[h] = Blank
  BY HeadWhere
<1>3. ASSUME NEW i \in 2..Len(p), i > h, p[i - 1] = Half1, p[i] = Half2 PROVE FALSE
  <2>1. i - 1 # h
    BY <1>2, <1>3 DEF Blank, Half1
  <2>2. /\ Len(BodyOf(p)) = Len(p) - h
        /\ BodyOf(p)[i - h] = p[i] /\ BodyOf(p)[i - h - 1] = p[i - 1]
    <3>1. BodyOf(p) = SubSeq(p, h + 1, Len(p))
      BY DEF BodyOf
    <3>2. i - h \in 1..(Len(p) - h) /\ i - h - 1 \in 1..(Len(p) - h)
      BY <1>3, <2>1
    <3>3. /\ Len(BodyOf(p)) = Len(p) - h
          /\ \A j \in 1..(Len(p) - h) : BodyOf(p)[j] = p[h + j]
      BY <3>1, Suffix
    <3>4. BodyOf(p)[i - h] = p[h + (i - h)]
      BY <3>2, <3>3, Zenon
    <3>5. BodyOf(p)[i - h - 1] = p[h + (i - h - 1)]
      BY <3>2, <3>3, Zenon
    <3>6. h + (i - h) = i /\ h + (i - h - 1) = i - 1
      BY <3>2, SMTT(30)
    <3>7. QED
      BY <3>3, <3>4, <3>5, <3>6
  <2>3. i - h \in 2..Len(BodyOf(p)) /\ BodyOf(p)[(i - h) - 1] = Half1
    <3>1. i - h \in 2..(Len(p) - h)
      BY <1>3, <2>1
    <3>2. BodyOf(p)[(i - h) - 1] = Half1
      BY <1>3, <2>2, Zenon
    <3>3. QED
      BY <2>2, <3>1, <3>2, Zenon
  <2>4. QED
    BY <1>3, <2>2, <2>3 DEF Mentions
<1>4. \A i \in M : i \in 2..(h - 1)
  BY <1>1, <1>2 DEF Marks, Blank, Half2
<1>5. Marks(a) = M
  <2>1. \A i \in Marks(a) : i \in 2..g /\ p[i - 1] = Half1 /\ p[i] = Half2
    BY <1>1 DEF Marks
  <2>2. \A i \in Marks(a) : i \in 2..h
    BY <1>3, <2>1
  <2>3. Marks(a) \subseteq M
    BY <1>1, <2>1, <2>2 DEF Marks
  <2>4. M \subseteq Marks(a)
    BY <1>1 DEF Marks
  <2>5. QED
    BY <2>3, <2>4
<1>6. CASE M = {}
  BY <1>5, <1>6, StatusByMarks
<1>7. CASE M # {}
  <2>1. \E m \in M : \A n \in M : m >= n
    <3>1. M \subseteq 0..h /\ h \in Nat
      BY <1>4
    <3>2. QED
      BY <1>7, <3>1, Greatest
  <2>2. Newest(M) \in M
    BY <2>1 DEF Newest
  <2>3. Newest(M) \in 2..(h - 1)
    BY <1>4, <2>2
  <2>4. a[Newest(M) + 1] = b[Newest(M) + 1] /\ Newest(M) < Len(a) /\ Newest(M) < Len(b)
    BY <1>1, <2>3
  <2>5. QED
    BY <1>5, <1>7, <2>4, StatusByMarks
<1>8. QED
  BY <1>6, <1>7

\* A status read from any text is one of the answers.
LEMMA StatusType == ASSUME NEW s PROVE StatusOf(s) \in Answers
BY StatusByMarks DEF Answers

\* What has been received is a prefix, and its headers end within it.
LEMMA ReceivedIs ==
    ASSUME TypeOK, got <= Len(peer)
    PROVE  /\ Received \in Seq(Units) /\ Len(Received) = got
           /\ HeadOf(Received) \in 0..got
<1>1. got \in 0..Len(peer)
  BY DEF TypeOK
<1>2. Received \in Seq(Units) /\ Len(Received) = got
  BY <1>1, Prefix DEF TypeOK, Received
<1>3. QED
  BY <1>1, <1>2, HeadWhere

(***************************************************************************)
(* Facts used by several cases.                                            *)
(***************************************************************************)

\* The release block of a scan gives back all that is held and misuses
\* nothing.
LEMMA Released ==
    ASSUME Inv, pc \in CancelPoints, Release
    PROVE  tls' = 0 /\ fds' = {} /\ faults' = {}
<1>1. /\ fds = {sock} \ {NoFd} /\ faults = {}
      /\ IF https THEN ssl = "live" /\ tls = 1 ELSE tls = 0
  BY DEF Inv, Ledger
<1>2. tls' = 0 /\ fds' = {}
  BY <1>1 DEF Release, ReleaseAfter
<1>3. CloseFault = {} /\ (https => FreeFault = {})
  BY <1>1 DEF CloseFault, FreeFault
<1>4. QED
  BY <1>1, <1>2, <1>3 DEF Release, ReleaseAfter

\* Closing the bare descriptor of a connection not yet made does too.
LEMMA ClosedBare ==
    ASSUME Inv, pc \in {"socket", "connected"}, CloseSock
    PROVE  fds' = {} /\ faults' = {}
BY DEF Inv, Ledger, CloseSock, CloseFault

\* What is known of the reply does not change while it is not read.
LEMMA Same ==
    ASSUME UNCHANGED <<got, peer, head, answer, unset>>
    PROVE  Received' = Received /\ Seen' = Seen
BY DEF Received, Seen

(***************************************************************************)
(* Each part of the invariant is preserved, one case per action.           *)
(***************************************************************************)

\* The invariant holds when the session begins.
LEMMA InitInv == Init => Inv
<1> SUFFICES ASSUME Init PROVE Inv
  OBVIOUS
<1> USE DEF Init
<1>1. TypeOK
  <2>1. got \in 0..BufUnits /\ head \in 0..BufUnits /\ runs \in 0..MaxRuns
    BY TransportAssumption, BodyCaptureAssumption
  <2>2. answer \in Answers \cup {0} /\ ssl \in Pointers /\ tls \in Nat
    BY DEF Answers, Pointers
  <2>3. https \in BOOLEAN /\ cancel \in BOOLEAN /\ named \in BOOLEAN /\ engine \in BOOLEAN
    OBVIOUS
  <2>4. peer \in Seq(Units) /\ body \in Seq(Units) /\ rows \in Seq(Rows) /\ report \in Seq(Rows)
    OBVIOUS
  <2>5. QED
    BY <2>1, <2>2, <2>3, <2>4 DEF TypeOK
<1>2. Ledger /\ Reading /\ Finishing
  BY DEF Ledger, Reading, Finishing, CancelPoints
<1>3. QED
  BY <1>1, <1>2 DEF Inv

\* Types: no segment is read past the buffer and no body copied past the reply.
LEMMA TypeStep == ASSUME Inv, [Next]_vars PROVE TypeOK'
<1> USE DEF Inv, TypeOK
<1>1. CASE StartCapture
  <2>1. runs' \in 0..MaxRuns /\ rows' \in Seq(Rows)
    BY <1>1, BodyCaptureAssumption DEF StartCapture
  <2>2. QED
    BY <1>1, <2>1 DEF StartCapture, conn, reply, inner
<1>2. CASE Begin
  <2>1. https' = https /\ cancel' = FALSE /\ named' = FALSE /\ engine' = TRUE
    BY <1>2 DEF Begin
  <2>2. ssl' \in Pointers /\ answer' \in Answers \cup {0} /\ got' \in 0..BufUnits /\ head' \in 0..BufUnits
    BY <1>2, TransportAssumption DEF Begin, Pointers, Answers
  <2>3. unset' \subseteq Fields /\ body' \in Seq(Units) /\ sock' = NoFd
    BY <1>2 DEF Begin, Fields
  <2>4. UNCHANGED <<fds, tls, peer, rows, report, runs>>
    BY <1>2 DEF Begin
  <2>5. QED
    BY <2>1, <2>2, <2>3, <2>4
<1>3. CASE Back
  <2>1. Row \in Rows
    BY DEF Row, Rows
  <2>2. rows' \in Seq(Rows) /\ peer' \in Seq(Units) /\ engine' = FALSE
    BY <1>3, <2>1 DEF Back
  <2>3. QED
    BY <1>3, <2>2 DEF Back, conn, reply
<1>4. CASE WriteTextResBody
  <2>1. report' \in Seq(Rows)
    BY <1>4 DEF WriteTextResBody, Written
  <2>2. QED
    BY <1>4, <2>1 DEF WriteTextResBody, conn, reply, inner
<1>5. CASE EnterCancelled
  BY <1>5 DEF EnterCancelled, conn, reply, inner, outer
<1>6. CASE Socket
  <2>1. sock' \in Fd \cup {NoFd} /\ fds' \subseteq Fd /\ named' = TRUE
    BY <1>6 DEF Socket, OpenSock
  <2>2. QED
    BY <1>6, <2>1 DEF Socket, inner, outer
<1>7. CASE BareCancelled
  BY <1>7 DEF BareCancelled, CloseSock, reply, inner, outer
<1>8. CASE ConnectFails
  <2>1. fds' \subseteq Fd /\ answer' = 0 /\ named' = FALSE /\ unset' = {} /\ body' = <<>>
    BY <1>8 DEF ConnectFails, CloseSock, Zeroed
  <2>2. answer' \in Answers \cup {0} /\ named' \in BOOLEAN /\ unset' \subseteq Fields
    BY <2>1
  <2>3. body' \in Seq(Units)
    BY <2>1
  <2>4. QED
    BY <1>8, <2>1, <2>2, <2>3 DEF ConnectFails, outer
<1>9. CASE Connect
  BY <1>9 DEF Connect, conn, reply, inner, outer
<1>10. CASE PlainReady
  BY <1>10 DEF PlainReady, conn, reply, inner, outer
<1>11. CASE Handshake
  <2>1. ssl' \in Pointers /\ tls' \in Nat
    BY <1>11 DEF Handshake, Pointers
  <2>2. QED
    BY <1>11, <2>1 DEF Handshake, reply, inner, outer
<1>12. CASE HandshakeFails
  <2>1. fds' \subseteq Fd /\ answer' = 0 /\ named' = FALSE /\ unset' = {} /\ body' = <<>>
    BY <1>12 DEF HandshakeFails, CloseSock, Zeroed
  <2>2. answer' \in Answers \cup {0} /\ named' \in BOOLEAN /\ unset' \subseteq Fields
    BY <2>1
  <2>3. body' \in Seq(Units)
    BY <2>1
  <2>4. QED
    BY <1>12, <2>1, <2>2, <2>3 DEF HandshakeFails, outer
<1>13. CASE ScanCancelled
  <2>1. tls' = 0 /\ fds' = {}
    BY <1>13, Released DEF ScanCancelled, CleanupAt
  <2>2. QED
    BY <1>13, <2>1 DEF ScanCancelled, reply, inner, outer
<1>14. CASE Send
  <2>1. peer' \in Seq(Units)
    <3>1. Replies \subseteq Seq(Units) /\ <<>> \in Seq(Units)
      BY BodyCaptureAssumption
    <3>2. peer' \in Replies \cup {<<>>}
      BY <1>14 DEF Send
    <3>3. QED
      BY <3>1, <3>2
  <2>2. QED
    BY <1>14, <2>1 DEF Send, conn, reply, outer
<1>15. CASE Sent
  BY <1>15 DEF Sent, conn, reply, inner, outer
<1>16. CASE Segment
  <2>1. got' \in 0..BufUnits
    BY <1>16, TransportAssumption DEF Segment, Room
  <2>2. QED
    BY <1>16, <2>1 DEF Segment, conn, inner, outer
<1>17. CASE ReadEnds
  BY <1>17 DEF ReadEnds, conn, reply, inner, outer
<1>18. CASE Parse
  <2>1. HeadOf(Received) \in 0..got
    BY <1>18, ReceivedIs DEF Parse, Reading
  <2>2. head' \in 0..BufUnits /\ answer' \in Answers \cup {0} /\ unset' \subseteq Fields
    BY <1>18, <2>1, StatusType, TransportAssumption DEF Parse
  <2>3. QED
    BY <1>18, <2>2 DEF Parse, conn, outer
<1>19. CASE ParseForeign
  BY <1>19 DEF ParseForeign, conn, reply, inner, outer
<1>20. CASE Close
  <2>1. tls' = 0 /\ fds' = {}
    BY <1>20, Released DEF Close, CancelPoints
  <2>2. body' \in Seq(Units)
    <3>1. CASE head = 0
      BY <1>20, <3>1 DEF Close
    <3>2. CASE head # 0
      <4>1. got <= Len(peer) /\ head \in 1..got
        BY <1>20, <3>2, ReceivedIs DEF Close, Reading
      <4>2. head + Copied \in head..Len(peer)
        BY <4>1, BodyCaptureAssumption DEF Copied
      <4>3. SubSeq(peer, head + 1, head + Copied) \in Seq(Units)
        BY <4>1, <4>2, Suffix
      <4>4. QED
        BY <1>20, <3>2, <4>3 DEF Close
    <3>3. QED
      BY <3>1, <3>2
  <2>3. unset' \subseteq Fields
    BY <1>20 DEF Close
  <2>4. QED
    BY <1>20, <2>1, <2>2, <2>3 DEF Close, reply, outer
<1>21. CASE Cancel
  BY <1>21 DEF Cancel, conn, reply, inner, outer
<1>22. CASE UNCHANGED vars
  BY <1>22 DEF vars
<1>23. QED
  BY <1>1, <1>2, <1>3, <1>4, <1>5, <1>6, <1>7, <1>8, <1>9, <1>10, <1>11, <1>12,
     <1>13, <1>14, <1>15, <1>16, <1>17, <1>18, <1>19, <1>20, <1>21, <1>22 DEF Next, Step, Finished

\* What is acquired is what each control point may hold.
LEMMA LedgerStep == ASSUME Inv, [Next]_vars PROVE Ledger'
<1> USE DEF Inv, TypeOK, Ledger, CancelPoints
<1>1. CASE StartCapture
  BY <1>1 DEF StartCapture, conn, reply, inner
<1>2. CASE Begin
  BY <1>2 DEF Begin
<1>3. CASE Back
  BY <1>3 DEF Back, conn, reply
<1>4. CASE WriteTextResBody
  BY <1>4 DEF WriteTextResBody, conn, reply, inner
<1>5. CASE EnterCancelled
  BY <1>5 DEF EnterCancelled, conn, reply, inner, outer
<1>6. CASE Socket
  <2>1. fds = {} /\ sock = NoFd /\ tls = 0 /\ ssl = "null" /\ faults = {}
    BY <1>6 DEF Socket
  <2>2. CASE OpenSock
    <3>1. PICK f \in Fd : sock' = f /\ fds' = {f}
      BY <2>1, <2>2 DEF OpenSock
    <3>2. fds' = {sock'} \ {NoFd}
      BY <3>1, TransportAssumption
    <3>3. QED
      BY <1>6, <2>1, <3>2 DEF Socket
  <2>3. CASE UNCHANGED <<sock, fds>>
    BY <1>6, <2>1, <2>3 DEF Socket
  <2>4. QED
    BY <1>6, <2>2, <2>3 DEF Socket
<1>7. CASE BareCancelled
  BY <1>7, ClosedBare DEF BareCancelled
<1>8. CASE ConnectFails
  BY <1>8, ClosedBare DEF ConnectFails, outer
<1>9. CASE Connect
  BY <1>9 DEF Connect, conn, reply, inner, outer
<1>10. CASE PlainReady
  BY <1>10 DEF PlainReady, conn, reply, inner, outer
<1>11. CASE Handshake
  BY <1>11 DEF Handshake, reply, inner, outer
<1>12. CASE HandshakeFails
  BY <1>12, ClosedBare DEF HandshakeFails, outer
<1>13. CASE ScanCancelled
  BY <1>13, Released DEF ScanCancelled, CleanupAt
<1>14. CASE Send
  BY <1>14 DEF Send, conn, reply, outer
<1>15. CASE Sent
  BY <1>15 DEF Sent, conn, reply, inner, outer
<1>16. CASE Segment
  BY <1>16 DEF Segment, conn, inner, outer
<1>17. CASE ReadEnds
  BY <1>17 DEF ReadEnds, conn, reply, inner, outer
<1>18. CASE Parse
  BY <1>18 DEF Parse, conn, outer
<1>19. CASE ParseForeign
  BY <1>19 DEF ParseForeign, conn, reply, inner, outer
<1>20. CASE Close
  BY <1>20, Released DEF Close
<1>21. CASE Cancel
  BY <1>21 DEF Cancel, conn, reply, inner, outer
<1>22. CASE UNCHANGED vars
  BY <1>22 DEF vars
<1>23. QED
  BY <1>1, <1>2, <1>3, <1>4, <1>5, <1>6, <1>7, <1>8, <1>9, <1>10, <1>11, <1>12,
     <1>13, <1>14, <1>15, <1>16, <1>17, <1>18, <1>19, <1>20, <1>21, <1>22 DEF Next, Step, Finished

\* What is known of the reply as it comes.
LEMMA ReadingStep == ASSUME Inv, [Next]_vars PROVE Reading'
<1> USE DEF Inv, TypeOK, Reading
<1>1. CASE StartCapture
  BY <1>1 DEF StartCapture, conn, reply, inner
<1>2. CASE Begin
  BY <1>2 DEF Begin, Fields
<1>3. CASE Back
  BY <1>3 DEF Back, conn, reply
<1>4. CASE WriteTextResBody
  BY <1>4 DEF WriteTextResBody, conn, reply, inner
<1>5. CASE EnterCancelled
  BY <1>5 DEF EnterCancelled, conn, reply, inner, outer
<1>6. CASE Socket
  BY <1>6 DEF Socket, inner, outer
<1>7. CASE BareCancelled
  BY <1>7 DEF BareCancelled, CloseSock, reply, inner, outer
<1>8. CASE ConnectFails
  BY <1>8 DEF ConnectFails, CloseSock, Zeroed, outer
<1>9. CASE Connect
  BY <1>9 DEF Connect, conn, reply, inner, outer
<1>10. CASE PlainReady
  BY <1>10 DEF PlainReady, conn, reply, inner, outer
<1>11. CASE Handshake
  BY <1>11 DEF Handshake, reply, inner, outer
<1>12. CASE HandshakeFails
  BY <1>12 DEF HandshakeFails, CloseSock, Zeroed, outer
<1>13. CASE ScanCancelled
  BY <1>13 DEF ScanCancelled
<1>14. CASE Send
  BY <1>14 DEF Send, reply
<1>15. CASE Sent
  <2>1. got = 0 /\ head = 0 /\ unset = Fields /\ UNCHANGED <<got, peer, head, answer, unset>>
    BY <1>15 DEF Sent, reply, inner
  <2>2. HeadOf(Received) = 0
    <3>1. got <= Len(peer)
      BY <2>1
    <3>2. HeadOf(Received) \in 0..0
      BY <2>1, <3>1, ReceivedIs
    <3>3. QED
      BY <3>2
  <2>3. pc' = "read" /\ Received' = Received
    BY <1>15, <2>1, Same DEF Sent
  <2>4. QED
    BY <2>1, <2>2, <2>3 DEF Fields
<1>16. CASE Segment
  <2>1. /\ got' \in got..BufUnits /\ got' > got /\ got' <= Len(peer)
        /\ pc = "read" /\ pc' = "parse" /\ UNCHANGED <<peer, head, answer, unset>>
    BY <1>16, TransportAssumption DEF Segment, Room, inner
  <2>2. ASSUME head > 0 PROVE Seen'
    <3>1. PICK g \in head..got : answer = StatusOf(SubSeq(peer, 1, g))
      BY <2>1, <2>2 DEF Seen
    <3>2. "status" \notin unset /\ head = HeadOf(SubSeq(peer, 1, got))
      BY <2>1, <2>2 DEF Seen, Received
    <3>3. got \in 0..Len(peer) /\ got' \in got..Len(peer) /\ g \in head..got'
      BY <2>1
    <3>4. HeadOf(SubSeq(peer, 1, got')) = head
      BY <2>2, <3>2, <3>3, HeadStable
    <3>5. QED
      BY <2>1, <3>1, <3>2, <3>3, <3>4 DEF Seen, Received
  <2>3. QED
    BY <2>1, <2>2
<1>17. CASE ReadEnds
  BY <1>17, Same DEF ReadEnds, reply, inner
<1>18. CASE Parse
  <2>1. /\ pc = "parse" /\ pc' \in {"close", "read"} /\ UNCHANGED <<got, peer>>
        /\ got > 0 /\ got <= Len(peer) /\ "body" \in unset
    BY <1>18 DEF Parse
  <2>2. Received' = Received /\ HeadOf(Received) \in 0..got
    BY <2>1, ReceivedIs DEF Received
  <2>3. CASE head = 0
    <3>1. /\ answer' = StatusOf(Received) /\ unset' = unset \ {"status"}
          /\ head' = HeadOf(Received)
      BY <1>18, <2>3 DEF Parse, Unparsed
    <3>2. head' > 0 => got \in head'..got'
      BY <2>1, <2>2, <3>1
    <3>3. head' > 0 => Seen'
      BY <2>1, <2>2, <3>1, <3>2 DEF Seen, Received
    <3>4. QED
      BY <2>1, <2>2, <3>1, <3>3
  <2>4. CASE head # 0
    <3>1. UNCHANGED <<got, peer, head, answer, unset>>
      BY <1>18, <2>4 DEF Parse, Unparsed
    <3>2. Seen /\ Seen'
      BY <2>1, <2>4, <3>1, Same
    <3>3. head = HeadOf(Received) /\ "status" \notin unset
      BY <3>2 DEF Seen
    <3>4. QED
      BY <2>1, <2>2, <3>1, <3>2, <3>3
  <2>5. QED
    BY <2>3, <2>4
<1>19. CASE ParseForeign
  BY <1>19 DEF ParseForeign, conn, reply, inner, outer
<1>20. CASE Close
  BY <1>20 DEF Close
<1>21. CASE Cancel
  BY <1>21, Same DEF Cancel, reply, inner
<1>22. CASE UNCHANGED vars
  BY <1>22, Same DEF vars
<1>23. QED
  BY <1>1, <1>2, <1>3, <1>4, <1>5, <1>6, <1>7, <1>8, <1>9, <1>10, <1>11, <1>12,
     <1>13, <1>14, <1>15, <1>16, <1>17, <1>18, <1>19, <1>20, <1>21, <1>22 DEF Next, Step, Finished

\* What a call that was not cancelled hands back.
LEMMA FinishingStep == ASSUME Inv, [Next]_vars PROVE Finishing'
<1> USE DEF Inv, TypeOK, Reading, Finishing
<1>1. CASE StartCapture
  BY <1>1 DEF StartCapture, conn, reply, inner
<1>2. CASE Begin
  BY <1>2 DEF Begin
<1>3. CASE Back
  BY <1>3 DEF Back, conn, reply
<1>4. CASE WriteTextResBody
  BY <1>4 DEF WriteTextResBody, conn, reply, inner
<1>5. CASE EnterCancelled
  BY <1>5 DEF EnterCancelled, conn, reply, inner, outer
<1>6. CASE Socket
  BY <1>6 DEF Socket, inner, outer
<1>7. CASE BareCancelled
  BY <1>7 DEF BareCancelled
<1>8. CASE ConnectFails
  BY <1>8 DEF ConnectFails, CloseSock, Zeroed, outer
<1>9. CASE Connect
  BY <1>9 DEF Connect, conn, reply, inner, outer
<1>10. CASE PlainReady
  BY <1>10 DEF PlainReady, conn, reply, inner, outer
<1>11. CASE Handshake
  BY <1>11 DEF Handshake, reply, inner, outer
<1>12. CASE HandshakeFails
  BY <1>12 DEF HandshakeFails, CloseSock, Zeroed, outer
<1>13. CASE ScanCancelled
  BY <1>13 DEF ScanCancelled
<1>14. CASE Send
  BY <1>14 DEF Send, conn, reply, outer
<1>15. CASE Sent
  BY <1>15 DEF Sent, conn, reply, inner, outer
<1>16. CASE Segment
  BY <1>16 DEF Segment
<1>17. CASE ReadEnds
  BY <1>17 DEF ReadEnds
<1>18. CASE Parse
  BY <1>18 DEF Parse
<1>19. CASE ParseForeign
  BY <1>19 DEF ParseForeign, conn, reply, inner, outer
<1>20. CASE Close
  <2>1. /\ pc' = "back" /\ UNCHANGED <<got, peer, head, answer>> /\ got <= Len(peer)
        /\ head = HeadOf(Received) /\ "body" \in unset
    BY <1>20 DEF Close, reply
  <2>2. Received' = Received /\ HeadOf(Received) \in 0..got /\ Copied' = Copied
    BY <2>1, ReceivedIs DEF Received, Copied
  <2>3. CASE head = 0
    <3>1. unset' = unset
      BY <1>20, <2>3 DEF Close
    <3>2. CASE got = 0
      BY <2>1, <2>3, <3>2
    <3>3. CASE got # 0
      <4>1. got > 0 /\ "status" \notin unset
        BY <1>20, <3>3 DEF Close
      <4>2. QED
        BY <2>1, <2>2, <2>3, <3>1, <4>1
    <3>4. QED
      BY <3>2, <3>3
  <2>4. CASE head # 0
    <3>1. body' = SubSeq(peer, head + 1, head + Copied) /\ unset' = unset \ {"body"}
      BY <1>20, <2>4 DEF Close
    <3>2. Seen
      BY <1>20, <2>4 DEF Close
    <3>3. Seen'
      BY <2>1, <3>1, <3>2 DEF Seen, Received
    <3>4. got > 0 /\ "status" \notin unset
      BY <2>1, <2>2, <2>4, <3>2 DEF Seen
    <3>5. QED
      BY <2>1, <2>2, <2>4, <3>1, <3>3, <3>4
  <2>5. QED
    BY <2>3, <2>4
<1>21. CASE Cancel
  BY <1>21 DEF Cancel
<1>22. CASE UNCHANGED vars
  BY <1>22, Same DEF vars, Copied
<1>23. QED
  BY <1>1, <1>2, <1>3, <1>4, <1>5, <1>6, <1>7, <1>8, <1>9, <1>10, <1>11, <1>12,
     <1>13, <1>14, <1>15, <1>16, <1>17, <1>18, <1>19, <1>20, <1>21, <1>22 DEF Next, Step, Finished

\* The strengthened invariant of the body capture.
THEOREM InvHolds == Spec => []Inv
<1>1. Inv /\ [Next]_vars => Inv'
  BY TypeStep, LedgerStep, ReadingStep, FinishingStep DEF Inv
<1>2. QED
  BY InitInv, <1>1, PTL DEF Spec

(***************************************************************************)
(* What it gives.                                                          *)
(***************************************************************************)

\* Every variable of the body capture keeps its type.
THEOREM TypeCorrect == Spec => []TypeOK
<1>1. Inv => TypeOK
  BY DEF Inv
<1>2. QED
  BY <1>1, InvHolds, PTL

\* Each call closes its descriptor and frees its SSL object, once.
THEOREM ReleaseCorrect == Spec => []AllReleased
<1>1. Inv => AllReleased
  BY DEF Inv, Ledger, AllReleased
<1>2. QED
  BY <1>1, InvHolds, PTL

\* A call that was not cancelled hands back no uninitialised status of a reply
\* it received anything of, and a body exactly when the headers ended.
THEOREM FieldsCorrect == Spec => []FieldsFilled
<1>1. Inv => FieldsFilled
  BY DEF Inv, Finishing, FieldsFilled
<1>2. QED
  BY <1>1, InvHolds, PTL

\* Status and body are the reply's own, however it was cut into segments.
THEOREM CaptureCorrect == Spec => []CaptureIsReplys
<1>1. ASSUME Inv, pc = "back", ~cancel, head > 0
      PROVE  /\ ~Mentions(BodyOf(peer)) => answer = StatusOf(SubSeq(peer, 1, HeadOf(peer)))
             /\ IsPrefix(body, BodyOf(peer)) /\ Len(body) < BodyCap
             /\ Len(body) = BodyCap - 1 \/ body = BodyOf(Received)
  <2>1. /\ peer \in Seq(Units) /\ got \in 0..Len(peer) /\ Seen
        /\ body = SubSeq(peer, head + 1, head + Copied) /\ head = HeadOf(Received)
    BY <1>1 DEF Inv, TypeOK, Finishing
  <2>2. head = HeadOf(peer) /\ head \in 1..got
    <3>1. HeadOf(Received) \in 0..got
      BY <1>1, <2>1, ReceivedIs DEF Inv
    <3>2. HeadOf(SubSeq(peer, 1, Len(peer))) = HeadOf(SubSeq(peer, 1, got))
      <4>1. HeadOf(SubSeq(peer, 1, got)) # 0 /\ Len(peer) \in got..Len(peer)
        BY <1>1, <2>1 DEF Received
      <4>2. QED
        BY <2>1, <4>1, HeadStable
    <3>3. SubSeq(peer, 1, Len(peer)) = peer
      BY <2>1, SubSeqFull
    <3>4. Received = SubSeq(peer, 1, got)
      BY DEF Received
    <3>5. head = HeadOf(peer)
      BY <2>1, <3>2, <3>3, <3>4
    <3>6. head \in 0..got /\ head > 0
      BY <1>1, <2>1, <3>1
    <3>7. QED
      BY <3>5, <3>6
  <2>3. ASSUME ~Mentions(BodyOf(peer))
        PROVE  answer = StatusOf(SubSeq(peer, 1, HeadOf(peer)))
    <3>1. PICK g \in head..got : answer = StatusOf(SubSeq(peer, 1, g))
      BY <2>1 DEF Seen
    <3>2. head \in 1..Len(peer) /\ g \in head..Len(peer)
      BY <2>1, <2>2
    <3>3. StatusOf(SubSeq(peer, 1, g)) = StatusOf(SubSeq(peer, 1, head))
      BY <2>1, <2>2, <2>3, <3>2, StatusStable
    <3>4. QED
      BY <2>2, <3>1, <3>3
  <2>4. /\ Copied \in 0..(got - head) /\ Copied < BodyCap
        /\ Copied = BodyCap - 1 \/ Copied = got - head
    BY <2>1, <2>2, BodyCaptureAssumption DEF Copied
  <2>5. /\ Len(body) = Copied
        /\ \A i \in 1..Copied : body[i] = peer[head + i]
    <3>1. head \in 0..Len(peer) /\ head + Copied \in head..Len(peer)
      <4>1. Len(peer) \in Nat /\ got \in 0..Len(peer)
        BY <2>1
      <4>2. head \in 1..got /\ Copied \in 0..(got - head)
        BY <2>2, <2>4
      <4>3. QED
        BY <4>1, <4>2
    <3>2. (head + Copied) - head = Copied
      BY <2>2, <2>4
    <3>3. QED
      BY <2>1, <3>1, <3>2, Suffix
  <2>6. /\ BodyOf(peer) \in Seq(Units) /\ Len(BodyOf(peer)) = Len(peer) - head
        /\ \A i \in 1..(Len(peer) - head) : BodyOf(peer)[i] = peer[head + i]
    BY <2>1, <2>2, Suffix DEF BodyOf
  <2>7. IsPrefix(body, BodyOf(peer))
    <3> DEFINE whole == BodyOf(peer)
    <3>1. Len(whole) \in Nat /\ Copied \in 0..Len(whole) /\ Copied <= Len(peer) - head
      BY <2>1, <2>2, <2>4, <2>6
    <3>2. /\ SubSeq(whole, 1, Copied) \in Seq(Units) /\ Len(SubSeq(whole, 1, Copied)) = Copied
          /\ \A i \in 1..Copied : SubSeq(whole, 1, Copied)[i] = whole[i]
      BY <2>6, <3>1, Prefix
    <3>3. \A i \in 1..Copied : whole[i] = body[i]
      BY <2>5, <2>6, <3>1
    <3>4. body \in Seq(Units)
      BY <1>1 DEF Inv, TypeOK
    <3>5. SubSeq(whole, 1, Copied) = body
      BY <2>5, <3>2, <3>3, <3>4, SeqEqual
    <3>6. SubSeq(body, 1, Len(body)) = body
      BY <3>4, SubSeqFull
    <3>7. QED
      BY <2>5, <3>1, <3>5, <3>6 DEF IsPrefix
  <2>8. ASSUME Copied = got - head PROVE body = BodyOf(Received)
    <3>1. BodyOf(Received) = SubSeq(Received, head + 1, got)
      BY <1>1, <2>1, ReceivedIs DEF BodyOf, Inv
    <3>2. SubSeq(Received, head + 1, got) = SubSeq(peer, head + 1, got)
      <4> DEFINE r == SubSeq(Received, head + 1, got)
                 s == SubSeq(peer, head + 1, got)
      <4>1. /\ Received \in Seq(Units) /\ Len(Received) = got
            /\ \A i \in 1..got : Received[i] = peer[i]
        BY <1>1, <2>1, ReceivedIs, Prefix DEF Inv, Received
      <4>2. head \in 0..got /\ got \in head..got /\ head \in 0..Len(peer) /\ got \in head..Len(peer)
        BY <2>1, <2>2
      <4>3. /\ r \in Seq(Units) /\ Len(r) = got - head
            /\ \A i \in 1..(got - head) : r[i] = Received[head + i]
        BY <4>1, <4>2, Suffix
      <4>4. /\ s \in Seq(Units) /\ Len(s) = got - head
            /\ \A i \in 1..(got - head) : s[i] = peer[head + i]
        BY <2>1, <4>2, Suffix
      <4>5. \A i \in 1..(got - head) : head + i \in 1..got
        BY <2>1, <2>2
      <4>6. \A i \in 1..(got - head) : r[i] = s[i]
        BY <4>1, <4>3, <4>4, <4>5
      <4>7. QED
        BY <4>3, <4>4, <4>6, SeqEqual
    <3>3. head + Copied = got
      BY <2>1, <2>2, <2>8
    <3>4. QED
      BY <2>1, <3>1, <3>2, <3>3
  <2>9. QED
    BY <2>3, <2>4, <2>5, <2>7, <2>8
<1>2. Inv => CaptureIsReplys
  BY <1>1 DEF CaptureIsReplys
<1>3. QED
  BY <1>2, InvHolds, PTL
==============================================================================
