------------------------- MODULE TunnelResolverProofs -------------------------
(***************************************************************************)
(* Theorems about SocksTunnel, for any bytes a proxy may answer and any a  *)
(* stack frame may hold, and about DnsResolver, whose resolvede asks over  *)
(* such a tunnel, for any names and records a reply may be made of.        *)
(***************************************************************************)
EXTENDS SocksTunnel, DnsResolver, SequenceTheorems, WellFoundedInduction, TLAPS

(***************************************************************************)
(* The inductive invariant: the descriptor at each control point, and what *)
(* is on the stream there as long as no recv came short.                   *)
(***************************************************************************)

TypeOK ==
    /\ pc \in {"socket", "connect", "method", "header", "reply", "done"}
    /\ open \in BOOLEAN /\ verdict \in {"none", "sock", "failed"}
    /\ res \in [1..2 -> Byte] /\ third \in Byte
    /\ total \in 0..2 /\ short \in BOOLEAN
    /\ wire \in Seq(Byte) /\ asked \in 0..2 /\ said \in 0..2
    /\ proxy \in [method : Methods, rep : Grants, bound : Bounds]

\* The descriptor is open between socket and the return, and after it when it
\* is what was returned.
Descriptor ==
    /\ verdict = "none" <=> pc # "done"
    /\ open <=> pc \in {"connect", "method", "header", "reply"} \/ verdict = "sock"

\* The proxy has not selected a method yet, or all of its selection is there.
Selected ==
    \/ said = 0 /\ wire = <<>>
    \/ said = (IF proxy.method = NoAuth THEN 1 ELSE 2) /\ wire = <<5, proxy.method>>

\* It has not answered the request yet, or what is left of its ten bytes is
\* there, with the first of the bound address where the client will look.
Answering ==
    \/ said = 1 /\ total = 0 /\ wire = <<>>
    \/ said = 2 /\ Len(wire) = 10 - total /\ wire[5 - total] = proxy.bound

Stream ==
    /\ pc \in {"socket", "connect"} => asked = 0 /\ said = 0 /\ wire = <<>>
    /\ pc \in {"socket", "connect", "method"} => total = 0
    /\ pc = "method" => asked = 1 /\ Selected
    /\ pc = "header" => total < 2
    /\ pc = "header" /\ ~short => asked = 2 /\ proxy.method = NoAuth /\ Answering
    /\ pc = "reply" /\ ~short =>
           proxy.method = NoAuth /\ said = 2 /\ total = 2 /\ Answering
    /\ pc = "done" /\ asked > 0 /\ ~short =>
           IF proxy.method = NoAuth
           THEN said = 2 /\ wire = <<>> /\ (verdict = "sock" <=> proxy.bound = 0)
           ELSE verdict = "failed"

Inv == TypeOK /\ Descriptor /\ Stream

(***************************************************************************)
(* Facts used by several cases.                                            *)
(***************************************************************************)

\* What a recv of k bytes leaves of a stream: bytes k + 1 and on, in order.
LEMMA TookRest ==
    ASSUME wire \in Seq(Byte), NEW n \in Nat, NEW k \in Takes(n), Took(k)
    PROVE  /\ wire' \in Seq(Byte) /\ Len(wire') = Len(wire) - k
           /\ \A i \in 1..(Len(wire) - k) : wire'[i] = wire[i + k]
<1>1. k \in 0..n /\ k <= Len(wire) /\ Len(wire) \in Nat
  BY DEF Takes
<1>2. wire' = SubSeq(wire, k + 1, Len(wire))
  BY DEF Took
<1>3. QED
  BY <1>1, <1>2

\* res stays two bytes, whatever a recv puts in it.
LEMMA FilledType ==
    ASSUME wire \in Seq(Byte), res \in [1..2 -> Byte],
           NEW at \in 0..2, NEW k \in Takes(2 - at)
    PROVE  Filled(at, k) \in [1..2 -> Byte]
<1>1. k \in 0..(2 - at) /\ k <= Len(wire)
  BY DEF Takes
<1>2. \A i \in 1..2 : i \in at + 1 .. at + k => wire[i - at] \in Byte
  BY <1>1
<1>3. QED
  BY <1>2 DEF Filled

\* Where Method and Reply go on, by the byte they look at.
LEMMA MethodEnds ==
    ASSUME Method
    PROVE  /\ pc = "method" /\ UNCHANGED <<total, third, said, proxy>>
           /\ res'[2] = NoAuth =>
                  pc' = "header" /\ asked' = 2 /\ open' = open /\ verdict' = verdict
           /\ res'[2] # NoAuth =>
                  pc' = "done" /\ asked' = asked /\ open' = FALSE /\ verdict' = "failed"
<1>1. IF res'[2] = NoAuth
      THEN pc' = "header" /\ asked' = 2 /\ UNCHANGED <<open, verdict>>
      ELSE GiveUp /\ UNCHANGED asked
  BY DEF Method
<1>2. pc = "method" /\ UNCHANGED <<total, third, said, proxy>>
  BY DEF Method
<1>3. QED
  BY <1>1, <1>2 DEF GiveUp

\* The third byte of the answer decides between the two returns.
LEMMA ReplyEnds ==
    ASSUME Reply
    PROVE  /\ pc = "reply" /\ pc' = "done" /\ UNCHANGED <<res, total, asked, said, proxy>>
           /\ third' = Succeeded => verdict' = "sock" /\ open' = open
           /\ third' # Succeeded => verdict' = "failed" /\ open' = FALSE
<1>1. IF third' = Succeeded
      THEN verdict' = "sock" /\ pc' = "done" /\ UNCHANGED open
      ELSE GiveUp
  BY DEF Reply
<1>2. pc = "reply" /\ UNCHANGED <<res, total, asked, said, proxy>>
  BY DEF Reply
<1>3. QED
  BY <1>1, <1>2 DEF GiveUp

(***************************************************************************)
(* The invariant is preserved, one case per action.                        *)
(***************************************************************************)

\* The invariant holds when SockTunnel is called.
LEMMA InitInv == Init => Inv
<1> SUFFICES ASSUME Init PROVE Inv
  OBVIOUS
<1>1. TypeOK
  <2>1. res \in [1..2 -> Byte] /\ third \in Byte
    BY SocksAssumption, ZenonT(30) DEF Init, Byte
  <2>2. open \in BOOLEAN /\ short \in BOOLEAN
    BY DEF Init
  <2>3. total \in 0..2 /\ asked \in 0..2 /\ said \in 0..2
    BY DEF Init
  <2>4. wire \in Seq(Byte)
    BY DEF Init
  <2>5. QED
    BY <2>1, <2>2, <2>3, <2>4 DEF Init, TypeOK
<1>2. Descriptor /\ Stream
  BY DEF Init, Descriptor, Stream
<1>3. QED
  BY <1>1, <1>2 DEF Inv

\* Types: no byte is read that was not on the stream, none is written past res.
LEMMA TypeStep == ASSUME Inv, [Next]_vars PROVE TypeOK'
<1> USE SocksAssumption DEF Inv, TypeOK
<1>1. CASE NoSocket
  BY <1>1 DEF NoSocket, GiveUp
<1>2. CASE Socket
  BY <1>2 DEF Socket
<1>3. CASE ConnectFails
  BY <1>3 DEF ConnectFails, GiveUp
<1>4. CASE Connect
  BY <1>4 DEF Connect
<1>5. CASE Method
  <2>1. PICK k \in Takes(2) : Took(k) /\ res' = Filled(0, k) /\ short' = (k < 2)
    BY <1>5 DEF Method
  <2>2. wire' \in Seq(Byte)
    BY <2>1, TookRest
  <2>3. res' \in [1..2 -> Byte]
    BY <2>1, FilledType
  <2>4. short' \in BOOLEAN
    BY <2>1
  <2>5. open' \in BOOLEAN
    BY <1>5, MethodEnds
  <2>6. /\ pc' \in {"header", "done"} /\ verdict' \in {"none", "sock", "failed"}
        /\ asked' \in 0..2 /\ UNCHANGED <<total, third, said, proxy>>
    <3>1. CASE res'[2] = NoAuth
      BY <1>5, <3>1, MethodEnds
    <3>2. CASE res'[2] # NoAuth
      BY <1>5, <3>2, MethodEnds
    <3>3. QED
      BY <3>1, <3>2
  <2>7. QED
    BY <2>2, <2>3, <2>4, <2>5, <2>6
<1>6. CASE Header
  <2>1. PICK k \in Takes(2 - total) :
           /\ Took(k) /\ res' = Filled(total, k)
           /\ total' = total + k
           /\ short' = (short \/ k = 0)
           /\ pc' = IF k = 0 \/ total' = 2 THEN "reply" ELSE "header"
    BY <1>6 DEF Header
  <2>2. wire' \in Seq(Byte)
    BY <2>1, TookRest
  <2>3. res' \in [1..2 -> Byte]
    BY <2>1, FilledType
  <2>4. total' \in 0..2
    BY <2>1 DEF Takes
  <2>5. short' \in BOOLEAN
    BY <2>1
  <2>6. pc' \in {"reply", "header"}
    BY <2>1
  <2>7. QED
    BY <1>6, <2>2, <2>3, <2>4, <2>5, <2>6 DEF Header
<1>7. CASE Reply
  <2>1. PICK k \in Takes(10) :
           /\ Took(k)
           /\ third' = (IF k >= 3 THEN wire[3] ELSE third)
           /\ short' = (short \/ k < 8)
    BY <1>7 DEF Reply
  <2>2. wire' \in Seq(Byte)
    BY <2>1, TookRest
  <2>3. third' \in Byte
    BY <2>1 DEF Takes
  <2>4. short' \in BOOLEAN
    BY <2>1
  <2>5. open' \in BOOLEAN
    BY <1>7, ReplyEnds
  <2>6. /\ pc' = "done" /\ verdict' \in {"sock", "failed"}
        /\ UNCHANGED <<res, total, asked, said, proxy>>
    BY <1>7, ReplyEnds
  <2>7. QED
    BY <2>2, <2>3, <2>4, <2>5, <2>6
<1>8. CASE SelectMethod
  <2>1. <<5, proxy.method>> \in Seq(Byte)
    <3>1. proxy.method \in Methods /\ proxy.rep \in Grants /\ proxy.bound \in Bounds
      OBVIOUS
    <3>2. proxy.method \in Byte /\ proxy.rep \in Byte /\ proxy.bound \in Byte
      BY <3>1 DEF Byte
    <3>3. 5 \in Byte /\ 0 \in Byte /\ 1 \in Byte
      BY DEF Byte
    <3>4. QED
      BY <3>2, <3>3
  <2>2. wire' \in Seq(Byte)
    BY <1>8, <2>1 DEF SelectMethod
  <2>3. said' \in 0..2
    BY <1>8 DEF SelectMethod
  <2>4. QED
    BY <1>8, <2>2, <2>3 DEF SelectMethod, client
<1>9. CASE AnswerRequest
  <2>1. <<5, proxy.rep, 0, 1, proxy.bound, 0, 0, 0, 0, 0>> \in Seq(Byte)
    <3>1. proxy.method \in Methods /\ proxy.rep \in Grants /\ proxy.bound \in Bounds
      OBVIOUS
    <3>2. proxy.method \in Byte /\ proxy.rep \in Byte /\ proxy.bound \in Byte
      BY <3>1 DEF Byte
    <3>3. 5 \in Byte /\ 0 \in Byte /\ 1 \in Byte
      BY DEF Byte
    <3>4. QED
      BY <3>2, <3>3
  <2>2. wire' \in Seq(Byte)
    BY <1>9, <2>1 DEF AnswerRequest
  <2>3. said' \in 0..2
    BY <1>9 DEF AnswerRequest
  <2>4. QED
    BY <1>9, <2>2, <2>3 DEF AnswerRequest, client
<1>10. CASE UNCHANGED vars
  BY <1>10 DEF vars
<1>11. QED
  BY <1>1, <1>2, <1>3, <1>4, <1>5, <1>6, <1>7, <1>8, <1>9, <1>10 DEF Next, Tunnel, Finished

\* The descriptor: every return but one closes it.
LEMMA DescriptorStep == ASSUME Inv, [Next]_vars PROVE Descriptor'
<1> USE DEF Inv, TypeOK, Descriptor
<1>1. CASE NoSocket
  BY <1>1 DEF NoSocket, GiveUp
<1>2. CASE Socket
  BY <1>2 DEF Socket
<1>3. CASE ConnectFails
  BY <1>3 DEF ConnectFails, GiveUp
<1>4. CASE Connect
  BY <1>4 DEF Connect
<1>5. CASE Method
  BY <1>5, MethodEnds
<1>6. CASE Header
  BY <1>6 DEF Header
<1>7. CASE Reply
  BY <1>7, ReplyEnds
<1>8. CASE SelectMethod
  BY <1>8 DEF SelectMethod, client
<1>9. CASE AnswerRequest
  BY <1>9 DEF AnswerRequest, client
<1>10. CASE UNCHANGED vars
  BY <1>10 DEF vars
<1>11. QED
  BY <1>1, <1>2, <1>3, <1>4, <1>5, <1>6, <1>7, <1>8, <1>9, <1>10 DEF Next, Tunnel, Finished

\* What is on the stream.
LEMMA StreamStep == ASSUME Inv, TypeOK', [Next]_vars PROVE Stream'
<1> USE DEF Inv, TypeOK, Descriptor, Stream, NoAuth
<1>1. CASE NoSocket
  BY <1>1 DEF NoSocket, GiveUp
<1>2. CASE Socket
  BY <1>2 DEF Socket
<1>3. CASE ConnectFails
  BY <1>3 DEF ConnectFails, GiveUp
<1>4. CASE Connect
  BY <1>4 DEF Connect, Selected
<1>5. CASE Method
  <2>1. PICK k \in Takes(2) : Took(k) /\ res' = Filled(0, k) /\ short' = (k < 2)
    BY <1>5 DEF Method
  <2>2. CASE k < 2
    <3>1. short' = TRUE /\ pc' \in {"header", "done"} /\ total' = 0
      BY <1>5, <2>1, <2>2, MethodEnds
    <3>2. QED
      BY <3>1
  <2>3. CASE k = 2
    <3>1. said = (IF proxy.method = NoAuth THEN 1 ELSE 2) /\ wire = <<5, proxy.method>>
      BY <1>5, <2>3 DEF Method, Selected, Takes
    <3>2. wire' = <<>>
      BY <2>1, <2>3, <3>1, TookRest
    <3>3. res'[2] = proxy.method
      BY <2>1, <2>3, <3>1 DEF Filled
    <3>4. /\ proxy' = proxy /\ total' = 0 /\ said' = said
          /\ proxy.method # NoAuth => verdict' = "failed"
      BY <1>5, <3>3, MethodEnds
    <3>5. \/ proxy.method = NoAuth /\ pc' = "header" /\ asked' = 2
          \/ proxy.method # NoAuth /\ pc' = "done"
      BY <1>5, <3>3, MethodEnds
    <3>6. CASE proxy.method = NoAuth
      <4>1. said' = 1 /\ pc' = "header" /\ asked' = 2 /\ total' = 0 /\ proxy' = proxy
        BY <3>1, <3>4, <3>5, <3>6
      <4>2. QED
        BY <3>2, <3>6, <4>1 DEF Answering
    <3>7. CASE proxy.method # NoAuth
      BY <3>4, <3>5, <3>7
    <3>8. QED
      BY <3>6, <3>7
  <2>4. QED
    BY <2>1, <2>2, <2>3 DEF Takes
<1>6. CASE Header
  <2>1. PICK k \in Takes(2 - total) :
           /\ Took(k) /\ res' = Filled(total, k)
           /\ total' = total + k
           /\ short' = (short \/ k = 0)
           /\ pc' = IF k = 0 \/ total' = 2 THEN "reply" ELSE "header"
    BY <1>6 DEF Header
  <2>2. total + k \in 0..2 /\ k \in 0..2
    BY <2>1 DEF Takes
  <2>3. CASE short \/ k = 0
    <3>1. short' = TRUE
      BY <2>1, <2>3
    <3>2. (pc' = "header" => total' < 2) /\ pc' \in {"header", "reply"}
      BY <2>1, <2>2
    <3>3. QED
      BY <3>1, <3>2
  <2>4. CASE ~short /\ k > 0
    <3>1. proxy.method = NoAuth /\ asked = 2 /\ Answering /\ pc = "header"
      BY <1>6, <2>4 DEF Header
    <3>2. k <= Len(wire)
      BY <2>1 DEF Takes
    <3>3. said = 2 /\ Len(wire) = 10 - total /\ wire[5 - total] = proxy.bound
      <4>1. wire # <<>>
        BY <2>2, <2>4, <3>2
      <4>2. QED
        BY <3>1, <4>1 DEF Answering
    <3>4. Len(wire') = 10 - total' /\ wire'[5 - total'] = proxy.bound
      <4>1. Len(wire') = Len(wire) - k /\ \A i \in 1..(Len(wire) - k) : wire'[i] = wire[i + k]
        BY <2>1, TookRest
      <4>2. 5 - total' \in 1..(Len(wire) - k) /\ (5 - total') + k = 5 - total
        BY <2>1, <2>2, <3>3
      <4>3. wire'[5 - total'] = wire[(5 - total') + k]
        BY <4>1, <4>2
      <4>4. QED
        BY <2>1, <2>2, <3>3, <4>1, <4>2, <4>3
    <3>5. /\ UNCHANGED <<said, asked, proxy>> /\ ~short'
          /\ pc' = IF total' = 2 THEN "reply" ELSE "header"
      BY <1>6, <2>1, <2>4 DEF Header
    <3>6. Answering'
      BY <3>3, <3>4, <3>5 DEF Answering
    <3>7. QED
      BY <2>1, <2>2, <3>1, <3>3, <3>5, <3>6
  <2>5. QED
    BY <2>2, <2>3, <2>4
<1>7. CASE Reply
  <2>1. PICK k \in Takes(10) :
           /\ Took(k)
           /\ third' = (IF k >= 3 THEN wire[3] ELSE third)
           /\ short' = (short \/ k < 8)
    BY <1>7 DEF Reply
  <2>2. pc = "reply" /\ pc' = "done" /\ UNCHANGED <<asked, said, proxy, total>>
    BY <1>7, ReplyEnds
  <2>3. CASE short'
    BY <2>2, <2>3
  <2>4. CASE ~short'
    <3>1. k \in 8..10 /\ ~short /\ k <= Len(wire)
      <4>1. k \in 0..10 /\ k <= Len(wire)
        BY <2>1 DEF Takes
      <4>2. ~short /\ ~(k < 8)
        BY <2>1, <2>4
      <4>3. QED
        BY <4>1, <4>2
    <3>2. /\ proxy.method = NoAuth /\ said = 2
          /\ Len(wire) = 8 /\ wire[3] = proxy.bound
      <4>1. proxy.method = NoAuth /\ said = 2 /\ total = 2 /\ Answering
        BY <2>2, <3>1
      <4>2. QED
        BY <4>1 DEF Answering
    <3>3. wire' = <<>>
      BY <2>1, <3>1, <3>2, TookRest
    <3>4. third' = proxy.bound
      BY <2>1, <3>1, <3>2
    <3>5. verdict' = "sock" <=> proxy.bound = 0
      BY <1>7, <3>4, ReplyEnds DEF Succeeded
    <3>6. QED
      BY <2>2, <3>2, <3>3, <3>5
  <2>5. QED
    BY <2>3, <2>4
<1>8. CASE SelectMethod
  <2>1. /\ said = 0 /\ said' = (IF proxy.method = NoAuth THEN 1 ELSE 2) /\ asked >= 1
        /\ UNCHANGED <<pc, total, verdict, short, asked, proxy>>
        /\ wire' = wire \o <<5, proxy.method>>
    BY <1>8 DEF SelectMethod, client
  <2>2. CASE pc = "method"
    <3>1. wire = <<>>
      BY <2>1, <2>2 DEF Selected
    <3>2. wire' = <<5, proxy.method>>
      BY <2>1, <3>1
    <3>3. QED
      BY <2>1, <2>2, <3>2 DEF Selected
  <2>3. CASE pc # "method"
    BY <2>1, <2>3 DEF Answering
  <2>4. QED
    BY <2>2, <2>3
<1>9. CASE AnswerRequest
  BY <1>9 DEF AnswerRequest, client, Answering, Selected
<1>10. CASE UNCHANGED vars
  BY <1>10 DEF vars, Selected, Answering
<1>11. QED
  BY <1>1, <1>2, <1>3, <1>4, <1>5, <1>6, <1>7, <1>8, <1>9, <1>10 DEF Next, Tunnel, Finished

\* The strengthened invariant of SockTunnel.
THEOREM InvHolds == Spec => []Inv
<1>1. Inv /\ [Next]_vars => Inv'
  BY TypeStep, DescriptorStep, StreamStep DEF Inv
<1>2. QED
  BY InitInv, <1>1, PTL DEF Spec

(***************************************************************************)
(* What it gives.                                                          *)
(***************************************************************************)

\* Every variable of the tunnel keeps its type.
THEOREM TypeCorrect == Spec => []TypeOK
<1>1. Inv => TypeOK
  BY DEF Inv
<1>2. QED
  BY <1>1, InvHolds, PTL

\* A descriptor is left open exactly when it is returned.
THEOREM ReturnCorrect == Spec => []HeldIffReturned
<1>1. Inv => HeldIffReturned
  BY DEF Inv, TypeOK, Descriptor, HeldIffReturned
<1>2. QED
  BY <1>1, InvHolds, PTL

\* Of a proxy whose answers come whole, the tunnel is returned exactly when it
\* takes no authentication and reports a bound address beginning with zero, and
\* nothing of the handshake is left to be read as the target's.
THEOREM WholeCorrect == Spec => []WholeReplies
<1>1. Inv => WholeReplies
  BY DEF Inv, TypeOK, Stream, WholeReplies
<1>2. QED
  BY <1>1, InvHolds, PTL

(***************************************************************************)
(* Recursion and concatenation, unrolled.                                  *)
(***************************************************************************)

\* A set of naturals that is not empty has a least member.
LEMMA Least ==
    ASSUME NEW S, S \subseteq Nat, S # {}
    PROVE  \E m \in S : \A n \in S : m <= n
<1> DEFINE R == OpToRel(<, Nat)
<1>1. IsWellFoundedOn(R, Nat)
  BY NatLessThanWellFounded
<1>2. PICK m \in S : \A n \in S : <<n, m>> \notin R
  BY <1>1, WFMin
<1>3. \A n \in S : ~(n < m)
  BY <1>2 DEF OpToRel
<1>4. QED
  BY <1>3

\* What holds of 0 and passes from each k - 1 to k holds up to n.
LEMMA Upto ==
    ASSUME NEW n \in Nat, NEW S, 0 \in S, \A k \in 1..n : k - 1 \in S => k \in S
    PROVE  0..n \subseteq S
<1> DEFINE Bad == (0..n) \ S
<1>1. SUFFICES ASSUME Bad # {} PROVE FALSE
  OBVIOUS
<1>2. Bad \subseteq Nat
  OBVIOUS
<1>3. PICK m \in Bad : \A k \in Bad : m <= k
  <2> HIDE DEF Bad
  <2>1. QED
    BY <1>1, <1>2, Least
<1>4. m \in 1..n /\ m - 1 \in 0..n /\ ~(m <= m - 1)
  OBVIOUS
<1>5. m - 1 \in S
  BY <1>3, <1>4
<1>6. QED
  BY <1>4, <1>5

\* t[k] is the first k of the n sequences h, one after the other.
Appends(t, Q, n, h) ==
    /\ t \in [0..n -> Seq(Q)] /\ t[0] = <<>>
    /\ \A k \in 1..n : t[k] = t[k - 1] \o h[k]

\* Sequences can be appended,
LEMMA Appended ==
    ASSUME NEW Q, NEW n \in Nat, NEW h \in [1..n -> Seq(Q)]
    PROVE  \E t : Appends(t, Q, n, h)
<1> DEFINE T == [0..n -> Seq(Q)]
           Upon(t, m) == \A k \in 1..m : t[k] = t[k - 1] \o h[k]
           S == {m \in 0..n : \E t \in T : t[0] = <<>> /\ Upon(t, m)}
<1>1. 0 \in S
  <2> DEFINE t == [k \in 0..n |-> <<>>]
  <2>1. t \in T /\ t[0] = <<>> /\ Upon(t, 0) /\ 0 \in 0..n
    OBVIOUS
  <2>2. QED
    BY <2>1
<1>2. ASSUME NEW m \in 1..n, m - 1 \in S PROVE m \in S
  <2>1. PICK t \in T : t[0] = <<>> /\ Upon(t, m - 1)
    BY <1>2
  <2> DEFINE c == t[m - 1] \o h[m]
             u == [t EXCEPT ![m] = c]
  <2>2. m \in 0..n /\ m - 1 \in 0..n /\ m # 0 /\ m - 1 # m
    OBVIOUS
  <2>3. c \in Seq(Q)
    BY <2>1, <2>2
  <2>4. u \in T /\ u[0] = <<>> /\ u[m] = c
    <3> HIDE DEF c
    <3>1. QED
      BY <2>1, <2>2, <2>3
  <2>5. ASSUME NEW k \in 1..m PROVE u[k] = u[k - 1] \o h[k]
    <3>1. k \in 0..n /\ k - 1 \in 0..n /\ k - 1 # m
      OBVIOUS
    <3>2. u[k - 1] = t[k - 1]
      BY <3>1
    <3>3. CASE k = m
      BY <2>4, <3>2, <3>3
    <3>4. CASE k # m
      <4>1. k \in 1..m - 1 /\ u[k] = t[k]
        BY <3>1, <3>4
      <4>2. QED
        BY <2>1, <3>2, <4>1
    <3>5. QED
      BY <3>3, <3>4
  <2>6. QED
    BY <2>2, <2>4, <2>5
<1>3. n \in S
  <2> HIDE DEF S
  <2>1. 0..n \subseteq S
    BY <1>1, <1>2, Upto
  <2>2. QED
    BY <2>1
<1>4. QED
  BY <1>3 DEF Appends

\* and that is what flattening them does.
LEMMA Flattened ==
    ASSUME NEW Q, NEW n \in Nat, NEW h \in [1..n -> Seq(Q)]
    PROVE  \E t : Appends(t, Q, n, h) /\ t[n] = FlattenSeq(h)
<1> DEFINE Eq(g) == g = [i \in 1..n |-> IF i = 1 THEN h[i] ELSE g[i - 1] \o h[i]]
<1>0. PICK t : Appends(t, Q, n, h)
  BY Appended
<1>1. /\ t \in [0..n -> Seq(Q)] /\ t[0] = <<>>
      /\ \A k \in 1..n : t[k] = t[k - 1] \o h[k]
  BY <1>0 DEF Appends
<1>2. Len(h) = n
  <2>1. h \in Seq(Seq(Q))
    OBVIOUS
  <2>2. QED
    BY <2>1
<1>3. 1 \in 1..n => t[1] = h[1]
  <2>1. \A x \in Seq(Q) : <<>> \o x = x
    OBVIOUS
  <2>2. 1 - 1 = 0
    OBVIOUS
  <2>3. 1 \in 1..n => t[1] = t[0] \o h[1]
    BY <1>1, <2>2
  <2>4. 1 \in 1..n => h[1] \in Seq(Q)
    OBVIOUS
  <2>5. QED
    BY <1>1, <2>1, <2>3, <2>4
<1>4. CASE n = 0
  <2>1. h = <<>>
    BY <1>4
  <2>2. FlattenSeq(h) = <<>>
    BY <1>2, <1>4, <2>1 DEF FlattenSeq
  <2>3. QED
    BY <1>0, <1>1, <1>4, <2>2
<1>5. CASE n # 0
  <2>1. \E g : Eq(g)
    <3> DEFINE g == [i \in 1..n |-> t[i]]
    <3>1. ASSUME NEW i \in 1..n PROVE g[i] = IF i = 1 THEN h[i] ELSE g[i - 1] \o h[i]
      <4>1. CASE i = 1
        BY <1>3, <4>1
      <4>2. CASE i # 1
        <5>1. i - 1 \in 1..n
          BY <4>2
        <5>2. QED
          BY <1>1, <4>2, <5>1
      <4>3. QED
        BY <4>1, <4>2
    <3>2. Eq(g)
      BY <3>1
    <3>3. QED
      BY <3>2
  <2>2. PICK g : Eq(g) /\ FlattenSeq(h) = g[n]
    BY <1>2, <1>5, <2>1 DEF FlattenSeq
  <2> DEFINE S == {k \in 0..n : k = 0 \/ g[k] = t[k]}
  <2>3. 0 \in S
    OBVIOUS
  <2>4. ASSUME NEW k \in 1..n, k - 1 \in S PROVE k \in S
    <3>1. CASE k = 1
      BY <1>3, <2>2, <3>1
    <3>2. CASE k # 1
      <4>1. k - 1 # 0 /\ k \in 0..n
        BY <3>2
      <4>2. g[k - 1] = t[k - 1]
        BY <2>4, <4>1
      <4>3. g[k] = g[k - 1] \o h[k]
        BY <2>2, <3>2
      <4>4. QED
        BY <1>1, <4>1, <4>2, <4>3
    <3>3. QED
      BY <3>1, <3>2
  <2>5. n \in S
    <3> HIDE DEF S
    <3>1. 0..n \subseteq S
      BY <2>3, <2>4, Upto
    <3>2. QED
      BY <3>1
  <2>6. QED
    BY <1>0, <1>5, <2>5, <2>2
<1>6. QED
  BY <1>4, <1>5

\* Each of the n sequences h stands in s behind the ones before it: at[k] is
\* where the first k end.
Placed(at, s, start, n, h) ==
    /\ at \in [0..n -> Nat] /\ at[0] = start /\ at[n] = Len(s)
    /\ \A k \in 0..n : at[k] <= Len(s)
    /\ \A k \in 1..n :
           /\ at[k] = at[k - 1] + Len(h[k])
           /\ \A j \in 1..Len(h[k]) : s[at[k - 1] + j] = h[k][j]

\* The bytes of two sequences, one after the other.
LEMMA Joined ==
    ASSUME NEW Q, NEW a \in Seq(Q), NEW b \in Seq(Q)
    PROVE  /\ a \o b \in Seq(Q) /\ Len(a \o b) = Len(a) + Len(b)
           /\ Len(a) \in Nat /\ Len(b) \in Nat
           /\ \A j \in 1..Len(a) : (a \o b)[j] = a[j]
           /\ \A j \in 1..Len(b) : (a \o b)[Len(a) + j] = b[j]
OBVIOUS

\* Sequences that are appended stay where they are put.
LEMMA AppendsKeep ==
    ASSUME NEW Q, NEW n \in Nat, NEW h \in [1..n -> Seq(Q)], NEW t, Appends(t, Q, n, h)
    PROVE  \A k \in 0..n : /\ Len(t[k]) <= Len(t[n])
                           /\ \A j \in 1..Len(t[k]) : t[n][j] = t[k][j]
<1> DEFINE Kept(k, m) == /\ Len(t[k]) <= Len(t[m])
                         /\ \A j \in 1..Len(t[k]) : t[m][j] = t[k][j]
           S == {m \in 0..n : \A k \in 0..m : Kept(k, m)}
<1>1. /\ t \in [0..n -> Seq(Q)] /\ t[0] = <<>>
      /\ \A k \in 1..n : t[k] = t[k - 1] \o h[k]
  BY DEF Appends
<1>2. \A k \in 0..n : Len(t[k]) \in Nat
  BY <1>1
<1>3. \A k \in 0..n : Kept(k, k)
  BY <1>2
<1>4. 0 \in S
  BY <1>3
<1>5. ASSUME NEW m \in 1..n, m - 1 \in S PROVE m \in S
  <2>1. m \in 0..n /\ m - 1 \in 0..n
    OBVIOUS
  <2>2. t[m - 1] \in Seq(Q) /\ h[m] \in Seq(Q) /\ t[m] = t[m - 1] \o h[m]
    BY <1>1, <2>1
  <2>3. Kept(m - 1, m)
    <3> DEFINE a == t[m - 1]
               b == h[m]
    <3>1. a \in Seq(Q) /\ b \in Seq(Q) /\ t[m] = a \o b
      BY <2>2
    <3>2. /\ Len(t[m]) = Len(a) + Len(b) /\ Len(a) \in Nat /\ Len(b) \in Nat
          /\ \A j \in 1..Len(a) : t[m][j] = a[j]
      <4> HIDE DEF a, b
      <4>1. QED
        BY <3>1, Joined
    <3>3. QED
      BY <3>2
  <2>4. ASSUME NEW k \in 0..m PROVE Kept(k, m)
    <3>1. CASE k = m
      BY <1>3, <2>1, <3>1
    <3>2. CASE k # m
      <4>1. k \in 0..(m - 1) /\ k \in 0..n
        BY <3>2
      <4>2. Kept(k, m - 1)
        BY <1>5, <4>1
      <4>3. Len(t[k]) \in Nat /\ Len(t[m - 1]) \in Nat /\ Len(t[m]) \in Nat
        BY <1>2, <2>1, <4>1
      <4>4. \A j \in 1..Len(t[k]) : j \in 1..Len(t[m - 1])
        BY <4>2, <4>3
      <4>5. QED
        BY <2>3, <4>2, <4>3, <4>4
    <3>3. QED
      BY <3>1, <3>2
  <2>5. QED
    BY <2>1, <2>4
<1>6. n \in S
  <2> HIDE DEF S
  <2>1. 0..n \subseteq S
    BY <1>4, <1>5, Upto
  <2>2. QED
    BY <2>1
<1>7. QED
  BY <1>6

\* Behind a header, the flattening of sequences has each of them in its place.
LEMMA FlatPlaces ==
    ASSUME NEW Q, NEW n \in Nat, NEW h \in [1..n -> Seq(Q)], NEW a \in Seq(Q)
    PROVE  /\ FlattenSeq(h) \in Seq(Q)
           /\ \E at : Placed(at, a \o FlattenSeq(h), Len(a), n, h)
<1>1. PICK t : Appends(t, Q, n, h) /\ t[n] = FlattenSeq(h)
  BY Flattened
<1>2. /\ t \in [0..n -> Seq(Q)] /\ t[0] = <<>>
      /\ \A k \in 1..n : t[k] = t[k - 1] \o h[k]
  BY <1>1 DEF Appends
<1>3. n \in 0..n /\ 0 \in 0..n
  OBVIOUS
<1>4. t[n] \in Seq(Q)
  BY <1>2, <1>3
<1> DEFINE f == t[n]
           s == a \o f
           at == [k \in 0..n |-> Len(a) + Len(t[k])]
<1>5. /\ s \in Seq(Q) /\ Len(s) = Len(a) + Len(f) /\ Len(a) \in Nat /\ Len(f) \in Nat
      /\ \A j \in 1..Len(f) : s[Len(a) + j] = f[j]
  <2>1. f \in Seq(Q)
    BY <1>4
  <2> HIDE DEF f
  <2>2. QED
    BY <2>1, Joined
<1>6. \A k \in 0..n : /\ Len(t[k]) \in Nat /\ Len(t[k]) <= Len(f)
                      /\ \A j \in 1..Len(t[k]) : f[j] = t[k][j]
  <2>1. \A k \in 0..n : /\ Len(t[k]) <= Len(t[n])
                        /\ \A j \in 1..Len(t[k]) : t[n][j] = t[k][j]
    BY <1>1, AppendsKeep
  <2>2. QED
    BY <1>2, <2>1
<1>7. /\ at \in [0..n -> Nat] /\ at[0] = Len(a) /\ at[n] = Len(s)
      /\ \A k \in 0..n : at[k] <= Len(s)
  <2>1. at \in [0..n -> Nat]
    BY <1>5, <1>6
  <2>2. at[0] = Len(a) + Len(t[0]) /\ Len(t[0]) = 0
    BY <1>2, <1>3
  <2>3. at[n] = Len(s)
    BY <1>3, <1>5
  <2>4. ASSUME NEW k \in 0..n PROVE at[k] <= Len(s)
    <3>1. at[k] = Len(a) + Len(t[k]) /\ Len(t[k]) \in Nat /\ Len(t[k]) <= Len(f)
      BY <1>6
    <3>2. QED
      BY <1>5, <3>1
  <2>5. QED
    BY <1>5, <2>1, <2>2, <2>3, <2>4
<1>8. ASSUME NEW k \in 1..n
      PROVE  /\ at[k] = at[k - 1] + Len(h[k])
             /\ \A j \in 1..Len(h[k]) : s[at[k - 1] + j] = h[k][j]
  <2>1. k \in 0..n /\ k - 1 \in 0..n
    OBVIOUS
  <2> DEFINE u == t[k]
             v == t[k - 1]
             w == h[k]
  <2>2. v \in Seq(Q) /\ w \in Seq(Q) /\ u = v \o w
    BY <1>2, <2>1
  <2>3. /\ Len(u) = Len(v) + Len(w) /\ Len(v) \in Nat /\ Len(w) \in Nat
        /\ \A j \in 1..Len(w) : u[Len(v) + j] = w[j]
    <3> HIDE DEF u, v, w
    <3>1. QED
      BY <2>2, Joined
  <2>4. at[k] = Len(a) + Len(u) /\ at[k - 1] = Len(a) + Len(v)
    BY <2>1
  <2>5. Len(u) <= Len(f) /\ \A j \in 1..Len(u) : f[j] = u[j]
    BY <1>6, <2>1
  <2>6. ASSUME NEW j \in 1..Len(w) PROVE s[at[k - 1] + j] = w[j]
    <3> HIDE DEF u, v, w, f, s, at
    <3>1. Len(v) + j \in 1..Len(u) /\ Len(v) + j \in 1..Len(f)
      BY <1>5, <2>3, <2>5
    <3>2. s[Len(a) + (Len(v) + j)] = w[j]
      BY <1>5, <2>3, <2>5, <3>1
    <3>3. Len(a) + (Len(v) + j) = at[k - 1] + j
      BY <1>5, <2>3, <2>4
    <3>4. QED
      BY <3>2, <3>3
  <2>7. at[k] = at[k - 1] + Len(w)
    <3> HIDE DEF u, v, w, at
    <3>1. QED
      BY <1>5, <2>3, <2>4
  <2>8. QED
    BY <2>6, <2>7
<1>9. Placed(at, s, Len(a), n, h)
  <2> HIDE DEF at, s
  <2>1. QED
    BY <1>7, <1>8 DEF Placed
<1>10. QED
  BY <1>1, <1>4, <1>9

(***************************************************************************)
(* The bytes of a reply.                                                   *)
(***************************************************************************)


Coded(m) == [i \in DOMAIN m.answers |-> EncodeRecord(m.answers[i])]

\* What a resource record holds.
LEMMA RecordParts ==
    ASSUME NEW r \in Records
    PROVE  /\ r.owner \in Names /\ r.owner \in Seq(Byte) /\ IsName(r.owner)
           /\ r.type \in Byte
           /\ r.data \in Seq(Byte) /\ Len(r.data) \in Byte
<1>1. r \in [owner : Names, type : 0..255, data : Seq(0..255)] /\ Len(r.data) < 256
  BY DnsAssumption
<1>2. r.owner \in Names /\ r.type \in 0..255 /\ r.data \in Seq(0..255)
  BY <1>1
<1>3. Len(r.data) \in Nat
  BY <1>2
<1>4. r.owner \in Seq(0..255) /\ IsName(r.owner)
  BY <1>2, DnsAssumption
<1>5. \A k \in Nat : k < 256 => k \in Byte
  BY DEF Byte
<1>6. QED
  BY <1>1, <1>2, <1>3, <1>4, <1>5 DEF Byte

\* Where the walk finds them in the record's bytes.
RecordHas(s, at, r) ==
    LET head == at + Len(r.owner)
    IN  /\ \A j \in 1..Len(r.owner) : s[at + j] = r.owner[j]
        /\ s[head + 1] = 0 /\ s[head + 2] = r.type
        /\ s[head + 9] = 0 /\ s[head + 10] = Len(r.data)
        /\ \A j \in 1..Len(r.data) : s[head + 10 + j] = r.data[j]

\* The bytes of a are followed by those of b.
Joins(s, a, b) ==
    /\ s \in Seq(Byte) /\ Len(s) = Len(a) + Len(b)
    /\ Len(a) \in Nat /\ Len(b) \in Nat
    /\ \A j \in 1..Len(a) : s[j] = a[j]
    /\ \A j \in 1..Len(b) : s[Len(a) + j] = b[j]

\* Two sequences of bytes joined: the first, then the second.
LEMMA JoinedBytes ==
    ASSUME NEW a \in Seq(Byte), NEW b \in Seq(Byte)
    PROVE  Joins(a \o b, a, b)
BY Joined DEF Joins

\* A record's bytes are bytes, and the walk finds its fields in them.
LEMMA RecordBytes ==
    ASSUME NEW r \in Records
    PROVE  /\ EncodeRecord(r) \in Seq(Byte)
           /\ Len(EncodeRecord(r)) = Len(r.owner) + 10 + Len(r.data)
           /\ Len(r.owner) \in Nat /\ Len(r.data) \in Nat
           /\ RecordHas(EncodeRecord(r), 0, r)
<1> DEFINE o == r.owner
           d == r.data
           h == <<0, r.type, 0, 1, 0, 0, 0, 0, 0, Len(d)>>
           e == o \o h
           s == e \o d
<1>1. o \in Seq(Byte) /\ d \in Seq(Byte) /\ r.type \in Byte /\ Len(d) \in Byte
  BY RecordParts
<1>2. 0 \in Byte /\ 1 \in Byte
  BY DEF Byte
<1>3. h \in Seq(Byte) /\ Len(h) = 10 /\ h[1] = 0 /\ h[2] = r.type /\ h[9] = 0 /\ h[10] = Len(d)
  <2> HIDE DEF d
  <2>1. QED
    BY <1>1, <1>2
<1>4. Joins(e, o, h)
  <2> HIDE DEF o, h
  <2>1. QED
    BY <1>1, <1>3, JoinedBytes
<1>5. Joins(s, e, d)
  <2>1. e \in Seq(Byte)
    BY <1>4 DEF Joins
  <2> HIDE DEF e, d
  <2>2. QED
    BY <1>1, <2>1, JoinedBytes
<1>6. s = EncodeRecord(r)
  BY DEF EncodeRecord
<1> HIDE DEF s, e, h, o, d
<1>7. /\ s \in Seq(Byte) /\ Len(s) = Len(e) + Len(d) /\ Len(d) \in Nat
      /\ Len(e) = Len(o) + 10 /\ Len(o) \in Nat
  BY <1>3, <1>4, <1>5 DEF Joins
<1>8. /\ \A j \in 1..Len(e) : s[j] = e[j]
      /\ \A j \in 1..Len(d) : s[Len(o) + 10 + j] = d[j]
      /\ \A j \in 1..Len(o) : e[j] = o[j]
      /\ \A j \in 1..10 : e[Len(o) + j] = h[j]
  BY <1>3, <1>4, <1>5, <1>7 DEF Joins
<1>9. \A j \in 1..Len(o) : s[0 + j] = o[j]
  <2>1. \A j \in 1..Len(o) : j \in 1..Len(e) /\ 0 + j = j
    BY <1>7
  <2>2. QED
    BY <1>8, <2>1
<1>10. \A j \in 1..10 : s[0 + Len(o) + j] = h[j]
  <2>1. \A j \in 1..10 : Len(o) + j \in 1..Len(e) /\ 0 + Len(o) + j = Len(o) + j
    BY <1>7
  <2>2. QED
    BY <1>8, <2>1
<1>11. \A j \in 1..Len(d) : s[0 + Len(o) + 10 + j] = d[j]
  <2>1. \A j \in 1..Len(d) : 0 + Len(o) + 10 + j = Len(o) + 10 + j
    BY <1>7
  <2>2. QED
    BY <1>8, <2>1
<1>12. /\ s[0 + Len(o) + 1] = 0 /\ s[0 + Len(o) + 2] = r.type
       /\ s[0 + Len(o) + 9] = 0 /\ s[0 + Len(o) + 10] = Len(d)
  <2>1. 1 \in 1..10 /\ 2 \in 1..10 /\ 9 \in 1..10 /\ 10 \in 1..10
    OBVIOUS
  <2>2. QED
    BY <1>3, <1>10, <2>1
<1>13. RecordHas(s, 0, r)
  BY <1>9, <1>11, <1>12 DEF RecordHas, o, d
<1>14. Len(s) = Len(o) + 10 + Len(d)
  BY <1>7
<1>15. QED
  BY <1>6, <1>7, <1>13, <1>14 DEF o, d

\* What a reply holds.
LEMMA ReplyParts ==
    ASSUME NEW m \in Replies
    PROVE  /\ m.question \in Seq(Byte) /\ IsName(m.question)
           /\ m.answers \in Seq(Records)
           /\ Len(m.answers) \in Byte /\ Len(m.answers) \in Nat
           /\ DOMAIN m.answers = 1..Len(m.answers)
<1>1. m.question \in Names /\ m.answers \in BoundedSeq(Records, MaxRecords)
  BY DEF Replies
<1>2. PICK n \in 0..MaxRecords : m.answers \in [1..n -> Records]
  BY <1>1 DEF BoundedSeq, SeqOf
<1>3. n \in Nat /\ n \in Byte
  BY DnsAssumption DEF Byte
<1>4. m.answers \in Seq(Records) /\ Len(m.answers) = n
  <2> DEFINE v == m.answers
  <2>1. v \in [1..n -> Records]
    BY <1>2
  <2> HIDE DEF v
  <2>2. v \in Seq(Records) /\ Len(v) = n
    BY <1>3, <2>1
  <2>3. QED
    BY <2>2 DEF v
<1>5. QED
  BY <1>1, <1>2, <1>3, <1>4, DnsAssumption DEF Byte

\* n zeros are n bytes, each of them zero.
LEMMA ZerosAre ==
    ASSUME NEW n \in Nat
    PROVE  Zeros(n) \in Seq(Byte) /\ Len(Zeros(n)) = n /\ \A j \in 1..n : Zeros(n)[j] = 0
BY DEF Zeros, Byte

\* Where the walk finds its count, its question and its records.
ReplyHas(s, at, m) ==
    /\ s \in Seq(Byte) /\ Len(s) >= 16 + Len(m.question)
    /\ s[7] = 0 /\ s[8] = Len(m.answers)
    /\ \A j \in 1..Len(m.question) : s[12 + j] = m.question[j]
    /\ at[0] = 16 + Len(m.question) /\ at[Len(m.answers)] = Len(s)
    /\ \A i \in 0..Len(m.answers) : at[i] \in Nat /\ at[i] <= Len(s)
    /\ \A i \in 1..Len(m.answers) :
           LET r == m.answers[i]
           IN  /\ at[i] = at[i - 1] + Len(r.owner) + 10 + Len(r.data)
               /\ RecordHas(s, at[i - 1], r)

\* In a reply's bytes the count, the question and each record stand where the
\* form of a reply puts them.
LEMMA ReplyBytes ==
    ASSUME NEW m \in Replies
    PROVE  \E at : ReplyHas(Encode(m), at, m)
<1> DEFINE n == Len(m.answers)
           q == m.question
           c == <<n>>
           h == Coded(m)
           z == Zeros(7)
           y == Zeros(4)
           a == z \o c
           b == a \o y
           d == b \o q
           e == d \o y
           s == e \o FlattenSeq(h)
<1>1. /\ q \in Seq(Byte) /\ m.answers \in Seq(Records) /\ n \in Byte /\ n \in Nat
      /\ DOMAIN m.answers = 1..n
  BY ReplyParts, SMTT(30)
<1>2. h \in [1..n -> Seq(Byte)] /\ \A i \in 1..n : h[i] = EncodeRecord(m.answers[i])
  <2>1. \A i \in 1..n : m.answers[i] \in Records
    BY <1>1
  <2>2. \A i \in 1..n : EncodeRecord(m.answers[i]) \in Seq(Byte)
    BY <2>1, RecordBytes
  <2> HIDE DEF n
  <2>3. QED
    BY <1>1, <2>2 DEF Coded
<1>3. /\ z \in Seq(Byte) /\ Len(z) = 7 /\ z[7] = 0
      /\ y \in Seq(Byte) /\ Len(y) = 4
  <2>1. 7 \in Nat /\ 4 \in Nat /\ 7 \in 1..7
    OBVIOUS
  <2>2. QED
    BY <2>1, ZerosAre
<1>4. c \in Seq(Byte) /\ Len(c) = 1 /\ c[1] = n
  <2> HIDE DEF n
  <2>1. QED
    BY <1>1
<1>5. Joins(a, z, c)
  <2> HIDE DEF c, z
  <2>1. QED
    BY <1>3, <1>4, JoinedBytes
<1>6. Joins(b, a, y)
  <2>1. a \in Seq(Byte)
    BY <1>5 DEF Joins
  <2> HIDE DEF a, y
  <2>2. QED
    BY <1>3, <2>1, JoinedBytes
<1>7. Joins(d, b, q)
  <2>1. b \in Seq(Byte)
    BY <1>6 DEF Joins
  <2> HIDE DEF b, q
  <2>2. QED
    BY <1>1, <2>1, JoinedBytes
<1>8. Joins(e, d, y)
  <2>1. d \in Seq(Byte)
    BY <1>7 DEF Joins
  <2> HIDE DEF d, y
  <2>2. QED
    BY <1>3, <2>1, JoinedBytes
<1>9. FlattenSeq(h) \in Seq(Byte) /\ \E at : Placed(at, s, Len(e), n, h)
  <2>1. e \in Seq(Byte)
    BY <1>8 DEF Joins
  <2> HIDE DEF e, n, h
  <2>2. QED
    BY <1>1, <1>2, <2>1, FlatPlaces
<1>10. Joins(s, e, FlattenSeq(h))
  <2>1. e \in Seq(Byte)
    BY <1>8 DEF Joins
  <2> HIDE DEF e, h
  <2>2. QED
    BY <1>9, <2>1, JoinedBytes
<1>11. s = Encode(m)
  BY DEF Encode, Coded, MetaLen
<1>12. PICK at : Placed(at, s, Len(e), n, h)
  BY <1>9
<1>13. /\ at[0] = Len(e) /\ at[n] = Len(s)
       /\ \A k \in 0..n : at[k] \in Nat /\ at[k] <= Len(s)
       /\ \A k \in 1..n :
              /\ at[k] = at[k - 1] + Len(h[k])
              /\ \A j \in 1..Len(h[k]) : s[at[k - 1] + j] = h[k][j]
  <2> HIDE DEF s, e, n, h
  <2>1. QED
    BY <1>12 DEF Placed
<1>14. /\ Len(a) = 8 /\ Len(b) = 12 /\ Len(d) = 12 + Len(q) /\ Len(e) = 16 + Len(q)
       /\ Len(s) >= 16 + Len(q) /\ Len(q) \in Nat /\ s \in Seq(Byte)
  <2> HIDE DEF s, e, d, b, a, z, y, c, q, n, h
  <2>1. /\ Len(a) = Len(z) + Len(c) /\ Len(b) = Len(a) + Len(y)
        /\ Len(d) = Len(b) + Len(q) /\ Len(e) = Len(d) + Len(y)
        /\ Len(s) = Len(e) + Len(FlattenSeq(h))
    BY <1>5, <1>6, <1>7, <1>8, <1>10 DEF Joins
  <2>2. Len(q) \in Nat /\ Len(FlattenSeq(h)) \in Nat
    BY <1>7, <1>10 DEF Joins
  <2>3. Len(z) = 7 /\ Len(y) = 4 /\ Len(c) = 1
    BY <1>3, <1>4
  <2>4. s \in Seq(Byte)
    BY <1>10 DEF Joins
  <2>5. Len(a) = 8 /\ Len(b) = 12
    BY <2>1, <2>3
  <2>6. Len(d) = 12 + Len(q) /\ Len(e) = 16 + Len(q) /\ Len(s) >= 16 + Len(q)
    BY <2>1, <2>2, <2>3, <2>5
  <2>7. QED
    BY <2>2, <2>4, <2>5, <2>6
<1>15. s[7] = 0 /\ s[8] = n /\ \A j \in 1..Len(q) : s[12 + j] = q[j]
  <2> HIDE DEF s, e, d, b, a, z, y, c, q, n, h
  <2>1. /\ \A j \in 1..7 : a[j] = z[j]
        /\ \A j \in 1..1 : a[7 + j] = c[j]
    BY <1>3, <1>4, <1>5 DEF Joins
  <2>2. /\ \A j \in 1..8 : b[j] = a[j]
        /\ \A j \in 1..12 : d[j] = b[j]
        /\ \A j \in 1..Len(q) : d[12 + j] = q[j]
        /\ \A j \in 1..Len(d) : e[j] = d[j]
        /\ \A j \in 1..Len(e) : s[j] = e[j]
    BY <1>6, <1>7, <1>8, <1>10, <1>14, SMTT(30) DEF Joins
  <2>3. /\ 7 \in 1..7 /\ 7 \in 1..8 /\ 7 \in 1..12 /\ 7 \in 1..Len(d) /\ 7 \in 1..Len(e)
        /\ 1 \in 1..1 /\ 7 + 1 = 8 /\ 8 \in 1..8 /\ 8 \in 1..12 /\ 8 \in 1..Len(d) /\ 8 \in 1..Len(e)
    BY <1>14
  <2>4. s[7] = z[7] /\ s[8] = c[1]
    BY <2>1, <2>2, <2>3
  <2>5. \A j \in 1..Len(q) : 12 + j \in 1..Len(d) /\ 12 + j \in 1..Len(e)
    BY <1>14
  <2>6. QED
    BY <1>3, <1>4, <2>2, <2>4, <2>5
<1>16. ASSUME NEW i \in 1..n
       PROVE  /\ at[i] = at[i - 1] + Len(m.answers[i].owner) + 10 + Len(m.answers[i].data)
              /\ RecordHas(s, at[i - 1], m.answers[i])
  <2> DEFINE r == m.answers[i]
             u == EncodeRecord(r)
             p == at[i - 1]
             k == Len(r.owner)
             l == Len(r.data)
  <2>1. r \in Records /\ h[i] = u
    BY <1>1, <1>2
  <2>2. RecordHas(u, 0, r)
    <3> HIDE DEF r
    <3>1. QED
      BY <2>1, RecordBytes
  <2>3. Len(u) = k + 10 + l /\ k \in Nat /\ l \in Nat
    <3> HIDE DEF r
    <3>1. QED
      BY <2>1, RecordBytes
  <2>4. p \in Nat
    <3>1. i - 1 \in 0..n
      BY <1>1
    <3>2. QED
      BY <1>13, <3>1
  <2>5. at[i] = p + Len(u) /\ \A j \in 1..Len(u) : s[p + j] = u[j]
    BY <1>13, <2>1
  <2>6. /\ \A j \in 1..k : u[0 + j] = r.owner[j]
        /\ u[0 + k + 1] = 0 /\ u[0 + k + 2] = r.type
        /\ u[0 + k + 9] = 0 /\ u[0 + k + 10] = l
        /\ \A j \in 1..l : u[0 + k + 10 + j] = r.data[j]
    <3> HIDE DEF r, u
    <3>1. QED
      BY <2>2 DEF RecordHas
  <2> HIDE DEF s, p, u, k, l, r, n
  <2>7. \A j \in 1..k : s[p + j] = r.owner[j]
    <3>1. \A j \in 1..k : j \in 1..Len(u) /\ 0 + j = j
      BY <2>3
    <3>2. QED
      BY <2>5, <2>6, <3>1
  <2>8. \A j \in 1..10 : /\ k + j \in 1..Len(u) /\ 0 + k + j = k + j
                         /\ p + (k + j) = p + k + j
    BY <2>3, <2>4
  <2>9. \A j \in 1..10 : s[p + k + j] = u[0 + k + j]
    BY <2>5, <2>8
  <2>10. /\ s[p + k + 1] = 0 /\ s[p + k + 2] = r.type
         /\ s[p + k + 9] = 0 /\ s[p + k + 10] = l
    <3>1. 1 \in 1..10 /\ 2 \in 1..10 /\ 9 \in 1..10 /\ 10 \in 1..10
      OBVIOUS
    <3>2. QED
      BY <2>6, <2>9, <3>1
  <2>11. \A j \in 1..l : /\ k + 10 + j \in 1..Len(u) /\ 0 + k + 10 + j = k + 10 + j
                         /\ p + (k + 10 + j) = p + k + 10 + j
    BY <2>3, <2>4
  <2>12. \A j \in 1..l : s[p + k + 10 + j] = r.data[j]
    BY <2>5, <2>6, <2>11
  <2>13. RecordHas(s, p, r)
    BY <2>7, <2>10, <2>12 DEF RecordHas, k, l
  <2>14. at[i] = p + k + 10 + l
    BY <2>3, <2>4, <2>5
  <2>15. QED
    BY <2>13, <2>14 DEF k, l, p, r
<1>17. ReplyHas(s, at, m)
  <2>1. at[0] = 16 + Len(q)
    BY <1>13, <1>14
  <2> HIDE DEF s, e
  <2>2. QED
    BY <1>13, <1>14, <1>15, <1>16, <2>1 DEF ReplyHas
<1>18. QED
  BY <1>11, <1>17

(***************************************************************************)
(* skip_name_field.                                                        *)
(***************************************************************************)

\* A table of it: where the name at each offset ends.
Skips(f) ==
    /\ f \in [0..Len(buf) + 256 -> Nat]
    /\ \A p \in 0..Len(buf) + 256 : f[p] <= p \/ f[p] <= Len(buf) + 191
    /\ \A p \in 0..Len(buf) + 256 :
           /\ p >= Len(buf) => f[p] = p
           /\ p < Len(buf) /\ buf[p + 1] >= 192 => f[p] = p + 2
           /\ p < Len(buf) /\ buf[p + 1] = 0 => f[p] = p + 1
           /\ p < Len(buf) /\ buf[p + 1] \in 1..191 => f[p] = f[p + buf[p + 1] + 1]

\* There is one, since the walk goes forward only, and skip_name_field reads it.
LEMMA SkipTable ==
    ASSUME buf \in Seq(Byte)
    PROVE  \E f : Skips(f) /\ \A o : SkipName(o) = f[o]
<1> DEFINE L == Len(buf)
           D == 0..L + 256
           Body(g, p) == IF p >= L THEN p
                         ELSE IF At(p) >= 192 THEN p + 2
                         ELSE IF At(p) = 0 THEN p + 1
                         ELSE g[p + At(p) + 1]
           Eq(g) == g = [p \in D |-> Body(g, p)]
           From(g, q) == \A p \in D : p >= q => g[p] = Body(g, p)
           Fits(p, e) == e <= p \/ e <= L + 191
           T == {g \in [D -> Nat] : \A p \in D : Fits(p, g[p])}
           S == {m \in 0..L : \E g \in T : From(g, L - m)}
<1>1. L \in Nat /\ \A p \in 0..L - 1 : buf[p + 1] \in Byte
  <2>1. L \in Nat
    OBVIOUS
  <2>2. \A p \in 0..L - 1 : p + 1 \in 1..L
    BY <2>1
  <2>3. QED
    BY <2>1, <2>2
<1>2. \A p \in 0..L - 1 : At(p) = buf[p + 1] /\ At(p) \in 0..255 /\ p + At(p) + 1 \in D /\ p \in D
  <2>1. ASSUME NEW p \in 0..L - 1
        PROVE  At(p) = buf[p + 1] /\ At(p) \in 0..255 /\ p + At(p) + 1 \in D /\ p \in D
    <3>1. At(p) = buf[p + 1]
      BY <1>1 DEF At
    <3>2. At(p) \in 0..255
      BY <1>1, <3>1 DEF Byte
    <3>3. \A k \in 0..255 : p + k + 1 \in D /\ p \in D
      BY <1>1
    <3>4. QED
      BY <3>1, <3>2, <3>3
  <2>2. QED
    BY <2>1
<1>3. ASSUME NEW p \in D, NEW g
      PROVE  /\ p >= L => Body(g, p) = p
             /\ p < L /\ At(p) >= 192 => Body(g, p) = p + 2
             /\ p < L /\ At(p) = 0 => Body(g, p) = p + 1
             /\ p < L /\ At(p) \in 1..191 => Body(g, p) = g[p + At(p) + 1]
  <2>1. CASE p >= L
    <3>1. ~(p < L)
      BY <1>1, <2>1
    <3>2. QED
      BY <2>1, <3>1
  <2>2. CASE p < L
    <3>1. ~(p >= L) /\ p \in 0..L - 1
      BY <1>1, <2>2
    <3> DEFINE v == At(p)
    <3>2. v \in 0..255
      BY <1>2, <3>1
    <3> HIDE DEF v
    <3>3. CASE v >= 192
      <4>1. v # 0 /\ v \notin 1..191
        BY <3>2, <3>3
      <4>2. QED
        BY <2>2, <3>1, <3>3, <4>1 DEF v
    <3>4. CASE v = 0
      <4>1. ~(v >= 192) /\ v \notin 1..191
        BY <3>4
      <4>2. QED
        BY <2>2, <3>1, <3>4, <4>1 DEF v
    <3>5. CASE v \in 1..191
      <4>1. ~(v >= 192) /\ v # 0
        BY <3>5
      <4>2. QED
        BY <2>2, <3>1, <3>5, <4>1 DEF v
    <3>6. v >= 192 \/ v = 0 \/ v \in 1..191
      BY <3>2
    <3>7. QED
      BY <3>3, <3>4, <3>5, <3>6
  <2>3. QED
    BY <1>1, <2>1, <2>2
<1>4. ASSUME NEW p \in D
      PROVE p >= L \/ (p \in 0..L - 1 /\ p < L /\ (At(p) >= 192 \/ At(p) = 0 \/ At(p) \in 1..191))
  <2>1. p >= L \/ (p \in 0..L - 1 /\ p < L)
    BY <1>1
  <2> DEFINE v == At(p)
  <2>2. p \in 0..L - 1 => v \in 0..255
    BY <1>2
  <2> HIDE DEF v
  <2>3. ASSUME v \in 0..255 PROVE v >= 192 \/ v = 0 \/ v \in 1..191
    BY <2>3
  <2>4. CASE p >= L
    BY <2>4
  <2>5. CASE p \in 0..L - 1 /\ p < L
    <3>1. v >= 192 \/ v = 0 \/ v \in 1..191
      BY <2>2, <2>3, <2>5
    <3>2. QED
      BY <2>5, <3>1 DEF v
  <2>6. QED
    BY <2>1, <2>4, <2>5
<1> HIDE DEF Body
<1>5. ASSUME NEW g \in T, NEW p \in D PROVE Body(g, p) \in Nat /\ Fits(p, Body(g, p))
  <2>1. p \in Nat /\ Fits(p, p)
    BY <1>1
  <2>2. p < L => p + 1 \in Nat /\ p + 2 \in Nat /\ Fits(p, p + 1) /\ Fits(p, p + 2)
    BY <1>1
  <2>3. ASSUME p < L, At(p) \in 1..191
        PROVE  g[p + At(p) + 1] \in Nat /\ Fits(p, g[p + At(p) + 1])
    <3>1. ASSUME NEW k \in 1..191
          PROVE  p + k + 1 \in D /\ \A e \in Nat : Fits(p + k + 1, e) => Fits(p, e)
      BY <1>1, <2>3
    <3> DEFINE e == g[p + At(p) + 1]
    <3>2. p + At(p) + 1 \in D
      BY <2>3, <3>1
    <3>3. e \in Nat /\ Fits(p + At(p) + 1, e)
      BY <3>2
    <3> HIDE DEF e, Fits
    <3>4. e \in Nat /\ Fits(p, e)
      BY <2>3, <3>1, <3>3
    <3>5. QED
      BY <3>4 DEF e
  <2> HIDE DEF Fits
  <2>4. QED
    BY <1>3, <1>4, <2>1, <2>2, <2>3, ZenonT(30)
<1>6. 0 \in S
  <2> DEFINE g == [p \in D |-> p]
  <2>1. g \in [D -> Nat] /\ \A p \in D : Fits(p, g[p])
    BY <1>1
  <2>2. From(g, L - 0)
    BY <1>1, <1>3
  <2>3. g \in T
    BY <2>1
  <2> HIDE DEF From, T, g
  <2>4. QED
    BY <1>1, <2>2, <2>3
<1>7. ASSUME NEW m \in 1..L, m - 1 \in S PROVE m \in S
  <2>1. PICK f \in T : From(f, L - (m - 1))
    BY <1>7
  <2> DEFINE q == L - m
             b == Body(f, q)
             g == [f EXCEPT ![q] = b]
  <2>2. q \in D /\ q \in 0..L - 1 /\ L - (m - 1) = q + 1
    BY <1>1
  <2>3. b \in Nat /\ Fits(q, b)
    <3> HIDE DEF Fits, T, q
    <3>1. QED
      BY <1>5, <2>1, <2>2
  <2>4. g \in T /\ g[q] = b /\ \A p \in D : p # q => g[p] = f[p]
    <3> HIDE DEF b, q, Fits
    <3>1. g \in [D -> Nat] /\ g[q] = b /\ \A p \in D : p # q => g[p] = f[p]
      BY <2>2, <2>3
    <3>2. \A p \in D : Fits(p, g[p])
      BY <2>3, <3>1
    <3>3. QED
      BY <3>1, <3>2
  <2>5. ASSUME NEW p \in D, p >= q PROVE Body(g, p) = Body(f, p)
    <3>1. CASE p >= L
      BY <1>3, <3>1
    <3>2. CASE p < L /\ At(p) >= 192
      BY <1>3, <3>2
    <3>3. CASE p < L /\ At(p) = 0
      BY <1>3, <3>3
    <3>4. CASE p \in 0..L - 1 /\ p < L /\ At(p) \in 1..191
      <4>1. p + At(p) + 1 \in D /\ p + At(p) + 1 # q
        <5>1. p + At(p) + 1 \in D
          BY <1>2, <3>4
        <5>2. \A k \in 1..191 : p + k + 1 # q
          BY <1>1, <2>2, <2>5
        <5>3. QED
          BY <3>4, <5>1, <5>2
      <4> HIDE DEF g, q
      <4>2. g[p + At(p) + 1] = f[p + At(p) + 1]
        BY <2>4, <4>1
      <4>3. QED
        BY <1>3, <3>4, <4>2
    <3>5. QED
      BY <1>4, <3>1, <3>2, <3>3, <3>4
  <2>6. ASSUME NEW p \in D, p >= q PROVE g[p] = Body(g, p)
    <3>1. Body(g, p) = Body(f, p)
      BY <2>5, <2>6
    <3>2. CASE p = q
      BY <2>4, <3>1, <3>2
    <3>3. CASE p # q
      <4>1. p >= q + 1
        BY <1>1, <2>2, <2>6, <3>3
      <4>2. f[p] = Body(f, p)
        BY <2>1, <2>2, <4>1
      <4> HIDE DEF g, q
      <4>3. QED
        BY <2>4, <3>1, <3>3, <4>2
    <3>4. QED
      BY <3>2, <3>3
  <2>7. From(g, L - m)
    <3> HIDE DEF g
    <3>1. QED
      BY <2>6
  <2>8. m \in 0..L
    BY <1>1
  <2> HIDE DEF g, From
  <2>9. QED
    BY <2>4, <2>7, <2>8
<1>8. PICK f \in T : From(f, 0)
  <2>1. L \in S
    <3> HIDE DEF S, L
    <3>1. 0..L \subseteq S
      BY <1>1, <1>6, <1>7, Upto
    <3>2. QED
      BY <1>1, <3>1
  <2>2. L - L = 0
    BY <1>1
  <2> HIDE DEF From
  <2>3. QED
    BY <2>1, <2>2
<1>9. \A p \in D : f[p] = Body(f, p)
  BY <1>1, <1>8
<1>10. Eq(f)
  BY <1>9
<1>11. PICK g : Eq(g) /\ \A o : SkipName(o) = g[o]
  <2> DEFINE c == CHOOSE g : Eq(g)
  <2>1. Eq(c)
    BY <1>10
  <2>2. \A o : SkipName(o) = c[o]
    BY DEF SkipName, Body
  <2> HIDE DEF c, Eq
  <2>3. QED
    BY <2>1, <2>2
<1>12. DOMAIN g = D /\ \A p \in D : g[p] = Body(g, p)
  BY <1>11
<1> HIDE DEF Eq
<1> DEFINE Agree == {m \in 0..L : \A p \in D : p >= L - m => g[p] = f[p]}
<1>13. 0 \in Agree
  <2>1. \A p \in D : p >= L - 0 => Body(g, p) = p /\ Body(f, p) = p
    BY <1>1, <1>3
  <2>2. 0 \in 0..L
    BY <1>1
  <2>3. QED
    BY <1>9, <1>12, <2>1, <2>2
<1>14. ASSUME NEW m \in 1..L, m - 1 \in Agree PROVE m \in Agree
  <2>1. \A p \in D : p >= L - (m - 1) => g[p] = f[p]
    BY <1>14
  <2>2. ASSUME NEW p \in D, p >= L - m PROVE Body(g, p) = Body(f, p)
    <3>1. CASE p >= L
      BY <1>3, <3>1
    <3>2. CASE p < L /\ At(p) >= 192
      BY <1>3, <3>2
    <3>3. CASE p < L /\ At(p) = 0
      BY <1>3, <3>3
    <3>4. CASE p \in 0..L - 1 /\ p < L /\ At(p) \in 1..191
      <4>1. \A k \in 1..191 : p + k + 1 >= L - (m - 1)
        BY <1>1, <2>2
      <4>2. p + At(p) + 1 \in D
        BY <1>2, <3>4
      <4>3. g[p + At(p) + 1] = f[p + At(p) + 1]
        BY <2>1, <3>4, <4>1, <4>2
      <4>4. QED
        BY <1>3, <3>4, <4>3
    <3>5. QED
      BY <1>4, <3>1, <3>2, <3>3, <3>4
  <2>3. m \in 0..L
    BY <1>1
  <2>4. \A p \in D : p >= L - m => g[p] = f[p]
    BY <1>9, <1>12, <2>2
  <2>5. QED
    BY <2>3, <2>4
<1>15. \A p \in D : g[p] = f[p]
  <2>1. L \in Agree
    <3> HIDE DEF Agree, L
    <3>1. 0..L \subseteq Agree
      BY <1>1, <1>13, <1>14, Upto
    <3>2. QED
      BY <1>1, <3>1
  <2>2. \A p \in D : p >= L - L
    BY <1>1
  <2>3. QED
    BY <2>1, <2>2
<1>16. g = f
  <2>1. g = [p \in D |-> g[p]] /\ f = [p \in D |-> f[p]]
    BY <1>11 DEF Eq
  <2>2. QED
    BY <1>15, <2>1
<1>17. Skips(f)
  <2>1. f \in [D -> Nat] /\ \A p \in D : f[p] <= p \/ f[p] <= L + 191
    OBVIOUS
  <2>2. ASSUME NEW p \in D
        PROVE  /\ p >= L => f[p] = p
               /\ p < L /\ buf[p + 1] >= 192 => f[p] = p + 2
               /\ p < L /\ buf[p + 1] = 0 => f[p] = p + 1
               /\ p < L /\ buf[p + 1] \in 1..191 => f[p] = f[p + buf[p + 1] + 1]
    <3>1. p < L => At(p) = buf[p + 1]
      BY DEF At
    <3>2. f[p] = Body(f, p)
      BY <1>9
    <3>3. /\ p >= L => f[p] = p
          /\ p < L /\ At(p) >= 192 => f[p] = p + 2
          /\ p < L /\ At(p) = 0 => f[p] = p + 1
          /\ p < L /\ At(p) \in 1..191 => f[p] = f[p + At(p) + 1]
      BY <1>3, <3>2
    <3>4. CASE p < L
      BY <3>1, <3>3, <3>4, ZenonT(30)
    <3>5. CASE ~(p < L)
      BY <3>3, <3>5
    <3>6. QED
      BY <3>4, <3>5
  <2>3. QED
    BY <2>1, <2>2 DEF Skips
<1>18. QED
  BY <1>11, <1>16, <1>17

\* Past what was received, nothing is skipped.
LEMMA SkipBeyond ==
    ASSUME buf \in Seq(Byte), NEW o \in Nat, o >= Len(buf), o <= Len(buf) + 256
    PROVE  SkipName(o) = o
<1>1. PICK f : Skips(f) /\ \A p : SkipName(p) = f[p]
  BY SkipTable
<1>2. o \in 0..Len(buf) + 256
  OBVIOUS
<1>3. f[o] = o
  BY <1>1, <1>2 DEF Skips
<1>4. QED
  BY <1>1, <1>3

\* In any case it goes to some byte.
LEMMA SkipType ==
    ASSUME buf \in Seq(Byte), NEW o \in Nat, o <= Len(buf) + 256
    PROVE  SkipName(o) \in Nat
<1>1. PICK f : Skips(f) /\ \A p : SkipName(p) = f[p]
  BY SkipTable
<1>2. o \in 0..Len(buf) + 256
  OBVIOUS
<1>3. f[o] \in Nat
  BY <1>1, <1>2 DEF Skips
<1>4. QED
  BY <1>1, <1>3

\* Where a name stands in a reply s that is received up to some byte, the walk
\* goes to its end, unless it is cut: then the walk may also stop where the
\* bytes do.
Stands(s, o, name) == \A j \in 1..Len(name) : s[o + j] = name[j]
Begins(s) == Len(buf) <= Len(s) /\ \A i \in 1..Len(buf) : buf[i] = s[i]

\* On the first bytes of a reply, skip_name_field from the first byte of a
\* name comes to the byte behind it, or to the end of what was received when the
\* name does not end before that; it never runs 192 bytes past the end.
LEMMA SkipIs ==
    ASSUME buf \in Seq(Byte), NEW s \in Seq(Byte), Begins(s),
           NEW name \in Seq(Byte), IsName(name),
           NEW o \in 0..Len(buf) + 256, Stands(s, o, name)
    PROVE  /\ SkipName(o) \in Nat
           /\ SkipName(o) <= o \/ SkipName(o) <= Len(buf) + 191
           /\ \/ SkipName(o) = o + Len(name)
              \/ SkipName(o) >= Len(buf) /\ o + Len(name) > Len(buf)
<1> DEFINE L == Len(buf)
           n == Len(name)
           End(e) == e = o + n \/ (e >= L /\ o + n > L)
<1>1. L \in Nat /\ n \in Nat
  OBVIOUS
<1>2. PICK f : Skips(f) /\ \A p : SkipName(p) = f[p]
  BY SkipTable
<1>3. /\ f \in [0..L + 256 -> Nat] /\ \A p \in 0..L + 256 : f[p] <= p \/ f[p] <= L + 191
      /\ \A p \in 0..L + 256 :
             /\ p >= L => f[p] = p
             /\ p < L /\ buf[p + 1] >= 192 => f[p] = p + 2
             /\ p < L /\ buf[p + 1] = 0 => f[p] = p + 1
             /\ p < L /\ buf[p + 1] \in 1..191 => f[p] = f[p + buf[p + 1] + 1]
  BY <1>2 DEF Skips
<1>4. PICK marks \in SUBSET (0..n - 1) :
          /\ 0 \in marks
          /\ \A p \in marks :
                \/ name[p + 1] = 0 /\ p + 1 = n
                \/ name[p + 1] \in 192..255 /\ p + 2 = n
                \/ name[p + 1] \in 1..191 /\ p + name[p + 1] + 1 \in marks
  BY DEF IsName
<1>5. \A p \in marks : p \in 0..n - 1 /\ p \in Nat /\ p < n /\ o + p \in Nat
  BY <1>1
<1>6. ASSUME NEW p \in marks, o + p < L
      PROVE  buf[o + p + 1] = name[p + 1] /\ o + p \in 0..L + 256
  <2>1. p + 1 \in 1..n /\ o + p + 1 \in 1..L /\ o + (p + 1) = o + p + 1 /\ o + p \in 0..L + 256
    BY <1>1, <1>5, <1>6
  <2>2. s[o + (p + 1)] = name[p + 1]
    BY <2>1 DEF Stands
  <2>3. buf[o + p + 1] = s[o + p + 1]
    BY <2>1 DEF Begins
  <2>4. QED
    BY <2>1, <2>2, <2>3
<1> DEFINE S == {m \in 0..n : \A p \in marks : p >= n - m /\ o + p <= L + 256 => End(f[o + p])}
<1>7. 0 \in S
  <2>1. \A p \in marks : ~(p >= n - 0)
    BY <1>1, <1>5
  <2>2. 0 \in 0..n
    BY <1>1
  <2>3. QED
    BY <2>1, <2>2
<1>8. ASSUME NEW m \in 1..n, m - 1 \in S PROVE m \in S
  <2>1. ASSUME NEW p \in marks, p >= n - m, o + p <= L + 256 PROVE End(f[o + p])
    <3>1. p \in Nat /\ p < n /\ o + p \in Nat /\ o + p \in 0..L + 256 /\ o + p < o + n
      BY <1>1, <1>5, <2>1
    <3>2. CASE o + p >= L
      <4>1. f[o + p] = o + p
        BY <1>3, <3>1, <3>2
      <4>2. o + n > L
        BY <1>1, <3>1, <3>2
      <4>3. QED
        BY <3>2, <4>1, <4>2
    <3>3. CASE o + p < L
      <4>1. buf[o + p + 1] = name[p + 1]
        BY <1>6, <3>3
      <4>6. /\ buf[o + p + 1] >= 192 => f[o + p] = o + p + 2
            /\ buf[o + p + 1] = 0 => f[o + p] = o + p + 1
            /\ buf[o + p + 1] \in 1..191 => f[o + p] = f[o + p + buf[o + p + 1] + 1]
        <5> DEFINE x == o + p
        <5>1. x \in 0..L + 256 /\ x < L
          BY <3>1, <3>3
        <5> HIDE DEF x
        <5>2. /\ buf[x + 1] >= 192 => f[x] = x + 2
              /\ buf[x + 1] = 0 => f[x] = x + 1
              /\ buf[x + 1] \in 1..191 => f[x] = f[x + buf[x + 1] + 1]
          BY <1>3, <5>1
        <5>3. QED
          BY <5>2 DEF x
      <4>2. CASE name[p + 1] = 0 /\ p + 1 = n
        <5>1. f[o + p] = o + p + 1
          BY <4>6, <4>1, <4>2
        <5>2. p + 1 = n
          BY <4>2
        <5>3. o + p + 1 = o + n
          BY <1>1, <3>1, <5>2
        <5>4. QED
          BY <5>1, <5>3
      <4>3. CASE name[p + 1] \in 192..255 /\ p + 2 = n
        <5>1. \A v : v \in 192..255 => v >= 192
          OBVIOUS
        <5>2. f[o + p] = o + p + 2
          BY <4>6, <4>1, <4>3, <5>1
        <5>3. p + 2 = n
          BY <4>3
        <5>4. o + p + 2 = o + n
          BY <1>1, <3>1, <5>3, SMTT(30)
        <5>5. QED
          BY <5>2, <5>4
      <4>4. CASE name[p + 1] \in 1..191 /\ p + name[p + 1] + 1 \in marks
        <5> DEFINE v == name[p + 1]
                   q == p + v + 1
        <5>1. v \in 1..191 /\ q \in marks
          BY <4>4
        <5>2. f[o + p] = f[o + p + v + 1]
          BY <4>6, <4>1, <5>1
        <5> HIDE DEF v
        <5>3. o + p + v + 1 = o + q /\ q >= n - (m - 1) /\ o + q <= L + 256
          BY <1>1, <2>1, <3>1, <3>3, <5>1
        <5>4. End(f[o + q])
          <6> HIDE DEF q, End
          <6>1. QED
            BY <1>8, <5>1, <5>3
        <5>5. f[o + p] = f[o + q]
          BY <5>2, <5>3
        <5> HIDE DEF q, End
        <5>6. QED
          BY <5>4, <5>5
      <4>5. QED
        BY <1>4, <4>2, <4>3, <4>4
    <3>4. QED
      BY <1>1, <3>1, <3>2, <3>3
  <2>2. m \in 0..n
    BY <1>1
  <2> HIDE DEF End
  <2>3. QED
    BY <2>1, <2>2
<1>9. n \in S
  <2> HIDE DEF S, n
  <2>1. 0..n \subseteq S
    BY <1>1, <1>7, <1>8, Upto
  <2>2. QED
    BY <1>1, <2>1
<1>10. End(f[o])
  <2>1. 0 >= n - n /\ o + 0 = o /\ o + 0 <= L + 256
    BY <1>1
  <2> HIDE DEF End
  <2>2. End(f[o + 0])
    BY <1>4, <1>9, <2>1
  <2>3. QED
    BY <2>1, <2>2
<1>11. f[o] \in Nat /\ (f[o] <= o \/ f[o] <= L + 191)
  BY <1>3
<1>12. QED
  BY <1>2, <1>10, <1>11

(***************************************************************************)
(* The inductive invariant.                                                *)
(***************************************************************************)

ResolverTypeOK ==
    /\ via \in {"udp", "tor"} /\ sock \in BOOLEAN
    /\ stage \in {"socket", "send", "datagram", "length", "payload", "parse", "walk", "done"}
    /\ server \in {"quiet", "answered", "lost"}
    /\ reply \in Replies /\ buf \in Seq(Byte) /\ result \in Seq(Byte)
    /\ offset \in Nat /\ index \in Nat

\* What is received is the first of the reply's bytes.
Received ==
    /\ Begins(Encode(reply))
    /\ stage \in {"socket", "send", "datagram", "length"} => buf = <<>>
    /\ stage \notin {"walk", "done"} => index = 0
    /\ stage # "done" => result = <<>>

\* index records are behind the walk, no address among them, and it is at the
\* next one, unless the bytes end before it: then it is past them too.
Reached(at) ==
    \/ offset = at[index]
    \/ offset >= Len(buf) /\ at[index] > Len(buf)
Walking ==
    stage = "walk" =>
        /\ offset <= Len(buf) + 256 /\ index <= Len(reply.answers)
        /\ \A i \in 1..index : ~AddressRecord(reply.answers[i])
        /\ \E at : ReplyHas(Encode(reply), at, reply) /\ Reached(at)

ResolverInv == ResolverTypeOK /\ Received /\ Walking /\ WalkIsRight /\ CutIsHarmless

(***************************************************************************)
(* The next record.                                                        *)
(***************************************************************************)

\* The record the walk is at, when its header is received.
Current == reply.answers[index + 1]

\* Bytes of the reply as the walk reads them.
LEMMA AtIs ==
    ASSUME buf \in Seq(Byte), NEW s \in Seq(Byte), Begins(s), NEW o \in Nat
    PROVE  /\ At(o) \in Byte
           /\ o < Len(buf) => At(o) = s[o + 1]
           /\ o >= Len(buf) => At(o) = 0
<1>1. Len(buf) \in Nat /\ 0 \in Byte
  BY DEF Byte
<1>2. CASE o < Len(buf)
  <2>1. o + 1 \in 1..Len(buf) /\ ~(o >= Len(buf))
    BY <1>1, <1>2
  <2>2. buf[o + 1] \in Byte /\ buf[o + 1] = s[o + 1]
    BY <2>1 DEF Begins
  <2>3. At(o) = buf[o + 1]
    BY <1>2 DEF At
  <2>4. QED
    BY <2>1, <2>2, <2>3
<1>3. CASE ~(o < Len(buf))
  <2>1. At(o) = 0
    BY <1>3 DEF At
  <2>2. QED
    BY <1>1, <1>3, <2>1
<1>4. QED
  BY <1>2, <1>3

\* A high byte that is zero leaves the low one.
LEMMA ShortIs ==
    ASSUME NEW o \in Nat, At(o) = 0, At(o + 1) \in Byte
    PROVE  Short(o) = At(o + 1)
<1> DEFINE v == At(o + 1)
<1>1. v \in 0..255
  BY DEF Byte
<1>2. Short(o) = 0 * 256 + v
  BY DEF Short
<1> HIDE DEF v
<1>3. 0 * 256 + v = v
  BY <1>1
<1>4. QED
  BY <1>2, <1>3 DEF v

\* Once twelve bytes are received, so is the count of the answers.
LEMMA CountIs ==
    ASSUME ResolverTypeOK, Received, Len(buf) >= 8
    PROVE  AnswerCount = Len(reply.answers)
<1> DEFINE s == Encode(reply)
<1>1. PICK at : ReplyHas(s, at, reply)
  BY ReplyBytes DEF ResolverTypeOK
<1>2. s \in Seq(Byte) /\ s[7] = 0 /\ s[8] = Len(reply.answers)
  BY <1>1 DEF ReplyHas
<1>3. buf \in Seq(Byte) /\ Begins(s) /\ Len(buf) \in Nat
  BY DEF ResolverTypeOK, Received
<1>4. 6 \in Nat /\ 7 \in Nat /\ 6 < Len(buf) /\ 7 < Len(buf) /\ 6 + 1 = 7 /\ 7 + 1 = 8
  BY <1>3
<1> HIDE DEF s
<1>5. At(6) = s[7] /\ At(7) = s[8] /\ At(7) \in Byte
  BY <1>2, <1>3, <1>4, AtIs
<1>6. Short(6) = At(7)
  BY <1>2, <1>4, <1>5, ShortIs
<1>7. QED
  BY <1>2, <1>5, <1>6 DEF AnswerCount

\* Where the walk looks for a record's header.
LEMMA HeaderIs ==
    ASSUME ResolverTypeOK, Received, NEW at, ReplyHas(Encode(reply), at, reply),
           index < Len(reply.answers), offset = at[index], offset <= Len(buf) + 256
    PROVE  /\ Current \in Records
           /\ RecordHeader \in Nat
           /\ \/ RecordHeader = offset + Len(Current.owner)
              \/ RecordHeader >= Len(buf) /\ offset + Len(Current.owner) > Len(buf)
<1> DEFINE s == Encode(reply)
           n == Len(reply.answers)
           r == Current
<1>1. s \in Seq(Byte) /\ buf \in Seq(Byte) /\ Begins(s)
  BY DEF ResolverTypeOK, Received, ReplyHas
<1>2. reply.answers \in Seq(Records) /\ n \in Nat
  BY ReplyParts, SMTT(30) DEF ResolverTypeOK
<1>3. index \in Nat /\ offset \in Nat /\ index + 1 \in 1..n /\ (index + 1) - 1 = index
  BY <1>2 DEF ResolverTypeOK
<1>4. r \in Records
  BY <1>2, <1>3 DEF Current
<1>5. r.owner \in Seq(Byte) /\ IsName(r.owner)
  BY <1>4, RecordParts
<1>6. RecordHas(s, at[(index + 1) - 1], reply.answers[index + 1])
  BY <1>3 DEF ReplyHas
<1>7. RecordHas(s, offset, r)
  BY <1>3, <1>6 DEF Current
<1>8. Stands(s, offset, r.owner)
  BY <1>7 DEF RecordHas, Stands
<1>9. offset \in 0..Len(buf) + 256
  BY <1>1, <1>3
<1>10. /\ SkipName(offset) \in Nat
       /\ \/ SkipName(offset) = offset + Len(r.owner)
          \/ SkipName(offset) >= Len(buf) /\ offset + Len(r.owner) > Len(buf)
  <2> HIDE DEF s, r
  <2>1. QED
    BY <1>1, <1>5, <1>8, <1>9, SkipIs
<1>11. QED
  BY <1>4, <1>10 DEF RecordHeader

\* What the walk finds in it.
Found(at) ==
    /\ ReplyHas(Encode(reply), at, reply)
    /\ index + 1 \in 1..Len(reply.answers) /\ Current \in Records
    /\ RecordHeader \in Nat /\ RecordHeader + 10 <= Len(buf)
    /\ at[index + 1] = RecordHeader + 10 + Len(Current.data)
    /\ IsAddress <=> AddressRecord(Current)
    /\ Short(RecordHeader + 8) = Len(Current.data)
    /\ \A j \in 1..Len(Current.data) :
           At(RecordHeader + 10 + j - 1) = IF RecordHeader + 10 + j <= Len(buf) THEN Current.data[j] ELSE 0

\* While the walk has a record's header before it, it has found that record.
LEMMA RecordFound ==
    ASSUME ResolverTypeOK, Received, Walking, stage = "walk",
           index < AnswerCount, RecordHeader + RecordLen <= Len(buf)
    PROVE  \E at : Found(at)
<1> DEFINE s == Encode(reply)
           n == Len(reply.answers)
           r == Current
           L == Len(buf)
<1>1. PICK at : ReplyHas(s, at, reply) /\ Reached(at)
  BY DEF Walking
<1>2. s \in Seq(Byte) /\ buf \in Seq(Byte) /\ Begins(s) /\ L \in Nat /\ offset \in Nat /\ index \in Nat
  BY <1>1 DEF ResolverTypeOK, Received, ReplyHas
<1>3. offset <= L + 256
  BY DEF Walking
<1>4. RecordHeader + 10 <= L
  BY DEF RecordLen
<1>5. offset = at[index]
  <2>1. CASE offset >= L
    <3>1. SkipName(offset) = offset
      BY <1>2, <1>3, <2>1, SkipBeyond
    <3>2. RecordHeader = offset
      BY <3>1 DEF RecordHeader
    <3>3. FALSE
      BY <1>2, <1>4, <2>1, <3>2
    <3>4. QED
      BY <3>3
  <2>2. CASE ~(offset >= L)
    BY <1>1, <2>2 DEF Reached
  <2>3. QED
    BY <2>1, <2>2
<1>6. n \in Nat /\ reply.answers \in Seq(Records)
  BY ReplyParts, SMTT(30) DEF ResolverTypeOK
<1>7. RecordHeader \in Nat
  BY <1>2, <1>3, SkipType DEF RecordHeader
<1>8. AnswerCount = n
  <2>1. L >= 8
    BY <1>2, <1>4, <1>7
  <2>2. QED
    BY <2>1, CountIs
<1>9. index < n /\ index + 1 \in 1..n /\ (index + 1) - 1 = index
  BY <1>2, <1>6, <1>8
<1>10. /\ r \in Records
       /\ \/ RecordHeader = offset + Len(r.owner)
          \/ RecordHeader >= L /\ offset + Len(r.owner) > L
  BY <1>1, <1>3, <1>5, <1>9, HeaderIs
<1>11. /\ r.owner \in Seq(Byte) /\ r.data \in Seq(Byte) /\ r.type \in Byte
       /\ Len(r.owner) \in Nat /\ Len(r.data) \in Nat
  <2>1. r.owner \in Seq(Byte) /\ r.data \in Seq(Byte) /\ r.type \in Byte
    BY <1>10, RecordParts
  <2>2. QED
    BY <2>1
<1> DEFINE h == RecordHeader
           k == Len(r.owner)
           l == Len(r.data)
<1>12. h = offset + k /\ h + 10 <= L /\ h \in Nat
  BY <1>2, <1>4, <1>7, <1>10
<1>13. /\ at[index + 1] = at[index] + k + 10 + l
       /\ RecordHas(s, at[index], r)
  BY <1>1, <1>9 DEF ReplyHas, Current
<1>14. at[index + 1] = h + 10 + l
  <2> HIDE DEF h, k, l
  <2>1. QED
    BY <1>5, <1>12, <1>13
<1>15. /\ s[h + 1] = 0 /\ s[h + 2] = r.type /\ s[h + 9] = 0 /\ s[h + 10] = l
       /\ \A j \in 1..l : s[h + 10 + j] = r.data[j]
  <2>1. offset + k = h
    BY <1>12
  <2>2. RecordHas(s, offset, r)
    BY <1>5, <1>13
  <2> HIDE DEF h, s, r
  <2>3. QED
    BY <2>1, <2>2 DEF RecordHas, k, l
<1> HIDE DEF h, s, r, k, l
<1>16. /\ At(h) = 0 /\ At(h + 1) = r.type /\ At(h + 8) = 0 /\ At(h + 9) = l
  <2>1. /\ h + 1 \in Nat /\ h + 8 \in Nat /\ h + 9 \in Nat
        /\ h < L /\ h + 1 < L /\ h + 8 < L /\ h + 9 < L
        /\ (h + 1) + 1 = h + 2 /\ (h + 8) + 1 = h + 9 /\ (h + 9) + 1 = h + 10
    BY <1>2, <1>12, SMTT(30)
  <2>2. At(h) = s[h + 1] /\ At(h + 1) = s[h + 2] /\ At(h + 8) = s[h + 9] /\ At(h + 9) = s[h + 10]
    BY <1>2, <1>12, <2>1, AtIs
  <2>3. QED
    BY <1>15, <2>2
<1>17. Short(h) = r.type /\ Short(h + 8) = l
  <2>1. h + 8 \in Nat /\ (h + 8) + 1 = h + 9
    BY <1>12
  <2>2. l \in Byte
    BY <1>10, RecordParts DEF l
  <2>3. Short(h) = At(h + 1)
    BY <1>11, <1>12, <1>16, ShortIs
  <2>4. Short(h + 8) = At((h + 8) + 1)
    BY <1>16, <2>1, <2>2, ShortIs
  <2>5. QED
    BY <1>16, <2>1, <2>3, <2>4
<1>18. IsAddress <=> AddressRecord(r)
  BY <1>17 DEF IsAddress, AddressRecord, h, l
<1>19. ASSUME NEW j \in 1..l
       PROVE  At(h + 10 + j - 1) = IF h + 10 + j <= L THEN r.data[j] ELSE 0
  <2>1. l \in Nat
    BY <1>11 DEF l
  <2> DEFINE o == h + 10 + j - 1
  <2>2. o \in Nat /\ o + 1 = h + 10 + j /\ (o < L <=> h + 10 + j <= L) /\ (o >= L <=> ~(o < L))
    BY <1>2, <1>12, <2>1
  <2> HIDE DEF o
  <2>3. /\ o < L => At(o) = s[o + 1]
        /\ o >= L => At(o) = 0
    BY <1>2, <2>2, AtIs
  <2>4. s[o + 1] = r.data[j]
    BY <1>15, <2>2
  <2>5. At(o) = IF h + 10 + j <= L THEN r.data[j] ELSE 0
    BY <2>2, <2>3, <2>4
  <2>6. QED
    BY <2>5 DEF o
<1>20. Found(at)
  BY <1>1, <1>9, <1>10, <1>12, <1>14, <1>17, <1>18, <1>19 DEF Found, h, l, r, s
<1>21. QED
  BY <1>20

(***************************************************************************)
(* The address.                                                            *)
(***************************************************************************)

\* The first address record is the first that nothing before is.
LEMMA FirstIs ==
    ASSUME ResolverTypeOK, NEW k \in 1..Len(reply.answers), AddressRecord(reply.answers[k]),
           \A i \in 1..(k - 1) : ~AddressRecord(reply.answers[i])
    PROVE  FirstAddress = reply.answers[k].data
<1> DEFINE n == Len(reply.answers)
           A == Addresses
<1>1. n \in Nat /\ DOMAIN reply.answers = 1..n
  BY ReplyParts, SMTT(30) DEF ResolverTypeOK
<1>2. A \subseteq 1..n /\ k \in A /\ A # {}
  BY <1>1 DEF Addresses
<1>3. ASSUME NEW j \in A PROVE k <= j
  <2>1. j \in 1..n /\ AddressRecord(reply.answers[j])
    BY <1>1 DEF Addresses
  <2>2. j \notin 1..(k - 1)
    BY <2>1
  <2>3. QED
    BY <1>1, <2>1, <2>2
<1> HIDE DEF A
<1>4. \A i \in A : (\A j \in A : i <= j) <=> i = k
  <2>1. ASSUME NEW i \in A PROVE (\A j \in A : i <= j) <=> i = k
    <3>1. i \in Nat /\ k \in Nat /\ k <= i
      BY <1>1, <1>2, <1>3
    <3>2. QED
      BY <1>2, <1>3, <3>1
  <2>2. QED
    BY <2>1
<1>5. (CHOOSE i \in A : \A j \in A : i <= j) = k
  BY <1>2, <1>4
<1>6. QED
  BY <1>2, <1>5 DEF FirstAddress, A

\* There is none when no record is one.
LEMMA NoneIs ==
    ASSUME ResolverTypeOK, \A i \in 1..Len(reply.answers) : ~AddressRecord(reply.answers[i])
    PROVE  FirstAddress = <<>>
<1>1. DOMAIN reply.answers = 1..Len(reply.answers)
  BY ReplyParts DEF ResolverTypeOK
<1>2. Addresses = {}
  BY <1>1 DEF Addresses
<1>3. QED
  BY <1>2 DEF FirstAddress

(***************************************************************************)
(* Steps.                                                                  *)
(***************************************************************************)

\* A resolver that starts with nothing received satisfies the invariant.
LEMMA ResolverStart == ResolverInit => ResolverInv
<1> SUFFICES ASSUME ResolverInit PROVE ResolverInv
  OBVIOUS
<1>1. ResolverTypeOK
  <2>1. <<>> \in Seq(Byte)
    OBVIOUS
  <2>2. QED
    BY <2>1 DEF ResolverInit, ResolverTypeOK
<1>2. \E at : ReplyHas(Encode(reply), at, reply)
  BY <1>1, ReplyBytes DEF ResolverTypeOK
<1>3. Encode(reply) \in Seq(Byte)
  BY <1>2 DEF ReplyHas
<1>4. Begins(Encode(reply))
  <2>1. buf = <<>> /\ Len(buf) = 0 /\ Len(Encode(reply)) \in Nat
    BY <1>3 DEF ResolverInit
  <2>2. QED
    BY <2>1 DEF Begins
<1>5. Received
  BY <1>4 DEF ResolverInit, Received
<1>6. Walking /\ WalkIsRight /\ CutIsHarmless
  BY DEF ResolverInit, Walking, WalkIsRight, CutIsHarmless
<1>7. QED
  BY <1>1, <1>5, <1>6 DEF ResolverInv

\* A reply is never empty,
LEMMA ReplyLong ==
    ASSUME ResolverTypeOK
    PROVE  Encode(reply) \in Seq(Byte) /\ Len(Encode(reply)) \in Nat /\ Len(Encode(reply)) >= 16
<1>1. PICK at : ReplyHas(Encode(reply), at, reply)
  BY ReplyBytes DEF ResolverTypeOK
<1>2. Encode(reply) \in Seq(Byte) /\ Len(Encode(reply)) >= 16 + Len(reply.question)
  BY <1>1 DEF ReplyHas
<1>3. Len(reply.question) \in Nat
  <2>1. reply.question \in Seq(Byte)
    BY ReplyParts DEF ResolverTypeOK
  <2>2. QED
    BY <2>1
<1>4. Len(Encode(reply)) \in Nat
  BY <1>2
<1>5. QED
  BY <1>2, <1>3, <1>4

\* and an early return, with less of it than a header, resolves nothing.
LEMMA EarlyStep ==
    ASSUME ResolverInv, Len(buf) < HeaderLen, Unresolved,
           UNCHANGED <<via, server, reply, buf, index>>, offset' = offset
    PROVE  ResolverInv'
<1>1. ResolverTypeOK /\ Received
  BY DEF ResolverInv
<1>2. ResolverTypeOK'
  <2>1. <<>> \in Seq(Byte)
    OBVIOUS
  <2>2. QED
    BY <1>1, <2>1 DEF ResolverTypeOK, Unresolved
<1>3. Received'
  BY <1>1 DEF Received, Unresolved, Begins
<1>4. Walking'
  BY DEF Walking, Unresolved
<1>5. buf # Encode(reply)
  <2>1. Len(Encode(reply)) >= 16 /\ Len(Encode(reply)) \in Nat
    BY <1>1, ReplyLong
  <2>2. Len(buf) # Len(Encode(reply))
    BY <2>1 DEF HeaderLen
  <2>3. QED
    BY <2>2
<1>6. WalkIsRight'
  BY <1>5 DEF WalkIsRight, Whole
<1>7. CutIsHarmless'
  BY DEF CutIsHarmless, Unresolved
<1>8. QED
  BY <1>2, <1>3, <1>4, <1>6, <1>7 DEF ResolverInv

\* Nothing is received before the reply is asked for.
LEMMA NothingYet ==
    ASSUME ResolverInv, stage \in {"socket", "send", "datagram", "length"}
    PROVE  Len(buf) < HeaderLen
<1>1. buf = <<>>
  BY DEF ResolverInv, Received
<1>2. QED
  BY <1>1 DEF HeaderLen

\* Steps on the way to the walk keep what it needs.
LEMMA BeforeStep ==
    ASSUME ResolverInv, ResolverTypeOK', stage' \notin {"walk", "done"}, stage \notin {"walk", "done"},
           UNCHANGED <<reply, index, result>>, Begins(Encode(reply))',
           stage' \in {"socket", "send", "datagram", "length"} => buf' = <<>>
    PROVE  ResolverInv'
<1>1. Received'
  BY DEF ResolverInv, Received
<1>2. Walking' /\ WalkIsRight' /\ CutIsHarmless'
  BY DEF Walking, WalkIsRight, CutIsHarmless
<1>3. QED
  BY <1>1, <1>2 DEF ResolverInv

\* Past the header and the question the walk stands at the first record.
LEMMA ParseStep ==
    ASSUME ResolverInv, Parse PROVE ResolverInv'
<1> DEFINE s == Encode(reply)
           L == Len(buf)
           q == reply.question
<1>1. ResolverTypeOK /\ Received /\ stage = "parse"
  BY DEF ResolverInv, Parse
<1>2. CASE Unresolved /\ UNCHANGED offset /\ L < HeaderLen
  BY <1>2, EarlyStep DEF Parse
<1>3. CASE /\ offset' = SkipName(HeaderLen) + MetaLen
           /\ stage' = "walk" /\ UNCHANGED <<sock, result>>
  <2>1. UNCHANGED <<via, sock, server, reply, buf, index, result>> /\ result = <<>> /\ index = 0
    BY <1>1, <1>3 DEF Parse, Received
  <2>2. buf \in Seq(Byte) /\ Begins(s) /\ L \in Nat /\ q \in Seq(Byte) /\ IsName(q) /\ Len(q) \in Nat
    <3>1. buf \in Seq(Byte) /\ Begins(s) /\ L \in Nat
      BY <1>1 DEF ResolverTypeOK, Received
    <3>2. q \in Seq(Byte) /\ IsName(q)
      BY <1>1, ReplyParts, SMTT(30) DEF ResolverTypeOK
    <3>3. QED
      BY <3>1, <3>2
  <2>3. PICK at : ReplyHas(s, at, reply)
    BY <1>1, ReplyBytes DEF ResolverTypeOK
  <2>4. s \in Seq(Byte) /\ Stands(s, 12, q) /\ at[0] = 16 + Len(q)
    BY <2>3 DEF ReplyHas, Stands
  <2> DEFINE e == SkipName(12)
  <2>5. /\ e \in Nat /\ (e <= 12 \/ e <= L + 191)
        /\ e = 12 + Len(q) \/ (e >= L /\ 12 + Len(q) > L)
    <3>1. 12 \in 0..L + 256
      BY <2>2
    <3> HIDE DEF s, q
    <3>2. QED
      BY <2>2, <2>4, <3>1, SkipIs
  <2>6. offset' = e + 4
    BY <1>3 DEF HeaderLen, MetaLen
  <2> HIDE DEF e
  <2>7. offset' \in Nat /\ offset' <= L + 256
    BY <2>2, <2>5, <2>6
  <2>8. offset' = at[0] \/ (offset' >= L /\ at[0] > L)
    BY <2>2, <2>4, <2>5, <2>6
  <2>9. ResolverTypeOK'
    BY <1>1, <1>3, <2>1, <2>7 DEF ResolverTypeOK
  <2>10. Received'
    BY <1>1, <1>3, <2>1 DEF Received, Begins
  <2>11. Walking'
    <3>1. Reached(at)'
      BY <2>1, <2>8 DEF Reached
    <3>2. (ReplyHas(Encode(reply), at, reply))'
      BY <2>1, <2>3
    <3>3. index' <= Len(reply.answers') /\ \A i \in 1..index' : FALSE
      <4>1. Len(reply.answers) \in Nat
        BY <1>1, ReplyParts, SMTT(30) DEF ResolverTypeOK
      <4>2. QED
        BY <2>1, <4>1
    <3>4. QED
      BY <2>1, <2>7, <3>1, <3>2, <3>3 DEF Walking
  <2>12. WalkIsRight' /\ CutIsHarmless'
    BY <1>3 DEF WalkIsRight, CutIsHarmless
  <2>13. QED
    BY <2>9, <2>10, <2>11, <2>12 DEF ResolverInv
<1>4. QED
  BY <1>2, <1>3 DEF Parse

(***************************************************************************)
(* Steps of the walk.                                                      *)
(***************************************************************************)

\* The walk over a whole reply ends behind its last record.
LEMMA EndsStep ==
    ASSUME ResolverInv, WalkEnds PROVE ResolverInv'
<1> DEFINE s == Encode(reply)
           n == Len(reply.answers)
           L == Len(buf)
<1>1. ResolverTypeOK /\ Received /\ Walking /\ stage = "walk" /\ stage' = "done" /\ result = <<>>
  BY DEF ResolverInv, WalkEnds, Received
<1>2. UNCHANGED <<via, server, reply, buf, offset, index, result>> /\ sock' = FALSE
  BY DEF WalkEnds
<1>3. ResolverTypeOK'
  BY <1>1, <1>2 DEF ResolverTypeOK
<1>4. Received' /\ Walking'
  BY <1>1, <1>2 DEF Received, Begins, Walking
<1>5. ASSUME buf = s PROVE FirstAddress = <<>>
  <2>1. PICK at : ReplyHas(s, at, reply) /\ Reached(at)
    BY <1>1 DEF Walking
  <2>2. /\ offset <= L + 256 /\ index <= n
        /\ \A i \in 1..index : ~AddressRecord(reply.answers[i])
    BY <1>1 DEF Walking
  <2>3. index \in Nat /\ n \in Nat /\ L \in Nat /\ L >= 8
    <3>1. n \in Nat /\ index \in Nat
      BY <1>1, ReplyParts, SMTT(30) DEF ResolverTypeOK
    <3>2. L \in Nat /\ L >= 16
      BY <1>1, <1>5, ReplyLong
    <3>3. QED
      BY <3>1, <3>2
  <2>4. AnswerCount = n
    BY <1>1, <2>3, CountIs
  <2>5. index \in 0..n
    BY <2>2, <2>3
  <2>6. at[index] \in Nat /\ at[index] <= L
    BY <1>5, <2>1, <2>5 DEF ReplyHas
  <2>7. offset = at[index]
    BY <2>1, <2>3, <2>6 DEF Reached
  <2>8. CASE index = n
    BY <1>1, <2>2, <2>8, NoneIs
  <2>9. CASE index # n
    <3>1. index < n /\ index + 1 \in 1..n /\ index + 1 \in 0..n /\ (index + 1) - 1 = index
      BY <2>2, <2>3, <2>9
    <3>2. /\ Current \in Records /\ RecordHeader \in Nat
          /\ \/ RecordHeader = offset + Len(Current.owner)
             \/ RecordHeader >= L /\ offset + Len(Current.owner) > L
      BY <1>1, <2>1, <2>2, <2>7, <3>1, HeaderIs
    <3> DEFINE k == Len(Current.owner)
               l == Len(Current.data)
    <3>3. k \in Nat /\ l \in Nat
      <4>1. Current.owner \in Seq(Byte) /\ Current.data \in Seq(Byte)
        BY <3>2, RecordParts
      <4>2. QED
        BY <4>1
    <3>4. at[index + 1] = at[index] + k + 10 + l
      BY <2>1, <3>1 DEF ReplyHas, Current
    <3>5. at[index + 1] <= L
      BY <1>5, <2>1, <3>1 DEF ReplyHas
    <3>6. ~(RecordHeader + 10 > L)
      <4> HIDE DEF k, l, L
      <4>1. offset + k <= L
        BY <2>3, <2>6, <2>7, <3>3, <3>4, <3>5
      <4>2. RecordHeader = offset + k
        BY <2>3, <2>6, <2>7, <3>2, <3>3, <4>1 DEF k, L
      <4>3. QED
        BY <2>3, <2>6, <2>7, <3>3, <3>4, <3>5, <4>2
    <3>7. index # AnswerCount
      BY <2>4, <2>9
    <3>8. FALSE
      BY <3>6, <3>7 DEF WalkEnds, RecordLen
    <3>9. QED
      BY <3>8
  <2>10. QED
    BY <2>8, <2>9
<1>6. WalkIsRight'
  <2>1. FirstAddress' = FirstAddress
    BY <1>2 DEF FirstAddress, Addresses
  <2>2. QED
    BY <1>1, <1>2, <1>5, <2>1 DEF WalkIsRight, Whole
<1>7. CutIsHarmless'
  BY <1>1, <1>2 DEF CutIsHarmless
<1>8. QED
  BY <1>3, <1>4, <1>6, <1>7 DEF ResolverInv

\* The first m bytes of some, and four of them.
LEMMA FirstOf ==
    ASSUME NEW v \in Seq(Byte), NEW m \in 0..Len(v)
    PROVE  /\ SubSeq(v, 1, m) \in Seq(Byte) /\ Len(SubSeq(v, 1, m)) = m
           /\ \A k \in 1..m : SubSeq(v, 1, m)[k] = v[k]
OBVIOUS

\* Four bytes are the function of their places.
LEMMA FourOf ==
    ASSUME NEW v \in Seq(Byte), Len(v) = 4
    PROVE  v = [j \in 1..4 |-> v[j]] /\ \A j \in 1..4 : v[j] \in Byte
OBVIOUS

\* A function on 1..k is a sequence.
LEMMA TupleIsSeq ==
    ASSUME NEW Q, NEW k \in Nat, NEW v \in [1..k -> Q]
    PROVE  v \in Seq(Q)
OBVIOUS

\* Four bytes are a sequence of bytes.
LEMMA FourAre ==
    ASSUME NEW v \in [1..4 -> Byte]
    PROVE  v \in Seq(Byte)
<1> DEFINE k == 4
<1>1. k \in Nat /\ v \in [1..k -> Byte]
  OBVIOUS
<1> HIDE DEF k
<1>2. QED
  BY <1>1, TupleIsSeq

\* The bytes read for an address are those of the record, as far as they came.
LEMMA AddressStep ==
    ASSUME ResolverInv, WalkAddress PROVE ResolverInv'
<1> DEFINE n == Len(reply.answers)
           L == Len(buf)
           h == RecordHeader
           d == Current.data
<1>1. ResolverTypeOK /\ Received /\ Walking /\ stage = "walk" /\ stage' = "done"
  BY DEF ResolverInv, WalkAddress
<1>2. UNCHANGED <<via, server, reply, buf, offset, index>> /\ sock' = FALSE
  BY DEF WalkAddress
<1>3. PICK at : Found(at)
  BY <1>1, RecordFound DEF WalkAddress
<1>4. /\ index + 1 \in 1..n /\ Current \in Records /\ h \in Nat /\ h + 10 <= L
      /\ at[index + 1] = h + 10 + Len(d)
      /\ IsAddress <=> AddressRecord(Current)
      /\ \A j \in 1..Len(d) : At(h + 10 + j - 1) = IF h + 10 + j <= L THEN d[j] ELSE 0
  BY <1>3 DEF Found
<1>5. L \in Nat /\ index \in Nat
  BY <1>1 DEF ResolverTypeOK
<1>6. Len(d) = 4
  BY <1>4 DEF WalkAddress, AddressRecord
<1>7. d \in Seq(Byte)
  BY <1>4, RecordParts
<1>8. FirstAddress = d
  <2>1. AddressRecord(reply.answers[index + 1])
    BY <1>4 DEF Current, WalkAddress
  <2>2. (index + 1) - 1 = index
    BY <1>5
  <2>3. \A i \in 1..((index + 1) - 1) : ~AddressRecord(reply.answers[i])
    BY <1>1, <2>2 DEF Walking
  <2>4. FirstAddress = reply.answers[index + 1].data
    BY <1>1, <1>4, <2>1, <2>3, FirstIs
  <2>5. QED
    BY <2>4 DEF Current
<1>9. FirstAddress' = d
  <2>1. FirstAddress' = FirstAddress
    BY <1>2 DEF FirstAddress, Addresses
  <2>2. QED
    BY <1>8, <2>1
<1> HIDE DEF h, d, L
<1>10. result' = [j \in 1..4 |-> IF h + 10 + j <= L THEN d[j] ELSE 0]
  <2>1. result' = [b \in 1..4 |-> At(h + RecordLen + b - 1)]
    BY DEF WalkAddress, h
  <2>2. \A j \in 1..4 : At(h + RecordLen + j - 1) = IF h + 10 + j <= L THEN d[j] ELSE 0
    BY <1>4, <1>6 DEF RecordLen
  <2>3. QED
    BY <2>1, <2>2
<1>11. d = [j \in 1..4 |-> d[j]] /\ \A j \in 1..4 : d[j] \in Byte
  BY <1>6, <1>7, FourOf
<1>12. result' \in Seq(Byte)
  <2>1. 0 \in Byte
    BY DEF Byte
  <2>2. \A j \in 1..4 : (IF h + 10 + j <= L THEN d[j] ELSE 0) \in Byte
    BY <1>11, <2>1
  <2>3. result' \in [1..4 -> Byte]
    BY <1>10, <2>2
  <2>4. QED
    BY <2>3, FourAre
<1>13. ResolverTypeOK'
  BY <1>1, <1>2, <1>12 DEF ResolverTypeOK
<1>14. Received' /\ Walking'
  BY <1>1, <1>2 DEF Received, Begins, Walking
<1>15. WalkIsRight'
  <2>1. ASSUME buf = Encode(reply) PROVE result' = d
    <3>1. at[index + 1] <= L
      <4>1. index + 1 \in 0..n
        BY <1>4, <1>5
      <4>2. QED
        BY <1>3, <2>1, <4>1 DEF Found, ReplyHas, L
    <3>2. \A j \in 1..4 : h + 10 + j <= L
      BY <1>4, <1>5, <1>6, <3>1
    <3>3. result' = [j \in 1..4 |-> d[j]]
      BY <1>10, <3>2
    <3>4. QED
      BY <1>11, <3>3
  <2>2. QED
    BY <1>2, <1>9, <2>1 DEF WalkIsRight, Whole
<1>16. CutIsHarmless'
  <2> DEFINE m == IF L >= h + 14 THEN 4 ELSE L - (h + 10)
             a == SubSeq(d, 1, m)
             z == Zeros(4 - m)
  <2>1. m \in 0..4 /\ 4 - m \in Nat /\ \A j \in 1..4 : h + 10 + j <= L <=> j <= m
    <3>1. h \in Nat /\ h + 10 <= L
      BY <1>4
    <3>2. QED
      BY <1>5, <3>1
  <2> HIDE DEF m
  <2>2. a \in Seq(Byte) /\ Len(a) = m /\ \A j \in 1..m : a[j] = d[j]
    <3>1. m \in 0..Len(d)
      BY <1>6, <2>1
    <3>2. QED
      BY <1>7, <3>1, FirstOf
  <2>3. z \in Seq(Byte) /\ Len(z) = 4 - m /\ \A j \in 1..(4 - m) : z[j] = 0
    BY <2>1, ZerosAre
  <2> HIDE DEF a, z
  <2>4. Joins(a \o z, a, z)
    BY <2>2, <2>3, JoinedBytes
  <2> DEFINE v == a \o z
  <2> HIDE DEF v
  <2>5. /\ v \in Seq(Byte) /\ Len(v) = Len(a) + Len(z)
        /\ \A j \in 1..Len(a) : v[j] = a[j]
        /\ \A j \in 1..Len(z) : v[Len(a) + j] = z[j]
    BY <2>4 DEF Joins, v
  <2>6. Len(v) = 4
    BY <2>1, <2>2, <2>3, <2>5
  <2>7. ASSUME NEW j \in 1..4 PROVE v[j] = IF h + 10 + j <= L THEN d[j] ELSE 0
    <3>1. CASE j <= m
      <4>1. j \in 1..m
        BY <2>1, <3>1
      <4>2. v[j] = d[j]
        BY <2>2, <2>5, <4>1
      <4>3. QED
        BY <2>1, <3>1, <4>2
    <3>2. CASE ~(j <= m)
      <4>1. j - m \in 1..(4 - m) /\ m + (j - m) = j
        BY <2>1, <3>2
      <4>2. v[m + (j - m)] = z[j - m] /\ z[j - m] = 0
        BY <2>2, <2>3, <2>5, <4>1
      <4>3. QED
        BY <2>1, <3>2, <4>1, <4>2
    <3>3. QED
      BY <3>1, <3>2
  <2>8. v = [j \in 1..4 |-> IF h + 10 + j <= L THEN d[j] ELSE 0]
    <3>1. v = [j \in 1..4 |-> v[j]]
      BY <2>5, <2>6, FourOf
    <3>2. QED
      BY <2>7, <3>1
  <2>9. result' = v
    BY <1>10, <2>8
  <2>10. result' = SubSeq(FirstAddress', 1, m) \o Zeros(4 - m)
    BY <1>9, <2>9 DEF v, a, z
  <2>11. QED
    BY <2>1, <2>10 DEF CutIsHarmless
<1>17. QED
  BY <1>13, <1>14, <1>15, <1>16 DEF ResolverInv

\* A record that is skipped is skipped as a whole.
LEMMA OtherStep ==
    ASSUME ResolverInv, WalkOther PROVE ResolverInv'
<1> DEFINE n == Len(reply.answers)
           L == Len(buf)
<1>1. ResolverTypeOK /\ Received /\ Walking /\ stage = "walk" /\ stage' = "walk"
  BY DEF ResolverInv, WalkOther
<1>2. UNCHANGED <<via, stage, sock, server, reply, buf, result>> /\ index' = index + 1
  BY DEF WalkOther
<1>3. PICK at : Found(at)
  BY <1>1, RecordFound DEF WalkOther
<1>4. /\ index + 1 \in 1..n /\ Current \in Records /\ RecordHeader \in Nat /\ RecordHeader + 10 <= L
      /\ at[index + 1] = RecordHeader + 10 + Len(Current.data)
      /\ Short(RecordHeader + 8) = Len(Current.data)
  BY <1>3 DEF Found
<1>5. ~AddressRecord(Current)
  BY <1>3 DEF WalkOther, Found
<1>6. Len(Current.data) \in 0..255 /\ L \in Nat /\ index \in Nat /\ n \in Nat
  <2>1. Len(Current.data) \in 0..255
    BY <1>4, RecordParts DEF Byte
  <2>2. n \in Nat
    BY <1>1, ReplyParts, SMTT(30) DEF ResolverTypeOK
  <2>3. L \in Nat /\ index \in Nat
    <3>1. buf \in Seq(Byte) /\ index \in Nat
      BY <1>1 DEF ResolverTypeOK
    <3>2. QED
      BY <3>1
  <2>4. QED
    BY <2>1, <2>2, <2>3
<1>7. offset' = RecordHeader + 10 + Len(Current.data)
  BY <1>4 DEF WalkOther, RecordLen
<1>8. offset' \in Nat /\ offset' <= L + 256 /\ offset' = at[index + 1]
  <2> DEFINE h == RecordHeader
             l == Len(Current.data)
  <2>1. h \in Nat /\ h + 10 <= L /\ l \in 0..255 /\ L \in Nat /\ offset' = h + 10 + l
    BY <1>4, <1>6, <1>7
  <2>2. offset' = at[index + 1]
    BY <1>4, <1>7
  <2> HIDE DEF h, l, L
  <2>3. offset' \in Nat /\ offset' <= L + 256
    BY <2>1
  <2>4. QED
    BY <2>2, <2>3 DEF L
<1>9. ResolverTypeOK'
  <2> HIDE DEF n, L
  <2>1. index' \in Nat
    BY <1>2, <1>6, SMTT(30)
  <2>2. QED
    BY <1>1, <1>2, <1>8, <2>1, ZenonT(30) DEF ResolverTypeOK
<1>10. Received'
  BY <1>1, <1>2 DEF Received, Begins
<1>11. Walking'
  <2>1. Reached(at)'
    BY <1>2, <1>8 DEF Reached
  <2>2. (ReplyHas(Encode(reply), at, reply))'
    BY <1>2, <1>3 DEF Found
  <2>3. index + 1 <= n
    BY <1>4, <1>6
  <2>4. \A i \in 1..(index + 1) : ~AddressRecord(reply.answers[i])
    <3>1. ASSUME NEW i \in 1..(index + 1) PROVE i \in 1..index \/ i = index + 1
      BY <1>6
    <3>2. \A i \in 1..index : ~AddressRecord(reply.answers[i])
      BY <1>1 DEF Walking
    <3>3. QED
      BY <1>5, <3>1, <3>2 DEF Current
  <2>5. QED
    BY <1>2, <1>8, <2>1, <2>2, <2>3, <2>4 DEF Walking
<1>12. WalkIsRight' /\ CutIsHarmless'
  BY <1>1 DEF WalkIsRight, CutIsHarmless
<1>13. QED
  BY <1>9, <1>10, <1>11, <1>12 DEF ResolverInv

(***************************************************************************)
(* The specification.                                                      *)
(***************************************************************************)

\* Every step of a resolver, its server and the network keeps the invariant.
LEMMA ResolverStep == ResolverInv /\ [ResolverNext]_dnsVars => ResolverInv'
<1> SUFFICES ASSUME ResolverInv, [ResolverNext]_dnsVars PROVE ResolverInv'
  OBVIOUS
<1>0. ResolverTypeOK /\ Received
  BY DEF ResolverInv
<1>1. CASE NoResolverSocket
  BY <1>1, NothingYet, EarlyStep DEF NoResolverSocket
<1>2. CASE ResolverSocket
  <2>1. ResolverTypeOK'
    BY <1>0, <1>2 DEF ResolverSocket, ResolverTypeOK
  <2>2. QED
    BY <1>0, <1>2, <2>1, BeforeStep DEF ResolverSocket, Received, Begins
<1>3. CASE SendFails
  BY <1>3, NothingYet, EarlyStep DEF SendFails
<1>4. CASE Send
  <2>1. ResolverTypeOK'
    BY <1>0, <1>4 DEF Send, ResolverTypeOK
  <2>2. QED
    BY <1>0, <1>4, <2>1, BeforeStep DEF Send, Received, Begins
<1>5. CASE Datagram
  <2>1. Encode(reply) \in Seq(Byte) /\ Len(Encode(reply)) \in Nat
    BY <1>0, ReplyLong
  <2>2. ResolverTypeOK'
    BY <1>0, <1>5, <2>1 DEF Datagram, ResolverTypeOK
  <2>3. Begins(Encode(reply))'
    BY <1>5, <2>1 DEF Datagram, Begins
  <2>4. QED
    BY <1>0, <1>5, <2>2, <2>3, BeforeStep DEF Datagram
<1>6. CASE LengthFails
  BY <1>6, NothingYet, EarlyStep DEF LengthFails
<1>7. CASE Length
  <2>1. ResolverTypeOK'
    BY <1>0, <1>7 DEF Length, ResolverTypeOK
  <2>2. QED
    BY <1>0, <1>7, <2>1, BeforeStep DEF Length, Received, Begins
<1>8. CASE Payload
  <2> DEFINE s == Encode(reply)
  <2>1. s \in Seq(Byte) /\ Len(s) \in Nat /\ Len(buf) \in Nat
    BY <1>0, ReplyLong DEF ResolverTypeOK
  <2>2. PICK n \in Len(buf) + 1 .. Len(s) :
            /\ buf' = SubSeq(s, 1, n)
            /\ stage' = IF n = Len(s) THEN "parse" ELSE "payload"
    BY <1>8 DEF Payload
  <2>3. n \in 0..Len(s)
    BY <2>1
  <2>4. buf' \in Seq(Byte) /\ Len(buf') = n /\ \A k \in 1..n : buf'[k] = s[k]
    <3> HIDE DEF s
    <3>1. QED
      BY <2>1, <2>2, <2>3, FirstOf
  <2>5. ResolverTypeOK'
    BY <1>0, <1>8, <2>2, <2>4 DEF Payload, ResolverTypeOK
  <2>6. Begins(Encode(reply))'
    <3>1. reply' = reply /\ n <= Len(s)
      BY <1>8, <2>1, <2>3 DEF Payload
    <3>2. QED
      BY <2>4, <3>1 DEF Begins
  <2>7. QED
    BY <1>0, <1>8, <2>2, <2>5, <2>6, BeforeStep DEF Payload
<1>9. CASE PayloadEnds
  <2>1. ResolverTypeOK'
    BY <1>0, <1>9 DEF PayloadEnds, ResolverTypeOK
  <2>2. QED
    BY <1>0, <1>9, <2>1, BeforeStep DEF PayloadEnds, Received, Begins
<1>10. CASE Parse
  BY <1>10, ParseStep
<1>11. CASE WalkEnds
  BY <1>11, EndsStep
<1>12. CASE WalkAddress
  BY <1>12, AddressStep
<1>13. CASE WalkOther
  BY <1>13, OtherStep
<1>14. CASE Serve
  <2>1. ResolverTypeOK'
    BY <1>0, <1>14 DEF Serve, ResolverTypeOK
  <2>2. QED
    BY <1>0, <1>14, <2>1, BeforeStep DEF Serve, Received, Begins
<1>15. CASE DatagramFails
  BY <1>15, NothingYet, EarlyStep DEF DatagramFails
<1>16. CASE UNCHANGED dnsVars
  <2>1. UNCHANGED <<via, stage, sock, server, reply, buf, offset, index, result>>
    BY <1>16 DEF dnsVars
  <2>2. ResolverTypeOK' /\ Received'
    BY <1>0, <2>1 DEF ResolverTypeOK, Received, Begins
  <2>3. Walking'
    BY <2>1 DEF ResolverInv, Walking, Reached
  <2>4. FirstAddress' = FirstAddress
    BY <2>1 DEF FirstAddress, Addresses
  <2>5. WalkIsRight' /\ CutIsHarmless'
    BY <2>1, <2>4 DEF ResolverInv, WalkIsRight, CutIsHarmless, Whole
  <2>6. QED
    BY <2>2, <2>3, <2>5 DEF ResolverInv
<1>17. QED
  BY <1>1, <1>2, <1>3, <1>4, <1>5, <1>6, <1>7, <1>8, <1>9, <1>10, <1>11, <1>12,
     <1>13, <1>14, <1>15, <1>16 DEF ResolverNext, Step, ResolverDone

\* The bytes received are the first of the reply's, and the walk stands behind
\* the records it has passed, at every moment of resolv and of resolvede.
THEOREM ResolverInvHolds == ResolverSpec => []ResolverInv
<1>1. QED
  BY ResolverStart, ResolverStep, PTL DEF ResolverSpec

\* The variables of a resolver keep to their types, its offset and the address
\* it returns among them, whatever the server answers.
THEOREM ResolverTypeCorrect == ResolverSpec => []ResolverTypeOK
<1>1. ResolverInv => ResolverTypeOK
  BY DEF ResolverInv
<1>2. QED
  BY <1>1, ResolverInvHolds, PTL

\* resolv and resolvede return the address of the first address record of a
\* reply that came whole, or nothing when it has none, for any names, records and
\* number of answers.
THEOREM WalkCorrect == ResolverSpec => []WalkIsRight
<1>1. ResolverInv => WalkIsRight
  BY DEF ResolverInv
<1>2. QED
  BY <1>1, ResolverInvHolds, PTL

\* A reply cut at any byte gives resolv and resolvede nothing, or its first
\* address with zeros for the bytes that did not come.
THEOREM CutCorrect == ResolverSpec => []CutIsHarmless
<1>1. ResolverInv => CutIsHarmless
  BY DEF ResolverInv
<1>2. QED
  BY <1>1, ResolverInvHolds, PTL
===============================================================================
