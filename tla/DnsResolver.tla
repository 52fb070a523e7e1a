----------------------------- MODULE DnsResolver -----------------------------
(***************************************************************************)
(* Native_CPP_build/ReconDNS: DomainStack::resolv, which asks a DNS server *)
(* over UDP, and TorDnsResolver::resolvede, which asks it over a SOCKS     *)
(* tunnel, where messages have a length prefix and come in pieces.  Both   *)
(* walk the reply byte by byte to its first address record.                *)
(*                                                                         *)
(* The server, and the form of its replies, are the DNS's own.             *)
(***************************************************************************)
EXTENDS Integers, SequencesExt

CONSTANTS
    Names,     \* encoded owner names: labels, a root byte or a pointer
    Records,   \* resource records: [owner, type, data]
    MaxRecords \* bound on the answers of a reply

\* An encoded name: labels, each behind its length, up to a zero byte or to the
\* two bytes of a pointer.  marks are the places where the name is looked at.
IsName(name) ==
    \E marks \in SUBSET (0..Len(name) - 1) :
        /\ 0 \in marks
        /\ \A p \in marks :
              \/ name[p + 1] = 0 /\ p + 1 = Len(name)
              \/ name[p + 1] \in 192..255 /\ p + 2 = Len(name)
              \/ name[p + 1] \in 1..191 /\ p + name[p + 1] + 1 \in marks

\* The counts and lengths of a reply are below 256: their high bytes are zeros.
ASSUME DnsAssumption ==
    /\ Names \subseteq Seq(0..255) /\ \A name \in Names : IsName(name)
    /\ Records \subseteq [owner : Names, type : 0..255, data : Seq(0..255)]
    /\ \A r \in Records : Len(r.data) < 256
    /\ MaxRecords \in 0..255

VARIABLES
    via,      \* "udp" or "tor"
    stage,    \* control point of the resolver
    sock,     \* its descriptor is open
    server,   \* "quiet", "answered" or "lost": what became of the reply
    reply,    \* the reply, as the server means it
    buf,      \* bytes of it received
    offset,   \* current_offset
    index,    \* i, the answers walked
    result    \* the address returned, <<>> for the empty string

dnsVars == <<via, stage, sock, server, reply, buf, offset, index, result>>

TypeA == 1
HeaderLen == 12
MetaLen == 4
RecordLen == 10

Replies == [question : Names, answers : BoundedSeq(Records, MaxRecords)]

Zeros(n) == [i \in 1..n |-> 0]

\* The bytes of a reply, of the form RFC 1035 gives it.
EncodeRecord(r) ==
    r.owner \o <<0, r.type, 0, 1, 0, 0, 0, 0, 0, Len(r.data)>> \o r.data
Encode(m) ==
    Zeros(7) \o <<Len(m.answers)>> \o Zeros(4) \o m.question \o Zeros(MetaLen)
        \o FlattenSeq([i \in DOMAIN m.answers |-> EncodeRecord(m.answers[i])])

ResolverInit ==
    /\ via \in {"udp", "tor"} /\ reply \in Replies
    /\ stage = "socket" /\ sock = FALSE /\ server = "quiet"
    /\ buf = <<>> /\ offset = 0 /\ index = 0 /\ result = <<>>

(***************************************************************************)
(* Asking.                                                                 *)
(***************************************************************************)

\* An early return: nothing is resolved.
Unresolved == sock' = FALSE /\ result' = <<>> /\ stage' = "done"

\* No descriptor or no tunnel.  resolvede goes on with the descriptor -1: it
\* sends nothing, receives nothing and returns the same.
NoResolverSocket ==
    /\ stage = "socket" /\ Unresolved
    /\ UNCHANGED <<via, server, reply, buf, offset, index>>

ResolverSocket ==
    /\ stage = "socket"
    /\ sock' = TRUE /\ stage' = "send"
    /\ UNCHANGED <<via, server, reply, buf, offset, index, result>>

SendFails ==
    /\ stage = "send" /\ via = "udp" /\ Unresolved
    /\ UNCHANGED <<via, server, reply, buf, offset, index>>

Send ==
    /\ stage = "send"
    /\ stage' = IF via = "udp" THEN "datagram" ELSE "length"
    /\ UNCHANGED <<via, sock, server, reply, buf, offset, index, result>>

\* The server answers, or the question or the answer is lost.
Serve ==
    /\ stage \in {"datagram", "length"} /\ server = "quiet"
    /\ server' \in {"answered", "lost"}
    /\ UNCHANGED <<via, stage, sock, reply, buf, offset, index, result>>

(***************************************************************************)
(* Receiving.                                                              *)
(***************************************************************************)

\* recvfrom, which no SO_RCVTIMEO ends: the whole reply, in one datagram.
Datagram ==
    /\ stage = "datagram" /\ server = "answered"
    /\ buf' = Encode(reply) /\ stage' = "parse"
    /\ UNCHANGED <<via, sock, server, reply, offset, index, result>>

DatagramFails ==
    /\ stage = "datagram" /\ Unresolved
    /\ UNCHANGED <<via, server, reply, buf, offset, index>>

\* Mutant of LengthFails: the tunnel's descriptor has no timeout either.
LengthFailsLate ==
    /\ stage = "length" /\ server = "answered" /\ Unresolved
    /\ UNCHANGED <<via, server, reply, buf, offset, index>>

\* The two bytes of the length prefix, in one recv or not at all.
LengthFails ==
    /\ stage = "length" /\ Unresolved
    /\ UNCHANGED <<via, server, reply, buf, offset, index>>

Length ==
    /\ stage = "length" /\ server = "answered"
    /\ stage' = "payload"
    /\ UNCHANGED <<via, sock, server, reply, buf, offset, index, result>>

\* The loop over recv: a piece of the reply, and the next one or the walk.
Payload ==
    /\ stage = "payload"
    /\ LET bytes == Encode(reply)
       IN  \E n \in Len(buf) + 1 .. Len(bytes) :
               /\ buf' = SubSeq(bytes, 1, n)
               /\ stage' = IF n = Len(bytes) THEN "parse" ELSE "payload"
    /\ UNCHANGED <<via, sock, server, reply, offset, index, result>>

\* A timeout or a close ends it: the walk is made on what there is, in a
\* vector of zeros of the announced length.
PayloadEnds ==
    /\ stage = "payload" /\ stage' = "parse"
    /\ UNCHANGED <<via, sock, server, reply, buf, offset, index, result>>

(***************************************************************************)
(* Walking.                                                                *)
(***************************************************************************)

\* Bytes that were not received are the zeros of resolvede's vector.
At(o) == IF o < Len(buf) THEN buf[o + 1] ELSE 0

\* Mutant of SkipName: a pointer is taken for a label.
SkipLabels(o) ==
    LET skip[p \in 0..Len(buf) + 256] ==
            IF p >= Len(buf) THEN p
            ELSE IF At(p) = 0 THEN p + 1
            ELSE skip[p + At(p) + 1]
    IN  skip[o]

\* skip_name_field: past labels to a zero byte or to a compression pointer.
SkipName(o) ==
    LET skip[p \in 0..Len(buf) + 256] ==
            IF p >= Len(buf) THEN p
            ELSE IF At(p) >= 192 THEN p + 2
            ELSE IF At(p) = 0 THEN p + 1
            ELSE skip[p + At(p) + 1]
    IN  skip[o]

Short(o) == At(o) * 256 + At(o + 1)

\* Past the header and the question.
Parse ==
    /\ stage = "parse"
    /\ IF via = "udp" /\ Len(buf) < HeaderLen
       THEN Unresolved /\ UNCHANGED offset
       ELSE /\ offset' = SkipName(HeaderLen) + MetaLen
            /\ stage' = "walk" /\ UNCHANGED <<sock, result>>
    /\ UNCHANGED <<via, server, reply, buf, index>>

AnswerCount == Short(6)
RecordHeader == SkipName(offset)

\* All answers are walked, or the next one's header is not all there.
WalkEnds ==
    /\ stage = "walk"
    /\ index = AnswerCount \/ RecordHeader + RecordLen > Len(buf)
    /\ sock' = FALSE /\ stage' = "done"
    /\ UNCHANGED <<via, server, reply, buf, offset, index, result>>

IsAddress == Short(RecordHeader) = TypeA /\ Short(RecordHeader + 8) = 4

\* Mutant of WalkAddress: the address is read where the record's header is.
WalkAddressEarly ==
    /\ stage = "walk" /\ index < AnswerCount
    /\ RecordHeader + RecordLen <= Len(buf) /\ IsAddress
    /\ result' = [b \in 1..4 |-> At(RecordHeader + b - 1)]
    /\ sock' = FALSE /\ stage' = "done"
    /\ UNCHANGED <<via, server, reply, buf, offset, index>>

\* An A record with four bytes of data: its address is the result.
WalkAddress ==
    /\ stage = "walk" /\ index < AnswerCount
    /\ RecordHeader + RecordLen <= Len(buf) /\ IsAddress
    /\ result' = [b \in 1..4 |-> At(RecordHeader + RecordLen + b - 1)]
    /\ sock' = FALSE /\ stage' = "done"
    /\ UNCHANGED <<via, server, reply, buf, offset, index>>

\* Any other record is skipped, with its data.
WalkOther ==
    /\ stage = "walk" /\ index < AnswerCount
    /\ RecordHeader + RecordLen <= Len(buf) /\ ~IsAddress
    /\ offset' = RecordHeader + RecordLen + Short(RecordHeader + 8)
    /\ index' = index + 1
    /\ UNCHANGED <<via, stage, sock, server, reply, buf, result>>

Step ==
    \/ NoResolverSocket \/ ResolverSocket \/ SendFails \/ Send
    \/ Datagram \/ LengthFails \/ Length \/ Payload \/ PayloadEnds
    \/ Parse \/ WalkEnds \/ WalkAddress \/ WalkOther

ResolverDone == stage = "done" /\ UNCHANGED dnsVars

ResolverNext == Step \/ Serve \/ DatagramFails \/ ResolverDone

\* A resolver's own steps are taken, and the network does something with the
\* question; nothing makes a recvfrom without a reply fail.
ResolverSpec ==
    /\ ResolverInit /\ [][ResolverNext]_dnsVars
    /\ WF_dnsVars(Step) /\ WF_dnsVars(Serve)

(***************************************************************************)
(* Properties.                                                             *)
(***************************************************************************)
\* What the reply says, read off its records and not off its bytes.
AddressRecord(r) == r.type = TypeA /\ Len(r.data) = 4
Addresses == {i \in DOMAIN reply.answers : AddressRecord(reply.answers[i])}
FirstAddress ==
    IF Addresses = {} THEN <<>>
    ELSE LET first == CHOOSE i \in Addresses : \A j \in Addresses : i <= j
         IN  reply.answers[first].data

Whole == server = "answered" /\ buf = Encode(reply)

\* The walk over the bytes of a reply that came whole, whatever forms its
\* names take and whatever records stand before, ends with the address of its
\* first address record, or with none when there is none.
WalkIsRight == stage = "done" /\ Whole => result = FirstAddress

\* A reply cut anywhere by a timeout gives nothing, or the first address with
\* zeros for the bytes that did not come, and never another record's bytes.
CutIsHarmless ==
    stage = "done" /\ result # <<>> =>
        \E n \in 0..4 : result = SubSeq(FirstAddress, 1, n) \o Zeros(4 - n)

\* The resolver returns, its descriptor closed by whichever return it takes,
\* unless it waits for a datagram that was lost.
Returns ==
    <>((stage = "done" /\ ~sock) \/ (stage = "datagram" /\ server = "lost"))
==============================================================================
