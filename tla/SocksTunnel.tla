----------------------------- MODULE SocksTunnel -----------------------------
(***************************************************************************)
(* SockTunnel of Native_CPP_build/Generic_Module/SocksModule.cpp: the      *)
(* SOCKS5 handshake that TorScan and the SOCKS proxy scan start with, and  *)
(* the proxy it talks to over a TCP stream.                                *)
(*                                                                         *)
(* recv returns any non-empty prefix of what is on the stream, so an       *)
(* answer may come in pieces; SO_RCVTIMEO makes it fail at any time, and   *)
(* the answer it did not wait for is then read by the next recv.  res and  *)
(* response are arrays of the stack frame: what a recv did not write in    *)
(* them is what memory held.                                               *)
(***************************************************************************)
EXTENDS Integers, Sequences

CONSTANTS
    Methods,   \* method bytes a proxy may select
    Grants,    \* REP bytes it may answer a request with
    Bounds,    \* first bytes of the bound address it may report
    Memory     \* bytes the stack may hold

ASSUME SocksAssumption ==
    /\ Methods \subseteq 0..255 /\ Grants \subseteq 0..255
    /\ Bounds \subseteq 0..255 /\ Memory \subseteq 0..255

VARIABLES
    pc,        \* control point of SockTunnel
    open,      \* its descriptor is open
    res,       \* uint8_t res[2]
    total,     \* total_received
    third,     \* response[2], the byte the verdict is taken from
    verdict,   \* what was returned: "none" yet, "sock" or "failed"
    short,     \* history: a recv failed or returned less than was coming
    wire,      \* bytes the proxy has sent and nobody has read
    asked,     \* messages sent to the proxy: the greeting, the request
    said,      \* messages it has sent, or will not send any more
    proxy      \* what it answers: the method, REP and the bound address

client == <<pc, open, res, total, third, verdict, short>>
vars == <<pc, open, res, total, third, verdict, short, wire, asked, said, proxy>>

Byte == 0..255
Succeeded == 0
NoAuth == 0

Init ==
    /\ pc = "socket" /\ open = FALSE /\ verdict = "none"
    /\ res \in [1..2 -> Memory] /\ third \in Memory
    /\ total = 0 /\ short = FALSE
    /\ wire = <<>> /\ asked = 0 /\ said = 0
    /\ proxy \in [method : Methods, rep : Grants, bound : Bounds]

(***************************************************************************)
(* SockTunnel.                                                             *)
(***************************************************************************)
GiveUp == open' = FALSE /\ verdict' = "failed" /\ pc' = "done"

NoSocket ==
    /\ pc = "socket" /\ GiveUp
    /\ UNCHANGED <<res, total, third, short, wire, asked, said, proxy>>

Socket ==
    /\ pc = "socket"
    /\ open' = TRUE /\ pc' = "connect"
    /\ UNCHANGED <<res, total, third, verdict, short, wire, asked, said, proxy>>

\* Mutant of ConnectFails: the return forgets the close.
ConnectFailsOpen ==
    /\ pc = "connect"
    /\ verdict' = "failed" /\ pc' = "done"
    /\ UNCHANGED <<open, res, total, third, short, wire, asked, said, proxy>>

\* The proxy's address does not parse, or it refuses.
ConnectFails ==
    /\ pc = "connect" /\ GiveUp
    /\ UNCHANGED <<res, total, third, short, wire, asked, said, proxy>>

\* connect, then the greeting: version 5, one method, no authentication.
Connect ==
    /\ pc = "connect"
    /\ asked' = 1 /\ pc' = "method"
    /\ UNCHANGED <<open, res, total, third, verdict, short, wire, said, proxy>>

\* How many bytes a recv of up to n may take; 0 stands for its failure.
Takes(n) == {k \in 0..n : k <= Len(wire)}

Took(k) == wire' = SubSeq(wire, k + 1, Len(wire))

\* res once k bytes are received after its first at; the rest is kept.
Filled(at, k) ==
    [i \in 1..2 |-> IF i \in at + 1 .. at + k THEN wire[i - at] ELSE res[i]]

\* recv(sock, res, 2): its result is not looked at, res[1] is.  The request
\* is sent when that reads "no authentication".
Method ==
    /\ pc = "method"
    /\ \E k \in Takes(2) :
          /\ Took(k) /\ res' = Filled(0, k)
          /\ short' = (k < 2)
    /\ IF res'[2] = NoAuth
       THEN pc' = "header" /\ asked' = 2 /\ UNCHANGED <<open, verdict>>
       ELSE GiveUp /\ UNCHANGED asked
    /\ UNCHANGED <<total, third, said, proxy>>

\* Mutant of Header: the failure of recv does not end the loop.
HeaderUntilBoth ==
    /\ pc = "header"
    /\ \E k \in Takes(2 - total) :
          /\ Took(k) /\ res' = Filled(total, k)
          /\ total' = total + k
          /\ short' = (short \/ k = 0)
          /\ pc' = IF total' = 2 THEN "reply" ELSE "header"
    /\ UNCHANGED <<open, third, verdict, asked, said, proxy>>

\* The loop for the reply's first two bytes, which go to res and are not
\* looked at; it ends when it has both or when a recv fails.
Header ==
    /\ pc = "header"
    /\ \E k \in Takes(2 - total) :
          /\ Took(k) /\ res' = Filled(total, k)
          /\ total' = total + k
          /\ short' = (short \/ k = 0)
          /\ pc' = IF k = 0 \/ total' = 2 THEN "reply" ELSE "header"
    /\ UNCHANGED <<open, third, verdict, asked, said, proxy>>

\* Mutant of Reply: the eight bytes left of a reply are asked for as seven.
ReplyOfSeven ==
    /\ pc = "reply"
    /\ \E k \in Takes(7) :
          /\ Took(k)
          /\ third' = IF k >= 3 THEN wire[3] ELSE third
          /\ short' = (short \/ k < 7)
    /\ IF third' = Succeeded
       THEN verdict' = "sock" /\ pc' = "done" /\ UNCHANGED open
       ELSE GiveUp
    /\ UNCHANGED <<res, total, asked, said, proxy>>

\* recv(sock, response, 10), for the eight bytes left of a reply.  response[2]
\* is the fifth byte of the reply, the first of the bound address; the
\* tunnel is returned when it is zero, the code of "Success".
Reply ==
    /\ pc = "reply"
    /\ \E k \in Takes(10) :
          /\ Took(k)
          /\ third' = IF k >= 3 THEN wire[3] ELSE third
          /\ short' = (short \/ k < 8)
    /\ IF third' = Succeeded
       THEN verdict' = "sock" /\ pc' = "done" /\ UNCHANGED open
       ELSE GiveUp
    /\ UNCHANGED <<res, total, asked, said, proxy>>

Tunnel ==
    \/ NoSocket \/ Socket \/ ConnectFails \/ Connect \/ Method \/ Header \/ Reply

(***************************************************************************)
(* The proxy, which answers each message once while the connection is up.  *)
(***************************************************************************)

\* It hangs up on a client whose only method it does not take.
SelectMethod ==
    /\ open /\ asked >= 1 /\ said = 0
    /\ wire' = wire \o <<5, proxy.method>>
    /\ said' = IF proxy.method = NoAuth THEN 1 ELSE 2
    /\ UNCHANGED <<client, asked, proxy>>

\* Version, REP, reserved, address type IPv4, address, port.
AnswerRequest ==
    /\ open /\ asked = 2 /\ said = 1
    /\ wire' = wire \o <<5, proxy.rep, 0, 1, proxy.bound, 0, 0, 0, 0, 0>>
    /\ said' = 2
    /\ UNCHANGED <<client, asked, proxy>>

\* SockTunnel has returned and the proxy has nothing more to say.
Finished == pc = "done" /\ UNCHANGED vars

Next == Tunnel \/ SelectMethod \/ AnswerRequest \/ Finished

\* Every recv returns: SO_RCVTIMEO is set before connect.
Spec == Init /\ [][Next]_vars /\ WF_vars(Tunnel)

(***************************************************************************)
(* Properties.                                                             *)
(***************************************************************************)
\* Whichever of its six returns it takes, SockTunnel leaves a descriptor open
\* exactly when it returns it.
HeldIffReturned ==
    pc = "done" => verdict # "none" /\ (open <=> verdict = "sock")

\* When every answer comes in time and in one piece, the tunnel is returned
\* exactly for a proxy that takes no authentication and reports a bound
\* address that starts with a zero byte, as Tor does, and then nothing of the
\* handshake is left on the stream for the scan to read as the target's reply.
WholeReplies ==
    pc = "done" /\ asked > 0 /\ ~short =>
        /\ verdict = "sock" <=> proxy.method = NoAuth /\ proxy.bound = 0
        /\ verdict = "sock" => wire = <<>>

\* SockTunnel returns, whatever the proxy does.
TunnelReturns == <>(pc = "done")

\* A tunnel is returned only when the proxy has granted the request, at least
\* when its answers come in time and in one piece: the comment above
\* SockTunnel.  REP, the byte that says so, is not looked at.
TunnelMeansGranted ==
    verdict = "sock" /\ ~short => proxy.method = NoAuth /\ proxy.rep = Succeeded
==============================================================================
