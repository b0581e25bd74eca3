----------------------------- MODULE WebSocket -----------------------------
(***************************************************************************)
(* One WebSocket connection: the task that src/src/transport/websocket.rs  *)
(* spawns for it.  It accumulates frames until they hold a protocol        *)
(* header, dials, and then relays both directions, joined.                 *)
(*                                                                         *)
(* The client's stream is numbered in units from 1; the first HeaderLen of *)
(* them are its protocol header.  Frames cut the stream anywhere.  The     *)
(* destination's stream is numbered from 1 too.  An action is what the     *)
(* task or a peer does between two awaits.                                 *)
(***************************************************************************)
EXTENDS Integers, Sequences, SequencesExt

CONSTANTS
    Requests,    \* the requests a client may open with
    HeaderLen,   \* units of a complete header
    MaxHeader,   \* the 8 KiB the header may take
    StreamLen,   \* model bound: units a client may send
    DownLen,     \* model bound: units a destination may send
    MaxQueued    \* model bound: frames on their way to the task

Kinds == {"Vless", "Trojan", "Vmess", "Shadowsocks"}

\* What detect() would make of the whole header.
Request == [known : BOOLEAN, kind : Kinds, is_tcp : BOOLEAN, hasTarget : BOOLEAN,
            flow_requested : BOOLEAN]

ASSUME WebSocketAssumption ==
    /\ Requests \subseteq Request
    /\ {HeaderLen, MaxHeader, StreamLen, DownLen, MaxQueued} \subseteq Nat
    /\ 0 < HeaderLen /\ HeaderLen <= MaxHeader

VARIABLES
    request,   \* what this client asks for
    sent,      \* units it has sent
    frames,    \* events on their way to the task
    client,    \* whether the client holds its side open
    phase,     \* "header", "dial", "relay", "finished"
    pending,   \* units in the buffer of the header loop
    up, dn,    \* the two joined futures
    piece,     \* the frame the uplink is writing
    written,   \* units the destination received
    dest,      \* "open", or how the destination ended: "closed", "reset"
    offered,   \* units the destination sent
    heard,     \* units the downlink read
    got,       \* what the client was sent: 0 for the reply header, and units
    closed,    \* whether the task closed the socket
    first,     \* history: units taken by the header loop when it ended
    dropped    \* history: a send to a client that had left was refused

headerVars == <<phase, pending, first>>
relayVars  == <<up, dn, piece>>
destVars   == <<written, dest, offered>>
clientVars == <<sent, frames, client>>
downVars   == <<heard, got, closed, dropped>>
vars == <<request, headerVars, relayVars, destVars, clientVars, downVars>>

Event == [type : {"binary", "text", "close"}, units : Seq(1..StreamLen)]
Reply == 0

Up(a, b) == [i \in 1..(b - a) |-> a + i]      \* the units after a, up to b

TypeOK ==
    /\ request \in Requests
    /\ sent \in 0..StreamLen /\ frames \in Seq(Event) /\ client \in {"open", "left"}
    /\ phase \in {"header", "dial", "relay", "finished"}
    /\ pending \in 0..MaxHeader
    /\ up \in {"off", "wait", "write", "done"} /\ dn \in {"off", "read", "done"}
    /\ piece \in Seq(1..StreamLen) /\ written \in Seq(1..StreamLen)
    /\ dest \in {"none", "open", "closed", "reset"} /\ offered \in 0..DownLen
    /\ heard \in 0..DownLen /\ got \in Seq(0..DownLen)
    /\ closed \in BOOLEAN /\ first \in 0..StreamLen /\ dropped \in BOOLEAN

Init ==
    /\ request \in Requests
    /\ sent = 0 /\ frames = <<>> /\ client = "open"
    /\ phase = "header" /\ pending = 0 /\ first = 0
    /\ up = "off" /\ dn = "off" /\ piece = <<>>
    /\ written = <<>> /\ dest = "none" /\ offered = 0
    /\ heard = 0 /\ got = <<>> /\ closed = FALSE /\ dropped = FALSE
-----------------------------------------------------------------------------
(* The client and the destination. *)

\* A frame carries the next units of the stream, possibly none.
ClientSends ==
    /\ client = "open" /\ Len(frames) < MaxQueued
    /\ \E n \in 0..(StreamLen - sent) :
          /\ sent' = sent + n
          /\ frames' = Append(frames, [type |-> "binary", units |-> Up(sent, sent + n)])
    /\ UNCHANGED <<request, client, headerVars, relayVars, destVars, downVars>>

ClientSendsText ==
    /\ client = "open" /\ Len(frames) < MaxQueued
    /\ frames' = Append(frames, [type |-> "text", units |-> <<>>])
    /\ UNCHANGED <<request, sent, client, headerVars, relayVars, destVars, downVars>>

\* It leaves, or answers the server's close.
ClientLeaves ==
    /\ client = "open"
    /\ client' = "left"
    /\ frames' = Append(frames, [type |-> "close", units |-> <<>>])
    /\ UNCHANGED <<request, sent, headerVars, relayVars, destVars, downVars>>

DestSends ==
    /\ dest = "open" /\ offered < DownLen
    /\ offered' = offered + 1
    /\ UNCHANGED <<request, written, dest, headerVars, relayVars, clientVars, downVars>>

DestEnds ==
    /\ dest = "open"
    /\ dest' \in {"closed", "reset"}
    /\ UNCHANGED <<request, written, offered, headerVars, relayVars, clientVars, downVars>>
-----------------------------------------------------------------------------
(* The header loop of serve(), and what handle() does when serve() returns. *)

\* serve() returned: the socket is closed and the upstream socket dropped.
Finish ==
    /\ phase' = "finished"
    /\ closed' = TRUE

Refuse ==
    /\ Finish
    /\ UNCHANGED <<request, pending, first, sent, client, relayVars, destVars,
                   heard, got, dropped>>

NextEvent == phase = "header" /\ frames # <<>> /\ frames' = Tail(frames)

\* detect(): a known header parses once it is whole; other bytes are refused now or later.
Outcomes(n) ==
    IF n < HeaderLen THEN {"Incomplete"} \cup (IF request.known THEN {} ELSE {"Rejected"})
    ELSE IF request.known THEN {"Parsed"} ELSE {"Incomplete", "Rejected"}

Buffered == pending + Len(Head(frames).units)

\* What the buffer may hold, header and payload together.
FitsBuffer == Buffered <= MaxHeader

HeaderIncomplete ==
    /\ NextEvent /\ Head(frames).type = "binary"
    /\ FitsBuffer /\ "Incomplete" \in Outcomes(Buffered)
    /\ pending' = Buffered
    /\ UNCHANGED <<request, sent, client, phase, first, relayVars, destVars, downVars>>

\* Not a binary message, too much of it, not ours, or not a TCP request with an address.
HeaderRefused ==
    /\ NextEvent
    /\ \/ Head(frames).type # "binary"
       \/ ~FitsBuffer
       \/ "Rejected" \in Outcomes(Buffered)
       \/ "Parsed" \in Outcomes(Buffered) /\ ~(request.is_tcp /\ request.hasTarget)
    /\ Refuse

HeaderParsed ==
    /\ NextEvent /\ Head(frames).type = "binary"
    /\ FitsBuffer /\ "Parsed" \in Outcomes(Buffered)
    /\ request.is_tcp /\ request.hasTarget
    /\ phase' = "dial"
    /\ pending' = Buffered
    /\ UNCHANGED <<request, sent, client, first, relayVars, destVars, downVars>>

DialFails ==
    /\ phase = "dial"
    /\ Refuse /\ UNCHANGED frames

\* mutant: the kind is not looked at
BugServesEveryKind == TRUE

\* A kind this transport does not serve, or a flow, is refused after the dial.
Served == \/ request.kind = "Trojan"
          \/ request.kind = "Vless" /\ ~request.flow_requested

KindRefused ==
    /\ phase = "dial" /\ ~Served
    /\ Refuse /\ UNCHANGED frames

\* The reply could not be sent: the client has left.
ReplyFails ==
    /\ phase = "dial" /\ Served /\ request.kind = "Vless" /\ client = "left"
    /\ Refuse /\ UNCHANGED frames

\* mutant: Trojan clients are answered as well
BugAlwaysReplies == <<Reply>>

\* What is sent to the client before any data.
Opening == IF request.kind = "Vless" THEN <<Reply>> ELSE <<>>

\* Whatever else the buffer holds is cleared (pending.clear()).
Connected ==
    /\ phase = "dial" /\ Served
    /\ got' = Opening
    /\ phase' = "relay" /\ pending' = 0 /\ first' = pending
    /\ up' = "wait" /\ dn' = "read"
    /\ dest' = "open"
    /\ UNCHANGED <<request, piece, written, offered, clientVars, heard, closed, dropped>>
-----------------------------------------------------------------------------
(* The uplink future. *)

\* mutant: the uplink reads one frame ahead and forgets the one before
BugReadsAhead ==
    /\ up \in {"wait", "write"} /\ frames # <<>> /\ Head(frames).type = "binary"
    /\ frames' = Tail(frames)
    /\ piece' = Head(frames).units
    /\ up' = "write"
    /\ UNCHANGED <<request, sent, client, headerVars, dn, destVars, downVars>>

UpTakes ==
    /\ up = "wait" /\ frames # <<>> /\ Head(frames).type = "binary"
    /\ frames' = Tail(frames)
    /\ piece' = Head(frames).units
    /\ up' = "write"
    /\ UNCHANGED <<request, sent, client, headerVars, dn, destVars, downVars>>

\* A text frame, a close, or an error ends the uplink; the write half stays open.
UpEnds ==
    /\ up = "wait" /\ frames # <<>> /\ Head(frames).type # "binary"
    /\ frames' = Tail(frames)
    /\ up' = "done"
    /\ UNCHANGED <<request, sent, client, headerVars, dn, piece, destVars, downVars>>

\* A destination that only stopped sending may still receive; nothing is
\* written for an empty frame.
UpWrites ==
    /\ up = "write" /\ (dest # "reset" \/ piece = <<>>)
    /\ written' = written \o piece
    /\ piece' = <<>>
    /\ up' = "wait"
    /\ UNCHANGED <<request, clientVars, headerVars, dn, dest, offered, downVars>>

\* The destination refuses the write: any part of the piece may have reached it.  One
\* that stopped sending may also leave the write pending, for the socket is half open.
UpWriteFails ==
    /\ up = "write" /\ dest # "open" /\ piece # <<>>
    /\ \E k \in 0..Len(piece) : written' = written \o SubSeq(piece, 1, k)
    /\ piece' = <<>>
    /\ up' = "done"
    /\ UNCHANGED <<request, clientVars, headerVars, dn, dest, offered, downVars>>
-----------------------------------------------------------------------------
(* The downlink future. *)

\* One read takes some of what has arrived and sends it on at once.
DnRelays ==
    /\ dn = "read" /\ dest # "reset"
    /\ \E n \in 1..(offered - heard) :
          /\ heard' = heard + n
          /\ got' = got \o Up(heard, heard + n)
    /\ UNCHANGED <<request, clientVars, headerVars, relayVars, destVars, closed, dropped>>

\* The runtime refuses the send once the client has left.
DnSendFails ==
    /\ dn = "read" /\ dest # "reset" /\ client = "left"
    /\ \E n \in 1..(offered - heard) : heard' = heard + n
    /\ dropped' = TRUE
    /\ dn' = "done" /\ closed' = TRUE
    /\ UNCHANGED <<request, clientVars, headerVars, up, piece, destVars, got>>

\* mutant: the downlink ends as soon as the destination has closed
BugEndsAtClose == dest = "closed"

\* End of stream after everything that arrived; a reset at any time.
AtEof == dest = "closed" /\ heard = offered

\* mutant: the downlink ends without closing the socket
BugEndsSilently ==
    /\ dn = "read" /\ (AtEof \/ dest = "reset")
    /\ dn' = "done"
    /\ UNCHANGED <<request, clientVars, headerVars, up, piece, destVars, heard, got,
                   closed, dropped>>

DnEnds ==
    /\ dn = "read" /\ (AtEof \/ dest = "reset")
    /\ dn' = "done" /\ closed' = TRUE
    /\ UNCHANGED <<request, clientVars, headerVars, up, piece, destVars, heard, got, dropped>>

\* join: the task ends when both futures have.
Joined == up = "done" /\ dn = "done"

BothDone ==
    /\ phase = "relay" /\ Joined
    /\ Finish
    /\ UNCHANGED <<request, pending, first, clientVars, relayVars, destVars,
                   heard, got, dropped>>
-----------------------------------------------------------------------------
Peers == ClientSends \/ ClientSendsText \/ ClientLeaves \/ DestSends \/ DestEnds
Header == HeaderIncomplete \/ HeaderRefused \/ HeaderParsed
Dial == DialFails \/ KindRefused \/ ReplyFails \/ Connected
Uplink == UpTakes \/ UpEnds \/ UpWrites \/ UpWriteFails
Downlink == DnRelays \/ DnSendFails \/ DnEnds

Next == Peers \/ Header \/ Dial \/ Uplink \/ Downlink \/ BothDone

(***************************************************************************)
(* A future whose await is over is polled again, a dial is answered, and a *)
(* client answers the close of the server.  A write to a destination that  *)
(* reset the connection fails.  That a destination reads, or answers a     *)
(* write after it stopped sending (connect.rs:111), and anything else of   *)
(* either peer, is not assumed.                                            *)
(***************************************************************************)
Fairness ==
    /\ WF_vars(Header) /\ WF_vars(Dial) /\ WF_vars(Downlink) /\ WF_vars(BothDone)
    /\ WF_vars(UpTakes) /\ WF_vars(UpEnds)
    /\ WF_vars(dest = "reset" /\ UpWriteFails)
    /\ WF_vars(piece = <<>> /\ UpWrites)
    /\ WF_vars(closed /\ ClientLeaves)

Spec == Init /\ [][Next]_vars /\ Fairness
-----------------------------------------------------------------------------
Queued == FlattenSeq([i \in DOMAIN frames |-> frames[i].units])

(***************************************************************************)
(* Cutting the stream into frames, a wait in the header loop and the hand  *)
(* over from that loop to the uplink lose and reorder nothing: what was    *)
(* written, is being written and is still queued is exactly what the       *)
(* client sent after the bytes the header loop took.  An uplink that ended *)
(* wrote a prefix of it.                                                   *)
(***************************************************************************)
NothingLostAfterHeader ==
    /\ phase \in {"header", "dial"} => Up(0, pending) \o Queued = Up(0, sent)
    /\ phase = "relay" /\ up # "done" => written \o piece \o Queued = Up(first, sent)
    /\ IsPrefix(written, Up(first, sent))

(***************************************************************************)
(* A client that is refused, whether unknown, asking for UDP or Mux, for a *)
(* flow or for a kind this transport does not carry, is sent no byte, and  *)
(* no byte of it reaches a destination (websocket.rs:129-130).             *)
(***************************************************************************)
RefusedHearNothing ==
    got # <<>> \/ written # <<>> =>
        /\ request.known /\ request.is_tcp /\ request.hasTarget
        /\ request.kind \in {"Vless", "Trojan"}
        /\ request.kind = "Vless" => ~request.flow_requested

(***************************************************************************)
(* A VLESS client hears the reply header once and before everything else,  *)
(* a Trojan client never; then the destination's stream in order, once     *)
(* each, although two futures and the header loop share the socket.        *)
(***************************************************************************)
ReplyThenStream ==
    LET data == IF request.kind = "Vless" /\ got # <<>> THEN Tail(got) ELSE got
    IN /\ request.kind = "Vless" /\ got # <<>> => Head(got) = Reply
       /\ data = Up(0, Len(data))

(***************************************************************************)
(* When the destination closes, everything it sent before has been sent to *)
(* the client before the socket is closed.                                 *)
(***************************************************************************)
EofDeliversWhole ==
    dn = "done" /\ dest = "closed" /\ ~dropped =>
        ToSet(got) \ {Reply} = 1..offered

(***************************************************************************)
(* The two directions are joined and neither is cancelled, so each must be *)
(* able to end the other: once the destination ended, the task ends, even  *)
(* if the uplink is waiting for a client that has nothing to send.  There  *)
(* is one exception: a destination that stopped sending and never reads    *)
(* holds the task for ever in a write to it (websocket.rs:201).            *)
(***************************************************************************)
WritePends == dest = "closed" /\ up = "write" /\ piece # <<>>

DestEndEndsTask ==
    [](phase = "relay" /\ dest \in {"closed", "reset"} =>
         <>(phase = "finished" \/ []WritePends))

(***************************************************************************)
(* websocket.rs:142-145: "VLESS needs its two-zero-byte reply, then any    *)
(* payload that rode in with the header."  The destination's first byte is *)
(* the first one after the header.                                         *)
(***************************************************************************)
PayloadReachesDest == written # <<>> => Head(written) = HeaderLen + 1
=============================================================================
