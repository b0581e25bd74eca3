------------------------------- MODULE Inbound -------------------------------
(***************************************************************************)
(* A session from its first byte: the header phase of own_session          *)
(* (durable.rs) with the detector it asks on every chunk, the second       *)
(* reading of the header once settings and state have loaded, what is      *)
(* refused there, and the two codecs that carry the payload after it.      *)
(*                                                                         *)
(* HeaderPhase has the deadlines of the same phase, XhttpSession the       *)
(* pumps, the dial and the teardown; here the dial succeeds and both       *)
(* writers take what they are given.                                       *)
(***************************************************************************)
EXTENDS Codec

CONSTANTS
    Clients,     \* the clients there may be
    Skew,        \* MAX_CLOCK_SKEW_SECS of the protocols that have a timestamp
    Ages,        \* the server's clock minus the client's timestamp, at the first chunk
    MaxAge,      \* and its bound later on
    MaxHeader,   \* MAX_HEADER_BYTES
    MaxText,     \* the bound of a write of either side
    MaxWritten,  \* the bound of a client's payload
    MaxSent      \* the bound of a destination's answer

\* What can be wrong with a header: only what the client's protocol has in it.
Faults(c) ==
    {""} \cup (IF c.command = "mux" THEN {} ELSE {"type"})
         \cup (IF Slot(c.host) = "domain" /\ c.command # "mux" THEN {"length", "name"} ELSE {})
         \cup (IF c.protocol = "Shadowsocks" THEN {} ELSE {"command"})
         \cup (IF c.protocol = "Trojan" THEN {"separator"} ELSE {})
         \cup (IF c.protocol \in {"Vmess", "Shadowsocks"} THEN {"seal", "version"} ELSE {})
         \cup (IF c.protocol = "Vmess" THEN {"short"} ELSE {})
         \cup (IF c.protocol = "Shadowsocks" /\ c.initial = 0 THEN {"short"} ELSE {})

ASSUME ClientAssumption ==
    \A c \in Clients :
        /\ c.protocol \in Range(Kinds)
        /\ c.zero \in BOOLEAN /\ (c.protocol = "Vless" => c.zero)
        /\ c.host \in Slots \cup {"literal"} /\ c.extra \in Nat /\ c.initial \in Nat
        /\ c.command \in CASE c.protocol = "Vless"       -> {"tcp", "udp", "mux"}
                            [] c.protocol = "Shadowsocks" -> {"tcp"}
                            [] OTHER                      -> {"tcp", "udp"}
        /\ c.broken \in Faults(c)

\* A name stands for a secret, which belongs to one method.
ASSUME SecretAssumption ==
    \A e1, e2 \in Credentials("Shadowsocks") : e1.name = e2.name => e1 = e2

ASSUME InboundAssumption ==
    /\ Ages \subseteq Int /\ MaxAge \in Int
    /\ DOMAIN Skew = {"Vmess", "Shadowsocks"} /\ \A p \in DOMAIN Skew : Skew[p] \in Nat
    /\ {MaxHeader, MaxText, MaxWritten, MaxSent} \subseteq Nat
    /\ MaxText + Tag + 1 <= MaxChunk  \* a client writes chunks that are taken, padding and all

VARIABLES
    client,   \* who connects
    texts,    \* the payload it has written after its header, a text a write
    arrived,  \* cells of header and payload the session has taken in
    age,      \* the server's clock minus the client's timestamp
    phase,    \* "header", "join", "relay", "refused", "abandoned" or "poisoned"
    request,  \* the answer of the detector, the second one after the join
    decoder, encoder,
    down,     \* the fields sent to the client
    sent      \* units the destination has sent

vars == <<client, texts, arrived, age, phase, request, decoder, encoder, down, sent>>

-----------------------------------------------------------------------------
(* What the client puts on the wire, by the definition of its protocol.    *)

Units(from, to) == [i \in 1..(to - from + 1) |-> from + i - 1]
Initial(c) == IF c.protocol = "Shadowsocks" THEN c.initial ELSE 0
Written(c, writes) == Initial(c) + Len(FlattenSeq(writes))

SaltLen(c) ==
    Max({2} \cup {KeyLen[entry.method] :
                    entry \in {e \in Credentials("Shadowsocks") : e.name = c.user}})

HelloLen(c) ==
    CASE c.protocol = "Vless"  -> 5 + c.extra + (IF c.command = "mux" THEN 0 ELSE 1 + HostUnits(c))
      [] c.protocol = "Trojan" -> 10 + HostUnits(c)
      [] c.protocol = "Vmess"  -> Prefix + SealedLen(c) + Tag
      [] OTHER -> SaltLen(c) + Fixed + SealedLen(c) + Tag

\* The i-th chunk of a VMess stream, by its number alone.
VmessWire(c, writes) ==
    LET perChunk == IF "padding" \in c.options THEN 2 ELSE 1
        padding(i) == IF "padding" \in c.options THEN PaddingAt(2 * (i - 1)) ELSE 0
        mask(i) == IF "masking" \in c.options THEN perChunk * i ELSE 0
    IN  FlattenSeq([i \in DOMAIN writes |->
          <<LengthField(Len(writes[i]) + Tag + padding(i), mask(i)),
            Sealed((i - 1) % CounterWrap, writes[i])>> \o Padding(padding(i))])

\* A Shadowsocks stream from its first free nonce on.
SsWire(nonce, writes) ==
    FlattenSeq([i \in DOMAIN writes |->
        <<Sealed(nonce + 2 * (i - 1), <<Len(writes[i])>>), Sealed(nonce + 2 * i - 1, writes[i])>>])

ClientWire(c, writes) ==
    CASE c.protocol = "Vmess"       -> VmessWire(c, writes)
      [] c.protocol = "Shadowsocks" -> SsWire(2, writes)
      [] OTHER                      -> [i \in DOMAIN writes |-> Plain(writes[i])]

Wire == Bytes(<<Other("header", HelloLen(client))>> \o ClientWire(client, texts))

Over == texts # <<>> /\ Last(texts) = <<>>

-----------------------------------------------------------------------------

Fresh(c) == c.protocol \notin DOMAIN Skew \/ age \in -Skew[c.protocol]..Skew[c.protocol]

Init ==
    /\ client \in Clients /\ age \in Ages
    /\ texts = <<>> /\ arrived = 0 /\ down = <<>> /\ sent = 0
    /\ phase = "header" /\ request = Verdict("incomplete", 0)
    /\ decoder = NewDecoder(client, <<>>) /\ encoder = NewEncoder(client)

\* The client writes n more units; a VMess client may end its stream instead.
ClientWrites(n) ==
    /\ Supported(client) /\ Known(client.protocol, client.user) /\ client.broken = "" /\ ~Over
    /\ n = 0 => client.protocol = "Vmess"
    /\ Written(client, texts) + n <= MaxWritten
    /\ texts' = Append(texts, Units(Written(client, texts) + 1, Written(client, texts) + n))
    /\ UNCHANGED <<client, arrived, age, phase, request, decoder, encoder, down, sent>>

Ticks ==
    /\ phase \in {"header", "join"} /\ age < MaxAge
    /\ age' = age + 1
    /\ UNCHANGED <<client, texts, arrived, phase, request, decoder, encoder, down, sent>>

\* A chunk of the header phase: too long, not a header, not yet one, or one.
HeaderChunk(n) ==
    /\ phase = "header"
    /\ arrived + n <= Len(Wire)
    /\ arrived' = arrived + n
    /\ request' = Detect(client, arrived', Fresh(client))
    /\ phase' = CASE arrived' > MaxHeader               -> "refused"
                  [] arrived' <= MaxHeader /\ request'.verdict = "incomplete" -> "header"
                  [] arrived' <= MaxHeader /\ request'.verdict = "ok"         -> "join"
                  [] OTHER                              -> "refused"
    /\ UNCHANGED <<client, texts, age, decoder, encoder, down, sent>>

\* What is refused of a header that was read.
Refused(answer) ==
    answer.verdict # "ok" \/ answer.flow_requested \/ answer.target = {} \/ ~answer.is_tcp

\* The join is over: the header is read again, and what came behind it goes first.
Begin ==
    LET answer  == Detect(client, arrived, Fresh(client))
        leading == SubSeq(Wire, answer.header + 1, arrived)
        first   == Decode(NewDecoder(client, Units(1, Initial(client))), leading)
    IN  /\ phase = "join"
        /\ request' = answer
        /\ phase' = CASE Refused(answer)                         -> "refused"
                      [] ~Refused(answer) /\ ~Supported(client)  -> "abandoned"
                      [] ~Refused(answer) /\ Supported(client) /\ first.failed -> "poisoned"
                      [] OTHER                                   -> "relay"
        /\ decoder' = IF phase' \in {"relay", "poisoned"} THEN first ELSE decoder
        /\ UNCHANGED <<client, texts, arrived, age, encoder, down, sent>>

\* The upstream pump takes a chunk.
Upstream(n) ==
    /\ phase = "relay"
    /\ arrived + n <= Len(Wire)
    /\ arrived' = arrived + n
    /\ decoder' = Decode(decoder, SubSeq(Wire, arrived + 1, arrived'))
    /\ phase' = IF decoder'.failed THEN "poisoned" ELSE "relay"
    /\ UNCHANGED <<client, texts, age, request, encoder, down, sent>>

\* The downlink pump starts with what is owed.
Prologue ==
    /\ phase = "relay" /\ encoder.owed # <<>>
    /\ down' = down \o encoder.owed
    /\ encoder' = AfterPrologue(encoder)
    /\ UNCHANGED <<client, texts, arrived, age, phase, request, decoder, sent>>

\* The destination sends n units, which the pump reads together.
Answers(n) ==
    /\ phase = "relay" /\ encoder.owed = <<>> /\ sent + n <= MaxSent
    /\ LET draft == Encode(encoder, Units(sent + 1, sent + n))
       IN  encoder' = draft.encoder /\ down' = down \o draft.fields
    /\ sent' = sent + n
    /\ UNCHANGED <<client, texts, arrived, age, phase, request, decoder>>

Next ==
    \/ \E n \in 0..MaxText : ClientWrites(n)
    \/ Ticks
    \/ \E n \in 1..(Len(Wire) - arrived) : HeaderChunk(n)
    \/ Begin
    \/ \E n \in 1..(Len(Wire) - arrived) : Upstream(n)
    \/ Prologue
    \/ \E n \in 1..MaxSent : Answers(n)

Spec == Init /\ [][Next]_vars

-----------------------------------------------------------------------------

Good(c) == Known(c.protocol, c.user) /\ c.broken = ""

\* What a protocol needs to see before it can tell a stranger.
Longest == Max({1} \cup (IF "Vless" \in Enabled THEN {1 + Uuid} ELSE {})
                   \cup (IF "Trojan" \in Enabled THEN {Key + 1} ELSE {})
                   \cup (IF "Vmess" \in Enabled THEN {Prefix} ELSE {})
                   \cup (IF "Shadowsocks" \in Enabled
                         THEN {KeyLen[entry.method] + Fixed : entry \in Credentials("Shadowsocks")}
                         ELSE {}))

\* A header is awaited only while it is not all there; the one exception is a sealed header that
\* was cut short before it was sealed, which the parsers take for one that is still to come.
AwaitedWhileIncomplete ==
    phase = "header" /\ client.broken # "short" =>
        arrived < IF Good(client) THEN HelloLen(client) ELSE Max({HelloLen(client), Longest})

StrangersRejected ==
    phase = "header" /\ ~Known(client.protocol, client.user) => arrived < Longest

RefusedForCause ==
    phase = "refused" /\ Good(client) =>
        \/ ~Fresh(client) \/ arrived > MaxHeader \/ client.command # "tcp"
        \/ client.protocol = "Vless" /\ client.extra # 0
        \/ client.protocol = "Vmess" /\ SealedLen(client) > MaxSealed

TakenForItself ==
    phase = "relay" =>
        /\ Good(client) /\ client.command = "tcp"
        /\ request.kind = client.protocol /\ request.target = {Meant(client.host)}
        /\ request.header = HelloLen(client) /\ Fresh(client)

(***************************************************************************)
(* However a header is cut into chunks, whichever protocols are on and     *)
(* whatever else the bindings list, a client with a usable entry of its    *)
(* own is waited for exactly until its header is there; it is refused only *)
(* when it came late, sent too much at once or asked for what is not       *)
(* served; it is relayed to the host it named, as the protocol it speaks   *)
(* and with its payload beginning where it does. No other client is        *)
(* relayed, and a stranger is turned away as soon as the last parser has   *)
(* what it needs.                                                          *)
(***************************************************************************)
HeaderAwaited ==
    AwaitedWhileIncomplete /\ StrangersRejected /\ RefusedForCause /\ TakenForItself

\* Texts of the client that have arrived whole.
Whole ==
    LET cells(n) == Len(Bytes(ClientWire(client, SubSeq(texts, 1, n))))
    IN  Max({n \in 0..Len(texts) : HelloLen(client) + cells(n) <= arrived})

UplinkIntact ==
    /\ phase # "poisoned"
    /\ phase = "relay" =>
         decoder.out = Units(1, IF client.protocol \in {"Vless", "Trojan"}
                                THEN arrived - HelloLen(client)
                                ELSE Written(client, SubSeq(texts, 1, Whole)))

\* The answers on the wire, in Shadowsocks every second sealed piece.
Payload(fields) ==
    FlattenSeq([i \in DOMAIN fields |->
        IF fields[i].kind \in {"plain", "sealed"} THEN <<fields[i].text>> ELSE <<>>])
AnswerTexts ==
    LET found == Payload(down)
    IN  IF client.protocol # "Shadowsocks" THEN found
        ELSE [i \in 1..(Len(found) \div 2) |-> found[2 * i]]

Reply ==
    CASE client.protocol \in {"Vless", "Vmess"} -> <<Other("reply", 2)>>
      [] client.protocol = "Shadowsocks"        -> <<Other("salt", 1)>>
      [] OTHER                                  -> <<>>

DownlinkIntact ==
    down # <<>> =>
        /\ down = Reply \o (IF client.protocol = "Shadowsocks" THEN SsWire(0, AnswerTexts)
                            ELSE ClientWire(client, AnswerTexts))
        /\ FlattenSeq(AnswerTexts) = Units(1, sent)
        /\ client.protocol \in {"Vmess", "Shadowsocks"} =>
             \A i \in DOMAIN AnswerTexts : Len(AnswerTexts[i]) \in 1..MaxPlain

(***************************************************************************)
(* The payload survives its wrapping: wherever the client's stream is cut, *)
(* header included, the destination has got every whole chunk and nothing  *)
(* else, beginning with the payload a Shadowsocks header carries, and an   *)
(* honest stream never poisons its session; what the client gets is the    *)
(* reply its protocol owes it once, and chunks that it reads to exactly    *)
(* what the destination sent, past the wrap of the nonce counter.          *)
(***************************************************************************)
StreamsIntact == UplinkIntact /\ DownlinkIntact
=============================================================================
