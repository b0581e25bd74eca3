-------------------------------- MODULE Codec --------------------------------
(***************************************************************************)
(* What wraps a session's payload once its header is read: codec.rs,       *)
(* vmess_body.rs, shadowsocks_body.rs and Body::split of detect.rs.        *)
(*                                                                         *)
(* The wire is a sequence of cells, one for a group of bytes; a cell knows *)
(* the field it is part of, so a decoder that cuts in the wrong place, or  *)
(* with the wrong mask or nonce, reads what nobody wrote.  Opening and     *)
(* unmasking such a piece fails here; the code finds out at the next tag.  *)
(***************************************************************************)
EXTENDS Detection

CONSTANTS
    MaxPlain,    \* MAX_PLAINTEXT of the encoders
    MaxChunk,    \* MAX_CHUNK of the VMess decoder
    CounterWrap  \* 2^16, where the VMess nonce counter starts again

ASSUME CodecAssumption ==
    /\ MaxPlain \in Nat \ {0} /\ CounterWrap \in Nat \ {0}
    /\ MaxChunk \in Nat /\ MaxChunk > MaxPlain + Tag

LengthField(size, mask) == [kind |-> "length", width |-> 2, size |-> size, mask |-> mask]
Sealed(nonce, text) ==
    [kind |-> "sealed", width |-> Len(text) + Tag, nonce |-> nonce, text |-> text]
Plain(text) == [kind |-> "plain", width |-> Len(text), text |-> text]
Other(kind, width) == [kind |-> kind, width |-> width]
Padding(n) == IF n = 0 THEN <<>> ELSE <<Other("padding", n)>>

Cells(field) == [part \in 1..field.width |-> [field |-> field, part |-> part]]
Bytes(fields) == FlattenSeq([i \in DOMAIN fields |-> Cells(fields[i])])
Rest(cells, n) == SubSeq(cells, n + 1, Len(cells))

\* Cipher::open: what a sealed piece says, nothing when it is not whole or not this nonce's.
Opened(cells, nonce) ==
    LET field == cells[1].field
    IN  IF field.kind = "sealed" /\ cells = Cells(field) /\ field.nonce = nonce
        THEN {field.text} ELSE {}

\* The length under a mask.
Unmasked(cells, mask) ==
    LET field == cells[1].field
    IN  IF field.kind = "length" /\ cells = Cells(field) /\ field.mask = mask
        THEN {field.size} ELSE {}

\* chunks(MAX_PLAINTEXT).
Pieces(text) ==
    [i \in 1..((Len(text) + MaxPlain - 1) \div MaxPlain) |->
        SubSeq(text, (i - 1) * MaxPlain + 1, Min({i * MaxPlain, Len(text)}))]

-----------------------------------------------------------------------------
(* What a client may ask of a VMess body.                                  *)

\* Security::from_byte and Framing::from_options.
Supported(c) ==
    \/ c.protocol # "Vmess"
    \/ /\ c.security \in {"aes128gcm", "chacha20poly1305"}
       /\ c.options \subseteq {"stream", "masking", "padding"} /\ "stream" \in c.options
       /\ "padding" \in c.options => "masking" \in c.options

\* Draws from the keystream a chunk costs, and the padding the n-th of them stands for.
DrawsPerChunk(options) == Cardinality(options \cap {"masking", "padding"})
PaddingAt(n) == (n \div 2) % 2

\* next_framing: padding first, then the mask, from one keystream.
NextFraming(options, draws) ==
    [padding |-> IF "padding" \in options THEN PaddingAt(draws) ELSE 0,
     mask    |-> IF "masking" \notin options THEN 0
                 ELSE IF "padding" \in options THEN draws + 2 ELSE draws + 1]

-----------------------------------------------------------------------------
(* The uplink: a decoder keeps what is not yet a whole chunk, what it      *)
(* knows of the next one (peeked, pending_len), and what it handed on.     *)

\* Body::split, on a supported request.
NewDecoder(c, initial) ==
    [protocol |-> c.protocol, options |-> c.options, draws |-> 0,
     counter |-> IF c.protocol = "Shadowsocks" THEN 2 ELSE 0,
     pending |-> <<>>, known |-> <<>>, initial |-> initial,
     finished |-> FALSE, failed |-> FALSE, out |-> <<>>]

\* mutant: the keystream is drawn again each time a chunk is found incomplete
BugRedraws(d) ==
    [d EXCEPT !.known = <<NextFraming(d.options, d.draws)>>,
              !.draws = @ + DrawsPerChunk(d.options)]

\* The framing of the next chunk: the one already drawn for it, or the next of the keystream.
Drawn(d) ==
    IF d.known # <<>> THEN d
    ELSE [d EXCEPT !.known = <<NextFraming(d.options, d.draws)>>,
                   !.draws = @ + DrawsPerChunk(d.options)]

VmessChunk(d, size) ==
    LET texts == Opened(SubSeq(d.pending, 3, 2 + size - d.known[1].padding), d.counter)
    IN  [d EXCEPT !.known = <<>>, !.pending = Rest(@, 2 + size),
                  !.counter = (@ + 1) % CounterWrap,
                  !.failed = texts = {}, !.finished = texts = {<<>>},
                  !.out = IF texts = {} THEN @ ELSE @ \o CHOOSE text \in texts : TRUE]

\* One turn of the VMess decoder's loop.
VmessStep(d) ==
    IF d.finished \/ d.failed \/ Len(d.pending) < 2 THEN d
    ELSE LET e == Drawn(d)
             sizes == {size \in Unmasked(SubSeq(e.pending, 1, 2), e.known[1].mask) :
                         Tag + e.known[1].padding <= size /\ size <= MaxChunk}
         IN  IF sizes = {} THEN [e EXCEPT !.failed = TRUE]
             ELSE IF Len(e.pending) < 2 + Min(sizes) THEN e ELSE VmessChunk(e, Min(sizes))

\* One turn of the Shadowsocks decoder's loop: a length or the text it announced.
SsStep(d) ==
    LET need  == Tag + (IF d.known = <<>> THEN 1 ELSE d.known[1])
        texts == Opened(SubSeq(d.pending, 1, need), d.counter)
        opened == [d EXCEPT !.pending = Rest(@, need), !.counter = @ + 1]
    IN  IF d.failed \/ Len(d.pending) < need THEN d
        ELSE IF texts = {} \/ (d.known = <<>> /\ texts = {<<0>>}) THEN [d EXCEPT !.failed = TRUE]
        ELSE LET text == CHOOSE t \in texts : TRUE
             IN  IF d.known = <<>> THEN [opened EXCEPT !.known = text]
                 ELSE [opened EXCEPT !.known = <<>>, !.out = @ \o text]

\* A decoder with its input appended.  A finished one no longer listens.
Fed(d, cells) ==
    [d EXCEPT !.pending = IF d.finished THEN @ ELSE @ \o cells,
              !.out = @ \o d.initial, !.initial = <<>>]

PlainText(cells) ==
    [i \in DOMAIN cells |->
        IF cells[i].field.kind = "plain" THEN cells[i].field.text[cells[i].part] ELSE 0]

\* Decoder::decode.  The pieces of a call that fails are not handed on.
Decode(d, cells) ==
    IF d.protocol \in {"Vless", "Trojan"} THEN [d EXCEPT !.out = @ \o PlainText(cells)]
    ELSE LET fed  == Fed(d, cells)
             turn(e) == IF d.protocol = "Vmess" THEN VmessStep(e) ELSE SsStep(e)
             turns == Len(fed.pending) + 1
             after[n \in 0..turns] == IF n = 0 THEN fed ELSE turn(after[n - 1])
             done == after[turns]
         IN  IF done.failed THEN [done EXCEPT !.out = d.out] ELSE done

-----------------------------------------------------------------------------
(* The downlink.                                                           *)

\* The reply header: sealed in VMess, two zero bytes in VLESS.
Owed(protocol) == IF protocol \in {"Vless", "Vmess"} THEN <<Other("reply", 2)>> ELSE <<>>

\* Body::split: owed is the prologue; sent says whether the Shadowsocks header was written.
NewEncoder(c) ==
    [protocol |-> c.protocol, options |-> c.options, draws |-> 0, counter |-> 0,
     owed |-> Owed(c.protocol), sent |-> FALSE]

\* Encoder::prologue, which leaves nothing owed.
AfterPrologue(e) == [e EXCEPT !.owed = <<>>]

Draft(encoder, fields) == [encoder |-> encoder, fields |-> fields]

VmessPiece(draft, text) ==
    LET e       == draft.encoder
        framing == NextFraming(e.options, e.draws)
        sealed  == Sealed(e.counter, text)
    IN  Draft([e EXCEPT !.draws = @ + DrawsPerChunk(e.options),
                        !.counter = (@ + 1) % CounterWrap],
              draft.fields \o <<LengthField(sealed.width + framing.padding, framing.mask), sealed>>
                           \o Padding(framing.padding))

\* A length and its text, two operations; the first piece of all has its length in the header.
SsPiece(draft, text) ==
    LET e == draft.encoder
    IN  Draft([e EXCEPT !.counter = @ + 2, !.sent = TRUE],
              draft.fields \o (IF e.sent THEN <<>> ELSE <<Other("salt", 1)>>)
                           \o <<Sealed(e.counter, <<Len(text)>>), Sealed(e.counter + 1, text)>>)

\* Encoder::encode, a piece at a time.
Encode(e, text) ==
    IF e.protocol \in {"Vless", "Trojan"} THEN Draft(e, <<Plain(text)>>)
    ELSE LET pieces == Pieces(text)
             piece(draft, t) == IF e.protocol = "Vmess" THEN VmessPiece(draft, t)
                                ELSE SsPiece(draft, t)
             after[n \in 0..Len(pieces)] ==
                IF n = 0 THEN Draft(e, <<>>) ELSE piece(after[n - 1], pieces[n])
         IN  after[Len(pieces)]
=============================================================================
