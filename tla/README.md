# A TLA+ development for trinity-panel

trinity-panel is one Cloudflare Worker (Rust, compiled to WASM) that relays proxy
traffic, serves an XHTTP transport from Durable Objects, translates a node model to
the configuration of client cores, and serves an admin panel. This directory models
what decides its behaviour: the parts that keep state, wait or race, and the pure rules
that several parts must agree on. TLC checks the models on small instances, TLAPS
proves the main theorems for every value of the constants.

Paths below are relative to the crate, `src/` in the repository. Line numbers of every
definition are in `PROJECT.json` under `map`.

    tlc -config SessionTimers.cfg SessionTimers.tla   check one run
    tlapm UploadQueueProofs.tla                       check one module of proofs

## 1. The system

### 1.1 Components

| component | source | state it keeps | operations | status |
|---|---|---|---|---|
| Uplink reordering queue | `src/transport/xhttp/session.rs` | `next_seq`, chunks pending, their bytes | `push` | modelled |
| Session supervisor | `src/transport/xhttp/supervise.rs` | which pumps finished, activity mark, idle seconds | `on(event)` | modelled |
| Header phase | `src/transport/xhttp/deadlines.rs`, loop in `durable.rs` | elapsed time, header buffer | `header_deadline`, one wait per chunk | modelled |
| XHTTP session object | `src/transport/xhttp/durable.rs` | the queue, two channels, owner flag, `ended`, `poisoned` | `fetch` (POST, GET), `own_session`, finalizer | modelled |
| WebSocket transport | `src/transport/websocket.rs` | header buffer, two joined futures per socket | header loop, dial, uplink, downlink | modelled |
| Inbound parsers | `src/protocol/vless.rs`, `trojan.rs`, `vmess.rs`, `shadowsocks.rs`, `addr.rs`, `mod.rs` | none | parse what has arrived | modelled by the fields they read |
| Detection and body codecs | `src/protocol/detect.rs`, `codec.rs`, `*_body.rs`, `src/config/env.rs` | decoder and encoder per session | detect, split, decode, encode, prologue | modelled |
| Outbound routing | `src/relay/outbound.rs`, `connect.rs` | none; plans are values | `resolve`, `open_with_plan_tracked` | partly: the NAT64 arithmetic is a function |
| Last-known-good preference | `src/relay/outbound_state.rs` | one document in the key-value store | load, order, record, clear | modelled |
| Settings document | `src/panel/store.rs`, `serve.rs`, `api.rs` | one document in the key-value store | load, state, save, derive, validate | partly: no exports, no QR answers |
| Worker entry | `src/entry.rs` | none | `dispatch` and the decoy | partly: not what the self-test says |
| Router and paths | `src/router.rs`, `path.rs` | none | match a prefix, shadowing check | modelled |
| XHTTP wire format | `src/transport/xhttp/wire.rs` | none | classify a request | partly: no padding, no headers |
| Panel authentication | `src/panel/auth.rs` | none (signed tokens) | issue, verify | modelled |
| Node model and conflicts | `src/config/model.rs`, `conflicts.rs` | none | `check` | modelled |
| Panel advisor | `src/panel/advisor.rs` | none | controls, options, edits, matrix | modelled |
| Translation | `src/translate/*` | none | one document per core | modelled by what decides a connection |
| Subscriptions | `src/subscription/*` | none | links, bundles, counts | partly: no encodings, no QR |
| Panel and wizard pages | `src/public`, `src/wizard` | a tab's copy of the document | load, edit, save | partly: the tab and one edit at a time |
| Relay pump | `src/relay/mod.rs` | one buffer | `pump`, `write_initial`, `write_chunked` | not modelled: the first two have no caller, the third is one write of the same bytes |
| Crypto, base64, random | `src/crypto/*`, `src/random.rs` | none | arithmetic on bytes | not modelled: published test vectors |
| Diagnostics | `src/transport/xhttp/diag.rs` | counters | record | not modelled: read by no decision |
| Installer, scripts | tooling | | | not modelled: outside the program |

### 1.2 How the components interact

A request is **dispatched** by its path: a prefix each for the XHTTP transport, the
WebSocket, the panel and the subscription, and the decoy for everything else. A client
opens an XHTTP session by POSTing numbered chunks and one GET. Every request of a session
id reaches the same Durable Object. A POST pushes its chunk into the **queue**; the run of
chunks that became contiguous is sent into a bounded **uplink channel**. The first POST
that pushes starts the **owner task**. The owner assembles the protocol header from the
channel under the **header deadlines**, asking the **detector** after each chunk; joins
that wait with reads of the settings and of the **last-known-good preference** and
detects once more; resolves and orders the **dial plan**, dials, and then runs two pumps
through the **codecs** of the client's protocol: channel to socket, and socket to a bounded
**downlink channel** that the GET streams to the client. The pumps report events to the
**supervisor**, whose decision closes the upstream or ends the session. The **finalizer**
marks the object ended, drops the shared downlink sender and settles the preference. A
**WebSocket** upgrade takes no object: one task per socket collects frames until they hold
a header, dials with the same plans, and relays both directions until both have ended.

The **panel** admits an operator by a password, edits the node set with the **advisor**
beside it, and writes the settings document that the sessions and the subscription read.
The **conflict rules** judge a node for a client; the advisor, the three **emitters** and the
links all go by their verdict, each in a pass of its own.

### 1.3 What is hard here

- *Interleaving at awaits.* The object is single-threaded, but a handler gives way at
  each await: in the body of a POST, between two sends of one run, in a push to the
  downlink, in every store access. Whatever was read before may be stale after it.
- *Order.* POSTs race each other, are retried, and wait for room in the channel; the
  queue's answer is consumed over several awaits.
- *Teardown.* Either pump may finish first, the client may leave, the destination may
  close inside the coalescing window, a decoder may poison the stream; every exit must
  release every waiter and close every stream.
- *Time.* A total budget over per-chunk deadlines in whole seconds; an idle counter
  that is cleared both by bytes and by ticks; a header that is judged twice.
- *A store without transactions.* Sessions and tabs read, decide and write in separate
  requests; reads and writes may fail.
- *Cuts.* A header or a sealed chunk may be cut anywhere, while several parsers with
  different lengths and credentials wait for it.
- *Rules in many places.* A node is judged, offered, counted, linked and rendered by
  different functions; each has its own idea of names, tags and the toggle.

### 1.4 What makes each component correct

- Queue: what it releases is a prefix of the client's stream, each chunk once; nothing
  accepted is lost; budgets hold; the gap can always be filled.
- Supervisor and header phase: a moving session is not killed, a silent one is; the last
  pump ends it; the upstream is closed at most once; dripping bytes cannot stretch the
  header.
- Session: one owner; the owner receives the stream in order; every waiter is answered;
  every exit marks the session ended and closes the download; a finished download is
  whole.
- Detection and codecs: a client is waited for, refused or relayed as its credential and
  its header deserve, however it is cut; payload survives framing and sealing.
- Routing and preference: every route is tried at most once and within a bound; what is
  remembered really worked; a failing preference is demoted.
- WebSocket: what follows the header's frame is relayed in order; a refused client hears
  nothing; the reply comes first and once; a stream that ended was delivered whole.
- Dispatch: prefixes without a conflict share no path; only a live session sees the panel;
  without a password there is none.
- Settings: a save replaces only what its tab has seen, but for the races and failures that
  are named; a refusal has a cause.
- Advice and translation: what the editor offers breaks nothing; a broken node can be
  repaired; verdicts and counts are kept; tags are unique; cores agree on the server name.

## 2. The modules

    UploadQueueOps --+-- UploadQueue --- MCUploadQueue, UploadQueueProofs   (OrderedStream)
                     +-- XhttpSession -- MCXhttpSession, XhttpSessionProofs
    SupervisorOps ---+
                     +-- Supervisor --+
                         HeaderPhase -+- SessionTimers, SessionTimersProofs
    Detection -- Codec -- Inbound ------ MCInbound, InboundProofs -- InboundStreamProofs
    WebSocket -------------------------- MCWebSocket, WebSocketProofs
    OutboundOps -- Outbound ------------ MCOutbound, OutboundProofs
    PanelStore ------------------------- MCPanelStore ------------------+
    Routing -- Dispatch ---------------- MCDispatch --------------------+
    NodeModel --+-- Advisor -----+                                      |
                +-- Translation -+-- Subscription -- PanelEditor -------+- PanelProofs
                                                      +- MCPanelEditor

The `*Ops` modules, and `Routing`, `Detection`, `Codec`, `NodeModel`, `Advisor`, `Translation` and
`Subscription`, hold a component's functions as operators, so that several state machines
use the same definitions. A definition whose name begins with `Bug` is a plausible mistake in the
operator after it: `PROJECT.json` pairs it with the property that catches it.

**UploadQueueOps, UploadQueue** (`session.rs`). `push` is split into what it accepts
(`Accepts`), what it releases (`ReadyAfter`) and what it becomes (`QueueAfter`). Any number
may be pushed at any time, any number of times and with a different body; two histories,
what was accepted and what was delivered, say which body counts. `OrderedStream` is the
abstract promise: what is delivered is always the longest contiguous prefix of what was
accepted. `UploadQueue` implements it (`ImplementsOrderedStream`), and so does the session that
uses it (`XhttpSessionProofs`).

**SupervisorOps, Supervisor** (`supervise.rs`). `After` and `Decision` are the two halves of
`Supervisor::on`. The state machine feeds it the events the pumps can produce.

**HeaderPhase** (`deadlines.rs`, the loop in `durable.rs`). Time is in units of 1/Res second,
since the code measures milliseconds and truncates to seconds.

**SessionTimers** composes the two with what `own_session` does between them
(`durable.rs:541-638`, `connect.rs`): the header loop joined with two reads of the store, the
checks, the exit that skips the finalizer, the dials with a timer for each candidate, and the
leading payload, which is written before there is a supervisor. `SilenceEnds` is stated over all
of it. A session is over once it moves no more bytes, except where the code runs no clock,
and the property names these places: a read of the store that is not answered
(`AwaitsStore`), a leading write that the destination does not take (`AwaitsLeadingWrite`), and the
exit that skips the finalizer.

**XhttpSession** (`durable.rs`). The composition, in which a chunk is its number: both request
handlers, the two channels, the owner task from header to finalizer, both pumps, the
supervisor loop. An action is what one task does between two awaits. A sender of a bounded
futures channel has a slot of its own beyond the shared buffer and parks after using it,
and every POST clones the sender: `Room`, `parked` and `HandOver` model exactly this, since
the order of chunks depends on it. Body and dial outcomes are nondeterministic. When the
owner's main loop is left, both pumps are dropped at once, as in the code.

**Detection, Codec, Inbound** (`protocol/*`, `config/env.rs`, the header and relay of
`own_session`). A client is a record of what it says, and its bytes are counted in units
of about eight. A parser is a sequence of fields: how much it takes and whether it accepts
what it finds. The detector tries the enabled parsers in the code's order and answers
Incomplete while one of them may still match. A cell of the wire knows the field it is part
of, with its mask, nonce and text, so a decoder that cuts in the wrong place or is out of
step reads what nobody wrote. `Inbound` is one session from its first byte: chunks cut
anywhere, the second reading of the header with a later clock, what is refused there, and
both codecs: the decoder's loop over what is pending, and the encoder's over the pieces of an
answer.

**OutboundOps, Outbound** (`outbound.rs`, `connect.rs`, `outbound_state.rs`, and the parts of
`own_session` that load and settle). Hosts are model values with a canonical spelling;
several sessions, each in an object of its own, share the stored document. Reads and
writes may fail. A session's preference is what it read at its start. Configurations are
what `FromSettings` makes of documents, of the panel or not.

**PanelStore** (`store.rs`, `serve.rs`, `api.rs`). A save is a read, a decision and a write in
separate requests, and any other save runs between them; reads and writes may fail, and a save may
store no nodes. A document is abstracted to its identity, version, revision and whether it has
nodes. The client is the page (`public/panel.html`): it loads the state when it opens and again
after a save (`boot`), and keeps its draft and its revision when a save is refused or its
answer is lost. `counted` and `base` are histories: which document a tab was shown, and
whether every write since advanced the revision that pages see by one.

**Routing, Dispatch** (`path.rs`, `router.rs`, `wire.rs`, `entry.rs`, `panel/serve.rs`,
`panel/auth.rs`). A path is a sequence of segments, a segment a name and an extension.
`Response` is what the Worker does with a request: one of the routes, or the decoy. The state is
what can change under a token: the clock, the password and the tokens given out.

**NodeModel** (`config/model.rs`, `conflicts.rs`). Nodes are records, `Check` is the set of findings
of a node for a client. **Advisor** (`panel/advisor.rs`): controls, offered options, the edits,
and the attribution of findings to controls. **Translation** (`translate/*`): what each of the
three emitters refuses, renames, degrades or drops, and the tags, names, handshakes and
hops it writes. **Subscription** (`subscription/*`, `panel/api.rs`, `panel/store.rs`): links,
bundles, the panel's state, the validation of a node set, and the nodes derived from the
bindings. **PanelEditor** edits a node with the toggle and the client of the reader and relates
all four.

**WebSocket** (`websocket.rs`). The client's stream is numbered units; a frame is any stretch
of them, so a header may straddle frames and share one with payload. What `detect` makes
of a buffer is one of its three outcomes, fixed by the request and by whether the header
is whole. The two futures of the join are two control states that interleave at each
await; the peers send, leave, close and reset at any time.

## 3. The runs

Passing runs:

| run | question | bounds |
|---|---|---|
| `upload_queue` | Does `push` deliver the stream in order, once each, losing nothing and within its budgets, and does it implement the ordered stream? | numbers 0..9, two chunk sizes, count budget 2 and byte budget 5, so each budget binds without the other |
| `session_timers` | How long can a client stretch the header, which event sequences end a session, and where does silence end it, from the first wait to the last? | 2 units a second, bounds 5/2/7 s: the total clamps both chunk bounds; empty chunks; store reads in any order or never; two candidates and two leading pieces, so that there is a last one and one before it; idle timeout of 12 ticks, every event order |
| `xhttp_uplink` | What of the order survives concurrent and repeated POSTs? | chunks 0..3 and a retry of chunk 0, channel depth 1: the smallest in which a POST has to wait in the middle of a run while another completes a later run |
| `xhttp_teardown` | Is a finished download whole, and does every exit release every waiter and stream? | two POSTs, one GET, two reads; uplink depth 0, so that the first hand-over already parks, and downlink depth 1; unframable bodies allowed; idle timeout 1 |
| `inbound` | Is each client waited for, refused or relayed as it deserves, and do both streams survive their wrapping? | 49 clients: honest ones of four protocols and four kinds of host, every VMess option, declined commands, strangers and every way a header can be broken; bindings with blank and malformed entries and two Shadowsocks keys of different length; a chunk of at most 2 units and a nonce counter that wraps at 2, so 3 units of payload pass both; clocks from before to after the interval in which a timestamp is fresh, so that a client may be early, late, or fresh at its first reading and stale at the second |
| `outbound` | What can two sessions do to the shared preference? | the configurations five documents lead to (unreadable, a gateway, a limit below and above the clamp, a re-spelt and a blank candidate), 2 ports, freshness 3 and debounce 2 ticks within a clock of 6 |
| `panel_store` | What does the revision protect, when saves overlap, reads and writes fail, and documents may be empty? | two tabs and an old client, revisions modulo 3 and four writes, so the revision wraps and meets tabs that still hold it; four initial documents: none, one at the last revision, one from before there were revisions, one of a later version |
| `websocket` | Does a connection lose, reorder or leak bytes, and can the destination's end be missed? | 7 requests (the two served, one for each refusal, a stranger); header of 2 units in a buffer of 3, streams of 4 and 2, so a header comes in two frames, fills the buffer with payload, or overflows it |
| `dispatch` | Who is let in, what does a deployment without a password show, and do prefixes share a path? | the wizard's prefixes, a panel alone, and two sets where prefixes nest; 37 requests; no password and two; a session of 2 instants within a clock of 3, so a token is used at, before and after its end |
| `panel_editor` | Is the advice sound, and do verdicts, counts, tags and server names agree over cores? | three edits from a new connection, from two that only a whole save could store and from a derived deployment, beside a neighbour whose tag is the one a rename would choose; a client of each core and one of a patched core; both toggles |

Runs that TLC must find violated, each against a sentence of the source:

| run | the code says | what happens |
|---|---|---|
| `xhttp_overtake` | the stream is handed over in order (`session.rs:6-8`) | a POST waits for room in the middle of its run; the POST that completes the next run uses the free slot of its own sender clone, and its chunk overtakes |
| `websocket_payload` | payload that rode in with the header follows the reply; dropping it is "the classic bug" (`websocket.rs:142-145`) | the buffer is cleared (`:159`) and nothing of it is written upstream |

**What the uplink runs say together.** `xhttp_uplink` checks what does hold: the order is
kept until some POST has had to wait (`OrderUntilFirstWait`), and always each chunk is
handed over at most once and accounted for, by one owner (`OnceEachOnTheWay`).
`xhttp_overtake` shows that the full order does not hold beyond that.

**Deadlock checking.** It is off where the system may stop: a session that ended, a queue
with nothing to accept, a clock at its bound. `panel_store`, `upload_queue`, `dispatch` and
`panel_editor` leave it on.

**Every bound.** `MaxSeq`, `MaxChunk` of the session (sequence numbers), `DownReads` (reads a
destination can satisfy), `MaxTime` and `MaxNow` (the clock), `MaxAge`, `MaxCandidates` and
`MaxPieces` (dials and leading writes of `session_timers`), `MaxPuts` (successful writes),
`MaxEdits`, `StreamLen`, `DownLen` and `MaxQueued` (units and frames of a WebSocket), `MaxText`,
`MaxWritten` and `MaxSent` (writes of an inbound session and its peers). None removes a case: the
queue's rules depend on differences of numbers, a download repeats the same steps after two
reads, the clock passes both the debounce and the freshness bound with a session still open, a
third chunk meets the codec in the state the second left it in, and an edit is judged from every
node two edits can reach. `IdleTimeout` is 1 in the XHTTP runs because the counter itself is
checked, and proved for every value, in SessionTimers. The widths of `inbound` are the code's in
units of about eight bytes, which keeps the order of the lengths and so the order in which
parsers decide. Sessions are symmetric in `outbound` and the tabs with an expectation in
`panel_store`, which check no liveness.

**Fairness.** `SessionTimers`: timers fire, those of the header phase, of a handshake and of the
supervisor, and what the task does without waiting for anyone it does; nothing is assumed of the
store, of a client or of a destination. `XhttpSession`: a task whose await is over is polled
again; deadlines fire; the store and a dial answer (`connect.rs` bounds a handshake); a client
that stays on its GET reads it. Nothing is assumed of a client sending, or of a destination
reading, sending or closing: `OwnerEnds` holds for a destination that stalls for ever because the
idle timer bounds it. The write of the payload that came with the header is not supervised; it is
assumed to complete, since it is at most one header buffer into the send buffer of a fresh
socket, and so are the reads of the store: this run asks what becomes of a session that gets as far
as its relays, and `session_timers`, which assumes neither, shows where one may stop before.
`WebSocket`: a future whose await is over is polled, a dial is answered, a client answers
the server's close, and a write to a destination that has reset the connection fails. Not that a
destination reads: one that only closes its sending side (`allow_half_open`, `connect.rs:111`)
may keep a write pending for ever, and with it the join and the task. This is the exception
`DestEndEndsTask` names (`WritePends`); without it the property fails in the same run. The other
specifications state no fairness and check safety only.

## 4. The proofs

TLAPS proves, for every value of the constants that meets the named assumptions:

**UploadQueueProofs** (any chunks and sizes, budgets and largest number naturals): type
correctness, `InOrderOnceEach`, `NothingLost`, `WithinBudget`, `RetryNeverRefused`,
`GapCanBeFilled`, and the refinement of `OrderedStream`. `WithinBudget` has both budgets and the
accounting behind the second: `pending_bytes` is the sum of what is buffered, through every
chunk that is added, drained or repeated (lemma `BytesSplit`). The invariant is the conjunction of
the first four: what was delivered is the prefix 0..next_seq-1 of what was accepted, and
what was accepted is that prefix with the buffered chunks. Neither is inductive alone:
the first needs the buffered bodies to be the accepted ones, the second that no buffered
number has been passed (`WithinBudget`). Everything rests on what the drain loop reaches, the
lemmas `FirstGapFacts` (a least missing number exists) and `DrainFacts`.

**SessionTimersProofs** (any positive bounds and resolution, any `IdleTimeout` > 0): the bounds
of each clock, type correctness, `PhaseBounded`, `SilenceBounded`, `OnlySilenceIsKilled`,
`EndsWithTheLastPump` and `CloseUpstreamOnce`. In the header phase the strengthening bounds
the end of the wait in progress by the budget plus a part of one second, and by the last
arrival plus the bound that applies to it. In the relays it ties the counter to the history
variable `silence`: while the mark is set no tick has passed since bytes moved, and otherwise
silence runs ahead of the counter by the one tick that consumed the mark.
`SessionRunsBothClocks` says that a session is a behaviour of each clock's own specification, so
what is proved of a clock holds of the session (`SessionTimersSafe`). `SupervisorTakesOver` is about
the stretch between them: whatever loads, dials and the leading write took, the supervisor
starts with a complete header and loaded settings, with nothing on its clock.

**XhttpSessionProofs** (any POSTs and GETs, numbering, budgets and depths of both channels):
type correctness and all four invariants of the XHTTP runs. The types are inductive with what the
queue holds: the run that a chunk unblocks has to be a sequence of chunks. The uplink rests
on `Distributed`: every number the queue has released is in exactly one place, with the owner,
in the channel, or in the hands of one POST. Releasing a run, handing over the front of it
and dropping the receiver each keep it; `OnceEachOnTheWay` and `UplinkBlocksWhenFull` follow.
`OrderUntilFirstWait` needs that before the first wait nobody holds a part of a run. The
downlink rests on a running total: what the client holds, what is on its way to it and
what the pump has not sent add up to what was read, as long as the client has not left.
`SessionImplementsStream` is the refinement of `OrderedStream` by the session as a whole: what is
accepted are the numbers the queue has passed or keeps, what is delivered are those it has
released, and of all the steps only a POST whose body has arrived touches either
(`OnlyPushesTouchQueue`, `TakesOnce`). It needs one invariant more, that nothing is released that no
POST carried. Released is not yet received: `DeliversUntilFirstWait` equates the two up to the
first POST that waits, and `xhttp_overtake` shows that they part afterwards.

**InboundProofs** (any clients, bindings, widths, clocks and cuts): `HeaderAwaited`, all four of
its parts, and `StrangersStayOut`, a session gets past its header only for a client that holds
an entry of the protocol it speaks. The proof goes up from the reader: where the fields of a
concatenation end, and that a reader rejects at the first wrong field it can see, accepts when
all are right and there, and waits otherwise. From this each parser has two lemmas, what it
answers to its own clients (right, late, broken at some field) and that it rejects all others as
soon as their credential is there. `Detected` combines them: the detector answers what the
client's own parser answers, except that it may wait for others until `Longest`. The invariant
`HeaderInv` is then that the session waits on an answer "incomplete" to the very cells that are
there, and ends the phase on one that was right when it was given; the second reading, with a
later clock, is judged anew. Two assumptions describe the clients, and nothing about the server:
`ClientAssumption` limits a client to commands and faults its protocol has bytes for (a Trojan
header has no seal to break), which are the records `Client` builds; `SecretAssumption` says
that one name in the Shadowsocks bindings stands for one secret of one method. Without it a
client could be answered by either of two keys of different length, and `HelloLen` would not be
one number.

**InboundStreamProofs** (the same, and any texts, answers, sizes of a piece and wraps of the nonce
counter): `StreamsIntact`. The invariant is `StreamInv`, the conjunction of `HeaderInv`, `UpInv`
and `DownInv`.

- A wire is a header and a stream of one chunk a text, and nonce, mask, padding and draws of a
  chunk are functions of its number (`WrappedAppend`): however the code counts on from chunk
  to chunk, it has to arrive there. The lemmas on one turn say that it does: a chunk that is
  there whole is taken, one that is not leaves the decoder as it is, with the length it may
  already have read (`VmessTurn`, `SsTurnText`).
- `Settled` is where a decoder stands between two calls: it has handed on the first n texts, holds
  the beginning of the chunk behind them, and needs more. A call ends there because a turn
  that changes something makes the pending cells fewer, and `Decode` has a turn for each of
  them (`DecodeSettles`). From `Settled` it follows that the texts handed on are those whose
  chunks have arrived whole (`WholeIs`), which is what `UplinkIntact` says.
- `UpInv` says that the decoder of a session that relays is settled on all that came behind
  its header, and that no session of a client that keeps to its protocol is poisoned. A text
  written later makes the stream longer behind what has arrived, so it stays settled
  (`SettledGrows`). The cells that share a chunk with the header are the first it gets.
- `DownInv` says that some texts, each of the size of a piece, flatten to what the destination
  sent, that the fields sent are their chunks behind the reply, and that the encoder is at
  the chunk behind them. A piece adds one chunk (`PieceSends`), an answer its pieces
  (`EncodeSends`).

`InboundAssumption` says that a client writes at most `MaxChunk` a chunk, with tag and padding: the
decoder refuses a longer one by design (`MAX_CHUNK` of `vmess_body.rs`), so without it a client
could poison its own session.

**PanelProofs**, of Dispatch (any prefixes and paths of any length, passwords, requests, lifetime):
type correctness, `OnlyLiveSessions`, `OneOwnerPerPath`, `NoPasswordNoPanel`. For sessions, the
strengthening is that every token given out stems from a login, under the password it is
signed with and a lifetime before its expiry. For prefixes, that of two prefixes of one
path the shorter is a prefix of the longer, which the shadowing check finds. The third follows from
the second: what the panel's prefix covers, no other does.

**PanelProofs**, of PanelStore: type correctness, `RevIdentifiesDoc`, `NoSilentOverwrite` and
`RefusedOnlyWhenChanged` (theorem `RefusesOnlyChanged`), for every schedule: nothing is assumed of
how saves overlap, which reads and writes fail or what documents hold. The conditions the
properties state are about the past of one tab (`RevsCount`), and each is needed (section 5).
The invariant says of a tab whose revisions count that its own revision is as many writes behind
the one a page would be shown now as there were since its document was stored, or that and one
full circle (`InStep`), and of a save under way that was compared with the document still stored
that its tab expects that document's revision (`ExpectsStored`).

**PanelProofs**, of PanelEditor (any connections, texts and clients, lists of any length, any
number of edits): type correctness (`EditorTypeCorrect`) and all six invariants of the run. Type
correctness says that an edit makes a node of a node, whatever fits the field; the others follow
from it for one state.

- `ChoiceNeverBreaks`. A choice changes one part of a node, so only the rules about that part
  can find something new. `Blocks` writes what blocks a node as one predicate per rule; for every
  control there is one option under which a rule is silent or finds the same as for the node,
  so what all options share is already found of the node (`SharedBlame`).
- `CanBeRepaired`. For each rule that blocks, one edit that silences it and adds nothing
  (`RepairFlow`, `RepairSecurity` and so on): another flow, cipher or method, TLS, a fingerprint,
  a transport the Worker serves or the client knows.
- `VerdictHolds`, `IncludedIsEmitted` and `DocumentTagsUnique` are about lists that are flattened.
  `FlattenPicks` says where each element of the result comes from, in order and none twice;
  a count is then a bijection (`PicksCount`), and two outbounds with one tag come from one node.
  `UniqueTags` gives each node its base or its base with a number (`InUse`), free because
  there are more suffixes to try than tags taken (`FreeTagIsFree`). The trial with the toggle off
  covers both settings because the toggle only ever removes a finding (`CheckMonotone`).
- `IncludedIsEmitted` holds for tags with white space around them too, but for the two cases it
  names (`SpaceConfuses`, section 5, item 20): Xray's tags are equal up to white space exactly
  where `XrayTagsUsable` refuses the document, and a name mihomo lets through for its white space is
  a built-in one.
- `SameNameEverywhere` is about the outbounds a core is given for the node, by cases over the core
  and the protocol (`EmittedTls`): Shadowsocks in sing-box and mihomo goes through a plugin whose
  name is the host's, which is the name of the property unless the node has a server name of its
  own.

**OutboundProofs** (any number of sessions, any configurations, expiry and debounce): type
correctness and all three invariants of the run. `RememberedRouteCarried`: every document
that is decided on but not yet written already names a route that carried a session, and
the set of such routes only grows, so the order of the writes does not matter.
`FailedPreferenceDemoted` from the shape of a session's record. `EveryRouteTried`: lemmas about
the operators say what `Resolve` lists, that it keeps within the bound of dials, and that
moving the preferred route forward leaves the others in their order (`Reordered`); the
session then only counts through its plan (`Progress`).

**WebSocketProofs** (any requests and lengths): type correctness and all four safety invariants.
For the downlink: before the dial nothing has been sent; only a request that is known, TCP
and addressed passes the header loop, and only a served kind passes the dial; while the
downlink runs the client was sent exactly the opening and the units read, and after it ended
still some prefix of them, the whole if it ended by the destination's end. For the uplink: what
the destination got, what is being written and the frames that wait are stretches of the
client's stream, each beginning where the one before ends (`Covers`).

*Recursion without induction.* The reader's `End`, the flattened frames, fields, candidates and
documents, the loops of decoder and encoder, and the tags a list of nodes takes are recursive
functions, and the library's induction cannot be used. Where a fact about one is needed it is
proved by a least counterexample: if the fact failed for some number it would fail for a least
one (`WellFoundedInduction`'s `WFMin`), whose predecessor meets it. That such a function exists
at all is proved in the same way.

*Only model-checked*: liveness (`SilenceEnds`, `OwnerEnds`, `StreamCloses`, `WaitersAnswered`,
`DestEndEndsTask`), since the prover handles neither fairness nor ENABLED. Every invariant and
every action property that a run checks is a theorem.

## 5. Divergences seen while modelling

Two are runs (section 3). In others a property that passes names the case as an exception, and
fails in the same run when the exception is taken out:

- `xhttp_teardown`: a body mode that `split` refuses returns at `durable.rs:567` without the
  finalizer, although `durable.rs:438-440` says that it runs whatever exit the task takes.
  `OwnerEnds` and `StreamCloses` name this exit (`phase = "aborted"`).
- `session_timers`: between its two clocks a session may wait for ever, for a read of the store,
  which is joined with the header phase (`durable.rs:541`), so that even a header that was given
  up is given up only when the store has answered; and for a destination that does not take the
  leading payload (`durable.rs:629`), before there is a supervisor. `SilenceEnds` names both, and
  the exit above. The comment at `durable.rs:483-492` bounds the header phase only.
- `panel_store`: two saves may read before either writes, and both are accepted, although the other
  tab's edit is never to be overwritten silently (`serve.rs:219-221`). `NoSilentOverwrite` is stated
  for a save that still finds the document it was compared with. Nor do revisions protect a tab
  that was shown settings in place of a document (a failed read is taken for an empty store,
  `serve.rs:52`; one without nodes is served as derived settings with revision 0, `serve.rs:61-64`),
  a tab since whose load a write did not advance the revision by one, or one whose revision came
  full circle.
- `websocket`: a destination that closes its sending side and stops reading holds the task
  (section 3, Fairness).
- `panel_editor`: items 20 and 22.

These were met as well; unless an item names a property, no run states it.

Sessions:

1. `deadlines.rs:31-33` promises a total budget; elapsed time is truncated to whole seconds
   (36-37), so the phase may pass it by less than a second. `PhaseBounded` states what holds.
2. An empty chunk leaves the header empty, so the next wait gets the first-chunk bound
   (`durable.rs:504-507`). `SilenceBounded` is stated accordingly.
3. A session that only ever receives a GET has no owner and no timer
   (`durable.rs:246-265`), although `docs/architecture.md:153-154` bounds sessions.
4. A refused push only poisons the object (`durable.rs:309-313`); `session.rs:92-95` says the
   caller must tear the session down. It ends by its timers. A failed hand-over poisons a
   session whose downlink still runs (`durable.rs:353-356`).
5. A prologue that reaches nobody makes the pump return without an event
   (`durable.rs:700-703`); `supervise.rs:10-11` says a gone receiver ends the session at
   once. The idle timer ends it instead.
6. A sealed header that authenticates and is short inside is answered Incomplete
   (`vmess.rs:409`, `shadowsocks.rs:416`) and waits for bytes that cannot help; `HeaderAwaited`
   excepts such a client. A Shadowsocks variable header may be 64 KiB long, but the session
   waits for 8 KiB of header.
7. Payload that was decoded before a chunk that fails in the same delivery is dropped, and
   the end-of-stream marker of a VMess client is not passed on; nor does the server send one.

Preference and outbound:

8. Clearing the preference resets the timestamp and so the debounce
   (`durable.rs:925`, `outbound_state.rs:38-41`); a preference that keeps winning is never
   refreshed and expires all the same (`outbound_state.rs:132-134` beside 5-8).
9. A session that loaded an old preference and failed clears a newer one that another
   session recorded meanwhile (`outbound_state.rs:143`).
10. In NAT64 mode the address synthesised for one destination counts as a proxy win and is
    remembered (`durable.rs:905`), although `outbound_state.rs:21-23` records "only when the
    winner was a genuine proxy candidate". `RememberedRouteCarried` states what holds.
11. Sessions take outbound settings from documents the panel does not serve
    (`outbound.rs:254-266`), and `max_proxy_attempts` is not validated on a save.
12. The comment at `entry.rs:198-200` describes an older `connect.rs` (159-172).

WebSocket:

13. The 8 KiB that bound a header count the payload behind it: a complete header in a larger
    first frame is refused (`websocket.rs:117-122`). The bound is on bytes, not time: silence
    and empty frames hold the header loop for ever, although the comment there says the
    wait is bounded.
14. The uplink writes a frame in one `write_all` (`websocket.rs:201`); `relay/mod.rs:123-127` says
    one write above 64 KiB destroys the connection.
15. A client that leaves ends only the uplink: the write half is not shut down, and the task
    waits for the destination (`websocket.rs:193-207`).
16. A VMess or Shadowsocks client is refused only after its destination was dialled
    (`websocket.rs:139-157`); the advisor calls such nodes degraded but working, while a
    worker-served one does not work at all.

Dispatch and panel:

17. `Routes::shadowing_conflict` is called by tests only; `router.rs:63` says it is checked at
    startup. `NoPasswordNoPanel` and `OneOwnerPerPath` are conditional on it.
18. A password change invalidates every outstanding session (`auth.rs:16-17`) until an earlier
    password returns within a session's length, which revives its tokens. A logout clears
    the cookie and leaves the token valid. `OnlyLiveSessions` states what holds.
19. A malformed Shadowsocks entry yields no node rather than one that cannot connect
    (`store.rs:165-166`), but an entry with a key of the wrong length, or a malformed first UUID,
    does yield one: the node is derived from the first entry that is not blank, while
    `config/env.rs` passes over malformed ones.

Advice, translation and subscriptions:

20. `render` promises to fail only when the whole bundle cannot be produced (`bundle.rs:61-62`). A
    saved document may hold tags with white space around them (`api.rs:331-355`). Xray trims tags,
    so two that differ only in white space make it refuse all of them (`xray.rs:240`); mihomo checks
    the untrimmed name and renders the trimmed one, so a padded built-in name is counted and
    lost (`mihomo.rs:236`). `IncludedIsEmitted` excepts both, and both happen in the run.
21. `advisor.rs:130-134` says the toggle never changes which nodes render. It does in one place:
    the emitters complete the fingerprint a REALITY node lacks only with the toggle on
    (`conflicts.rs:335-337`), and `emit_one` always tries nodes with it off, so mihomo's full
    configuration skips such a node although its document would hold it.
22. The three emitters "previously disagreed" about the server name (`util.rs:47`) and share
    `effective_sni` now; only sing-box calls it (`singbox.rs:544`). For Shadowsocks with a server
    name other than its host they still disagree: the plugin of sing-box and mihomo presents the
    host (`singbox.rs:446`, `mihomo.rs:392`), Xray the server name (`xray.rs:445`).
    `SameNameEverywhere` excepts this, and is stated for nodes whose name, or else whose host, is
    a name: an empty name is written as it is by Xray (`xray.rs:447`), passed over for the host
    by the other two.
23. A `Bundle` discards the fields the emitters report as dropped.
24. Share links pin ALPN h2 for every TLS node, WebSocket included (`uri.rs:86`); `util.rs:18-36`
    forbids exactly this.
25. Xray's `dialerProxy` is written untrimmed beside trimmed tags; a sing-box `detour` may name
    a hop that was renamed or skipped; mihomo drops the hop; two nodes may name each other.
26. For mihomo, `emit_one` refuses a name that `emit_nodes` would rename.
27. Smaller ones: going from no security to TLS sets the server name to the address, and
    selecting the option already chosen resets it; 172.16.0.0/12 counts as public;
    `scMinPostsIntervalMs` is "0" where `xhttp/mod.rs:52` names another default.

## 6. Limits of the models

- Handlers are not cancelled. The source says that a disconnect of the client is enough to cancel a
  request (`durable.rs:26-28`), and that no socket is lost by it any more (`durable.rs:30-36`). What
  a POST that waits for room still holds of its run is lost with it, though its numbers count as
  released, and the chunk it parked with stays in the channel. `OrderUntilFirstWait` is not
  touched by that, since a handler waits before it can be cancelled; `OnceEachOnTheWay`,
  `UplinkBlocksWhenFull` and `WaitersAnswered` speak of handlers that run to their end.
- The key-value store is modelled as consistent: a read returns the last write or fails.
  The real store may also return older values.
- In XhttpSession, header parsing, body framing and dialing are nondeterministic outcomes; in
  Inbound, the dial succeeds and writes complete. No run composes the two.
- `uplink.next() == None` in the owner is left out: the object itself keeps a sender, so
  the channel is not closed while its owner runs.
- Frames of a WebSocket that arrive before its task listens (`handle` reads the settings first)
  are assumed to be kept by the runtime. A send is not bounded: `send_with_bytes` queues.
- Ciphers are a tag and a nonce: a sealed piece opens exactly under what it was sealed with.
  Opening a wrong piece fails at once, where the code finds out at the next tag.
- Ports, paths, service names, heartbeats, REALITY short ids and the number of multiplexed streams
  are left out of a node; percent-encoding, base64, QR matrices, and the layout and fixed parts
  of configurations are left out of what is rendered.
- Nodes the Worker does not serve come only from a save of a whole document; the start states of
  `panel_editor` hold two of them.
- The page posts one edit at a time. In the browser `renderEditor` (`public/panel.html:665`) writes
  to the connection that is open when the answer comes, which need not be the one edited.
- Diagnostics, log lines, page contents and response headers are left out.

## 7. What is left

1. XhttpSession: a step that cancels a waiting handler, with the chunks it loses; an abstract
   session of two ordered streams that close, which it implements on the downlink.
2. Inbound inside XhttpSession: chunks that carry cells instead of numbers, so that a
   poisoned decoder and the teardown meet.
3. The page's editor with two connections open; the capacity rules of a QR code.
