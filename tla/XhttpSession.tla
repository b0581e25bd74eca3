---------------------------- MODULE XhttpSession ----------------------------
(***************************************************************************)
(* One XHTTP session: the Durable Object of                                *)
(* src/src/transport/xhttp/durable.rs, its POST and GET handlers, the task *)
(* that owns the socket, and the channels between them.                    *)
(*                                                                         *)
(* The object is single-threaded: a handler or the owner runs from one     *)
(* await to the next without interruption, so an action below is what one  *)
(* of them does between two awaits.  What another task may do while one is *)
(* suspended is the interleaving of the actions.                           *)
(*                                                                         *)
(* Chunks are identified with their sequence numbers: a retry carries the  *)
(* body of the POST it repeats.                                            *)
(***************************************************************************)
EXTENDS UploadQueueOps, SupervisorOps, Functions

CONSTANTS
    Posts,         \* the POST requests a client may send
    PostSeq,         \* PostSeq[p]: the sequence number in the path of p
    Gets,          \* the GET requests it may send
    UplinkDepth,   \* UPLINK_DEPTH
    DownDepth,     \* buffer of the downlink channel
    DownReads,     \* model bound: reads the destination may satisfy
    HasPrologue,   \* whether the protocol opens the downlink with a header
    BodyFramed     \* whether every client negotiates a body mode split() takes

ASSUME SessionAssumption ==
    /\ Chunk \subseteq Nat /\ PostSeq \in [Posts -> Chunk]
    /\ {HasPrologue, BodyFramed} \subseteq BOOLEAN
    /\ {UplinkDepth, DownDepth, DownReads} \subseteq Nat

VARIABLES
    \* the object
    queue, ownerStarted, downHeld, sharedDown, ended, poisoned,
    \* its requests
    post, get,
    \* the uplink channel: messages, parked senders, whether a receiver exists
    chan, parked, rxOpen,
    \* the downlink channel: messages (units of data each), parked pump
    down, downParked,
    \* the owner task
    phase, header, up, dn, buf, destOpen, events, cancel, sup, exit, reason,
    \* history
    owners,   \* owner tasks started
    taken,    \* chunks the owner received, in order
    waited,   \* whether a POST ever waited for room in the uplink channel
    read,     \* units read from the destination
    got       \* units the client received

objectVars == <<queue, ownerStarted, downHeld, sharedDown, ended, poisoned>>
uplinkVars == <<chan, parked, rxOpen>>
downVars   == <<down, downParked>>
pumpVars   == <<up, dn, buf, destOpen, events, cancel, sup, exit>>
ownerVars  == <<phase, header, reason, pumpVars>>
history    == <<owners, taken, waited, read, got>>
vars == <<objectVars, post, get, uplinkVars, downVars, ownerVars, history>>

Statuses == {"200", "400", "404", "413", "500"}

TypeOK ==
    /\ queue.next_seq \in Nat /\ DOMAIN queue.pending \subseteq Chunk
    /\ {ownerStarted, downHeld, sharedDown, ended, poisoned} \subseteq BOOLEAN
    /\ post \in [Posts -> [pc : {"idle", "body", "sending", "done"}, ready : Seq(Chunk),
                           status : Statuses \cup {"none"}]]
    /\ \A p \in Posts : post[p].pc = "done" <=> post[p].status # "none"
    /\ get \in [Gets -> {"idle", "streaming", "closed", "gone"} \cup Statuses]
    /\ chan \in Seq(Chunk) /\ parked \in Seq(Posts) /\ rxOpen \in BOOLEAN
    /\ down \in Seq(Nat) /\ downParked \in BOOLEAN
    /\ Len(down) <= DownDepth + 1 /\ (~downParked => Len(down) <= DownDepth)
    /\ phase \in {"none", "header", "join", "dial", "leading", "relay", "settling",
                  "done", "aborted"}
    /\ header \in {"none", "bad", "good"}
    /\ up \in {"wait", "write", "shutdown", "done"}
    /\ dn \in {"prologue", "read", "coalesce", "done", "returned"}
    /\ destOpen \in BOOLEAN /\ cancel \in BOOLEAN
    /\ events \in Seq(Event) /\ exit \in WindDown \cup {"none", "ReceiverGone"}
    /\ taken \in Seq(Chunk) /\ waited \in BOOLEAN
    /\ {owners, buf, read, got} \subseteq Nat

Init ==
    /\ queue = EmptyQueue /\ ownerStarted = FALSE /\ downHeld = TRUE
    /\ sharedDown = TRUE /\ ended = FALSE /\ poisoned = FALSE
    /\ post = [p \in Posts |-> [pc |-> "idle", ready |-> <<>>, status |-> "none"]]
    /\ get = [g \in Gets |-> "idle"]
    /\ chan = <<>> /\ parked = <<>> /\ rxOpen = FALSE
    /\ down = <<>> /\ downParked = FALSE
    /\ phase = "none" /\ header = "none" /\ reason = "none"
    /\ up = "wait" /\ dn = (IF HasPrologue THEN "prologue" ELSE "read")
    /\ buf = 0 /\ destOpen = TRUE /\ events = <<>> /\ cancel = FALSE
    /\ sup = NewSupervisor /\ exit = "none"
    /\ owners = 0 /\ taken = <<>> /\ waited = FALSE /\ read = 0 /\ got = 0
-----------------------------------------------------------------------------
(* POST: XhttpSession::uplink. *)

Answered(p, s) == [post EXCEPT ![p] = [pc |-> "done", ready |-> <<>>, status |-> s]]

\* Up to the await on the body: gone, poisoned, or a length that is refused.
PostArrives(p) ==
    /\ post[p].pc = "idle"
    /\ post' = CASE ended             -> Answered(p, "404")
                 [] ~ended /\ poisoned -> Answered(p, "400")
                 [] OTHER             -> [post EXCEPT ![p].pc = "body"]
    /\ UNCHANGED <<objectVars, get, uplinkVars, downVars, ownerVars, history>>

\* Content-Length is missing or too large, or reading the body fails.
PostBodyRefused(p) ==
    /\ post[p].pc = "body"
    /\ \E s \in {"400", "413", "500"} : post' = Answered(p, s)
    /\ UNCHANGED <<objectVars, get, uplinkVars, downVars, ownerVars, history>>

(***************************************************************************)
(* A sender of a bounded futures channel owns one slot beyond the shared   *)
(* buffer: it hands a message over even when the buffer is full, and is    *)
(* parked afterwards.  Every POST sends on a clone of its own.             *)
(***************************************************************************)
\* mutant: the hand-over does not wait between chunks
BugHandsAllOver == Cardinality(Chunk)

Room == IF Len(chan) >= UplinkDepth THEN 1 ELSE UplinkDepth + 1 - Len(chan)

\* The send loop, as far as it goes before it has to wait.
HandOver(p, ready, open) ==
    CASE ready = <<>> ->
           post' = Answered(p, "200") /\ UNCHANGED <<poisoned, chan, parked, waited>>
      [] ready # <<>> /\ ~open ->
           /\ post' = Answered(p, "400") /\ poisoned' = TRUE
           /\ UNCHANGED <<chan, parked, waited>>
      [] OTHER ->
           LET n == IF Len(ready) <= Room THEN Len(ready) ELSE Room
           IN  /\ chan' = chan \o SubSeq(ready, 1, n)
               /\ UNCHANGED poisoned
               /\ IF Len(chan') > UplinkDepth
                  THEN /\ post' = [post EXCEPT ![p] =
                              [pc |-> "sending", status |-> "none",
                               ready |-> SubSeq(ready, n + 1, Len(ready))]]
                       /\ parked' = Append(parked, p)
                       /\ waited' = TRUE
                  ELSE post' = Answered(p, "200") /\ UNCHANGED <<parked, waited>>

\* The queue refuses the chunk: the session is poisoned, the owner not told.
PostRefused(p) ==
    /\ post[p].pc = "body"
    /\ ~Accepts(queue, PostSeq[p], PostSeq[p])
    /\ poisoned' = TRUE
    /\ post' = Answered(p, "400")
    /\ UNCHANGED <<queue, ownerStarted, downHeld, sharedDown, ended, get, uplinkVars,
                   downVars, ownerVars, history>>

StartsOwner == ~ownerStarted

\* The body has arrived: reorder it, start the owner if there is none, send.
PostPushes(p) ==
    /\ post[p].pc = "body"
    /\ Accepts(queue, PostSeq[p], PostSeq[p])
    /\ queue' = QueueAfter(queue, PostSeq[p], PostSeq[p])
    /\ IF StartsOwner
       THEN /\ ownerStarted' = TRUE /\ rxOpen' = TRUE /\ owners' = owners + 1
            /\ phase' = "header"
       ELSE UNCHANGED <<ownerStarted, rxOpen, owners, phase>>
    /\ HandOver(p, ReadyAfter(queue, PostSeq[p], PostSeq[p]), rxOpen')
    /\ UNCHANGED <<downHeld, sharedDown, ended, get, downVars, header, reason, pumpVars,
                   taken, read, got>>

\* Room was made for a waiting POST, or the receiver went away.
PostResumes(p) ==
    /\ post[p].pc = "sending" /\ p \notin Range(parked)
    /\ HandOver(p, post[p].ready, rxOpen)
    /\ UNCHANGED <<queue, ownerStarted, downHeld, sharedDown, ended, get, rxOpen,
                   downVars, ownerVars, owners, taken, read, got>>

Post(p) == PostArrives(p) \/ PostBodyRefused(p) \/ PostRefused(p) \/ PostPushes(p)
              \/ PostResumes(p)
-----------------------------------------------------------------------------
(* GET: XhttpSession::downlink, and the client reading the stream. *)

GetArrives(g) ==
    /\ get[g] = "idle"
    /\ get' = [get EXCEPT ![g] = IF ended THEN "404"
                                 ELSE IF downHeld THEN "streaming" ELSE "400"]
    /\ downHeld' = (downHeld /\ ended)
    /\ UNCHANGED <<queue, ownerStarted, sharedDown, ended, poisoned, post, uplinkVars,
                   downVars, ownerVars, history>>

GetTakes(g) ==
    /\ get[g] = "streaming" /\ down # <<>>
    /\ got' = got + Head(down)
    /\ down' = Tail(down)
    /\ downParked' = FALSE
    /\ UNCHANGED <<objectVars, post, get, uplinkVars, ownerVars, owners, taken, waited,
                   read>>

\* The stream ends when it is drained and no sender is left.
GetCloses(g) ==
    /\ get[g] = "streaming" /\ down = <<>> /\ ~sharedDown
    /\ get' = [get EXCEPT ![g] = "closed"]
    /\ UNCHANGED <<objectVars, post, uplinkVars, downVars, ownerVars, history>>

\* The client goes away; the receiver is dropped with what it still held.
GetLeaves(g) ==
    /\ get[g] = "streaming"
    /\ get' = [get EXCEPT ![g] = "gone"]
    /\ down' = <<>> /\ downParked' = FALSE
    /\ UNCHANGED <<objectVars, post, uplinkVars, ownerVars, history>>

ReceiverAlive == downHeld \/ \E g \in Gets : get[g] = "streaming"
-----------------------------------------------------------------------------
(* The owner task up to its relays: own_session. *)

\* Receive from the uplink channel; one parked sender is let go for each message.
Take ==
    /\ chan # <<>>
    /\ chan' = Tail(chan)
    /\ taken' = Append(taken, Head(chan))
    /\ parked' = (IF parked = <<>> THEN parked ELSE Tail(parked))

\* mutant: the senders parked on a channel are not woken when it closes
BugLeavesWaiters == rxOpen' = FALSE /\ chan' = <<>> /\ UNCHANGED parked

DropReceiver == rxOpen' = FALSE /\ chan' = <<>> /\ parked' = <<>>

\* mutant: the finalizer does not release the shared downlink sender
BugKeepsSender(why) ==
    /\ phase' = "settling" /\ reason' = why
    /\ ended' = TRUE
    /\ UNCHANGED sharedDown

\* The finalizer, up to the await on the key-value store.
Finalize(why) ==
    /\ phase' = "settling" /\ reason' = why
    /\ ended' = TRUE
    /\ sharedDown' = FALSE

ObjectOfOwner == <<queue, ownerStarted, downHeld, poisoned>>

HeaderChunk ==
    /\ phase = "header" /\ Take
    /\ \E r \in {"none", "bad", "good"} :
          /\ header' = r
          /\ phase' = IF r = "none" THEN "header" ELSE "join"
    /\ UNCHANGED <<objectVars, post, get, rxOpen, downVars, reason, pumpVars, owners,
                   waited, read, got>>

\* A header deadline of HeaderPhase fires; a chunk that is there wins the race.
HeaderTimeout ==
    /\ phase = "header" /\ chan = <<>>
    /\ phase' = "join" /\ header' = "bad"
    /\ UNCHANGED <<objectVars, post, get, uplinkVars, downVars, reason, pumpVars, history>>

\* The settings and the last-known-good state are loaded too.
Refuse ==
    /\ phase = "join"
    /\ Finalize("Refused")
    /\ UNCHANGED <<ObjectOfOwner, post, get, uplinkVars, downVars, header, pumpVars,
                   history>>

StartDial ==
    /\ phase = "join" /\ header = "good"
    /\ phase' = "dial"
    /\ UNCHANGED <<objectVars, post, get, uplinkVars, downVars, header, reason, pumpVars,
                   history>>

\* The body mode cannot be framed: the task returns without its finalizer.
AbandonUnframed ==
    /\ phase = "join" /\ header = "good" /\ ~BodyFramed
    /\ phase' = "aborted"
    /\ DropReceiver
    /\ UNCHANGED <<objectVars, post, get, downVars, header, reason, pumpVars, history>>

DialFails ==
    /\ phase = "dial"
    /\ Finalize("DialFailed")
    /\ UNCHANGED <<ObjectOfOwner, post, get, uplinkVars, downVars, header, pumpVars,
                   history>>

Dialed ==
    /\ phase = "dial"
    /\ phase' = "leading"
    /\ UNCHANGED <<objectVars, post, get, uplinkVars, downVars, header, reason, pumpVars,
                   history>>

\* The payload that came with the header cannot be decoded or written.
LeadingFails ==
    /\ phase = "leading"
    /\ Finalize("RelaysDone")
    /\ UNCHANGED <<ObjectOfOwner, post, get, uplinkVars, downVars, header, pumpVars,
                   history>>

LeadingWritten ==
    /\ phase = "leading"
    /\ phase' = "relay"
    /\ UNCHANGED <<objectVars, post, get, uplinkVars, downVars, header, reason, pumpVars,
                   history>>

\* The last-known-good write and the diagnostics are done; the task returns.
Settled ==
    /\ phase = "settling"
    /\ phase' = "done"
    /\ DropReceiver
    /\ UNCHANGED <<objectVars, post, get, downVars, header, reason, pumpVars, history>>

Establish == HeaderChunk \/ HeaderTimeout \/ Refuse \/ StartDial \/ AbandonUnframed
                \/ DialFails \/ Dialed \/ LeadingFails \/ LeadingWritten \/ Settled
-----------------------------------------------------------------------------
(* The upstream pump. *)

UpUnchanged == <<objectVars, post, get, downVars, phase, header, reason, dn, buf,
                 destOpen, cancel, sup, exit, owners, waited, read, got>>

\* A chunk is decoded: to something to write, to nothing yet, or it is corrupt.
UpTakes ==
    /\ phase = "relay" /\ up = "wait" /\ Take
    /\ \/ up' \in {"wait", "write"} /\ UNCHANGED events
       \/ up' = "shutdown" /\ events' = Append(events, "Poisoned")
    /\ UNCHANGED <<UpUnchanged, rxOpen>>

UpWrites ==
    /\ phase = "relay" /\ up = "write"
    /\ \/ up' = "wait" /\ events' = Append(events, "UpBytes")
       \/ up' = "shutdown" /\ UNCHANGED events
    /\ UNCHANGED <<UpUnchanged, uplinkVars, taken>>

\* Supervised close; the select looks at the uplink first.
UpCancelled ==
    /\ phase = "relay" /\ up = "wait" /\ cancel /\ chan = <<>>
    /\ up' = "shutdown"
    /\ UNCHANGED <<UpUnchanged, uplinkVars, events, taken>>

\* The write half is shut down; the pump ends and drops the uplink receiver.
UpEnds ==
    /\ phase = "relay" /\ up = "shutdown"
    /\ up' = "done"
    /\ events' = Append(events, "UpDone")
    /\ DropReceiver
    /\ UNCHANGED <<UpUnchanged, taken>>

Upstream == UpTakes \/ UpWrites \/ UpCancelled \/ UpEnds
-----------------------------------------------------------------------------
(* The downlink pump. *)

DnUnchanged == <<objectVars, post, get, uplinkVars, phase, header, reason, up, cancel,
                 sup, owners, taken, waited, got>>

\* push_down to a receiver that exists; a full channel parks the pump.
PushDown(units) ==
    /\ down' = Append(down, units)
    /\ downParked' = (Len(down') > DownDepth)

DnRuns == phase = "relay" /\ ~downParked

DnPrologue ==
    /\ DnRuns /\ dn = "prologue" /\ ReceiverAlive
    /\ PushDown(0) /\ dn' = "read"
    /\ UNCHANGED <<DnUnchanged, buf, destOpen, events, exit, read>>

\* The prologue reaches nobody: the pump returns without an event.
DnPrologueFails ==
    /\ DnRuns /\ dn = "prologue" /\ ~ReceiverAlive
    /\ dn' = "returned"
    /\ UNCHANGED <<DnUnchanged, downVars, buf, destOpen, events, exit, read>>

\* A read, the first of a train or one within the coalescing window.
DnReads ==
    /\ DnRuns /\ dn \in {"read", "coalesce"} /\ destOpen /\ read < DownReads
    /\ read' = read + 1 /\ buf' = buf + 1
    /\ events' = Append(events, "DownBytes")
    /\ dn' = "coalesce"
    /\ UNCHANGED <<DnUnchanged, downVars, destOpen, exit>>

\* The destination closes its half; nothing is read from it any more.
DestCloses ==
    /\ phase = "relay" /\ destOpen
    /\ destOpen' = FALSE
    /\ UNCHANGED <<DnUnchanged, downVars, dn, buf, events, exit, read>>

DnFinishes(why) ==
    /\ dn' = "done" /\ exit' = why
    /\ events' = Append(events, why)

\* mutant: an end of stream inside the window leaves without flushing
BugDropsTail ==
    /\ DnRuns /\ dn \in {"read", "coalesce"} /\ ~destOpen
    /\ \E why \in {"Eof", "ReadError"} : DnFinishes(why)
    /\ UNCHANGED <<DnUnchanged, downVars, buf, destOpen, read>>

\* End of stream or read error with nothing left to flush.
DnEnds ==
    /\ DnRuns /\ dn = "read" /\ ~destOpen
    /\ \E why \in {"Eof", "ReadError"} : DnFinishes(why)
    /\ UNCHANGED <<DnUnchanged, downVars, buf, destOpen, read>>

\* The window closes, the buffer is full or the stream ended: encode and push.
DnShips ==
    /\ DnRuns /\ dn = "coalesce" /\ ReceiverAlive
    /\ PushDown(buf) /\ buf' = 0 /\ dn' = "read"
    /\ UNCHANGED <<DnUnchanged, destOpen, events, exit, read>>

DnReceiverGone ==
    /\ DnRuns /\ dn = "coalesce" /\ ~ReceiverAlive
    /\ DnFinishes("ReceiverGone")
    /\ UNCHANGED <<DnUnchanged, downVars, buf, destOpen, read>>

DnEncodeFails ==
    /\ DnRuns /\ dn = "coalesce"
    /\ DnFinishes("EncodeFailed")
    /\ UNCHANGED <<DnUnchanged, downVars, buf, destOpen, read>>

Downlink == DnPrologue \/ DnPrologueFails \/ DnReads \/ DnEnds \/ DnShips
               \/ DnReceiverGone \/ DnEncodeFails
-----------------------------------------------------------------------------
(* The supervisor loop; it polls the pumps before it looks at an event. *)

BothPumpsDone == up = "done" /\ dn \in {"done", "returned"}

SupUnchanged == <<ObjectOfOwner, post, get, downVars, header, up, dn, buf, destOpen,
                  exit, history>>

\* Leaving the loop drops both pumps, and with them the uplink receiver.
EndSession(why) == Finalize(why) /\ DropReceiver

Obey(e, why) ==
    /\ sup' = After(sup, e)
    /\ CASE Decision(sup, e) = "EndSession"    -> EndSession(why) /\ UNCHANGED cancel
         [] Decision(sup, e) = "CloseUpstream" ->
               cancel' = TRUE /\ UNCHANGED <<phase, reason, ended, sharedDown, uplinkVars>>
         [] OTHER ->
               UNCHANGED <<cancel, phase, reason, ended, sharedDown, uplinkVars>>

\* terminal_reason
TerminalReason(e) == IF e \in {"ReceiverGone", "Poisoned"} THEN e ELSE "RelaysDone"

SupEvent ==
    /\ phase = "relay" /\ ~BothPumpsDone /\ events # <<>>
    /\ events' = Tail(events)
    /\ Obey(Head(events), TerminalReason(Head(events)))
    /\ UNCHANGED SupUnchanged

\* One second passed without an event.
SupTick ==
    /\ phase = "relay" /\ ~BothPumpsDone /\ events = <<>>
    /\ Obey("TimerTick", "IdleTimerFired")
    /\ UNCHANGED <<SupUnchanged, events>>

RelaysDone ==
    /\ phase = "relay" /\ BothPumpsDone
    /\ EndSession("RelaysDone")
    /\ UNCHANGED <<SupUnchanged, events, cancel, sup>>

Supervise == SupEvent \/ SupTick \/ RelaysDone
-----------------------------------------------------------------------------
Next ==
    \/ \E p \in Posts : Post(p)
    \/ \E g \in Gets : GetArrives(g) \/ GetTakes(g) \/ GetCloses(g) \/ GetLeaves(g)
    \/ Establish \/ Upstream \/ Downlink \/ DestCloses \/ Supervise

(***************************************************************************)
(* The runtime polls a task whose await is over, timers fire, and the      *)
(* key-value store and a dial answer (a dial has its own timeout).  The    *)
(* leading payload is at most a header buffer and fits the send buffer of  *)
(* a fresh socket.  A client need not send or stay, but one that stays     *)
(* reads its stream; a destination need not read, send or close.           *)
(***************************************************************************)
Fairness ==
    /\ \A p \in Posts : WF_vars(PostPushes(p) \/ PostRefused(p)) /\ WF_vars(PostResumes(p))
    /\ \A g \in Gets : WF_vars(GetCloses(g)) /\ WF_vars(GetTakes(g))
    /\ WF_vars(HeaderChunk \/ HeaderTimeout) /\ WF_vars(Refuse \/ StartDial \/ AbandonUnframed)
    /\ WF_vars(DialFails \/ Dialed) /\ WF_vars(LeadingFails \/ LeadingWritten)
    /\ WF_vars(Settled)
    /\ WF_vars(SupEvent) /\ WF_vars(SupTick) /\ WF_vars(RelaysDone)

Spec == Init /\ [][Next]_vars /\ Fairness
-----------------------------------------------------------------------------
(***************************************************************************)
(* session.rs: the stream handed to the outbound socket must be "exactly   *)
(* the stream the client wrote, in order, once each".                      *)
(***************************************************************************)
InOrder(s) == \A i \in DOMAIN s : s[i] = i - 1

OwnerSeesStream == InOrder(taken \o chan)

(***************************************************************************)
(* What the code does guarantee to a client that sends its POSTs           *)
(* concurrently: the order is kept until some POST has had to wait for     *)
(* room, and up to then nothing delivered is missing from the channel.     *)
(***************************************************************************)
OrderUntilFirstWait ==
    ~waited => /\ OwnerSeesStream
               /\ rxOpen => Len(taken \o chan) = queue.next_seq

(***************************************************************************)
(* However POSTs are retried, overtake each other or wait, there is one    *)
(* owner to hand to, no chunk is handed over twice, and while the owner    *)
(* listens every chunk the queue has released is with the owner, in the    *)
(* channel, or in the hands of one waiting POST.                           *)
(***************************************************************************)
OnceEachOnTheWay ==
    LET passed == taken \o chan
        waiting(p) == Range(post[p].ready)
    IN  /\ owners <= 1
        /\ \A i, j \in DOMAIN passed : passed[i] = passed[j] => i = j
        /\ \A p \in Posts : waiting(p) \cap Range(passed) = {}
        /\ \A p, q \in Posts : p # q => waiting(p) \cap waiting(q) = {}
        /\ rxOpen => Range(passed) \cup UNION {waiting(p) : p \in Posts}
                        = 0..(queue.next_seq - 1)

(***************************************************************************)
(* durable.rs, on UPLINK_DEPTH: "once the owner task is this far behind,   *)
(* uplink POSTs block rather than queueing more memory".  What the channel *)
(* holds beyond its depth is one chunk for each POST that is blocked.      *)
(***************************************************************************)
UplinkBlocksWhenFull == Len(chan) <= UplinkDepth + Len(parked)

(***************************************************************************)
(* A download that the destination finished is delivered whole: when the   *)
(* stream has ended normally, the client holds everything that was read,   *)
(* also what was read in the window the end of stream fell into.           *)
(***************************************************************************)
EofDeliversAll ==
    \A g \in Gets :
       get[g] = "closed" /\ reason = "RelaysDone" /\ exit \in {"Eof", "ReadError"}
          => got = read

(***************************************************************************)
(* Once traffic stops (the model bounds it: finitely many POSTs, DownReads *)
(* reads) a session whose owner was started ends, also when the            *)
(* destination neither reads nor closes; unless the client chose a body    *)
(* mode that cannot be framed.                                             *)
(***************************************************************************)
OwnerEnds == ownerStarted ~> ended \/ phase = "aborted"

(***************************************************************************)
(* A client that stays on its downlink sees the end of it once an owner    *)
(* was started: no teardown leaves the stream open, except the return that *)
(* skips the finalizer.                                                    *)
(***************************************************************************)
StreamCloses ==
    \A g \in Gets :
       get[g] = "streaming" /\ ownerStarted
          ~> get[g] \in {"closed", "gone"} \/ phase = "aborted"

(***************************************************************************)
(* A POST that waits for room is answered in the end, whether the owner    *)
(* catches up or goes away.                                                *)
(***************************************************************************)
WaitersAnswered == \A p \in Posts : post[p].pc = "sending" ~> post[p].pc = "done"
=============================================================================
