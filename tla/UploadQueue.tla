----------------------------- MODULE UploadQueue -----------------------------
(***************************************************************************)
(* struct UploadQueue (src/src/transport/xhttp/session.rs) as a state      *)
(* machine: any number of POSTs push chunks in any order, any number of    *)
(* times, and with a different body on a retry.  Pushing goes on after an  *)
(* error, because a POST that had already passed the poisoned check of     *)
(* XhttpSession::uplink still pushes when its body arrives.                *)
(***************************************************************************)
EXTENDS UploadQueueOps

CONSTANT MaxSeq   \* sequence numbers are 0..MaxSeq: MAX_SEQ - 1 of wire.rs

ASSUME MaxSeqAssumption == MaxSeq \in Nat

VARIABLES queue,      \* the UploadQueue
          accepted,   \* history: the first body accepted for each number
          delivered   \* history: every chunk returned as ready, in order

vars == <<queue, accepted, delivered>>

Seqs == 0..MaxSeq

TypeOK ==
    /\ queue.next_seq \in 0..(MaxSeq + 1)
    /\ DOMAIN queue = {"next_seq", "pending", "pending_bytes"}
    /\ IsFiniteSet(DOMAIN queue.pending)
    /\ DOMAIN queue.pending \subseteq Seqs
    /\ queue.pending \in [DOMAIN queue.pending -> Chunk]
    /\ DOMAIN accepted \subseteq Seqs
    /\ accepted \in [DOMAIN accepted -> Chunk]
    /\ delivered \in Seq(Chunk)

Init ==
    /\ queue = EmptyQueue
    /\ accepted = <<>>
    /\ delivered = <<>>

Remember(s, c) ==
    accepted' = [t \in DOMAIN accepted \cup {s} |->
                    IF t \in DOMAIN accepted THEN accepted[t] ELSE c]

\* A chunk the queue takes: handed through, or held for its predecessors.
PushNew(s, c) ==
    /\ Verdict(queue, s, c) \in {"ready", "buffered"}
    /\ queue' = QueueAfter(queue, s, c)
    /\ delivered' = delivered \o ReadyAfter(queue, s, c)
    /\ Remember(s, c)

\* A duplicate answered 200, or a chunk refused: the queue is left alone.
PushDropped(s, c) ==
    /\ Verdict(queue, s, c) \notin {"ready", "buffered"}
    /\ queue' = QueueAfter(queue, s, c)
    /\ delivered' = delivered \o ReadyAfter(queue, s, c)
    /\ UNCHANGED accepted

Next == \E s \in Seqs, c \in Chunk : PushNew(s, c) \/ PushDropped(s, c)

Spec == Init /\ [][Next]_vars
-----------------------------------------------------------------------------
(***************************************************************************)
(* "Exactly the stream the client wrote, in order, once each"              *)
(* (session.rs, module comment): the delivered sequence is the accepted    *)
(* chunks 0, 1, 2, ... with the first body accepted for each number, and   *)
(* it holds nothing back that is contiguous.                               *)
(***************************************************************************)
Stream == INSTANCE OrderedStream WITH Seqs <- Seqs, Chunk <- Chunk, accepted <- accepted,
                                     delivered <- delivered

InOrderOnceEach ==
    /\ queue.next_seq = Len(delivered)
    /\ Stream!LongestPrefix(delivered, accepted)

(***************************************************************************)
(* What is buffered is exactly what was accepted and not yet delivered: no *)
(* chunk answered 200 is dropped by the queue.                             *)
(***************************************************************************)
NothingLost ==
    /\ DOMAIN accepted = 0..(queue.next_seq - 1) \cup DOMAIN queue.pending
    /\ \A s \in DOMAIN queue.pending : queue.pending[s] = accepted[s]

(***************************************************************************)
(* The two budgets that keep one authenticated peer from exhausting the    *)
(* isolate: the chunks buffered are never more than MaxBuffered, their     *)
(* bytes never more than MaxBufferBytes, and the running total the second  *)
(* budget is decided on is what is buffered, whatever drains and retries   *)
(* added to it and took from it. And the span the lookahead allows:        *)
(* buffered chunks lie beyond the one being waited for and at most         *)
(* MaxLookahead beyond it.                                                 *)
(***************************************************************************)
WithinBudget ==
    /\ Cardinality(DOMAIN queue.pending) <= MaxBuffered
    /\ queue.pending_bytes = BytesIn(queue.pending, DOMAIN queue.pending)
    /\ queue.pending_bytes <= MaxBufferBytes
    /\ \A s \in DOMAIN queue.pending :
          s > queue.next_seq /\ s <= queue.next_seq + MaxLookahead

(***************************************************************************)
(* A client that retries a POST it never saw acknowledged is correct, and  *)
(* must be answered 200: no state refuses a number already accepted, full  *)
(* buffers and other bodies included.                                      *)
(***************************************************************************)
RetryNeverRefused ==
    \A s \in DOMAIN accepted, c \in Chunk : Accepts(queue, s, c)

(***************************************************************************)
(* A full buffer never blocks the chunk that would empty it: the missing   *)
(* predecessor is accepted in every state, whatever its size, and          *)
(* delivers itself and everything it unblocks.                             *)
(***************************************************************************)
GapCanBeFilled ==
    \A c \in Chunk :
       /\ Verdict(queue, queue.next_seq, c) = "ready"
       /\ (queue.next_seq + 1) \in DOMAIN queue.pending
            => Len(ReadyAfter(queue, queue.next_seq, c)) > 1

(***************************************************************************)
(* The queue implements the abstract ordered stream.                       *)
(***************************************************************************)
ImplementsOrderedStream == Stream!Spec
==============================================================================
