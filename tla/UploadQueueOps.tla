--------------------------- MODULE UploadQueueOps ---------------------------
(***************************************************************************)
(* The uplink reordering queue of XHTTP packet-up as a value:              *)
(* src/src/transport/xhttp/session.rs.  A queue is a record whose fields   *)
(* are those of struct UploadQueue; pushing a chunk gives a verdict, the   *)
(* chunks that became contiguous, and the queue afterwards.                *)
(*                                                                         *)
(* A chunk is any value; Size gives the number of bytes it holds.          *)
(***************************************************************************)
EXTENDS Naturals, Sequences, FiniteSets, FiniteSetsExt

CONSTANTS Chunk,          \* the chunk bodies a POST may carry
          Size,           \* Size[c]: bytes of chunk c
          MaxBuffered,    \* scMaxBufferedPosts
          MaxBufferBytes  \* MAX_BUFFER_BYTES

ASSUME SizeAssumption == Size \in [Chunk -> Nat]
ASSUME BudgetAssumption == MaxBuffered \in Nat /\ MaxBufferBytes \in Nat

\* A chunk further ahead than this cannot be legitimate.
MaxLookahead == 4 * MaxBuffered

EmptyQueue == [next_seq |-> 0, pending |-> <<>>, pending_bytes |-> 0]

(***************************************************************************)
(* The number that stays missing once the run of buffered chunks that      *)
(* starts at n has been drained: where the code's while loop stops.        *)
(***************************************************************************)
FirstGap(S, n) ==
    CHOOSE k \in {n} \cup {j + 1 : j \in S} :
        k >= n /\ k \notin S /\ \A j \in n..(k - 1) : j \in S

\* Bytes held by the chunks of f numbered in S.
BytesIn(f, S) == MapThenSumSet(LAMBDA s : Size[f[s]], S)

(***************************************************************************)
(* What push answers for chunk c numbered s, in the order the code decides *)
(* it: duplicates first, so that a retry is never refused; then the        *)
(* lookahead; then the chunk being waited for, which no budget applies to; *)
(* then the two budgets.                                                   *)
(***************************************************************************)
\* mutant: a buffered number is no longer recognised, its body is replaced
BugOverwritesPending(q, s) == s < q.next_seq

IsDuplicate(q, s) == s < q.next_seq \/ s \in DOMAIN q.pending

\* mutant: the count budget is checked before the duplicates
BugBudgetBeforeDuplicate(q, s, c) ==
    CASE Cardinality(DOMAIN q.pending) >= MaxBuffered /\ s # q.next_seq
              -> "TooManyBuffered"
      [] IsDuplicate(q, s) -> "duplicate"
      [] s = q.next_seq -> "ready"
      [] OTHER -> "buffered"

\* mutant: the budgets apply to the chunk being waited for too
BugBudgetBeforeFastPath(q, s, c) ==
    CASE IsDuplicate(q, s) -> "duplicate"
      [] ~IsDuplicate(q, s) /\ s > q.next_seq + MaxLookahead -> "SeqTooFarAhead"
      [] OTHER ->
           IF Cardinality(DOMAIN q.pending) >= MaxBuffered THEN "TooManyBuffered"
           ELSE IF s = q.next_seq THEN "ready" ELSE "buffered"

Verdict(q, s, c) ==
    CASE IsDuplicate(q, s) -> "duplicate"
      [] ~IsDuplicate(q, s) /\ s > q.next_seq + MaxLookahead -> "SeqTooFarAhead"
      [] ~IsDuplicate(q, s) /\ s = q.next_seq -> "ready"
      [] OTHER ->
           IF Cardinality(DOMAIN q.pending) >= MaxBuffered THEN "TooManyBuffered"
           ELSE IF q.pending_bytes + Size[c] > MaxBufferBytes
                THEN "BufferBytesExceeded"
                ELSE "buffered"

Accepts(q, s, c) == Verdict(q, s, c) \in {"duplicate", "ready", "buffered"}

\* The fast path: chunk c is handed through, then the run it unblocked.
DrainEnd(q) == FirstGap(DOMAIN q.pending, q.next_seq + 1)

\* mutant: only the chunk itself is handed through
BugHandsOnlyItself(q, c) == <<c>>

DrainedChunks(q, c) ==
    [i \in 1..(DrainEnd(q) - q.next_seq) |->
        IF i = 1 THEN c ELSE q.pending[q.next_seq + i - 1]]

\* mutant: the sequence number is advanced once too often
BugSkipsOne(q) ==
    LET rest == {s \in DOMAIN q.pending : s > DrainEnd(q)}
    IN  [next_seq      |-> DrainEnd(q) + 1,
         pending       |-> [s \in rest |-> q.pending[s]],
         pending_bytes |-> BytesIn(q.pending, rest)]

\* mutant: the chunks that leave the map are not subtracted from the total
BugKeepsBytes(q) ==
    LET rest == {s \in DOMAIN q.pending : s >= DrainEnd(q)}
    IN  [next_seq      |-> DrainEnd(q),
         pending       |-> [s \in rest |-> q.pending[s]],
         pending_bytes |-> q.pending_bytes]

AfterDrain(q) ==
    LET end  == DrainEnd(q)
        rest == {s \in DOMAIN q.pending : s >= end}
    IN  [next_seq      |-> end,
         pending       |-> [s \in rest |-> q.pending[s]],
         pending_bytes |-> q.pending_bytes
                             - BytesIn(q.pending, DOMAIN q.pending \ rest)]

AfterBuffering(q, s, c) ==
    [next_seq      |-> q.next_seq,
     pending       |-> [t \in DOMAIN q.pending \cup {s} |->
                           IF t = s THEN c ELSE q.pending[t]],
     pending_bytes |-> q.pending_bytes + Size[c]]

\* Accepted.ready, and the queue push leaves behind.
ReadyAfter(q, s, c) ==
    IF Verdict(q, s, c) = "ready" THEN DrainedChunks(q, c) ELSE <<>>

QueueAfter(q, s, c) ==
    CASE Verdict(q, s, c) = "ready"    -> AfterDrain(q)
      [] Verdict(q, s, c) = "buffered" -> AfterBuffering(q, s, c)
      [] OTHER                         -> q
=============================================================================
