------------------------- MODULE XhttpSessionProofs -------------------------
(***************************************************************************)
(* Proofs about XhttpSession, for every set of POSTs and GETs, every       *)
(* numbering of the POSTs, every depth of the two channels and every       *)
(* budget of the queue.                                                    *)
(*                                                                         *)
(* The argument has three layers.  Types are inductive together with what  *)
(* the queue holds (QueueOK), because the run a chunk unblocks has to be a *)
(* sequence of chunks.  The uplink rests on one notion, Distributed: every *)
(* number the queue has released is in exactly one place, which is with    *)
(* the owner, in the channel, or in the hands of one POST; releasing a     *)
(* run, handing over the front of it and dropping the receiver each keep   *)
(* it (the lemmas Release, Transfer and DropRun). The downlink rests on a  *)
(* running total: what the client holds, what is on its way to it and what *)
(* the pump has not sent yet add up to what was read, as long as the       *)
(* client has not left.                                                    *)
(***************************************************************************)
EXTENDS XhttpSession, Integers, FiniteSetTheorems, SequenceTheorems, TLAPS

-----------------------------------------------------------------------------
(* The invariant.                                                          *)

\* The queue holds numbers it has not passed, each with its own chunk.
QueueOK ==
    /\ IsFiniteSet(DOMAIN queue.pending)
    /\ \A s \in DOMAIN queue.pending : s > queue.next_seq /\ queue.pending[s] = s

Types == TypeOK /\ QueueOK

\* Nothing has happened before the owner is started, and it is started once.
OwnerOK ==
    /\ owners = IF ownerStarted THEN 1 ELSE 0
    /\ phase = "none" <=> ~ownerStarted
    /\ ~ownerStarted => /\ queue = EmptyQueue /\ taken = <<>> /\ ~rxOpen /\ ~waited
                        /\ \A p \in Posts : post[p].ready = <<>>
    /\ ~rxOpen => chan = <<>>
    /\ \A p \in Posts : post[p].pc # "sending" => post[p].ready = <<>>

Injective(s) == \A i, j \in DOMAIN s : s[i] = s[j] => i = j
Passed == taken \o chan
Waiting == [p \in Posts |-> post[p].ready]

\* What the queue has released so far, the numbers below next, is somewhere
\* once: s is with the owner or in the channel, w[p] in the hands of p; all
\* of it while the channel is open.
Distributed(s, w, next, open) ==
    /\ Injective(s) /\ Range(s) \subseteq 0..(next - 1)
    /\ \A p \in Posts :
          /\ Injective(w[p]) /\ Range(w[p]) \subseteq 0..(next - 1)
          /\ Range(w[p]) \cap Range(s) = {}
          /\ \A q \in Posts : p # q => Range(w[p]) \cap Range(w[q]) = {}
    /\ open => 0..(next - 1) \subseteq Range(s) \cup UNION {Range(w[p]) : p \in Posts}

OnTheWay == Distributed(Passed, Waiting, queue.next_seq, rxOpen)

\* Until a POST had to wait, none is in the middle of its run.
NoneWaits == ~waited => parked = <<>> /\ \A p \in Posts : post[p].pc # "sending"

UplinkInv == OwnerOK /\ OnTheWay /\ NoneWaits /\ OrderUntilFirstWait
                /\ UplinkBlocksWhenFull

Receives(g) == get[g] \in {"streaming", "closed", "gone"}

\* The receiver of the downlink is with the object or with one GET.
ReceiverOK ==
    /\ downHeld => \A g \in Gets : ~Receives(g)
    /\ \A g, h \in Gets : Receives(g) /\ Receives(h) => g = h

\* The finalizer has run when the object lets go of its sender.
EndOK ==
    /\ ~sharedDown => phase \in {"settling", "done"}
    /\ reason # "none" => phase \in {"settling", "done"}
    /\ \A g \in Gets : get[g] = "closed" => ~sharedDown /\ down = <<>>

\* The pump ends normally only with nothing left to send.
PumpOK ==
    /\ dn \in {"prologue", "read", "returned"} => buf = 0
    /\ exit \in {"Eof", "ReadError"} => dn = "done" /\ buf = 0

\* total[i]: what the client holds once it has taken i more messages.
RunningTotal(total) ==
    /\ total[0] = got
    /\ \A i \in 1..Len(down) : total[i] = total[i - 1] + down[i]
    /\ total[Len(down)] + buf = read

\* As long as the client stayed, what was read is with it, on its way or in
\* the pump.
Accounted ==
    (\A g \in Gets : get[g] # "gone") =>
        \E total \in [0..Len(down) -> Nat] : RunningTotal(total)

DownInv == ReceiverOK /\ EndOK /\ PumpOK /\ Accounted

IInv == Types /\ UplinkInv /\ DownInv
-----------------------------------------------------------------------------
(* The queue. *)

(***************************************************************************)
(* A nonempty set of naturals has a least element.                         *)
(***************************************************************************)
LEMMA LeastNumber ==
  ASSUME NEW T \in SUBSET Nat, T # {}
  PROVE  \E x \in T : \A y \in T : x <= y
<1>1. PICK x \in T : \A y \in T : <<y, x>> \notin OpToRel(<, Nat)
  BY WFMin, NatLessThanWellFounded, Zenon
<1>2. \A y \in T : ~(y < x)
  BY <1>1, Zenon DEF OpToRel
<1>. QED
  BY <1>2

(***************************************************************************)
(* The drain loop of push stops at the first number at or after n that is  *)
(* not buffered: a finite set cannot hold the whole tail of the numbers.   *)
(***************************************************************************)
LEMMA DrainStops ==
  ASSUME NEW S \in SUBSET Nat, IsFiniteSet(S), NEW n \in Nat
  PROVE  /\ FirstGap(S, n) \in Nat /\ FirstGap(S, n) >= n
         /\ FirstGap(S, n) \notin S
         /\ \A j \in n..(FirstGap(S, n) - 1) : j \in S
<1>. DEFINE IsGap(i) == i >= n /\ i \notin S /\ \A j \in n..(i - 1) : j \in S
<1>1. \E k \in Nat : k >= n /\ k \notin S
  <2>1. SUFFICES ASSUME \A k \in Nat : k >= n => k \in S
                 PROVE  FALSE
    OBVIOUS
  <2>2. n..(n + Cardinality(S)) \subseteq S
    BY <2>1, FS_CardinalityType
  <2>3. Cardinality(n..(n + Cardinality(S))) <= Cardinality(S)
    BY <2>2, FS_Subset
  <2>4. Cardinality(n..(n + Cardinality(S))) = Cardinality(S) + 1
    BY FS_CardinalityType, FS_Interval
  <2>. QED
    BY <2>3, <2>4, FS_CardinalityType
<1>2. PICK k \in {i \in Nat : i >= n /\ i \notin S} :
             \A j \in {i \in Nat : i >= n /\ i \notin S} : k <= j
  BY <1>1, LeastNumber
<1>3. IsGap(k)
  BY <1>2
<1>4. k \in {n} \cup {j + 1 : j \in S}
  <2>1. CASE k = n
    BY <2>1
  <2>2. CASE k # n
    <3>1. k - 1 \in n..(k - 1)
      BY <1>2, <2>2
    <3>2. k - 1 \in S /\ k = (k - 1) + 1
      BY <1>2, <1>3, <3>1
    <3>. QED
      BY <3>2
  <2>. QED
    BY <2>1, <2>2
<1>5. FirstGap(S, n) \in {n} \cup {j + 1 : j \in S} /\ IsGap(FirstGap(S, n))
  BY <1>3, <1>4 DEF FirstGap
<1>. QED
  BY <1>5

(***************************************************************************)
(* What an accepted POST does to the queue: it releases the numbers from   *)
(* the old next_seq up to the new one, in order, none if it was buffered   *)
(* or a duplicate.                                                         *)
(***************************************************************************)
LEMMA Pushed ==
  ASSUME Types, NEW s \in Chunk, queue' = QueueAfter(queue, s, s)
  PROVE  LET ready == ReadyAfter(queue, s, s)
         IN  /\ queue'.next_seq \in Nat /\ queue'.next_seq >= queue.next_seq
             /\ DOMAIN queue'.pending \subseteq Chunk /\ QueueOK'
             /\ ready \in Seq(Chunk) /\ Len(ready) = queue'.next_seq - queue.next_seq
             /\ \A i \in 1..Len(ready) : ready[i] = queue.next_seq + i - 1
<1>. DEFINE n == queue.next_seq
            P == DOMAIN queue.pending
            end == DrainEnd(queue)
            ready == ReadyAfter(queue, s, s)
<1>1. /\ n \in Nat /\ P \subseteq Chunk /\ P \in SUBSET Nat /\ s \in Nat /\ IsFiniteSet(P)
      /\ \A t \in P : t > n /\ queue.pending[t] = t
  BY SessionAssumption DEF Types, TypeOK, QueueOK
<1>2. CASE Verdict(queue, s, s) = "ready"
  <2>1. s = n
    BY <1>2 DEF Verdict
  <2>2. /\ end \in Nat /\ end >= n + 1 /\ end \notin P
        /\ \A j \in (n + 1)..(end - 1) : j \in P
    BY <1>1, DrainStops DEF DrainEnd
  <2>3. /\ queue'.next_seq = end
        /\ queue'.pending = [t \in {u \in P : u >= end} |-> queue.pending[t]]
        /\ ready = [i \in 1..(end - n) |-> IF i = 1 THEN s ELSE queue.pending[n + i - 1]]
    BY <1>2 DEF QueueAfter, AfterDrain, ReadyAfter, DrainedChunks
  <2>. HIDE DEF end, ready
  <2>4. \A i \in 1..(end - n) : ready[i] = n + i - 1 /\ ready[i] \in Chunk
    <3>. SUFFICES ASSUME NEW i \in 1..(end - n), i # 1
                  PROVE  ready[i] = n + i - 1 /\ ready[i] \in Chunk
      BY <1>1, <2>1, <2>2, <2>3
    <3>1. n + i - 1 \in (n + 1)..(end - 1)
      BY <1>1, <2>2
    <3>. QED
      BY <1>1, <2>2, <2>3, <3>1
  <2>5. ready \in [1..(end - n) -> Chunk]
    BY <2>3, <2>4
  <2>6. ready \in Seq(Chunk) /\ Len(ready) = end - n
    BY <1>1, <2>2, <2>5, SeqDef, SMTT(30)
  <2>7. QueueOK' /\ DOMAIN queue'.pending \subseteq Chunk
    <3>1. DOMAIN queue'.pending = {u \in P : u >= end}
      BY <2>3
    <3>2. IsFiniteSet({u \in P : u >= end})
      BY <1>1, FS_Subset
    <3>. QED
      BY <1>1, <2>2, <2>3, <3>1, <3>2 DEF QueueOK
  <2>8. /\ queue'.next_seq \in Nat /\ queue'.next_seq >= n
        /\ Len(ready) = queue'.next_seq - n
        /\ \A i \in 1..Len(ready) : ready[i] = n + i - 1
    <3>1. end - n \in Nat /\ Len(ready) = end - n /\ queue'.next_seq = end
      BY <1>1, <2>2, <2>3, <2>6
    <3>. QED
      BY <1>1, <2>2, <2>4, <3>1
  <2>. QED
    BY <2>6, <2>7, <2>8 DEF ready
<1>3. CASE Verdict(queue, s, s) = "buffered"
  <2>1. s > n
    BY <1>1, <1>3 DEF Verdict, IsDuplicate
  <2>2. /\ queue'.next_seq = n /\ ready = <<>>
        /\ queue'.pending = [t \in P \cup {s} |-> IF t = s THEN s ELSE queue.pending[t]]
    BY <1>3 DEF QueueAfter, AfterBuffering, ReadyAfter
  <2>3. IsFiniteSet(P \cup {s})
    BY <1>1, FS_AddElement
  <2>. QED
    BY <1>1, <2>1, <2>2, <2>3 DEF QueueOK
<1>4. CASE Verdict(queue, s, s) \notin {"ready", "buffered"}
  <2>1. queue' = queue /\ ready = <<>>
    BY <1>4 DEF QueueAfter, ReadyAfter
  <2>. QED
    BY <1>1, <2>1 DEF QueueOK
<1>. QED
  BY <1>2, <1>3, <1>4
-----------------------------------------------------------------------------
(* Sequences without repetition, and where their elements are. *)

(***************************************************************************)
(* A sequence is the front of it followed by the rest of it: what the send *)
(* loop of a POST hands over, and what it still holds.                     *)
(***************************************************************************)
LEMMA FrontAndRest ==
  ASSUME NEW S, NEW r \in Seq(S), NEW n \in 0..Len(r)
  PROVE  /\ SubSeq(r, 1, n) \in Seq(S) /\ SubSeq(r, n + 1, Len(r)) \in Seq(S)
         /\ Len(SubSeq(r, 1, n)) = n /\ Len(SubSeq(r, n + 1, Len(r))) = Len(r) - n
         /\ r = SubSeq(r, 1, n) \o SubSeq(r, n + 1, Len(r))
<1>. DEFINE a == SubSeq(r, 1, n)
            b == SubSeq(r, n + 1, Len(r))
<1>1. /\ a \in Seq(S) /\ Len(a) = n
      /\ \A i \in 1..n : a[i] = r[i]
  BY SubSeqProperties
<1>2. b \in Seq(S) /\ Len(b) = Len(r) - n /\ \A i \in 1..(Len(r) - n) : b[i] = r[n + i]
  BY SubSeqProperties
<1>. HIDE DEF a, b
<1>3. Len(a \o b) = Len(r) /\ \A i \in 1..Len(r) : (a \o b)[i] = r[i]
  <2>1. \A i \in 1..Len(r) : i > n => b[i - n] = r[n + (i - n)]
    BY <1>2
  <2>2. /\ Len(a \o b) = Len(a) + Len(b)
        /\ \A i \in 1..(Len(a) + Len(b)) :
              (a \o b)[i] = IF i <= Len(a) THEN a[i] ELSE b[i - Len(a)]
    BY <1>1, <1>2, ConcatProperties
  <2>3. Len(a) + Len(b) = Len(r) /\ Len(r) \in Nat /\ n \in Nat
    BY <1>1, <1>2
  <2>. QED
    BY <1>1, <2>1, <2>2, <2>3
<1>4. r = a \o b
  BY <1>1, <1>2, <1>3, ConcatProperties, SeqEqual
<1>. QED
  BY <1>1, <1>2, <1>4 DEF a, b

(***************************************************************************)
(* A concatenation repeats nothing when its parts do not and are disjoint. *)
(***************************************************************************)
LEMMA InjectiveConcat ==
  ASSUME NEW S, NEW s \in Seq(S), NEW t \in Seq(S)
  PROVE  Injective(s \o t) <=> /\ Injective(s) /\ Injective(t)
                               /\ Range(s) \cap Range(t) = {}
<1>1. /\ DOMAIN s = 1..Len(s) /\ DOMAIN t = 1..Len(t)
      /\ DOMAIN (s \o t) = 1..(Len(s) + Len(t))
      /\ \A i \in 1..Len(s) : (s \o t)[i] = s[i]
      /\ \A i \in 1..Len(t) : (s \o t)[Len(s) + i] = t[i]
      /\ Len(s) \in Nat /\ Len(t) \in Nat
  OBVIOUS
<1>2. ASSUME Injective(s \o t)
      PROVE  Injective(s) /\ Injective(t) /\ Range(s) \cap Range(t) = {}
  <2>1. Injective(s)
    BY <1>1, <1>2 DEF Injective
  <2>2. Injective(t)
    <3>. SUFFICES ASSUME NEW i \in 1..Len(t), NEW j \in 1..Len(t), t[i] = t[j]
                  PROVE  i = j
      BY <1>1 DEF Injective
    <3>1. /\ (s \o t)[Len(s) + i] = (s \o t)[Len(s) + j]
          /\ Len(s) + i \in DOMAIN (s \o t) /\ Len(s) + j \in DOMAIN (s \o t)
      BY <1>1
    <3>2. Len(s) + i = Len(s) + j
      BY <1>2, <3>1 DEF Injective
    <3>. QED
      BY <1>1, <3>2
  <2>3. Range(s) \cap Range(t) = {}
    <3>. SUFFICES ASSUME NEW i \in 1..Len(s), NEW j \in 1..Len(t), s[i] = t[j]
                  PROVE  FALSE
      BY <1>1 DEF Range
    <3>1. (s \o t)[i] = (s \o t)[Len(s) + j]
      BY <1>1
    <3>. QED
      BY <1>1, <1>2, <3>1, SMTT(30) DEF Injective
  <2>. QED
    BY <2>1, <2>2, <2>3
<1>3. ASSUME Injective(s), Injective(t), Range(s) \cap Range(t) = {}
      PROVE  Injective(s \o t)
  <2>. SUFFICES ASSUME NEW i \in 1..(Len(s) + Len(t)), NEW j \in 1..(Len(s) + Len(t)),
                       (s \o t)[i] = (s \o t)[j]
                PROVE  i = j
    BY <1>1 DEF Injective
  <2>1. \A k \in 1..(Len(s) + Len(t)) :
           IF k <= Len(s) THEN k \in DOMAIN s /\ (s \o t)[k] = s[k]
           ELSE k - Len(s) \in DOMAIN t /\ (s \o t)[k] = t[k - Len(s)]
    OBVIOUS
  <2>2. CASE i <= Len(s) /\ j <= Len(s)
    BY <1>3, <2>1, <2>2 DEF Injective
  <2>3. CASE i > Len(s) /\ j > Len(s)
    <3>1. i - Len(s) = j - Len(s)
      BY <1>3, <2>1, <2>3 DEF Injective
    <3>. QED
      BY <3>1
  <2>4. CASE ~(i <= Len(s) <=> j <= Len(s))
    <3>1. (s \o t)[i] \in Range(s) \cap Range(t)
      BY <2>1, <2>4 DEF Range
    <3>. QED
      BY <1>3, <3>1
  <2>. QED
    BY <2>2, <2>3, <2>4
<1>. QED
  BY <1>2, <1>3

(***************************************************************************)
(* Release: the queue gives the numbers from next up to end to a POST that *)
(* holds none.                                                             *)
(***************************************************************************)
LEMMA Release ==
  ASSUME NEW s \in Seq(Nat), NEW w \in [Posts -> Seq(Nat)], NEW next \in Nat,
         NEW open \in BOOLEAN, Distributed(s, w, next, open),
         NEW p \in Posts, w[p] = <<>>, NEW end \in Nat, end >= next,
         NEW run \in Seq(Nat), Len(run) = end - next,
         \A i \in 1..Len(run) : run[i] = next + i - 1
  PROVE  Distributed(s, [w EXCEPT ![p] = run], end, open)
<1>1. Range(run) = next..(end - 1)
  <2>1. \A k \in next..(end - 1) : k - next + 1 \in 1..Len(run) /\ run[k - next + 1] = k
    OBVIOUS
  <2>2. \A i \in 1..Len(run) : run[i] \in next..(end - 1)
    BY SMTT(30)
  <2>. QED
    BY <2>1, <2>2 DEF Range
<1>2. Injective(run)
  <2>1. \A i, j \in 1..Len(run) : run[i] = run[j] => i = j
    OBVIOUS
  <2>2. DOMAIN run = 1..Len(run)
    OBVIOUS
  <2>. QED
    BY <2>1, <2>2, Zenon DEF Injective
<1>3. /\ next..(end - 1) \cap 0..(next - 1) = {}
      /\ 0..(end - 1) = 0..(next - 1) \cup next..(end - 1)
  OBVIOUS
<1>4. \A q \in Posts : Range(w[q]) \subseteq 0..(next - 1)
  BY DEF Distributed
<1>5. Range(w[p]) = {}
  BY DEF Range
<1>6. \A q \in Posts : [w EXCEPT ![p] = run][q] = IF q = p THEN run ELSE w[q]
  OBVIOUS
<1>. DEFINE w1 == [w EXCEPT ![p] = run]
<1>. HIDE DEF w1
<1>7. open => 0..(end - 1) \subseteq Range(s) \cup UNION {Range(w1[q]) : q \in Posts}
  <2>. SUFFICES ASSUME open, NEW k \in 0..(end - 1), k \notin Range(s)
                PROVE  \E q \in Posts : k \in Range(w1[q])
    OBVIOUS
  <2>1. CASE k \in next..(end - 1)
    BY <1>1, <1>6, <2>1 DEF w1
  <2>2. CASE k \in 0..(next - 1)
    <3>1. PICK q \in Posts : k \in Range(w[q])
      BY <2>2 DEF Distributed
    <3>2. q # p
      BY <1>5, <3>1
    <3>. QED
      BY <1>6, <3>1, <3>2 DEF w1
  <2>. QED
    BY <1>3, <2>1, <2>2
<1>8. ASSUME NEW q \in Posts
      PROVE  /\ Injective(w1[q]) /\ Range(w1[q]) \subseteq 0..(end - 1)
             /\ Range(w1[q]) \cap Range(s) = {}
             /\ \A o \in Posts : q # o => Range(w1[q]) \cap Range(w1[o]) = {}
  <2>1. \A o \in Posts : w1[o] = IF o = p THEN run ELSE w[o]
    BY <1>6 DEF w1
  <2>2. Range(s) \subseteq 0..(next - 1) /\ \A o \in Posts : Range(w[o]) \cap Range(s) = {}
    BY DEF Distributed
  <2>3. CASE q = p
    BY <1>1, <1>2, <1>3, <1>4, <2>1, <2>2, <2>3
  <2>4. CASE q # p
    BY <1>1, <1>3, <1>4, <2>1, <2>2, <2>4 DEF Distributed
  <2>. QED
    BY <2>3, <2>4
<1>9. Injective(s) /\ Range(s) \subseteq 0..(end - 1)
  BY <1>3 DEF Distributed
<1>. QED
  BY <1>7, <1>8, <1>9 DEF Distributed, w1

(***************************************************************************)
(* Transfer: a POST hands over the front of its run.                       *)
(***************************************************************************)
LEMMA Transfer ==
  ASSUME NEW s \in Seq(Nat), NEW w \in [Posts -> Seq(Nat)], NEW next \in Nat,
         NEW open \in BOOLEAN, Distributed(s, w, next, open),
         NEW p \in Posts, NEW a \in Seq(Nat), NEW b \in Seq(Nat), w[p] = a \o b
  PROVE  Distributed(s \o a, [w EXCEPT ![p] = b], next, open)
<1>. DEFINE w1 == [w EXCEPT ![p] = b]
<1>1. \A q \in Posts : w1[q] = IF q = p THEN b ELSE w[q]
  OBVIOUS
<1>2. Range(w[p]) = Range(a) \cup Range(b) /\ Range(s \o a) = Range(s) \cup Range(a)
  BY RangeConcatenation
<1>3. Injective(a) /\ Injective(b) /\ Range(a) \cap Range(b) = {}
  <2>1. Injective(a \o b)
    BY DEF Distributed
  <2>. QED
    BY <2>1, InjectiveConcat
<1>4. Range(a) \cap Range(s) = {} /\ Range(b) \cap Range(s) = {}
  BY <1>2 DEF Distributed
<1>5. Injective(s \o a)
  BY <1>3, <1>4, InjectiveConcat DEF Distributed
<1>. HIDE DEF w1
<1>6. Range(s \o a) \subseteq 0..(next - 1)
  BY <1>2 DEF Distributed
<1>7. ASSUME NEW q \in Posts
      PROVE  /\ Injective(w1[q]) /\ Range(w1[q]) \subseteq 0..(next - 1)
             /\ Range(w1[q]) \cap Range(s \o a) = {}
             /\ \A o \in Posts : q # o => Range(w1[q]) \cap Range(w1[o]) = {}
  <2>1. \A o \in Posts : /\ Range(w1[o]) \subseteq Range(w[o])
                         /\ o # p => w1[o] = w[o]
    BY <1>1, <1>2
  <2>2. \A o \in Posts : q # o => Range(w1[q]) \cap Range(w1[o]) = {}
    BY <2>1 DEF Distributed
  <2>3. Injective(w1[q]) /\ Range(w1[q]) \subseteq 0..(next - 1)
    BY <1>1, <1>3, <2>1 DEF Distributed
  <2>4. Range(w1[q]) \cap Range(s \o a) = {}
    <3>1. Range(w1[q]) \cap Range(s) = {}
      BY <2>1 DEF Distributed
    <3>2. CASE q = p
      BY <1>1, <1>2, <1>3, <3>1, <3>2
    <3>3. CASE q # p
      <4>1. Range(w[q]) \cap Range(w[p]) = {}
        BY <3>3 DEF Distributed
      <4>. QED
        BY <1>2, <2>1, <3>1, <4>1
    <3>. QED
      BY <3>2, <3>3
  <2>. QED
    BY <2>2, <2>3, <2>4
<1>8. open => 0..(next - 1) \subseteq Range(s \o a) \cup UNION {Range(w1[q]) : q \in Posts}
  <2>. SUFFICES ASSUME open, NEW k \in 0..(next - 1), k \notin Range(s \o a)
                PROVE  \E q \in Posts : k \in Range(w1[q])
    OBVIOUS
  <2>1. PICK q \in Posts : k \in Range(w[q])
    BY <1>2 DEF Distributed
  <2>. QED
    BY <1>1, <1>2, <2>1
<1>. QED
  BY <1>5, <1>6, <1>7, <1>8 DEF Distributed, w1

(***************************************************************************)
(* Drop: when the receiver is gone, the run of a POST is dropped with it.  *)
(***************************************************************************)
LEMMA DropRun ==
  ASSUME NEW s \in Seq(Nat), NEW w \in [Posts -> Seq(Nat)], NEW next \in Nat,
         NEW p \in Posts, Distributed(s, w, next, FALSE)
  PROVE  Distributed(s, [w EXCEPT ![p] = <<>>], next, FALSE)
<1>. DEFINE w1 == [w EXCEPT ![p] = <<>>]
<1>1. Range(<<>>) = {} /\ Injective(<<>>)
  BY DEF Range, Injective
<1>2. \A q \in Posts : w1[q] = IF q = p THEN <<>> ELSE w[q]
  OBVIOUS
<1>. HIDE DEF w1
<1>3. \A q \in Posts : Range(w1[q]) \subseteq Range(w[q]) /\ Injective(w1[q])
  BY <1>1, <1>2 DEF Distributed
<1>4. \A q \in Posts :
         /\ Range(w1[q]) \subseteq 0..(next - 1) /\ Range(w1[q]) \cap Range(s) = {}
         /\ \A o \in Posts : q # o => Range(w1[q]) \cap Range(w1[o]) = {}
  BY <1>3 DEF Distributed
<1>. QED
  BY <1>3, <1>4 DEF Distributed, w1
-----------------------------------------------------------------------------
(* The send loop of a POST. *)

\* What the send loop does with a run: the front a of it is handed over, the
\* rest b stays with p, which waits if b or the channel makes it; a run with
\* nobody to receive it is dropped.
Hands(p, ready, open, a, b) ==
    /\ IF ready # <<>> /\ ~open THEN a = <<>> /\ b = <<>> ELSE ready = a \o b
    /\ chan' = chan \o a /\ post'[p].ready = b
    /\ \A q \in Posts : q # p => post'[q] = post[q]
    /\ \/ /\ post'[p].pc = "sending" /\ parked' = Append(parked, p) /\ waited' = TRUE
          /\ Len(chan') <= UplinkDepth + 1 \/ Len(chan') <= Len(chan) + 1
       \/ /\ post'[p].pc = "done" /\ b = <<>> /\ UNCHANGED <<parked, waited>>
          /\ a # <<>> => Len(chan') <= UplinkDepth

(***************************************************************************)
(* HandOver does that, and leaves the POSTs, the channel and the parked    *)
(* senders well typed.                                                     *)
(***************************************************************************)
LEMMA HandOverHands ==
  ASSUME TypeOK, NEW p \in Posts, NEW ready \in Seq(Chunk), NEW open \in BOOLEAN,
         HandOver(p, ready, open)
  PROVE  /\ \E a, b \in Seq(Chunk) : Hands(p, ready, open, a, b)
         /\ post' \in [Posts -> [pc : {"idle", "body", "sending", "done"},
                                 ready : Seq(Chunk), status : Statuses \cup {"none"}]]
         /\ \A q \in Posts : post'[q].pc = "done" <=> post'[q].status # "none"
         /\ chan' \in Seq(Chunk) /\ parked' \in Seq(Posts)
         /\ waited' \in BOOLEAN /\ poisoned' \in BOOLEAN
<1>. DEFINE PostOK == /\ post' \in [Posts -> [pc : {"idle", "body", "sending", "done"},
                                          ready : Seq(Chunk), status : Statuses \cup {"none"}]]
                      /\ \A q \in Posts : post'[q].pc = "done" <=> post'[q].status # "none"
            Others == \A q \in Posts : q # p => post'[q] = post[q]
<1>0. /\ chan \in Seq(Chunk) /\ parked \in Seq(Posts) /\ waited \in BOOLEAN
      /\ poisoned \in BOOLEAN /\ UplinkDepth \in Nat /\ <<>> \in Seq(Chunk)
  BY SessionAssumption DEF TypeOK
<1>1. ASSUME NEW st \in Statuses, post' = Answered(p, st)
      PROVE  PostOK /\ Others /\ post'[p].ready = <<>> /\ post'[p].pc = "done"
  BY <1>1 DEF Answered, TypeOK, Statuses
<1>2. CASE ready = <<>>
  <2>1. PostOK /\ Others /\ post'[p].ready = <<>> /\ post'[p].pc = "done"
    BY <1>1, <1>2 DEF HandOver, Statuses
  <2>2. UNCHANGED <<poisoned, chan, parked, waited>>
    BY <1>2 DEF HandOver
  <2>3. ready = <<>> \o <<>> /\ chan \o <<>> = chan
    BY <1>0, <1>2, ConcatEmptySeq
  <2>4. Hands(p, ready, open, <<>>, <<>>)
    BY <1>2, <2>1, <2>2, <2>3 DEF Hands
  <2>. QED
    BY <1>0, <2>1, <2>2, <2>4
<1>3. CASE ready # <<>> /\ ~open
  <2>1. PostOK /\ Others /\ post'[p].ready = <<>> /\ post'[p].pc = "done"
    BY <1>1, <1>3 DEF HandOver, Statuses
  <2>2. UNCHANGED <<chan, parked, waited>> /\ poisoned' = TRUE
    BY <1>3 DEF HandOver
  <2>3. chan \o <<>> = chan
    BY <1>0, ConcatEmptySeq
  <2>4. Hands(p, ready, open, <<>>, <<>>)
    BY <1>3, <2>1, <2>2, <2>3 DEF Hands
  <2>. QED
    BY <1>0, <2>1, <2>2, <2>4
<1>4. CASE ready # <<>> /\ open
  <2>. DEFINE n == IF Len(ready) <= Room THEN Len(ready) ELSE Room
              a == SubSeq(ready, 1, n)
              b == SubSeq(ready, n + 1, Len(ready))
  <2>1. Room \in Nat /\ Len(chan) \in Nat
        /\ (Room <= UplinkDepth + 1 - Len(chan) \/ Room = 1)
        /\ Len(chan) + Room > UplinkDepth
    BY <1>0 DEF Room
  <2>2. n \in 0..Len(ready) /\ n <= Room /\ (n # Len(ready) => n = Room)
    BY <2>1
  <2>3. /\ chan' = chan \o a /\ UNCHANGED poisoned
        /\ IF Len(chan') > UplinkDepth
           THEN /\ post' = [post EXCEPT ![p] = [pc |-> "sending", status |-> "none",
                                                ready |-> b]]
                /\ parked' = Append(parked, p) /\ waited' = TRUE
           ELSE post' = Answered(p, "200") /\ UNCHANGED <<parked, waited>>
    BY <1>4 DEF HandOver
  <2>. HIDE DEF n
  <2>4. /\ a \in Seq(Chunk) /\ b \in Seq(Chunk) /\ ready = a \o b
        /\ Len(a) = n /\ Len(b) = Len(ready) - n
    BY <2>2, FrontAndRest
  <2>. HIDE DEF a, b
  <2>5. chan' \in Seq(Chunk) /\ Len(chan') = Len(chan) + n
    <3>1. chan' = chan \o a
      BY <2>3
    <3>. QED
      BY <1>0, <2>4, <3>1, ConcatProperties
  <2>6. CASE Len(chan') > UplinkDepth
    <3>0. /\ post' = [post EXCEPT ![p] = [pc |-> "sending", status |-> "none", ready |-> b]]
          /\ parked' = Append(parked, p) /\ waited' = TRUE
      BY <2>3, <2>6
    <3>1. PostOK /\ Others /\ post'[p].ready = b /\ post'[p].pc = "sending"
      BY <2>4, <3>0 DEF TypeOK
    <3>2. parked' \in Seq(Posts)
      BY <1>0, <3>0, AppendProperties
    <3>3. Len(chan') <= UplinkDepth + 1 \/ Len(chan') <= Len(chan) + 1
      BY <1>0, <2>1, <2>2, <2>5
    <3>4. Hands(p, ready, open, a, b)
      BY <1>4, <2>3, <2>4, <3>0, <3>1, <3>3 DEF Hands
    <3>. QED
      BY <1>0, <2>3, <2>4, <2>5, <3>0, <3>1, <3>2, <3>4
  <2>7. CASE ~(Len(chan') > UplinkDepth)
    <3>1. PostOK /\ Others /\ post'[p].ready = <<>> /\ post'[p].pc = "done"
      BY <1>1, <2>3, <2>7 DEF Statuses
    <3>2. n = Len(ready) /\ Len(chan') <= UplinkDepth
      BY <1>0, <2>1, <2>2, <2>5, <2>7
    <3>3. b = <<>>
      BY <2>4, <3>2
    <3>4. Hands(p, ready, open, a, b)
      BY <1>4, <2>3, <2>4, <2>7, <3>1, <3>2, <3>3 DEF Hands
    <3>. QED
      BY <1>0, <2>3, <2>4, <2>5, <2>7, <3>1, <3>4
  <2>. QED
    BY <2>6, <2>7
<1>. QED
  BY <1>2, <1>3, <1>4
-----------------------------------------------------------------------------
(* The uplink: what each kind of step does to it. *)

\* Chunks are numbers.
LEMMA Numbers ==
  ASSUME NEW s \in Seq(Chunk)
  PROVE  s \in Seq(Nat)
<1>1. PICK n \in Nat : s \in [1..n -> Chunk]
  BY SeqDef
<1>2. s \in [1..n -> Nat]
  BY <1>1, SessionAssumption
<1>. QED
  BY <1>2, SeqDef

\* Concatenation of sequences of numbers is associative.
LEMMA NumbersAssociate ==
  ASSUME NEW s \in Seq(Nat), NEW t \in Seq(Nat), NEW u \in Seq(Nat)
  PROVE  (s \o t) \o u = s \o (t \o u)
  BY SMTT(30)

(***************************************************************************)
(* The send loop distributes the run it was given.                         *)
(***************************************************************************)
LEMMA HandOverDistributes ==
  ASSUME TypeOK, NEW p \in Posts, NEW ready \in Seq(Chunk), rxOpen' \in BOOLEAN,
         HandOver(p, ready, rxOpen'), UNCHANGED taken, queue'.next_seq \in Nat,
         Distributed(Passed, [Waiting EXCEPT ![p] = ready], queue'.next_seq, rxOpen')
  PROVE  OnTheWay'
<1>. DEFINE w == [Waiting EXCEPT ![p] = ready]
            next == queue'.next_seq
<1>1. PICK a, b \in Seq(Chunk) : Hands(p, ready, rxOpen', a, b)
  BY HandOverHands
<1>2. /\ taken \in Seq(Nat) /\ chan \in Seq(Nat) /\ a \in Seq(Nat) /\ b \in Seq(Nat)
      /\ ready \in Seq(Nat) /\ \A q \in Posts : post[q].ready \in Seq(Nat)
  BY Numbers DEF TypeOK
<1>3. Passed \in Seq(Nat) /\ Waiting \in [Posts -> Seq(Nat)] /\ w \in [Posts -> Seq(Nat)]
  BY <1>2, ConcatProperties DEF Passed, Waiting
<1>4. Passed' = Passed \o a
  <2>1. Passed' = taken \o (chan \o a)
    BY <1>1 DEF Passed, Hands
  <2>2. taken \in Seq(Nat) /\ chan \in Seq(Nat) /\ a \in Seq(Nat)
    BY <1>2
  <2>3. (taken \o chan) \o a = taken \o (chan \o a)
    BY <2>2, NumbersAssociate
  <2>. QED
    BY <2>1, <2>3 DEF Passed
<1>5. Waiting' = [w EXCEPT ![p] = b]
  BY <1>1 DEF Hands, Waiting
<1>. HIDE DEF w
<1>6. CASE ready # <<>> /\ ~rxOpen'
  <2>1. a = <<>> /\ b = <<>>
    BY <1>1, <1>6 DEF Hands
  <2>2. Passed' = Passed
    BY <1>3, <1>4, <2>1, ConcatEmptySeq
  <2>3. Distributed(Passed, w, next, FALSE)
    BY <1>6 DEF w
  <2>4. Distributed(Passed, [w EXCEPT ![p] = <<>>], next, FALSE)
    BY <1>3, <2>3, DropRun
  <2>. QED
    BY <1>5, <1>6, <2>1, <2>2, <2>4 DEF OnTheWay
<1>7. CASE ready = <<>> \/ rxOpen'
  <2>1. w[p] = a \o b
    <3>1. ready = a \o b
      BY <1>1, <1>7, Zenon DEF Hands
    <3>2. w[p] = ready
      BY <1>3 DEF w
    <3>. QED
      BY <3>1, <3>2
  <2>2. Distributed(Passed, w, next, rxOpen')
    BY DEF w
  <2>3. Distributed(Passed \o a, [w EXCEPT ![p] = b], next, rxOpen')
    <3>1. /\ Passed \in Seq(Nat) /\ w \in [Posts -> Seq(Nat)] /\ next \in Nat
          /\ a \in Seq(Nat) /\ b \in Seq(Nat) /\ rxOpen' \in BOOLEAN
      BY <1>2, <1>3
    <3>. HIDE DEF next
    <3>. QED
      BY <2>1, <2>2, <3>1, Transfer
  <2>. QED
    BY <1>4, <1>5, <2>3 DEF OnTheWay
<1>. QED
  BY <1>6, <1>7

(***************************************************************************)
(* The send loop leaves one chunk beyond the depth for the POST it parks,  *)
(* and when it parks none it has handed over all there is.                 *)
(***************************************************************************)
LEMMA HandOverBlocks ==
  ASSUME TypeOK, UplinkBlocksWhenFull, NoneWaits, NEW p \in Posts, post[p].pc # "idle",
         NEW ready \in Seq(Chunk), NEW open \in BOOLEAN, HandOver(p, ready, open)
  PROVE  /\ UplinkBlocksWhenFull'
         /\ (waited \/ post[p].pc # "sending") => NoneWaits'
         /\ ~waited' => ~waited /\ (chan' = chan \o ready \/ (~open /\ chan' = chan))
         /\ ~open /\ chan = <<>> => chan' = <<>>
         /\ \A q \in Posts : q # p => post'[q] = post[q]
         /\ post'[p].pc # "sending" => post'[p].ready = <<>>
<1>1. PICK a, b \in Seq(Chunk) : Hands(p, ready, open, a, b)
  BY HandOverHands
<1>2. /\ chan \in Seq(Chunk) /\ parked \in Seq(Posts) /\ UplinkDepth \in Nat
      /\ Len(chan) \in Nat /\ Len(parked) \in Nat /\ waited \in BOOLEAN
  BY SessionAssumption, SMTT(30) DEF TypeOK
<1>3. Len(chan') = Len(chan) + Len(a) /\ Len(a) \in Nat /\ (Len(a) = 0 => a = <<>>)
  BY <1>1, <1>2, ConcatProperties DEF Hands
<1>4. CASE /\ post'[p].pc = "sending" /\ parked' = Append(parked, p) /\ waited' = TRUE
           /\ Len(chan') <= UplinkDepth + 1 \/ Len(chan') <= Len(chan) + 1
  <2>1. Len(parked') = Len(parked) + 1
    BY <1>2, <1>4
  <2>2. UplinkBlocksWhenFull'
    BY <1>2, <1>3, <1>4, <2>1 DEF UplinkBlocksWhenFull
  <2>3. ~open /\ chan = <<>> => chan' = <<>>
    BY <1>1, <1>2, ConcatEmptySeq DEF Hands
  <2>. QED
    BY <1>1, <1>4, <2>2, <2>3 DEF Hands, NoneWaits
<1>5. CASE /\ post'[p].pc = "done" /\ b = <<>> /\ UNCHANGED <<parked, waited>>
           /\ a # <<>> => Len(chan') <= UplinkDepth
  <2>1. UplinkBlocksWhenFull'
    BY <1>2, <1>3, <1>5 DEF UplinkBlocksWhenFull
  <2>2. chan' = chan \o ready \/ (~open /\ chan' = chan)
    <3>1. a \o <<>> = a /\ chan \o <<>> = chan
      BY <1>2, ConcatEmptySeq
    <3>2. chan' = chan \o a /\ (ready = a \o b \/ (~open /\ a = <<>>))
      BY <1>1 DEF Hands
    <3>. QED
      BY <1>5, <3>1, <3>2
  <2>3. ~open /\ chan = <<>> => chan' = <<>>
    BY <1>1, <1>2, ConcatEmptySeq DEF Hands
  <2>4. NoneWaits'
    BY <1>1, <1>5 DEF Hands, NoneWaits
  <2>. QED
    BY <1>1, <1>5, <2>1, <2>2, <2>3, <2>4 DEF Hands
<1>. QED
  BY <1>1, <1>4, <1>5 DEF Hands

(***************************************************************************)
(* A step that leaves the queue, the channel and every run alone.          *)
(***************************************************************************)
LEMMA UplinkQuiet ==
  ASSUME UplinkInv,
         UNCHANGED <<queue, ownerStarted, chan, parked, rxOpen, owners, taken, waited>>,
         phase' = "none" <=> phase = "none",
         \A p \in Posts : /\ post'[p].ready = post[p].ready
                          /\ post'[p].pc = "sending" <=> post[p].pc = "sending"
  PROVE  UplinkInv'
<1>1. OwnerOK'
  BY DEF UplinkInv, OwnerOK
<1>2. OnTheWay'
  <2>1. Waiting' = Waiting /\ Passed' = Passed
    BY DEF Waiting, Passed
  <2>. QED
    BY <2>1 DEF UplinkInv, OnTheWay
<1>3. NoneWaits' /\ OrderUntilFirstWait' /\ UplinkBlocksWhenFull'
  BY DEF UplinkInv, NoneWaits, OrderUntilFirstWait, OwnerSeesStream, UplinkBlocksWhenFull
<1>. QED
  BY <1>1, <1>2, <1>3 DEF UplinkInv

(***************************************************************************)
(* The owner receives: a chunk moves along, nothing overtakes it.          *)
(***************************************************************************)
LEMMA UplinkTaken ==
  ASSUME TypeOK, UplinkInv, Take, phase # "none", phase' # "none",
         UNCHANGED <<queue, ownerStarted, rxOpen, post, owners, waited>>
  PROVE  UplinkInv'
<1>1. /\ chan \in Seq(Chunk) /\ chan # <<>> /\ taken \in Seq(Chunk)
      /\ parked \in Seq(Posts) /\ UplinkDepth \in Nat
  BY SessionAssumption DEF TypeOK, Take
<1>2. /\ chan' = Tail(chan) /\ Len(chan') = Len(chan) - 1
      /\ taken' = Append(taken, Head(chan))
      /\ parked' = IF parked = <<>> THEN parked ELSE Tail(parked)
  BY <1>1 DEF Take
<1>3. Passed' = Passed
  <2>1. Len(taken' \o chan') = Len(taken \o chan)
    BY <1>1, <1>2
  <2>2. \A i \in 1..Len(taken \o chan) : (taken' \o chan')[i] = (taken \o chan)[i]
    BY <1>1, <1>2
  <2>3. taken' \o chan' \in Seq(Chunk) /\ taken \o chan \in Seq(Chunk)
    BY <1>1, <1>2
  <2>. QED
    BY <2>1, <2>2, <2>3, SeqEqual DEF Passed
<1>4. OwnerOK'
  BY <1>1 DEF UplinkInv, OwnerOK
<1>5. OnTheWay'
  <2>1. Waiting' = Waiting
    BY DEF Waiting
  <2>. QED
    BY <1>3, <2>1 DEF UplinkInv, OnTheWay
<1>6. NoneWaits'
  BY <1>2 DEF UplinkInv, NoneWaits
<1>7. OrderUntilFirstWait'
  BY <1>3 DEF UplinkInv, OrderUntilFirstWait, OwnerSeesStream, Passed
<1>8. UplinkBlocksWhenFull'
  <2>1. CASE parked = <<>>
    BY <1>1, <1>2, <2>1 DEF UplinkInv, UplinkBlocksWhenFull
  <2>2. CASE parked # <<>>
    <3>1. Len(parked') = Len(parked) - 1
      BY <1>1, <1>2, <2>2
    <3>. QED
      BY <1>1, <1>2, <3>1 DEF UplinkInv, UplinkBlocksWhenFull
  <2>. QED
    BY <2>1, <2>2
<1>. QED
  BY <1>4, <1>5, <1>6, <1>7, <1>8 DEF UplinkInv

(***************************************************************************)
(* The receiver goes away: what the channel held goes with it, and every   *)
(* parked POST is let go.                                                  *)
(***************************************************************************)
LEMMA UplinkDropped ==
  ASSUME TypeOK, UplinkInv, DropReceiver, phase # "none", phase' # "none",
         UNCHANGED <<queue, ownerStarted, post, owners, taken, waited>>
  PROVE  UplinkInv'
<1>1. /\ taken \in Seq(Chunk) /\ chan \in Seq(Chunk) /\ taken \in Seq(Nat)
      /\ chan \in Seq(Nat) /\ queue.next_seq \in Nat /\ UplinkDepth \in Nat
      /\ rxOpen \in BOOLEAN /\ \A p \in Posts : post[p].ready \in Seq(Nat)
  BY Numbers, SessionAssumption DEF TypeOK
<1>2. chan' = <<>> /\ parked' = <<>> /\ rxOpen' = FALSE /\ Passed' = taken
  <2>1. taken \o <<>> = taken
    BY <1>1, ConcatEmptySeq
  <2>. QED
    BY <2>1 DEF DropReceiver, Passed
<1>3. OwnerOK'
  BY <1>2 DEF UplinkInv, OwnerOK
<1>4. OnTheWay'
  <2>1. Waiting' = Waiting /\ Waiting \in [Posts -> Seq(Nat)]
    BY <1>1 DEF Waiting
  <2>2. Distributed(taken \o chan, Waiting, queue.next_seq, rxOpen)
    BY DEF UplinkInv, OnTheWay, Passed
  <2>3. Distributed(taken, Waiting, queue.next_seq, FALSE)
    <3>1. Injective(taken) /\ Range(taken) \subseteq Range(taken \o chan)
      BY <1>1, <2>2, InjectiveConcat, RangeConcatenation DEF Distributed
    <3>. QED
      BY <2>2, <3>1 DEF Distributed
  <2>. QED
    BY <1>2, <2>1, <2>3 DEF OnTheWay
<1>5. NoneWaits'
  BY <1>2 DEF UplinkInv, NoneWaits
<1>6. OrderUntilFirstWait'
  <2>. SUFFICES ASSUME ~waited
                PROVE  OwnerSeesStream'
    BY <1>2 DEF OrderUntilFirstWait
  <2>1. InOrder(taken \o chan)
    BY DEF UplinkInv, OrderUntilFirstWait, OwnerSeesStream
  <2>2. /\ DOMAIN taken \subseteq DOMAIN (taken \o chan)
        /\ \A i \in DOMAIN taken : (taken \o chan)[i] = taken[i]
    BY <1>1
  <2>3. InOrder(taken)
    BY <2>1, <2>2 DEF InOrder
  <2>. QED
    BY <1>2, <2>3 DEF OwnerSeesStream, Passed
<1>7. UplinkBlocksWhenFull'
  BY <1>1, <1>2 DEF UplinkBlocksWhenFull
<1>. QED
  BY <1>3, <1>4, <1>5, <1>6, <1>7 DEF UplinkInv

(***************************************************************************)
(* A released run continues the stream it follows.                         *)
(***************************************************************************)
LEMMA StreamExtended ==
  ASSUME NEW s \in Seq(Chunk), InOrder(s), NEW run \in Seq(Chunk),
         \A i \in 1..Len(run) : run[i] = Len(s) + i - 1
  PROVE  InOrder(s \o run) /\ Len(s \o run) = Len(s) + Len(run)
<1>1. /\ Len(s \o run) = Len(s) + Len(run) /\ DOMAIN (s \o run) = 1..(Len(s) + Len(run))
      /\ Len(s) \in Nat /\ Len(run) \in Nat
  OBVIOUS
<1>2. ASSUME NEW i \in 1..(Len(s) + Len(run))
      PROVE  (s \o run)[i] = i - 1
  <2>1. CASE i <= Len(s)
    BY <1>1, <2>1 DEF InOrder
  <2>2. CASE i > Len(s)
    <3>1. (s \o run)[i] = run[i - Len(s)] /\ i - Len(s) \in 1..Len(run)
      BY <1>1, <2>2
    <3>. QED
      BY <1>1, <3>1
  <2>. QED
    BY <1>1, <2>1, <2>2
<1>. QED
  BY <1>1, <1>2 DEF InOrder

(***************************************************************************)
(* A POST's body arrives and the queue accepts it.                         *)
(***************************************************************************)
LEMMA UplinkPushed ==
  ASSUME Types, UplinkInv, NEW p \in Posts, PostPushes(p)
  PROVE  UplinkInv'
<1>. DEFINE ready == ReadyAfter(queue, PostSeq[p], PostSeq[p])
            n == queue.next_seq
            end == queue'.next_seq
<1>1. /\ n \in Nat /\ taken \in Seq(Chunk) /\ chan \in Seq(Chunk)
      /\ taken \in Seq(Nat) /\ chan \in Seq(Nat) /\ rxOpen \in BOOLEAN
      /\ waited \in BOOLEAN /\ ownerStarted \in BOOLEAN
      /\ \A q \in Posts : post[q].ready \in Seq(Nat)
      /\ PostSeq[p] \in Chunk
  BY Numbers, SessionAssumption DEF Types, TypeOK
<1>2. /\ end \in Nat /\ end >= n
      /\ ready \in Seq(Chunk) /\ Len(ready) = end - n
      /\ \A i \in 1..Len(ready) : ready[i] = n + i - 1
  <2>1. queue' = QueueAfter(queue, PostSeq[p], PostSeq[p])
    BY DEF PostPushes
  <2>. QED
    BY <1>1, <2>1, Pushed
<1>3. /\ HandOver(p, ready, rxOpen') /\ UNCHANGED taken /\ post[p].pc = "body"
      /\ post[p].ready = <<>> /\ TypeOK
  BY DEF PostPushes, UplinkInv, OwnerOK, Types
<1>4. /\ ownerStarted' = TRUE /\ owners' = 1 /\ phase' # "none" /\ rxOpen' \in BOOLEAN
      /\ IF ownerStarted THEN rxOpen' = rxOpen
         ELSE queue = EmptyQueue /\ taken = <<>> /\ chan = <<>> /\ ~rxOpen
  <2>1. /\ owners = IF ownerStarted THEN 1 ELSE 0
        /\ phase = "none" <=> ~ownerStarted
        /\ ~ownerStarted => queue = EmptyQueue /\ taken = <<>> /\ ~rxOpen
        /\ ~rxOpen => chan = <<>>
    BY DEF UplinkInv, OwnerOK
  <2>2. IF ~ownerStarted
        THEN ownerStarted' = TRUE /\ rxOpen' = TRUE /\ owners' = owners + 1 /\ phase' = "header"
        ELSE UNCHANGED <<ownerStarted, rxOpen, owners, phase>>
    BY DEF PostPushes, StartsOwner
  <2>3. CASE ownerStarted
    BY <1>1, <2>1, <2>2, <2>3
  <2>4. CASE ~ownerStarted
    BY <1>1, <2>1, <2>2, <2>4
  <2>. QED
    BY <1>1, <2>3, <2>4
<1>5. n = 0 \/ rxOpen' = rxOpen
  BY <1>4 DEF EmptyQueue
<1>. HIDE DEF ready
<1>6. OnTheWay'
  <2>1. Distributed(Passed, Waiting, n, rxOpen')
    BY <1>5 DEF UplinkInv, OnTheWay, Distributed
  <2>2. Passed \in Seq(Nat) /\ Waiting \in [Posts -> Seq(Nat)] /\ Waiting[p] = <<>>
    BY <1>1, <1>3, ConcatProperties DEF Passed, Waiting
  <2>3. ready \in Seq(Nat)
    BY <1>2, Numbers
  <2>4. Distributed(Passed, [Waiting EXCEPT ![p] = ready], end, rxOpen')
    <3>1. /\ n \in Nat /\ end \in Nat /\ end >= n /\ rxOpen' \in BOOLEAN
          /\ Len(ready) = end - n /\ \A i \in 1..Len(ready) : ready[i] = n + i - 1
      BY <1>1, <1>2, <1>4
    <3>. HIDE DEF n, end
    <3>. QED
      BY <2>1, <2>2, <2>3, <3>1, Release
  <2>. QED
    BY <1>2, <1>3, <1>4, <2>4, HandOverDistributes
<1>7. /\ UplinkBlocksWhenFull' /\ NoneWaits'
      /\ ~waited' => ~waited /\ (chan' = chan \o ready \/ (~rxOpen' /\ chan' = chan))
      /\ ~rxOpen' /\ chan = <<>> => chan' = <<>>
      /\ \A q \in Posts : q # p => post'[q] = post[q]
      /\ post'[p].pc # "sending" => post'[p].ready = <<>>
  BY <1>2, <1>3, <1>4, HandOverBlocks DEF UplinkInv
<1>8. OwnerOK'
  BY <1>4, <1>7 DEF UplinkInv, OwnerOK
<1>9. OrderUntilFirstWait'
  <2>. SUFFICES ASSUME ~waited'
                PROVE  /\ InOrder(taken \o chan')
                       /\ rxOpen' => Len(taken \o chan') = end
    BY <1>3 DEF OrderUntilFirstWait, OwnerSeesStream
  <2>1. InOrder(taken \o chan) /\ (rxOpen' => Len(taken \o chan) = n)
    <3>1. rxOpen' /\ rxOpen' # rxOpen => taken = <<>> /\ chan = <<>> /\ n = 0
      BY <1>4, <1>5
    <3>2. rxOpen' /\ rxOpen' # rxOpen => Len(taken \o chan) = n
      BY <3>1
    <3>. QED
      BY <1>7, <3>2 DEF UplinkInv, OrderUntilFirstWait, OwnerSeesStream
  <2>2. CASE ~rxOpen'
    <3>1. chan = <<>> /\ chan' = <<>>
      BY <1>4, <1>7, <2>2 DEF UplinkInv, OwnerOK
    <3>. QED
      BY <2>1, <2>2, <3>1
  <2>3. CASE rxOpen'
    <3>. DEFINE s == taken \o chan
    <3>1. s \in Seq(Chunk) /\ Len(s) = n
      BY <1>1, <2>1, <2>3
    <3>2. chan' = chan \o ready
      BY <1>7, <2>3
    <3>3. taken \o chan' = s \o ready
      <4>1. taken \in Seq(Nat) /\ chan \in Seq(Nat) /\ ready \in Seq(Nat)
        BY <1>1, <1>2, Numbers
      <4>2. (taken \o chan) \o ready = taken \o (chan \o ready)
        BY <4>1, NumbersAssociate
      <4>. QED
        BY <3>2, <4>2
    <3>. HIDE DEF s
    <3>4. InOrder(s)
      BY <2>1 DEF s
    <3>5. \A i \in 1..Len(ready) : ready[i] = Len(s) + i - 1
      BY <1>2, <3>1
    <3>6. InOrder(s \o ready) /\ Len(s \o ready) = Len(s) + Len(ready)
      BY <1>2, <3>1, <3>4, <3>5, StreamExtended
    <3>7. Len(s \o ready) = end
      BY <1>1, <1>2, <3>1, <3>6
    <3>. QED
      BY <3>3, <3>6, <3>7
  <2>. QED
    BY <2>2, <2>3
<1>. QED
  BY <1>6, <1>7, <1>8, <1>9 DEF UplinkInv

(***************************************************************************)
(* A waiting POST goes on with its run.                                    *)
(***************************************************************************)
LEMMA UplinkResumed ==
  ASSUME Types, UplinkInv, NEW p \in Posts, PostResumes(p)
  PROVE  UplinkInv'
<1>. DEFINE ready == post[p].ready
<1>1. /\ TypeOK /\ ready \in Seq(Chunk) /\ queue.next_seq \in Nat /\ rxOpen \in BOOLEAN
      /\ waited \in BOOLEAN
  BY DEF Types, TypeOK
<1>2. /\ HandOver(p, ready, rxOpen') /\ HandOver(p, ready, rxOpen)
      /\ UNCHANGED <<queue, ownerStarted, rxOpen, phase, owners, taken>>
      /\ post[p].pc = "sending"
  BY DEF PostResumes, ownerVars
<1>3. waited /\ ownerStarted
  BY <1>1, <1>2 DEF UplinkInv, NoneWaits, OwnerOK
<1>4. OnTheWay'
  <2>1. [Waiting EXCEPT ![p] = ready] = Waiting
    BY DEF Waiting
  <2>2. Distributed(Passed, [Waiting EXCEPT ![p] = ready], queue'.next_seq, rxOpen')
    BY <1>2, <2>1 DEF UplinkInv, OnTheWay
  <2>. QED
    BY <1>1, <1>2, <2>2, HandOverDistributes
<1>. HIDE DEF ready
<1>5. /\ UplinkBlocksWhenFull' /\ NoneWaits'
      /\ ~waited' => ~waited
      /\ ~rxOpen /\ chan = <<>> => chan' = <<>>
      /\ \A q \in Posts : q # p => post'[q] = post[q]
      /\ post'[p].pc # "sending" => post'[p].ready = <<>>
  BY <1>1, <1>2, <1>3, HandOverBlocks DEF UplinkInv
<1>6. OwnerOK'
  BY <1>2, <1>3, <1>5 DEF UplinkInv, OwnerOK
<1>7. OrderUntilFirstWait'
  BY <1>3, <1>5 DEF OrderUntilFirstWait
<1>. QED
  BY <1>4, <1>5, <1>6, <1>7 DEF UplinkInv
-----------------------------------------------------------------------------
(* Types. *)

\* What the requests and the uplink may be.
UplinkTypes ==
    /\ queue.next_seq \in Nat /\ DOMAIN queue.pending \subseteq Chunk /\ QueueOK
    /\ {ownerStarted, poisoned} \subseteq BOOLEAN
    /\ post \in [Posts -> [pc : {"idle", "body", "sending", "done"}, ready : Seq(Chunk),
                           status : Statuses \cup {"none"}]]
    /\ \A p \in Posts : post[p].pc = "done" <=> post[p].status # "none"
    /\ chan \in Seq(Chunk) /\ parked \in Seq(Posts) /\ rxOpen \in BOOLEAN
    /\ taken \in Seq(Chunk) /\ waited \in BOOLEAN /\ owners \in Nat

\* What the stream to the client may be.
DownTypes ==
    /\ {downHeld, sharedDown, ended} \subseteq BOOLEAN
    /\ get \in [Gets -> {"idle", "streaming", "closed", "gone"} \cup Statuses]
    /\ down \in Seq(Nat) /\ downParked \in BOOLEAN
    /\ Len(down) <= DownDepth + 1 /\ (~downParked => Len(down) <= DownDepth)
    /\ {buf, read, got} \subseteq Nat

\* What the owner may be.
OwnerTypes ==
    /\ phase \in {"none", "header", "join", "dial", "leading", "relay", "settling",
                  "done", "aborted"}
    /\ header \in {"none", "bad", "good"}
    /\ up \in {"wait", "write", "shutdown", "done"}
    /\ dn \in {"prologue", "read", "coalesce", "done", "returned"}
    /\ destOpen \in BOOLEAN /\ cancel \in BOOLEAN
    /\ events \in Seq(Event) /\ exit \in WindDown \cup {"none", "ReceiverGone"}

\* The types fall into those of the uplink, of the downlink and of the owner.
LEMMA TypesSplit == Types <=> UplinkTypes /\ DownTypes /\ OwnerTypes
BY DEF Types, TypeOK, UplinkTypes, DownTypes, OwnerTypes

\* The same after a step.
LEMMA TypesSplitNext == Types' <=> UplinkTypes' /\ DownTypes' /\ OwnerTypes'
BY DEF Types, TypeOK, UplinkTypes, DownTypes, OwnerTypes, QueueOK

\* The types hold at the start.
LEMMA InitTypes ==
  ASSUME Init
  PROVE  Types
<1>1. DOMAIN <<>> = {} /\ IsFiniteSet({})
  BY FS_EmptySet
<1>2. QueueOK
  BY <1>1 DEF Init, QueueOK, EmptyQueue
<1>3. UplinkTypes
  <2>1. <<>> \in Seq(Chunk) /\ <<>> \in Seq(Posts)
    OBVIOUS
  <2>2. post \in [Posts -> [pc : {"idle", "body", "sending", "done"}, ready : Seq(Chunk),
                           status : Statuses \cup {"none"}]]
    BY <2>1 DEF Init
  <2>3. \A p \in Posts : post[p].pc = "done" <=> post[p].status # "none"
    BY DEF Init
  <2>. QED
    BY <1>1, <1>2, <2>1, <2>2, <2>3 DEF Init, UplinkTypes, EmptyQueue
<1>4. DownTypes
  <2>1. <<>> \in Seq(Nat) /\ Len(<<>>) = 0 /\ DownDepth \in Nat
    BY SessionAssumption
  <2>2. /\ downHeld = TRUE /\ sharedDown = TRUE /\ ended = FALSE
        /\ get = [g \in Gets |-> "idle"] /\ down = <<>> /\ downParked = FALSE
        /\ buf = 0 /\ read = 0 /\ got = 0
    BY DEF Init
  <2>3. {downHeld, sharedDown, ended} \subseteq BOOLEAN /\ downParked \in BOOLEAN
    BY <2>2, Zenon
  <2>4. get \in [Gets -> {"idle", "streaming", "closed", "gone"} \cup Statuses]
    BY <2>2
  <2>. QED
    BY <2>1, <2>2, <2>3, <2>4 DEF DownTypes
<1>5. OwnerTypes
  <2>1. <<>> \in Seq(Event)
    OBVIOUS
  <2>2. /\ phase = "none" /\ header = "none" /\ up = "wait" /\ destOpen = TRUE
        /\ cancel = FALSE /\ events = <<>> /\ exit = "none"
        /\ dn = "prologue" \/ dn = "read"
    BY DEF Init
  <2>. QED
    BY <2>1, <2>2 DEF OwnerTypes
<1>. QED
  BY <1>3, <1>4, <1>5, TypesSplit

\* Answering a request keeps the requests well formed.
LEMMA AnsweredType ==
  ASSUME UplinkTypes, NEW p \in Posts, NEW s \in Statuses, post' = Answered(p, s)
  PROVE  /\ post' \in [Posts -> [pc : {"idle", "body", "sending", "done"}, ready : Seq(Chunk),
                                 status : Statuses \cup {"none"}]]
         /\ \A q \in Posts : post'[q].pc = "done" <=> post'[q].status # "none"
<1>1. <<>> \in Seq(Chunk)
  OBVIOUS
<1>. QED
  BY <1>1 DEF Answered, UplinkTypes, Statuses

(***************************************************************************)
(* The uplink stays well typed.                                            *)
(***************************************************************************)
LEMMA UplinkTypesKept ==
  ASSUME Types, Next
  PROVE  UplinkTypes'
<1>0. UplinkTypes /\ TypeOK
  BY TypesSplit DEF Types
<1>. DEFINE uplinkState == <<queue, ownerStarted, poisoned, post, chan, parked, rxOpen, taken,
                             waited, owners>>
<1>1. ASSUME UNCHANGED uplinkState
      PROVE  UplinkTypes'
  BY <1>0, <1>1 DEF UplinkTypes, QueueOK
<1>2. ASSUME NEW p \in Posts, Post(p)
      PROVE  UplinkTypes'
  <2>1. CASE PostArrives(p) \/ PostBodyRefused(p)
    <3>1. /\ UNCHANGED <<queue, ownerStarted, poisoned, chan, parked, rxOpen, taken, waited, owners>>
      BY <2>1 DEF PostArrives, PostBodyRefused, objectVars, uplinkVars, history
    <3>2. /\ post' \in [Posts -> [pc : {"idle", "body", "sending", "done"}, ready : Seq(Chunk),
                           status : Statuses \cup {"none"}]]
          /\ \A q \in Posts : post'[q].pc = "done" <=> post'[q].status # "none"
      <4>1. CASE \E s \in Statuses : post' = Answered(p, s)
        BY <1>0, <4>1, AnsweredType
      <4>2. CASE post' = [post EXCEPT ![p].pc = "body"] /\ post[p].pc = "idle"
        BY <1>0, <4>2 DEF UplinkTypes
      <4>. QED
        BY <2>1, <4>1, <4>2 DEF PostArrives, PostBodyRefused, Statuses
    <3>. QED
      BY <1>0, <3>1, <3>2 DEF UplinkTypes, QueueOK
  <2>2. CASE PostRefused(p)
    <3>1. /\ UNCHANGED <<queue, ownerStarted, chan, parked, rxOpen, taken, waited, owners>>
          /\ poisoned' = TRUE
      BY <2>2 DEF PostRefused, uplinkVars, history
    <3>2. /\ post' \in [Posts -> [pc : {"idle", "body", "sending", "done"}, ready : Seq(Chunk),
                           status : Statuses \cup {"none"}]]
          /\ \A q \in Posts : post'[q].pc = "done" <=> post'[q].status # "none"
      BY <1>0, <2>2, AnsweredType DEF PostRefused, Statuses
    <3>. QED
      BY <1>0, <3>1, <3>2 DEF UplinkTypes, QueueOK
  <2>3. CASE PostPushes(p)
    <3>. DEFINE ready == ReadyAfter(queue, PostSeq[p], PostSeq[p])
    <3>1. PostSeq[p] \in Chunk /\ queue' = QueueAfter(queue, PostSeq[p], PostSeq[p])
      BY <2>3, SessionAssumption DEF PostPushes
    <3>2. /\ queue'.next_seq \in Nat /\ DOMAIN queue'.pending \subseteq Chunk /\ QueueOK'
          /\ ready \in Seq(Chunk)
      BY <3>1, Pushed
    <3>3. taken' = taken /\ HandOver(p, ready, rxOpen')
      BY <2>3 DEF PostPushes
    <3>4. ownerStarted' \in BOOLEAN /\ rxOpen' \in BOOLEAN /\ owners' \in Nat
      <4>1. ownerStarted \in BOOLEAN /\ rxOpen \in BOOLEAN /\ owners \in Nat
        BY <1>0 DEF UplinkTypes
      <4>2. \/ ownerStarted' = TRUE /\ rxOpen' = TRUE /\ owners' = owners + 1
            \/ UNCHANGED <<ownerStarted, rxOpen, owners>>
        BY <2>3 DEF PostPushes
      <4>3. ownerStarted' \in BOOLEAN /\ rxOpen' \in BOOLEAN
        BY <4>1, <4>2, Zenon
      <4>4. owners' \in Nat
        BY <4>1, <4>2
      <4>. QED
        BY <4>3, <4>4
    <3>. HIDE DEF ready
    <3>5. /\ post' \in [Posts -> [pc : {"idle", "body", "sending", "done"}, ready : Seq(Chunk),
                           status : Statuses \cup {"none"}]]
          /\ \A q \in Posts : post'[q].pc = "done" <=> post'[q].status # "none"
          /\ chan' \in Seq(Chunk) /\ parked' \in Seq(Posts)
          /\ waited' \in BOOLEAN /\ poisoned' \in BOOLEAN
      BY <1>0, <3>2, <3>3, <3>4, HandOverHands
    <3>. QED
      BY <1>0, <3>2, <3>3, <3>4, <3>5 DEF UplinkTypes
  <2>4. CASE PostResumes(p)
    <3>1. post[p].ready \in Seq(Chunk) /\ HandOver(p, post[p].ready, rxOpen) /\ rxOpen \in BOOLEAN
      BY <1>0, <2>4 DEF PostResumes, UplinkTypes
    <3>2. UNCHANGED <<queue, ownerStarted, rxOpen, owners, taken>>
      BY <2>4 DEF PostResumes
    <3>. QED
      BY <1>0, <3>1, <3>2, HandOverHands DEF UplinkTypes, QueueOK
  <2>. QED
    BY <1>2, <2>1, <2>2, <2>3, <2>4 DEF Post
<1>3. ASSUME NEW g \in Gets, GetArrives(g) \/ GetTakes(g) \/ GetCloses(g) \/ GetLeaves(g)
      PROVE  UplinkTypes'
  BY <1>1, <1>3 DEF GetArrives, GetTakes, GetCloses, GetLeaves, objectVars, uplinkVars, history
<1>4. ASSUME Take, UNCHANGED <<queue, ownerStarted, poisoned, post, rxOpen, waited, owners>>
      PROVE  UplinkTypes'
  <2>1. chan \in Seq(Chunk) /\ chan # <<>> /\ taken \in Seq(Chunk) /\ parked \in Seq(Posts)
    BY <1>0, <1>4 DEF UplinkTypes, Take
  <2>2. chan' \in Seq(Chunk) /\ taken' \in Seq(Chunk) /\ parked' \in Seq(Posts)
    BY <1>4, <2>1 DEF Take
  <2>. QED
    BY <1>0, <1>4, <2>2 DEF UplinkTypes, QueueOK
<1>5. ASSUME DropReceiver, UNCHANGED <<queue, ownerStarted, poisoned, post, taken, waited, owners>>
      PROVE  UplinkTypes'
  <2>1. chan' = <<>> /\ parked' = <<>> /\ rxOpen' = FALSE
    BY <1>5 DEF DropReceiver
  <2>2. <<>> \in Seq(Chunk) /\ <<>> \in Seq(Posts)
    OBVIOUS
  <2>. QED
    BY <1>0, <1>5, <2>1, <2>2 DEF UplinkTypes, QueueOK
<1>6. CASE Establish
  <2>1. CASE HeaderChunk
    BY <1>4, <2>1 DEF HeaderChunk, objectVars
  <2>2. CASE AbandonUnframed \/ Settled
    BY <1>5, <2>2 DEF AbandonUnframed, Settled, objectVars, history
  <2>3. CASE HeaderTimeout \/ Refuse \/ StartDial \/ DialFails \/ Dialed \/ LeadingFails
                \/ LeadingWritten
    BY <1>1, <2>3 DEF HeaderTimeout, Refuse, StartDial, DialFails, Dialed, LeadingFails,
       LeadingWritten, objectVars, ObjectOfOwner, uplinkVars, history
  <2>. QED
    BY <1>6, <2>1, <2>2, <2>3 DEF Establish
<1>7. CASE Upstream
  <2>1. CASE UpTakes
    BY <1>4, <2>1 DEF UpTakes, UpUnchanged, objectVars
  <2>2. CASE UpEnds
    BY <1>5, <2>2 DEF UpEnds, UpUnchanged, objectVars
  <2>3. CASE UpWrites \/ UpCancelled
    BY <1>1, <2>3 DEF UpWrites, UpCancelled, UpUnchanged, objectVars, uplinkVars
  <2>. QED
    BY <1>7, <2>1, <2>2, <2>3 DEF Upstream
<1>8. CASE Downlink \/ DestCloses
  BY <1>1, <1>8 DEF Downlink, DestCloses, DnPrologue, DnPrologueFails, DnReads, DnEnds, DnShips,
     DnReceiverGone, DnEncodeFails, DnUnchanged, objectVars, uplinkVars
<1>9. CASE Supervise
  <2>1. UNCHANGED <<queue, ownerStarted, poisoned, post, taken, waited, owners>>
    BY <1>9 DEF Supervise, SupEvent, SupTick, RelaysDone, SupUnchanged, ObjectOfOwner, history
  <2>2. DropReceiver \/ UNCHANGED <<chan, parked, rxOpen>>
    BY <1>9 DEF Supervise, SupEvent, SupTick, RelaysDone, Obey, EndSession, uplinkVars
  <2>. QED
    BY <1>1, <1>5, <2>1, <2>2
<1>. QED
  BY <1>2, <1>3, <1>6, <1>7, <1>8, <1>9 DEF Next

(***************************************************************************)
(* The downlink stays well typed.                                          *)
(***************************************************************************)
LEMMA DownTypesKept ==
  ASSUME Types, Next
  PROVE  DownTypes'
<1>0. DownTypes /\ DownDepth \in Nat
  BY TypesSplit, SessionAssumption
<1>. DEFINE downState == <<downHeld, sharedDown, ended, get, down, downParked, buf, read, got>>
<1>1. ASSUME UNCHANGED downState
      PROVE  DownTypes'
  BY <1>0, <1>1 DEF DownTypes
<1>2. ASSUME NEW p \in Posts, Post(p)
      PROVE  DownTypes'
  BY <1>1, <1>2 DEF Post, PostArrives, PostBodyRefused, PostRefused, PostPushes, PostResumes,
     objectVars, downVars, ownerVars, pumpVars, history
<1>3. ASSUME NEW g \in Gets, GetArrives(g)
      PROVE  DownTypes'
  <2>1. UNCHANGED <<sharedDown, ended, down, downParked, buf, read, got>>
    BY <1>3 DEF GetArrives, downVars, ownerVars, pumpVars, history
  <2>2. get' \in [Gets -> {"idle", "streaming", "closed", "gone"} \cup Statuses]
    BY <1>0, <1>3 DEF GetArrives, DownTypes, Statuses
  <2>3. downHeld' \in BOOLEAN
    BY <1>0, <1>3 DEF GetArrives, DownTypes
  <2>. QED
    BY <1>0, <2>1, <2>2, <2>3 DEF DownTypes
<1>4. ASSUME NEW g \in Gets, GetTakes(g)
      PROVE  DownTypes'
  <2>1. UNCHANGED <<downHeld, sharedDown, ended, get, buf, read>>
    BY <1>4 DEF GetTakes, objectVars, ownerVars, pumpVars
  <2>2. down \in Seq(Nat) /\ down # <<>> /\ Len(down) <= DownDepth + 1 /\ got \in Nat
    BY <1>0, <1>4 DEF GetTakes, DownTypes
  <2>3. /\ down' \in Seq(Nat) /\ Len(down') = Len(down) - 1 /\ got' \in Nat
        /\ downParked' = FALSE
    BY <1>4, <2>2 DEF GetTakes
  <2>4. Len(down') <= DownDepth + 1 /\ Len(down') <= DownDepth
    BY <1>0, <2>2, <2>3
  <2>. QED
    BY <1>0, <2>1, <2>3, <2>4 DEF DownTypes
<1>5. ASSUME NEW g \in Gets, GetCloses(g) \/ GetLeaves(g)
      PROVE  DownTypes'
  <2>1. UNCHANGED <<downHeld, sharedDown, ended, buf, read, got>>
    BY <1>5 DEF GetCloses, GetLeaves, objectVars, ownerVars, pumpVars, history
  <2>2. get' \in [Gets -> {"idle", "streaming", "closed", "gone"} \cup Statuses]
    BY <1>0, <1>5 DEF GetCloses, GetLeaves, DownTypes
  <2>3. UNCHANGED <<down, downParked>> \/ (down' = <<>> /\ downParked' = FALSE)
    BY <1>5 DEF GetCloses, GetLeaves, downVars
  <2>4. <<>> \in Seq(Nat) /\ Len(<<>>) = 0
    OBVIOUS
  <2>5. downParked' \in BOOLEAN
    BY <1>0, <2>3, Zenon DEF DownTypes
  <2>6. /\ down' \in Seq(Nat)
        /\ Len(down') <= DownDepth + 1 /\ (~downParked' => Len(down') <= DownDepth)
    <3>1. CASE UNCHANGED <<down, downParked>>
      BY <1>0, <3>1 DEF DownTypes
    <3>2. CASE down' = <<>>
      BY <1>0, <2>4, <3>2
    <3>. QED
      BY <2>3, <3>1, <3>2
  <2>. QED
    BY <1>0, <2>1, <2>2, <2>5, <2>6 DEF DownTypes
<1>6. ASSUME sharedDown' = FALSE, ended' = TRUE,
             UNCHANGED <<downHeld, get, down, downParked, buf, read, got>>
      PROVE  DownTypes'
  <2>1. {downHeld', sharedDown', ended'} \subseteq BOOLEAN
    BY <1>0, <1>6, Zenon DEF DownTypes
  <2>. QED
    BY <1>0, <1>6, <2>1 DEF DownTypes
<1>7. CASE Establish
  <2>1. CASE Refuse \/ DialFails \/ LeadingFails
    BY <1>6, <2>1 DEF Refuse, DialFails, LeadingFails, Finalize, ObjectOfOwner, downVars, pumpVars,
       history
  <2>2. CASE HeaderChunk \/ HeaderTimeout \/ StartDial \/ AbandonUnframed \/ Dialed
               \/ LeadingWritten \/ Settled
    BY <1>1, <2>2 DEF HeaderChunk, HeaderTimeout, StartDial, AbandonUnframed, Dialed,
       LeadingWritten, Settled, objectVars, downVars, pumpVars, history
  <2>. QED
    BY <1>7, <2>1, <2>2 DEF Establish
<1>8. CASE Upstream
  BY <1>1, <1>8 DEF Upstream, UpTakes, UpWrites, UpCancelled, UpEnds, UpUnchanged, objectVars,
     downVars
<1>9. CASE Downlink \/ DestCloses
  <2>1. UNCHANGED <<downHeld, sharedDown, ended, get, got>>
    BY <1>9 DEF Downlink, DestCloses, DnPrologue, DnPrologueFails, DnReads, DnEnds, DnShips,
       DnReceiverGone, DnEncodeFails, DnUnchanged, objectVars
  <2>2. ASSUME NEW n \in Nat, PushDown(n), DnRuns
        PROVE  /\ down' \in Seq(Nat) /\ downParked' \in BOOLEAN
               /\ Len(down') <= DownDepth + 1 /\ (~downParked' => Len(down') <= DownDepth)
    <3>1. down \in Seq(Nat) /\ Len(down) <= DownDepth
      BY <1>0, <2>2 DEF DownTypes, DnRuns
    <3>2. down' \in Seq(Nat) /\ Len(down') = Len(down) + 1
      BY <2>2, <3>1 DEF PushDown
    <3>3. downParked' = (Len(down') > DownDepth)
      BY <2>2 DEF PushDown
    <3>4. downParked' \in BOOLEAN
      <4>1. (Len(down') > DownDepth) \in BOOLEAN
        OBVIOUS
      <4>. QED
        BY <3>3, <4>1, Zenon
    <3>5. ~downParked' => ~(Len(down') > DownDepth)
      BY <3>3, Zenon
    <3>. QED
      BY <1>0, <3>1, <3>2, <3>4, <3>5
  <2>3. CASE DnPrologue \/ DnShips
    <3>1. UNCHANGED read /\ buf' \in Nat
      BY <1>0, <2>3 DEF DnPrologue, DnShips, DownTypes
    <3>2. DnRuns /\ \E n \in Nat : PushDown(n)
      BY <1>0, <2>3 DEF DnPrologue, DnShips, DownTypes
    <3>. QED
      BY <1>0, <2>1, <2>2, <3>1, <3>2 DEF DownTypes
  <2>4. CASE ~(DnPrologue \/ DnShips)
    <3>1. UNCHANGED <<down, downParked>> /\ buf' \in Nat /\ read' \in Nat
      BY <1>0, <1>9, <2>4 DEF Downlink, DestCloses, DnPrologueFails, DnReads, DnEnds,
         DnReceiverGone, DnEncodeFails, DownTypes, downVars
    <3>. QED
      BY <1>0, <2>1, <3>1 DEF DownTypes
  <2>. QED
    BY <2>3, <2>4
<1>10. CASE Supervise
  <2>1. UNCHANGED <<downHeld, get, down, downParked, buf, read, got>>
    BY <1>10 DEF Supervise, SupEvent, SupTick, RelaysDone, SupUnchanged, ObjectOfOwner, downVars,
       history
  <2>2. (sharedDown' = FALSE /\ ended' = TRUE) \/ UNCHANGED <<sharedDown, ended>>
    BY <1>10 DEF Supervise, SupEvent, SupTick, RelaysDone, Obey, EndSession, Finalize
  <2>. QED
    BY <1>1, <1>6, <2>1, <2>2
<1>. QED
  BY <1>2, <1>3, <1>4, <1>5, <1>7, <1>8, <1>9, <1>10 DEF Next

(***************************************************************************)
(* The owner stays well typed.                                             *)
(***************************************************************************)
LEMMA OwnerTypesKept ==
  ASSUME Types, Next
  PROVE  OwnerTypes'
<1>0. OwnerTypes
  BY TypesSplit
<1>. DEFINE ownerState == <<header, up, dn, destOpen, cancel, events, exit>>
<1>1. ASSUME UNCHANGED ownerState,
             \/ phase' = phase
             \/ phase' \in {"header", "join", "dial", "leading", "relay", "settling", "done",
                            "aborted"}
      PROVE  OwnerTypes'
  BY <1>0, <1>1 DEF OwnerTypes
<1>2. ASSUME NEW p \in Posts, Post(p)
      PROVE  OwnerTypes'
  BY <1>1, <1>2 DEF Post, PostArrives, PostBodyRefused, PostRefused, PostPushes, PostResumes,
     ownerVars, pumpVars
<1>3. ASSUME NEW g \in Gets, GetArrives(g) \/ GetTakes(g) \/ GetCloses(g) \/ GetLeaves(g)
      PROVE  OwnerTypes'
  BY <1>1, <1>3 DEF GetArrives, GetTakes, GetCloses, GetLeaves, ownerVars, pumpVars
<1>4. CASE Establish
  <2>1. UNCHANGED <<up, dn, destOpen, cancel, events, exit>>
    BY <1>4 DEF Establish, HeaderChunk, HeaderTimeout, Refuse, StartDial, AbandonUnframed,
       DialFails, Dialed, LeadingFails, LeadingWritten, Settled, pumpVars
  <2>2. /\ header' \in {"none", "bad", "good"}
        /\ phase' \in {"header", "join", "dial", "leading", "relay", "settling", "done",
                       "aborted"}
    <3>1. CASE HeaderChunk
      BY <3>1 DEF HeaderChunk
    <3>2. CASE HeaderTimeout
      BY <3>2 DEF HeaderTimeout
    <3>3. CASE ~HeaderChunk /\ ~HeaderTimeout
      BY <1>0, <1>4, <3>3 DEF Establish, Refuse, StartDial, AbandonUnframed, DialFails, Dialed,
         LeadingFails, LeadingWritten, Settled, Finalize, OwnerTypes
    <3>. QED
      BY <3>1, <3>2, <3>3
  <2>. QED
    BY <1>0, <2>1, <2>2 DEF OwnerTypes
<1>5. ASSUME NEW e \in Event, events' = Append(events, e)
      PROVE  events' \in Seq(Event)
  BY <1>0, <1>5 DEF OwnerTypes
<1>6. CASE Upstream
  <2>1. UNCHANGED <<phase, header, dn, destOpen, cancel, exit>>
    BY <1>6 DEF Upstream, UpTakes, UpWrites, UpCancelled, UpEnds, UpUnchanged
  <2>2. up' \in {"wait", "write", "shutdown", "done"}
    BY <1>6 DEF Upstream, UpTakes, UpWrites, UpCancelled, UpEnds
  <2>3. UNCHANGED events \/ \E e \in {"Poisoned", "UpBytes", "UpDone"} : events' = Append(events, e)
    BY <1>6 DEF Upstream, UpTakes, UpWrites, UpCancelled, UpEnds
  <2>4. events' \in Seq(Event)
    BY <1>0, <1>5, <2>3 DEF Event, Bytes, OwnerTypes
  <2>. QED
    BY <1>0, <2>1, <2>2, <2>4 DEF OwnerTypes
<1>7. CASE Downlink \/ DestCloses
  <2>1. UNCHANGED <<phase, header, up, cancel>>
    BY <1>7 DEF Downlink, DestCloses, DnPrologue, DnPrologueFails, DnReads, DnEnds, DnShips,
       DnReceiverGone, DnEncodeFails, DnUnchanged
  <2>2. /\ dn' \in {"prologue", "read", "coalesce", "done", "returned"} /\ destOpen' \in BOOLEAN
        /\ exit' \in WindDown \cup {"none", "ReceiverGone"}
    BY <1>0, <1>7 DEF Downlink, DestCloses, DnPrologue, DnPrologueFails, DnReads, DnEnds, DnShips,
       DnReceiverGone, DnEncodeFails, DnFinishes, OwnerTypes, WindDown
  <2>3. \/ UNCHANGED events
        \/ \E e \in WindDown \cup {"DownBytes", "ReceiverGone"} : events' = Append(events, e)
    BY <1>7 DEF Downlink, DestCloses, DnPrologue, DnPrologueFails, DnReads, DnEnds, DnShips,
       DnReceiverGone, DnEncodeFails, DnFinishes, WindDown
  <2>4. events' \in Seq(Event)
    BY <1>0, <1>5, <2>3 DEF Event, Bytes, OwnerTypes
  <2>. QED
    BY <1>0, <2>1, <2>2, <2>4 DEF OwnerTypes
<1>8. CASE Supervise
  <2>1. UNCHANGED <<header, up, dn, destOpen, exit>>
    BY <1>8 DEF Supervise, SupEvent, SupTick, RelaysDone, SupUnchanged
  <2>2. cancel' \in BOOLEAN
    BY <1>0, <1>8 DEF Supervise, SupEvent, SupTick, RelaysDone, Obey, OwnerTypes
  <2>3. phase' = phase \/ phase' = "settling"
    BY <1>8 DEF Supervise, SupEvent, SupTick, RelaysDone, Obey, EndSession, Finalize
  <2>4. events' \in Seq(Event)
    <3>1. CASE SupEvent
      BY <1>0, <3>1 DEF SupEvent, OwnerTypes
    <3>2. CASE SupTick \/ RelaysDone
      BY <1>0, <3>2 DEF SupTick, RelaysDone, OwnerTypes
    <3>. QED
      BY <1>8, <3>1, <3>2 DEF Supervise
  <2>. QED
    BY <1>0, <2>1, <2>2, <2>3, <2>4 DEF OwnerTypes
<1>. QED
  BY <1>2, <1>3, <1>4, <1>6, <1>7, <1>8 DEF Next

(***************************************************************************)
(* The type invariant is inductive together with what the queue holds.     *)
(***************************************************************************)
LEMMA NextTypes ==
  ASSUME Types, [Next]_vars
  PROVE  Types'
<1>1. CASE Next
  BY <1>1, UplinkTypesKept, DownTypesKept, OwnerTypesKept, TypesSplitNext
<1>2. CASE UNCHANGED vars
  BY <1>2 DEF vars, objectVars, uplinkVars, downVars, ownerVars, pumpVars, history, Types, TypeOK,
     QueueOK
<1>. QED
  BY <1>1, <1>2

-----------------------------------------------------------------------------
(* The uplink. *)

\* The invariant of the uplink holds at the start.
LEMMA InitUplink ==
  ASSUME Init
  PROVE  UplinkInv
<1>1. /\ taken = <<>> /\ chan = <<>> /\ Passed = <<>> /\ queue.next_seq = 0 /\ rxOpen = FALSE
      /\ \A p \in Posts : Waiting[p] = <<>> /\ post[p].pc = "idle" /\ post[p].ready = <<>>
  BY DEF Init, Passed, Waiting, EmptyQueue
<1>2. OnTheWay
  BY <1>1 DEF OnTheWay, Distributed, Injective, Range
<1>3. OwnerOK /\ NoneWaits
  BY <1>1 DEF Init, OwnerOK, NoneWaits
<1>4. OrderUntilFirstWait /\ UplinkBlocksWhenFull
  BY <1>1, SessionAssumption DEF Init, OrderUntilFirstWait, OwnerSeesStream, InOrder, Passed,
     UplinkBlocksWhenFull
<1>. QED
  BY <1>2, <1>3, <1>4 DEF UplinkInv

(***************************************************************************)
(* The uplink invariant is inductive: of all steps only those of POSTs,    *)
(* the owner's receiving and the end of its receiver touch it.             *)
(***************************************************************************)
LEMMA NextUplink ==
  ASSUME Types, UplinkInv, [Next]_vars
  PROVE  UplinkInv'
<1>0. TypeOK /\ phase \in {"none", "header", "join", "dial", "leading", "relay", "settling",
                           "done", "aborted"}
  BY DEF Types, TypeOK
<1>. DEFINE uplinkState == <<queue, ownerStarted, chan, parked, rxOpen, owners, taken, waited>>
<1>1. ASSUME UNCHANGED uplinkState, UNCHANGED post, phase' = "none" <=> phase = "none"
      PROVE  UplinkInv'
  BY <1>1, UplinkQuiet
<1>2. ASSUME NEW p \in Posts, Post(p)
      PROVE  UplinkInv'
  <2>1. CASE PostArrives(p) \/ PostBodyRefused(p) \/ PostRefused(p)
    <3>1. UNCHANGED <<uplinkState, phase>>
      BY <2>1 DEF PostArrives, PostBodyRefused, PostRefused, objectVars, uplinkVars, ownerVars,
         history
    <3>2. post[p].ready = <<>> /\ post[p].pc \in {"idle", "body"}
      BY <2>1 DEF PostArrives, PostBodyRefused, PostRefused, UplinkInv, OwnerOK
    <3>3. \A q \in Posts : /\ post'[q].ready = post[q].ready
                           /\ post'[q].pc = "sending" <=> post[q].pc = "sending"
      <4>1. \/ \E s \in Statuses : post' = Answered(p, s)
            \/ post' = [post EXCEPT ![p].pc = "body"]
        BY <2>1 DEF PostArrives, PostBodyRefused, PostRefused, Statuses
      <4>2. CASE \E s \in Statuses : post' = Answered(p, s)
        BY <1>0, <3>2, <4>2 DEF Answered, TypeOK
      <4>3. CASE post' = [post EXCEPT ![p].pc = "body"]
        BY <1>0, <3>2, <4>3 DEF TypeOK
      <4>. QED
        BY <4>1, <4>2, <4>3
    <3>. QED
      BY <3>1, <3>3, UplinkQuiet
  <2>. QED
    BY <1>2, <2>1, UplinkPushed, UplinkResumed DEF Post
<1>3. ASSUME NEW g \in Gets, GetArrives(g) \/ GetTakes(g) \/ GetCloses(g) \/ GetLeaves(g)
      PROVE  UplinkInv'
  BY <1>1, <1>3 DEF GetArrives, GetTakes, GetCloses, GetLeaves, objectVars, uplinkVars, ownerVars,
     history
<1>4. CASE Establish
  <2>1. CASE HeaderChunk
    <3>1. /\ Take /\ phase # "none" /\ phase' # "none"
          /\ UNCHANGED <<queue, ownerStarted, rxOpen, post, owners, waited>>
      BY <2>1 DEF HeaderChunk, objectVars
    <3>. QED
      BY <1>0, <3>1, UplinkTaken
  <2>2. CASE AbandonUnframed \/ Settled
    <3>1. /\ DropReceiver /\ phase # "none" /\ phase' # "none"
          /\ UNCHANGED <<queue, ownerStarted, post, owners, taken, waited>>
      BY <2>2 DEF AbandonUnframed, Settled, objectVars, history
    <3>. QED
      BY <1>0, <3>1, UplinkDropped
  <2>3. CASE HeaderTimeout \/ Refuse \/ StartDial \/ DialFails \/ Dialed \/ LeadingFails
                \/ LeadingWritten
    <3>1. UNCHANGED <<uplinkState, post>> /\ phase # "none" /\ phase' # "none"
      BY <2>3 DEF HeaderTimeout, Refuse, StartDial, DialFails, Dialed, LeadingFails,
         LeadingWritten, Finalize, objectVars, ObjectOfOwner, uplinkVars, history
    <3>. QED
      BY <1>1, <3>1
  <2>. QED
    BY <1>4, <2>1, <2>2, <2>3 DEF Establish
<1>5. CASE Upstream
  <2>1. CASE UpTakes
    <3>1. /\ Take /\ phase # "none" /\ phase' # "none"
          /\ UNCHANGED <<queue, ownerStarted, rxOpen, post, owners, waited>>
      BY <2>1 DEF UpTakes, UpUnchanged, objectVars
    <3>. QED
      BY <1>0, <3>1, UplinkTaken
  <2>2. CASE UpEnds
    <3>1. /\ DropReceiver /\ phase # "none" /\ phase' # "none"
          /\ UNCHANGED <<queue, ownerStarted, post, owners, taken, waited>>
      BY <2>2 DEF UpEnds, UpUnchanged, objectVars
    <3>. QED
      BY <1>0, <3>1, UplinkDropped
  <2>3. CASE UpWrites \/ UpCancelled
    <3>1. UNCHANGED <<uplinkState, post, phase>>
      BY <2>3 DEF UpWrites, UpCancelled, UpUnchanged, objectVars, uplinkVars
    <3>. QED
      BY <1>1, <3>1
  <2>. QED
    BY <1>5, <2>1, <2>2, <2>3 DEF Upstream
<1>6. CASE Downlink \/ DestCloses
  <2>1. UNCHANGED <<uplinkState, post, phase>>
    BY <1>6 DEF Downlink, DestCloses, DnPrologue, DnPrologueFails, DnReads, DnEnds, DnShips,
       DnReceiverGone, DnEncodeFails, DnUnchanged, objectVars, uplinkVars
  <2>. QED
    BY <1>1, <2>1
<1>7. CASE Supervise
  <2>1. /\ UNCHANGED <<queue, ownerStarted, post, taken, waited, owners>>
        /\ phase = "relay" /\ phase' # "none"
    BY <1>7 DEF Supervise, SupEvent, SupTick, RelaysDone, SupUnchanged, ObjectOfOwner, history,
       Obey, EndSession, Finalize
  <2>2. DropReceiver \/ UNCHANGED <<chan, parked, rxOpen>>
    BY <1>7 DEF Supervise, SupEvent, SupTick, RelaysDone, Obey, EndSession, uplinkVars
  <2>3. CASE DropReceiver
    BY <1>0, <2>1, <2>3, UplinkDropped
  <2>4. CASE UNCHANGED <<chan, parked, rxOpen>>
    BY <1>1, <2>1, <2>4
  <2>. QED
    BY <2>2, <2>3, <2>4
<1>8. CASE UNCHANGED vars
  BY <1>1, <1>8 DEF vars, objectVars, uplinkVars, ownerVars, history
<1>. QED
  BY <1>2, <1>3, <1>4, <1>5, <1>6, <1>7, <1>8 DEF Next

-----------------------------------------------------------------------------
(* The downlink. *)

\* The invariant of the downlink holds at the start.
LEMMA InitDown ==
  ASSUME Init
  PROVE  DownInv
<1>1. /\ \A g \in Gets : get[g] = "idle"
      /\ sharedDown = TRUE /\ reason = "none" /\ exit = "none" /\ buf = 0
      /\ down = <<>> /\ got = 0 /\ read = 0
  BY DEF Init
<1>2. ReceiverOK /\ EndOK /\ PumpOK
  BY <1>1 DEF ReceiverOK, Receives, EndOK, PumpOK
<1>3. Accounted
  <2>. DEFINE total == [i \in 0..Len(down) |-> 0]
  <2>1. total \in [0..Len(down) -> Nat] /\ total[0] = 0 /\ Len(down) = 0
    BY <1>1
  <2>2. RunningTotal(total)
    BY <1>1, <2>1 DEF RunningTotal
  <2>. QED
    BY <2>1, <2>2 DEF Accounted
<1>. QED
  BY <1>2, <1>3 DEF DownInv

(***************************************************************************)
(* The client takes the first message: the running total starts one        *)
(* message later.                                                          *)
(***************************************************************************)
LEMMA TotalTaken ==
  ASSUME DownTypes, down # <<>>, got' = got + Head(down), down' = Tail(down),
         UNCHANGED <<buf, read>>,
         NEW total \in [0..Len(down) -> Nat], RunningTotal(total)
  PROVE  \E later \in [0..Len(down') -> Nat] : RunningTotal(later)'
<1>. DEFINE n == Len(down)
            later == [i \in 0..Len(down') |-> total[i + 1]]
<1>1. /\ n \in Nat /\ n > 0 /\ Len(down') = n - 1 /\ down[1] = Head(down)
      /\ \A i \in 1..(n - 1) : down'[i] = down[i + 1]
      /\ got \in Nat
  BY DEF DownTypes
<1>2. /\ \A i \in 0..n : total[i] \in Nat
      /\ total[0] = got /\ \A i \in 1..n : total[i] = total[i - 1] + down[i]
      /\ total[n] + buf = read
  BY DEF RunningTotal
<1>3. later \in [0..Len(down') -> Nat] /\ \A i \in 0..(n - 1) : later[i] = total[i + 1]
  BY <1>1, <1>2
<1>. HIDE DEF later
<1>4. later[0] = got'
  <2>1. total[1] = total[0] + down[1]
    BY <1>1, <1>2
  <2>. QED
    BY <1>1, <1>2, <1>3, <2>1
<1>5. ASSUME NEW i \in 1..(n - 1)
      PROVE  later[i] = later[i - 1] + down'[i]
  <2>1. later[i] = total[i + 1] /\ later[i - 1] = total[i]
    BY <1>1, <1>3
  <2>2. total[i + 1] = total[i] + down[i + 1]
    BY <1>1, <1>2
  <2>. QED
    BY <1>1, <2>1, <2>2
<1>6. later[n - 1] + buf' = read'
  BY <1>1, <1>2, <1>3
<1>. QED
  BY <1>1, <1>3, <1>4, <1>5, <1>6 DEF RunningTotal

(***************************************************************************)
(* The pump pushes what it held: the running total grows by one message.   *)
(***************************************************************************)
LEMMA TotalPushed ==
  ASSUME DownTypes, NEW units \in Nat, PushDown(units), buf = units, buf' = 0,
         UNCHANGED <<got, read>>,
         NEW total \in [0..Len(down) -> Nat], RunningTotal(total)
  PROVE  \E longer \in [0..Len(down') -> Nat] : RunningTotal(longer)'
<1>. DEFINE n == Len(down)
            longer == [i \in 0..Len(down') |-> IF i <= n THEN total[i] ELSE total[n] + units]
<1>1. /\ n \in Nat /\ Len(down') = n + 1 /\ down'[n + 1] = units
      /\ \A i \in 1..n : down'[i] = down[i]
  BY DEF DownTypes, PushDown
<1>2. /\ \A i \in 0..n : total[i] \in Nat
      /\ total[0] = got /\ \A i \in 1..n : total[i] = total[i - 1] + down[i]
      /\ total[n] + buf = read
  BY DEF RunningTotal
<1>3. /\ longer \in [0..Len(down') -> Nat]
      /\ \A i \in 0..n : longer[i] = total[i]
      /\ longer[n + 1] = total[n] + units
  BY <1>1, <1>2
<1>. HIDE DEF longer
<1>4. ASSUME NEW i \in 1..(n + 1)
      PROVE  longer[i] = longer[i - 1] + down'[i]
  <2>1. CASE i = n + 1
    BY <1>1, <1>3, <2>1
  <2>2. CASE i # n + 1
    <3>1. i \in 1..n /\ i - 1 \in 0..n /\ i \in 0..n
      BY <1>1, <2>2
    <3>2. longer[i] = total[i] /\ longer[i - 1] = total[i - 1] /\ down'[i] = down[i]
      BY <1>1, <1>3, <3>1
    <3>. QED
      BY <1>2, <3>1, <3>2
  <2>. QED
    BY <2>1, <2>2
<1>5. longer[0] = got' /\ longer[n + 1] + buf' = read'
  BY <1>1, <1>2, <1>3
<1>. QED
  BY <1>1, <1>3, <1>4, <1>5 DEF RunningTotal

(***************************************************************************)
(* The receiver of the downlink is handed on once.                         *)
(***************************************************************************)
LEMMA NextReceiver ==
  ASSUME Types, ReceiverOK, Next
  PROVE  ReceiverOK'
<1>0. get \in [Gets -> {"idle", "streaming", "closed", "gone"} \cup Statuses]
  BY DEF Types, TypeOK
<1>1. CASE UNCHANGED <<downHeld, get>>
  BY <1>1 DEF ReceiverOK, Receives
<1>2. ASSUME NEW g \in Gets, GetArrives(g)
      PROVE  ReceiverOK'
  <2>1. /\ get[g] = "idle"
        /\ \A h \in Gets : h # g => get'[h] = get[h]
        /\ get'[g] = IF ended THEN "404" ELSE IF downHeld THEN "streaming" ELSE "400"
        /\ downHeld' = (downHeld /\ ended)
    BY <1>0, <1>2 DEF GetArrives
  <2>2. CASE ended
    BY <2>1, <2>2 DEF ReceiverOK, Receives
  <2>3. CASE ~ended /\ downHeld
    BY <2>1, <2>3 DEF ReceiverOK, Receives
  <2>4. CASE ~ended /\ ~downHeld
    BY <2>1, <2>4 DEF ReceiverOK, Receives
  <2>. QED
    BY <2>2, <2>3, <2>4
<1>3. ASSUME NEW g \in Gets, GetCloses(g) \/ GetLeaves(g)
      PROVE  ReceiverOK'
  <2>1. /\ get[g] = "streaming" /\ get'[g] \in {"closed", "gone"} /\ UNCHANGED downHeld
        /\ \A h \in Gets : h # g => get'[h] = get[h]
    BY <1>0, <1>3 DEF GetCloses, GetLeaves, objectVars
  <2>. QED
    BY <2>1 DEF ReceiverOK, Receives
<1>4. ASSUME NEW g \in Gets, GetTakes(g)
      PROVE  ReceiverOK'
  BY <1>1, <1>4 DEF GetTakes, objectVars
<1>5. ASSUME NEW p \in Posts, Post(p)
      PROVE  ReceiverOK'
  BY <1>1, <1>5 DEF Post, PostArrives, PostBodyRefused, PostRefused, PostPushes, PostResumes,
     objectVars
<1>6. CASE Establish
  BY <1>1, <1>6 DEF Establish, HeaderChunk, HeaderTimeout, Refuse, StartDial, AbandonUnframed,
     DialFails, Dialed, LeadingFails, LeadingWritten, Settled, objectVars, ObjectOfOwner
<1>7. CASE Upstream \/ Downlink \/ DestCloses
  BY <1>1, <1>7 DEF Upstream, UpTakes, UpWrites, UpCancelled, UpEnds, UpUnchanged, Downlink,
     DestCloses, DnPrologue, DnPrologueFails, DnReads, DnEnds, DnShips, DnReceiverGone,
     DnEncodeFails, DnUnchanged, objectVars
<1>8. CASE Supervise
  BY <1>1, <1>8 DEF Supervise, SupEvent, SupTick, RelaysDone, SupUnchanged, ObjectOfOwner
<1>. QED
  BY <1>2, <1>3, <1>4, <1>5, <1>6, <1>7, <1>8 DEF Next

(***************************************************************************)
(* The object lets go of its sender in the finalizer, which is the end of  *)
(* the relays; nothing is pushed after that.                               *)
(***************************************************************************)
LEMMA NextEnd ==
  ASSUME Types, OwnerOK, ReceiverOK, EndOK, Next
  PROVE  EndOK'
<1>0. /\ phase \in {"none", "header", "join", "dial", "leading", "relay", "settling", "done",
                    "aborted"}
      /\ get \in [Gets -> {"idle", "streaming", "closed", "gone"} \cup Statuses]
      /\ {ownerStarted, sharedDown} \subseteq BOOLEAN
  BY DEF Types, TypeOK
<1>1. ASSUME UNCHANGED <<phase, reason, sharedDown, get, down>>
      PROVE  EndOK'
  BY <1>1 DEF EndOK
<1>2. ASSUME phase \notin {"settling", "done"}, UNCHANGED <<get, down>>,
             \/ UNCHANGED <<reason, sharedDown>>
             \/ phase' = "settling" /\ sharedDown' = FALSE
      PROVE  EndOK'
  <2>1. sharedDown /\ reason = "none" /\ \A g \in Gets : get[g] # "closed"
    BY <1>2 DEF EndOK
  <2>. QED
    BY <1>2, <2>1 DEF EndOK
<1>3. ASSUME NEW p \in Posts, Post(p)
      PROVE  EndOK'
  <2>1. CASE PostPushes(p)
    <3>1. UNCHANGED <<reason, sharedDown, get, down>>
      BY <2>1 DEF PostPushes, downVars
    <3>2. phase' = phase \/ phase = "none"
      BY <2>1 DEF PostPushes, StartsOwner, OwnerOK
    <3>. QED
      BY <1>1, <1>2, <3>1, <3>2
  <2>2. CASE ~PostPushes(p)
    BY <1>1, <1>3, <2>2 DEF Post, PostArrives, PostBodyRefused, PostRefused, PostResumes,
       objectVars, downVars, ownerVars
  <2>. QED
    BY <2>1, <2>2
<1>4. ASSUME NEW g \in Gets, GetArrives(g) \/ GetTakes(g) \/ GetCloses(g) \/ GetLeaves(g)
      PROVE  EndOK'
  <2>1. UNCHANGED <<phase, reason, sharedDown>>
    BY <1>4 DEF GetArrives, GetTakes, GetCloses, GetLeaves, objectVars, ownerVars
  <2>2. ASSUME NEW h \in Gets, get'[h] = "closed"
        PROVE  ~sharedDown /\ down' = <<>>
    <3>1. CASE GetArrives(g)
      BY <1>0, <2>2, <3>1 DEF GetArrives, EndOK, downVars
    <3>2. CASE GetTakes(g)
      BY <1>0, <2>2, <3>2 DEF GetTakes, EndOK
    <3>3. CASE GetCloses(g)
      BY <1>0, <2>2, <3>3 DEF GetCloses, EndOK, downVars
    <3>4. CASE GetLeaves(g)
      BY <1>0, <2>2, <3>4 DEF GetLeaves, EndOK
    <3>. QED
      BY <1>4, <3>1, <3>2, <3>3, <3>4
  <2>. QED
    BY <2>1, <2>2 DEF EndOK
<1>5. CASE Establish
  <2>1. CASE Settled
    BY <2>1 DEF Settled, EndOK, objectVars, downVars
  <2>2. CASE ~Settled
    <3>1. phase \notin {"settling", "done"} /\ UNCHANGED <<get, down>>
      BY <1>5, <2>2 DEF Establish, HeaderChunk, HeaderTimeout, Refuse, StartDial,
         AbandonUnframed, DialFails, Dialed, LeadingFails, LeadingWritten, downVars
    <3>2. \/ UNCHANGED <<reason, sharedDown>>
          \/ phase' = "settling" /\ sharedDown' = FALSE
      BY <1>5, <2>2 DEF Establish, HeaderChunk, HeaderTimeout, Refuse, StartDial,
         AbandonUnframed, DialFails, Dialed, LeadingFails, LeadingWritten, Finalize, objectVars
    <3>. QED
      BY <1>2, <3>1, <3>2
  <2>. QED
    BY <2>1, <2>2
<1>6. CASE Upstream
  BY <1>1, <1>6 DEF Upstream, UpTakes, UpWrites, UpCancelled, UpEnds, UpUnchanged, objectVars,
     downVars
<1>7. CASE Downlink \/ DestCloses
  <2>1. UNCHANGED <<phase, reason, sharedDown, get>> /\ phase = "relay"
    BY <1>7 DEF Downlink, DestCloses, DnPrologue, DnPrologueFails, DnReads, DnEnds, DnShips,
       DnReceiverGone, DnEncodeFails, DnUnchanged, DnRuns, objectVars
  <2>. QED
    BY <2>1 DEF EndOK
<1>8. CASE Supervise
  <2>1. UNCHANGED <<get, down>> /\ phase = "relay"
    BY <1>8 DEF Supervise, SupEvent, SupTick, RelaysDone, SupUnchanged, downVars
  <2>2. \/ UNCHANGED <<reason, sharedDown>>
        \/ phase' = "settling" /\ sharedDown' = FALSE
    BY <1>8 DEF Supervise, SupEvent, SupTick, RelaysDone, Obey, EndSession, Finalize
  <2>. QED
    BY <1>2, <2>1, <2>2
<1>. QED
  BY <1>3, <1>4, <1>5, <1>6, <1>7, <1>8 DEF Next

(***************************************************************************)
(* The downlink pump ends normally only when it has nothing left to send.  *)
(***************************************************************************)
LEMMA NextPump ==
  ASSUME PumpOK, Next
  PROVE  PumpOK'
<1>1. CASE UNCHANGED <<dn, buf, exit>>
  BY <1>1 DEF PumpOK
<1>2. CASE Downlink \/ DestCloses
  BY <1>2 DEF Downlink, DestCloses, DnPrologue, DnPrologueFails, DnReads, DnEnds, DnShips,
     DnReceiverGone, DnEncodeFails, DnFinishes, PumpOK
<1>3. ASSUME NEW p \in Posts, Post(p)
      PROVE  PumpOK'
  BY <1>1, <1>3 DEF Post, PostArrives, PostBodyRefused, PostRefused, PostPushes, PostResumes,
     ownerVars, pumpVars
<1>4. ASSUME NEW g \in Gets, GetArrives(g) \/ GetTakes(g) \/ GetCloses(g) \/ GetLeaves(g)
      PROVE  PumpOK'
  BY <1>1, <1>4 DEF GetArrives, GetTakes, GetCloses, GetLeaves, ownerVars, pumpVars
<1>5. CASE Establish
  BY <1>1, <1>5 DEF Establish, HeaderChunk, HeaderTimeout, Refuse, StartDial, AbandonUnframed,
     DialFails, Dialed, LeadingFails, LeadingWritten, Settled, pumpVars
<1>6. CASE Upstream \/ Supervise
  BY <1>1, <1>6 DEF Upstream, UpTakes, UpWrites, UpCancelled, UpEnds, UpUnchanged, Supervise,
     SupEvent, SupTick, RelaysDone, SupUnchanged
<1>. QED
  BY <1>2, <1>3, <1>4, <1>5, <1>6 DEF Next

(***************************************************************************)
(* What was read stays accounted for.                                      *)
(***************************************************************************)
LEMMA NextAccounted ==
  ASSUME Types, PumpOK, Accounted, Next
  PROVE  Accounted'
<1>0. DownTypes /\ get \in [Gets -> {"idle", "streaming", "closed", "gone"} \cup Statuses]
  BY TypesSplit DEF DownTypes
<1>. DEFINE Stayed == \A g \in Gets : get[g] # "gone"
<1>1. ASSUME UNCHANGED <<down, got, buf, read>>, Stayed' => Stayed
      PROVE  Accounted'
  BY <1>1 DEF Accounted, RunningTotal
<1>2. ASSUME NEW p \in Posts, Post(p)
      PROVE  Accounted'
  BY <1>1, <1>2 DEF Post, PostArrives, PostBodyRefused, PostRefused, PostPushes, PostResumes,
     downVars, ownerVars, pumpVars, history
<1>3. ASSUME NEW g \in Gets, GetArrives(g) \/ GetCloses(g)
      PROVE  Accounted'
  <2>1. UNCHANGED <<down, got, buf, read>>
    BY <1>3 DEF GetArrives, GetCloses, downVars, ownerVars, pumpVars, history
  <2>2. Stayed' => Stayed
    BY <1>0, <1>3 DEF GetArrives, GetCloses
  <2>. QED
    BY <1>1, <2>1, <2>2
<1>4. ASSUME NEW g \in Gets, GetLeaves(g)
      PROVE  Accounted'
  <2>1. get'[g] = "gone"
    BY <1>0, <1>4 DEF GetLeaves
  <2>. QED
    BY <2>1 DEF Accounted
<1>5. ASSUME NEW g \in Gets, GetTakes(g)
      PROVE  Accounted'
  <2>1. /\ down # <<>> /\ got' = got + Head(down) /\ down' = Tail(down)
        /\ UNCHANGED <<get, buf, read>>
    BY <1>5 DEF GetTakes, ownerVars, pumpVars
  <2>. SUFFICES ASSUME Stayed
                PROVE  \E total \in [0..Len(down') -> Nat] : RunningTotal(total)'
    BY <2>1 DEF Accounted
  <2>2. PICK total \in [0..Len(down) -> Nat] : RunningTotal(total)
    BY DEF Accounted
  <2>. QED
    BY <1>0, <2>1, <2>2, TotalTaken
<1>6. CASE Establish
  BY <1>1, <1>6 DEF Establish, HeaderChunk, HeaderTimeout, Refuse, StartDial, AbandonUnframed,
     DialFails, Dialed, LeadingFails, LeadingWritten, Settled, downVars, pumpVars, history
<1>7. CASE Upstream \/ Supervise
  BY <1>1, <1>7 DEF Upstream, UpTakes, UpWrites, UpCancelled, UpEnds, UpUnchanged, Supervise,
     SupEvent, SupTick, RelaysDone, SupUnchanged, downVars, history
<1>8. CASE Downlink \/ DestCloses
  <2>1. UNCHANGED <<get, got>>
    BY <1>8 DEF Downlink, DestCloses, DnPrologue, DnPrologueFails, DnReads, DnEnds, DnShips,
       DnReceiverGone, DnEncodeFails, DnUnchanged
  <2>2. CASE DnReads
    <3>1. UNCHANGED down /\ buf' = buf + 1 /\ read' = read + 1 /\ buf \in Nat /\ read \in Nat
      BY <1>0, <2>2 DEF DnReads, downVars, DownTypes
    <3>2. \A total \in [0..Len(down) -> Nat] : RunningTotal(total) => RunningTotal(total)'
      <4>1. down \in Seq(Nat)
        BY <1>0 DEF DownTypes
      <4>2. \A total \in [0..Len(down) -> Nat] : total[Len(down)] \in Nat
        BY <4>1
      <4>. QED
        BY <2>1, <3>1, <4>2 DEF RunningTotal
    <3>. QED
      BY <2>1, <3>1, <3>2 DEF Accounted
  <2>3. CASE DnPrologue \/ DnShips
    <3>1. PICK units \in Nat : PushDown(units) /\ buf = units /\ buf' = 0 /\ UNCHANGED read
      BY <1>0, <2>3 DEF DnPrologue, DnShips, PumpOK, DownTypes
    <3>. SUFFICES ASSUME Stayed
                  PROVE  \E total \in [0..Len(down') -> Nat] : RunningTotal(total)'
      BY <2>1 DEF Accounted
    <3>2. PICK total \in [0..Len(down) -> Nat] : RunningTotal(total)
      BY DEF Accounted
    <3>. QED
      BY <1>0, <2>1, <3>1, <3>2, TotalPushed
  <2>4. CASE DestCloses \/ DnPrologueFails \/ DnEnds \/ DnReceiverGone \/ DnEncodeFails
    BY <1>1, <2>1, <2>4 DEF DestCloses, DnPrologueFails, DnEnds, DnReceiverGone, DnEncodeFails,
       downVars
  <2>. QED
    BY <1>8, <2>2, <2>3, <2>4 DEF Downlink
<1>. QED
  BY <1>2, <1>3, <1>4, <1>5, <1>6, <1>7, <1>8 DEF Next

\* Every step keeps the invariant of the downlink.
LEMMA NextDown ==
  ASSUME Types, UplinkInv, DownInv, [Next]_vars
  PROVE  DownInv'
<1>1. CASE Next
  BY <1>1, NextReceiver, NextEnd, NextPump, NextAccounted DEF DownInv, UplinkInv
<1>2. CASE UNCHANGED vars
  BY <1>2 DEF vars, objectVars, downVars, ownerVars, pumpVars, history, DownInv, ReceiverOK,
     Receives, EndOK, PumpOK, Accounted, RunningTotal
<1>. QED
  BY <1>1, <1>2
-----------------------------------------------------------------------------
(* The theorems. *)

(***************************************************************************)
(* The three layers together hold in every reachable state of the session. *)
(***************************************************************************)
LEMMA SessionInvariant == Spec => []IInv
<1>1. Init => IInv
  BY InitTypes, InitUplink, InitDown DEF IInv
<1>2. IInv /\ [Next]_vars => IInv'
  BY NextTypes, NextUplink, NextDown DEF IInv
<1>. QED
  BY <1>1, <1>2, PTL DEF Spec

(***************************************************************************)
(* Every variable of the session has its type; the downlink channel holds  *)
(* at most one message beyond its buffer.                                  *)
(***************************************************************************)
THEOREM TypeCorrect == Spec => []TypeOK
<1>1. IInv => TypeOK
  BY DEF IInv, Types
<1>. QED
  BY <1>1, SessionInvariant, PTL

(***************************************************************************)
(* Until some POST has had to wait for room in the uplink channel, what    *)
(* reaches the outbound socket is what the client wrote, in order and      *)
(* without a gap, however the POSTs overtake each other.                   *)
(***************************************************************************)
THEOREM KeepsOrderUntilFirstWait == Spec => []OrderUntilFirstWait
<1>1. IInv => OrderUntilFirstWait
  BY DEF IInv, UplinkInv
<1>. QED
  BY <1>1, SessionInvariant, PTL

(***************************************************************************)
(* However POSTs are retried, overtake each other or wait, there is one    *)
(* owner, no chunk reaches it twice, and none that the queue released is   *)
(* lost while the owner listens.                                           *)
(***************************************************************************)
THEOREM HandsOverOnceEach == Spec => []OnceEachOnTheWay
<1>1. IInv => OnceEachOnTheWay
  <2>. SUFFICES ASSUME IInv
                PROVE  OnceEachOnTheWay
    OBVIOUS
  <2>1. Distributed(Passed, Waiting, queue.next_seq, rxOpen) /\ owners <= 1
    BY DEF IInv, UplinkInv, OnTheWay, OwnerOK
  <2>2. \A p \in Posts : Waiting[p] = post[p].ready
    BY DEF Waiting
  <2>3. /\ Injective(Passed) /\ Range(Passed) \subseteq 0..(queue.next_seq - 1)
        /\ \A p \in Posts :
              /\ Range(post[p].ready) \subseteq 0..(queue.next_seq - 1)
              /\ Range(post[p].ready) \cap Range(Passed) = {}
              /\ \A q \in Posts : p # q => Range(post[p].ready) \cap Range(post[q].ready) = {}
    BY <2>1, <2>2 DEF Distributed
  <2>4. rxOpen => 0..(queue.next_seq - 1)
                     \subseteq Range(Passed) \cup UNION {Range(post[p].ready) : p \in Posts}
    BY <2>1, <2>2 DEF Distributed
  <2>. QED
    BY <2>1, <2>3, <2>4 DEF OnceEachOnTheWay, Passed, Injective
<1>. QED
  BY <1>1, SessionInvariant, PTL

(***************************************************************************)
(* The uplink channel never holds more beyond its depth than one chunk for *)
(* each POST that is blocked on it.                                        *)
(***************************************************************************)
THEOREM BlocksWhenFull == Spec => []UplinkBlocksWhenFull
<1>1. IInv => UplinkBlocksWhenFull
  BY DEF IInv, UplinkInv
<1>. QED
  BY <1>1, SessionInvariant, PTL

(***************************************************************************)
(* When the stream to a client has ended because the destination closed,   *)
(* the client has received all that was read from it.                      *)
(***************************************************************************)
THEOREM DeliversAllAtEof == Spec => []EofDeliversAll
<1>1. IInv => EofDeliversAll
  <2>. SUFFICES ASSUME IInv, NEW g \in Gets, get[g] = "closed", exit \in {"Eof", "ReadError"}
                PROVE  got = read
    BY DEF EofDeliversAll
  <2>1. down = <<>> /\ buf = 0
    BY DEF IInv, DownInv, EndOK, PumpOK
  <2>2. \A h \in Gets : get[h] # "gone"
    BY DEF IInv, DownInv, ReceiverOK, Receives
  <2>3. PICK total \in [0..Len(down) -> Nat] : RunningTotal(total)
    BY <2>2 DEF IInv, DownInv, Accounted
  <2>4. Len(down) = 0 /\ got \in Nat
    BY <2>1 DEF IInv, Types, TypeOK
  <2>. QED
    BY <2>1, <2>3, <2>4 DEF RunningTotal
<1>. QED
  BY <1>1, SessionInvariant, PTL
-----------------------------------------------------------------------------
(* The session implements the ordered stream. *)

(***************************************************************************)
(* What the session promises, in the words of OrderedStream: a POST whose  *)
(* chunk the queue takes accepts it, and what the queue has released so    *)
(* far is delivered.  A chunk is identified with its number, so the stream *)
(* of the accepted chunks is the identity on the accepted numbers.         *)
(***************************************************************************)
Released == [i \in 1..queue.next_seq |-> i - 1]
Taken == 0..(queue.next_seq - 1) \cup DOMAIN queue.pending

SessionStream == INSTANCE OrderedStream WITH
    Seqs <- Chunk, accepted <- [t \in Taken |-> t], delivered <- Released

ImplementsOrderedStream == SessionStream!Spec

\* Nothing is released that no POST carried.
ReleasedOK == 0..(queue.next_seq - 1) \subseteq Chunk

(***************************************************************************)
(* A POST the queue answers with a verdict other than duplicate adds its   *)
(* number to those taken, whether it is handed through with the run it     *)
(* unblocks or kept; a duplicate changes nothing.                          *)
(***************************************************************************)
LEMMA TakesOnce ==
  ASSUME Types, ReleasedOK, NEW s \in Chunk, Accepts(queue, s, s),
         queue' = QueueAfter(queue, s, s)
  PROVE  \/ queue' = queue
         \/ s \notin Taken /\ Taken' = Taken \cup {s} /\ ReleasedOK'
<1>. DEFINE n == queue.next_seq
            P == DOMAIN queue.pending
            end == DrainEnd(queue)
<1>1. /\ n \in Nat /\ P \subseteq Chunk /\ P \in SUBSET Nat /\ s \in Nat /\ IsFiniteSet(P)
      /\ \A t \in P : t > n
  BY SessionAssumption DEF Types, TypeOK, QueueOK
<1>2. CASE Verdict(queue, s, s) = "ready"
  <2>1. s = n
    BY <1>2 DEF Verdict
  <2>2. /\ end \in Nat /\ end >= n + 1
        /\ \A j \in (n + 1)..(end - 1) : j \in P
    BY <1>1, DrainStops DEF DrainEnd
  <2>3. /\ queue'.next_seq = end
        /\ DOMAIN queue'.pending = {u \in P : u >= end}
    BY <1>2 DEF QueueAfter, AfterDrain
  <2>. HIDE DEF end
  <2>4. s \notin Taken
    BY <1>1, <2>1 DEF Taken
  <2>5. ASSUME NEW t \in Nat
        PROVE  t \in 0..(end - 1) \/ (t \in P /\ t >= end) <=> t \in 0..(n - 1) \/ t \in P \/ t = s
    <3>1. t < n \/ t = n \/ t \in (n + 1)..(end - 1) \/ t >= end
      BY <1>1, <2>2
    <3>. QED
      BY <1>1, <2>1, <2>2, <3>1
  <2>6. Taken' = Taken \cup {s}
    <3>1. Taken' = 0..(end - 1) \cup {u \in P : u >= end}
      BY <2>3 DEF Taken
    <3>2. Taken' \subseteq Nat /\ Taken \cup {s} \subseteq Nat
      BY <1>1, <2>2, <3>1 DEF Taken
    <3>. QED
      BY <1>1, <2>5, <3>1, <3>2 DEF Taken
  <2>7. 0..(end - 1) \subseteq Chunk
    <3>1. Taken \cup {s} \subseteq Chunk
      BY <1>1 DEF Taken, ReleasedOK
    <3>2. 0..(end - 1) \subseteq Taken'
      BY <2>3 DEF Taken
    <3>. QED
      BY <2>6, <3>1, <3>2
  <2>8. ReleasedOK'
    BY <2>3, <2>7 DEF ReleasedOK
  <2>. QED
    BY <2>4, <2>6, <2>8
<1>3. CASE Verdict(queue, s, s) = "buffered"
  <2>1. ~(s < n) /\ s \notin P
    BY <1>3 DEF Verdict, IsDuplicate
  <2>2. queue'.next_seq = n /\ DOMAIN queue'.pending = P \cup {s}
    BY <1>3 DEF QueueAfter, AfterBuffering
  <2>3. s \notin Taken
    BY <1>1, <2>1 DEF Taken
  <2>4. Taken' = Taken \cup {s}
    BY <2>2 DEF Taken
  <2>5. ReleasedOK'
    BY <2>2 DEF ReleasedOK
  <2>. QED
    BY <2>3, <2>4, <2>5
<1>4. CASE Verdict(queue, s, s) = "duplicate"
  BY <1>4 DEF QueueAfter
<1>. QED
  BY <1>2, <1>3, <1>4 DEF Accepts

(***************************************************************************)
(* Only a POST whose body has arrived and that the queue accepts changes   *)
(* the queue.                                                              *)
(***************************************************************************)
LEMMA OnlyPushesTouchQueue ==
  ASSUME [Next]_vars
  PROVE  \/ queue' = queue
         \/ \E p \in Posts : PostPushes(p)
<1>1. CASE \E p \in Posts : Post(p)
  BY <1>1 DEF Post, PostArrives, PostBodyRefused, PostRefused, PostResumes, objectVars
<1>2. CASE \E g \in Gets : GetArrives(g) \/ GetTakes(g) \/ GetCloses(g) \/ GetLeaves(g)
  BY <1>2 DEF GetArrives, GetTakes, GetCloses, GetLeaves, objectVars
<1>3. CASE Establish
  BY <1>3 DEF Establish, HeaderChunk, HeaderTimeout, Refuse, StartDial, AbandonUnframed,
     DialFails, Dialed, LeadingFails, LeadingWritten, Settled, objectVars, ObjectOfOwner
<1>4. CASE Upstream
  BY <1>4 DEF Upstream, UpTakes, UpWrites, UpCancelled, UpEnds, UpUnchanged, objectVars
<1>5. CASE Downlink \/ DestCloses
  BY <1>5 DEF Downlink, DestCloses, DnPrologue, DnPrologueFails, DnReads, DnEnds, DnShips,
     DnReceiverGone, DnEncodeFails, DnUnchanged, objectVars
<1>6. CASE Supervise
  BY <1>6 DEF Supervise, SupEvent, SupTick, RelaysDone, SupUnchanged, ObjectOfOwner
<1>7. CASE UNCHANGED vars
  BY <1>7 DEF vars, objectVars
<1>. QED
  BY <1>1, <1>2, <1>3, <1>4, <1>5, <1>6, <1>7 DEF Next

(***************************************************************************)
(* After every step, what is released is the longest prefix of what is     *)
(* taken.                                                                  *)
(***************************************************************************)
LEMMA ReleasedIsLongestPrefix ==
  ASSUME Types', ReleasedOK'
  PROVE  /\ Released' \in Seq(Chunk)
         /\ SessionStream!LongestPrefix(Released', [t \in Taken' |-> t])
<1>. DEFINE n == queue'.next_seq
            f == [t \in Taken' |-> t]
<1>1. n \in Nat /\ DOMAIN queue'.pending \subseteq Nat /\ n \notin DOMAIN queue'.pending
  <2>1. n \in Nat /\ DOMAIN queue'.pending \subseteq Chunk
    BY DEF Types, TypeOK
  <2>2. \A t \in DOMAIN queue'.pending : t > n
    BY DEF Types, QueueOK
  <2>3. ~(n > n)
    BY <2>1
  <2>4. n \notin DOMAIN queue'.pending
    BY <2>2, <2>3
  <2>. QED
    BY <2>1, <2>4, SessionAssumption
<1>2. \A i \in 1..n : i - 1 \in 0..(n - 1) /\ Released'[i] = i - 1
  BY <1>1 DEF Released
<1>3. Released' \in [1..n -> Chunk]
  BY <1>2 DEF Released, ReleasedOK
<1>4. Released' \in Seq(Chunk) /\ Len(Released') = n
  <2>. HIDE DEF n
  <2>. QED
    BY <1>1, <1>3, SeqDef, SMTT(30)
<1>5. \A i \in 1..n : i - 1 \in Taken'
  BY <1>2 DEF Taken
<1>6. n \notin Taken'
  BY <1>1 DEF Taken
<1>7. DOMAIN f = Taken' /\ \A t \in Taken' : f[t] = t
  OBVIOUS
<1>. HIDE DEF n, f
<1>8. SessionStream!LongestPrefix(Released', f)
  BY <1>2, <1>4, <1>5, <1>6, <1>7 DEF SessionStream!LongestPrefix
<1>. QED
  BY <1>4, <1>8 DEF f

(***************************************************************************)
(* The session as a whole, its owner, its channels and its two relays      *)
(* included, implements OrderedStream: every step of it accepts one chunk  *)
(* the client had not got accepted before, and releases exactly what is    *)
(* contiguous then, or changes nothing of the stream.                      *)
(***************************************************************************)
THEOREM SessionImplementsStream == Spec => ImplementsOrderedStream
<1>1. Init => SessionStream!Init /\ ReleasedOK
  <2>. SUFFICES ASSUME Init
                PROVE  SessionStream!Init /\ ReleasedOK
    OBVIOUS
  <2>1. queue.next_seq = 0 /\ queue.pending = <<>>
    BY DEF Init, EmptyQueue
  <2>2. Taken = {}
    BY <2>1 DEF Taken
  <2>3. Released = <<>> /\ [t \in Taken |-> t] = <<>>
    BY <2>1, <2>2, SMTT(30) DEF Released
  <2>4. ReleasedOK
    BY <2>1 DEF ReleasedOK
  <2>. QED
    BY <2>3, <2>4 DEF SessionStream!Init
<1>2. IInv /\ IInv' /\ ReleasedOK /\ [Next]_vars
         => ReleasedOK' /\ [SessionStream!Next]_(SessionStream!vars)
  <2>. SUFFICES ASSUME IInv, IInv', ReleasedOK, [Next]_vars
                PROVE  ReleasedOK' /\ [SessionStream!Next]_(SessionStream!vars)
    OBVIOUS
  <2>1. CASE queue' = queue
    <3>1. ReleasedOK'
      BY <2>1 DEF ReleasedOK
    <3>2. Taken' = Taken /\ Released' = Released
      BY <2>1 DEF Taken, Released
    <3>3. UNCHANGED SessionStream!vars
      BY <3>2 DEF SessionStream!vars
    <3>. QED
      BY <3>1, <3>3
  <2>2. CASE queue' # queue
    <3>1. PICK p \in Posts : PostPushes(p)
      BY <2>2, OnlyPushesTouchQueue
    <3>. DEFINE s == PostSeq[p]
    <3>2. s \in Chunk
      BY SessionAssumption
    <3>3. Accepts(queue, s, s) /\ queue' = QueueAfter(queue, s, s)
      BY <3>1 DEF PostPushes
    <3>. HIDE DEF s
    <3>4. s \notin Taken /\ Taken' = Taken \cup {s} /\ ReleasedOK'
      BY <2>2, <3>2, <3>3, TakesOnce DEF IInv
    <3>5. /\ Released' \in Seq(Chunk)
          /\ SessionStream!LongestPrefix(Released', [t \in Taken' |-> t])
      <4>1. Types'
        BY DEF IInv
      <4>. QED
        BY <3>4, <4>1, ReleasedIsLongestPrefix
    <3>6. [t \in Taken' |-> t]
             = [t \in DOMAIN [u \in Taken |-> u] \cup {s} |->
                  IF t = s THEN s ELSE [u \in Taken |-> u][t]]
      BY <3>4
    <3>7. SessionStream!Accept(s, s)
      BY <3>4, <3>5, <3>6 DEF SessionStream!Accept
    <3>. QED
      BY <3>2, <3>4, <3>7 DEF SessionStream!Next
  <2>. QED
    BY <2>1, <2>2
<1>. QED
  BY <1>1, <1>2, SessionInvariant, PTL DEF Spec, SessionStream!Spec, ImplementsOrderedStream
(***************************************************************************)
(* The delivery of the stream is real up to the first wait: until a POST   *)
(* has had to wait for room, what the queue released is what the owner has *)
(* received followed by what is in its channel.                            *)
(***************************************************************************)
ReleasedReachesOwner == ~waited /\ rxOpen => taken \o chan = Released

THEOREM DeliversUntilFirstWait == Spec => []ReleasedReachesOwner
<1>1. IInv => ReleasedReachesOwner
  <2>. SUFFICES ASSUME IInv, ~waited, rxOpen
                PROVE  taken \o chan = Released
    BY DEF ReleasedReachesOwner
  <2>. DEFINE s == taken \o chan
  <2>1. s \in Seq(Chunk) /\ queue.next_seq \in Nat
    BY DEF IInv, Types, TypeOK
  <2>2. InOrder(s) /\ Len(s) = queue.next_seq
    BY DEF IInv, UplinkInv, OrderUntilFirstWait, OwnerSeesStream
  <2>. HIDE DEF s
  <2>3. DOMAIN s = 1..queue.next_seq /\ \A i \in 1..queue.next_seq : s[i] = i - 1
    BY <2>1, <2>2 DEF InOrder
  <2>4. s = [i \in DOMAIN s |-> s[i]]
    BY <2>1
  <2>5. s = Released
    BY <2>3, <2>4 DEF Released
  <2>. QED
    BY <2>5 DEF s
<1>. QED
  BY <1>1, SessionInvariant, PTL
=============================================================================
