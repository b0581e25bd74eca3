-------------------------- MODULE UploadQueueProofs --------------------------
(***************************************************************************)
(* Proofs about UploadQueue, for every set of chunk bodies, every budget   *)
(* and every range of sequence numbers.                                    *)
(*                                                                         *)
(* The argument.  Everything rests on what the drain loop reaches          *)
(* (FirstGapFacts): the smallest missing number after the chunk just       *)
(* handed through.  With it, one inductive invariant relates the queue to  *)
(* the two histories: what was delivered is the prefix 0..next_seq-1 of    *)
(* what was accepted (InOrderOnceEach), and what was accepted is that      *)
(* prefix together with the buffered chunks (NothingLost).  Neither is     *)
(* inductive alone: the first needs to know that the buffered bodies are   *)
(* the accepted ones, the second that no buffered number has been passed.  *)
(* The byte budget is decided on a running total: that the total is what   *)
(* is buffered needs the sum of a finite set to be independent of the      *)
(* order it is taken in (AdditiveExists, by the smallest counterexample),  *)
(* so that what the drain subtracts and what it keeps add up (BytesSplit). *)
(***************************************************************************)
EXTENDS UploadQueue, Integers, FiniteSetTheorems, SequenceTheorems, TLAPS

IInv == TypeOK /\ InOrderOnceEach /\ NothingLost /\ WithinBudget

(***************************************************************************)
(* A nonempty set of naturals has a least element.                         *)
(***************************************************************************)
LEMMA LeastNumber ==
  ASSUME NEW T \in SUBSET Nat, T # {}
  PROVE  \E x \in T : \A y \in T : x <= y
<1>1. PICK x \in T : \A y \in T : <<y, x>> \notin OpToRel(<, Nat)
  BY WFMin, NatLessThanWellFounded, Zenon
<1>2. \A y \in T : ~(y < x)
  BY <1>1, Zenon DEF OpToRel
<1>3. \A y \in T : x <= y
  BY <1>2
<1>. QED
  BY <1>3

(***************************************************************************)
(* The drain loop of push stops, at the first number at or after n that is *)
(* not buffered, and everything it passed was buffered.                    *)
(***************************************************************************)
LEMMA FirstGapFacts ==
  ASSUME NEW S \in SUBSET Nat, IsFiniteSet(S), NEW n \in Nat
  PROVE  /\ FirstGap(S, n) \in Nat
         /\ FirstGap(S, n) >= n
         /\ FirstGap(S, n) \notin S
         /\ \A j \in n..(FirstGap(S, n) - 1) : j \in S
<1>. DEFINE Gaps == {k \in Nat : k >= n /\ k \notin S}
<1>1. Gaps # {}
  <2>1. SUFFICES ASSUME \A k \in Nat : k >= n => k \in S
                 PROVE  FALSE
    OBVIOUS
  <2>2. n..(n + Cardinality(S)) \subseteq S
    BY <2>1, FS_CardinalityType
  <2>3. Cardinality(n..(n + Cardinality(S))) <= Cardinality(S)
    BY <2>2, FS_Subset
  <2>4. Cardinality(n..(n + Cardinality(S))) = Cardinality(S) + 1
    BY FS_CardinalityType, FS_Interval
  <2>. QED
    BY <2>3, <2>4, FS_CardinalityType
<1>2. PICK k \in Gaps : \A j \in Gaps : k <= j
  BY <1>1, LeastNumber
<1>3. \A j \in n..(k - 1) : j \in S
  BY <1>2
<1>4. k \in {n} \cup {j + 1 : j \in S}
  <2>1. CASE k = n
    BY <2>1
  <2>2. CASE k # n
    <3>1. k - 1 \in n..(k - 1)
      BY <1>2, <2>2
    <3>2. k - 1 \in S /\ k = (k - 1) + 1
      BY <1>2, <1>3, <3>1
    <3>. QED
      BY <3>2
  <2>. QED
    BY <2>1, <2>2
<1>5. \E i \in {n} \cup {j + 1 : j \in S} :
         i >= n /\ i \notin S /\ \A j \in n..(i - 1) : j \in S
  BY <1>2, <1>3, <1>4
<1>6. FirstGap(S, n) \in {n} \cup {j + 1 : j \in S}
  BY <1>5 DEF FirstGap
<1>7. FirstGap(S, n) \in Nat
  BY <1>6
<1>. QED
  BY <1>5, <1>7 DEF FirstGap

-----------------------------------------------------------------------------
(* Bytes in a set of buffered chunks.                                      *)

\* The recursion of BytesIn as a property of a function.
SumOver(f, S, g) ==
    g = [T \in SUBSET S |-> IF T = {} THEN 0
                            ELSE LET t == CHOOSE t \in T : TRUE IN Size[f[t]] + g[T \ {t}]]

\* A sum that may be taken in any order.
Additive(f, S, g) ==
    /\ g \in [SUBSET S -> Int]
    /\ g[{}] = 0
    /\ \A T \in SUBSET S : \A t \in T : g[T] = Size[f[t]] + g[T \ {t}]

\* The chunks of f numbered in S.
Chunks(f, S) == \A s \in S : f[s] \in Chunk

(***************************************************************************)
(* The least size of a finite set with a property.                         *)
(***************************************************************************)
LEMMA Smallest ==
  ASSUME NEW S, IsFiniteSet(S), NEW Bad \in SUBSET (SUBSET S), Bad # {}
  PROVE  \E U \in Bad : \A t \in U : U \ {t} \in SUBSET S /\ U \ {t} \notin Bad
<1>. DEFINE Sizes == {Cardinality(U) : U \in Bad}
<1>1. \A U \in SUBSET S : IsFiniteSet(U) /\ Cardinality(U) \in Nat
  BY FS_Subset, FS_CardinalityType
<1>2. Sizes \in SUBSET Nat /\ Sizes # {}
  BY <1>1
<1>3. PICK k \in Sizes : \A j \in Sizes : k <= j
  BY <1>2, LeastNumber
<1>4. PICK U \in Bad : k = Cardinality(U)
  BY <1>3
<1>5. ASSUME NEW t \in U PROVE U \ {t} \in SUBSET S /\ U \ {t} \notin Bad
  <2>1. Cardinality(U \ {t}) = Cardinality(U) - 1
    BY <1>1, <1>4, <1>5, FS_RemoveElement
  <2>2. ~(Cardinality(U) <= Cardinality(U \ {t}))
    BY <1>1, <2>1
  <2>. QED
    BY <1>3, <1>4, <2>2
<1>. QED
  BY <1>1, <1>4, <1>5

(***************************************************************************)
(* BytesIn is a solution of its recursion.                                 *)
(***************************************************************************)
LEMMA BytesUnfold ==
  ASSUME NEW f, NEW S, NEW g, SumOver(f, S, g)
  PROVE  \E h : SumOver(f, S, h) /\ BytesIn(f, S) = h[S]
<1>. DEFINE iter == CHOOSE h : SumOver(f, S, h)
<1>1. SumOver(f, S, iter)
  BY Zenon
<1>2. BytesIn(f, S) = iter[S]
  BY DEF BytesIn, MapThenSumSet, MapThenFoldSet, SumOver
<1>. QED
  BY <1>1, <1>2

(***************************************************************************)
(* Finitely many chunks have a sum that may be taken in any order.         *)
(***************************************************************************)
LEMMA AdditiveExists ==
  ASSUME NEW f, NEW S, IsFiniteSet(S), Chunks(f, S)
  PROVE  \E g : Additive(f, S, g) /\ \A T \in SUBSET S : g[T] >= 0
<1>. DEFINE Sum(U, g) == Additive(f, U, g) /\ \A T \in SUBSET U : g[T] >= 0
            Bad == {U \in SUBSET S : ~\E g : Sum(U, g)}
<1>1. SUFFICES ASSUME Bad # {} PROVE FALSE
  OBVIOUS
<1>2. PICK U \in Bad : \A t \in U : U \ {t} \in SUBSET S /\ U \ {t} \notin Bad
  <2>1. Bad \in SUBSET (SUBSET S)
    OBVIOUS
  <2>. HIDE DEF Bad
  <2>. QED
    BY <1>1, <2>1, Smallest
<1>3. U # {}
  <2>1. Sum({}, [T \in SUBSET {} |-> 0])
    BY DEF Additive
  <2>. QED
    BY <2>1
<1>4. PICK x \in U : TRUE
  BY <1>3
<1>5. PICK g : Sum(U \ {x}, g)
  BY <1>2, <1>4
<1>. DEFINE w == Size[f[x]]
            h == [T \in SUBSET U |-> IF x \in T THEN w + g[T \ {x}] ELSE g[T]]
<1>6. w \in Nat
  BY <1>2, <1>4, SizeAssumption DEF Chunks
<1>7. \A T \in SUBSET U : T \ {x} \in SUBSET (U \ {x}) /\ (x \notin T => T \in SUBSET (U \ {x}))
  OBVIOUS
<1>8. \A T \in SUBSET (U \ {x}) : g[T] \in Int /\ g[T] >= 0
  BY <1>5 DEF Additive
<1>9. h \in [SUBSET U -> Int] /\ \A T \in SUBSET U : h[T] >= 0
  <2>1. \A T \in SUBSET U : h[T] = IF x \in T THEN w + g[T \ {x}] ELSE g[T]
    OBVIOUS
  <2>. HIDE DEF w
  <2>2. \A T \in SUBSET U : h[T] \in Int /\ h[T] >= 0
    BY <1>6, <1>7, <1>8, <2>1
  <2>. QED
    BY <2>2
<1>10. h[{}] = 0
  BY <1>5 DEF Additive
<1>11. ASSUME NEW T \in SUBSET U, NEW t \in T
       PROVE  h[T] = Size[f[t]] + h[T \ {t}]
  <2>1. CASE t = x
    BY <2>1
  <2>2. CASE t # x /\ x \notin T
    <3>1. T \in SUBSET (U \ {x}) /\ T \ {t} \in SUBSET U /\ x \notin T \ {t}
      BY <2>2
    <3>2. g[T] = Size[f[t]] + g[T \ {t}]
      BY <1>5, <3>1 DEF Additive
    <3>. QED
      BY <2>2, <3>1, <3>2
  <2>3. CASE t # x /\ x \in T
    <3>1. /\ T \ {x} \in SUBSET (U \ {x}) /\ T \ {t} \in SUBSET U /\ x \in T \ {t} /\ t \in T \ {x}
          /\ (T \ {t}) \ {x} = (T \ {x}) \ {t} /\ (T \ {x}) \ {t} \in SUBSET (U \ {x})
      BY <2>3
    <3>2. g[T \ {x}] = Size[f[t]] + g[(T \ {x}) \ {t}]
      BY <1>5, <3>1 DEF Additive
    <3>3. h[T] = w + g[T \ {x}] /\ h[T \ {t}] = w + g[(T \ {x}) \ {t}]
      BY <2>3, <3>1
    <3>4. Size[f[t]] \in Nat
      BY <1>2, SizeAssumption DEF Chunks
    <3>5. g[(T \ {x}) \ {t}] \in Int
      BY <1>8, <3>1
    <3>. HIDE DEF w, h
    <3>. QED
      BY <1>6, <3>2, <3>3, <3>4, <3>5
  <2>. QED
    BY <2>1, <2>2, <2>3
<1>12. Sum(U, h)
  <2>. HIDE DEF h
  <2>. QED
    BY <1>9, <1>10, <1>11 DEF Additive
<1>. QED
  BY <1>2, <1>12

(***************************************************************************)
(* BytesIn is that sum.                                                    *)
(***************************************************************************)
LEMMA BytesSum ==
  ASSUME NEW f, NEW S, IsFiniteSet(S), NEW g, Additive(f, S, g)
  PROVE  BytesIn(f, S) = g[S]
<1>1. SumOver(f, S, g)
  <2>1. \A T \in SUBSET S : T # {} => (CHOOSE t \in T : TRUE) \in T
    OBVIOUS
  <2>2. \A T \in SUBSET S : g[T] = IF T = {} THEN 0
           ELSE LET t == CHOOSE t \in T : TRUE IN Size[f[t]] + g[T \ {t}]
    BY <2>1 DEF Additive
  <2>. QED
    BY <2>2 DEF SumOver, Additive
<1>2. PICK h : SumOver(f, S, h) /\ BytesIn(f, S) = h[S]
  BY <1>1, BytesUnfold
<1>. DEFINE Bad == {T \in SUBSET S : h[T] # g[T]}
<1>3. ASSUME Bad # {} PROVE FALSE
  <2>1. PICK U \in Bad : \A t \in U : U \ {t} \in SUBSET S /\ U \ {t} \notin Bad
    <3>1. Bad \in SUBSET (SUBSET S)
      OBVIOUS
    <3>. HIDE DEF Bad
    <3>. QED
      BY <1>3, <3>1, Smallest
  <2>. DEFINE t == CHOOSE t \in U : TRUE
  <2>2. h[U] = (IF U = {} THEN 0 ELSE Size[f[t]] + h[U \ {t}])
    BY <1>2 DEF SumOver
  <2>3. g[U] = (IF U = {} THEN 0 ELSE Size[f[t]] + g[U \ {t}])
    BY <1>1 DEF SumOver
  <2>4. U # {} => h[U \ {t}] = g[U \ {t}]
    BY <2>1
  <2>. QED
    BY <2>1, <2>2, <2>3, <2>4
<1>. QED
  BY <1>2, <1>3

(***************************************************************************)
(* Bytes are a number, and those of a part and of the rest add up.         *)
(***************************************************************************)
LEMMA BytesSplit ==
  ASSUME NEW f, NEW S, IsFiniteSet(S), Chunks(f, S), NEW R \in SUBSET S
  PROVE  /\ BytesIn(f, S) \in Nat
         /\ BytesIn(f, R) \in Nat
         /\ BytesIn(f, S \ R) \in Nat
         /\ BytesIn(f, S) = BytesIn(f, R) + BytesIn(f, S \ R)
<1>1. PICK g : Additive(f, S, g) /\ \A T \in SUBSET S : g[T] >= 0
  BY AdditiveExists
<1>2. \A T \in SUBSET S : g[T] \in Nat
  BY <1>1 DEF Additive
<1>3. ASSUME NEW Q \in SUBSET S PROVE BytesIn(f, Q) = g[Q]
  <2>. DEFINE h == [T \in SUBSET Q |-> g[T]]
  <2>1. Additive(f, Q, h)
    BY <1>1 DEF Additive
  <2>2. IsFiniteSet(Q)
    BY FS_Subset
  <2>. HIDE DEF h
  <2>3. BytesIn(f, Q) = h[Q]
    BY <2>1, <2>2, BytesSum
  <2>. QED
    BY <2>3 DEF h
<1>4. BytesIn(f, R) = g[S] - g[S \ R]
  <2>. DEFINE h == [T \in SUBSET R |-> g[T \cup (S \ R)] - g[S \ R]]
  <2>1. \A T \in SUBSET R : T \cup (S \ R) \in SUBSET S
    OBVIOUS
  <2>2. S \ R \in SUBSET S /\ g[S \ R] \in Nat
    BY <1>2
  <2>3. h \in [SUBSET R -> Int]
    BY <1>2, <2>1, <2>2
  <2>4. h[{}] = 0
    <3>1. {} \cup (S \ R) = S \ R /\ {} \in SUBSET R
      OBVIOUS
    <3>2. h[{}] = g[S \ R] - g[S \ R]
      BY <3>1
    <3>. QED
      BY <2>2, <3>2
  <2>5. ASSUME NEW T \in SUBSET R, NEW t \in T
        PROVE  h[T] = Size[f[t]] + h[T \ {t}]
    <3>1. /\ (T \cup (S \ R)) \ {t} = (T \ {t}) \cup (S \ R)
          /\ t \in T \cup (S \ R) /\ T \ {t} \in SUBSET R
      OBVIOUS
    <3>2. g[T \cup (S \ R)] = Size[f[t]] + g[(T \ {t}) \cup (S \ R)]
      BY <1>1, <2>1, <3>1 DEF Additive
    <3>3. g[(T \ {t}) \cup (S \ R)] \in Nat /\ Size[f[t]] \in Nat
      BY <1>2, <2>1, <3>1, SizeAssumption DEF Chunks
    <3>4. h[T] = g[T \cup (S \ R)] - g[S \ R] /\ h[T \ {t}] = g[(T \ {t}) \cup (S \ R)] - g[S \ R]
      BY <3>1
    <3>. HIDE DEF h
    <3>. QED
      BY <2>2, <3>2, <3>3, <3>4
  <2>6. Additive(f, R, h) /\ IsFiniteSet(R)
    <3>. HIDE DEF h
    <3>. QED
      BY <2>3, <2>4, <2>5, FS_Subset DEF Additive
  <2>7. h[R] = g[S] - g[S \ R]
    <3>1. R \cup (S \ R) = S /\ R \in SUBSET R
      OBVIOUS
    <3>. QED
      BY <3>1
  <2>. HIDE DEF h
  <2>8. BytesIn(f, R) = h[R]
    BY <2>6, BytesSum
  <2>. QED
    BY <2>7, <2>8
<1>5. BytesIn(f, S) = g[S] /\ BytesIn(f, S \ R) = g[S \ R] /\ BytesIn(f, R) = g[R]
  BY <1>3
<1>6. g[S] \in Nat /\ g[S \ R] \in Nat /\ g[R] \in Nat
  BY <1>2
<1>. QED
  BY <1>4, <1>5, <1>6

(***************************************************************************)
(* Only the chunks numbered in S count.                                    *)
(***************************************************************************)
LEMMA BytesSame ==
  ASSUME NEW f, NEW e, NEW S, IsFiniteSet(S), Chunks(f, S), \A s \in S : e[s] = f[s]
  PROVE  BytesIn(e, S) = BytesIn(f, S)
<1>1. PICK g : Additive(f, S, g)
  BY AdditiveExists
<1>2. Additive(e, S, g)
  BY <1>1 DEF Additive
<1>. QED
  BY <1>1, <1>2, BytesSum

(***************************************************************************)
(* No chunks, no bytes.                                                    *)
(***************************************************************************)
LEMMA BytesNone ==
  ASSUME NEW f
  PROVE  BytesIn(f, {}) = 0
<1>1. IsFiniteSet({}) /\ Chunks(f, {})
  BY FS_EmptySet DEF Chunks
<1>2. PICK g : Additive(f, {}, g)
  BY <1>1, AdditiveExists
<1>3. BytesIn(f, {}) = g[{}]
  BY <1>1, <1>2, BytesSum
<1>. QED
  BY <1>2, <1>3 DEF Additive

(***************************************************************************)
(* The bytes of one chunk are its size.                                    *)
(***************************************************************************)
LEMMA BytesOne ==
  ASSUME NEW f, NEW x, f[x] \in Chunk
  PROVE  BytesIn(f, {x}) = Size[f[x]]
<1>1. IsFiniteSet({x}) /\ Chunks(f, {x})
  BY FS_Singleton DEF Chunks
<1>2. PICK g : Additive(f, {x}, g)
  BY <1>1, AdditiveExists
<1>3. BytesIn(f, {x}) = g[{x}]
  BY <1>1, <1>2, BytesSum
<1>4. g[{x}] = Size[f[x]] + g[{}]
  <2>1. {x} \ {x} = {} /\ {x} \in SUBSET {x}
    OBVIOUS
  <2>. QED
    BY <1>2, <2>1 DEF Additive
<1>5. Size[f[x]] \in Nat
  BY SizeAssumption
<1>. QED
  BY <1>2, <1>3, <1>4, <1>5 DEF Additive

-----------------------------------------------------------------------------
(* The steps of the queue.                                                 *)

(***************************************************************************)
(* What the fast path hands over: the chunk itself and the buffered run    *)
(* behind it, one chunk for each number passed.                            *)
(***************************************************************************)
LEMMA DrainFacts ==
  ASSUME IInv, NEW c \in Chunk
  PROVE  /\ DrainEnd(queue) \in Nat
         /\ DrainEnd(queue) > queue.next_seq
         /\ DrainEnd(queue) \notin DOMAIN queue.pending
         /\ \A j \in (queue.next_seq + 1)..(DrainEnd(queue) - 1) :
               j \in DOMAIN queue.pending
         /\ DrainedChunks(queue, c) \in Seq(Chunk)
         /\ Len(DrainedChunks(queue, c)) = DrainEnd(queue) - queue.next_seq
         /\ \A i \in 1..(DrainEnd(queue) - queue.next_seq) :
               DrainedChunks(queue, c)[i] =
                  IF i = 1 THEN c ELSE queue.pending[queue.next_seq + i - 1]
<1>. DEFINE n == queue.next_seq
            P == DOMAIN queue.pending
            end == DrainEnd(queue)
<1>1. n \in Nat /\ P \in SUBSET Nat /\ IsFiniteSet(P)
  BY MaxSeqAssumption DEF IInv, TypeOK, Seqs
<1>2. /\ end \in Nat
      /\ end >= n + 1
      /\ end \notin P
      /\ \A j \in (n + 1)..(end - 1) : j \in P
  BY <1>1, FirstGapFacts DEF DrainEnd
<1>3. end - n \in Nat
  BY <1>1, <1>2
<1>4. \A i \in 1..(end - n) :
         (IF i = 1 THEN c ELSE queue.pending[n + i - 1]) \in Chunk
  <2>. SUFFICES ASSUME NEW i \in 1..(end - n), i # 1
                PROVE  queue.pending[n + i - 1] \in Chunk
    OBVIOUS
  <2>1. n + i - 1 \in (n + 1)..(end - 1)
    BY <1>1, <1>2
  <2>. QED
    BY <1>2, <2>1 DEF IInv, TypeOK
<1>5. DrainedChunks(queue, c) \in [1..(end - n) -> Chunk]
  BY <1>4 DEF DrainedChunks
<1>6. DrainedChunks(queue, c) \in Seq(Chunk) /\ Len(DrainedChunks(queue, c)) = end - n
  BY <1>3, <1>5, SeqDef
<1>7. \A i \in 1..(end - n) :
         DrainedChunks(queue, c)[i] = IF i = 1 THEN c ELSE queue.pending[n + i - 1]
  BY DEF DrainedChunks
<1>. HIDE DEF end
<1>. QED
  BY <1>1, <1>2, <1>6, <1>7 DEF end

(***************************************************************************)
(* A chunk handed straight through preserves the invariant.                *)
(***************************************************************************)
LEMMA ReadyStep ==
  ASSUME IInv, NEW s \in Seqs, NEW c \in Chunk,
         PushNew(s, c), Verdict(queue, s, c) = "ready"
  PROVE  IInv'
<1>. DEFINE n == queue.next_seq
            P == DOMAIN queue.pending
            end == DrainEnd(queue)
            ready == DrainedChunks(queue, c)
            rest == {t \in P : t >= end}
<1>1. s = n /\ ~IsDuplicate(queue, s)
  BY DEF Verdict, IsDuplicate
<1>2. /\ n \in Nat /\ n <= MaxSeq + 1 /\ MaxSeq \in Nat
      /\ P \subseteq Seqs /\ IsFiniteSet(P) /\ Cardinality(P) <= MaxBuffered
      /\ \A t \in P : t \in Nat /\ t <= MaxSeq /\ queue.pending[t] \in Chunk
      /\ DOMAIN accepted = 0..(n - 1) \cup P
      /\ \A t \in DOMAIN accepted : accepted[t] \in Chunk
      /\ \A t \in P : queue.pending[t] = accepted[t] /\ t > n /\ t <= n + MaxLookahead
  BY MaxSeqAssumption DEF IInv, TypeOK, NothingLost, WithinBudget, Seqs
<1>3. /\ delivered \in Seq(Chunk) /\ Len(delivered) = n
      /\ \A i \in 1..n : (i - 1) \in DOMAIN accepted /\ delivered[i] = accepted[i - 1]
  BY DEF IInv, TypeOK, InOrderOnceEach, Stream!LongestPrefix
<1>4. /\ end \in Nat /\ end > n /\ end \notin P
      /\ \A j \in (n + 1)..(end - 1) : j \in P
      /\ ready \in Seq(Chunk) /\ Len(ready) = end - n
      /\ \A i \in 1..(end - n) :
            ready[i] = IF i = 1 THEN c ELSE queue.pending[n + i - 1]
  BY DrainFacts
<1>5. /\ queue'.next_seq = end
      /\ queue'.pending = [t \in rest |-> queue.pending[t]]
      /\ queue'.pending_bytes = queue.pending_bytes - BytesIn(queue.pending, P \ rest)
      /\ DOMAIN queue' = {"next_seq", "pending", "pending_bytes"}
      /\ delivered' = delivered \o ready
      /\ accepted' = [t \in DOMAIN accepted \cup {n} |->
                         IF t \in DOMAIN accepted THEN accepted[t] ELSE c]
  BY <1>1 DEF PushNew, QueueAfter, ReadyAfter, AfterDrain, Remember
<1>. HIDE DEF end, ready
<1>0. n \in Nat /\ end \in Nat /\ end > n
  BY <1>2, <1>4
<1>6. n \notin DOMAIN accepted
  BY <1>2
<1>7. /\ rest \subseteq P /\ IsFiniteSet(rest) /\ Cardinality(rest) <= MaxBuffered
  <2>1. rest \in SUBSET P
    OBVIOUS
  <2>2. IsFiniteSet(rest) /\ Cardinality(rest) <= Cardinality(P)
    BY <1>2, <2>1, FS_Subset
  <2>3. Cardinality(rest) \in Nat /\ Cardinality(P) \in Nat
    BY <1>2, <2>2, FS_CardinalityType
  <2>. QED
    BY <1>2, <2>2, <2>3, BudgetAssumption
<1>8. end <= MaxSeq + 1
  <2>1. CASE end = n + 1
    BY <1>1, <1>2, <2>1 DEF Seqs
  <2>2. CASE end # n + 1
    <3>1. end - 1 \in (n + 1)..(end - 1)
      BY <1>2, <1>4, <2>2
    <3>. QED
      BY <1>2, <1>4, <3>1
  <2>. QED
    BY <2>1, <2>2
<1>9. DOMAIN accepted' = 0..(end - 1) \cup rest
  <2>1. \A t \in P : t < end => t \in 0..(end - 1)
    BY <1>2, <1>4
  <2>2. \A t \in 0..(end - 1) : t \in 0..(n - 1) \/ t = n \/ t \in P
    <3>1. \A t \in 0..(end - 1) : t > n => t \in (n + 1)..(end - 1)
      BY <1>2, <1>4
    <3>. QED
      BY <1>2, <1>4, <3>1
  <2>3. 0..(n - 1) \cup {n} \subseteq 0..(end - 1)
    BY <1>2, <1>4
  <2>. QED
    BY <1>2, <1>4, <1>5, <2>1, <2>2, <2>3
<1>10. \A i \in 1..end : (i - 1) \in DOMAIN accepted' /\ delivered'[i] = accepted'[i - 1]
  <2>. SUFFICES ASSUME NEW i \in 1..end
                PROVE  (i - 1) \in DOMAIN accepted' /\ delivered'[i] = accepted'[i - 1]
    OBVIOUS
  <2>1. (i - 1) \in DOMAIN accepted'
    BY <1>4, <1>9
  <2>2. delivered'[i] = IF i <= n THEN delivered[i] ELSE ready[i - n]
    <3>1. i \in 1..(Len(delivered) + Len(ready))
      BY <1>0, <1>3, <1>4
    <3>2. delivered \in Seq(Chunk) /\ ready \in Seq(Chunk)
      BY <1>3, <1>4
    <3>3. (delivered \o ready)[i] = IF i <= Len(delivered) THEN delivered[i]
                                   ELSE ready[i - Len(delivered)]
      BY <3>1, <3>2, ConcatProperties
    <3>4. Len(delivered) = n /\ delivered' = delivered \o ready
      BY <1>3, <1>5
    <3>. QED
      BY <3>3, <3>4
  <2>3. CASE i <= n
    BY <1>2, <1>3, <1>5, <2>2, <2>3
  <2>4. CASE i = n + 1
    <3>1. i - 1 = n /\ i - n = 1 /\ ~(i <= n) /\ 1 \in 1..(end - n)
      BY <1>0, <2>4
    <3>2. delivered'[i] = c
      BY <1>4, <2>2, <3>1
    <3>3. accepted'[n] = c
      BY <1>5, <1>6
    <3>. QED
      BY <2>1, <3>1, <3>2, <3>3
  <2>5. CASE i > n + 1
    <3>1. i - 1 \in (n + 1)..(end - 1) /\ i - n \in 1..(end - n) /\ i - n # 1
      BY <1>2, <1>4, <2>5, SMTT(30)
    <3>2. ready[i - n] = queue.pending[i - 1]
      BY <1>2, <1>4, <3>1, SMTT(30)
    <3>3. i - 1 \in P /\ i - 1 \in DOMAIN accepted
      BY <1>2, <1>4, <3>1
    <3>. QED
      BY <1>2, <1>5, <2>2, <2>5, <3>2, <3>3
  <2>. QED
    BY <1>2, <1>4, <2>1, <2>3, <2>4, <2>5
<1>11. Len(delivered') = end /\ delivered' \in Seq(Chunk)
  <2>1. delivered \in Seq(Chunk) /\ ready \in Seq(Chunk)
    BY <1>3, <1>4
  <2>2. Len(delivered \o ready) = Len(delivered) + Len(ready) /\ delivered \o ready \in Seq(Chunk)
    BY <2>1, ConcatProperties
  <2>3. Len(delivered) = n /\ Len(ready) = end - n
    BY <1>3, <1>4
  <2>. QED
    BY <1>0, <1>5, <2>2, <2>3
<1>12. TypeOK'
  <2>1. DOMAIN accepted' \subseteq Seqs
    BY <1>1, <1>2, <1>5 DEF Seqs
  <2>2. accepted' \in [DOMAIN accepted' -> Chunk]
    BY <1>2, <1>5
  <2>3. DOMAIN queue'.pending = rest /\ queue'.pending \in [rest -> Chunk]
    BY <1>2, <1>5
  <2>. QED
    BY <1>2, <1>4, <1>5, <1>7, <1>8, <1>11, <2>1, <2>2, <2>3 DEF TypeOK
<1>13. InOrderOnceEach'
  <2>1. end \notin DOMAIN accepted'
    BY <1>4, <1>9
  <2>. QED
    BY <1>5, <1>10, <1>11, <2>1 DEF InOrderOnceEach, Stream!LongestPrefix
<1>14. NothingLost'
  <2>1. \A t \in rest : queue'.pending[t] = accepted'[t]
    BY <1>2, <1>5
  <2>. QED
    BY <1>5, <1>9, <2>1 DEF NothingLost
<1>15. WithinBudget'
  <2>1. \A t \in rest : t > end /\ t <= end + MaxLookahead
    BY <1>2, <1>4, BudgetAssumption DEF MaxLookahead
  <2>2. /\ BytesIn(queue.pending, P) \in Nat /\ BytesIn(queue.pending, rest) \in Nat
        /\ BytesIn(queue.pending, P \ rest) \in Nat
        /\ BytesIn(queue.pending, P)
             = BytesIn(queue.pending, rest) + BytesIn(queue.pending, P \ rest)
    <3>1. Chunks(queue.pending, P) /\ rest \in SUBSET P
      BY <1>2 DEF Chunks
    <3>. HIDE DEF rest
    <3>. QED
      BY <1>2, <3>1, BytesSplit
  <2>3. BytesIn(queue'.pending, rest) = BytesIn(queue.pending, rest)
    <3>1. Chunks(queue.pending, rest)
      BY <1>2 DEF Chunks
    <3>2. \A t \in rest : queue'.pending[t] = queue.pending[t]
      BY <1>5
    <3>. HIDE DEF rest
    <3>. QED
      BY <1>7, <3>1, <3>2, BytesSame
  <2>4. /\ queue.pending_bytes = BytesIn(queue.pending, P)
        /\ queue.pending_bytes <= MaxBufferBytes
    BY DEF IInv, WithinBudget
  <2>5. queue'.pending_bytes = BytesIn(queue'.pending, rest)
    BY <1>5, <2>2, <2>3, <2>4
  <2>6. queue'.pending_bytes <= MaxBufferBytes
    BY <2>2, <2>3, <2>4, <2>5, BudgetAssumption
  <2>7. DOMAIN queue'.pending = rest
    BY <1>5
  <2>. QED
    BY <1>5, <1>7, <2>1, <2>5, <2>6, <2>7 DEF WithinBudget
<1>. QED
  BY <1>12, <1>13, <1>14, <1>15 DEF IInv

(***************************************************************************)
(* A chunk held for its predecessors preserves the invariant.              *)
(***************************************************************************)
LEMMA BufferedStep ==
  ASSUME IInv, NEW s \in Seqs, NEW c \in Chunk,
         PushNew(s, c), Verdict(queue, s, c) = "buffered"
  PROVE  IInv'
<1>. DEFINE n == queue.next_seq
            P == DOMAIN queue.pending
<1>1. /\ n \in Nat /\ n <= MaxSeq + 1 /\ MaxSeq \in Nat /\ s \in Nat /\ s <= MaxSeq
      /\ P \subseteq Seqs /\ IsFiniteSet(P) /\ Cardinality(P) \in Nat
      /\ DOMAIN accepted = 0..(n - 1) \cup P
      /\ DOMAIN queue = {"next_seq", "pending", "pending_bytes"}
  BY MaxSeqAssumption, FS_CardinalityType DEF IInv, TypeOK, NothingLost, Seqs
<1>2. /\ ~(s < n) /\ s \notin P /\ s # n /\ ~(s > n + MaxLookahead)
      /\ ~(Cardinality(P) >= MaxBuffered)
      /\ ~(queue.pending_bytes + Size[c] > MaxBufferBytes)
  BY DEF Verdict, IsDuplicate
<1>3. s > n /\ s <= n + MaxLookahead /\ s \notin DOMAIN accepted
  BY <1>1, <1>2, BudgetAssumption DEF MaxLookahead
<1>4. /\ queue'.next_seq = n
      /\ queue'.pending = [t \in P \cup {s} |-> IF t = s THEN c ELSE queue.pending[t]]
      /\ queue'.pending_bytes = queue.pending_bytes + Size[c]
      /\ DOMAIN queue' = {"next_seq", "pending", "pending_bytes"}
      /\ accepted' = [t \in DOMAIN accepted \cup {s} |->
                         IF t \in DOMAIN accepted THEN accepted[t] ELSE c]
  BY DEF PushNew, QueueAfter, AfterBuffering, Remember
<1>5. delivered' = delivered
  <2>1. delivered' = delivered \o <<>> /\ delivered \in Seq(Chunk)
    BY DEF PushNew, ReadyAfter, IInv, TypeOK
  <2>. QED
    BY <2>1, ConcatEmptySeq
<1>6. /\ IsFiniteSet(P \cup {s}) /\ Cardinality(P \cup {s}) = Cardinality(P) + 1
  BY <1>1, <1>2, FS_AddElement
<1>7. TypeOK'
  BY <1>1, <1>4, <1>5, <1>6 DEF IInv, TypeOK, Seqs
<1>8. InOrderOnceEach'
  BY <1>1, <1>3, <1>4, <1>5 DEF IInv, InOrderOnceEach, Stream!LongestPrefix
<1>9. NothingLost'
  BY <1>1, <1>3, <1>4 DEF IInv, NothingLost
<1>10. WithinBudget'
  <2>1. Cardinality(P \cup {s}) <= MaxBuffered
    BY <1>1, <1>2, <1>6, BudgetAssumption
  <2>2. \A t \in P \cup {s} : t > n /\ t <= n + MaxLookahead
    BY <1>3 DEF IInv, WithinBudget
  <2>. DEFINE held == queue'.pending
  <2>3. /\ \A t \in P : held[t] = queue.pending[t]
        /\ held[s] = c /\ DOMAIN held = P \cup {s}
    BY <1>1, <1>2, <1>4
  <2>4. Chunks(queue.pending, P) /\ Chunks(held, P \cup {s})
    BY <2>3 DEF IInv, TypeOK, Chunks
  <2>. HIDE DEF held
  <2>5. BytesIn(held, P \cup {s}) = BytesIn(held, P) + BytesIn(held, {s})
    <3>1. P \in SUBSET (P \cup {s}) /\ (P \cup {s}) \ P = {s}
      BY <1>2
    <3>. QED
      BY <1>6, <2>4, <3>1, BytesSplit
  <2>6. BytesIn(held, P) = BytesIn(queue.pending, P)
    BY <1>1, <2>3, <2>4, BytesSame
  <2>7. BytesIn(held, {s}) = Size[c]
    BY <2>3, BytesOne
  <2>8. queue.pending_bytes = BytesIn(queue.pending, P)
    BY DEF IInv, WithinBudget
  <2>9. queue'.pending_bytes = BytesIn(held, DOMAIN held)
    BY <1>4, <2>3, <2>5, <2>6, <2>7, <2>8
  <2>10. queue'.pending_bytes <= MaxBufferBytes
    <3>1. queue.pending_bytes \in Nat
      <4>1. P \in SUBSET P
        OBVIOUS
      <4>. QED
        BY <1>1, <2>4, <2>8, <4>1, BytesSplit
    <3>2. Size[c] \in Nat
      BY SizeAssumption
    <3>. QED
      BY <1>2, <1>4, <3>1, <3>2, BudgetAssumption
  <2>. QED
    BY <1>4, <2>1, <2>2, <2>3, <2>9, <2>10 DEF WithinBudget, held
<1>. QED
  BY <1>7, <1>8, <1>9, <1>10 DEF IInv

(***************************************************************************)
(* Init establishes the invariant and every step preserves it.             *)
(***************************************************************************)
LEMMA InitInv == Init => IInv
<1>. SUFFICES ASSUME Init PROVE IInv
  OBVIOUS
<1>1. /\ queue.next_seq = 0 /\ DOMAIN queue.pending = {}
      /\ DOMAIN queue = {"next_seq", "pending", "pending_bytes"}
      /\ DOMAIN accepted = {} /\ delivered = <<>> /\ Len(delivered) = 0
  BY DEF Init, EmptyQueue
<1>2. IsFiniteSet(DOMAIN queue.pending) /\ Cardinality(DOMAIN queue.pending) = 0
  BY <1>1, FS_EmptySet
<1>3. queue.pending \in [DOMAIN queue.pending -> Chunk] /\ accepted \in [DOMAIN accepted -> Chunk]
  BY DEF Init, EmptyQueue
<1>4. queue.pending_bytes = 0 /\ BytesIn(queue.pending, {}) = 0
  BY BytesNone DEF Init, EmptyQueue
<1>. QED
  BY <1>1, <1>2, <1>3, <1>4, MaxSeqAssumption, BudgetAssumption
     DEF IInv, TypeOK, InOrderOnceEach, Stream!LongestPrefix, NothingLost, WithinBudget, Seqs

\* Every step keeps the invariant.
LEMMA NextInv == IInv /\ [Next]_vars => IInv'
<1>. SUFFICES ASSUME IInv, [Next]_vars PROVE IInv'
  OBVIOUS
<1>1. ASSUME NEW s \in Seqs, NEW c \in Chunk, PushNew(s, c)
      PROVE  IInv'
  BY <1>1, ReadyStep, BufferedStep DEF PushNew
<1>2. ASSUME NEW s \in Seqs, NEW c \in Chunk, PushDropped(s, c)
      PROVE  UNCHANGED vars
  <2>1. queue' = queue /\ accepted' = accepted
    BY <1>2 DEF PushDropped, QueueAfter
  <2>2. delivered' = delivered \o <<>> /\ delivered \in Seq(Chunk)
    BY <1>2 DEF PushDropped, ReadyAfter, IInv, TypeOK
  <2>. QED
    BY <2>1, <2>2, ConcatEmptySeq DEF vars
<1>3. CASE UNCHANGED vars
  BY <1>3 DEF vars, IInv, TypeOK, InOrderOnceEach, Stream!LongestPrefix,
              NothingLost, WithinBudget
<1>. QED
  BY <1>1, <1>2, <1>3 DEF Next, vars, IInv, TypeOK, InOrderOnceEach,
     Stream!LongestPrefix, NothingLost, WithinBudget

(***************************************************************************)
(* Type correctness of the queue and its histories.                        *)
(***************************************************************************)
THEOREM TypeCorrect == Spec => []TypeOK
<1>1. IInv => TypeOK
  BY DEF IInv
<1>. QED
  BY <1>1, InitInv, NextInv, PTL DEF Spec

(***************************************************************************)
(* The stream delivered is exactly the one accepted, in order and once     *)
(* each, and nothing contiguous is held back.                              *)
(***************************************************************************)
THEOREM DeliversInOrderOnceEach == Spec => []InOrderOnceEach
<1>1. IInv => InOrderOnceEach
  BY DEF IInv
<1>. QED
  BY <1>1, InitInv, NextInv, PTL DEF Spec

(***************************************************************************)
(* No accepted chunk is lost by the queue.                                 *)
(***************************************************************************)
THEOREM LosesNothing == Spec => []NothingLost
<1>1. IInv => NothingLost
  BY DEF IInv
<1>. QED
  BY <1>1, InitInv, NextInv, PTL DEF Spec

(***************************************************************************)
(* The buffer never holds more than scMaxBufferedPosts chunks or more than *)
(* MaxBufferBytes bytes, the running total is the bytes it holds, and they *)
(* lie within the lookahead of the chunk being waited for.                 *)
(***************************************************************************)
THEOREM StaysWithinBudget == Spec => []WithinBudget
<1>1. IInv => WithinBudget
  BY DEF IInv
<1>. QED
  BY <1>1, InitInv, NextInv, PTL DEF Spec

(***************************************************************************)
(* A retry of an accepted chunk is never refused, whatever is buffered.    *)
(***************************************************************************)
THEOREM RetriesNeverRefused == Spec => []RetryNeverRefused
<1>1. IInv => RetryNeverRefused
  <2>. SUFFICES ASSUME IInv, NEW s \in DOMAIN accepted, NEW c \in Chunk
                PROVE  Accepts(queue, s, c)
    BY DEF RetryNeverRefused
  <2>1. IsDuplicate(queue, s)
    <3>1. DOMAIN accepted = 0..(queue.next_seq - 1) \cup DOMAIN queue.pending
      BY DEF IInv, NothingLost
    <3>2. queue.next_seq \in Nat
      BY MaxSeqAssumption DEF IInv, TypeOK
    <3>. QED
      BY <3>1, <3>2 DEF IsDuplicate
  <2>. QED
    BY <2>1 DEF Accepts, Verdict
<1>. QED
  BY <1>1, InitInv, NextInv, PTL DEF Spec

(***************************************************************************)
(* The missing predecessor is accepted in every state, full buffers        *)
(* included, and takes along the chunk buffered right behind it.           *)
(***************************************************************************)
THEOREM GapsCanAlwaysBeFilled == Spec => []GapCanBeFilled
<1>1. IInv => GapCanBeFilled
  <2>. SUFFICES ASSUME IInv, NEW c \in Chunk
                PROVE  /\ Verdict(queue, queue.next_seq, c) = "ready"
                       /\ (queue.next_seq + 1) \in DOMAIN queue.pending
                            => Len(ReadyAfter(queue, queue.next_seq, c)) > 1
    BY DEF GapCanBeFilled
  <2>. DEFINE n == queue.next_seq
  <2>1. n \in Nat
    BY MaxSeqAssumption DEF IInv, TypeOK
  <2>2. ~(n < n) /\ n \notin DOMAIN queue.pending
    BY <2>1 DEF IInv, WithinBudget
  <2>3. ~IsDuplicate(queue, n) /\ ~(n > n + MaxLookahead)
    BY <2>1, <2>2, BudgetAssumption DEF IsDuplicate, MaxLookahead
  <2>4. Verdict(queue, n, c) = "ready"
    BY <2>3 DEF Verdict
  <2>5. ASSUME n + 1 \in DOMAIN queue.pending
        PROVE  Len(ReadyAfter(queue, n, c)) > 1
    <3>. DEFINE end == DrainEnd(queue)
    <3>1. end \in Nat /\ end > n /\ end # n + 1
      BY <2>5, DrainFacts
    <3>2. Len(DrainedChunks(queue, c)) = end - n
      BY DrainFacts
    <3>3. ReadyAfter(queue, n, c) = DrainedChunks(queue, c)
      BY <2>4 DEF ReadyAfter
    <3>. HIDE DEF end
    <3>. QED
      BY <2>1, <3>1, <3>2, <3>3
  <2>. QED
    BY <2>4, <2>5
<1>. QED
  BY <1>1, InitInv, NextInv, PTL DEF Spec

(***************************************************************************)
(* The queue implements the abstract ordered stream: a push is an Accept   *)
(* that delivers the longest prefix, or a stuttering step.                 *)
(***************************************************************************)
THEOREM ImplementsStream == Spec => ImplementsOrderedStream
<1>1. Init => Stream!Init
  BY DEF Init, Stream!Init
<1>2. IInv /\ IInv' /\ [Next]_vars => [Stream!Next]_(Stream!vars)
  <2>. SUFFICES ASSUME IInv, IInv', [Next]_vars PROVE [Stream!Next]_(Stream!vars)
    OBVIOUS
  <2>1. ASSUME NEW s \in Seqs, NEW c \in Chunk, PushNew(s, c)
        PROVE  Stream!Accept(s, c)
    <3>1. s \notin DOMAIN accepted
      <4>1. ~IsDuplicate(queue, s)
        BY <2>1 DEF PushNew, Verdict
      <4>2. queue.next_seq \in Nat
        BY MaxSeqAssumption DEF IInv, TypeOK
      <4>3. \A t \in 0..(queue.next_seq - 1) : t < queue.next_seq
        BY <4>2
      <4>4. DOMAIN accepted = 0..(queue.next_seq - 1) \cup DOMAIN queue.pending
        BY DEF IInv, NothingLost
      <4>. QED
        BY <4>1, <4>3, <4>4 DEF IsDuplicate
    <3>2. accepted' = [t \in DOMAIN accepted \cup {s} |-> IF t = s THEN c ELSE accepted[t]]
      BY <2>1, <3>1 DEF PushNew, Remember
    <3>3. delivered' \in Seq(Chunk) /\ Stream!LongestPrefix(delivered', accepted')
      BY DEF IInv, TypeOK, InOrderOnceEach, Stream!LongestPrefix
    <3>. QED
      BY <3>1, <3>2, <3>3 DEF Stream!Accept
  <2>2. ASSUME NEW s \in Seqs, NEW c \in Chunk, PushDropped(s, c)
        PROVE  UNCHANGED Stream!vars
    <3>1. delivered' = delivered \o <<>> /\ delivered \in Seq(Chunk) /\ accepted' = accepted
      BY <2>2 DEF PushDropped, ReadyAfter, IInv, TypeOK
    <3>. QED
      BY <3>1, ConcatEmptySeq DEF Stream!vars
  <2>3. CASE UNCHANGED vars
    BY <2>3 DEF vars, Stream!vars
  <2>. QED
    BY <2>1, <2>2, <2>3 DEF Next, Stream!Next
<1>. QED
  BY <1>1, <1>2, InitInv, NextInv, PTL DEF Spec, Stream!Spec, ImplementsOrderedStream
==============================================================================
