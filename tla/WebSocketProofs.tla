-------------------------- MODULE WebSocketProofs --------------------------
(***************************************************************************)
(* Proofs about WebSocket, for all requests, header lengths and streams.   *)
(*                                                                         *)
(* The invariant follows one connection in two parts.  Downlink: only an   *)
(* admitted request passes the dial, nothing is sent before it has, and    *)
(* from then on the client was sent the opening and the units the downlink *)
(* read.  Uplink: what the destination got, what is being written and the  *)
(* frames that wait are stretches of the client's stream, each beginning   *)
(* where the one before ends.  That the waiting frames meet is said by     *)
(* their cuts (Covers); that the flattened queue is then the stretch from  *)
(* the first cut to the last is a lemma about FlattenSeq, by a least       *)
(* counterexample, since a recursion has no induction here.                *)
(***************************************************************************)
EXTENDS WebSocket, SequenceTheorems, WellFoundedInduction, TLAPS

-----------------------------------------------------------------------------
(* The invariant.                                                          *)

\* The request is one this transport serves.
Admitted ==
    /\ request.known /\ request.is_tcp /\ request.hasTarget
    /\ Served

\* What was sent when the downlink has passed on k units.
SentAfter(k) == Opening \o Up(0, k)

DownlinkInv ==
    /\ phase \in {"header", "dial"} => up = "off" /\ dn = "off"
    /\ phase = "dial" => request.known /\ request.is_tcp /\ request.hasTarget
    /\ up # "off" \/ dn # "off" => Admitted
    /\ heard <= offered
    /\ dn = "off" => got = <<>> /\ heard = 0
    /\ dn = "read" => got = SentAfter(heard)
    /\ dn # "off" => \E k \in Nat : got = SentAfter(k)
    /\ dn = "done" /\ dest = "closed" /\ ~dropped =>
          heard = offered /\ got = SentAfter(heard)
    /\ dn = "done" => dest # "open" \/ dropped

\* c are the places where the frames fs cut the stream from a to b.
IsCut(c, fs, a, b) ==
    /\ c[0] = a /\ c[Len(fs)] = b
    /\ \A i, j \in 0..Len(fs) : i <= j => c[i] <= c[j]
    /\ \A i \in 1..Len(fs) : fs[i].units = Up(c[i - 1], c[i])

Covers(fs, a, b) == \E c \in [0..Len(fs) -> Nat] : IsCut(c, fs, a, b)

\* While the uplink runs: written, then piece, then the frames.
Meets ==
    \E m, n \in Nat :
       /\ first <= m /\ m <= n
       /\ written = Up(first, m) /\ piece = Up(m, n) /\ Covers(frames, n, sent)

UplinkInv ==
    /\ phase \in {"header", "dial"} => up = "off" /\ Covers(frames, pending, sent)
    /\ phase = "relay" => up # "off"
    /\ up = "off" => written = <<>> /\ piece = <<>> /\ first = 0
    /\ up = "wait" => piece = <<>>
    /\ up \in {"wait", "write"} => Meets
    /\ up = "done" => \E m \in Nat : first <= m /\ m <= sent /\ written = Up(first, m)

IInv == TypeOK /\ UplinkInv /\ DownlinkInv
-----------------------------------------------------------------------------
(* Stretches of a stream.                                                  *)

\* A stretch is a sequence of units, and no unit is past its end.
LEMMA UpType ==
  ASSUME NEW a \in Nat, NEW b \in Nat, a <= b
  PROVE  /\ Up(a, b) \in Seq(Nat) /\ Len(Up(a, b)) = b - a
         /\ \A c \in Nat : b <= c => Up(a, b) \in Seq(1..c) /\ Up(a, b) \in Seq(0..c)
<1>1. b - a \in Nat
  OBVIOUS
<1>2. ASSUME NEW c \in Nat, b <= c
      PROVE  Up(a, b) \in [1..(b - a) -> 1..c] /\ Up(a, b) \in [1..(b - a) -> 0..c]
  <2>1. \A i \in 1..(b - a) : a + i \in 1..c /\ a + i \in 0..c
    BY <1>2
  <2> QED  BY <2>1 DEF Up
<1>3. \A i \in 1..(b - a) : a + i \in Nat
  OBVIOUS
<1>4. Up(a, b) \in [1..(b - a) -> Nat]
  BY <1>3 DEF Up
<1>5. Up(a, b) \in Seq(Nat) /\ Len(Up(a, b)) = b - a
  BY <1>1, <1>4
<1>6. ASSUME NEW c \in Nat, b <= c
      PROVE  Up(a, b) \in Seq(1..c) /\ Up(a, b) \in Seq(0..c)
  BY <1>1, <1>2, <1>6
<1> QED  BY <1>5, <1>6

\* Two stretches of a stream that meet are one stretch.
LEMMA UpJoins ==
  ASSUME NEW a \in Nat, NEW b \in Nat, NEW c \in Nat, a <= b, b <= c
  PROVE  Up(a, b) \o Up(b, c) = Up(a, c)
<1> DEFINE s == Up(a, b)
           t == Up(b, c)
           u == Up(a, c)
<1>1. /\ s \in Seq(Nat) /\ Len(s) = b - a
      /\ t \in Seq(Nat) /\ Len(t) = c - b
      /\ u \in Seq(Nat) /\ Len(u) = c - a
  <2>1. a <= c
    OBVIOUS
  <2> QED  BY <2>1, UpType
<1>2. /\ \A i \in 1..(b - a) : s[i] = a + i
      /\ \A i \in 1..(c - b) : t[i] = b + i
      /\ \A i \in 1..(c - a) : u[i] = a + i
  BY DEF Up
<1> HIDE DEF s, t, u
<1>3. s \o t \in Seq(Nat) /\ Len(s \o t) = c - a
  BY <1>1
<1>4. ASSUME NEW i \in 1..(c - a) PROVE (s \o t)[i] = u[i]
  <2>1. CASE i <= b - a
    <3>1. (s \o t)[i] = s[i]
      BY <1>1, <2>1
    <3> QED  BY <1>2, <2>1, <3>1
  <2>2. CASE ~(i <= b - a)
    <3>1. i - (b - a) \in 1..(c - b) /\ b + (i - (b - a)) = a + i
      BY <2>2
    <3>2. (s \o t)[i] = t[i - (b - a)]
      <4>1. i \in 1..(Len(s) + Len(t)) /\ ~(i <= Len(s))
        BY <1>1, <2>2
      <4>2. (s \o t)[i] = IF i <= Len(s) THEN s[i] ELSE t[i - Len(s)]
        BY <1>1, <4>1, ConcatProperties
      <4> QED  BY <1>1, <4>1, <4>2
    <3>3. t[i - (b - a)] = b + (i - (b - a))
      BY <1>2, <3>1
    <3> QED  BY <1>2, <3>1, <3>2, <3>3
  <2> QED  BY <2>1, <2>2
<1>5. s \o t = u
  BY <1>1, <1>3, <1>4, SeqEqual
<1> QED  BY <1>5 DEF s, t, u

\* The front of a stretch is a stretch.
LEMMA UpFront ==
  ASSUME NEW a \in Nat, NEW b \in Nat, NEW k \in Nat, a + k <= b
  PROVE  SubSeq(Up(a, b), 1, k) = Up(a, a + k)
<1>1. a <= b /\ k \in 0..(b - a)
  OBVIOUS
<1>2. Up(a, b) \in Seq(Nat) /\ Len(Up(a, b)) = b - a
  BY <1>1, UpType
<1>3. Up(a, a + k) \in Seq(Nat) /\ Len(Up(a, a + k)) = k
  <2>1. a + k \in Nat /\ a <= a + k /\ (a + k) - a = k
    OBVIOUS
  <2> QED  BY <2>1, UpType
<1>4. SubSeq(Up(a, b), 1, k) \in Seq(Nat) /\ Len(SubSeq(Up(a, b), 1, k)) = k
  BY <1>1, <1>2
<1>5. ASSUME NEW i \in 1..k PROVE SubSeq(Up(a, b), 1, k)[i] = Up(a, a + k)[i]
  <2>1. SubSeq(Up(a, b), 1, k)[i] = Up(a, b)[i]
    BY <1>1, <1>2
  <2>2. i \in 1..(b - a) /\ i \in 1..((a + k) - a)
    BY <1>1
  <2>3. Up(a, b)[i] = a + i /\ Up(a, a + k)[i] = a + i
    BY <2>2 DEF Up
  <2> QED  BY <2>1, <2>3
<1> QED  BY <1>3, <1>4, <1>5, SeqEqual

\* Between a point and itself lies nothing.
LEMMA UpEmpty == ASSUME NEW a \in Nat PROVE Up(a, a) = <<>>
<1>1. Up(a, a) \in Seq(Nat) /\ Len(Up(a, a)) = 0
  BY UpType
<1> QED  BY <1>1

\* A shorter stretch from the same place is a prefix of a longer one.
LEMMA UpPrefix ==
  ASSUME NEW a \in Nat, NEW b \in Nat, NEW c \in Nat, a <= b, b <= c
  PROVE  IsPrefix(Up(a, b), Up(a, c))
<1> DEFINE k == b - a
<1>1. k \in Nat /\ a + k = b /\ a + k <= c /\ a <= c
  OBVIOUS
<1>2. Len(Up(a, b)) = k /\ Len(Up(a, c)) = c - a
  BY <1>1, UpType
<1>3. SubSeq(Up(a, c), 1, k) = Up(a, a + k) /\ SubSeq(Up(a, b), 1, k) = Up(a, a + k)
  BY <1>1, UpFront
<1>4. k <= c - a
  OBVIOUS
<1> QED  BY <1>2, <1>3, <1>4 DEF IsPrefix
-----------------------------------------------------------------------------
(* Frames that cut a stream.                                               *)

\* The cuts lie between the first and the last, so the stretch has an end.
LEMMA CoversInOrder ==
  ASSUME NEW S, NEW fs \in Seq(S), NEW a \in Nat, NEW b \in Nat, Covers(fs, a, b)
  PROVE  a <= b
<1>1. Len(fs) \in Nat
  OBVIOUS
<1> QED  BY <1>1 DEF Covers, IsCut

\* No frames cover nothing.
LEMMA CoversNothing ==
  ASSUME NEW a \in Nat
  PROVE  Covers(<<>>, a, a)
<1> DEFINE c == [i \in 0..0 |-> a]
<1>1. c \in [0..Len(<<>>) -> Nat] /\ c[0] = a /\ Len(<<>>) = 0
  OBVIOUS
<1>2. \A i, j \in 0..Len(<<>>) : c[i] <= c[j]
  OBVIOUS
<1>3. IsCut(c, <<>>, a, a)
  BY <1>1, <1>2 DEF IsCut
<1> QED  BY <1>1, <1>3 DEF Covers

\* One more frame, with the next units.
LEMMA CoversMore ==
  ASSUME NEW S, NEW fs \in Seq(S), NEW a \in Nat, NEW b \in Nat, NEW d \in Nat, b <= d,
         Covers(fs, a, b), NEW f \in S, f.units = Up(b, d)
  PROVE  Covers(Append(fs, f), a, d)
<1> DEFINE N == Len(fs)
           gs == Append(fs, f)
<1>1. PICK c \in [0..N -> Nat] : IsCut(c, fs, a, b)
  BY DEF Covers
<1>2. /\ N \in Nat /\ Len(gs) = N + 1 /\ gs[N + 1] = f
      /\ \A i \in 1..N : gs[i] = fs[i]
  OBVIOUS
<1> DEFINE e == [i \in 0..(N + 1) |-> IF i = N + 1 THEN d ELSE c[i]]
<1> HIDE DEF N, gs
<1>3. e \in [0..(N + 1) -> Nat] /\ e[N + 1] = d /\ \A i \in 0..N : e[i] = c[i]
  BY <1>1, <1>2
<1> HIDE DEF e
<1>4. c[0] = a /\ c[N] = b /\ \A i, j \in 0..N : i <= j => c[i] <= c[j]
  BY <1>1 DEF IsCut, N
<1>5. e[0] = a
  BY <1>2, <1>3, <1>4
<1>6. ASSUME NEW i \in 0..(N + 1), NEW j \in 0..(N + 1), i <= j PROVE e[i] <= e[j]
  <2>1. CASE j \in 0..N
    <3>1. i \in 0..N
      BY <1>2, <1>6, <2>1
    <3> QED  BY <1>3, <1>4, <1>6, <2>1, <3>1
  <2>2. CASE j = N + 1 /\ i \in 0..N
    <3>1. c[i] <= b /\ e[i] = c[i]
      BY <1>2, <1>3, <1>4, <2>2
    <3>2. c[i] \in Nat
      BY <1>1, <2>2
    <3> QED  BY <1>3, <2>2, <3>1, <3>2
  <2>3. CASE j = N + 1 /\ i = N + 1
    BY <1>3, <2>3
  <2> QED  BY <1>2, <1>6, <2>1, <2>2, <2>3
<1>7. ASSUME NEW i \in 1..(N + 1) PROVE gs[i].units = Up(e[i - 1], e[i])
  <2>1. CASE i \in 1..N
    <3>1. gs[i].units = Up(c[i - 1], c[i])
      BY <1>1, <1>2, <2>1 DEF IsCut, N
    <3>2. i - 1 \in 0..N /\ i \in 0..N
      BY <1>2, <2>1
    <3>3. e[i - 1] = c[i - 1] /\ e[i] = c[i]
      BY <1>3, <3>2
    <3> QED  BY <3>1, <3>3
  <2>2. CASE i = N + 1
    <3>1. gs[i] = f /\ e[i] = d /\ e[i - 1] = b
      BY <1>2, <1>3, <1>4, <2>2
    <3> QED  BY <3>1
  <2> QED  BY <1>2, <2>1, <2>2
<1>8. IsCut(e, gs, a, d)
  BY <1>2, <1>3, <1>5, <1>6, <1>7 DEF IsCut
<1> QED  BY <1>2, <1>3, <1>8 DEF Covers, gs

\* The first frame is the first stretch, the others cut what follows it.
LEMMA CoversRest ==
  ASSUME NEW S, NEW fs \in Seq(S), NEW a \in Nat, NEW b \in Nat,
         Covers(fs, a, b), fs # <<>>
  PROVE  \E m \in Nat : /\ a <= m /\ m <= b
                        /\ Head(fs).units = Up(a, m)
                        /\ Covers(Tail(fs), m, b)
<1> DEFINE N == Len(fs)
           gs == Tail(fs)
<1>1. PICK c \in [0..N -> Nat] : IsCut(c, fs, a, b)
  BY DEF Covers
<1>2. /\ N \in Nat \ {0} /\ Len(gs) = N - 1 /\ Head(fs) = fs[1]
      /\ \A i \in 1..(N - 1) : gs[i] = fs[i + 1]
  OBVIOUS
<1>3. /\ c[0] = a /\ c[N] = b /\ \A i, j \in 0..N : i <= j => c[i] <= c[j]
      /\ \A i \in 1..N : fs[i].units = Up(c[i - 1], c[i])
  BY <1>1 DEF IsCut, N
<1> DEFINE e == [i \in 0..(N - 1) |-> c[i + 1]]
<1> HIDE DEF N, gs
<1>4. e \in [0..(N - 1) -> Nat] /\ \A i \in 0..(N - 1) : e[i] = c[i + 1]
  <2>1. \A i \in 0..(N - 1) : i + 1 \in 0..N
    BY <1>2
  <2> QED  BY <1>1, <2>1
<1> HIDE DEF e
<1>5. e[0] = c[1] /\ e[N - 1] = b
  <2>1. 0 \in 0..(N - 1) /\ N - 1 \in 0..(N - 1) /\ (N - 1) + 1 = N /\ 0 + 1 = 1
    BY <1>2
  <2> QED  BY <1>3, <1>4, <2>1
<1>6. ASSUME NEW i \in 0..(N - 1), NEW j \in 0..(N - 1), i <= j PROVE e[i] <= e[j]
  <2>1. i + 1 \in 0..N /\ j + 1 \in 0..N /\ i + 1 <= j + 1
    BY <1>2, <1>6
  <2> QED  BY <1>3, <1>4, <2>1
<1>7. ASSUME NEW i \in 1..(N - 1) PROVE gs[i].units = Up(e[i - 1], e[i])
  <2>1. i + 1 \in 1..N /\ (i + 1) - 1 = i /\ i - 1 \in 0..(N - 1) /\ i \in 0..(N - 1)
        /\ (i - 1) + 1 = i
    BY <1>2
  <2>2. fs[i + 1].units = Up(c[i], c[i + 1])
    BY <1>3, <2>1
  <2>3. e[i - 1] = c[i] /\ e[i] = c[i + 1]
    BY <1>4, <2>1
  <2> QED  BY <1>2, <2>2, <2>3
<1>8. IsCut(e, gs, c[1], b)
  BY <1>2, <1>5, <1>6, <1>7 DEF IsCut
<1>9. c[1] \in Nat /\ a <= c[1] /\ c[1] <= b
  <2>1. 0 \in 0..N /\ 1 \in 0..N /\ N \in 0..N
    BY <1>2
  <2> QED  BY <1>1, <1>2, <1>3, <2>1
<1>10. Head(fs).units = Up(a, c[1])
  <2>1. 1 \in 1..N /\ 1 - 1 = 0
    BY <1>2
  <2> QED  BY <1>2, <1>3, <2>1
<1>11. Covers(gs, c[1], b)
  BY <1>2, <1>4, <1>8 DEF Covers
<1> QED  BY <1>9, <1>10, <1>11 DEF gs

\* A nonempty set of naturals has a least element.
LEMMA LeastNumber ==
  ASSUME NEW T \in SUBSET Nat, T # {}
  PROVE  \E x \in T : \A y \in T : x <= y
<1>1. PICK x \in T : \A y \in T : <<y, x>> \notin OpToRel(<, Nat)
  BY WFMin, NatLessThanWellFounded, Zenon
<1>2. \A y \in T : ~(y < x)
  BY <1>1, Zenon DEF OpToRel
<1> QED  BY <1>2

(***************************************************************************)
(* Frames that cut a stream hold, taken together, the stream between the   *)
(* first cut and the last.  The stretches up to each cut satisfy the       *)
(* equation of the recursion in FlattenSeq, so some function does, and the *)
(* one that is chosen cannot differ from them at a first place.            *)
(***************************************************************************)
LEMMA Flattened ==
  ASSUME NEW S, NEW fs \in Seq(S), NEW a \in Nat, NEW b \in Nat, Covers(fs, a, b)
  PROVE  FlattenSeq([i \in DOMAIN fs |-> fs[i].units]) = Up(a, b)
<1> DEFINE N == Len(fs)
           seqs == [i \in DOMAIN fs |-> fs[i].units]
<1>1. PICK c \in [0..N -> Nat] : IsCut(c, fs, a, b)
  BY DEF Covers
<1>2. /\ N \in Nat /\ DOMAIN seqs = 1..N
      /\ \A i \in 1..N : seqs[i] = Up(c[i - 1], c[i])
  BY <1>1 DEF IsCut
<1>3. Len(seqs) = N
  BY <1>2
<1>4. c[0] = a /\ c[N] = b /\ \A i, j \in 0..N : i <= j => c[i] <= c[j]
  BY <1>1 DEF IsCut
<1>5. CASE N = 0
  <2>1. FlattenSeq(seqs) = seqs
    BY <1>3, <1>5 DEF FlattenSeq
  <2>2. seqs = <<>>
    BY <1>2, <1>5
  <2>3. a = b
    BY <1>4, <1>5
  <2> QED  BY <2>1, <2>2, <2>3, UpEmpty
<1>6. CASE N # 0
  <2> DEFINE Step(f) == [i \in 1..N |-> IF i = 1 THEN seqs[i] ELSE f[i - 1] \o seqs[i]]
             flat == CHOOSE f : f = Step(f)
             g == [i \in 1..N |-> Up(a, c[i])]
  <2>1. FlattenSeq(seqs) = flat[N]
    <3> HIDE DEF seqs, N
    <3> QED  BY <1>3, <1>6 DEF FlattenSeq
  <2>2. ASSUME NEW i \in 1..N
        PROVE  g[i] = IF i = 1 THEN seqs[i] ELSE g[i - 1] \o seqs[i]
    <3>1. CASE i = 1
      BY <1>2, <1>4, <3>1
    <3>2. CASE i # 1
      <4>1. i - 1 \in 1..N /\ i - 1 \in 0..N /\ i \in 0..N /\ 0 \in 0..N
        BY <1>2, <3>2
      <4>2. c[i - 1] \in Nat /\ c[i] \in Nat /\ a <= c[i - 1] /\ c[i - 1] <= c[i]
        BY <1>1, <1>4, <4>1, SMTT(30)
      <4>3. g[i] = Up(a, c[i]) /\ g[i - 1] = Up(a, c[i - 1])
        BY <4>1
      <4>4. seqs[i] = Up(c[i - 1], c[i])
        BY <1>2
      <4>5. Up(a, c[i - 1]) \o Up(c[i - 1], c[i]) = Up(a, c[i])
        BY <4>2, UpJoins
      <4> QED  BY <3>2, <4>3, <4>4, <4>5
    <3> QED  BY <3>1, <3>2
  <2>3. g = Step(g)
    <3> HIDE DEF seqs, N
    <3> QED  BY <2>2
  <2>4. flat = Step(flat)
    <3> HIDE DEF g, Step
    <3> QED  BY <2>3
  <2> DEFINE T == {i \in 1..N : flat[i] # g[i]}
  <2>5. T = {}
    <3> SUFFICES ASSUME T # {} PROVE FALSE
      OBVIOUS
    <3>1. PICK i \in T : \A j \in T : i <= j
      <4>1. T \in SUBSET Nat
        <5> HIDE DEF flat, g, N
        <5> QED  BY <1>2
      <4> HIDE DEF T
      <4> QED  BY <4>1, LeastNumber
    <3>2. flat[i] = IF i = 1 THEN seqs[i] ELSE flat[i - 1] \o seqs[i]
      <4>1. i \in 1..N
        BY <3>1
      <4> HIDE DEF flat, seqs, N, T
      <4> QED  BY <2>4, <4>1
    <3>3. CASE i = 1
      <4> HIDE DEF flat, g, seqs
      <4> QED  BY <2>2, <3>1, <3>2, <3>3
    <3>4. CASE i # 1
      <4>1. i - 1 \in 1..N /\ ~(i <= i - 1)
        <5>1. i \in 1..N
          BY <3>1
        <5> HIDE DEF flat, g, N, seqs, T
        <5> QED  BY <1>2, <3>4, <5>1
      <4>2. flat[i - 1] = g[i - 1]
        <5> HIDE DEF flat, g, N
        <5> QED  BY <3>1, <4>1
      <4> HIDE DEF flat, g, seqs, N
      <4> QED  BY <2>2, <3>1, <3>2, <3>4, <4>2
    <3> QED  BY <3>3, <3>4
  <2>6. flat[N] = g[N]
    <3>1. N \in 1..N
      BY <1>2, <1>6
    <3> HIDE DEF flat, g, N
    <3> QED  BY <2>5, <3>1
  <2>7. g[N] = Up(a, b)
    <3>1. N \in 1..N
      BY <1>2, <1>6
    <3> QED  BY <1>4, <3>1
  <2> HIDE DEF flat, g
  <2> QED  BY <2>1, <2>6, <2>7
<1> QED  BY <1>5, <1>6
-----------------------------------------------------------------------------
(* Types.                                                                  *)

\* The constants that bound a number are naturals.
LEMMA Bounds ==
  /\ StreamLen \in Nat /\ DownLen \in Nat /\ MaxHeader \in Nat
  /\ HeaderLen \in Nat /\ 0 < HeaderLen
<1>1. {HeaderLen, MaxHeader, StreamLen, DownLen, MaxQueued} \subseteq Nat /\ 0 < HeaderLen
  BY WebSocketAssumption
<1>2. /\ StreamLen \in {HeaderLen, MaxHeader, StreamLen, DownLen, MaxQueued}
      /\ DownLen \in {HeaderLen, MaxHeader, StreamLen, DownLen, MaxQueued}
      /\ MaxHeader \in {HeaderLen, MaxHeader, StreamLen, DownLen, MaxQueued}
      /\ HeaderLen \in {HeaderLen, MaxHeader, StreamLen, DownLen, MaxQueued}
  OBVIOUS
<1> QED  BY <1>1, <1>2, Zenon

\* The protocol's reply is a stretch of bytes.
LEMMA OpeningType == Opening \in Seq(Nat) /\ Opening \in Seq(0..DownLen)
<1>1. 0 \in 0..DownLen
  BY Bounds
<1>2. /\ <<Reply>> \in Seq(Nat) /\ <<Reply>> \in Seq(0..DownLen)
      /\ <<>> \in Seq(Nat) /\ <<>> \in Seq(0..DownLen)
  BY <1>1 DEF Reply
<1> QED  BY <1>2, Zenon DEF Opening

\* The front event of a queue is an event, the rest a queue.
LEMMA FrontEvent ==
  ASSUME NEW fs \in Seq(Event), fs # <<>>
  PROVE  /\ Tail(fs) \in Seq(Event) /\ Head(fs) \in Event
         /\ Head(fs).units \in Seq(1..StreamLen)
<1>1. Tail(fs) \in Seq(Event) /\ Head(fs) \in Event
  BY HeadTailProperties
<1> QED  BY <1>1 DEF Event

\* The types hold at the start.
LEMMA InitTypes == Init => TypeOK
<1> SUFFICES ASSUME Init PROVE TypeOK
  OBVIOUS
<1>1. /\ frames = <<>> /\ piece = <<>> /\ written = <<>> /\ got = <<>>
      /\ sent = 0 /\ pending = 0 /\ first = 0 /\ offered = 0 /\ heard = 0
  BY DEF Init
<1>2. /\ frames \in Seq(Event) /\ piece \in Seq(1..StreamLen)
      /\ written \in Seq(1..StreamLen) /\ got \in Seq(0..DownLen)
  BY <1>1
<1>3. /\ sent \in 0..StreamLen /\ pending \in 0..MaxHeader /\ first \in 0..StreamLen
      /\ offered \in 0..DownLen /\ heard \in 0..DownLen
  BY <1>1, Bounds
<1>4. /\ request \in Requests /\ client = "open" /\ phase = "header"
      /\ up = "off" /\ dn = "off" /\ dest = "none" /\ closed = FALSE /\ dropped = FALSE
  BY DEF Init
<1> QED  BY <1>2, <1>3, <1>4, Zenon DEF TypeOK

\* What a connection owns beside its streams is of its type after any step.
LEMMA ControlTypesKept ==
  ASSUME TypeOK, [Next]_vars
  PROVE  /\ request' \in Requests /\ client' \in {"open", "left"}
         /\ phase' \in {"header", "dial", "relay", "finished"}
         /\ up' \in {"off", "wait", "write", "done"} /\ dn' \in {"off", "read", "done"}
         /\ dest' \in {"none", "open", "closed", "reset"}
         /\ closed' \in BOOLEAN /\ dropped' \in BOOLEAN
<1>1. /\ request \in Requests /\ client \in {"open", "left"}
      /\ phase \in {"header", "dial", "relay", "finished"}
      /\ up \in {"off", "wait", "write", "done"} /\ dn \in {"off", "read", "done"}
      /\ dest \in {"none", "open", "closed", "reset"}
      /\ closed \in BOOLEAN /\ dropped \in BOOLEAN
  BY DEF TypeOK
<1>2. CASE UNCHANGED vars
  BY <1>1, <1>2, Zenon DEF vars, headerVars, relayVars, destVars, clientVars, downVars
<1>3. CASE Peers
  BY <1>1, <1>3, Zenon DEF Peers, ClientSends, ClientSendsText, ClientLeaves, DestSends, DestEnds,
       headerVars, relayVars, destVars, clientVars, downVars
<1>4. CASE Header
  BY <1>1, <1>4, Zenon DEF Header, HeaderIncomplete, HeaderRefused, HeaderParsed, Refuse, Finish,
       relayVars, destVars, downVars
<1>5. CASE Dial
  BY <1>1, <1>5, Zenon DEF Dial, DialFails, KindRefused, ReplyFails, Connected, Refuse, Finish,
       relayVars, destVars, clientVars
<1>6. CASE Uplink
  BY <1>1, <1>6, Zenon DEF Uplink, UpTakes, UpEnds, UpWrites, UpWriteFails,
       headerVars, destVars, clientVars, downVars
<1>7. CASE Downlink
  BY <1>1, <1>7, Zenon DEF Downlink, DnRelays, DnSendFails, DnEnds,
       headerVars, relayVars, destVars, clientVars
<1>8. CASE BothDone
  BY <1>1, <1>8, Zenon DEF BothDone, Finish, clientVars, relayVars, destVars
<1> QED
  BY <1>2, <1>3, <1>4, <1>5, <1>6, <1>7, <1>8, Zenon DEF Next
-----------------------------------------------------------------------------
(* The uplink.                                                             *)

UplinkTypes ==
    /\ sent \in 0..StreamLen /\ frames \in Seq(Event)
    /\ pending \in 0..MaxHeader /\ first \in 0..StreamLen
    /\ piece \in Seq(1..StreamLen) /\ written \in Seq(1..StreamLen)

UplinkOK == UplinkTypes /\ UplinkInv

\* The client adds to the end of the queue.
LEMMA QueueGrows ==
  ASSUME TypeOK, ClientSends \/ ClientSendsText \/ ClientLeaves
  PROVE  /\ frames' \in Seq(Event) /\ sent' \in 0..StreamLen /\ sent <= sent'
         /\ \A x \in Nat : Covers(frames, x, sent) => Covers(frames, x, sent)'
<1>1. frames \in Seq(Event) /\ sent \in 0..StreamLen /\ sent \in Nat
  BY Bounds DEF TypeOK
<1>2. ASSUME NEW f \in Event, NEW d \in Nat, sent <= d, d <= StreamLen,
             f.units = Up(sent, d), frames' = Append(frames, f), sent' = d
      PROVE  /\ frames' \in Seq(Event) /\ sent' \in 0..StreamLen /\ sent <= sent'
             /\ \A x \in Nat : Covers(frames, x, sent) => Covers(frames, x, sent)'
  <2>1. frames' \in Seq(Event) /\ sent' \in 0..StreamLen /\ sent <= sent'
    BY <1>1, <1>2
  <2>2. ASSUME NEW x \in Nat, Covers(frames, x, sent)
        PROVE  Covers(frames', x, sent')
    <3>1. Covers(Append(frames, f), x, d)
      BY <1>1, <1>2, <2>2, CoversMore
    <3> QED  BY <1>2, <3>1
  <2>3. ASSUME NEW x \in Nat PROVE Covers(frames, x, sent)' <=> Covers(frames', x, sent')
    BY DEF Covers, IsCut
  <2> QED  BY <2>1, <2>2, <2>3
<1>3. CASE ClientSends
  <2>1. PICK n \in 0..(StreamLen - sent) :
          /\ sent' = sent + n
          /\ frames' = Append(frames, [type |-> "binary", units |-> Up(sent, sent + n)])
    BY <1>3 DEF ClientSends
  <2>2. sent + n \in Nat /\ sent <= sent + n /\ sent + n <= StreamLen /\ StreamLen \in Nat
    BY <1>1, <2>1, Bounds
  <2>3. Up(sent, sent + n) \in Seq(1..StreamLen)
    BY <1>1, <2>2, UpType
  <2> DEFINE f == [type |-> "binary", units |-> Up(sent, sent + n)]
  <2>4. f \in Event /\ f.units = Up(sent, sent + n)
    BY <2>3 DEF Event
  <2> HIDE DEF f
  <2> QED  BY <1>2, <2>1, <2>2, <2>4 DEF f
<1>4. CASE ClientSendsText \/ ClientLeaves
  <2>1. PICK type \in {"text", "close"} :
          /\ sent' = sent
          /\ frames' = Append(frames, [type |-> type, units |-> <<>>])
    BY <1>4 DEF ClientSendsText, ClientLeaves
  <2> DEFINE f == [type |-> type, units |-> <<>>]
  <2>2. f \in Event /\ f.units = Up(sent, sent)
    BY <1>1, UpEmpty DEF Event
  <2> HIDE DEF f
  <2>3. sent <= sent /\ sent <= StreamLen
    BY <1>1, Bounds
  <2> QED  BY <1>1, <1>2, <2>1, <2>2, <2>3 DEF f
<1> QED  BY <1>3, <1>4

\* A step of the client keeps what the uplink is in the middle of.
LEMMA UplinkAfterClient ==
  ASSUME TypeOK, UplinkInv, ClientSends \/ ClientSendsText \/ ClientLeaves
  PROVE  UplinkOK'
<1>1. /\ frames' \in Seq(Event) /\ sent' \in 0..StreamLen /\ sent <= sent'
      /\ \A x \in Nat : Covers(frames, x, sent) => Covers(frames, x, sent)'
  BY QueueGrows
<1>2. UNCHANGED <<phase, pending, first, up, piece, written>>
  BY DEF ClientSends, ClientSendsText, ClientLeaves, headerVars, relayVars, destVars
<1>3. /\ sent \in Nat /\ pending \in Nat /\ sent' \in Nat
      /\ pending \in 0..MaxHeader /\ first \in 0..StreamLen
      /\ piece \in Seq(1..StreamLen) /\ written \in Seq(1..StreamLen)
  BY <1>1, Bounds DEF TypeOK
<1>4. UplinkTypes'
  BY <1>1, <1>2, <1>3 DEF UplinkTypes
<1>5. phase' \in {"header", "dial"} => up' = "off" /\ Covers(frames, pending, sent)'
  <2> SUFFICES ASSUME phase \in {"header", "dial"}
               PROVE  up = "off" /\ Covers(frames, pending, sent)'
    BY <1>2
  <2>1. up = "off" /\ Covers(frames, pending, sent)
    BY DEF UplinkInv
  <2>2. \A x \in Nat : x = pending => Covers(frames, x, sent)'
    BY <1>1, <2>1
  <2> QED  BY <1>2, <1>3, <2>1, <2>2 DEF Covers, IsCut
<1>6. up' \in {"wait", "write"} => Meets'
  <2> SUFFICES ASSUME up \in {"wait", "write"} PROVE Meets'
    BY <1>2
  <2>1. PICK m \in Nat, n \in Nat :
          /\ first <= m /\ m <= n
          /\ written = Up(first, m) /\ piece = Up(m, n) /\ Covers(frames, n, sent)
    BY DEF UplinkInv, Meets
  <2>2. Covers(frames, n, sent)'
    BY <1>1, <2>1
  <2> QED  BY <1>2, <2>1, <2>2 DEF Meets
<1>7. up' = "done" => \E m \in Nat : first' <= m /\ m <= sent' /\ written' = Up(first, m)'
  <2> SUFFICES ASSUME up = "done"
               PROVE  \E m \in Nat : first <= m /\ m <= sent' /\ written = Up(first, m)
    BY <1>2 DEF Up
  <2>1. PICK m \in Nat : first <= m /\ m <= sent /\ written = Up(first, m)
    BY DEF UplinkInv
  <2>2. m <= sent'
    BY <1>1, <1>3, <2>1
  <2> QED  BY <2>1, <2>2
<1>8. /\ phase' = "relay" => up' # "off"
      /\ up' = "off" => written' = <<>> /\ piece' = <<>> /\ first' = 0
      /\ up' = "wait" => piece' = <<>>
  BY <1>2 DEF UplinkInv
<1> QED  BY <1>4, <1>5, <1>6, <1>7, <1>8 DEF UplinkOK, UplinkInv

\* What has to hold after a step for the stretches to meet.
LEMMA MeetsNext ==
  ASSUME NEW m \in Nat, NEW n \in Nat, first' <= m, m <= n,
         written' = Up(first', m), piece' = Up(m, n), Covers(frames', n, sent')
  PROVE  Meets'
<1>1. Covers(frames, n, sent)'
  BY DEF Covers, IsCut
<1>2. written' = Up(first, m)' /\ piece' = Up(m, n)'
  BY DEF Up
<1> QED  BY <1>1, <1>2 DEF Meets

\* Steps that leave the client's stream alone.
LEMMA UplinkQuiet ==
  ASSUME TypeOK, UplinkInv,
         UNCHANGED <<sent, frames, pending, first, up, piece, written>>,
         \/ phase' = phase
         \/ phase' = "finished" /\ up \in {"off", "done"}
  PROVE  UplinkOK'
<1>1. UplinkTypes'
  BY DEF UplinkTypes, TypeOK
<1>2. phase' \in {"header", "dial"} \/ phase' = "relay" => phase' = phase
  OBVIOUS
<1> QED  BY <1>1, <1>2 DEF UplinkOK, UplinkInv, Meets, Covers, IsCut

\* The header loop takes a frame, and keeps on or has its header.
LEMMA UplinkHeader ==
  ASSUME TypeOK, UplinkInv, HeaderIncomplete \/ HeaderParsed
  PROVE  UplinkOK'
<1>1. /\ phase = "header" /\ frames # <<>> /\ frames' = Tail(frames)
      /\ pending' = Buffered /\ Buffered <= MaxHeader
      /\ phase' \in {"header", "dial"}
      /\ UNCHANGED <<sent, first, up, piece, written>>
  BY DEF HeaderIncomplete, HeaderParsed, NextEvent, FitsBuffer, relayVars, destVars
<1>2. /\ sent \in Nat /\ pending \in Nat /\ frames \in Seq(Event)
      /\ sent \in 0..StreamLen /\ first \in 0..StreamLen
      /\ piece \in Seq(1..StreamLen) /\ written \in Seq(1..StreamLen)
  BY Bounds DEF TypeOK
<1>3. up = "off" /\ Covers(frames, pending, sent)
  BY <1>1 DEF UplinkInv
<1>4. PICK m \in Nat : /\ pending <= m /\ m <= sent
                       /\ Head(frames).units = Up(pending, m)
                       /\ Covers(Tail(frames), m, sent)
  BY <1>1, <1>2, <1>3, CoversRest
<1>5. Buffered = m
  <2>1. Len(Head(frames).units) = m - pending
    BY <1>2, <1>4, UpType
  <2> QED  BY <1>2, <2>1 DEF Buffered
<1>6. UplinkTypes'
  <2>1. frames' \in Seq(Event)
    BY <1>1, <1>2, FrontEvent
  <2>2. pending' \in 0..MaxHeader
    BY <1>1, <1>5, Bounds
  <2> QED  BY <1>1, <1>2, <2>1, <2>2 DEF UplinkTypes
<1>7. Covers(frames', pending', sent')
  BY <1>1, <1>4, <1>5
<1>8. Covers(frames, pending, sent)'
  BY <1>7 DEF Covers, IsCut
<1> QED  BY <1>1, <1>3, <1>6, <1>8 DEF UplinkOK, UplinkInv

\* The uplink when the session is refused, ...
LEMMA UplinkRefused ==
  ASSUME TypeOK, UplinkInv, HeaderRefused \/ DialFails \/ KindRefused \/ ReplyFails
  PROVE  UplinkOK'
<1>1. /\ phase \in {"header", "dial"} /\ phase' = "finished"
      /\ UNCHANGED <<sent, pending, first, up, piece, written>>
      /\ \/ frames' = frames
         \/ frames # <<>> /\ frames' = Tail(frames)
  BY DEF HeaderRefused, DialFails, KindRefused, ReplyFails, NextEvent, Refuse, Finish,
         relayVars, destVars
<1>2. frames' \in Seq(Event)
  BY <1>1, FrontEvent DEF TypeOK
<1>3. UplinkTypes'
  BY <1>1, <1>2 DEF UplinkTypes, TypeOK
<1>4. up = "off" /\ written = <<>> /\ piece = <<>> /\ first = 0
  BY <1>1 DEF UplinkInv
<1> QED  BY <1>1, <1>3, <1>4 DEF UplinkOK, UplinkInv

\* ... when it is connected, ...
LEMMA UplinkConnected ==
  ASSUME TypeOK, UplinkInv, Connected
  PROVE  UplinkOK'
<1>1. /\ phase = "dial" /\ phase' = "relay" /\ pending' = 0 /\ first' = pending
      /\ up' = "wait" /\ UNCHANGED <<sent, frames, piece, written>>
  BY DEF Connected, clientVars
<1>2. /\ sent \in Nat /\ pending \in Nat /\ frames \in Seq(Event)
      /\ sent \in 0..StreamLen
      /\ piece \in Seq(1..StreamLen) /\ written \in Seq(1..StreamLen)
  BY Bounds DEF TypeOK
<1>3. up = "off" /\ Covers(frames, pending, sent) /\ written = <<>> /\ piece = <<>>
  BY <1>1 DEF UplinkInv
<1>4. pending <= sent /\ pending <= StreamLen
  <2>1. pending <= sent
    BY <1>2, <1>3, CoversInOrder
  <2> QED  BY <1>2, <2>1, Bounds
<1>5. UplinkTypes'
  BY <1>1, <1>2, <1>4, Bounds DEF UplinkTypes
<1>6. Meets'
  <2>1. Up(pending, pending) = <<>>
    BY <1>2, UpEmpty
  <2>2. /\ first' <= pending /\ written' = Up(first', pending)
        /\ piece' = Up(pending, pending) /\ Covers(frames', pending, sent')
    BY <1>1, <1>2, <1>3, <2>1
  <2>3. first' \in Nat
    BY <1>1, <1>2
  <2> QED  BY <1>2, <2>2, <2>3, MeetsNext
<1> QED  BY <1>1, <1>3, <1>5, <1>6 DEF UplinkOK, UplinkInv

\* ... when the pump takes a frame, ...
LEMMA UplinkTakes ==
  ASSUME TypeOK, UplinkInv, UpTakes \/ UpEnds
  PROVE  UplinkOK'
<1>1. /\ up = "wait" /\ frames # <<>> /\ frames' = Tail(frames)
      /\ UNCHANGED <<phase, sent, pending, first, written>>
      /\ \/ up' = "write" /\ piece' = Head(frames).units
         \/ up' = "done" /\ piece' = piece
  BY DEF UpTakes, UpEnds, headerVars, destVars
<1>2. /\ sent \in Nat /\ frames \in Seq(Event) /\ sent \in 0..StreamLen /\ first \in Nat
      /\ piece \in Seq(1..StreamLen) /\ written \in Seq(1..StreamLen)
  BY Bounds DEF TypeOK
<1>3. PICK m \in Nat, n \in Nat :
        /\ first <= m /\ m <= n
        /\ written = Up(first, m) /\ piece = Up(m, n) /\ Covers(frames, n, sent)
  BY <1>1 DEF UplinkInv, Meets
<1>4. m = n
  <2>1. piece = <<>>
    BY <1>1 DEF UplinkInv
  <2>2. Len(Up(m, n)) = n - m
    BY <1>3, UpType
  <2> QED  BY <1>3, <2>1, <2>2
<1>5. PICK k \in Nat : /\ n <= k /\ k <= sent
                       /\ Head(frames).units = Up(n, k)
                       /\ Covers(Tail(frames), k, sent)
  BY <1>1, <1>2, <1>3, CoversRest
<1>6. UplinkTypes'
  <2>1. frames' \in Seq(Event) /\ piece' \in Seq(1..StreamLen)
    BY <1>1, <1>2, FrontEvent
  <2> QED  BY <1>1, <2>1 DEF UplinkTypes, TypeOK
<1>7. ~(phase \in {"header", "dial"})
  BY <1>1 DEF UplinkInv
<1>8. CASE up' = "write"
  <2>1. piece' = Up(n, k)
    BY <1>1, <1>5, <1>8
  <2>2. Covers(frames', k, sent')
    BY <1>1, <1>5
  <2>3. first' <= n /\ written' = Up(first', n)
    BY <1>1, <1>3, <1>4
  <2>4. Meets'
    BY <1>5, <2>1, <2>2, <2>3, MeetsNext
  <2> QED  BY <1>1, <1>6, <1>7, <1>8, <2>4 DEF UplinkOK, UplinkInv
<1>9. CASE up' = "done"
  <2>1. first <= n /\ n <= sent /\ written = Up(first, n)
    BY <1>2, <1>3, <1>4, <1>5
  <2>2. \E x \in Nat : first' <= x /\ x <= sent' /\ written' = Up(first, x)'
    BY <1>1, <2>1 DEF Up
  <2> QED  BY <1>1, <1>6, <1>7, <1>9, <2>2 DEF UplinkOK, UplinkInv
<1> QED  BY <1>1, <1>8, <1>9

\* ... when it writes, ...
LEMMA UplinkWrites ==
  ASSUME TypeOK, UplinkInv, UpWrites \/ UpWriteFails
  PROVE  UplinkOK'
<1>1. /\ up = "write" /\ piece' = <<>>
      /\ UNCHANGED <<phase, sent, frames, pending, first>>
  BY DEF UpWrites, UpWriteFails, clientVars, headerVars
<1>2. /\ sent \in Nat /\ frames \in Seq(Event) /\ sent \in 0..StreamLen /\ first \in Nat
      /\ piece \in Seq(1..StreamLen) /\ written \in Seq(1..StreamLen) /\ StreamLen \in Nat
  BY Bounds DEF TypeOK
<1>3. PICK m \in Nat, n \in Nat :
        /\ first <= m /\ m <= n
        /\ written = Up(first, m) /\ piece = Up(m, n) /\ Covers(frames, n, sent)
  BY <1>1 DEF UplinkInv, Meets
<1>4. n <= sent
  BY <1>2, <1>3, CoversInOrder
<1>5. ~(phase \in {"header", "dial"})
  BY <1>1 DEF UplinkInv
<1>6. ASSUME NEW x \in Nat, m <= x, x <= n, written' = Up(first, x)
      PROVE  UplinkTypes'
  <2>1. x <= StreamLen /\ first <= x
    BY <1>2, <1>3, <1>4, <1>6
  <2>2. written' \in Seq(1..StreamLen)
    BY <1>2, <1>6, <2>1, UpType
  <2>3. piece' \in Seq(1..StreamLen)
    BY <1>1
  <2> QED  BY <1>1, <2>2, <2>3 DEF UplinkTypes, TypeOK
<1>7. CASE UpWrites
  <2>1. up' = "wait" /\ written' = Up(first, n)
    <3>1. up' = "wait" /\ written' = written \o piece
      BY <1>7 DEF UpWrites
    <3> QED  BY <1>2, <1>3, <3>1, UpJoins
  <2>2. UplinkTypes'
    BY <1>3, <1>6, <2>1
  <2>3. Up(n, n) = <<>>
    BY UpEmpty
  <2>4. first <= n
    BY <1>2, <1>3
  <2>5. Covers(frames, n, sent)'
    BY <1>1, <1>3 DEF Covers, IsCut
  <2>6. Meets'
    BY <1>1, <2>1, <2>3, <2>4, <2>5 DEF Meets, Up
  <2> QED  BY <1>1, <1>5, <2>1, <2>2, <2>6 DEF UplinkOK, UplinkInv
<1>8. CASE UpWriteFails
  <2>1. PICK k \in 0..Len(piece) : written' = written \o SubSeq(piece, 1, k)
    BY <1>8 DEF UpWriteFails
  <2>2. up' = "done"
    BY <1>8 DEF UpWriteFails
  <2>3. Len(piece) = n - m
    BY <1>3, UpType
  <2>4. k \in Nat /\ m + k \in Nat /\ m <= m + k /\ m + k <= n /\ first <= m + k
    BY <1>2, <1>3, <2>1, <2>3
  <2>5. SubSeq(piece, 1, k) = Up(m, m + k)
    BY <1>3, <2>4, UpFront
  <2>6. written' = Up(first, m + k)
    <3>1. written' = Up(first, m) \o Up(m, m + k)
      BY <1>3, <2>1, <2>5
    <3> QED  BY <1>2, <1>3, <2>4, <3>1, UpJoins
  <2>7. UplinkTypes'
    BY <1>6, <2>4, <2>6
  <2>8. m + k <= sent
    BY <1>2, <1>4, <2>4
  <2>9. \E x \in Nat : first' <= x /\ x <= sent' /\ written' = Up(first, x)'
    BY <1>1, <2>4, <2>6, <2>8 DEF Up
  <2> QED  BY <1>1, <1>5, <2>2, <2>7, <2>9 DEF UplinkOK, UplinkInv
<1> QED  BY <1>7, <1>8

\* ... and so in every step.
LEMMA UplinkKept == TypeOK /\ UplinkInv /\ [Next]_vars => UplinkOK'
<1> SUFFICES ASSUME TypeOK, UplinkInv, [Next]_vars PROVE UplinkOK'
  OBVIOUS
<1>1. CASE ClientSends \/ ClientSendsText \/ ClientLeaves
  BY <1>1, UplinkAfterClient
<1>2. CASE UNCHANGED vars \/ DestSends \/ DestEnds \/ Downlink
  <2>1. UNCHANGED <<phase, sent, frames, pending, first, up, piece, written>>
    BY <1>2 DEF DestSends, DestEnds, Downlink, DnRelays, DnSendFails, DnEnds, vars,
         headerVars, relayVars, destVars, clientVars, downVars
  <2> QED  BY <2>1, UplinkQuiet
<1>3. CASE HeaderIncomplete \/ HeaderParsed
  BY <1>3, UplinkHeader
<1>4. CASE HeaderRefused \/ DialFails \/ KindRefused \/ ReplyFails
  BY <1>4, UplinkRefused
<1>5. CASE Connected
  BY <1>5, UplinkConnected
<1>6. CASE UpTakes \/ UpEnds
  BY <1>6, UplinkTakes
<1>7. CASE UpWrites \/ UpWriteFails
  BY <1>7, UplinkWrites
<1>8. CASE BothDone
  <2>1. /\ UNCHANGED <<sent, frames, pending, first, up, piece, written>>
        /\ phase' = "finished" /\ up \in {"off", "done"}
    BY <1>8 DEF BothDone, Finish, Joined, clientVars, relayVars, destVars
  <2> QED  BY <2>1, UplinkQuiet
<1> QED
  BY <1>1, <1>2, <1>3, <1>4, <1>5, <1>6, <1>7, <1>8
  DEF Next, Peers, Header, Dial, Uplink
-----------------------------------------------------------------------------
(* The downlink.                                                           *)

DownTypes == offered \in 0..DownLen /\ heard \in 0..DownLen /\ got \in Seq(0..DownLen)

DownlinkOK == DownTypes /\ DownlinkInv

\* What is sent after n more units is one longer stretch behind the opening.
LEMMA SentAfterMore ==
  ASSUME NEW h \in Nat, NEW n \in Nat
  PROVE  SentAfter(h) \o Up(h, h + n) = SentAfter(h + n)
<1>1. Opening \in Seq(Nat)
  BY OpeningType
<1>2. 0 <= h /\ h <= h + n /\ h + n \in Nat
  OBVIOUS
<1>3. Up(0, h) \in Seq(Nat) /\ Up(h, h + n) \in Seq(Nat)
  BY <1>2, UpType
<1>4. (Opening \o Up(0, h)) \o Up(h, h + n) = Opening \o (Up(0, h) \o Up(h, h + n))
  BY <1>1, <1>3, ConcatAssociative, SMTT(30)
<1>5. Up(0, h) \o Up(h, h + n) = Up(0, h + n)
  BY <1>2, UpJoins
<1> QED  BY <1>4, <1>5 DEF SentAfter

\* Before anything was passed on the client has the reply.
LEMMA NothingPassedOn == SentAfter(0) = Opening
<1>1. Opening \in Seq(Nat)
  BY OpeningType
<1> QED  BY <1>1, UpEmpty DEF SentAfter

\* Steps that change neither what was sent nor who is served.
LEMMA DownlinkQuiet ==
  ASSUME TypeOK, DownlinkInv,
         UNCHANGED <<request, offered, heard, got, dropped, dn, dest>>,
         \/ up' = up
         \/ up # "off" /\ up' # "off",
         \/ phase' = phase
         \/ phase' \in {"relay", "finished"}
         \/ phase' = "dial" /\ request.known /\ request.is_tcp /\ request.hasTarget
              /\ up = "off" /\ dn = "off",
         phase' \in {"header", "dial"} => up' = up
  PROVE  DownlinkOK'
<1>1. DownTypes'
  BY DEF DownTypes, TypeOK
<1> QED  BY <1>1 DEF DownlinkOK, DownlinkInv, Admitted, Served, SentAfter, Opening

\* The downlink when the destination speaks, ...
LEMMA DownlinkDest ==
  ASSUME TypeOK, DownlinkInv, DestSends \/ DestEnds
  PROVE  DownlinkOK'
<1>1. /\ UNCHANGED <<request, phase, up, dn, heard, got, dropped>>
      /\ dest = "open" /\ dest' \in {"open", "closed", "reset"}
      /\ \/ offered' = offered + 1 /\ offered < DownLen /\ dest' = dest
         \/ offered' = offered
  BY DEF DestSends, DestEnds, headerVars, relayVars, clientVars, downVars
<1>2. /\ offered \in 0..DownLen /\ heard \in 0..DownLen /\ heard <= offered
      /\ got \in Seq(0..DownLen)
  BY DEF TypeOK, DownlinkInv
<1>3. DownTypes' /\ heard' <= offered'
  BY <1>1, <1>2, Bounds DEF DownTypes
<1>4. dn = "done" => dropped
  BY <1>1 DEF DownlinkInv
<1> QED
  BY <1>1, <1>3, <1>4 DEF DownlinkOK, DownlinkInv, Admitted, Served, SentAfter, Opening

\* ... when the session is connected, ...
LEMMA DownlinkConnected ==
  ASSUME TypeOK, DownlinkInv, Connected
  PROVE  DownlinkOK'
<1>1. /\ phase = "dial" /\ Served /\ got' = Opening
      /\ phase' = "relay" /\ up' = "wait" /\ dn' = "read"
      /\ UNCHANGED <<request, offered, heard>>
  BY DEF Connected
<1>2. heard = 0 /\ heard <= offered
  BY <1>1 DEF DownlinkInv
<1>3. got' = SentAfter(heard)'
  BY <1>1, <1>2, NothingPassedOn DEF SentAfter, Opening
<1>4. Admitted'
  BY <1>1 DEF DownlinkInv, Admitted, Served
<1>5. \E k \in Nat : got' = SentAfter(k)'
  BY <1>1, <1>2, NothingPassedOn DEF SentAfter, Opening
<1>6. DownTypes'
  BY <1>1, OpeningType DEF DownTypes, TypeOK
<1> QED  BY <1>1, <1>2, <1>3, <1>4, <1>5, <1>6 DEF DownlinkOK, DownlinkInv

\* ... when a read is passed on, ...
LEMMA DownlinkRelays ==
  ASSUME TypeOK, DownlinkInv, DnRelays
  PROVE  DownlinkOK'
<1>1. PICK n \in 1..(offered - heard) :
         heard' = heard + n /\ got' = got \o Up(heard, heard + n)
  BY DEF DnRelays
<1>2. /\ dn = "read" /\ UNCHANGED <<request, phase, up, dn, offered>>
  BY DEF DnRelays, headerVars, relayVars, destVars
<1>3. /\ offered \in 0..DownLen /\ heard \in 0..DownLen /\ got \in Seq(0..DownLen)
      /\ DownLen \in Nat
  BY Bounds DEF TypeOK
<1>4. /\ heard \in Nat /\ n \in Nat /\ heard + n \in Nat
      /\ heard + n <= offered /\ heard + n <= DownLen /\ heard <= heard + n
  BY <1>1, <1>3
<1>5. got' = SentAfter(heard + n)
  BY <1>1, <1>2, <1>4, SentAfterMore DEF DownlinkInv
<1>6. got' = SentAfter(heard)'
  BY <1>1, <1>2, <1>5 DEF SentAfter, Opening
<1>7. \E k \in Nat : got' = SentAfter(k)'
  <2>1. heard' \in Nat
    BY <1>1, <1>4
  <2> QED  BY <1>6, <2>1 DEF SentAfter
<1>8. DownTypes'
  <2>1. Up(heard, heard + n) \in Seq(0..DownLen)
    BY <1>3, <1>4, UpType
  <2>2. got' \in Seq(0..DownLen)
    BY <1>1, <1>3, <2>1, ConcatProperties
  <2>3. heard' \in 0..DownLen
    BY <1>1, <1>3, <1>4
  <2> QED  BY <1>2, <1>3, <2>2, <2>3 DEF DownTypes
<1>9. Admitted' /\ heard' <= offered'
  BY <1>1, <1>2, <1>4 DEF DownlinkInv, Admitted, Served
<1>10. ~(phase \in {"header", "dial"})
  BY <1>2 DEF DownlinkInv
<1> QED
  BY <1>2, <1>6, <1>7, <1>8, <1>9, <1>10 DEF DownlinkOK, DownlinkInv

\* ... when the pump ends, ...
LEMMA DownlinkStops ==
  ASSUME TypeOK, DownlinkInv, DnSendFails \/ DnEnds
  PROVE  DownlinkOK'
<1>1. /\ UNCHANGED <<request, phase, up, offered, dest, got>>
      /\ dn = "read" /\ dn' = "done"
      /\ \/ dropped' /\ \E n \in 1..(offered - heard) : heard' = heard + n
         \/ heard' = heard /\ (AtEof \/ dest = "reset")
  BY DEF DnSendFails, DnEnds, headerVars, destVars
<1>2. /\ offered \in 0..DownLen /\ heard \in 0..DownLen /\ heard <= offered
      /\ got \in Seq(0..DownLen) /\ DownLen \in Nat
  BY Bounds DEF TypeOK, DownlinkInv
<1>3. DownTypes' /\ heard' <= offered'
  BY <1>1, <1>2 DEF DownTypes
<1>4. got = SentAfter(heard) /\ Admitted /\ \E k \in Nat : got = SentAfter(k)
  BY <1>1 DEF DownlinkInv
<1>5. dest' # "open" \/ dropped'
  BY <1>1 DEF AtEof
<1>6. dest' = "closed" /\ ~dropped' => heard' = offered' /\ heard' = heard
  BY <1>1 DEF AtEof
<1>7. Admitted' /\ (\E k \in Nat : got' = SentAfter(k)')
  BY <1>1, <1>4 DEF Admitted, Served, SentAfter, Opening
<1>8. dest' = "closed" /\ ~dropped' => got' = SentAfter(heard)'
  BY <1>1, <1>4, <1>6 DEF SentAfter, Opening
<1>9. ~(phase' \in {"header", "dial"})
  BY <1>1 DEF DownlinkInv
<1> QED
  BY <1>1, <1>3, <1>5, <1>6, <1>7, <1>8, <1>9 DEF DownlinkOK, DownlinkInv

\* ... and so in every step.
LEMMA DownlinkKept == TypeOK /\ DownlinkInv /\ [Next]_vars => DownlinkOK'
<1> SUFFICES ASSUME TypeOK, DownlinkInv, [Next]_vars PROVE DownlinkOK'
  OBVIOUS
<1>1. CASE UNCHANGED vars \/ ClientSends \/ ClientSendsText \/ ClientLeaves
  <2>1. UNCHANGED <<request, phase, up, offered, heard, got, dropped, dn, dest>>
    BY <1>1 DEF ClientSends, ClientSendsText, ClientLeaves, vars,
         headerVars, relayVars, destVars, clientVars, downVars
  <2> QED  BY <2>1, DownlinkQuiet
<1>2. CASE DestSends \/ DestEnds
  BY <1>2, DownlinkDest
<1>3. CASE HeaderIncomplete \/ HeaderRefused \/ DialFails \/ KindRefused \/ ReplyFails
  <2>1. /\ UNCHANGED <<request, up, offered, heard, got, dropped, dn, dest>>
        /\ phase' = phase \/ phase' = "finished"
    BY <1>3 DEF HeaderIncomplete, HeaderRefused, DialFails, KindRefused, ReplyFails,
         Refuse, Finish, relayVars, destVars, downVars
  <2> QED  BY <2>1, DownlinkQuiet
<1>4. CASE HeaderParsed
  <2>1. /\ UNCHANGED <<request, up, offered, heard, got, dropped, dn, dest>>
        /\ phase = "header" /\ phase' = "dial" /\ request.is_tcp /\ request.hasTarget
    BY <1>4 DEF HeaderParsed, NextEvent, relayVars, destVars, downVars
  <2>2. request.known
    BY <1>4 DEF HeaderParsed, Outcomes
  <2>3. up = "off" /\ dn = "off"
    BY <2>1 DEF DownlinkInv
  <2> QED  BY <2>1, <2>2, <2>3, DownlinkQuiet
<1>5. CASE Connected
  BY <1>5, DownlinkConnected
<1>6. CASE Uplink
  <2>1. /\ UNCHANGED <<request, phase, offered, heard, got, dropped, dn, dest>>
        /\ up # "off" /\ up' # "off"
    BY <1>6 DEF Uplink, UpTakes, UpEnds, UpWrites, UpWriteFails, headerVars, destVars,
         downVars
  <2>2. ~(phase \in {"header", "dial"})
    BY <2>1 DEF DownlinkInv
  <2> QED  BY <2>1, <2>2, DownlinkQuiet
<1>7. CASE DnRelays
  BY <1>7, DownlinkRelays
<1>8. CASE DnSendFails \/ DnEnds
  BY <1>8, DownlinkStops
<1>9. CASE BothDone
  <2>1. /\ UNCHANGED <<request, up, offered, heard, got, dropped, dn, dest>>
        /\ phase' = "finished"
    BY <1>9 DEF BothDone, Finish, relayVars, destVars
  <2> QED  BY <2>1, DownlinkQuiet
<1> QED
  BY <1>1, <1>2, <1>3, <1>4, <1>5, <1>6, <1>7, <1>8, <1>9
  DEF Next, Peers, Header, Dial, Downlink
-----------------------------------------------------------------------------
(* The theorems.                                                           *)

\* The invariant holds at the start.
LEMMA InitInv == Init => IInv
<1> SUFFICES ASSUME Init PROVE IInv
  OBVIOUS
<1>1. TypeOK
  BY InitTypes
<1>2. Covers(frames, pending, sent)
  BY CoversNothing DEF Init
<1>3. UplinkInv
  BY <1>2 DEF Init, UplinkInv
<1>4. DownlinkInv
  BY DEF Init, DownlinkInv
<1> QED  BY <1>1, <1>3, <1>4 DEF IInv

\* Hence it holds of every behaviour.
LEMMA InvariantHolds == Spec => []IInv
<1>1. IInv /\ [Next]_vars => IInv'
  <2> SUFFICES ASSUME IInv, [Next]_vars PROVE IInv'
    OBVIOUS
  <2>1. UplinkOK' /\ DownlinkOK'
    BY UplinkKept, DownlinkKept DEF IInv
  <2>2. UplinkTypes' /\ DownTypes'
    BY <2>1 DEF UplinkOK, DownlinkOK
  <2>3. TypeOK'
    BY <2>2, ControlTypesKept DEF IInv, TypeOK, UplinkTypes, DownTypes
  <2> QED  BY <2>1, <2>3 DEF IInv, UplinkOK, DownlinkOK
<1> QED  BY <1>1, InitInv, PTL DEF Spec

(* The state of a connection stays of its type, for any requests, lengths  *)
(* and frames.                                                             *)
THEOREM TypeCorrect == Spec => []TypeOK
<1>1. IInv => TypeOK
  BY DEF IInv
<1> QED  BY <1>1, InvariantHolds, PTL

\* The stretches of the uplink and the flattened queue make up the stream.
LEMMA NothingIsLost == IInv => NothingLostAfterHeader
<1> SUFFICES ASSUME IInv PROVE NothingLostAfterHeader
  OBVIOUS
<1>1. /\ frames \in Seq(Event) /\ sent \in Nat /\ pending \in Nat /\ first \in Nat
      /\ sent \in 0..StreamLen
      /\ up \in {"off", "wait", "write", "done"}
  BY Bounds DEF IInv, TypeOK
<1>2. ASSUME NEW x \in Nat, Covers(frames, x, sent)
      PROVE  Queued = Up(x, sent) /\ x <= sent
  BY <1>1, <1>2, Flattened, CoversInOrder DEF Queued
<1>3. phase \in {"header", "dial"} => Up(0, pending) \o Queued = Up(0, sent)
  <2> SUFFICES ASSUME phase \in {"header", "dial"}
               PROVE  Up(0, pending) \o Queued = Up(0, sent)
    OBVIOUS
  <2>1. Queued = Up(pending, sent) /\ pending <= sent
    BY <1>1, <1>2 DEF IInv, UplinkInv
  <2>2. 0 \in Nat /\ 0 <= pending
    BY <1>1
  <2> QED  BY <1>1, <2>1, <2>2, UpJoins
<1>4. ASSUME up \in {"wait", "write"}
      PROVE  /\ written \o piece \o Queued = Up(first, sent)
             /\ IsPrefix(written, Up(first, sent))
  <2>1. PICK m \in Nat, n \in Nat :
          /\ first <= m /\ m <= n
          /\ written = Up(first, m) /\ piece = Up(m, n) /\ Covers(frames, n, sent)
    BY <1>4 DEF IInv, UplinkInv, Meets
  <2>2. Queued = Up(n, sent) /\ n <= sent
    BY <1>2, <2>1
  <2>3. first <= n /\ m <= sent
    BY <1>1, <2>1, <2>2
  <2>4. written \o piece = Up(first, n)
    BY <1>1, <2>1, UpJoins
  <2>5. Up(first, n) \o Queued = Up(first, sent)
    BY <1>1, <2>1, <2>2, <2>3, UpJoins
  <2>6. IsPrefix(Up(first, m), Up(first, sent))
    BY <1>1, <2>1, <2>3, UpPrefix
  <2> QED  BY <2>1, <2>4, <2>5, <2>6
<1>5. ASSUME up \in {"off", "done"}
      PROVE  IsPrefix(written, Up(first, sent))
  <2>1. PICK m \in Nat : first <= m /\ m <= sent /\ written = Up(first, m)
    <3>1. CASE up = "done"
      BY <3>1 DEF IInv, UplinkInv
    <3>2. CASE up = "off"
      <4>1. written = <<>> /\ first = 0
        BY <3>2 DEF IInv, UplinkInv
      <4>2. Up(0, 0) = <<>> /\ 0 <= sent
        BY <1>1, UpEmpty
      <4> QED  BY <4>1, <4>2
    <3> QED  BY <1>5, <3>1, <3>2
  <2> QED  BY <1>1, <2>1, UpPrefix
<1>6. phase = "relay" => up # "off"
  BY DEF IInv, UplinkInv
<1> QED  BY <1>1, <1>3, <1>4, <1>5, <1>6 DEF NothingLostAfterHeader

(* Cutting the stream into frames, waiting for a header and handing over   *)
(* to the uplink lose and reorder nothing the client sent.                 *)
THEOREM LosesNothingAfterHeader == Spec => []NothingLostAfterHeader
  BY NothingIsLost, InvariantHolds, PTL

(* No byte is sent to, or passed on for, a client that is refused.         *)
THEOREM RefusedClientsHearNothing == Spec => []RefusedHearNothing
<1>1. IInv => RefusedHearNothing
  BY DEF IInv, UplinkInv, DownlinkInv, RefusedHearNothing, Admitted, Served
<1> QED  BY <1>1, InvariantHolds, PTL

(* A client is sent its protocol's opening and then a prefix of the        *)
(* destination's stream.                                                   *)
THEOREM ClientHearsReplyThenStream == Spec => []ReplyThenStream
<1>1. ASSUME NEW k \in Nat, got = SentAfter(k)
      PROVE  ReplyThenStream
  <2>1. Up(0, k) \in Seq(Nat) /\ Len(Up(0, k)) = k
    BY UpType
  <2>2. CASE request.kind = "Vless"
    <3>1. got = <<Reply>> \o Up(0, k)
      BY <1>1, <2>2 DEF SentAfter, Opening
    <3>2. got # <<>> /\ Head(got) = Reply /\ Tail(got) = Up(0, k)
      BY <3>1, <2>1 DEF Reply
    <3> QED  BY <2>1, <2>2, <3>2 DEF ReplyThenStream
  <2>3. CASE request.kind # "Vless"
    <3>1. got = Up(0, k)
      BY <1>1, <2>1, <2>3 DEF SentAfter, Opening
    <3> QED  BY <2>1, <2>3, <3>1 DEF ReplyThenStream
  <2> QED  BY <2>2, <2>3
<1>2. got = <<>> => ReplyThenStream
  BY DEF ReplyThenStream, Up
<1>3. IInv => ReplyThenStream
  BY <1>1, <1>2 DEF IInv, DownlinkInv
<1> QED  BY <1>3, InvariantHolds, PTL

\* What was sent after the opening is each unit of the destination.
LEMMA EverythingIsSent == IInv => EofDeliversWhole
<1> SUFFICES ASSUME IInv, dn = "done", dest = "closed", ~dropped
             PROVE  ToSet(got) \ {Reply} = 1..offered
  BY DEF EofDeliversWhole
<1>1. heard = offered /\ got = Opening \o Up(0, offered) /\ offered \in Nat
  BY Bounds DEF IInv, DownlinkInv, SentAfter, TypeOK
<1>2. /\ Up(0, offered) \in Seq(Nat) /\ Len(Up(0, offered)) = offered
      /\ \A i \in 1..offered : Up(0, offered)[i] = i
  <2>1. Up(0, offered) \in Seq(Nat) /\ Len(Up(0, offered)) = offered
    BY <1>1, UpType
  <2>2. \A i \in 1..(offered - 0) : Up(0, offered)[i] = 0 + i
    BY DEF Up
  <2> QED  BY <1>1, <2>1, <2>2
<1>3. ToSet(Up(0, offered)) = 1..offered
  <2> DEFINE t == Up(0, offered)
  <2>1. DOMAIN t = 1..offered /\ \A i \in 1..offered : t[i] = i
    BY <1>2
  <2> HIDE DEF t
  <2>2. {t[i] : i \in DOMAIN t} = 1..offered
    BY <2>1
  <2> QED  BY <2>2 DEF t, ToSet
<1>4. ToSet(got) = ToSet(Opening) \cup ToSet(Up(0, offered))
  <2> DEFINE s == Opening
             t == Up(0, offered)
  <2>1. s \in Seq(Nat) /\ t \in Seq(Nat)
    BY <1>2, OpeningType
  <2> HIDE DEF s, t
  <2>2. Range(s \o t) = Range(s) \cup Range(t)
    BY <2>1, RangeConcatenation
  <2> QED  BY <1>1, <2>2 DEF s, t, ToSet, Range
<1>5. ToSet(Opening) \subseteq {Reply}
  BY DEF ToSet, Opening
<1>6. Reply \notin 1..offered
  BY <1>1 DEF Reply
<1> QED  BY <1>3, <1>4, <1>5, <1>6

(* A destination that closed is heard to its end: the downlink ends only   *)
(* after the last unit, unless the client has left.                        *)
THEOREM DeliversWholeAtEof == Spec => []EofDeliversWhole
  BY EverythingIsSent, InvariantHolds, PTL
=============================================================================
