---------------------------- MODULE OutboundProofs ----------------------------
(***************************************************************************)
(* Proofs about Outbound, for every set of sessions and targets, every     *)
(* configuration and every limit, expiry and debounce.                     *)
(*                                                                         *)
(* The argument.  A document is decided on in one step, from what the      *)
(* session read at its start, and written in another, and any number of    *)
(* sessions may write in between.  What makes the order irrelevant is that *)
(* every document on its way already names a route that carried a session  *)
(* (DocsCarried): carried only grows, so it stays true while it waits.  A  *)
(* plan is made in one step; what the resolved one holds, and that moving  *)
(* a candidate keeps the others in their order, are lemmas about the       *)
(* operators, and the session then only counts through it (Progress).      *)
(***************************************************************************)
EXTENDS Outbound, SequenceTheorems, WellFoundedInduction, TLAPS

-----------------------------------------------------------------------------
(* The invariant.                                                          *)

SessionType ==
    [pc : {"idle", "loaded", "dialing", "relaying", "failed", "writing", "done"},
     logical : Targets, cfg : Configs, known : State, plan : Seq(Target),
     idx : Nat \ {0}, first_failed : Nat, doc : State]

Types ==
    /\ now \in Nat /\ stored \in State /\ carried \subseteq Key
    /\ sess \in [Sessions -> SessionType]

\* A plan that is the resolved one with candidate n moved to the front.
Reordered(plan, resolved) ==
    /\ \E n \in DOMAIN resolved :
          plan[1] = resolved[n] /\ Tail(plan) = RemoveAt(resolved, n)
    /\ Len(plan) = Len(resolved) /\ Len(plan) \in 1..(MaxAttempts + 1)

\* How far a session is in its plan.
Progress(x) ==
    /\ x.pc \in {"idle", "loaded"} => x.plan = <<>> /\ x.idx = 1 /\ x.first_failed = 0
    /\ x.pc \notin {"idle", "loaded"} => Reordered(x.plan, Resolve(x.cfg, x.logical))
    /\ x.pc \in {"dialing", "relaying"} => x.idx <= Len(x.plan)
    /\ x.pc = "failed" => x.idx = Len(x.plan) + 1
    /\ x.idx <= Len(x.plan) + 1 /\ x.first_failed < x.idx

DocsCarried == \A s \in Sessions : sess[s].doc.preferred \in carried \cup {NoRoute}

IInv ==
    /\ Types
    /\ \A s \in Sessions : Progress(sess[s])
    /\ DocsCarried /\ RememberedRouteCarried
-----------------------------------------------------------------------------
(* Plans.                                                                  *)

\* A nonempty set of naturals has a least element.
LEMMA LeastNumber ==
  ASSUME NEW T \in SUBSET Nat, T # {}
  PROVE  \E x \in T : \A y \in T : x <= y
<1>1. PICK x \in T : \A y \in T : <<y, x>> \notin OpToRel(<, Nat)
  BY WFMin, NatLessThanWellFounded, Zenon
<1>2. \A y \in T : ~(y < x)
  BY <1>1, Zenon DEF OpToRel
<1>. QED
  BY <1>2

(***************************************************************************)
(* Flattening sequences of at most one element each: at most as many       *)
(* elements as there were sequences.  The recursion in FlattenSeq has a    *)
(* solution up to every length, since a least length without one is        *)
(* impossible; and no value of the solution can be the first that is too   *)
(* long.                                                                   *)
(***************************************************************************)
LEMMA FlattenShort ==
  ASSUME NEW S, NEW ss \in Seq(Seq(S)), \A i \in 1..Len(ss) : Len(ss[i]) <= 1
  PROVE  FlattenSeq(ss) \in Seq(S) /\ Len(FlattenSeq(ss)) <= Len(ss)
<1>. DEFINE N == Len(ss)
            Upto(n, g) == g = [i \in 1..n |-> IF i = 1 THEN ss[i] ELSE g[i - 1] \o ss[i]]
<1>1. N \in Nat /\ \A i \in 1..N : ss[i] \in Seq(S) /\ Len(ss[i]) <= 1
  OBVIOUS
<1>2. \A n \in Nat : \E g : Upto(n, g)
  <2>. DEFINE T == {n \in Nat : ~\E g : Upto(n, g)}
  <2>. SUFFICES ASSUME T # {} PROVE FALSE
    OBVIOUS
  <2>1. PICK n \in T : \A k \in T : n <= k
    <3>. HIDE DEF Upto
    <3>1. T \in SUBSET Nat
      OBVIOUS
    <3>. HIDE DEF T
    <3>. QED
      BY <3>1, LeastNumber
  <2>2. n \in Nat /\ ~\E g : Upto(n, g)
    <3>. HIDE DEF Upto
    <3>. QED
      BY <2>1
  <2>3. n # 0
    <3>1. Upto(0, <<>>)
      OBVIOUS
    <3>. HIDE DEF Upto
    <3>. QED
      BY <2>2, <3>1
  <2>4. PICK g : Upto(n - 1, g)
    <3>1. n - 1 \in Nat /\ ~(n <= n - 1)
      BY <2>2, <2>3
    <3>. HIDE DEF Upto
    <3>. QED
      BY <2>1, <3>1
  <2>. DEFINE h == [i \in 1..n |-> IF i = n THEN (IF i = 1 THEN ss[i] ELSE g[i - 1] \o ss[i])
                                   ELSE g[i]]
  <2>5. ASSUME NEW i \in 1..n
        PROVE  h[i] = IF i = 1 THEN ss[i] ELSE h[i - 1] \o ss[i]
    <3>1. i \in Nat /\ i >= 1 /\ i <= n
      BY <2>2
    <3>2. i # 1 => i - 1 \in 1..n /\ i - 1 # n
      BY <2>2, <3>1
    <3>3. i # 1 => h[i - 1] = g[i - 1]
      BY <3>2
    <3>4. CASE i = n
      BY <3>3, <3>4
    <3>5. CASE i # n
      <4>1. i \in 1..(n - 1)
        BY <2>2, <3>1, <3>5
      <4>2. g[i] = IF i = 1 THEN ss[i] ELSE g[i - 1] \o ss[i]
        BY <2>4, <4>1
      <4>3. h[i] = g[i]
        BY <3>5
      <4>. HIDE DEF h, Upto
      <4>. QED
        BY <3>3, <4>2, <4>3
    <3>. QED
      BY <3>4, <3>5
  <2>6. Upto(n, h)
    <3>1. h = [i \in 1..n |-> h[i]]
      OBVIOUS
    <3>. HIDE DEF h
    <3>. QED
      BY <2>5, <3>1
  <2>. HIDE DEF Upto, h
  <2>. QED
    BY <2>2, <2>6
<1>3. CASE N = 0
  <2>1. FlattenSeq(ss) = ss /\ ss = <<>>
    BY <1>3 DEF FlattenSeq
  <2>. QED
    BY <1>3, <2>1
<1>4. CASE N # 0
  <2>. DEFINE flat == CHOOSE f : Upto(N, f)
  <2>1. FlattenSeq(ss) = flat[N]
    <3>. HIDE DEF N
    <3>. QED
      BY <1>4 DEF FlattenSeq, N
  <2>2. Upto(N, flat)
    <3>. HIDE DEF Upto, N
    <3>. QED
      BY <1>1, <1>2
  <2>. HIDE DEF flat
  <2>3. \A i \in 1..N : flat[i] = IF i = 1 THEN ss[i] ELSE flat[i - 1] \o ss[i]
    <3>. HIDE DEF N
    <3>. QED
      BY <2>2
  <2>. HIDE DEF Upto, N
  <2>. DEFINE Short(i) == flat[i] \in Seq(S) /\ Len(flat[i]) <= i
              T == {i \in 1..N : ~Short(i)}
  <2>4. T = {}
    <3>. SUFFICES ASSUME T # {} PROVE FALSE
      OBVIOUS
    <3>1. PICK i \in T : \A k \in T : i <= k
      <4>. HIDE DEF Short
      <4>1. T \in SUBSET Nat
        BY <1>1
      <4>. HIDE DEF T
      <4>. QED
        BY <4>1, LeastNumber
    <3>2. i \in 1..N /\ ~Short(i)
      <4>. HIDE DEF Short
      <4>. QED
        BY <3>1
    <3>3. CASE i = 1
      BY <1>1, <2>3, <3>2, <3>3
    <3>4. CASE i # 1
      <4>1. i - 1 \in 1..N /\ ~(i <= i - 1) /\ i \in Nat
        BY <1>1, <3>2, <3>4
      <4>2. Short(i - 1)
        <5>. HIDE DEF Short
        <5>. QED
          BY <3>1, <4>1
      <4>3. /\ flat[i - 1] \in Seq(S) /\ Len(flat[i - 1]) <= i - 1
            /\ ss[i] \in Seq(S) /\ Len(ss[i]) <= 1
        BY <1>1, <3>2, <4>2
      <4>4. /\ flat[i - 1] \o ss[i] \in Seq(S)
            /\ Len(flat[i - 1] \o ss[i]) = Len(flat[i - 1]) + Len(ss[i])
        BY <4>3, ConcatProperties
      <4>5. Len(flat[i - 1]) + Len(ss[i]) <= i
        <5>1. Len(flat[i - 1]) \in Nat /\ Len(ss[i]) \in Nat
          BY <4>3
        <5>2. \A p, q \in Nat : p <= i - 1 /\ q <= 1 => p + q <= i
          BY <4>1
        <5>. QED
          BY <4>3, <5>1, <5>2
      <4>6. flat[i] = flat[i - 1] \o ss[i]
        BY <2>3, <3>2, <3>4
      <4>. QED
        BY <3>2, <4>4, <4>5, <4>6
    <3>. QED
      BY <3>3, <3>4
  <2>5. Short(N)
    <3>1. N \in 1..N
      BY <1>1, <1>4
    <3>. HIDE DEF Short
    <3>. QED
      BY <2>4, <3>1
  <2>. QED
    BY <2>1, <2>5 DEF N
<1>. QED
  BY <1>3, <1>4

\* What the assumptions say of the bound of dials and of the configurations.
LEMMA Limits ==
  /\ MaxAttempts \in Nat /\ MaxAttempts >= 1
  /\ \A cfg \in Configs : Attempts(cfg) \in 1..MaxAttempts /\ cfg.candidates \in Seq(Host)
<1>1. MaxAttempts \in Nat /\ MaxAttempts >= 1
  BY LimitAssumption
<1>2. \A cfg \in Configs : cfg.limit \in Nat /\ cfg.candidates \in Seq(Host)
  BY SessionAssumption
<1>. QED
  BY <1>1, <1>2 DEF Attempts

\* The proxies of a configuration: no more than are to be tried.
LEMMA ProxiesWithinLimit ==
  ASSUME NEW cfg \in Configs
  PROVE  ProxyHosts(cfg) \in Seq(Host) /\ Len(ProxyHosts(cfg)) <= MaxAttempts
<1>. DEFINE last == IF Attempts(cfg) <= Len(cfg.candidates)
                    THEN Attempts(cfg) ELSE Len(cfg.candidates)
            tried == SubSeq(cfg.candidates, 1, last)
            ss == [i \in DOMAIN tried |-> IF tried[i] = Blank THEN <<>> ELSE <<tried[i]>>]
<1>1. cfg.candidates \in Seq(Host) /\ Attempts(cfg) \in 1..MaxAttempts /\ MaxAttempts \in Nat
  BY Limits
<1>2. last \in 0..Len(cfg.candidates) /\ last <= MaxAttempts
  BY <1>1
<1>. HIDE DEF last
<1>3. tried \in Seq(Host) /\ Len(tried) = last
  BY <1>1, <1>2
<1>. HIDE DEF tried
<1>4. \A i \in 1..last : tried[i] \in Host /\ ss[i] \in Seq(Host) /\ Len(ss[i]) <= 1
  <2>. SUFFICES ASSUME NEW i \in 1..last
                PROVE  tried[i] \in Host /\ ss[i] \in Seq(Host) /\ Len(ss[i]) <= 1
    OBVIOUS
  <2>1. tried[i] \in Host /\ i \in DOMAIN tried
    BY <1>3
  <2>2. ss[i] = <<>> \/ ss[i] = <<tried[i]>>
    BY <2>1
  <2>3. /\ <<>> \in Seq(Host) /\ Len(<<>>) <= 1
        /\ <<tried[i]>> \in Seq(Host) /\ Len(<<tried[i]>>) <= 1
    BY <2>1
  <2>. QED
    BY <2>1, <2>2, <2>3
<1>5. ss \in Seq(Seq(Host)) /\ Len(ss) = last
  <2>1. DOMAIN tried = 1..last /\ last \in Nat
    BY <1>2, <1>3
  <2>2. ss \in [1..last -> Seq(Host)]
    BY <1>4, <2>1
  <2>. HIDE DEF ss
  <2>. QED
    BY <2>1, <2>2
<1>6. FlattenSeq(ss) \in Seq(Host) /\ Len(FlattenSeq(ss)) <= last
  <2>. HIDE DEF ss
  <2>. QED
    BY <1>4, <1>5, FlattenShort
<1>7. ProxyHosts(cfg) = FlattenSeq(ss)
  BY DEF ProxyHosts, tried, last
<1>8. Len(FlattenSeq(ss)) \in Nat
  <2>. HIDE DEF ss
  <2>. QED
    BY <1>6
<1>. QED
  BY <1>1, <1>2, <1>6, <1>7, <1>8

\* A resolved plan begins with a route and stays within the bound of the dials.
LEMMA ResolveFacts ==
  ASSUME NEW cfg \in Configs, NEW t \in Targets
  PROVE  Resolve(cfg, t) \in Seq(Target) /\ Len(Resolve(cfg, t)) \in 1..(MaxAttempts + 1)
<1>. DEFINE via(hosts) == [i \in 1..Len(hosts) |-> [host |-> hosts[i], port |-> t.port]]
<1>1. t \in Target /\ t.port \in Nat /\ <<t>> \in Seq(Target)
  BY SessionAssumption DEF Target
<1>2. ASSUME NEW hosts \in Seq(Host), Len(hosts) <= MaxAttempts
      PROVE  /\ <<t>> \o via(hosts) \in Seq(Target)
             /\ Len(<<t>> \o via(hosts)) \in 1..(MaxAttempts + 1)
  <2>1. Len(hosts) \in Nat /\ \A i \in 1..Len(hosts) : hosts[i] \in Host
    OBVIOUS
  <2>2. via(hosts) \in [1..Len(hosts) -> Target]
    BY <1>1, <2>1 DEF Target
  <2>3. via(hosts) \in Seq(Target) /\ Len(via(hosts)) = Len(hosts)
    BY <2>1, <2>2
  <2>. HIDE DEF via
  <2>4. Len(<<t>> \o via(hosts)) = 1 + Len(hosts) /\ <<t>> \o via(hosts) \in Seq(Target)
    BY <1>1, <2>3, ConcatProperties
  <2>. QED
    BY <1>2, <2>1, <2>4, Limits
<1>3. CASE cfg.mode = "ProxyIp"
  <2>1. Resolve(cfg, t) = <<t>> \o via(ProxyHosts(cfg))
    BY <1>3 DEF Resolve
  <2>. HIDE DEF via
  <2>. QED
    BY <1>2, <2>1, ProxiesWithinLimit
<1>4. CASE cfg.mode = "Nat64" /\ t.host \in V4
  <2>1. Resolve(cfg, t) = <<t>> \o via(<<Nat64Of[t.host]>>)
    BY <1>4 DEF Resolve
  <2>2. <<Nat64Of[t.host]>> \in Seq(Host) /\ Len(<<Nat64Of[t.host]>>) <= MaxAttempts
    <3>1. Nat64Of[t.host] \in Host
      BY <1>4, HostAssumption
    <3>2. Len(<<Nat64Of[t.host]>>) = 1
      OBVIOUS
    <3>. QED
      BY <3>1, <3>2, Limits
  <2>. HIDE DEF via
  <2>. QED
    BY <1>2, <2>1, <2>2
<1>5. CASE ~(cfg.mode = "ProxyIp") /\ ~(cfg.mode = "Nat64" /\ t.host \in V4)
  <2>1. Resolve(cfg, t) = <<t>>
    BY <1>5 DEF Resolve
  <2>2. Len(<<t>>) = 1
    OBVIOUS
  <2>. QED
    BY <1>1, <2>1, <2>2, Limits
<1>. QED
  BY <1>3, <1>4, <1>5

\* A position that is not 0 is one of the plan.
LEMMA PositionInPlan ==
  ASSUME NEW plan \in Seq(Target), NEW k, PositionOf(plan, k) > 0
  PROVE  PositionOf(plan, k) \in DOMAIN plan
<1>. DEFINE at == {i \in DOMAIN plan : CandidateKey(plan[i]) = k}
<1>1. at # {}
  BY DEF PositionOf
<1>2. at \in SUBSET Nat
  OBVIOUS
<1>3. \E i \in at : \A j \in at : i <= j
  <2>. HIDE DEF at
  <2>. QED
    BY <1>1, <1>2, LeastNumber
<1>4. PositionOf(plan, k) \in at
  BY <1>1, <1>3 DEF PositionOf
<1>. QED
  BY <1>4

\* Moving a candidate to the front leaves the others as they were.
LEMMA MovedFacts ==
  ASSUME NEW plan \in Seq(Target), NEW n \in DOMAIN plan
  PROVE  /\ MovedToFront(plan, n) \in Seq(Target)
         /\ Len(MovedToFront(plan, n)) = Len(plan)
         /\ MovedToFront(plan, n)[1] = plan[n]
         /\ Tail(MovedToFront(plan, n)) = RemoveAt(plan, n)
<1>. DEFINE L == Len(plan)
            m == MovedToFront(plan, n)
<1>1. L \in Nat /\ n \in 1..L /\ DOMAIN plan = 1..L /\ \A i \in 1..L : plan[i] \in Target
  OBVIOUS
<1>2. \A i \in 1..L : m[i] = IF i = 1 THEN plan[n]
                             ELSE IF i <= n THEN plan[i - 1] ELSE plan[i]
  BY DEF MovedToFront
<1>3. m \in [1..L -> Target]
  <2>1. DOMAIN m = 1..L /\ m = [i \in 1..L |-> m[i]]
    BY DEF MovedToFront
  <2>2. ASSUME NEW i \in 1..L PROVE m[i] \in Target
    <3>1. i # 1 => i - 1 \in 1..L
      BY <1>1
    <3>. HIDE DEF m
    <3>. QED
      BY <1>1, <1>2, <3>1
  <2>. HIDE DEF m
  <2>. QED
    BY <2>1, <2>2
<1>. HIDE DEF m
<1>4. m \in Seq(Target) /\ Len(m) = L /\ m[1] = plan[n]
  BY <1>1, <1>2, <1>3
<1>5. /\ Tail(m) \in Seq(Target) /\ Len(Tail(m)) = L - 1
      /\ \A i \in 1..(L - 1) : Tail(m)[i] = m[i + 1]
  BY <1>1, <1>4
<1>. DEFINE a == SubSeq(plan, 1, n - 1)
            b == SubSeq(plan, n + 1, L)
<1>6. /\ a \in Seq(Target) /\ Len(a) = n - 1
      /\ b \in Seq(Target) /\ Len(b) = L - n
      /\ \A i \in 1..(n - 1) : a[i] = plan[i]
      /\ \A i \in 1..(L - n) : b[i] = plan[n + i]
  <2>1. 1 \in 1..(L + 1) /\ n - 1 \in 0..L /\ n + 1 \in 1..(L + 1) /\ L \in 0..L
    BY <1>1
  <2>2. /\ a \in Seq(Target)
        /\ Len(a) = IF 1 <= n - 1 THEN n - 1 - 1 + 1 ELSE 0
        /\ \A i \in 1..(n - 1 - 1 + 1) : a[i] = plan[1 + i - 1]
    BY <2>1, SubSeqProperties
  <2>3. /\ b \in Seq(Target)
        /\ Len(b) = IF n + 1 <= L THEN L - (n + 1) + 1 ELSE 0
        /\ \A i \in 1..(L - (n + 1) + 1) : b[i] = plan[n + 1 + i - 1]
    BY <2>1, SubSeqProperties
  <2>. HIDE DEF a, b, L
  <2>4. Len(a) = n - 1 /\ Len(b) = L - n
    BY <1>1, <2>2, <2>3
  <2>5. ASSUME NEW i \in 1..(n - 1) PROVE a[i] = plan[i]
    <3>1. i \in 1..(n - 1 - 1 + 1) /\ 1 + i - 1 = i
      BY <1>1
    <3>. QED
      BY <2>2, <3>1
  <2>6. ASSUME NEW i \in 1..(L - n) PROVE b[i] = plan[n + i]
    <3>1. i \in 1..(L - (n + 1) + 1) /\ n + 1 + i - 1 = n + i
      BY <1>1
    <3>. QED
      BY <2>3, <3>1
  <2>. QED
    BY <2>2, <2>3, <2>4, <2>5, <2>6
<1>7. RemoveAt(plan, n) = a \o b
  BY DEF RemoveAt
<1>. HIDE DEF a, b, L
<1>8. a \o b \in Seq(Target) /\ Len(a \o b) = L - 1
  <2>1. Len(a \o b) = Len(a) + Len(b) /\ a \o b \in Seq(Target)
    BY <1>6, ConcatProperties
  <2>. QED
    BY <1>1, <1>6, <2>1
<1>9. ASSUME NEW i \in 1..(L - 1) PROVE Tail(m)[i] = (a \o b)[i]
  <2>1. /\ i \in 1..(Len(a) + Len(b)) /\ i \in Nat /\ i + 1 \in 1..L /\ i + 1 # 1
        /\ (i + 1) - 1 = i
    BY <1>1, <1>6
  <2>2. (a \o b)[i] = IF i <= Len(a) THEN a[i] ELSE b[i - Len(a)]
    BY <1>6, <2>1, ConcatProperties
  <2>3. m[i + 1] = IF i + 1 <= n THEN plan[i] ELSE plan[i + 1]
    BY <1>2, <2>1 DEF L
  <2>4. CASE i + 1 <= n
    <3>1. i <= n - 1 /\ i \in 1..(n - 1)
      BY <1>1, <2>1, <2>4
    <3>. QED
      BY <1>5, <1>6, <2>2, <2>3, <2>4, <3>1
  <2>5. CASE ~(i + 1 <= n)
    <3>1. ~(i <= n - 1) /\ i - (n - 1) \in 1..(L - n) /\ n + (i - (n - 1)) = i + 1
      BY <1>1, <2>1, <2>5
    <3>2. (a \o b)[i] = b[i - (n - 1)]
      BY <1>6, <2>2, <3>1
    <3>3. b[i - (n - 1)] = plan[n + (i - (n - 1))]
      BY <1>6, <3>1
    <3>4. Tail(m)[i] = plan[i + 1]
      BY <1>5, <2>3, <2>5
    <3>. QED
      BY <3>1, <3>2, <3>3, <3>4
  <2>. QED
    BY <2>4, <2>5
<1>10. Tail(m) = a \o b
  BY <1>1, <1>5, <1>8, <1>9, SeqEqual
<1>. QED
  BY <1>4, <1>7, <1>10 DEF L, m

\* The plan of a session is the resolved one with one candidate in front.
LEMMA OrderedPlan ==
  ASSUME NEW cfg \in Configs, NEW t \in Targets, NEW known, NEW clock
  PROVE  LET resolved == Resolve(cfg, t)
             plan == OrderPlan(resolved, known, clock)
         IN  plan \in Seq(Target) /\ Reordered(plan, resolved)
<1>. DEFINE resolved == Resolve(cfg, t)
            plan == OrderPlan(resolved, known, clock)
            n == PositionOf(resolved, known.preferred)
<1>1. resolved \in Seq(Target) /\ Len(resolved) \in 1..(MaxAttempts + 1)
  BY ResolveFacts
<1>. HIDE DEF resolved
<1>2. CASE IsFresh(known, clock) /\ n > 0
  <2>1. plan = MovedToFront(resolved, n)
    BY <1>2 DEF OrderPlan
  <2>2. n \in DOMAIN resolved
    BY <1>1, <1>2, PositionInPlan
  <2>. HIDE DEF n, plan
  <2>3. /\ plan \in Seq(Target) /\ Len(plan) = Len(resolved)
        /\ plan[1] = resolved[n] /\ Tail(plan) = RemoveAt(resolved, n)
    BY <1>1, <2>1, <2>2, MovedFacts
  <2>. QED
    BY <1>1, <2>2, <2>3 DEF Reordered, plan, resolved
<1>3. CASE ~(IsFresh(known, clock) /\ n > 0)
  <2>1. plan = resolved
    BY <1>3 DEF OrderPlan
  <2>. HIDE DEF n, plan
  <2>2. 1 \in DOMAIN resolved /\ resolved # <<>>
    BY <1>1, Limits
  <2>3. SubSeq(resolved, 1, 0) = <<>>
    BY <1>1
  <2>4. Tail(resolved) = SubSeq(resolved, 2, Len(resolved))
    BY <1>1, <2>2, TailIsSubSeq
  <2>5. SubSeq(resolved, 2, Len(resolved)) \in Seq(Target)
    BY <1>1
  <2>6. RemoveAt(resolved, 1) = Tail(resolved)
    <3>1. RemoveAt(resolved, 1) = SubSeq(resolved, 1, 0) \o SubSeq(resolved, 2, Len(resolved))
      BY DEF RemoveAt
    <3>. QED
      BY <2>3, <2>4, <2>5, <3>1, ConcatEmptySeq
  <2>. QED
    BY <1>1, <2>1, <2>2, <2>6 DEF Reordered, plan, resolved
<1>. QED
  BY <1>2, <1>3
-----------------------------------------------------------------------------
(* Sessions.                                                               *)

\* A session that is somewhere in its plan names a route.
LEMMA WonIsRoute ==
  ASSUME NEW x \in SessionType, Progress(x), x.pc = "relaying"
  PROVE  /\ x.plan[x.idx] \in Target
         /\ Won(x).winner = CandidateKey(x.plan[x.idx])
         /\ CandidateKey(x.plan[x.idx]) \in Key
<1>1. x.plan \in Seq(Target) /\ x.idx \in Nat \ {0} /\ x.idx <= Len(x.plan)
  BY DEF SessionType, Progress
<1>2. x.plan[x.idx] \in Target
  BY <1>1
<1>3. CandidateKey(x.plan[x.idx]) \in Key
  BY <1>2, HostAssumption DEF CandidateKey, Target, Key
<1>4. Won(x).winner = CandidateKey(x.plan[x.idx])
  BY <1>1 DEF Won, KeyAt
<1>. QED
  BY <1>2, <1>3, <1>4

\* The state of a fresh store is well formed.
LEMMA NothingKnownType == NothingKnown \in State /\ NothingKnown.preferred = NoRoute
BY DEF NothingKnown, State

(***************************************************************************)
(* One session moves on: the invariant holds if it holds of its new record *)
(* and of what it wrote.                                                   *)
(***************************************************************************)
LEMMA SessionMoves ==
  ASSUME IInv, NEW s \in Sessions, NEW r \in SessionType, Progress(r),
         sess' = [sess EXCEPT ![s] = r], now' = now, stored' \in State,
         carried \subseteq carried', carried' \subseteq Key,
         stored'.preferred \in carried' \cup {NoRoute},
         r.doc.preferred \in carried' \cup {NoRoute}
  PROVE  IInv'
<1>1. /\ sess' \in [Sessions -> SessionType] /\ sess'[s] = r
      /\ \A u \in Sessions \ {s} : sess'[u] = sess[u]
  BY DEF IInv, Types
<1>2. Types'
  BY <1>1 DEF IInv, Types
<1>3. \A u \in Sessions : Progress(sess'[u])
  <2>1. \A u \in Sessions \ {s} : Progress(sess'[u])
    BY <1>1 DEF IInv
  <2>. QED
    BY <1>1, <2>1
<1>4. DocsCarried'
  BY <1>1 DEF IInv, DocsCarried
<1>5. (\A u \in Sessions : Progress(sess[u]))'
  BY <1>3 DEF Progress, Reordered
<1>. QED
  BY <1>2, <1>4, <1>5 DEF IInv, RememberedRouteCarried

\* The same when nothing was written and nothing decided.
LEMMA SessionAdvances ==
  ASSUME IInv, NEW s \in Sessions, NEW r \in SessionType, Progress(r),
         sess' = [sess EXCEPT ![s] = r], r.doc = sess[s].doc,
         UNCHANGED <<now, stored, carried>>
  PROVE  IInv'
<1>1. /\ stored' \in State /\ carried \subseteq carried' /\ carried' \subseteq Key
      /\ stored'.preferred \in carried' \cup {NoRoute}
      /\ r.doc.preferred \in carried' \cup {NoRoute}
      /\ now' = now
  BY DEF IInv, Types, DocsCarried, RememberedRouteCarried
<1>. QED
  BY <1>1, SessionMoves

\* The invariant holds at the start.
LEMMA InitInv == Init => IInv
<1>. SUFFICES ASSUME Init PROVE IInv
  OBVIOUS
<1>1. ASSUME NEW t \in Targets, NEW cfg \in Configs
      PROVE  /\ Unstarted(t, cfg) \in SessionType /\ Progress(Unstarted(t, cfg))
             /\ Unstarted(t, cfg).doc.preferred = NoRoute
  <2>1. <<>> \in Seq(Target) /\ Len(<<>>) = 0
    OBVIOUS
  <2>2. Unstarted(t, cfg) \in SessionType
    BY <2>1, NothingKnownType DEF Unstarted, SessionType
  <2>3. Progress(Unstarted(t, cfg))
    BY <2>1 DEF Unstarted, Progress
  <2>. QED
    BY <2>2, <2>3, NothingKnownType DEF Unstarted
<1>2. sess \in [Sessions -> {Unstarted(t, cfg) : t \in Targets, cfg \in Configs}]
  BY DEF Init
<1>3. \A s \in Sessions : /\ sess[s] \in SessionType /\ Progress(sess[s])
                          /\ sess[s].doc.preferred = NoRoute
  <2>. SUFFICES ASSUME NEW s \in Sessions
                PROVE  /\ sess[s] \in SessionType /\ Progress(sess[s])
                       /\ sess[s].doc.preferred = NoRoute
    OBVIOUS
  <2>1. PICK t \in Targets, cfg \in Configs : sess[s] = Unstarted(t, cfg)
    BY <1>2
  <2>. QED
    BY <1>1, <2>1
<1>4. sess \in [Sessions -> SessionType]
  BY <1>2, <1>3
<1>5. now \in Nat /\ stored \in State /\ stored.preferred = NoRoute /\ carried = {}
  BY SessionAssumption, NothingKnownType DEF Init
<1>. QED
  BY <1>3, <1>4, <1>5 DEF IInv, Types, DocsCarried, RememberedRouteCarried

(***************************************************************************)
(* Every step of the clock and of a session keeps the invariant.           *)
(***************************************************************************)
LEMMA NextInv == IInv /\ [Next]_vars => IInv'
<1>. SUFFICES ASSUME IInv, [Next]_vars PROVE IInv'
  OBVIOUS
<1>0. ASSUME NEW s \in Sessions
      PROVE  /\ sess[s] \in SessionType /\ Progress(sess[s])
             /\ sess[s].doc.preferred \in carried \cup {NoRoute}
             /\ sess[s].plan \in Seq(Target) /\ Len(sess[s].plan) \in Nat
             /\ sess[s].idx \in Nat \ {0} /\ sess[s].first_failed \in Nat
             /\ sess[s].known \in State /\ sess[s].doc \in State
  <2>1. /\ sess[s] \in SessionType /\ Progress(sess[s])
        /\ sess[s].doc.preferred \in carried \cup {NoRoute}
    BY DEF IInv, Types, DocsCarried
  <2>. QED
    BY <2>1 DEF SessionType
<1>1. CASE Tick
  <2>1. now' \in Nat /\ UNCHANGED <<stored, sess, carried>>
    BY <1>1 DEF Tick, IInv, Types
  <2>. QED
    BY <2>1 DEF IInv, Types, Progress, Reordered, DocsCarried, RememberedRouteCarried
<1>2. ASSUME NEW s \in Sessions, Load(s) PROVE IInv'
  <2>1. PICK read \in State :
           sess' = [sess EXCEPT ![s] = [@ EXCEPT !.pc = "loaded", !.known = read]]
    <3>1. stored \in State
      BY DEF IInv, Types
    <3>. QED
      BY <1>2, <3>1, NothingKnownType DEF Load
  <2>. DEFINE r == [sess[s] EXCEPT !.pc = "loaded", !.known = read]
  <2>2. sess' = [sess EXCEPT ![s] = r] /\ UNCHANGED <<now, stored, carried>>
    BY <1>2, <2>1 DEF Load
  <2>3. sess[s].pc = "idle"
    BY <1>2 DEF Load
  <2>4. r \in SessionType /\ r.doc = sess[s].doc
    BY <1>0 DEF SessionType
  <2>5. Progress(r)
    <3>1. /\ r.pc = "loaded" /\ r.plan = sess[s].plan /\ r.idx = sess[s].idx
          /\ r.first_failed = sess[s].first_failed
      BY <1>0 DEF SessionType
    <3>2. sess[s].plan = <<>> /\ sess[s].idx = 1 /\ sess[s].first_failed = 0
      BY <1>0, <2>3 DEF Progress
    <3>. HIDE DEF r
    <3>. QED
      BY <3>1, <3>2 DEF Progress
  <2>. HIDE DEF r
  <2>. QED
    BY <2>2, <2>4, <2>5, SessionAdvances
<1>3. ASSUME NEW s \in Sessions, PlanRoutes(s) PROVE IInv'
  <2>. DEFINE x == sess[s]
              resolved == Resolve(x.cfg, x.logical)
              plan == OrderPlan(resolved, x.known, now)
              r == [x EXCEPT !.pc = "dialing", !.plan = plan]
  <2>1. x.pc = "loaded" /\ sess' = [sess EXCEPT ![s] = r] /\ UNCHANGED <<now, stored, carried>>
    BY <1>3 DEF PlanRoutes
  <2>2. x \in SessionType /\ x.cfg \in Configs /\ x.logical \in Targets
    BY <1>0 DEF SessionType
  <2>3. plan \in Seq(Target) /\ Reordered(plan, resolved)
    BY <2>2, OrderedPlan
  <2>4. x.idx = 1 /\ x.first_failed = 0
    BY <1>0, <2>1 DEF Progress
  <2>. HIDE DEF plan
  <2>5. r \in SessionType /\ r.doc = x.doc
    BY <2>2, <2>3 DEF SessionType
  <2>6. Progress(r)
    <3>1. /\ r.pc = "dialing" /\ r.plan = plan /\ r.idx = 1 /\ r.first_failed = 0
          /\ r.cfg = x.cfg /\ r.logical = x.logical
      BY <2>2, <2>4 DEF SessionType
    <3>2. Len(plan) \in Nat /\ Len(plan) >= 1
      BY <2>3, Limits DEF Reordered
    <3>. HIDE DEF r, x
    <3>. QED
      BY <2>3, <3>1, <3>2 DEF Progress
  <2>. HIDE DEF r
  <2>. QED
    BY <2>1, <2>5, <2>6, SessionAdvances
<1>4. ASSUME NEW s \in Sessions, HandshakeSucceeds(s) PROVE IInv'
  <2>. DEFINE r == [sess[s] EXCEPT !.pc = "relaying"]
  <2>1. /\ sess[s].pc = "dialing" /\ sess' = [sess EXCEPT ![s] = r]
        /\ UNCHANGED <<now, stored, carried>>
    BY <1>4 DEF HandshakeSucceeds
  <2>2. r \in SessionType /\ r.doc = sess[s].doc /\ Progress(r)
    BY <1>0, <2>1 DEF SessionType, Progress
  <2>. HIDE DEF r
  <2>. QED
    BY <2>1, <2>2, SessionAdvances
<1>5. ASSUME NEW s \in Sessions, CandidateFails(s) PROVE IInv'
  <2>. DEFINE x == sess[s]
              ff == IF Len(x.plan) > 1 /\ x.first_failed = 0 THEN x.idx ELSE x.first_failed
              pc == IF x.idx = Len(x.plan) THEN "failed" ELSE "dialing"
              r == [x EXCEPT !.idx = x.idx + 1, !.first_failed = ff, !.pc = pc]
  <2>1. x.pc = "dialing" /\ sess' = [sess EXCEPT ![s] = r] /\ UNCHANGED <<now, stored, carried>>
    BY <1>5 DEF CandidateFails
  <2>2. /\ x \in SessionType /\ x.idx \in Nat \ {0} /\ x.first_failed \in Nat
        /\ Len(x.plan) \in Nat /\ x.idx <= Len(x.plan) /\ x.first_failed < x.idx
        /\ Reordered(x.plan, Resolve(x.cfg, x.logical))
    BY <1>0, <2>1 DEF Progress
  <2>3. /\ ff \in Nat /\ ff < x.idx + 1 /\ x.idx + 1 \in Nat \ {0}
        /\ x.idx + 1 <= Len(x.plan) + 1
        /\ pc \in {"failed", "dialing"}
        /\ pc = "failed" => x.idx + 1 = Len(x.plan) + 1
        /\ pc = "dialing" => x.idx + 1 <= Len(x.plan)
    BY <2>2
  <2>. HIDE DEF ff, pc
  <2>4. r \in SessionType /\ r.doc = x.doc
    BY <2>2, <2>3 DEF SessionType
  <2>5. /\ r.pc = pc /\ r.idx = x.idx + 1 /\ r.first_failed = ff /\ r.plan = x.plan
        /\ r.cfg = x.cfg /\ r.logical = x.logical
    BY <2>2 DEF SessionType
  <2>6. Progress(r)
    <3>. HIDE DEF r, x
    <3>. QED
      BY <2>2, <2>3, <2>5 DEF Progress
  <2>. HIDE DEF r
  <2>. QED
    BY <2>1, <2>4, <2>6, SessionAdvances
<1>6. ASSUME NEW s \in Sessions, SettleWon(s) PROVE IInv'
  <2>. DEFINE x == sess[s]
              act == ActionAfterWin(x.known, Won(x), now)
              doc == IF act = "Record" THEN [preferred |-> Won(x).winner, updated_at |-> now]
                     ELSE NothingKnown
              pc == IF act = "Keep" THEN "done" ELSE "writing"
              r == [x EXCEPT !.pc = pc, !.doc = doc]
  <2>1. /\ x.pc = "relaying" /\ sess' = [sess EXCEPT ![s] = r]
        /\ stored' = stored /\ now' = now
        /\ carried' = carried \cup {CandidateKey(Candidate(s))}
    BY <1>6 DEF SettleWon
  <2>2. x \in SessionType /\ Progress(x)
    BY <1>0
  <2>3. Won(x).winner = CandidateKey(Candidate(s)) /\ CandidateKey(Candidate(s)) \in Key
    BY <2>1, <2>2, WonIsRoute DEF Candidate
  <2>4. doc \in State /\ doc.preferred \in carried' \cup {NoRoute}
    <3>1. CASE act = "Record"
      <4>1. now \in Nat
        BY DEF IInv, Types
      <4>. HIDE DEF act
      <4>. QED
        BY <2>1, <2>3, <3>1, <4>1 DEF State
    <3>2. CASE act # "Record"
      <4>. HIDE DEF act
      <4>. QED
        BY <3>2, NothingKnownType
    <3>. QED
      BY <3>1, <3>2
  <2>5. pc \in {"done", "writing"}
    OBVIOUS
  <2>. HIDE DEF doc, pc, act
  <2>6. r \in SessionType /\ r.doc = doc
    BY <2>2, <2>4, <2>5 DEF SessionType
  <2>7. Progress(r)
    BY <2>1, <2>2, <2>5 DEF SessionType, Progress
  <2>8. /\ carried \subseteq carried' /\ carried' \subseteq Key /\ stored' \in State
        /\ stored'.preferred \in carried' \cup {NoRoute}
    BY <2>1, <2>3 DEF IInv, Types, RememberedRouteCarried
  <2>. HIDE DEF r
  <2>. QED
    BY <2>1, <2>4, <2>6, <2>7, <2>8, SessionMoves
<1>7. ASSUME NEW s \in Sessions, SettleFailed(s) PROVE IInv'
  <2>1. PICK pc \in {"writing", "done"} :
           sess' = [sess EXCEPT ![s] = [@ EXCEPT !.pc = pc]]
    BY <1>7 DEF SettleFailed
  <2>. DEFINE r == [sess[s] EXCEPT !.pc = pc]
  <2>2. /\ sess[s].pc = "failed" /\ sess' = [sess EXCEPT ![s] = r]
        /\ UNCHANGED <<now, stored, carried>>
    BY <1>7, <2>1 DEF SettleFailed
  <2>3. r \in SessionType /\ r.doc = sess[s].doc /\ Progress(r)
    BY <1>0, <2>2 DEF SessionType, Progress
  <2>. HIDE DEF r
  <2>. QED
    BY <2>2, <2>3, SessionAdvances
<1>8. ASSUME NEW s \in Sessions, Write(s) PROVE IInv'
  <2>. DEFINE r == [sess[s] EXCEPT !.pc = "done"]
  <2>1. /\ sess[s].pc = "writing" /\ sess' = [sess EXCEPT ![s] = r]
        /\ now' = now /\ carried' = carried
        /\ stored' \in {sess[s].doc, stored}
    BY <1>8 DEF Write
  <2>2. r \in SessionType /\ r.doc = sess[s].doc /\ Progress(r)
    BY <1>0, <2>1 DEF SessionType, Progress
  <2>3. /\ carried \subseteq carried' /\ carried' \subseteq Key /\ stored' \in State
        /\ stored'.preferred \in carried' \cup {NoRoute}
        /\ r.doc.preferred \in carried' \cup {NoRoute}
    <3>1. carried \subseteq Key /\ stored \in State /\ stored.preferred \in carried \cup {NoRoute}
      BY DEF IInv, Types, RememberedRouteCarried
    <3>. HIDE DEF r
    <3>. QED
      BY <1>0, <2>1, <2>2, <3>1
  <2>. HIDE DEF r
  <2>. QED
    BY <2>1, <2>2, <2>3, SessionMoves
<1>9. CASE UNCHANGED vars
  BY <1>9 DEF vars, IInv, Types, Progress, Reordered, DocsCarried, RememberedRouteCarried
<1>. QED
  BY <1>1, <1>2, <1>3, <1>4, <1>5, <1>6, <1>7, <1>8, <1>9 DEF Next, Session

\* Hence it holds of every behaviour.
LEMMA InvariantHolds == Spec => []IInv
<1>. QED
  BY InitInv, NextInv, PTL DEF Spec
-----------------------------------------------------------------------------
(* The theorems.                                                           *)

(***************************************************************************)
(* Sessions, plans and the stored document stay of their types, for every  *)
(* configuration a session may load.                                       *)
(***************************************************************************)
THEOREM TypeCorrect == Spec => []TypeOK
<1>1. ASSUME NEW x \in SessionType, Progress(x)
      PROVE  /\ x.pc \in {"idle", "loaded", "dialing", "relaying", "failed", "writing", "done"}
             /\ x.logical \in Targets /\ x.cfg \in Configs
             /\ x.known \in State /\ x.doc \in State
             /\ x.plan \in Seq(Target)
             /\ x.idx \in 1..(Len(x.plan) + 1) /\ x.first_failed \in 0..(x.idx - 1)
  <2>1. /\ x.pc \in {"idle", "loaded", "dialing", "relaying", "failed", "writing", "done"}
        /\ x.logical \in Targets /\ x.cfg \in Configs
        /\ x.known \in State /\ x.doc \in State
        /\ x.plan \in Seq(Target) /\ x.idx \in Nat \ {0} /\ x.first_failed \in Nat
    BY DEF SessionType
  <2>2. x.idx <= Len(x.plan) + 1 /\ x.first_failed < x.idx /\ Len(x.plan) \in Nat
    BY <1>1, <2>1 DEF Progress
  <2>3. x.idx \in 1..(Len(x.plan) + 1) /\ x.first_failed \in 0..(x.idx - 1)
    BY <2>1, <2>2
  <2>. QED
    BY <2>1, <2>3
<1>2. IInv => TypeOK
  BY <1>1 DEF IInv, Types, TypeOK
<1>. QED
  BY InvariantHolds, <1>2, PTL

(***************************************************************************)
(* Whatever preference a session loaded, and whatever it was configured    *)
(* with, its plan is the resolved one with one candidate moved to the      *)
(* front, within the bound of the dials, and it fails only past the last.  *)
(***************************************************************************)
THEOREM TriesEveryRoute == Spec => []EveryRouteTried
<1>1. ASSUME NEW x \in SessionType, Progress(x), x.plan # <<>>
      PROVE  /\ Reordered(x.plan, Resolve(x.cfg, x.logical))
             /\ x.pc = "failed" => x.idx = Len(Resolve(x.cfg, x.logical)) + 1
             /\ Len(x.plan) <= MaxAttempts + 1
  <2>1. Reordered(x.plan, Resolve(x.cfg, x.logical))
    BY <1>1 DEF Progress
  <2>2. /\ Len(x.plan) = Len(Resolve(x.cfg, x.logical))
        /\ Len(x.plan) \in 1..(MaxAttempts + 1)
    BY <2>1 DEF Reordered
  <2>. QED
    BY <1>1, <2>1, <2>2, Limits DEF Progress
<1>2. ASSUME IInv, NEW s \in Sessions, Planned(s)
      PROVE  /\ \E n \in DOMAIN Resolved(s) :
                   /\ sess[s].plan[1] = Resolved(s)[n]
                   /\ Tail(sess[s].plan) = RemoveAt(Resolved(s), n)
             /\ Len(sess[s].plan) <= MaxAttempts + 1
             /\ sess[s].pc = "failed" => sess[s].idx = Len(Resolved(s)) + 1
  <2>1. sess[s] \in SessionType /\ Progress(sess[s]) /\ sess[s].plan # <<>>
    BY <1>2 DEF IInv, Types, Planned
  <2>2. /\ Reordered(sess[s].plan, Resolved(s))
        /\ sess[s].pc = "failed" => sess[s].idx = Len(Resolved(s)) + 1
        /\ Len(sess[s].plan) <= MaxAttempts + 1
    BY <1>1, <2>1 DEF Resolved
  <2>. QED
    BY <2>2 DEF Reordered
<1>3. IInv => EveryRouteTried
  BY <1>2 DEF EveryRouteTried
<1>. QED
  BY InvariantHolds, <1>3, PTL

(***************************************************************************)
(* Whatever sessions read, lose or overwrite, the remembered route is one  *)
(* that carried a session.                                                 *)
(***************************************************************************)
THEOREM RemembersOnlyCarried == Spec => []RememberedRouteCarried
<1>1. IInv => RememberedRouteCarried
  BY DEF IInv
<1>. QED
  BY InvariantHolds, <1>1, PTL

\* A key is never the absence of one.
LEMMA KeysAreRoutes == \A x : \A i : i # 0 => KeyAt(x, i) # NoRoute
BY DEF KeyAt, CandidateKey, NoRoute

(***************************************************************************)
(* A preference that failed first is replaced or cleared by the session it *)
(* failed, for every expiry and debounce.                                  *)
(***************************************************************************)
THEOREM DemotesFailedPreference == Spec => FailedPreferenceDemoted
<1>1. ASSUME IInv, Next, NEW s \in Sessions, sess[s].pc = "relaying",
             sess'[s].pc # "relaying", sess[s].first_failed # 0,
             KeyAt(sess[s], sess[s].first_failed) = sess[s].known.preferred
      PROVE  /\ sess'[s].pc = "writing"
             /\ sess'[s].doc.preferred # sess[s].known.preferred
  <2>0. sess \in [Sessions -> SessionType]
    BY <1>1 DEF IInv, Types
  <2>1. SettleWon(s)
    <3>1. PICK u \in Sessions : Session(u)
      BY <1>1 DEF Next, Tick
    <3>2. u = s
      <4>1. PICK r : sess' = [sess EXCEPT ![u] = r]
        BY <3>1 DEF Session, Load, PlanRoutes, HandshakeSucceeds, CandidateFails,
                    SettleWon, SettleFailed, Write
      <4>. QED
        BY <1>1, <2>0, <4>1
    <3>. QED
      BY <1>1, <3>1, <3>2 DEF Session, Load, PlanRoutes, HandshakeSucceeds,
                    CandidateFails, SettleFailed, Write
  <2>. DEFINE x == sess[s]
              act == ActionAfterWin(x.known, Won(x), now)
              doc == IF act = "Record" THEN [preferred |-> Won(x).winner, updated_at |-> now]
                     ELSE NothingKnown
              pc == IF act = "Keep" THEN "done" ELSE "writing"
  <2>2. sess'[s].pc = pc /\ sess'[s].doc = doc
    <3>1. sess' = [sess EXCEPT ![s] = [@ EXCEPT !.pc = pc, !.doc = doc]]
      BY <2>1 DEF SettleWon
    <3>. HIDE DEF pc, doc
    <3>2. x \in SessionType
      BY <2>0
    <3>. QED
      BY <2>0, <3>1, <3>2 DEF SessionType
  <2>3. Won(x).first_failed = x.known.preferred /\ x.known.preferred # NoRoute
    BY <1>1, KeysAreRoutes DEF Won
  <2>4. CASE act = "Record"
    <3>1. x.known.preferred # Won(x).winner
      BY <2>4 DEF ActionAfterWin, ShouldRecord
    <3>. QED
      BY <2>2, <2>4, <3>1
  <2>5. CASE act # "Record"
    <3>1. act = "Clear"
      BY <2>3, <2>5 DEF ActionAfterWin
    <3>. QED
      BY <2>2, <2>3, <3>1 DEF NothingKnown
  <2>. QED
    BY <2>4, <2>5
<1>2. IInv /\ [Next]_vars =>
        [\A s \in Sessions :
          LET x == sess[s]
          IN  /\ x.pc = "relaying" /\ sess'[s].pc # "relaying"
              /\ x.first_failed # 0 /\ KeyAt(x, x.first_failed) = x.known.preferred
              => /\ sess'[s].pc = "writing"
                 /\ sess'[s].doc.preferred # x.known.preferred]_vars
  BY <1>1
<1>. QED
  BY InitInv, NextInv, <1>2, PTL DEF Spec, FailedPreferenceDemoted
==============================================================================
