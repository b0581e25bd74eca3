---------------------------- MODULE InboundProofs ----------------------------
(***************************************************************************)
(* Proofs about the header phase of Inbound, for any clients, credentials  *)
(* and bounds and every cut of the stream. The way up:                     *)
(*   the reader       what Read answers of fields joined from parts;       *)
(*   the hosts        the fields of a host are right unless broken, and    *)
(*                    name the slot that the client wrote;                 *)
(*   the parsers      a parser's answer to its own clients (OwnAnswer) and *)
(*                    to others (OtherAnswer), one lemma a protocol;       *)
(*   the detector     Detected, from the answers of all parsers;           *)
(*   the session      HeaderInv, which every step keeps.                   *)
(***************************************************************************)
EXTENDS Inbound, SequenceTheorems, WellFoundedInduction, TLAPS

-----------------------------------------------------------------------------
(* Least and greatest numbers.                                             *)

\* A nonempty set of naturals has a least member, and Min names it.
LEMMA MinIsMember ==
    ASSUME NEW S \in SUBSET Nat, S # {}
    PROVE  Min(S) \in S /\ \A y \in S : Min(S) <= y
<1>1. PICK x \in S : \A y \in S : <<y, x>> \notin OpToRel(<, Nat)
  BY WFMin, NatLessThanWellFounded, Zenon
<1>2. \A y \in S : ~(y < x)
  BY <1>1, Zenon DEF OpToRel
<1>3. \A y \in S : x <= y
  BY <1>2
<1>. QED
  BY <1>3 DEF Min

\* A nonempty set of naturals with a bound has a greatest member, and Max names it.
LEMMA MaxIsMember ==
    ASSUME NEW S \in SUBSET Nat, S # {}, NEW bound \in Nat, \A x \in S : x <= bound
    PROVE  Max(S) \in S /\ \A y \in S : y <= Max(S)
<1>. DEFINE bounds == {b \in Nat : \A x \in S : x <= b}
<1>1. PICK b \in bounds : \A y \in bounds : b <= y
  <2>1. bounds \in SUBSET Nat /\ bound \in bounds
    OBVIOUS
  <2>. HIDE DEF bounds
  <2>. QED
    BY <2>1, MinIsMember
<1>2. b \in S
  <2>0. b \in Nat /\ \A x \in S : x \in Nat /\ x <= b
    BY <1>1
  <2>1. CASE b = 0
    <3>1. PICK x : x \in S
      OBVIOUS
    <3>. QED
      BY <2>0, <2>1, <3>1
  <2>2. CASE b # 0 /\ b \notin S
    <3>1. b - 1 \in Nat /\ \A x \in S : x <= b - 1
      BY <2>0, <2>2
    <3>2. b - 1 \in bounds
      BY <3>1
    <3>. QED
      BY <1>1, <2>0, <3>2
  <2>. QED
    BY <2>1, <2>2
<1>. QED
  BY <1>1, <1>2 DEF Max

-----------------------------------------------------------------------------
(* The reader.                                                             *)

Fields == [units : Nat, ok : BOOLEAN]

\* The recursion of End as a property of a function.
EndsAt(fields, n, g) ==
    g = [k \in 0..n |-> IF k = 0 THEN 0 ELSE g[k - 1] + fields[k].units]

\* The recursion of End has a solution on every prefix.
LEMMA EndsExist ==
    ASSUME NEW fields \in Seq(Fields), NEW n \in 0..Len(fields)
    PROVE  \E g \in [0..n -> Nat] : EndsAt(fields, n, g)
<1>. DEFINE Has(k) == \E g \in [0..k -> Nat] : EndsAt(fields, k, g)
            missing == {k \in 0..Len(fields) : ~Has(k)}
<1>1. SUFFICES ASSUME missing # {} PROVE FALSE
  OBVIOUS
<1>2. PICK k \in missing : \A j \in missing : k <= j
  <2>1. missing \in SUBSET Nat
    OBVIOUS
  <2>. HIDE DEF missing
  <2>. QED
    BY <1>1, <2>1, MinIsMember
<1>3. k \in 0..Len(fields) /\ ~Has(k)
  BY <1>2
<1>4. CASE k = 0
  <2>. DEFINE h == [j \in 0..0 |-> 0]
  <2>1. h \in [0..k -> Nat] /\ EndsAt(fields, k, h)
    BY <1>4 DEF EndsAt
  <2>. QED
    BY <1>3, <2>1
<1>5. CASE k # 0
  <2>1. k - 1 \in 0..Len(fields) /\ k - 1 \notin missing
    <3>1. k \in Nat /\ k - 1 \in 0..Len(fields) /\ ~(k <= k - 1)
      BY <1>3, <1>5
    <3>. HIDE DEF missing
    <3>. QED
      BY <1>2, <3>1
  <2>2. PICK g \in [0..(k - 1) -> Nat] : EndsAt(fields, k - 1, g)
    BY <2>1
  <2>. DEFINE h == [j \in 0..k |-> IF j = k THEN g[k - 1] + fields[k].units ELSE g[j]]
  <2>3. fields[k].units \in Nat
    BY <1>3, <1>5, SMTT(30) DEF Fields
  <2>4. h \in [0..k -> Nat]
    BY <1>3, <1>5, <2>3
  <2>5. EndsAt(fields, k, h)
    <3>1. \A j \in 0..k : h[j] = IF j = 0 THEN 0 ELSE h[j - 1] + fields[j].units
      <4>. TAKE j \in 0..k
      <4>1. CASE j = k
        BY <1>3, <1>5, <4>1
      <4>2. CASE j # k
        <5>1. j \in 0..(k - 1) /\ h[j] = g[j]
          BY <1>3, <4>2
        <5>2. g[j] = IF j = 0 THEN 0 ELSE g[j - 1] + fields[j].units
          BY <2>2, <5>1 DEF EndsAt
        <5>3. j # 0 => h[j - 1] = g[j - 1]
          BY <1>3, <4>2
        <5>. QED
          BY <5>1, <5>2, <5>3
      <4>. QED
        BY <4>1, <4>2
    <3>. HIDE DEF h
    <3>. QED
      BY <2>4, <3>1 DEF EndsAt
  <2>. QED
    BY <1>3, <2>4, <2>5
<1>. QED
  BY <1>4, <1>5

\* Two such functions agree wherever both are defined.
LEMMA EndsAgree ==
    ASSUME NEW fields \in Seq(Fields), NEW m \in Nat, NEW n \in Nat, NEW g, NEW h,
           EndsAt(fields, m, g), EndsAt(fields, n, h),
           NEW k \in Nat, k <= m, k <= n
    PROVE  g[k] = h[k]
<1>. DEFINE differ == {j \in Nat : j <= m /\ j <= n /\ g[j] # h[j]}
<1>1. SUFFICES ASSUME differ # {} PROVE FALSE
  OBVIOUS
<1>2. PICK j \in differ : \A i \in differ : j <= i
  <2>1. differ \in SUBSET Nat
    OBVIOUS
  <2>. HIDE DEF differ
  <2>. QED
    BY <1>1, <2>1, MinIsMember
<1>3. /\ g[j] = IF j = 0 THEN 0 ELSE g[j - 1] + fields[j].units
      /\ h[j] = IF j = 0 THEN 0 ELSE h[j - 1] + fields[j].units
  BY <1>2 DEF EndsAt
<1>4. j # 0 => j - 1 \in Nat /\ j - 1 \notin differ
  BY <1>2
<1>. QED
  BY <1>2, <1>3, <1>4

\* The reader moves on by what each field takes.
LEMMA EndSteps ==
    ASSUME NEW fields \in Seq(Fields)
    PROVE  /\ End(fields, 0) = 0
           /\ \A i \in 0..Len(fields) : End(fields, i) \in Nat
           /\ \A i \in 1..Len(fields) : End(fields, i) = End(fields, i - 1) + fields[i].units
<1>. DEFINE f(n) == CHOOSE g : EndsAt(fields, n, g)
<1>1. \A n \in 0..Len(fields) : EndsAt(fields, n, f(n)) /\ f(n) \in [0..n -> Nat]
  <2>. TAKE n \in 0..Len(fields)
  <2>1. PICK g \in [0..n -> Nat] : EndsAt(fields, n, g)
    BY EndsExist
  <2>2. EndsAt(fields, n, f(n))
    BY <2>1
  <2>3. \A k \in 0..n : f(n)[k] = g[k]
    <3>. TAKE k \in 0..n
    <3>. HIDE DEF f
    <3>. QED
      BY <2>1, <2>2, EndsAgree
  <2>4. f(n) = [k \in 0..n |-> f(n)[k]]
    <3>. HIDE DEF f
    <3>. QED
      BY <2>2 DEF EndsAt
  <2>. HIDE DEF f
  <2>. QED
    BY <2>1, <2>2, <2>3, <2>4
<1>2. \A n \in 0..Len(fields) : End(fields, n) = f(n)[n]
  BY DEF End, EndsAt
<1>. HIDE DEF f
<1>3. End(fields, 0) = 0
  BY <1>1, <1>2 DEF EndsAt
<1>4. ASSUME NEW i \in 1..Len(fields)
      PROVE  End(fields, i) = End(fields, i - 1) + fields[i].units
  <2>1. i \in 0..Len(fields) /\ i - 1 \in 0..Len(fields)
    OBVIOUS
  <2>2. f(i)[i] = f(i)[i - 1] + fields[i].units
    BY <1>1, <2>1 DEF EndsAt
  <2>3. f(i)[i - 1] = f(i - 1)[i - 1]
    BY <1>1, <2>1, EndsAgree
  <2>. QED
    BY <1>2, <2>1, <2>2, <2>3
<1>5. \A i \in 0..Len(fields) : End(fields, i) \in Nat
  <2>. TAKE i \in 0..Len(fields)
  <2>1. i \in Nat
    OBVIOUS
  <2>. QED
    BY <1>1, <1>2, <2>1
<1>. QED
  BY <1>3, <1>4, <1>5

Total(fields) == End(fields, Len(fields))

\* The reader never moves back.
LEMMA EndGrows ==
    ASSUME NEW fields \in Seq(Fields), NEW i \in 0..Len(fields), NEW j \in 0..Len(fields), i <= j
    PROVE  End(fields, i) <= End(fields, j)
<1>. DEFINE less == {k \in Nat : k <= Len(fields) /\ i <= k /\ ~(End(fields, i) <= End(fields, k))}
<1>1. SUFFICES ASSUME less # {} PROVE FALSE
  BY j \in Nat
<1>2. PICK k \in less : \A m \in less : k <= m
  <2>1. less \in SUBSET Nat
    OBVIOUS
  <2>. HIDE DEF less
  <2>. QED
    BY <1>1, <2>1, MinIsMember
<1>3. k \in 0..Len(fields) /\ i \in Nat /\ i <= k /\ ~(End(fields, i) <= End(fields, k))
  BY <1>2
<1>4. End(fields, i) \in Nat
  BY EndSteps
<1>5. i # k
  BY <1>3, <1>4
<1>6. k - 1 \in Nat /\ k - 1 <= Len(fields) /\ i <= k - 1 /\ k \in 1..Len(fields)
  BY <1>3, <1>5
<1>7. End(fields, i) <= End(fields, k - 1)
  <2>1. ~(k <= k - 1)
    BY <1>3
  <2>. QED
    BY <1>2, <1>6, <2>1
<1>8. End(fields, k) = End(fields, k - 1) + fields[k].units /\ fields[k].units \in Nat
      /\ End(fields, k - 1) \in Nat
  <2>1. k - 1 \in 0..Len(fields) /\ fields[k] \in Fields
    BY <1>6
  <2>. QED
    BY <1>6, <2>1, EndSteps DEF Fields
<1>. QED
  BY <1>3, <1>4, <1>7, <1>8

\* Behind a sequence of fields the reader goes on from where that sequence ends.
LEMMA EndOfConcat ==
    ASSUME NEW s \in Seq(Fields), NEW t \in Seq(Fields)
    PROVE  /\ \A i \in 0..Len(s) : End(s \o t, i) = End(s, i)
           /\ \A i \in 0..Len(t) : End(s \o t, Len(s) + i) = Total(s) + End(t, i)
<1>. DEFINE st == s \o t
<1>1. /\ st \in Seq(Fields) /\ Len(st) = Len(s) + Len(t) /\ Len(s) \in Nat /\ Len(t) \in Nat
      /\ \A i \in 1..Len(s) : st[i] = s[i]
      /\ \A i \in 1..Len(t) : st[Len(s) + i] = t[i]
  BY ConcatProperties
<1>. HIDE DEF st
<1>2. \A i \in 0..Len(s) : End(st, i) = End(s, i)
  <2>. DEFINE off == {i \in Nat : i <= Len(s) /\ End(st, i) # End(s, i)}
  <2>1. SUFFICES ASSUME off # {} PROVE FALSE
    OBVIOUS
  <2>2. PICK i \in off : \A m \in off : i <= m
    <3>1. off \in SUBSET Nat
      OBVIOUS
    <3>. HIDE DEF off
    <3>. QED
      BY <2>1, <3>1, MinIsMember
  <2>3. i \in Nat /\ i <= Len(s) /\ End(st, i) # End(s, i)
    BY <2>2
  <2>4. i # 0
    BY <1>1, <2>3, EndSteps
  <2>5. i - 1 \in Nat /\ i - 1 <= Len(s) /\ i \in 1..Len(s) /\ i \in 1..Len(st)
    BY <1>1, <2>3, <2>4
  <2>6. End(st, i - 1) = End(s, i - 1)
    <3>1. ~(i <= i - 1)
      BY <2>3
    <3>. QED
      BY <2>2, <2>5, <3>1
  <2>7. /\ End(st, i) = End(st, i - 1) + st[i].units
        /\ End(s, i) = End(s, i - 1) + s[i].units /\ st[i] = s[i]
    BY <1>1, <2>5, EndSteps
  <2>. QED
    BY <2>3, <2>6, <2>7
<1>3. \A i \in 0..Len(t) : End(st, Len(s) + i) = Total(s) + End(t, i)
  <2>. DEFINE off == {i \in Nat : i <= Len(t) /\ End(st, Len(s) + i) # Total(s) + End(t, i)}
  <2>1. SUFFICES ASSUME off # {} PROVE FALSE
    OBVIOUS
  <2>2. PICK i \in off : \A m \in off : i <= m
    <3>1. off \in SUBSET Nat
      OBVIOUS
    <3>. HIDE DEF off
    <3>. QED
      BY <2>1, <3>1, MinIsMember
  <2>3. i \in Nat /\ i <= Len(t) /\ End(st, Len(s) + i) # Total(s) + End(t, i)
    BY <2>2
  <2>4. Total(s) \in Nat /\ End(t, 0) = 0 /\ End(st, Len(s)) = Total(s)
    BY <1>1, <1>2, EndSteps DEF Total
  <2>5. i # 0
    BY <1>1, <2>3, <2>4
  <2>6. /\ i - 1 \in Nat /\ i - 1 <= Len(t) /\ i \in 1..Len(t) /\ i - 1 \in 0..Len(t)
        /\ Len(s) + i \in 1..Len(st) /\ Len(s) + i - 1 = Len(s) + (i - 1)
    BY <1>1, <2>3, <2>5
  <2>7. End(st, Len(s) + (i - 1)) = Total(s) + End(t, i - 1)
    <3>1. ~(i <= i - 1)
      BY <2>3
    <3>. QED
      BY <2>2, <2>6, <3>1
  <2>8. /\ End(st, Len(s) + i) = End(st, Len(s) + i - 1) + st[Len(s) + i].units
        /\ End(t, i) = End(t, i - 1) + t[i].units /\ st[Len(s) + i] = t[i]
        /\ End(t, i - 1) \in Nat /\ t[i].units \in Nat
    <3>1. t[i] \in Fields /\ st[Len(s) + i] = t[i]
      BY <1>1, <2>6
    <3>2. End(st, Len(s) + i) = End(st, Len(s) + i - 1) + st[Len(s) + i].units
      BY <1>1, <2>6, EndSteps
    <3>3. End(t, i) = End(t, i - 1) + t[i].units /\ End(t, i - 1) \in Nat
      BY <2>6, EndSteps
    <3>. QED
      BY <3>1, <3>2, <3>3 DEF Fields
  <2>. QED
    BY <2>3, <2>4, <2>6, <2>7, <2>8
<1>. QED
  BY <1>2, <1>3 DEF st

\* The total of a concatenation is the sum of the totals.
LEMMA TotalOfConcat ==
    ASSUME NEW s \in Seq(Fields), NEW t \in Seq(Fields)
    PROVE  /\ s \o t \in Seq(Fields) /\ Total(s \o t) = Total(s) + Total(t)
           /\ Total(s) \in Nat /\ Total(t) \in Nat
<1>1. Len(s \o t) = Len(s) + Len(t) /\ Len(t) \in 0..Len(t) /\ Len(s) \in 0..Len(s)
      /\ s \o t \in Seq(Fields)
  BY ConcatProperties
<1>2. Total(s) \in Nat /\ Total(t) \in Nat
  BY <1>1, EndSteps DEF Total
<1>3. End(s \o t, Len(s) + Len(t)) = Total(s) + End(t, Len(t))
  BY <1>1, EndOfConcat
<1>. QED
  BY <1>1, <1>2, <1>3 DEF Total

Right(fields) == \A i \in DOMAIN fields : fields[i].ok

\* The few fields that the parsers begin with.
LEMMA NoField == <<>> \in Seq(Fields) /\ Total(<<>>) = 0 /\ Right(<<>>)
<1>1. <<>> \in Seq(Fields) /\ Len(<<>>) = 0
  OBVIOUS
<1>2. End(<<>>, 0) = 0
  BY <1>1, EndSteps
<1>. QED
  BY <1>1, <1>2 DEF Total, Right

\* A parser's reading of one field ...
LEMMA OneField ==
    ASSUME NEW a \in Fields
    PROVE  /\ <<a>> \in Seq(Fields)
           /\ Total(<<a>>) = a.units
           /\ Right(<<a>>) <=> a.ok
<1>0. a.units \in Nat
  BY DEF Fields
<1>. DEFINE f == <<a>>
<1>1. f \in Seq(Fields) /\ Len(f) = 1 /\ f[1] = a
  OBVIOUS
<1>. HIDE DEF f
<1>2. End(f, 0) = 0 /\ End(f, 1) = End(f, 0) + a.units
  BY <1>1, EndSteps
<1>3. End(f, Len(f)) = a.units
  BY <1>0, <1>1, <1>2
<1>4. Right(f) <=> f[1].ok
  BY <1>1 DEF Right
<1>. QED
  BY <1>1, <1>3, <1>4 DEF f, Total

\* ... of two ...
LEMMA TwoFields ==
    ASSUME NEW a \in Fields, NEW b \in Fields
    PROVE  /\ <<a, b>> \in Seq(Fields)
           /\ Total(<<a, b>>) = a.units + b.units
           /\ End(<<a, b>>, 1) = a.units /\ Len(<<a, b>>) = 2
           /\ <<a, b>>[1] = a /\ <<a, b>>[2] = b
           /\ Right(<<a, b>>) <=> a.ok /\ b.ok
<1>0. a.units \in Nat /\ b.units \in Nat
  BY DEF Fields
<1>. DEFINE f == <<a, b>>
<1>1. f \in Seq(Fields) /\ Len(f) = 2 /\ f[1] = a /\ f[2] = b
  OBVIOUS
<1>. HIDE DEF f
<1>2. /\ End(f, 0) = 0 /\ End(f, 1) = End(f, 0) + a.units
      /\ End(f, 2) = End(f, 1) + b.units
  BY <1>1, EndSteps
<1>3. End(f, Len(f)) = a.units + b.units /\ End(f, 1) = a.units
  BY <1>0, <1>1, <1>2
<1>4. Right(f) <=> f[1].ok /\ f[2].ok
  BY <1>1 DEF Right
<1>. QED
  BY <1>1, <1>3, <1>4 DEF f, Total

\* ... of three ...
LEMMA ThreeFields ==
    ASSUME NEW a \in Fields, NEW b \in Fields, NEW c \in Fields
    PROVE  /\ <<a, b, c>> \in Seq(Fields)
           /\ Total(<<a, b, c>>) = a.units + b.units + c.units
           /\ End(<<a, b, c>>, 2) = a.units + b.units /\ Len(<<a, b, c>>) = 3
           /\ <<a, b, c>>[2] = b
           /\ Right(<<a, b, c>>) <=> a.ok /\ b.ok /\ c.ok
<1>0. a.units \in Nat /\ b.units \in Nat /\ c.units \in Nat
  BY DEF Fields
<1>. DEFINE f == <<a, b, c>>
<1>1. f \in Seq(Fields) /\ Len(f) = 3 /\ f[1] = a /\ f[2] = b /\ f[3] = c
  OBVIOUS
<1>. HIDE DEF f
<1>2. /\ End(f, 0) = 0 /\ End(f, 1) = End(f, 0) + a.units
      /\ End(f, 2) = End(f, 1) + b.units /\ End(f, 3) = End(f, 2) + c.units
  <2>1. /\ End(f, 0) = 0
        /\ \A i \in 1..3 : End(f, i) = End(f, i - 1) + f[i].units
    BY <1>1, EndSteps
  <2>2. End(f, 1) = End(f, 1 - 1) + f[1].units
    BY <2>1
  <2>3. End(f, 2) = End(f, 2 - 1) + f[2].units
    BY <2>1
  <2>4. End(f, 3) = End(f, 3 - 1) + f[3].units
    BY <2>1
  <2>. QED
    BY <1>1, <2>1, <2>2, <2>3, <2>4
<1>3. End(f, Len(f)) = a.units + b.units + c.units /\ End(f, 2) = a.units + b.units
  BY <1>0, <1>1, <1>2
<1>4. Right(f) <=> f[1].ok /\ f[2].ok /\ f[3].ok
  BY <1>1 DEF Right
<1>. QED
  BY <1>1, <1>3, <1>4 DEF f, Total

\* ... and of four.
LEMMA FourFields ==
    ASSUME NEW a \in Fields, NEW b \in Fields, NEW c \in Fields, NEW d \in Fields
    PROVE  /\ <<a, b, c, d>> \in Seq(Fields)
           /\ Total(<<a, b, c, d>>) = a.units + b.units + c.units + d.units
           /\ End(<<a, b, c, d>>, 2) = a.units + b.units /\ Len(<<a, b, c, d>>) = 4
           /\ <<a, b, c, d>>[2] = b
           /\ Right(<<a, b, c, d>>) <=> a.ok /\ b.ok /\ c.ok /\ d.ok
<1>0. a.units \in Nat /\ b.units \in Nat /\ c.units \in Nat /\ d.units \in Nat
  BY DEF Fields
<1>. DEFINE f == <<a, b, c, d>>
<1>1. f \in Seq(Fields) /\ Len(f) = 4 /\ f[1] = a /\ f[2] = b /\ f[3] = c /\ f[4] = d
  OBVIOUS
<1>. HIDE DEF f
<1>2. /\ End(f, 0) = 0 /\ End(f, 1) = End(f, 0) + a.units
      /\ End(f, 2) = End(f, 1) + b.units /\ End(f, 3) = End(f, 2) + c.units
      /\ End(f, 4) = End(f, 3) + d.units
  <2>1. /\ End(f, 0) = 0
        /\ \A i \in 1..4 : End(f, i) = End(f, i - 1) + f[i].units
    BY <1>1, EndSteps
  <2>2. End(f, 1) = End(f, 1 - 1) + f[1].units /\ End(f, 2) = End(f, 2 - 1) + f[2].units
    BY <2>1
  <2>3. End(f, 3) = End(f, 3 - 1) + f[3].units /\ End(f, 4) = End(f, 4 - 1) + f[4].units
    BY <2>1
  <2>. QED
    BY <1>1, <2>1, <2>2, <2>3
<1>3. End(f, Len(f)) = a.units + b.units + c.units + d.units /\ End(f, 2) = a.units + b.units
  BY <1>0, <1>1, <1>2
<1>4. Right(f) <=> f[1].ok /\ f[2].ok /\ f[3].ok /\ f[4].ok
  BY <1>1 DEF Right
<1>. QED
  BY <1>1, <1>3, <1>4 DEF f, Total

\* What the reader says: it accepts the fields when they are all there and all right, refuses
\* them at the first that is wrong, and waits only while there are more to come.
LEMMA Reading ==
    ASSUME NEW fields \in Seq(Fields), NEW len \in Nat
    PROVE  LET answer == Read(fields, len)
               right == Right(fields)
           IN  /\ answer.verdict \in {"ok", "incomplete", "rejected"}
               /\ answer.verdict = "ok" =>
                    right /\ Total(fields) <= len /\ answer.header = Total(fields)
               /\ right /\ Total(fields) <= len => answer.verdict = "ok"
               /\ right => answer.verdict # "rejected"
               /\ Total(fields) <= len => answer.verdict # "incomplete"
               /\ \A i \in DOMAIN fields :
                    ~fields[i].ok /\ End(fields, i) <= len => answer.verdict = "rejected"
<1>. DEFINE answer == Read(fields, len)
            right == Right(fields)
            stops == {i \in DOMAIN fields : End(fields, i) > len \/ ~fields[i].ok}
<1>1. DOMAIN fields = 1..Len(fields) /\ Len(fields) \in Nat
      /\ \A i \in 0..Len(fields) : End(fields, i) \in Nat
  BY EndSteps
<1>2. Total(fields) \in Nat /\ \A i \in DOMAIN fields : End(fields, i) <= Total(fields)
  BY <1>1, EndGrows DEF Total
<1>3. CASE stops = {}
  <2>1. answer = Verdict("ok", Total(fields))
    BY <1>3 DEF Read, Total
  <2>2. right /\ \A i \in DOMAIN fields : End(fields, i) <= len
    BY <1>1, <1>3 DEF Right
  <2>3. Total(fields) <= len
    <3>1. CASE Len(fields) = 0
      <4>1. Total(fields) = 0
        BY <3>1, EndSteps DEF Total
      <4>. QED
        BY <4>1
    <3>2. CASE Len(fields) # 0
      BY <1>1, <2>2, <3>2 DEF Total
    <3>. QED
      BY <3>1, <3>2
  <2>4. answer.verdict = "ok" /\ answer.header = Total(fields)
    BY <2>1 DEF Verdict
  <2>. HIDE DEF answer
  <2>5. right
    BY <2>2
  <2>. QED
    BY <2>2, <2>3, <2>4, <2>5 DEF answer, Right
<1>4. CASE stops # {}
  <2>. DEFINE first == Min(stops)
  <2>1. first \in stops /\ \A i \in stops : first <= i
    <3>1. stops \in SUBSET Nat
      BY <1>1
    <3>. HIDE DEF stops
    <3>. QED
      BY <1>4, <3>1, MinIsMember
  <2>2. answer.verdict = IF End(fields, first) > len THEN "incomplete" ELSE "rejected"
    BY <1>4 DEF Read, Verdict
  <2>. HIDE DEF first
  <2>3. first \in DOMAIN fields /\ End(fields, first) \in Nat
        /\ (End(fields, first) > len \/ ~fields[first].ok)
    BY <1>1, <2>1
  <2>4. Total(fields) <= len => ~(End(fields, first) > len) /\ ~right
    BY <1>2, <2>3 DEF Right
  <2>5. right => End(fields, first) > len
    BY <2>3 DEF Right
  <2>6. ASSUME NEW i \in DOMAIN fields, ~fields[i].ok, End(fields, i) <= len
        PROVE  ~(End(fields, first) > len)
    <3>1. first <= i
      BY <2>1, <2>6
    <3>2. End(fields, first) <= End(fields, i) /\ End(fields, i) \in Nat
      BY <1>1, <2>3, <3>1, EndGrows
    <3>. QED
      BY <2>3, <2>6, <3>2
  <2>. HIDE DEF answer, right
  <2>7. answer.verdict \in {"incomplete", "rejected"} /\ answer.verdict # "ok"
    BY <2>2, Zenon
  <2>8. /\ End(fields, first) > len => answer.verdict # "rejected"
        /\ ~(End(fields, first) > len) => answer.verdict = "rejected"
    BY <2>2, Zenon
  <2>9. "rejected" # "incomplete"
    OBVIOUS
  <2>10. \A i \in DOMAIN fields :
            ~fields[i].ok /\ End(fields, i) <= len => answer.verdict = "rejected"
    BY <2>6, <2>8, Zenon
  <2>. QED
    BY <2>4, <2>5, <2>7, <2>8, <2>9, <2>10, Zenon DEF answer, right
<1>. QED
  BY <1>3, <1>4

\* A concatenation is right when both parts are.
LEMMA RightOfConcat ==
    ASSUME NEW s \in Seq(Fields), NEW t \in Seq(Fields)
    PROVE  Right(s \o t) <=> Right(s) /\ Right(t)
<1>. DEFINE st == s \o t
<1>1. /\ Len(s) \in Nat /\ Len(t) \in Nat
      /\ DOMAIN st = 1..(Len(s) + Len(t)) /\ DOMAIN s = 1..Len(s) /\ DOMAIN t = 1..Len(t)
      /\ \A i \in 1..Len(s) : st[i] = s[i]
      /\ \A i \in 1..Len(t) : st[Len(s) + i] = t[i]
  BY ConcatProperties
<1>. HIDE DEF st
<1>2. ASSUME Right(st) PROVE Right(s) /\ Right(t)
  <2>1. \A i \in 1..Len(s) : i \in 1..(Len(s) + Len(t))
    BY <1>1
  <2>2. \A i \in 1..Len(t) : Len(s) + i \in 1..(Len(s) + Len(t))
    BY <1>1
  <2>. QED
    BY <1>1, <1>2, <2>1, <2>2 DEF Right
<1>3. ASSUME Right(s), Right(t) PROVE Right(st)
  <2>. SUFFICES ASSUME NEW i \in 1..(Len(s) + Len(t)) PROVE st[i].ok
    BY <1>1 DEF Right
  <2>1. CASE i <= Len(s)
    BY <1>1, <1>3, <2>1 DEF Right
  <2>2. CASE ~(i <= Len(s))
    <3>1. i - Len(s) \in 1..Len(t) /\ i = Len(s) + (i - Len(s))
      BY <1>1, <2>2
    <3>2. st[i] = t[i - Len(s)]
      BY <1>1, <3>1
    <3>. QED
      BY <1>1, <1>3, <3>1, <3>2 DEF Right
  <2>. QED
    BY <2>1, <2>2
<1>. QED
  BY <1>2, <1>3 DEF st

\* Behind a field that is wrong nothing is read.
LEMMA WrongDecides ==
    ASSUME NEW s \in Seq(Fields), NEW t \in Seq(Fields), NEW len \in Nat,
           NEW i \in DOMAIN s, ~s[i].ok
    PROVE  /\ Read(s \o t, len).verdict # "ok"
           /\ End(s, i) <= len => Read(s \o t, len).verdict = "rejected"
<1>. DEFINE st == s \o t
<1>1. st \in Seq(Fields) /\ i \in DOMAIN st /\ st[i] = s[i]
  BY ConcatProperties
<1>2. End(st, i) = End(s, i)
  <2>1. i \in 0..Len(s)
    OBVIOUS
  <2>. QED
    BY <2>1, EndOfConcat
<1>. HIDE DEF st
<1>3. Read(st, len).verdict = "ok" => st[i].ok
  BY <1>1, Reading DEF Right
<1>4. ~st[i].ok /\ End(st, i) <= len => Read(st, len).verdict = "rejected"
  BY <1>1, Reading
<1>. QED
  BY <1>1, <1>2, <1>3, <1>4 DEF st

-----------------------------------------------------------------------------
(* Addresses.                                                              *)

FaultyHost(c) ==
    \/ c.broken = "type"
    \/ Slot(c.host) = "domain" /\ c.broken \in {"length", "name"}

\* The fields of a host are fields.
LEMMA HostFieldsType == \A kind, c : HostFields(kind, c) \in Seq(Fields)
<1>. TAKE kind, c
<1>. DEFINE one == Field(1, TRUE)
            two == Field(2, TRUE)
            none == Field(1, FALSE)
            length == Field(1, c.broken # "length")
            name == Field(1, c.broken # "name")
<1>1. /\ one \in Fields /\ two \in Fields /\ none \in Fields
      /\ length \in Fields /\ name \in Fields
  BY DEF Fields, Field
<1>2. HostFields(kind, c) \in {<<one, one>>, <<one, two>>, <<one, length, name>>, <<none>>}
  BY Zenon DEF HostFields
<1>. HIDE DEF one, two, none, length, name
<1>3. /\ <<one, one>> \in Seq(Fields) /\ <<one, two>> \in Seq(Fields)
      /\ <<one, length, name>> \in Seq(Fields) /\ <<none>> \in Seq(Fields)
  BY <1>1, OneField, TwoFields, ThreeFields
<1>. QED
  BY <1>2, <1>3, Zenon

\* The type bytes of a table tell its slots apart.
LEMMA TypeBytesDiffer ==
    ASSUME NEW kind \in {"Vless", "Socks5"}, NEW s \in Slots, NEW t \in Slots,
           TypeByte[kind][s] = TypeByte[kind][t]
    PROVE  s = t
<1>1. CASE kind = "Vless"
  BY <1>1 DEF TypeByte, Slots
<1>2. CASE kind = "Socks5"
  BY <1>2 DEF TypeByte, Slots
<1>. QED
  BY <1>1, <1>2

\* A parser that reads the client's own table finds the slot the client wrote.
LEMMA SlotFound ==
    ASSUME NEW c, c.host \in Slots \cup {"literal"}
    PROVE  SlotRead(Speaks(c.protocol), c) = IF c.broken = "type" THEN {} ELSE {Slot(c.host)}
<1>1. Speaks(c.protocol) \in {"Vless", "Socks5"} /\ Slot(c.host) \in Slots
  BY DEF Speaks, Slot, Slots
<1>2. \A slot \in Slots :
        TypeByte[Speaks(c.protocol)][slot] = TypeByte[Speaks(c.protocol)][Slot(c.host)]
          <=> slot = Slot(c.host)
  BY <1>1, TypeBytesDiffer
<1>. QED
  BY <1>1, <1>2 DEF SlotRead

\* The fields of a host are right unless a fault lies among them, and then as long as the client
\* wrote them.
LEMMA HostRead ==
    ASSUME NEW c, c.host \in Slots \cup {"literal"}
    PROVE  LET host == HostFields(Speaks(c.protocol), c)
           IN  /\ host \in Seq(Fields) /\ Total(host) \in Nat /\ Total(host) <= HostUnits(c)
               /\ Right(host) <=> ~FaultyHost(c)
               /\ Right(host) => Total(host) = HostUnits(c)
<1>. DEFINE one == Field(1, TRUE)
            two == Field(2, TRUE)
            none == Field(1, FALSE)
            length == Field(1, c.broken # "length")
            name == Field(1, c.broken # "name")
            host == HostFields(Speaks(c.protocol), c)
<1>0. host = HostFields(Speaks(c.protocol), c)
  OBVIOUS
<1>1. /\ one \in Fields /\ two \in Fields /\ none \in Fields
      /\ length \in Fields /\ name \in Fields
      /\ one.units = 1 /\ two.units = 2 /\ none.units = 1 /\ length.units = 1 /\ name.units = 1
      /\ one.ok /\ two.ok /\ ~none.ok
      /\ length.ok <=> c.broken # "length"
      /\ name.ok <=> c.broken # "name"
  BY DEF Fields, Field
<1>2. SlotRead(Speaks(c.protocol), c) = IF c.broken = "type" THEN {} ELSE {Slot(c.host)}
  BY SlotFound
<1>3. c.host \in {"v4", "v6", "domain", "literal"}
  BY DEF Slots
<1>4. Slot(c.host) = IF c.host = "literal" THEN "domain" ELSE c.host
  BY DEF Slot
<1>5. HostUnits(c) = IF c.host = "v4" THEN 2 ELSE 3
  BY DEF HostUnits
<1>6. CASE c.broken = "type"
  <2>1. host = <<none>>
    <3>1. SlotRead(Speaks(c.protocol), c) = {}
      BY <1>2, <1>6
    <3>. QED
      BY <3>1, Zenon DEF HostFields
  <2>. HIDE DEF host, none, one, two, length, name
  <2>. QED
    <3>1. FaultyHost(c)
      BY <1>6 DEF FaultyHost
    <3>3. HostUnits(c) = 2 \/ HostUnits(c) = 3
      BY <1>5
    <3>2. host \in Seq(Fields) /\ Total(host) = 1 /\ ~Right(host)
      BY <1>1, <2>1, OneField
    <3>. QED
      BY <1>0, <3>1, <3>2, <3>3
<1>7. CASE c.broken # "type" /\ c.host = "v4"
  <2>1. host = <<one, one>>
    <3>1. SlotRead(Speaks(c.protocol), c) = {"v4"}
      BY <1>2, <1>4, <1>7
    <3>. QED
      BY <3>1, Zenon DEF HostFields
  <2>2. ~FaultyHost(c)
    BY <1>4, <1>7 DEF FaultyHost
  <2>. HIDE DEF host, none, one, two, length, name
  <2>. QED
    BY <1>0, <1>1, <1>5, <1>7, <2>1, <2>2, TwoFields
<1>8. CASE c.broken # "type" /\ c.host = "v6"
  <2>1. host = <<one, two>>
    <3>1. SlotRead(Speaks(c.protocol), c) = {"v6"}
      BY <1>2, <1>4, <1>8
    <3>2. "v6" # "v4"
      OBVIOUS
    <3>3. {"v6"} # {"v4"}
      BY <3>2
    <3>. QED
      BY <3>1, <3>3, Zenon DEF HostFields
  <2>2. ~FaultyHost(c)
    BY <1>4, <1>8 DEF FaultyHost
  <2>. HIDE DEF host, none, one, two, length, name
  <2>. QED
    BY <1>0, <1>1, <1>5, <1>8, <2>1, <2>2, TwoFields
<1>9. CASE c.broken # "type" /\ c.host \in {"domain", "literal"}
  <2>1. host = <<one, length, name>>
    <3>1. SlotRead(Speaks(c.protocol), c) = {"domain"}
      BY <1>2, <1>4, <1>9
    <3>2. {"domain"} # {"v4"} /\ {"domain"} # {"v6"}
      OBVIOUS
    <3>. QED
      BY <3>1, <3>2, Zenon DEF HostFields
  <2>2. FaultyHost(c) <=> c.broken \in {"length", "name"}
    BY <1>4, <1>9 DEF FaultyHost
  <2>. HIDE DEF host, none, one, two, length, name
  <2>3. host \in Seq(Fields) /\ Total(host) = 3
    BY <1>1, <2>1, ThreeFields
  <2>4. Right(host) <=> c.broken # "length" /\ c.broken # "name"
    BY <1>1, <2>1, ThreeFields
  <2>. QED
    BY <1>0, <1>5, <1>9, <2>2, <2>3, <2>4
<1>. QED
  BY <1>3, <1>6, <1>7, <1>8, <1>9

-----------------------------------------------------------------------------
(* The parsers.                                                            *)

\* What is wrong with a header.
Flaw(c, what) == c.broken = what
Sound(c) == Flaw(c, "")

\* What a protocol asks of a client beside its credential and a sound header.
Timely(c, fresh) == c.protocol \in {"Vmess", "Shadowsocks"} => fresh
Fits(c) == c.protocol = "Vmess" => SealedLen(c) <= MaxSealed

\* What the parser of a client's own protocol says of it: it accepts a sound header from its
\* last unit on, and only that, it refuses none before, and it decides when the header is there.
OwnAnswer(answer, c, len, fresh) ==
    /\ answer.verdict \in {"ok", "incomplete", "rejected"}
    /\ answer.verdict = "ok" =>
         Sound(c) /\ Timely(c, fresh) /\ Fits(c) /\ HelloLen(c) <= len
         /\ answer.header = HelloLen(c)
    /\ Sound(c) /\ Timely(c, fresh) /\ Fits(c) => answer.verdict # "rejected"
    /\ Sound(c) /\ Timely(c, fresh) /\ Fits(c) /\ HelloLen(c) <= len => answer.verdict = "ok"
    /\ ~Flaw(c, "short") /\ HelloLen(c) <= len => answer.verdict # "incomplete"

\* What the parsers say of anybody else: nothing good, and it is said when they have seen enough.
OtherAnswer(answer, enough) ==
    answer.verdict # "ok" /\ (enough => answer.verdict = "rejected")

\* There are four protocols.
LEMMA KindsRange == Range(Kinds) \subseteq {"Vless", "Trojan", "Vmess", "Shadowsocks"}
<1>1. \A i \in DOMAIN Kinds : Kinds[i] \in {"Vless", "Trojan", "Vmess", "Shadowsocks"}
  BY DEF Kinds
<1>. QED
  BY <1>1 DEF Range

\* What ClientAssumption says of one client.
LEMMA ClientType ==
    ASSUME NEW c \in Clients
    PROVE  /\ c.protocol \in {"Vless", "Trojan", "Vmess", "Shadowsocks"}
           /\ c.zero \in BOOLEAN /\ (c.protocol = "Vless" => c.zero)
           /\ c.host \in Slots \cup {"literal"} /\ c.extra \in Nat /\ c.initial \in Nat
           /\ c.command = "mux" => c.protocol = "Vless"
           /\ c.command \in {"tcp", "udp", "mux"}
           /\ c.broken \in Faults(c)
           /\ HostUnits(c) \in 2..3
<1>1. Range(Kinds) \subseteq {"Vless", "Trojan", "Vmess", "Shadowsocks"}
  BY KindsRange
<1>2. HostUnits(c) = 2 \/ HostUnits(c) = 3
  BY DEF HostUnits
<1>3. c.protocol \in Range(Kinds)
  BY ClientAssumption
<1>4. c.protocol = "Vless" \/ c.protocol = "Trojan" \/ c.protocol = "Vmess"
      \/ c.protocol = "Shadowsocks"
  BY <1>1, <1>3
<1>5. c.command \in CASE c.protocol = "Vless"       -> {"tcp", "udp", "mux"}
                      [] c.protocol = "Shadowsocks" -> {"tcp"}
                      [] OTHER                      -> {"tcp", "udp"}
  BY ClientAssumption
<1>6. /\ c.command = "mux" => c.protocol = "Vless"
      /\ c.command \in {"tcp", "udp", "mux"}
  BY <1>4, <1>5
<1>. QED
  BY <1>2, <1>4, <1>6, ClientAssumption

\* What may be wrong with a header, protocol by protocol.
LEMMA FaultsOf ==
    ASSUME NEW c \in Clients
    PROVE  /\ c.protocol = "Vless" =>
                (Sound(c) <=> ~(c.command # "mux" /\ FaultyHost(c)) /\ ~Flaw(c, "command"))
           /\ c.protocol = "Trojan" =>
                (Sound(c) <=> ~FaultyHost(c) /\ ~Flaw(c, "command")
                                   /\ ~Flaw(c, "separator"))
           /\ c.protocol = "Vmess" =>
                (Sound(c) <=> ~FaultyHost(c) /\ ~Flaw(c, "command") /\ ~Flaw(c, "seal")
                                   /\ ~Flaw(c, "version") /\ ~Flaw(c, "short"))
           /\ c.protocol = "Shadowsocks" =>
                (Sound(c) <=> ~FaultyHost(c) /\ ~Flaw(c, "seal")
                                   /\ ~Flaw(c, "version") /\ ~Flaw(c, "short"))
           /\ Flaw(c, "short") /\ c.protocol = "Shadowsocks" => c.initial = 0
<1>1. \/ c.broken = ""
      \/ c.broken = "type" /\ c.command # "mux"
      \/ c.broken \in {"length", "name"} /\ Slot(c.host) = "domain" /\ c.command # "mux"
      \/ c.broken = "command" /\ c.protocol # "Shadowsocks"
      \/ c.broken = "separator" /\ c.protocol = "Trojan"
      \/ c.broken \in {"seal", "version"} /\ c.protocol \in {"Vmess", "Shadowsocks"}
      \/ c.broken = "short" /\ c.protocol = "Vmess"
      \/ c.broken = "short" /\ c.protocol = "Shadowsocks" /\ c.initial = 0
  <2>1. c.broken \in Faults(c)
    BY ClientType
  <2>. QED
    BY <2>1, Zenon DEF Faults
<1>2. CASE c.protocol = "Vless"
  BY <1>1, <1>2 DEF FaultyHost, Flaw, Sound
<1>3. CASE c.protocol = "Trojan"
  <2>1. c.command # "mux"
    BY <1>3, ClientType
  <2>. QED
    BY <1>1, <1>3, <2>1 DEF FaultyHost, Flaw, Sound
<1>4. CASE c.protocol = "Vmess"
  <2>1. c.command # "mux"
    BY <1>4, ClientType
  <2>. QED
    BY <1>1, <1>4, <2>1 DEF FaultyHost, Flaw, Sound
<1>5. CASE c.protocol = "Shadowsocks"
  <2>1. c.command # "mux"
    BY <1>5, ClientType
  <2>. QED
    BY <1>1, <1>5, <2>1 DEF FaultyHost, Flaw, Sound
<1>. QED
  BY <1>2, <1>3, <1>4, <1>5, ClientType

\* A client's own parser reads fields that are right when its header is, and as long.
LEMMA OwnReading ==
    ASSUME NEW c, NEW len \in Nat, NEW fresh, NEW fields \in Seq(Fields),
           Timely(c, fresh), Fits(c), HelloLen(c) \in Nat, Total(fields) \in Nat,
           Sound(c) <=> Right(fields), Total(fields) <= HelloLen(c),
           Right(fields) => Total(fields) = HelloLen(c)
    PROVE  OwnAnswer(Read(fields, len), c, len, fresh)
<1>. DEFINE answer == Read(fields, len)
<1>1. /\ answer.verdict \in {"ok", "incomplete", "rejected"}
      /\ answer.verdict = "ok" =>
           Right(fields) /\ Total(fields) <= len /\ answer.header = Total(fields)
      /\ Right(fields) /\ Total(fields) <= len => answer.verdict = "ok"
      /\ Right(fields) => answer.verdict # "rejected"
      /\ Total(fields) <= len => answer.verdict # "incomplete"
  BY Reading
<1>. HIDE DEF answer
<1>2. HelloLen(c) <= len => Total(fields) <= len
  <2>1. HelloLen(c) \in Nat /\ Total(fields) \in Nat /\ Total(fields) <= HelloLen(c)
    OBVIOUS
  <2>. QED
    BY <2>1
<1>3. OwnAnswer(answer, c, len, fresh)
  BY <1>1, <1>2 DEF OwnAnswer
<1>. QED
  BY <1>3 DEF answer

\* What VLESS answers, to its own clients and to others.
LEMMA VlessAnswers ==
    ASSUME NEW c \in Clients, NEW len \in Nat, NEW fresh \in BOOLEAN
    PROVE  /\ Mine("Vless", c) => OwnAnswer(Vless(c, len, fresh), c, len, fresh)
           /\ ~Mine("Vless", c) => OtherAnswer(Vless(c, len, fresh), 1 + Uuid <= len)
<1>. DEFINE a == Field(1, c.zero)
            b == Field(Uuid, Mine("Vless", c))
            d == Field(1 + c.extra, TRUE)
            e == Command(c)
            front == <<a, b, d, e>>
            host == HostFields("Vless", c)
            rest == IF c.command = "mux" THEN <<>> ELSE <<Port>> \o host
            answer == Read(front \o rest, len)
<1>1. answer = Vless(c, len, fresh)
  BY DEF Vless
<1>2. /\ a \in Fields /\ a.units = 1
      /\ b \in Fields /\ b.units = 2
      /\ d \in Fields /\ d.units = 1 + c.extra /\ d.ok
      /\ e \in Fields /\ e.units = 1
      /\ Port \in Fields /\ Port.units = 1 /\ Port.ok
      /\ a.ok <=> c.zero
      /\ b.ok <=> Mine("Vless", c)
      /\ e.ok <=> ~Flaw(c, "command")
  <2>1. Mine("Vless", c) \in BOOLEAN /\ (c.broken # "command") \in BOOLEAN
        /\ 1 + c.extra \in Nat /\ Uuid = 2 /\ c.zero \in BOOLEAN
    BY ClientType DEF Mine, Known, Uuid
  <2>2. /\ a \in Fields /\ a.units = 1 /\ b \in Fields /\ b.units = 2
        /\ d \in Fields /\ d.units = 1 + c.extra /\ d.ok
        /\ Port \in Fields /\ Port.units = 1 /\ Port.ok
        /\ e \in Fields /\ e.units = 1
    BY <2>1 DEF Command, Port, Field, Fields
  <2>3. (a.ok <=> c.zero) /\ (b.ok <=> Mine("Vless", c)) /\ (e.ok <=> ~Flaw(c, "command"))
    BY Zenon DEF Command, Field, Flaw
  <2>. QED
    BY <2>2, <2>3
<1>3. host \in Seq(Fields)
  BY HostFieldsType, Zenon
<1>4. rest \in Seq(Fields)
  <2>1. <<Port>> \in Seq(Fields) /\ <<>> \in Seq(Fields)
    BY <1>2, OneField, NoField
  <2>. HIDE DEF host
  <2>. QED
    BY <1>3, <2>1, ConcatProperties
<1>. HIDE DEF a, b, d, e, host
<1>5. ASSUME ~Mine("Vless", c) PROVE OtherAnswer(answer, 1 + Uuid <= len)
  <2>1. answer.verdict # "ok" /\ (3 <= len => answer.verdict = "rejected")
    <3>1. /\ front \in Seq(Fields) /\ End(front, 2) = 3
          /\ 2 \in DOMAIN front /\ front[2] = b /\ ~b.ok
      BY <1>2, <1>5, FourFields
    <3>. HIDE DEF front, rest
    <3>. QED
      BY <1>4, <3>1, WrongDecides
  <2>. QED
    BY <2>1 DEF OtherAnswer, Uuid
<1>6. ASSUME Mine("Vless", c) PROVE OwnAnswer(answer, c, len, fresh)
  <2>1. c.protocol = "Vless" /\ c.zero /\ Speaks(c.protocol) = "Vless" /\ c.extra \in Nat
        /\ HostUnits(c) \in 2..3 /\ c.host \in Slots \cup {"literal"}
    BY <1>6, ClientType DEF Mine, Speaks
  <2>2. /\ front \in Seq(Fields) /\ Total(front) = 5 + c.extra
        /\ Right(front) <=> ~Flaw(c, "command")
    <3>1. /\ front \in Seq(Fields) /\ Total(front) = a.units + b.units + d.units + e.units
          /\ Right(front) <=> a.ok /\ b.ok /\ d.ok /\ e.ok
      BY <1>2, FourFields
    <3>. HIDE DEF front
    <3>. QED
      BY <1>2, <1>6, <2>1, <3>1
  <2>3. /\ Total(host) \in Nat /\ Total(host) <= HostUnits(c)
        /\ Right(host) <=> ~FaultyHost(c)
        /\ Right(host) => Total(host) = HostUnits(c)
    BY <2>1, HostRead DEF host
  <2>4. /\ c.command = "mux" => Total(rest) = 0 /\ Right(rest)
        /\ c.command # "mux" => Total(rest) = 1 + Total(host) /\ (Right(rest) <=> Right(host))
    <3>1. <<Port>> \in Seq(Fields) /\ Total(<<Port>>) = 1 /\ Right(<<Port>>)
      BY <1>2, OneField
    <3>. QED
      BY <1>3, <3>1, NoField, TotalOfConcat, RightOfConcat
  <2>5. HelloLen(c) = 5 + c.extra + (IF c.command = "mux" THEN 0 ELSE 1 + HostUnits(c))
    BY <2>1 DEF HelloLen
  <2>6. Timely(c, fresh) /\ Fits(c)
    BY <2>1 DEF Timely, Fits
  <2>. HIDE DEF rest, front
  <2>7. /\ front \o rest \in Seq(Fields) /\ Total(front \o rest) \in Nat
        /\ Total(front \o rest) = Total(front) + Total(rest)
        /\ Right(front \o rest) <=> Right(front) /\ Right(rest)
    BY <1>4, <2>2, TotalOfConcat, RightOfConcat
  <2>8. Sound(c) <=> Right(front \o rest)
    BY <2>1, <2>2, <2>3, <2>4, <2>7, FaultsOf
  <2>9. /\ Total(front \o rest) <= HelloLen(c)
        /\ Right(front \o rest) => Total(front \o rest) = HelloLen(c)
    <3>1. CASE c.command = "mux"
      BY <2>1, <2>2, <2>4, <2>5, <2>7, <3>1
    <3>2. CASE c.command # "mux"
      BY <2>1, <2>2, <2>3, <2>4, <2>5, <2>7, <3>2
    <3>. QED
      BY <3>1, <3>2
  <2>10. HelloLen(c) \in Nat
    BY <2>1, <2>5
  <2>. DEFINE all == front \o rest
  <2>11. all \in Seq(Fields) /\ Total(all) \in Nat /\ (Sound(c) <=> Right(all))
         /\ Total(all) <= HelloLen(c) /\ (Right(all) => Total(all) = HelloLen(c))
    BY <2>7, <2>8, <2>9
  <2>12. answer = Read(all, len)
    OBVIOUS
  <2>. HIDE DEF all, answer
  <2>. QED
    BY <2>6, <2>10, <2>11, <2>12, OwnReading
<1>. QED
  BY <1>1, <1>5, <1>6

\* A concatenation begins with its first part.
LEMMA FrontStays ==
    ASSUME NEW S, NEW s \in Seq(S), NEW t \in Seq(S), NEW k \in 1..Len(s)
    PROVE  k \in DOMAIN (s \o t) /\ (s \o t)[k] = s[k]
  OBVIOUS

\* What Trojan answers, to its own clients and to others.
LEMMA TrojanAnswers ==
    ASSUME NEW c \in Clients, NEW len \in Nat, NEW fresh \in BOOLEAN
    PROVE  /\ Mine("Trojan", c) => OwnAnswer(Trojan(c, len, fresh), c, len, fresh)
           /\ ~Mine("Trojan", c) => OtherAnswer(Trojan(c, len, fresh), Key + 1 <= len)
<1>. DEFINE a == Field(Key, TRUE)
            b == Field(1, Mine("Trojan", c) /\ c.broken # "separator")
            d == Command(c)
            e == Field(1, c.broken # "separator")
            front == <<a, b, d>>
            host == HostFields("Socks5", c)
            tail == <<Port, e>>
            answer == Read(front \o host \o tail, len)
<1>1. answer = Trojan(c, len, fresh)
  BY DEF Trojan
<1>2. /\ a \in Fields /\ a.units = 6 /\ b \in Fields /\ b.units = 1 /\ a.ok
      /\ d \in Fields /\ d.units = 1 /\ e \in Fields /\ e.units = 1
      /\ Port \in Fields /\ Port.units = 1 /\ Port.ok
      /\ b.ok <=> Mine("Trojan", c) /\ ~Flaw(c, "separator")
      /\ d.ok <=> ~Flaw(c, "command")
      /\ e.ok <=> ~Flaw(c, "separator")
  <2>1. Mine("Trojan", c) \in BOOLEAN /\ (c.broken # "command") \in BOOLEAN
        /\ (c.broken # "separator") \in BOOLEAN /\ Key = 6
    BY DEF Mine, Known, Key
  <2>2. /\ a \in Fields /\ a.units = 6 /\ b \in Fields /\ b.units = 1 /\ a.ok
        /\ d \in Fields /\ d.units = 1 /\ e \in Fields /\ e.units = 1
        /\ Port \in Fields /\ Port.units = 1 /\ Port.ok
    BY <2>1 DEF Command, Port, Field, Fields
  <2>3. /\ b.ok <=> Mine("Trojan", c) /\ ~Flaw(c, "separator")
        /\ d.ok <=> ~Flaw(c, "command")
        /\ e.ok <=> ~Flaw(c, "separator")
    BY Zenon DEF Command, Field, Flaw
  <2>. QED
    BY <2>2, <2>3
<1>3. host \in Seq(Fields)
  BY HostFieldsType, Zenon
<1>. HIDE DEF a, b, d, e, host
<1>4. /\ front \in Seq(Fields) /\ Total(front) = 8 /\ End(front, 2) = 7
      /\ Len(front) = 3 /\ front[2] = b
      /\ Right(front) <=> Mine("Trojan", c) /\ ~Flaw(c, "separator") /\ ~Flaw(c, "command")
  BY <1>2, ThreeFields
<1>5. /\ tail \in Seq(Fields) /\ Total(tail) = 2
      /\ Right(tail) <=> ~Flaw(c, "separator")
  BY <1>2, TwoFields
<1>. HIDE DEF front, tail
<1>6. front \o host \in Seq(Fields)
  BY <1>3, <1>4, ConcatProperties
<1>7. ASSUME ~Mine("Trojan", c) PROVE OtherAnswer(answer, Key + 1 <= len)
  <2>1. 2 \in DOMAIN (front \o host) /\ (front \o host)[2] = b /\ ~b.ok
    <3>1. ~b.ok
      BY <1>2, <1>7
    <3>2. 2 \in 1..Len(front)
      BY <1>4
    <3>3. 2 \in DOMAIN (front \o host) /\ (front \o host)[2] = front[2]
      <4>1. front \in Seq(Fields) /\ host \in Seq(Fields)
        BY <1>3, <1>4
      <4>. QED
        BY <3>2, <4>1, FrontStays
    <3>. QED
      BY <1>4, <3>1, <3>2, <3>3
  <2>2. End(front \o host, 2) = 7
    <3>1. 2 \in 0..Len(front)
      BY <1>4
    <3>. QED
      BY <1>3, <1>4, <3>1, EndOfConcat
  <2>3. answer.verdict # "ok" /\ (7 <= len => answer.verdict = "rejected")
    <3>. DEFINE s == front \o host
    <3>1. s \in Seq(Fields) /\ 2 \in DOMAIN s /\ ~s[2].ok /\ End(s, 2) = 7
      BY <1>6, <2>1, <2>2
    <3>. HIDE DEF s
    <3>2. /\ Read(s \o tail, len).verdict # "ok"
          /\ 7 <= len => Read(s \o tail, len).verdict = "rejected"
      BY <1>5, <3>1, WrongDecides
    <3>. QED
      BY <3>2 DEF s
  <2>. QED
    BY <2>3 DEF OtherAnswer, Key
<1>8. ASSUME Mine("Trojan", c) PROVE OwnAnswer(answer, c, len, fresh)
  <2>1. c.protocol = "Trojan" /\ Speaks(c.protocol) = "Socks5"
        /\ HostUnits(c) \in 2..3 /\ c.host \in Slots \cup {"literal"}
    BY <1>8, ClientType DEF Mine, Speaks
  <2>2. /\ Total(host) \in Nat /\ Total(host) <= HostUnits(c)
        /\ Right(host) <=> ~FaultyHost(c)
        /\ Right(host) => Total(host) = HostUnits(c)
    BY <2>1, HostRead DEF host
  <2>3. HelloLen(c) = 10 + HostUnits(c)
    BY <2>1 DEF HelloLen
  <2>4. Timely(c, fresh) /\ Fits(c)
    BY <2>1 DEF Timely, Fits
  <2>. DEFINE all == front \o host \o tail
  <2>5. /\ all \in Seq(Fields) /\ Total(all) = 8 + Total(host) + 2
        /\ Right(all) <=> Right(front) /\ Right(host) /\ Right(tail)
    <3>1. /\ Total(front \o host) = 8 + Total(host)
          /\ Right(front \o host) <=> Right(front) /\ Right(host)
      BY <1>3, <1>4, TotalOfConcat, RightOfConcat
    <3>. DEFINE s == front \o host
    <3>2. s \in Seq(Fields) /\ Total(s) = 8 + Total(host)
          /\ (Right(s) <=> Right(front) /\ Right(host))
      BY <1>6, <3>1
    <3>. HIDE DEF s
    <3>3. /\ s \o tail \in Seq(Fields) /\ Total(s \o tail) = Total(s) + Total(tail)
          /\ Right(s \o tail) <=> Right(s) /\ Right(tail)
      BY <1>5, <3>2, TotalOfConcat, RightOfConcat
    <3>4. /\ s \o tail \in Seq(Fields) /\ Total(s \o tail) = 8 + Total(host) + 2
          /\ Right(s \o tail) <=> Right(front) /\ Right(host) /\ Right(tail)
      BY <1>5, <2>2, <3>2, <3>3
    <3>. QED
      BY <3>4 DEF s
  <2>. HIDE DEF all
  <2>6. Sound(c) <=> Right(all)
    BY <1>4, <1>5, <1>8, <2>1, <2>2, <2>5, FaultsOf
  <2>7. /\ HelloLen(c) \in Nat /\ Total(all) \in Nat /\ Total(all) <= HelloLen(c)
        /\ Right(all) => Total(all) = HelloLen(c)
    BY <2>1, <2>2, <2>3, <2>5
  <2>8. answer = Read(all, len)
    BY DEF all
  <2>. HIDE DEF answer
  <2>. QED
    BY <2>4, <2>5, <2>6, <2>7, <2>8, OwnReading
<1>. QED
  BY <1>1, <1>7, <1>8

\* The same of a header that is sealed: the outside is read from the stream, the inside from
\* what was sealed.
LEMMA SealedReading ==
    ASSUME NEW c, NEW len \in Nat, NEW fresh, NEW room \in Nat,
           NEW outer \in Seq(Fields), NEW inner \in Seq(Fields),
           HelloLen(c) \in Nat, Total(outer) = HelloLen(c),
           Sound(c) /\ Timely(c, fresh) /\ Fits(c) => Right(outer),
           Sound(c) => Right(inner) /\ Total(inner) <= room,
           Right(outer) /\ Right(inner) /\ Total(inner) <= room =>
               Sound(c) /\ Timely(c, fresh) /\ Fits(c),
           ~Flaw(c, "short") => Total(inner) <= room
    PROVE  OwnAnswer(Within(Read(outer, len), inner, room), c, len, fresh)
<1>. DEFINE out == Read(outer, len)
            in == Read(inner, room)
            answer == Within(out, inner, room)
<1>1. /\ out.verdict \in {"ok", "incomplete", "rejected"}
      /\ out.verdict = "ok" =>
           Right(outer) /\ Total(outer) <= len /\ out.header = Total(outer)
      /\ Right(outer) /\ Total(outer) <= len => out.verdict = "ok"
      /\ Right(outer) => out.verdict # "rejected"
      /\ Total(outer) <= len => out.verdict # "incomplete"
  BY Reading
<1>2. /\ in.verdict \in {"ok", "incomplete", "rejected"}
      /\ in.verdict = "ok" => Right(inner) /\ Total(inner) <= room
      /\ Right(inner) /\ Total(inner) <= room => in.verdict = "ok"
      /\ Total(inner) <= room => in.verdict # "incomplete"
  BY Reading
<1>3. answer = IF out.verdict # "ok" \/ in.verdict = "ok" THEN out ELSE in
  BY DEF Within
<1>. HIDE DEF out, in, answer
<1>4. CASE out.verdict # "ok"
  <2>1. answer = out
    BY <1>3, <1>4
  <2>. QED
    BY <1>1, <1>4, <2>1 DEF OwnAnswer, answer, out
<1>5. CASE out.verdict = "ok" /\ in.verdict = "ok"
  <2>1. answer = out
    BY <1>3, <1>5
  <2>. QED
    BY <1>1, <1>2, <1>5, <2>1 DEF OwnAnswer, answer, out
<1>6. CASE out.verdict = "ok" /\ in.verdict # "ok"
  <2>1. answer = in
    BY <1>3, <1>6
  <2>2. ~Sound(c)
    BY <1>2, <1>6
  <2>3. OwnAnswer(answer, c, len, fresh)
    BY <1>2, <1>6, <2>1, <2>2 DEF OwnAnswer
  <2>. QED
    BY <2>3 DEF answer, out
<1>. QED
  BY <1>4, <1>5, <1>6

\* A sealed header has a length.
LEMMA SealedType ==
    ASSUME NEW c \in Clients
    PROVE  SealedLen(c) \in Nat
<1>1. c.extra \in Nat /\ HostUnits(c) \in 2..3 /\ c.initial \in Nat
  BY ClientType
<1>2. \/ SealedLen(c) = 7 + HostUnits(c) + c.extra
      \/ SealedLen(c) = 7 + HostUnits(c) + c.extra - 1
      \/ SealedLen(c) = 2 + HostUnits(c) + c.initial + c.extra
      \/ SealedLen(c) = 2 + HostUnits(c) + c.initial + c.extra - 1
  BY <1>1 DEF SealedLen
<1>. QED
  BY <1>1, <1>2

\* What VMess answers, to its own clients and to others.
LEMMA VmessAnswers ==
    ASSUME NEW c \in Clients, NEW len \in Nat, NEW fresh \in BOOLEAN
    PROVE  /\ Mine("Vmess", c) => OwnAnswer(Vmess(c, len, fresh), c, len, fresh)
           /\ ~Mine("Vmess", c) => OtherAnswer(Vmess(c, len, fresh), Prefix <= len)
<1>. DEFINE opens == Mine("Vmess", c) /\ fresh /\ SealedLen(c) <= MaxSealed
            a == Field(Prefix, opens)
            b == Field(SealedLen(c) + Tag, c.broken # "seal")
            outer == <<a, b>>
            p == Field(5, c.broken # "version")
            q == Command(c)
            z == Field(c.extra, TRUE)
            front == <<p, q, Port>>
            host == HostFields("Vless", c)
            inner == front \o host \o <<z>>
            answer == Within(Read(outer, len), inner, SealedLen(c))
<1>1. answer = Vmess(c, len, fresh)
  BY DEF Vmess, VmessHeader
<1>2. /\ c.extra \in Nat /\ HostUnits(c) \in 2..3 /\ c.initial \in Nat
      /\ c.host \in Slots \cup {"literal"}
  BY ClientType
<1>3. SealedLen(c) \in Nat
  BY SealedType
<1>4. /\ a \in Fields /\ a.units = 5 /\ b \in Fields /\ b.units = SealedLen(c) + 1
      /\ p \in Fields /\ p.units = 5 /\ q \in Fields /\ q.units = 1
      /\ z \in Fields /\ z.units = c.extra /\ z.ok
      /\ Port \in Fields /\ Port.units = 1 /\ Port.ok
      /\ a.ok <=> opens
      /\ b.ok <=> ~Flaw(c, "seal")
      /\ p.ok <=> ~Flaw(c, "version")
      /\ q.ok <=> ~Flaw(c, "command")
  <2>1. /\ opens \in BOOLEAN /\ (c.broken # "command") \in BOOLEAN
        /\ (c.broken # "version") \in BOOLEAN /\ (c.broken # "seal") \in BOOLEAN
        /\ Prefix = 5 /\ Tag = 1 /\ SealedLen(c) + 1 \in Nat
    BY <1>3 DEF Prefix, Tag
  <2>2. a \in Fields /\ a.units = 5 /\ b \in Fields /\ b.units = SealedLen(c) + 1
    <3>. HIDE DEF opens
    <3>. QED
      BY <2>1 DEF Field, Fields
  <2>3. /\ p \in Fields /\ p.units = 5 /\ q \in Fields /\ q.units = 1
        /\ z \in Fields /\ z.units = c.extra /\ z.ok
        /\ Port \in Fields /\ Port.units = 1 /\ Port.ok
    BY <1>2, <2>1 DEF Command, Port, Field, Fields
  <2>4. /\ a.ok <=> opens
        /\ b.ok <=> ~Flaw(c, "seal")
        /\ p.ok <=> ~Flaw(c, "version")
        /\ q.ok <=> ~Flaw(c, "command")
    BY Zenon DEF Command, Field, Flaw
  <2>. QED
    BY <2>2, <2>3, <2>4
<1>5. host \in Seq(Fields)
  BY HostFieldsType, Zenon
<1>. HIDE DEF a, b, p, q, z, host
<1>6. /\ outer \in Seq(Fields) /\ Total(outer) = SealedLen(c) + 6 /\ End(outer, 1) = 5
      /\ 1 \in DOMAIN outer /\ outer[1] = a
      /\ Right(outer) <=> opens /\ ~Flaw(c, "seal")
  <2>1. /\ outer \in Seq(Fields) /\ Total(outer) = a.units + b.units /\ End(outer, 1) = a.units
        /\ Len(outer) = 2 /\ outer[1] = a
        /\ Right(outer) <=> a.ok /\ b.ok
    BY <1>4, TwoFields
  <2>. HIDE DEF outer, opens
  <2>. QED
    BY <1>3, <1>4, <2>1
<1>7. /\ front \in Seq(Fields) /\ Total(front) = 7
      /\ Right(front) <=> ~Flaw(c, "version") /\ ~Flaw(c, "command")
  BY <1>4, ThreeFields
<1>8. <<z>> \in Seq(Fields) /\ Total(<<z>>) = c.extra /\ Right(<<z>>)
  BY <1>4, OneField
<1>. HIDE DEF outer, front
<1>9. /\ inner \in Seq(Fields) /\ Total(inner) = 7 + Total(host) + c.extra
      /\ Right(inner) <=> Right(front) /\ Right(host)
  <2>. DEFINE s == front \o host
  <2>1. s \in Seq(Fields) /\ Total(s) = 7 + Total(host) /\ (Right(s) <=> Right(front) /\ Right(host))
    BY <1>5, <1>7, TotalOfConcat, RightOfConcat
  <2>. HIDE DEF s
  <2>2. /\ s \o <<z>> \in Seq(Fields) /\ Total(s \o <<z>>) = Total(s) + c.extra
        /\ Right(s \o <<z>>) <=> Right(s)
    BY <1>8, <2>1, TotalOfConcat, RightOfConcat
  <2>3. /\ s \o <<z>> \in Seq(Fields) /\ Total(s \o <<z>>) = 7 + Total(host) + c.extra
        /\ Right(s \o <<z>>) <=> Right(front) /\ Right(host)
    BY <2>1, <2>2
  <2>. QED
    BY <2>3 DEF s
<1>. HIDE DEF inner
<1>10. ASSUME ~Mine("Vmess", c) PROVE OtherAnswer(answer, Prefix <= len)
  <2>1. ~outer[1].ok /\ outer[1] = a
    BY <1>4, <1>6, <1>10
  <2>2. /\ Read(outer, len).verdict # "ok"
        /\ 5 <= len => Read(outer, len).verdict = "rejected"
    <3>1. Read(outer, len).verdict = "ok" => outer[1].ok
      BY <1>6, Reading DEF Right
    <3>2. ~outer[1].ok /\ End(outer, 1) <= len => Read(outer, len).verdict = "rejected"
      BY <1>6, Reading
    <3>. QED
      BY <1>6, <2>1, <3>1, <3>2
  <2>3. answer = Read(outer, len)
    BY <2>2 DEF Within
  <2>. QED
    BY <2>2, <2>3 DEF OtherAnswer, Prefix
<1>11. ASSUME Mine("Vmess", c) PROVE OwnAnswer(answer, c, len, fresh)
  <2>1. c.protocol = "Vmess" /\ Speaks(c.protocol) = "Vless"
    BY <1>11 DEF Mine, Speaks
  <2>2. /\ Total(host) \in Nat /\ Total(host) <= HostUnits(c)
        /\ Right(host) <=> ~FaultyHost(c)
        /\ Right(host) => Total(host) = HostUnits(c)
    BY <1>2, <2>1, HostRead DEF host
  <2>3. SealedLen(c) = 7 + HostUnits(c) + c.extra - (IF Flaw(c, "short") THEN 1 ELSE 0)
    BY <2>1 DEF SealedLen, Flaw
  <2>4. HelloLen(c) = 5 + SealedLen(c) + 1
    BY <2>1 DEF HelloLen, Prefix, Tag
  <2>5. /\ Timely(c, fresh) <=> fresh
        /\ Fits(c) <=> SealedLen(c) <= MaxSealed
    BY <2>1 DEF Timely, Fits
  <2>6. Sound(c) <=> ~FaultyHost(c) /\ ~Flaw(c, "command") /\ ~Flaw(c, "seal")
                     /\ ~Flaw(c, "version") /\ ~Flaw(c, "short")
    BY <2>1, FaultsOf
  <2>7. opens <=> Timely(c, fresh) /\ Fits(c)
    BY <1>11, <2>5
  <2>. HIDE DEF opens, answer
  <2>8. HelloLen(c) \in Nat /\ Total(outer) = HelloLen(c)
    BY <1>3, <1>6, <2>4
  <2>9. Sound(c) /\ Timely(c, fresh) /\ Fits(c) => Right(outer)
    BY <1>6, <2>6, <2>7
  <2>10. Sound(c) => Right(inner) /\ Total(inner) <= SealedLen(c)
    BY <1>2, <1>7, <1>9, <2>2, <2>3, <2>6
  <2>11. Right(outer) /\ Right(inner) /\ Total(inner) <= SealedLen(c) =>
           Sound(c) /\ Timely(c, fresh) /\ Fits(c)
    <3>. SUFFICES ASSUME Right(outer), Right(inner), Total(inner) <= SealedLen(c)
                  PROVE  Sound(c) /\ Timely(c, fresh) /\ Fits(c)
      OBVIOUS
    <3>1. ~FaultyHost(c) /\ Total(inner) = 7 + HostUnits(c) + c.extra
      BY <1>9, <2>2
    <3>2. ~Flaw(c, "short")
      BY <1>2, <2>3, <3>1
    <3>. QED
      BY <1>6, <1>7, <1>9, <2>6, <2>7, <3>1, <3>2
  <2>12. ~Flaw(c, "short") => Total(inner) <= SealedLen(c)
    BY <1>2, <1>9, <2>2, <2>3
  <2>13. OwnAnswer(Within(Read(outer, len), inner, SealedLen(c)), c, len, fresh)
    BY <1>3, <1>6, <1>9, <2>8, <2>9, <2>10, <2>11, <2>12, SealedReading
  <2>. QED
    BY <2>13 DEF answer
<1>. QED
  BY <1>1, <1>10, <1>11

-----------------------------------------------------------------------------
(* Shadowsocks: one answer for each credential.                            *)

\* An entry of the Shadowsocks list has a key whose length is known.
LEMMA CredentialType ==
    ASSUME NEW i \in Positions("Shadowsocks")
    PROVE  /\ i \in Nat
           /\ UserLists.Shadowsocks[i] \in Credentials("Shadowsocks")
           /\ KeyLen[UserLists.Shadowsocks[i].method] \in {2, 4}
           /\ UserLists.Shadowsocks[i].name \in STRING
<1>1. "Shadowsocks" \in Range(Kinds)
  BY DEF Range, Kinds
<1>2. UserLists["Shadowsocks"] \in Seq([name : STRING, method : STRING, key : Nat])
  BY <1>1, DetectionAssumption
<1>3. i \in DOMAIN UserLists["Shadowsocks"] /\ Usable("Shadowsocks", UserLists["Shadowsocks"][i])
  BY DEF Positions
<1>4. i \in Nat /\ UserLists["Shadowsocks"][i].name \in STRING
  <2>. DEFINE list == UserLists["Shadowsocks"]
  <2>. DEFINE entries == [name : STRING, method : STRING, key : Nat]
  <2>1. list \in Seq(entries) /\ i \in DOMAIN list
    BY <1>2, <1>3
  <2>. HIDE DEF list, entries
  <2>2. i \in Nat /\ list[i] \in entries
    BY <2>1
  <2>3. i \in Nat /\ list[i].name \in STRING
    BY <2>2 DEF entries
  <2>. QED
    BY <2>3 DEF list
<1>5. UserLists["Shadowsocks"][i].method \in DOMAIN KeyLen
  BY <1>3 DEF Usable
<1>6. \A m \in DOMAIN KeyLen : KeyLen[m] \in {2, 4}
  BY DEF KeyLen
<1>. QED
  BY <1>3, <1>4, <1>5, <1>6 DEF Credentials

\* The salt of a client is as long as the key of its one method.
LEMMA SaltOf ==
    ASSUME NEW c \in Clients, NEW entry \in Credentials("Shadowsocks"), entry.name = c.user
    PROVE  SaltLen(c) = KeyLen[entry.method] /\ KeyLen[entry.method] \in {2, 4}
<1>. DEFINE mine == {e \in Credentials("Shadowsocks") : e.name = c.user}
            lengths == {2} \cup {KeyLen[e.method] : e \in mine}
<1>1. mine = {entry}
  BY SecretAssumption
<1>2. KeyLen[entry.method] \in {2, 4}
  BY CredentialType DEF Credentials
<1>3. lengths = {2, KeyLen[entry.method]}
  BY <1>1
<1>4. SaltLen(c) = Max(lengths)
  BY DEF SaltLen
<1>. HIDE DEF lengths
<1>5. Max(lengths) \in lengths /\ \A y \in lengths : y <= Max(lengths)
  BY <1>2, <1>3, MaxIsMember, 4 \in Nat
<1>. QED
  BY <1>2, <1>3, <1>4, <1>5

\* A credential that is not the client's says so as soon as it has seen enough.
LEMMA OtherCredential ==
    ASSUME NEW c \in Clients, NEW len \in Nat, NEW fresh, NEW entry,
           c.protocol # "Shadowsocks" \/ c.user # entry.name
    PROVE  WithCredential(c, len, fresh, entry).verdict =
             IF len < KeyLen[entry.method] + Fixed THEN "incomplete" ELSE "not mine"
  BY DEF WithCredential, Verdict

\* The client's own says what a parser of its protocol does.
LEMMA OwnCredential ==
    ASSUME NEW c \in Clients, NEW len \in Nat, NEW fresh \in BOOLEAN,
           NEW entry \in Credentials("Shadowsocks"),
           c.protocol = "Shadowsocks", c.user = entry.name
    PROVE  OwnAnswer(WithCredential(c, len, fresh, entry), c, len, fresh)
<1>. DEFINE salt == KeyLen[entry.method]
            opens == fresh /\ c.broken # "version"
            a == Field(salt + Fixed, opens)
            b == Field(SealedLen(c) + Tag, c.broken # "seal")
            outer == <<a, b>>
            z == Field(1 + c.extra, TRUE)
            tail == <<Port, z>>
            host == HostFields("Socks5", c)
            inner == host \o tail
            answer == WithCredential(c, len, fresh, entry)
<1>1. /\ c.extra \in Nat /\ HostUnits(c) \in 2..3 /\ c.initial \in Nat
      /\ c.host \in Slots \cup {"literal"} /\ Speaks(c.protocol) = "Socks5"
  BY ClientType DEF Speaks
<1>2. SealedLen(c) = 2 + HostUnits(c) + c.initial + c.extra
                       - (IF Flaw(c, "short") THEN 1 ELSE 0)
  BY DEF SealedLen, Flaw
<1>3. SealedLen(c) \in Nat /\ salt \in {2, 4} /\ SaltLen(c) = salt
  BY <1>1, <1>2, SaltOf
<1>4. HelloLen(c) = salt + 4 + SealedLen(c) + 1 /\ HelloLen(c) \in Nat
  BY <1>3 DEF HelloLen, Fixed, Tag
<1>. HIDE DEF salt
<1>5. /\ a \in Fields /\ a.units = salt + 4 /\ b \in Fields /\ b.units = SealedLen(c) + 1
      /\ z \in Fields /\ z.units = 1 + c.extra /\ z.ok
      /\ Port \in Fields /\ Port.units = 1 /\ Port.ok
      /\ a.ok <=> fresh /\ ~Flaw(c, "version")
      /\ b.ok <=> ~Flaw(c, "seal")
  <2>1. /\ opens \in BOOLEAN /\ (c.broken # "seal") \in BOOLEAN
        /\ Fixed = 4 /\ Tag = 1 /\ SealedLen(c) + 1 \in Nat /\ salt + 4 \in Nat
    BY <1>3 DEF Fixed, Tag
  <2>2. a \in Fields /\ a.units = salt + 4 /\ b \in Fields /\ b.units = SealedLen(c) + 1
    <3>. HIDE DEF opens
    <3>. QED
      BY <2>1 DEF Field, Fields
  <2>3. /\ z \in Fields /\ z.units = 1 + c.extra /\ z.ok
        /\ Port \in Fields /\ Port.units = 1 /\ Port.ok
    BY <1>1, <2>1 DEF Port, Field, Fields
  <2>4. /\ a.ok <=> fresh /\ ~Flaw(c, "version")
        /\ b.ok <=> ~Flaw(c, "seal")
    BY Zenon DEF Field, Flaw
  <2>. QED
    BY <2>2, <2>3, <2>4
<1>6. host \in Seq(Fields)
  BY HostFieldsType, Zenon
<1>7. answer = IF len < salt + 4 THEN Verdict("incomplete", 0)
               ELSE Within(Read(outer, len), inner, SealedLen(c))
  BY DEF WithCredential, salt, Fixed
<1>. HIDE DEF a, b, z, host, answer
<1>8. /\ outer \in Seq(Fields) /\ Total(outer) = HelloLen(c)
      /\ Right(outer) <=> fresh /\ ~Flaw(c, "version") /\ ~Flaw(c, "seal")
  <2>1. /\ outer \in Seq(Fields) /\ Total(outer) = a.units + b.units
        /\ Right(outer) <=> a.ok /\ b.ok
    BY <1>5, TwoFields
  <2>. HIDE DEF outer
  <2>. QED
    BY <1>3, <1>4, <1>5, <2>1
<1>9. tail \in Seq(Fields) /\ Total(tail) = 2 + c.extra /\ Right(tail)
  <2>1. tail \in Seq(Fields) /\ Total(tail) = Port.units + z.units /\ Right(tail)
    BY <1>5, TwoFields
  <2>. QED
    BY <1>1, <1>5, <2>1
<1>. HIDE DEF outer, tail
<1>10. /\ inner \in Seq(Fields) /\ Total(inner) = Total(host) + 2 + c.extra
       /\ Right(inner) <=> Right(host)
  <2>1. /\ inner \in Seq(Fields) /\ Total(inner) = Total(host) + Total(tail)
        /\ Total(host) \in Nat
        /\ Right(inner) <=> Right(host) /\ Right(tail)
    BY <1>6, <1>9, TotalOfConcat, RightOfConcat
  <2>2. Total(inner) = Total(host) + 2 + c.extra
    <3>1. c.extra \in Nat /\ Total(tail) = 2 + c.extra /\ Total(host) \in Nat
          /\ Total(inner) = Total(host) + Total(tail)
      BY <1>1, <1>9, <2>1
    <3>. QED
      BY <3>1
  <2>3. Right(inner) <=> Right(host)
    BY <1>9, <2>1
  <2>. QED
    BY <2>1, <2>2, <2>3
<1>. HIDE DEF inner
<1>11. /\ Total(host) \in Nat /\ Total(host) <= HostUnits(c)
       /\ Right(host) <=> ~FaultyHost(c)
       /\ Right(host) => Total(host) = HostUnits(c)
  BY <1>1, HostRead DEF host
<1>12. Fits(c) /\ (Timely(c, fresh) <=> fresh)
  BY DEF Fits, Timely
<1>13. /\ Sound(c) <=> ~FaultyHost(c) /\ ~Flaw(c, "seal")
                       /\ ~Flaw(c, "version") /\ ~Flaw(c, "short")
       /\ Flaw(c, "short") => c.initial = 0
  <2>1. c.broken = "short" => c.initial = 0
    BY FaultsOf DEF Flaw
  <2>. QED
    BY <2>1, FaultsOf DEF Flaw
<1>14. OwnAnswer(Within(Read(outer, len), inner, SealedLen(c)), c, len, fresh)
  <2>1. Sound(c) /\ Timely(c, fresh) /\ Fits(c) => Right(outer)
    BY <1>8, <1>12, <1>13
  <2>2. Sound(c) => Right(inner) /\ Total(inner) <= SealedLen(c)
    BY <1>1, <1>2, <1>10, <1>11, <1>13
  <2>3. Right(outer) /\ Right(inner) /\ Total(inner) <= SealedLen(c) =>
           Sound(c) /\ Timely(c, fresh) /\ Fits(c)
    <3>. SUFFICES ASSUME Right(outer), Right(inner), Total(inner) <= SealedLen(c)
                  PROVE  Sound(c) /\ Timely(c, fresh) /\ Fits(c)
      OBVIOUS
    <3>1. ~FaultyHost(c) /\ Total(inner) = HostUnits(c) + 2 + c.extra
      BY <1>10, <1>11
    <3>2. ~Flaw(c, "short")
      BY <1>1, <1>2, <1>13, <3>1
    <3>. QED
      BY <1>8, <1>12, <1>13, <3>1, <3>2
  <2>4. ~Flaw(c, "short") => Total(inner) <= SealedLen(c)
    BY <1>1, <1>2, <1>10, <1>11
  <2>. QED
    BY <1>3, <1>4, <1>8, <1>10, <2>1, <2>2, <2>3, <2>4, SealedReading
<1>15. CASE len < salt + 4
  <2>1. answer.verdict = "incomplete" /\ ~(HelloLen(c) <= len)
    <3>1. answer = Verdict("incomplete", 0)
      BY <1>7, <1>15
    <3>2. answer.verdict = "incomplete"
      BY <3>1 DEF Verdict
    <3>3. ~(HelloLen(c) <= len)
      BY <1>3, <1>4, <1>15
    <3>. QED
      BY <3>2, <3>3
  <2>2. OwnAnswer(answer, c, len, fresh)
    BY <2>1 DEF OwnAnswer
  <2>. QED
    BY <2>2 DEF answer
<1>16. CASE ~(len < salt + 4)
  <2>1. answer = Within(Read(outer, len), inner, SealedLen(c))
    BY <1>7, <1>16
  <2>. QED
    BY <1>14, <2>1 DEF answer
<1>. QED
  BY <1>15, <1>16

\* What Shadowsocks answers, to its own clients and to others, with any number of keys.
LEMMA ShadowsocksAnswers ==
    ASSUME NEW c \in Clients, NEW len \in Nat, NEW fresh \in BOOLEAN
    PROVE  /\ Mine("Shadowsocks", c) => OwnAnswer(Shadowsocks(c, len, fresh), c, len, fresh)
           /\ ~Mine("Shadowsocks", c) =>
                OtherAnswer(Shadowsocks(c, len, fresh),
                            \A e \in Credentials("Shadowsocks") : KeyLen[e.method] + Fixed <= len)
<1>. DEFINE table == Positions("Shadowsocks")
            entry(i) == UserLists.Shadowsocks[i]
            answer(i) == WithCredential(c, len, fresh, entry(i))
            decided == {i \in table : answer(i).verdict \in {"ok", "rejected"}}
            waits == \E i \in table : answer(i).verdict = "incomplete"
            verdict == Shadowsocks(c, len, fresh)
<1>1. /\ decided # {} => verdict = answer(Min(decided))
      /\ decided = {} => verdict = Verdict(IF waits THEN "incomplete" ELSE "rejected", 0)
  BY DEF Shadowsocks
<1>2. decided # {} => Min(decided) \in decided
  <2>1. decided \in SUBSET Nat
    BY CredentialType
  <2>. HIDE DEF decided
  <2>. QED
    BY <2>1, MinIsMember
<1>3. \A i \in table : entry(i) \in Credentials("Shadowsocks") /\ KeyLen[entry(i).method] \in {2, 4}
  BY CredentialType
<1>4. ASSUME NEW i \in table, c.protocol # "Shadowsocks" \/ c.user # entry(i).name
      PROVE  /\ answer(i).verdict \in {"incomplete", "not mine"}
             /\ answer(i).verdict = "incomplete" => ~(KeyLen[entry(i).method] + Fixed <= len)
  <2>1. answer(i).verdict = IF len < KeyLen[entry(i).method] + Fixed
                            THEN "incomplete" ELSE "not mine"
    BY <1>4, OtherCredential
  <2>2. KeyLen[entry(i).method] + Fixed \in Nat
    BY <1>3 DEF Fixed
  <2>. HIDE DEF answer, entry
  <2>3. CASE len < KeyLen[entry(i).method] + Fixed
    <3>1. answer(i).verdict = "incomplete"
      BY <2>1, <2>3
    <3>2. ~(KeyLen[entry(i).method] + Fixed <= len)
      BY <2>2, <2>3
    <3>. QED
      BY <3>1, <3>2
  <2>4. CASE ~(len < KeyLen[entry(i).method] + Fixed)
    <3>1. answer(i).verdict = "not mine"
      BY <2>1, <2>4
    <3>. QED
      BY <3>1
  <2>. QED
    BY <2>3, <2>4
<1>5. ASSUME ~Mine("Shadowsocks", c)
      PROVE  OtherAnswer(verdict, \A e \in Credentials("Shadowsocks") : KeyLen[e.method] + Fixed <= len)
  <2>1. \A i \in table : c.protocol # "Shadowsocks" \/ c.user # entry(i).name
    BY <1>3, <1>5 DEF Mine, Known
  <2>2. decided = {}
    <3>1. \A i \in table : answer(i).verdict \in {"incomplete", "not mine"}
      BY <1>4, <2>1
    <3>2. {"incomplete", "not mine"} \cap {"ok", "rejected"} = {}
      OBVIOUS
    <3>. HIDE DEF answer, table
    <3>. QED
      BY <3>1, <3>2
  <2>3. verdict = Verdict(IF waits THEN "incomplete" ELSE "rejected", 0)
    BY <1>1, <2>2
  <2>4. (\A e \in Credentials("Shadowsocks") : KeyLen[e.method] + Fixed <= len) => ~waits
    BY <1>3, <1>4, <2>1
  <2>. HIDE DEF waits, verdict
  <2>5. verdict.verdict = IF waits THEN "incomplete" ELSE "rejected"
    BY <2>3 DEF Verdict
  <2>6. OtherAnswer(verdict, \A e \in Credentials("Shadowsocks") : KeyLen[e.method] + Fixed <= len)
    BY <2>4, <2>5 DEF OtherAnswer
  <2>. QED
    BY <2>6
<1>6. ASSUME Mine("Shadowsocks", c)
      PROVE  OwnAnswer(verdict, c, len, fresh)
  <2>1. PICK own \in table : entry(own).name = c.user
    BY <1>6 DEF Mine, Known, Credentials
  <2>2. c.protocol = "Shadowsocks"
    BY <1>6 DEF Mine
  <2>3. OwnAnswer(answer(own), c, len, fresh)
    BY <1>3, <2>1, <2>2, OwnCredential
  <2>4. \A i \in table : entry(i).name = c.user => answer(i) = answer(own)
    <3>. TAKE i \in table
    <3>1. entry(i).name = c.user => entry(i) = entry(own)
      BY <1>3, <2>1, SecretAssumption
    <3>. QED
      BY <3>1
  <2>5. \A i \in table : entry(i).name # c.user => answer(i).verdict \notin {"ok", "rejected"}
    <3>. TAKE i \in table
    <3>1. entry(i).name # c.user => answer(i).verdict \in {"incomplete", "not mine"}
      BY <1>4
    <3>2. {"incomplete", "not mine"} \cap {"ok", "rejected"} = {}
      OBVIOUS
    <3>. HIDE DEF answer
    <3>. QED
      BY <3>1, <3>2
  <2>. HIDE DEF answer, entry
  <2>6. answer(own).verdict \in {"ok", "incomplete", "rejected"}
    BY <2>3 DEF OwnAnswer
  <2>7. CASE answer(own).verdict \in {"ok", "rejected"}
    <3>1. own \in decided
      BY <2>7
    <3>2. Min(decided) \in decided /\ verdict = answer(Min(decided))
      BY <1>1, <1>2, <3>1
    <3>3. Min(decided) \in table /\ entry(Min(decided)).name = c.user
      BY <2>5, <3>2
    <3>4. answer(Min(decided)) = answer(own)
      BY <2>4, <3>3
    <3>. HIDE DEF verdict
    <3>5. verdict = answer(own)
      BY <3>2, <3>4
    <3>. QED
      BY <2>3, <3>5
  <2>8. CASE answer(own).verdict = "incomplete"
    <3>1. decided = {}
      <4>1. \A i \in table : answer(i).verdict \notin {"ok", "rejected"}
        <5>. TAKE i \in table
        <5>1. CASE entry(i).name = c.user
          <6>1. answer(i).verdict = "incomplete"
            BY <2>4, <2>8, <5>1
          <6>. QED
            BY <6>1
        <5>2. CASE entry(i).name # c.user
          BY <2>5, <5>2
        <5>. QED
          BY <5>1, <5>2
      <4>. QED
        BY <4>1
    <3>2. waits
      BY <2>1, <2>8
    <3>3. verdict = Verdict("incomplete", 0)
      BY <1>1, <3>1, <3>2
    <3>. HIDE DEF verdict
    <3>4. verdict.verdict = "incomplete"
      BY <3>3 DEF Verdict
    <3>5. OwnAnswer(verdict, c, len, fresh)
      BY <2>3, <2>8, <3>4 DEF OwnAnswer
    <3>. QED
      BY <3>5
  <2>. QED
    BY <2>6, <2>7, <2>8
<1>. QED
  BY <1>5, <1>6
-----------------------------------------------------------------------------
(* The detector.                                                           *)

\* When each parser has seen enough to tell a stranger.
Enough(kind, len) ==
    CASE kind = "Vless"  -> 1 + Uuid <= len
      [] kind = "Trojan" -> Key + 1 <= len
      [] kind = "Vmess"  -> Prefix <= len
      [] OTHER -> \A e \in Credentials("Shadowsocks") : KeyLen[e.method] + Fixed <= len

\* The same of every parser.
LEMMA ParserAnswers ==
    ASSUME NEW c \in Clients, NEW len \in Nat, NEW fresh \in BOOLEAN, NEW i \in DOMAIN Kinds
    PROVE  /\ Mine(Kinds[i], c) => OwnAnswer(Parse(Kinds[i], c, len, fresh), c, len, fresh)
           /\ ~Mine(Kinds[i], c) => OtherAnswer(Parse(Kinds[i], c, len, fresh), Enough(Kinds[i], len))
<1>1. Kinds[i] \in {"Vless", "Trojan", "Vmess", "Shadowsocks"}
  BY DEF Kinds
<1>2. CASE Kinds[i] = "Vless"
  BY <1>2, VlessAnswers DEF Parse, Enough
<1>3. CASE Kinds[i] = "Trojan"
  BY <1>3, TrojanAnswers DEF Parse, Enough
<1>4. CASE Kinds[i] = "Vmess"
  BY <1>4, VmessAnswers DEF Parse, Enough
<1>5. CASE Kinds[i] = "Shadowsocks"
  BY <1>5, ShadowsocksAnswers DEF Parse, Enough
<1>. QED
  BY <1>1, <1>2, <1>3, <1>4, <1>5

\* Longest is where every parser that is enabled has seen enough.
LEMMA LongestIsEnough ==
    /\ Longest \in 1..8
    /\ \A kind \in Enabled, len \in Nat : Longest <= len => Enough(kind, len)
<1>. DEFINE vless == IF "Vless" \in Enabled THEN {1 + Uuid} ELSE {}
            trojan == IF "Trojan" \in Enabled THEN {Key + 1} ELSE {}
            vmess == IF "Vmess" \in Enabled THEN {Prefix} ELSE {}
            keyed == {KeyLen[entry.method] + Fixed : entry \in Credentials("Shadowsocks")}
            shadow == IF "Shadowsocks" \in Enabled THEN keyed ELSE {}
            all == {1} \cup vless \cup trojan \cup vmess \cup shadow
<1>1. Longest = Max(all)
  BY DEF Longest
<1>2. \A e \in Credentials("Shadowsocks") : KeyLen[e.method] \in {2, 4}
  BY CredentialType DEF Credentials
<1>3. all \in SUBSET (1..8) /\ 1 \in all
  <2>1. keyed \in SUBSET (1..8)
    BY <1>2 DEF Fixed
  <2>2. vless \in SUBSET (1..8) /\ trojan \in SUBSET (1..8) /\ vmess \in SUBSET (1..8)
    BY DEF Uuid, Key, Prefix
  <2>. HIDE DEF keyed, vless, trojan, vmess
  <2>. QED
    BY <2>1, <2>2
<1>4. Longest \in all /\ \A y \in all : y <= Longest
  <2>. HIDE DEF all
  <2>1. all \in SUBSET Nat /\ all # {} /\ 8 \in Nat /\ \A x \in all : x <= 8
    BY <1>3
  <2>. QED
    BY <1>1, <2>1, MaxIsMember
<1>5. Longest \in 1..8
  <2>. HIDE DEF all
  <2>. QED
    BY <1>3, <1>4
<1>6. ASSUME NEW kind \in Enabled, NEW len \in Nat, Longest <= len
      PROVE  Enough(kind, len)
  <2>1. CASE kind = "Vless"
    <3>1. 1 + Uuid <= Longest
      BY <1>4, <2>1
    <3>. QED
      BY <1>5, <1>6, <2>1, <3>1 DEF Enough, Uuid
  <2>2. CASE kind = "Trojan"
    <3>1. Key + 1 <= Longest
      BY <1>4, <2>2
    <3>. QED
      BY <1>5, <1>6, <2>2, <3>1 DEF Enough, Key
  <2>3. CASE kind = "Vmess"
    <3>1. Prefix <= Longest
      BY <1>4, <2>3
    <3>. QED
      BY <1>5, <1>6, <2>3, <3>1 DEF Enough, Prefix
  <2>4. CASE kind = "Shadowsocks"
    <3>1. \A e \in Credentials("Shadowsocks") : KeyLen[e.method] + Fixed <= Longest
      BY <1>4, <2>4
    <3>2. \A e \in Credentials("Shadowsocks") : KeyLen[e.method] + Fixed <= len
      BY <1>2, <1>5, <1>6, <3>1 DEF Fixed
    <3>. QED
      BY <2>4, <3>2 DEF Enough
  <2>5. kind \in {"Vless", "Trojan", "Vmess", "Shadowsocks"}
    BY KindsRange DEF Enabled
  <2>. QED
    BY <2>1, <2>2, <2>3, <2>4, <2>5
<1>. QED
  BY <1>5, <1>6

\* A header is not empty, and a sealed one fills at least the fixed part.
LEMMA HelloType ==
    ASSUME NEW c \in Clients
    PROVE  /\ HelloLen(c) \in Nat \ {0}
           /\ c.protocol \in {"Vmess", "Shadowsocks"} => HelloLen(c) >= 8
<1>1. /\ c.extra \in Nat /\ HostUnits(c) \in 2..3 /\ c.initial \in Nat
  BY ClientType
<1>2. SealedLen(c) \in Nat /\ (c.protocol = "Vmess" => SealedLen(c) >= 8)
      /\ (c.protocol # "Vmess" => SealedLen(c) >= 3)
  <2>1. CASE c.protocol = "Vmess"
    <3>1. \/ SealedLen(c) = 7 + HostUnits(c) + c.extra
          \/ SealedLen(c) = 7 + HostUnits(c) + c.extra - 1
      BY <1>1, <2>1 DEF SealedLen
    <3>. QED
      BY <1>1, <2>1, <3>1
  <2>2. CASE c.protocol # "Vmess"
    <3>1. \/ SealedLen(c) = 2 + HostUnits(c) + c.initial + c.extra
          \/ SealedLen(c) = 2 + HostUnits(c) + c.initial + c.extra - 1
      BY <1>1, <2>2 DEF SealedLen
    <3>. QED
      BY <1>1, <2>2, <3>1
  <2>. QED
    BY <2>1, <2>2
<1>3. SaltLen(c) \in {2, 4}
  <2>. DEFINE lengths == {2} \cup {KeyLen[entry.method] :
                             entry \in {e \in Credentials("Shadowsocks") : e.name = c.user}}
  <2>1. \A e \in Credentials("Shadowsocks") : KeyLen[e.method] \in {2, 4}
    BY CredentialType DEF Credentials
  <2>2. lengths \in SUBSET {2, 4} /\ 2 \in lengths /\ SaltLen(c) = Max(lengths)
    BY <2>1 DEF SaltLen
  <2>. HIDE DEF lengths
  <2>3. Max(lengths) \in lengths
    <3>1. lengths \in SUBSET Nat /\ lengths # {} /\ 4 \in Nat /\ \A x \in lengths : x <= 4
      BY <2>2
    <3>. QED
      BY <3>1, MaxIsMember
  <2>. QED
    BY <2>2, <2>3
<1>4. CASE c.protocol = "Vless"
  <2>1. HelloLen(c) = 5 + c.extra + (IF c.command = "mux" THEN 0 ELSE 1 + HostUnits(c))
    BY <1>4 DEF HelloLen
  <2>. QED
    BY <1>1, <1>4, <2>1
<1>5. CASE c.protocol = "Trojan"
  BY <1>1, <1>5 DEF HelloLen
<1>6. CASE c.protocol = "Vmess"
  <2>1. HelloLen(c) = 5 + SealedLen(c) + 1
    BY <1>6 DEF HelloLen, Prefix, Tag
  <2>. QED
    BY <1>2, <1>6, <2>1
<1>7. CASE c.protocol = "Shadowsocks"
  <2>1. HelloLen(c) = SaltLen(c) + 4 + SealedLen(c) + 1
    BY <1>7 DEF HelloLen, Fixed, Tag
  <2>. QED
    BY <1>2, <1>3, <1>7, <2>1
<1>. QED
  BY <1>4, <1>5, <1>6, <1>7, ClientType

\* The detector says what the parser of the client's own protocol says, and waits for the others.
LEMMA Detected ==
    ASSUME NEW c \in Clients, NEW len \in Nat, NEW fresh \in BOOLEAN
    PROVE  LET answer == Detect(c, len, fresh)
               sound == Known(c.protocol, c.user) /\ Sound(c)
               asked == Timely(c, fresh) /\ Fits(c)
           IN  /\ answer.verdict \in {"ok", "incomplete", "rejected"}
               /\ answer.verdict = "ok" =>
                    sound /\ asked /\ HelloLen(c) <= len
                    /\ answer = Request(c.protocol, HelloLen(c), c)
               /\ sound /\ asked => answer.verdict # "rejected"
               /\ sound /\ asked /\ HelloLen(c) <= len => answer.verdict = "ok"
               /\ answer.verdict = "incomplete" =>
                    /\ Longest <= len => Known(c.protocol, c.user)
                    /\ Longest <= len /\ ~Flaw(c, "short") => ~(HelloLen(c) <= len)
<1>. DEFINE says(verdict) == Says(verdict, c, len, fresh)
            parse(i) == Parse(Kinds[i], c, len, fresh)
            answer == Detect(c, len, fresh)
            known == Known(c.protocol, c.user)
            asked == Timely(c, fresh) /\ Fits(c)
<1>0. PICK own \in DOMAIN Kinds : Kinds[own] = c.protocol
  <2>1. c.protocol \in Range(Kinds)
    BY ClientAssumption
  <2>. QED
    BY <2>1 DEF Range
<1>1. \A i \in DOMAIN Kinds : Kinds[i] = c.protocol => i = own
  BY <1>0 DEF Kinds
<1>2. \A i \in DOMAIN Kinds : Mine(Kinds[i], c) <=> i = own /\ known
  BY <1>0, <1>1 DEF Mine
<1>3. \A i \in DOMAIN Kinds :
        /\ i = own /\ known => OwnAnswer(parse(i), c, len, fresh)
        /\ ~(i = own /\ known) => OtherAnswer(parse(i), Enough(Kinds[i], len))
  <2>. TAKE i \in DOMAIN Kinds
  <2>1. /\ Mine(Kinds[i], c) => OwnAnswer(parse(i), c, len, fresh)
        /\ ~Mine(Kinds[i], c) => OtherAnswer(parse(i), Enough(Kinds[i], len))
    BY ParserAnswers
  <2>. HIDE DEF parse, known
  <2>. QED
    BY <1>2, <2>1
<1>4. \A verdict : says(verdict) = {i \in DOMAIN Kinds : Kinds[i] \in Enabled /\ parse(i).verdict = verdict}
  BY DEF Says
<1>5. known => c.protocol \in Enabled
  <2>1. c.protocol \in Range(Kinds)
    BY ClientAssumption
  <2>. QED
    BY <2>1 DEF Known, Enabled
<1>6. answer = IF says("ok") # {}
               THEN Request(Kinds[Min(says("ok"))], parse(Min(says("ok"))).header, c)
               ELSE Verdict(IF says("incomplete") # {} THEN "incomplete" ELSE "rejected", 0)
  BY DEF Detect
<1>. HIDE DEF says, parse, answer
<1>7. says("ok") # {} => says("ok") = {own} /\ known /\ parse(own).verdict = "ok"
  <2>1. \A i \in says("ok") : i = own /\ known
    <3>. TAKE i \in says("ok")
    <3>1. i \in DOMAIN Kinds /\ parse(i).verdict = "ok"
      BY <1>4
    <3>. HIDE DEF known
    <3>. QED
      BY <1>3, <3>1 DEF OtherAnswer
  <2>2. \A i \in says("ok") : parse(i).verdict = "ok"
    BY <1>4
  <2>. HIDE DEF known
  <2>. QED
    BY <2>1, <2>2
<1>8. known /\ parse(own).verdict = "ok" => says("ok") # {}
  BY <1>0, <1>4, <1>5
<1>9. known /\ parse(own).verdict = "incomplete" => says("incomplete") # {}
  BY <1>0, <1>4, <1>5
<1>10. ASSUME says("ok") # {}
       PROVE  known /\ Sound(c) /\ asked /\ HelloLen(c) <= len
              /\ answer = Request(c.protocol, HelloLen(c), c)
  <2>1. known /\ parse(own).verdict = "ok" /\ says("ok") = {own}
    BY <1>7, <1>10
  <2>2. OwnAnswer(parse(own), c, len, fresh)
    BY <1>0, <1>3, <2>1
  <2>3. Sound(c) /\ asked /\ HelloLen(c) <= len /\ parse(own).header = HelloLen(c)
    BY <2>1, <2>2 DEF OwnAnswer
  <2>4. Min(says("ok")) = own
    <3>1. DOMAIN Kinds \subseteq Nat
      BY DEF Kinds
    <3>2. {own} \in SUBSET Nat /\ {own} # {}
      BY <3>1
    <3>3. Min({own}) \in {own}
      BY <3>2, MinIsMember
    <3>. QED
      BY <2>1, <3>3
  <2>5. answer = Request(Kinds[own], parse(own).header, c)
    BY <1>6, <1>10, <2>4
  <2>. QED
    BY <1>0, <2>1, <2>3, <2>5
<1>11. says("ok") # {} => answer.verdict = "ok"
  BY <1>10 DEF Request
<1>12. says("ok") = {} => answer.verdict = IF says("incomplete") # {} THEN "incomplete" ELSE "rejected"
  BY <1>6 DEF Verdict
<1>13. known => OwnAnswer(parse(own), c, len, fresh)
  BY <1>0, <1>3
<1>14. ASSUME known, Sound(c), asked
       PROVE  /\ says("ok") # {} \/ says("incomplete") # {}
              /\ HelloLen(c) <= len => says("ok") # {}
  <2>1. /\ parse(own).verdict \in {"ok", "incomplete", "rejected"}
        /\ parse(own).verdict # "rejected"
        /\ HelloLen(c) <= len => parse(own).verdict = "ok"
    BY <1>13, <1>14 DEF OwnAnswer
  <2>. QED
    BY <1>8, <1>9, <1>14, <2>1
<1>15. ASSUME says("incomplete") # {}, Longest <= len
       PROVE  known /\ (~Flaw(c, "short") => ~(HelloLen(c) <= len))
  <2>1. PICK i \in DOMAIN Kinds : Kinds[i] \in Enabled /\ parse(i).verdict = "incomplete"
    BY <1>4, <1>15
  <2>2. Enough(Kinds[i], len)
    BY <1>15, <2>1, LongestIsEnough
  <2>3. i = own /\ known
    <3>1. "incomplete" # "rejected"
      OBVIOUS
    <3>. HIDE DEF known
    <3>. QED
      BY <1>3, <2>1, <2>2, <3>1 DEF OtherAnswer
  <2>. QED
    BY <1>13, <2>1, <2>3 DEF OwnAnswer
<1>16. answer.verdict = "ok" => says("ok") # {}
  BY <1>12
<1>17. answer.verdict = "incomplete" => says("incomplete") # {}
  <2>1. CASE says("ok") # {}
    <3>1. answer.verdict = "ok"
      BY <1>11, <2>1
    <3>. QED
      BY <3>1
  <2>2. CASE says("ok") = {}
    <3>1. CASE says("incomplete") # {}
      BY <3>1
    <3>2. CASE says("incomplete") = {}
      <4>1. answer.verdict = "rejected"
        BY <1>12, <2>2, <3>2
      <4>. QED
        BY <4>1
    <3>. QED
      BY <3>1, <3>2
  <2>. QED
    BY <2>1, <2>2
<1>18. answer.verdict = "rejected" => says("ok") = {} /\ says("incomplete") = {}
  <2>1. ASSUME says("ok") # {} PROVE answer.verdict # "rejected"
    <3>1. answer.verdict = "ok"
      BY <1>11, <2>1
    <3>. QED
      BY <3>1
  <2>2. ASSUME says("ok") = {}, says("incomplete") # {} PROVE answer.verdict # "rejected"
    <3>1. answer.verdict = "incomplete"
      BY <1>12, <2>2
    <3>. QED
      BY <3>1
  <2>. QED
    BY <2>1, <2>2
<1>19. answer.verdict \in {"ok", "incomplete", "rejected"}
  BY <1>11, <1>12
<1>20. answer.verdict = "ok" =>
         known /\ Sound(c) /\ asked /\ HelloLen(c) <= len
         /\ answer = Request(c.protocol, HelloLen(c), c)
  BY <1>10, <1>16
<1>21. known /\ Sound(c) /\ asked => answer.verdict # "rejected"
  BY <1>14, <1>18
<1>22. known /\ Sound(c) /\ asked /\ HelloLen(c) <= len => answer.verdict = "ok"
  BY <1>11, <1>14
<1>23. answer.verdict = "incomplete" =>
         /\ Longest <= len => known
         /\ Longest <= len /\ ~Flaw(c, "short") => ~(HelloLen(c) <= len)
  BY <1>15, <1>17
<1>. QED
  BY <1>19, <1>20, <1>21, <1>22, <1>23 DEF answer
-----------------------------------------------------------------------------
(* The session.                                                            *)

\* Past the header: its settings are loading, or it has been served or let go of since.
PastHeader == {"join", "relay", "abandoned", "poisoned"}

StrangersStayOut == phase \in PastHeader => Known(client.protocol, client.user)

\* What the header phase knows: it waits on the strength of what the detector said of the cells
\* that are there, and ends on it.
HeaderInv ==
    /\ client \in Clients /\ age \in Int /\ arrived \in Nat
    /\ phase \in {"header", "join", "relay", "refused", "abandoned", "poisoned"}
    /\ phase = "header" =>
         \/ arrived = 0
         \/ \E fresh \in BOOLEAN : Detect(client, arrived, fresh).verdict = "incomplete"
    /\ phase = "join" => \E fresh \in BOOLEAN : Detect(client, arrived, fresh).verdict = "ok"
    /\ phase \in PastHeader => Known(client.protocol, client.user)
    /\ RefusedForCause
    /\ TakenForItself

\* Freshness is what the parsers mean by it.
LEMMA FreshType ==
    ASSUME NEW c \in Clients, age \in Int
    PROVE  /\ Fresh(c) \in BOOLEAN
           /\ Timely(c, Fresh(c)) <=> Fresh(c)
<1>1. DOMAIN Skew = {"Vmess", "Shadowsocks"}
  BY InboundAssumption
<1>2. c.protocol \notin {"Vmess", "Shadowsocks"} => Fresh(c)
  BY <1>1 DEF Fresh
<1>3. Fresh(c) \in BOOLEAN
  BY DEF Fresh
<1>. HIDE DEF Fresh
<1>. QED
  BY <1>2, <1>3 DEF Timely

\* What is asked for and not served, and the target of what is.
LEMMA Requested ==
    ASSUME NEW c \in Clients, Sound(c), NEW header
    PROVE  LET request0 == Request(c.protocol, header, c)
           IN  /\ request0.verdict = "ok" /\ request0.kind = c.protocol /\ request0.header = header
               /\ request0.is_tcp <=> c.command = "tcp"
               /\ request0.flow_requested <=> c.protocol = "Vless" /\ c.extra # 0
               /\ c.command = "mux" => request0.target = {}
               /\ c.command # "mux" => request0.target = {Meant(c.host)}
<1>. DEFINE request0 == Request(c.protocol, header, c)
<1>1. c.host \in {"v4", "v6", "domain", "literal"} /\ c.host \in Slots \cup {"literal"}
  BY ClientType DEF Slots
<1>2. SlotRead(Speaks(c.protocol), c) = {Slot(c.host)}
  <2>1. c.broken # "type"
    BY DEF Sound, Flaw
  <2>. QED
    BY <1>1, <2>1, SlotFound
<1>3. (IF Slot(c.host) = "domain" THEN Meant(c.host) ELSE Slot(c.host)) = Meant(c.host)
  BY <1>1 DEF Slot, Meant
<1>4. /\ request0.verdict = "ok" /\ request0.kind = c.protocol /\ request0.header = header
      /\ request0.target = IF c.command = "mux" THEN {}
                           ELSE {IF slot = "domain" THEN Meant(c.host) ELSE slot :
                                   slot \in SlotRead(Speaks(c.protocol), c)}
  BY DEF Request
<1>5. /\ request0.is_tcp <=> c.command = "tcp"
      /\ request0.flow_requested <=> c.protocol = "Vless" /\ c.extra # 0
  BY Zenon DEF Request
<1>6. {IF slot = "domain" THEN Meant(c.host) ELSE slot :
          slot \in SlotRead(Speaks(c.protocol), c)} = {Meant(c.host)}
  <2>1. {IF slot = "domain" THEN Meant(c.host) ELSE slot : slot \in {Slot(c.host)}}
          = {IF Slot(c.host) = "domain" THEN Meant(c.host) ELSE Slot(c.host)}
    OBVIOUS
  <2>. QED
    BY <1>2, <1>3, <2>1
<1>7. /\ c.command = "mux" => request0.target = {}
      /\ c.command # "mux" => request0.target = {Meant(c.host)}
  BY <1>4, <1>6
<1>. HIDE DEF request0
<1>. QED
  BY <1>4, <1>5, <1>7 DEF request0

\* The invariant holds at the start, ...
LEMMA InitHeader == Init => HeaderInv
<1>. SUFFICES ASSUME Init PROVE HeaderInv
  OBVIOUS
<1>1. client \in Clients /\ age \in Int /\ arrived = 0 /\ phase = "header"
  BY InboundAssumption DEF Init
<1>. QED
  BY <1>1 DEF HeaderInv, PastHeader, RefusedForCause, TakenForItself

\* A step that leaves the header alone.
LEMMA HeaderKept ==
    ASSUME HeaderInv, UNCHANGED <<client, age, arrived, phase, request>>
    PROVE  HeaderInv'
  BY DEF HeaderInv, RefusedForCause, TakenForItself, PastHeader, Good, Fresh

\* ... when the clock moves, ...
LEMMA HeaderTicks ==
    ASSUME HeaderInv, Ticks
    PROVE  HeaderInv'
<1>1. /\ phase \in {"header", "join"} /\ age' = age + 1
      /\ UNCHANGED <<client, arrived, phase, request>>
  BY DEF Ticks
<1>2. phase' # "refused" /\ phase' # "relay"
  BY <1>1
<1>3. RefusedForCause' /\ TakenForItself'
  BY <1>2 DEF RefusedForCause, TakenForItself
<1>. QED
  BY <1>1, <1>3 DEF HeaderInv, PastHeader

\* ... when a chunk is relayed, ...
LEMMA HeaderStreams ==
    ASSUME HeaderInv, NEW n \in 1..(Len(Wire) - arrived), Upstream(n)
    PROVE  HeaderInv'
<1>1. /\ phase = "relay" /\ phase' \in {"relay", "poisoned"} /\ arrived' = arrived + n
      /\ UNCHANGED <<client, age, request>>
  BY DEF Upstream
<1>2. n \in Nat
  OBVIOUS
<1>3. RefusedForCause'
  BY <1>1 DEF RefusedForCause
<1>4. TakenForItself'
  BY <1>1 DEF HeaderInv, TakenForItself, Good, Fresh
<1>5. arrived' \in Nat
  BY <1>1, <1>2 DEF HeaderInv
<1>. QED
  BY <1>1, <1>3, <1>4, <1>5 DEF HeaderInv, PastHeader

\* ... when a chunk of the header is read, ...
LEMMA HeaderRead ==
    ASSUME HeaderInv, NEW n \in 1..(Len(Wire) - arrived), HeaderChunk(n)
    PROVE  HeaderInv'
<1>. DEFINE answer == Detect(client, arrived', Fresh(client))
<1>1. /\ client \in Clients /\ age \in Int /\ arrived \in Nat /\ n \in Nat
  BY DEF HeaderInv
<1>2. /\ arrived' = arrived + n /\ UNCHANGED <<client, age>>
      /\ phase' = CASE arrived' > MaxHeader                                 -> "refused"
                    [] arrived' <= MaxHeader /\ answer.verdict = "incomplete" -> "header"
                    [] arrived' <= MaxHeader /\ answer.verdict = "ok"         -> "join"
                    [] OTHER                                                -> "refused"
  BY DEF HeaderChunk
<1>3. arrived' \in Nat /\ MaxHeader \in Nat
  BY <1>1, <1>2, InboundAssumption
<1>4. Fresh(client) \in BOOLEAN /\ (Timely(client, Fresh(client)) <=> Fresh(client))
  BY <1>1, FreshType
<1>5. /\ answer.verdict \in {"ok", "incomplete", "rejected"}
      /\ answer.verdict = "ok" => Known(client.protocol, client.user)
      /\ Known(client.protocol, client.user) /\ Sound(client) /\ Fresh(client) /\ Fits(client) =>
           answer.verdict # "rejected"
  BY <1>1, <1>3, <1>4, Detected
<1>. HIDE DEF answer
<1>6. CASE arrived' > MaxHeader
  <2>1. phase' = "refused"
    BY <1>2, <1>3, <1>6
  <2>2. RefusedForCause'
    BY <1>6 DEF RefusedForCause
  <2>3. TakenForItself'
    BY <2>1 DEF TakenForItself
  <2>. QED
    BY <1>1, <1>2, <1>3, <2>1, <2>2, <2>3 DEF HeaderInv, PastHeader
<1>7. CASE arrived' <= MaxHeader /\ answer.verdict = "incomplete"
  <2>1. phase' = "header"
    BY <1>2, <1>3, <1>7
  <2>2. RefusedForCause' /\ TakenForItself'
    BY <2>1 DEF RefusedForCause, TakenForItself
  <2>3. \E fresh \in BOOLEAN : Detect(client', arrived', fresh).verdict = "incomplete"
    BY <1>2, <1>4, <1>7 DEF answer
  <2>. QED
    BY <1>1, <1>2, <1>3, <2>1, <2>2, <2>3 DEF HeaderInv, PastHeader
<1>8. CASE arrived' <= MaxHeader /\ answer.verdict = "ok"
  <2>1. phase' = "join"
    <3>1. ~(arrived' > MaxHeader) /\ answer.verdict # "incomplete"
      BY <1>3, <1>8
    <3>. QED
      BY <1>2, <1>8, <3>1
  <2>2. RefusedForCause' /\ TakenForItself'
    BY <2>1 DEF RefusedForCause, TakenForItself
  <2>3. \E fresh \in BOOLEAN : Detect(client', arrived', fresh).verdict = "ok"
    BY <1>2, <1>4, <1>8 DEF answer
  <2>5. Known(client.protocol, client.user)
    BY <1>5, <1>8
  <2>. QED
    BY <1>1, <1>2, <1>3, <2>1, <2>2, <2>3, <2>5 DEF HeaderInv, PastHeader
<1>9. CASE arrived' <= MaxHeader /\ answer.verdict = "rejected"
  <2>1. phase' = "refused"
    <3>1. ~(arrived' > MaxHeader) /\ answer.verdict # "incomplete" /\ answer.verdict # "ok"
      BY <1>3, <1>9
    <3>. QED
      BY <1>2, <1>9, <3>1
  <2>2. ~(Known(client.protocol, client.user) /\ Sound(client) /\ Fresh(client) /\ Fits(client))
    BY <1>5, <1>9
  <2>3. Good(client) => Known(client.protocol, client.user) /\ Sound(client)
    BY DEF Good, Sound, Flaw
  <2>4. ~Fits(client) => client.protocol = "Vmess" /\ SealedLen(client) > MaxSealed
    <3>1. SealedLen(client) \in Nat /\ MaxSealed \in Nat
      BY <1>1, SealedType, DetectionAssumption
    <3>. QED
      BY <3>1 DEF Fits
  <2>5. Good(client) => ~Fresh(client)
                        \/ (client.protocol = "Vmess" /\ SealedLen(client) > MaxSealed)
    BY <2>2, <2>3, <2>4
  <2>6. Fresh(client)' = Fresh(client)
    BY <1>2 DEF Fresh
  <2>7. RefusedForCause'
    BY <1>2, <2>5, <2>6 DEF RefusedForCause, Good
  <2>8. TakenForItself'
    BY <2>1 DEF TakenForItself
  <2>. QED
    BY <1>1, <1>2, <1>3, <2>1, <2>7, <2>8 DEF HeaderInv, PastHeader
<1>. QED
  BY <1>3, <1>5, <1>6, <1>7, <1>8, <1>9

\* ... when the join is over, ...
LEMMA HeaderBegins ==
    ASSUME HeaderInv, Begin
    PROVE  HeaderInv'
<1>. DEFINE answer == Detect(client, arrived, Fresh(client))
            leading == SubSeq(Wire, answer.header + 1, arrived)
            first == Decode(NewDecoder(client, Units(1, Initial(client))), leading)
<1>1. /\ client \in Clients /\ age \in Int /\ arrived \in Nat
  BY DEF HeaderInv
<1>2. /\ phase = "join" /\ request' = answer
      /\ phase' = CASE Refused(answer)                         -> "refused"
                    [] ~Refused(answer) /\ ~Supported(client)  -> "abandoned"
                    [] ~Refused(answer) /\ Supported(client) /\ first.failed -> "poisoned"
                    [] OTHER                                   -> "relay"
      /\ UNCHANGED <<client, age, arrived>>
  BY DEF Begin
<1>3. PICK before \in BOOLEAN : Detect(client, arrived, before).verdict = "ok"
  BY <1>2 DEF HeaderInv
<1>4. Known(client.protocol, client.user) /\ HelloLen(client) <= arrived
  BY <1>1, <1>3, Detected
<1>5. Fresh(client) \in BOOLEAN /\ (Timely(client, Fresh(client)) <=> Fresh(client))
  BY <1>1, FreshType
<1>6. /\ answer.verdict = "ok" =>
           Known(client.protocol, client.user) /\ Sound(client) /\ Fresh(client)
           /\ answer = Request(client.protocol, HelloLen(client), client)
      /\ Known(client.protocol, client.user) /\ Sound(client) /\ Fresh(client) /\ Fits(client)
         /\ HelloLen(client) <= arrived => answer.verdict = "ok"
  BY <1>1, <1>5, Detected
<1>. HIDE DEF answer, first
<1>7. answer.verdict = "ok" =>
        /\ answer.kind = client.protocol /\ answer.header = HelloLen(client)
        /\ answer.is_tcp <=> client.command = "tcp"
        /\ answer.flow_requested <=> client.protocol = "Vless" /\ client.extra # 0
        /\ client.command = "mux" => answer.target = {}
        /\ client.command # "mux" => answer.target = {Meant(client.host)}
  BY <1>1, <1>6, Requested
<1>8. Fresh(client)' = Fresh(client)
  BY <1>2 DEF Fresh
<1>9. CASE Refused(answer)
  <2>1. phase' = "refused"
    BY <1>2, <1>9
  <2>2. ~Fits(client) => client.protocol = "Vmess" /\ SealedLen(client) > MaxSealed
    <3>1. SealedLen(client) \in Nat /\ MaxSealed \in Nat
      BY <1>1, SealedType, DetectionAssumption
    <3>. QED
      BY <3>1 DEF Fits
  <2>3. ASSUME Good(client), Fresh(client), Fits(client), client.command = "tcp"
        PROVE  client.protocol = "Vless" /\ client.extra # 0
    <3>1. answer.verdict = "ok"
      BY <1>4, <1>6, <2>3 DEF Good, Sound, Flaw
    <3>2. answer.is_tcp /\ answer.target # {}
      BY <1>7, <2>3, <3>1
    <3>3. answer.flow_requested
      BY <1>9, <3>1, <3>2 DEF Refused
    <3>. QED
      BY <1>7, <3>1, <3>3
  <2>4. RefusedForCause'
    <3>1. Good(client) =>
            \/ ~Fresh(client) \/ client.command # "tcp"
            \/ client.protocol = "Vless" /\ client.extra # 0
            \/ client.protocol = "Vmess" /\ SealedLen(client) > MaxSealed
      BY <2>2, <2>3
    <3>. QED
      BY <1>2, <1>8, <3>1 DEF RefusedForCause, Good
  <2>5. TakenForItself'
    BY <2>1 DEF TakenForItself
  <2>. QED
    BY <1>1, <1>2, <2>1, <2>4, <2>5 DEF HeaderInv, PastHeader
<1>10. CASE ~Refused(answer)
  <2>1. phase' \in {"abandoned", "poisoned", "relay"}
    BY <1>2, <1>10
  <2>2. RefusedForCause'
    BY <2>1 DEF RefusedForCause
  <2>3. /\ answer.verdict = "ok" /\ answer.is_tcp /\ answer.target # {}
    BY <1>10 DEF Refused
  <2>4. /\ Good(client) /\ client.command = "tcp" /\ Fresh(client)
        /\ answer.kind = client.protocol /\ answer.target = {Meant(client.host)}
        /\ answer.header = HelloLen(client)
    <3>1. client.command = "tcp"
      BY <1>7, <2>3
    <3>2. client.command # "mux"
      BY <3>1
    <3>. QED
      BY <1>6, <1>7, <2>3, <3>1, <3>2 DEF Good, Sound, Flaw
  <2>5. TakenForItself'
    BY <1>2, <1>8, <2>4 DEF TakenForItself, Good
  <2>. QED
    BY <1>1, <1>2, <1>4, <2>1, <2>2, <2>5 DEF HeaderInv, PastHeader
<1>. QED
  BY <1>9, <1>10

\* ... and so in every step.
LEMMA NextHeader == HeaderInv /\ [Next]_vars => HeaderInv'
<1>. SUFFICES ASSUME HeaderInv, [Next]_vars PROVE HeaderInv'
  OBVIOUS
<1>1. ASSUME NEW n \in 0..MaxText, ClientWrites(n) PROVE HeaderInv'
  BY <1>1, HeaderKept DEF ClientWrites
<1>2. CASE Ticks
  BY <1>2, HeaderTicks
<1>3. ASSUME NEW n \in 1..(Len(Wire) - arrived), HeaderChunk(n) PROVE HeaderInv'
  BY <1>3, HeaderRead
<1>4. CASE Begin
  BY <1>4, HeaderBegins
<1>5. ASSUME NEW n \in 1..(Len(Wire) - arrived), Upstream(n) PROVE HeaderInv'
  BY <1>5, HeaderStreams
<1>6. CASE Prologue
  BY <1>6, HeaderKept DEF Prologue
<1>7. ASSUME NEW n \in 1..MaxSent, Answers(n) PROVE HeaderInv'
  BY <1>7, HeaderKept DEF Answers
<1>8. CASE UNCHANGED vars
  BY <1>8, HeaderKept DEF vars
<1>. QED
  BY <1>1, <1>2, <1>3, <1>4, <1>5, <1>6, <1>7, <1>8 DEF Next

(***************************************************************************)
(* A session gets past its header, is dialled for and relayed only for a   *)
(* client that holds an entry of the protocol it speaks: for any bindings, *)
(* any clients and any cut of the stream.                                  *)
(***************************************************************************)
THEOREM NoStrangerGetsPast == Spec => []StrangersStayOut
<1>1. HeaderInv => StrangersStayOut
  BY DEF HeaderInv, StrangersStayOut
<1>. QED
  BY <1>1, InitHeader, NextHeader, PTL DEF Spec

(***************************************************************************)
(* Every client is waited for exactly as long as its header takes, refused *)
(* only for a cause, and taken for what it is and said: for any bindings,  *)
(* clients and clocks, wherever the header is cut.                         *)
(***************************************************************************)
THEOREM AwaitsHeaders == Spec => []HeaderAwaited
<1>1. HeaderInv => HeaderAwaited
  <2>. SUFFICES ASSUME HeaderInv PROVE AwaitedWhileIncomplete /\ StrangersRejected
    BY DEF HeaderAwaited, HeaderInv
  <2>1. /\ client \in Clients /\ arrived \in Nat
        /\ phase = "header" =>
             \/ arrived = 0
             \/ \E fresh \in BOOLEAN : Detect(client, arrived, fresh).verdict = "incomplete"
    BY DEF HeaderInv
  <2>2. /\ HelloLen(client) \in Nat \ {0} /\ Longest \in 1..8
        /\ client.protocol \in {"Vmess", "Shadowsocks"} => HelloLen(client) >= 8
    BY <2>1, HelloType, LongestIsEnough
  <2>3. ASSUME phase = "header", ~Known(client.protocol, client.user)
        PROVE  arrived < Longest
    <3>1. CASE arrived = 0
      BY <2>2, <3>1
    <3>2. CASE arrived # 0
      <4>1. PICK fresh \in BOOLEAN : Detect(client, arrived, fresh).verdict = "incomplete"
        BY <2>1, <2>3, <3>2
      <4>2. ~(Longest <= arrived)
        BY <2>1, <2>3, <4>1, Detected
      <4>. QED
        BY <2>1, <2>2, <4>2
    <3>. QED
      BY <3>1, <3>2
  <2>4. ASSUME phase = "header", ~Flaw(client, "short"), Good(client)
        PROVE  arrived < HelloLen(client)
    <3>1. CASE arrived = 0
      BY <2>2, <3>1
    <3>2. CASE arrived # 0
      <4>1. PICK fresh \in BOOLEAN : Detect(client, arrived, fresh).verdict = "incomplete"
        BY <2>1, <2>4, <3>2
      <4>2. Known(client.protocol, client.user) /\ Sound(client)
        BY <2>4 DEF Good, Sound, Flaw
      <4>3. CASE Timely(client, fresh) /\ Fits(client)
        <5>1. HelloLen(client) <= arrived => Detect(client, arrived, fresh).verdict = "ok"
          BY <2>1, <4>2, <4>3, Detected
        <5>2. ~(HelloLen(client) <= arrived)
          BY <4>1, <5>1
        <5>. QED
          BY <2>1, <2>2, <5>2
      <4>4. CASE ~(Timely(client, fresh) /\ Fits(client))
        <5>1. HelloLen(client) >= 8
          BY <2>2, <4>4 DEF Timely, Fits
        <5>2. Longest <= arrived => ~(HelloLen(client) <= arrived)
          BY <2>1, <2>4, <4>1, Detected
        <5>. QED
          BY <2>1, <2>2, <5>1, <5>2
      <4>. QED
        BY <4>3, <4>4
    <3>. QED
      BY <3>1, <3>2
  <2>5. ASSUME phase = "header", ~Flaw(client, "short")
        PROVE  arrived < HelloLen(client) \/ arrived < Longest
    <3>1. CASE arrived = 0
      BY <2>2, <3>1
    <3>2. CASE arrived # 0
      <4>1. PICK fresh \in BOOLEAN : Detect(client, arrived, fresh).verdict = "incomplete"
        BY <2>1, <2>5, <3>2
      <4>2. Longest <= arrived => ~(HelloLen(client) <= arrived)
        BY <2>1, <2>5, <4>1, Detected
      <4>. QED
        BY <2>1, <2>2, <4>2
    <3>. QED
      BY <3>1, <3>2
  <2>6. /\ HelloLen(client) <= Max({HelloLen(client), Longest})
        /\ Longest <= Max({HelloLen(client), Longest})
        /\ Max({HelloLen(client), Longest}) \in Nat
    <3>. DEFINE S == {HelloLen(client), Longest}
    <3>1. /\ S \in SUBSET Nat /\ S # {} /\ HelloLen(client) + Longest \in Nat
          /\ \A x \in S : x <= HelloLen(client) + Longest
          /\ HelloLen(client) \in S /\ Longest \in S
      BY <2>2
    <3>. HIDE DEF S
    <3>2. Max(S) \in S /\ \A y \in S : y <= Max(S)
      BY <3>1, MaxIsMember
    <3>3. HelloLen(client) <= Max(S) /\ Longest <= Max(S) /\ Max(S) \in Nat
      BY <3>1, <3>2
    <3>. QED
      BY <3>3 DEF S
  <2>7. ASSUME phase = "header", ~Flaw(client, "short")
        PROVE  arrived < Max({HelloLen(client), Longest})
    BY <2>1, <2>2, <2>5, <2>6, <2>7
  <2>8. AwaitedWhileIncomplete
    <3>1. client.broken # "short" => ~Flaw(client, "short")
      BY DEF Flaw
    <3>. QED
      BY <2>4, <2>7, <3>1 DEF AwaitedWhileIncomplete
  <2>. QED
    BY <2>3, <2>8 DEF StrangersRejected
<1>. QED
  BY <1>1, InitHeader, NextHeader, PTL DEF Spec
=============================================================================
