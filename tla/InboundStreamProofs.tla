------------------------- MODULE InboundStreamProofs -------------------------
(***************************************************************************)
(* Proofs about the relayed streams of Inbound, for any client that the    *)
(* relay supports, any texts and answers, every cut of the wire, every     *)
(* size of a piece and every wrap of the nonce counter.                    *)
(*                                                                         *)
(* The argument. A wire is a header and a stream: the concatenation of one *)
(* chunk a text, whose nonces, masks and padding depend on its number      *)
(* alone (WrappedAppend). Between two calls a decoder is settled: it has   *)
(* handed on the first n texts, holds the beginning of the chunk behind    *)
(* them and waits for more of it (Settled).                                *)
(*   one turn         a chunk that is there is taken, and its nonce, mask  *)
(*                    and draws become those of the next (VmessTurn,       *)
(*                    SsTurnText); one that is not leaves the decoder;     *)
(*   a call           every turn that changes something makes pending      *)
(*                    shorter, so that Decode, which bounds its turns by   *)
(*                    it, ends settled (DecodeSettles);                    *)
(*   the uplink       what arrives is the next piece of the stream, and a  *)
(*                    text written later only makes it longer (UpInv);     *)
(*   the downlink     every piece of an answer is the chunk of its number  *)
(*                    behind those before it, the reply before all of them *)
(*                    (DownInv).                                           *)
(* FlattenSeq, Decode and Encode are recursive functions: that they have a *)
(* solution, and what it is, is shown by the least counterexample.         *)
(***************************************************************************)
EXTENDS InboundProofs, FiniteSetTheorems

-----------------------------------------------------------------------------
(* Flattened sequences.                                                    *)

\* The recursion of FlattenSeq as a property of a function.
FlatsTo(ss, n, g) == g = [i \in 1..n |-> IF i = 1 THEN ss[i] ELSE g[i - 1] \o ss[i]]

\* It has a solution of every length.
LEMMA FlatExists ==
    ASSUME NEW ss, NEW n \in Nat
    PROVE  \E g : FlatsTo(ss, n, g)
<1>. DEFINE T == {k \in Nat : ~\E g : FlatsTo(ss, k, g)}
<1>0. SUFFICES ASSUME T # {} PROVE FALSE
  OBVIOUS
<1>1. PICK k \in T : \A j \in T : k <= j
  <2>1. T \in SUBSET Nat
    OBVIOUS
  <2>. HIDE DEF T
  <2>. QED
    BY <1>0, <2>1, MinIsMember
<1>2. k \in Nat /\ ~\E g : FlatsTo(ss, k, g)
  BY <1>1
<1>3. k # 0
  <2>1. FlatsTo(ss, 0, <<>>)
    BY DEF FlatsTo
  <2>. QED
    BY <1>2, <2>1
<1>4. PICK g : FlatsTo(ss, k - 1, g)
  <2>1. k - 1 \in Nat /\ ~(k <= k - 1)
    BY <1>2, <1>3
  <2>. QED
    BY <1>1, <2>1
<1>. DEFINE h == [i \in 1..k |-> IF i = k THEN (IF i = 1 THEN ss[i] ELSE g[i - 1] \o ss[i])
                                 ELSE g[i]]
<1>5. ASSUME NEW i \in 1..k
      PROVE  h[i] = IF i = 1 THEN ss[i] ELSE h[i - 1] \o ss[i]
  <2>1. i \in Nat /\ i >= 1 /\ i <= k
    BY <1>2
  <2>2. i # 1 => i - 1 \in 1..k /\ i - 1 # k
    BY <1>2, <2>1
  <2>3. i # 1 => h[i - 1] = g[i - 1]
    BY <2>2
  <2>4. CASE i = k
    BY <2>3, <2>4
  <2>5. CASE i # k
    <3>1. i \in 1..(k - 1)
      BY <1>2, <2>1, <2>5
    <3>2. g[i] = IF i = 1 THEN ss[i] ELSE g[i - 1] \o ss[i]
      BY <1>4, <3>1 DEF FlatsTo
    <3>3. h[i] = g[i]
      BY <2>5
    <3>. HIDE DEF h
    <3>. QED
      BY <2>3, <3>2, <3>3
  <2>. QED
    BY <2>4, <2>5
<1>6. FlatsTo(ss, k, h)
  <2>1. h = [i \in 1..k |-> h[i]]
    OBVIOUS
  <2>. HIDE DEF h
  <2>. QED
    BY <1>5, <2>1 DEF FlatsTo
<1>. QED
  BY <1>2, <1>6

\* Two solutions agree as long as what they flatten does.
LEMMA FlatsAgree ==
    ASSUME NEW ss, NEW tt, NEW m \in Nat, NEW n \in Nat, NEW g, NEW h,
           FlatsTo(ss, m, g), FlatsTo(tt, n, h),
           NEW k \in 1..m, k <= n, \A i \in 1..k : ss[i] = tt[i]
    PROVE  g[k] = h[k]
<1>. DEFINE T == {j \in 1..k : g[j] # h[j]}
<1>1. SUFFICES ASSUME T # {} PROVE FALSE
  BY DEF T
<1>2. PICK j \in T : \A i \in T : j <= i
  <2>1. T \in SUBSET Nat
    OBVIOUS
  <2>. HIDE DEF T
  <2>. QED
    BY <1>1, <2>1, MinIsMember
<1>3. j \in 1..k /\ g[j] # h[j] /\ ss[j] = tt[j] /\ j \in 1..m /\ j \in 1..n
  BY <1>2
<1>4. /\ g[j] = IF j = 1 THEN ss[j] ELSE g[j - 1] \o ss[j]
      /\ h[j] = IF j = 1 THEN tt[j] ELSE h[j - 1] \o tt[j]
  <2>. HIDE DEF T
  <2>. QED
    BY <1>3 DEF FlatsTo
<1>5. j # 1 => j - 1 \in 1..k /\ ~(j <= j - 1)
  BY <1>3
<1>6. j # 1 => g[j - 1] = h[j - 1]
  BY <1>2, <1>5
<1>. QED
  BY <1>3, <1>4, <1>6

\* A solution for sequences over a set is over that set.
LEMMA FlatsType ==
    ASSUME NEW S, NEW ss \in Seq(Seq(S)), NEW g, FlatsTo(ss, Len(ss), g), NEW k \in 1..Len(ss)
    PROVE  g[k] \in Seq(S)
<1>. DEFINE T == {j \in 1..Len(ss) : g[j] \notin Seq(S)}
<1>1. SUFFICES ASSUME T # {} PROVE FALSE
  BY DEF T
<1>2. PICK j \in T : \A i \in T : j <= i
  <2>1. T \in SUBSET Nat
    OBVIOUS
  <2>. HIDE DEF T
  <2>. QED
    BY <1>1, <2>1, MinIsMember
<1>3. j \in 1..Len(ss) /\ g[j] \notin Seq(S) /\ Len(ss) \in Nat
  BY <1>2
<1>4. g[j] = IF j = 1 THEN ss[j] ELSE g[j - 1] \o ss[j]
  <2>. HIDE DEF T
  <2>. QED
    BY <1>3 DEF FlatsTo
<1>5. ss[j] \in Seq(S)
  BY <1>3, ElementOfSeq
<1>6. j # 1 => j - 1 \in 1..Len(ss) /\ ~(j <= j - 1)
  BY <1>3
<1>7. j # 1 => g[j - 1] \in Seq(S)
  BY <1>2, <1>6
<1>. HIDE DEF T
<1>. QED
  BY <1>3, <1>4, <1>5, <1>7, ConcatProperties

\* FlattenSeq is the last value of a solution.
LEMMA FlattenIs ==
    ASSUME NEW S, NEW ss \in Seq(Seq(S)), ss # <<>>
    PROVE  \E g : FlatsTo(ss, Len(ss), g) /\ FlattenSeq(ss) = g[Len(ss)]
<1>1. Len(ss) \in Nat /\ Len(ss) # 0
  BY EmptySeq
<1>. DEFINE flat == CHOOSE g : FlatsTo(ss, Len(ss), g)
<1>2. FlatsTo(ss, Len(ss), flat)
  BY <1>1, FlatExists
<1>3. FlattenSeq(ss) = flat[Len(ss)]
  BY <1>1 DEF FlattenSeq, FlatsTo
<1>. QED
  BY <1>2, <1>3

\* Nothing flattens to nothing.
LEMMA FlattenEmpty == FlattenSeq(<<>>) = <<>>
  BY DEF FlattenSeq

\* Flattening keeps the elements.
LEMMA FlattenType ==
    ASSUME NEW S, NEW ss \in Seq(Seq(S))
    PROVE  FlattenSeq(ss) \in Seq(S)
<1>1. CASE ss = <<>>
  <2>1. FlattenSeq(ss) = <<>> /\ <<>> \in Seq(S)
    BY <1>1, FlattenEmpty, EmptySeq, Zenon
  <2>. QED
    BY <2>1
<1>2. CASE ss # <<>>
  <2>1. PICK g : FlatsTo(ss, Len(ss), g) /\ FlattenSeq(ss) = g[Len(ss)]
    BY <1>2, FlattenIs
  <2>2. Len(ss) \in 1..Len(ss)
    BY <1>2, EmptySeq
  <2>. QED
    BY <2>1, <2>2, FlatsType
<1>. QED
  BY <1>1, <1>2

\* One more sequence comes last.
LEMMA FlattenAppend ==
    ASSUME NEW S, NEW ss \in Seq(Seq(S)), NEW s \in Seq(S)
    PROVE  FlattenSeq(Append(ss, s)) = FlattenSeq(ss) \o s
<1>. DEFINE tt == Append(ss, s)
            n == Len(ss)
<1>1. /\ n \in Nat /\ tt \in Seq(Seq(S)) /\ tt # <<>> /\ Len(tt) = n + 1 /\ tt[n + 1] = s
      /\ \A i \in 1..n : tt[i] = ss[i]
  BY AppendProperties
<1>2. PICK h : FlatsTo(tt, n + 1, h) /\ FlattenSeq(tt) = h[n + 1]
  <2>. HIDE DEF tt, n
  <2>. QED
    BY <1>1, FlattenIs
<1>3. h[n + 1] = IF n + 1 = 1 THEN s ELSE h[n] \o s
  <2>1. n + 1 \in 1..(n + 1) /\ (n + 1) - 1 = n
    BY <1>1
  <2>. HIDE DEF tt, n
  <2>. QED
    BY <1>1, <1>2, <2>1 DEF FlatsTo
<1>4. CASE n = 0
  <2>1. ss = <<>>
    BY <1>4, EmptySeq
  <2>2. FlattenSeq(ss) \o s = s
    BY <2>1, FlattenEmpty, ConcatEmptySeq
  <2>. HIDE DEF n, tt
  <2>3. FlattenSeq(tt) = FlattenSeq(ss) \o s
    BY <1>2, <1>3, <1>4, <2>2
  <2>. QED
    BY <2>3 DEF tt
<1>5. CASE n # 0
  <2>1. ss # <<>>
    BY <1>5, EmptySeq
  <2>2. PICK g : FlatsTo(ss, n, g) /\ FlattenSeq(ss) = g[n]
    BY <2>1, FlattenIs
  <2>3. n \in 1..n /\ n <= n + 1 /\ n + 1 \in Nat
    BY <1>1, <1>5
  <2>. HIDE DEF n, tt
  <2>4. g[n] = h[n]
    <3>0. n \in Nat
      BY <1>1
    <3>1. FlatsTo(ss, n, g) /\ FlatsTo(tt, n + 1, h)
      BY <1>2, <2>2
    <3>2. \A i \in 1..n : ss[i] = tt[i]
      BY <1>1
    <3>. QED
      BY <2>3, <3>0, <3>1, <3>2, FlatsAgree
  <2>5. FlattenSeq(tt) = FlattenSeq(ss) \o s
    <3>1. h[n + 1] = h[n] \o s
      <4>1. n + 1 # 1
        BY <1>1, <1>5
      <4>. QED
        BY <1>3, <4>1
    <3>. QED
      BY <1>2, <2>2, <2>4, <3>1, Zenon
  <2>. QED
    BY <2>5 DEF tt
<1>. QED
  BY <1>4, <1>5

\* One sequence flattens to itself.
LEMMA FlattenOne ==
    ASSUME NEW S, NEW s \in Seq(S)
    PROVE  FlattenSeq(<<s>>) = s
<1>1. Append(<<>>, s) = <<s>> /\ <<>> \in Seq(Seq(S)) /\ <<>> \o s = s
  BY EmptySeq, ConcatEmptySeq
<1>2. FlattenSeq(Append(<<>>, s)) = FlattenSeq(<<>>) \o s
  BY <1>1, FlattenAppend
<1>. QED
  BY <1>1, <1>2, FlattenEmpty

\* Three sequences join to the same in either order.
Associates(s, t, u) == (s \o t) \o u = s \o (t \o u)

\* Concatenation associates, in the form in which it is cited.
LEMMA Associative ==
    ASSUME NEW S, NEW s \in Seq(S), NEW t \in Seq(S), NEW u \in Seq(S)
    PROVE  Associates(s, t, u)
  BY ConcatAssociative DEF Associates

\* An element appended to the second of two sequences is appended to both.
Appends(S, s, t, x) == s \o Append(t, x) = Append(s \o t, x) /\ s \o t \in Seq(S)

\* What is appended to the second sequence is appended to both.
LEMMA AppendLast ==
    ASSUME NEW S, NEW s \in Seq(S), NEW t \in Seq(S), NEW x \in S
    PROVE  Appends(S, s, t, x)
  BY DEF Appends

\* What is flattened in two parts.
LEMMA FlattenConcat ==
    ASSUME NEW S, NEW ss \in Seq(Seq(S)), NEW tt \in Seq(Seq(S))
    PROVE  FlattenSeq(ss \o tt) = FlattenSeq(ss) \o FlattenSeq(tt)
<1>. DEFINE Joins(k) == FlattenSeq(ss \o SubSeq(tt, 1, k))
                          = FlattenSeq(ss) \o FlattenSeq(SubSeq(tt, 1, k))
            T == {k \in 0..Len(tt) : ~Joins(k)}
<1>1. SubSeq(tt, 1, Len(tt)) = tt /\ Len(tt) \in 0..Len(tt)
  BY SubSeqFull
<1>2. SUFFICES ASSUME T # {} PROVE FALSE
  <2>1. Joins(Len(tt))
    <3>. HIDE DEF Joins
    <3>. QED
      BY <1>1
  <2>. QED
    BY <1>1, <2>1
<1>3. PICK k \in T : \A j \in T : k <= j
  <2>1. T \in SUBSET Nat
    OBVIOUS
  <2>. HIDE DEF T
  <2>. QED
    BY <1>2, <2>1, MinIsMember
<1>4. k \in 0..Len(tt) /\ ~Joins(k)
  BY <1>3
<1>5. CASE k = 0
  <2>1. SubSeq(tt, 1, k) = <<>>
    BY <1>5, SubSeqEmpty
  <2>2. FlattenSeq(ss) \in Seq(S)
    BY FlattenType
  <2>3. Joins(k)
    BY <2>1, <2>2, FlattenEmpty, ConcatEmptySeq
  <2>. QED
    BY <1>4, <2>3
<1>6. CASE k # 0
  <2>. DEFINE p == SubSeq(tt, 1, k - 1)
  <2>1. k - 1 \in 0..Len(tt) /\ ~(k <= k - 1) /\ k \in 1..Len(tt)
    BY <1>4, <1>6
  <2>2. Joins(k - 1)
    <3>. HIDE DEF Joins
    <3>. QED
      BY <1>3, <2>1
  <2>3. PICK t \in Seq(S) : t = tt[k]
    BY <2>1, ElementOfSeq
  <2>4. p \in Seq(Seq(S)) /\ SubSeq(tt, 1, k) = Append(p, t)
    BY <2>1, <2>3, SubSeqProperties, SubSeqRecursiveSecond
  <2>. HIDE DEF p
  <2>5. ss \o Append(p, t) = Append(ss \o p, t) /\ ss \o p \in Seq(Seq(S))
    <3>. DEFINE Q == Seq(S)
    <3>1. ss \in Seq(Q) /\ p \in Seq(Q) /\ t \in Q
      BY <2>4
    <3>. HIDE DEF Q
    <3>2. ss \o Append(p, t) = Append(ss \o p, t) /\ ss \o p \in Seq(Q)
      <4>1. Appends(Q, ss, p, t)
        BY <3>1, AppendLast
      <4>. QED
        BY <4>1 DEF Appends
    <3>. QED
      BY <3>2 DEF Q
  <2>6. FlattenSeq(ss) \in Seq(S) /\ FlattenSeq(p) \in Seq(S)
    BY <2>4, FlattenType
  <2>7. FlattenSeq(ss \o SubSeq(tt, 1, k)) = FlattenSeq(ss \o p) \o t
    <3>1. FlattenSeq(Append(ss \o p, t)) = FlattenSeq(ss \o p) \o t
      BY <2>5, FlattenAppend
    <3>. QED
      BY <2>4, <2>5, <3>1
  <2>8. FlattenSeq(SubSeq(tt, 1, k)) = FlattenSeq(p) \o t
    BY <2>4, FlattenAppend
  <2>9. (FlattenSeq(ss) \o FlattenSeq(p)) \o t = FlattenSeq(ss) \o (FlattenSeq(p) \o t)
    <3>1. Associates(FlattenSeq(ss), FlattenSeq(p), t)
      <4>. HIDE DEF Joins, T
      <4>. QED
        BY <2>6, Associative
    <3>. QED
      BY <3>1 DEF Associates
  <2>10. Joins(k)
    <3>1. FlattenSeq(ss \o p) = FlattenSeq(ss) \o FlattenSeq(p)
      BY <2>2 DEF p
    <3>. QED
      BY <2>7, <2>8, <2>9, <3>1
  <2>. QED
    BY <1>4, <2>10
<1>. QED
  BY <1>5, <1>6

-----------------------------------------------------------------------------
(* The wire.                                                               *)

\* What is written at a time: the units are numbers.
Texts == Seq(Nat)

\* The kinds of fields that nobody opens.
OtherKinds == {"padding", "salt", "reply", "header"}

\* The fields there are on a wire, and their cells.
WireFields ==
    {LengthField(size, mask) : size \in Nat, mask \in Nat}
      \cup {Sealed(nonce, text) : nonce \in Nat, text \in Texts}
      \cup {Plain(text) : text \in Texts}
      \cup {Other(kind, width) : kind \in OtherKinds, width \in Nat}

\* A cell of the wire is one part of a field.
WireCells == [field : WireFields, part : Nat]

\* What the codecs put on the wire are fields.
LEMMA FieldsOfWire ==
    /\ \A size, mask \in Nat : LengthField(size, mask) \in WireFields
    /\ \A nonce \in Nat, text \in Texts : Sealed(nonce, text) \in WireFields
    /\ \A text \in Texts : Plain(text) \in WireFields
    /\ \A kind \in OtherKinds, width \in Nat : Other(kind, width) \in WireFields
<1>. USE DEF WireFields
<1>1. \A size, mask \in Nat : LengthField(size, mask) \in WireFields
  OBVIOUS
<1>2. \A nonce \in Nat, text \in Texts : Sealed(nonce, text) \in WireFields
  OBVIOUS
<1>3. \A text \in Texts : Plain(text) \in WireFields
  OBVIOUS
<1>4. \A kind \in OtherKinds, width \in Nat : Other(kind, width) \in WireFields
  OBVIOUS
<1>. QED
  BY <1>1, <1>2, <1>3, <1>4

\* A field has a width.
LEMMA FieldWidth ==
    ASSUME NEW field \in WireFields
    PROVE  field.width \in Nat
<1>1. CASE \E size, mask \in Nat : field = LengthField(size, mask)
  BY <1>1 DEF LengthField
<1>2. CASE \E nonce \in Nat, text \in Texts : field = Sealed(nonce, text)
  <2>1. PICK nonce \in Nat, text \in Texts : field = Sealed(nonce, text)
    BY <1>2
  <2>2. Len(text) \in Nat
    BY DEF Texts
  <2>. QED
    BY <2>1, <2>2 DEF Sealed, Tag
<1>3. CASE \E text \in Texts : field = Plain(text)
  <2>1. PICK text \in Texts : field = Plain(text)
    BY <1>3
  <2>2. Len(text) \in Nat
    BY DEF Texts
  <2>. QED
    BY <2>1, <2>2 DEF Plain
<1>4. CASE \E kind \in OtherKinds, width \in Nat : field = Other(kind, width)
  BY <1>4 DEF Other
<1>. QED
  BY <1>1, <1>2, <1>3, <1>4 DEF WireFields

\* A field is as many cells as it is wide, each naming its part.
LEMMA CellsOfField ==
    ASSUME NEW field \in WireFields
    PROVE  /\ Cells(field) \in Seq(WireCells) /\ Len(Cells(field)) = field.width
           /\ field.width \in Nat
           /\ \A i \in 1..field.width : Cells(field)[i] = [field |-> field, part |-> i]
<1>1. field.width \in Nat
  BY FieldWidth
<1>. DEFINE w == field.width
<1>2. \A i \in 1..w : [field |-> field, part |-> i] \in WireCells
  BY <1>1 DEF WireCells
<1>. HIDE DEF w
<1>3. [part \in 1..w |-> [field |-> field, part |-> part]] \in [1..w -> WireCells]
  BY <1>2
<1>4. /\ [part \in 1..w |-> [field |-> field, part |-> part]] \in Seq(WireCells)
      /\ Len([part \in 1..w |-> [field |-> field, part |-> part]]) = w
  BY <1>1, <1>3 DEF w
<1>. QED
  BY <1>1, <1>4 DEF Cells, w

\* The cells of each field, one sequence a field.
CellsOf(fields) == [i \in DOMAIN fields |-> Cells(fields[i])]

\* Fields become cells one by one.
LEMMA CellsOfType ==
    ASSUME NEW fields \in Seq(WireFields)
    PROVE  /\ CellsOf(fields) \in Seq(Seq(WireCells)) /\ Len(CellsOf(fields)) = Len(fields)
           /\ \A i \in 1..Len(fields) : CellsOf(fields)[i] = Cells(fields[i])
<1>1. DOMAIN fields = 1..Len(fields) /\ Len(fields) \in Nat
  OBVIOUS
<1>2. \A i \in 1..Len(fields) : Cells(fields[i]) \in Seq(WireCells)
  <2>. TAKE i \in 1..Len(fields)
  <2>1. PICK field \in WireFields : field = fields[i]
    BY ElementOfSeq
  <2>. QED
    BY <2>1, CellsOfField
<1>. DEFINE Q == Seq(WireCells)
            n == Len(fields)
<1>3. [i \in 1..n |-> Cells(fields[i])] \in [1..n -> Q]
  BY <1>2
<1>. HIDE DEF Q, n
<1>4. /\ [i \in 1..n |-> Cells(fields[i])] \in Seq(Q)
      /\ Len([i \in 1..n |-> Cells(fields[i])]) = n
  BY <1>1, <1>3 DEF n
<1>. QED
  BY <1>1, <1>4 DEF CellsOf, Q, n

\* Fields flatten to cells.
LEMMA BytesType ==
    ASSUME NEW fields \in Seq(WireFields)
    PROVE  Bytes(fields) \in Seq(WireCells)
  BY CellsOfType, FlattenType DEF Bytes, CellsOf

\* No fields, no cells.
LEMMA BytesEmpty == Bytes(<<>>) = <<>>
<1>1. CellsOf(<<>>) = <<>>
  BY DEF CellsOf
<1>. QED
  BY <1>1, FlattenEmpty DEF Bytes, CellsOf

\* One more field brings its cells.
LEMMA BytesAppend ==
    ASSUME NEW fields \in Seq(WireFields), NEW field \in WireFields
    PROVE  Bytes(Append(fields, field)) = Bytes(fields) \o Cells(field)
<1>1. CellsOf(fields) \in Seq(Seq(WireCells)) /\ Cells(field) \in Seq(WireCells)
  BY CellsOfType, CellsOfField
<1>2. CellsOf(Append(fields, field)) = Append(CellsOf(fields), Cells(field))
  <2>. DEFINE n == Len(fields)
              more == Append(fields, field)
              a == CellsOf(more)
              b == Append(CellsOf(fields), Cells(field))
              Q == Seq(WireCells)
  <2>1. /\ more \in Seq(WireFields) /\ Len(more) = n + 1 /\ n \in Nat
        /\ \A i \in 1..n : more[i] = fields[i]
        /\ more[n + 1] = field
    BY AppendProperties
  <2>2. /\ a \in Seq(Q) /\ Len(a) = n + 1
        /\ \A i \in 1..(n + 1) : a[i] = Cells(more[i])
    <3>. HIDE DEF more
    <3>. QED
      BY <2>1, CellsOfType
  <2>3. /\ CellsOf(fields) \in Seq(Q) /\ Len(CellsOf(fields)) = n
        /\ \A i \in 1..n : CellsOf(fields)[i] = Cells(fields[i])
    BY CellsOfType
  <2>4. /\ b \in Seq(Q) /\ Len(b) = n + 1 /\ b[n + 1] = Cells(field)
        /\ \A i \in 1..n : b[i] = CellsOf(fields)[i]
    <3>. HIDE DEF Q
    <3>1. Cells(field) \in Q
      BY <1>1 DEF Q
    <3>. QED
      BY <2>3, <3>1, AppendProperties
  <2>. HIDE DEF a, b, Q, n, more
  <2>5. \A i \in 1..(n + 1) : i = n + 1 \/ i \in 1..n
    BY <2>1
  <2>6. \A i \in 1..(n + 1) : a[i] = b[i]
    <3>1. SUFFICES ASSUME NEW i \in 1..(n + 1) PROVE a[i] = b[i]
      OBVIOUS
    <3>2. a[i] = Cells(more[i])
      BY <2>2
    <3>3. CASE i = n + 1
      BY <2>1, <2>4, <3>2, <3>3, Zenon
    <3>4. CASE i \in 1..n
      BY <2>1, <2>3, <2>4, <3>2, <3>4, Zenon
    <3>. QED
      BY <2>5, <3>3, <3>4
  <2>7. a = b
    BY <2>2, <2>4, <2>6, SeqEqual
  <2>. QED
    BY <2>7 DEF a, b, more
<1>. QED
  BY <1>1, <1>2, FlattenAppend DEF Bytes, CellsOf

\* One field is its cells.
LEMMA BytesOne ==
    ASSUME NEW field \in WireFields
    PROVE  Bytes(<<field>>) = Cells(field)
<1>1. Append(<<>>, field) = <<field>> /\ <<>> \in Seq(WireFields)
  BY EmptySeq
<1>2. Bytes(Append(<<>>, field)) = Bytes(<<>>) \o Cells(field)
  BY <1>1, BytesAppend
<1>3. <<>> \o Cells(field) = Cells(field)
  BY CellsOfField, ConcatEmptySeq
<1>. QED
  BY <1>1, <1>2, <1>3, BytesEmpty

\* Fields side by side are cells side by side.
LEMMA BytesConcat ==
    ASSUME NEW fields \in Seq(WireFields), NEW more \in Seq(WireFields)
    PROVE  Bytes(fields \o more) = Bytes(fields) \o Bytes(more)
<1>. DEFINE n == Len(fields)
            m == Len(more)
            both == fields \o more
            Q == Seq(WireCells)
            a == CellsOf(both)
            b == CellsOf(fields) \o CellsOf(more)
<1>1. /\ both \in Seq(WireFields) /\ Len(both) = n + m /\ n \in Nat /\ m \in Nat
      /\ \A i \in 1..(n + m) : both[i] = IF i <= n THEN fields[i] ELSE more[i - n]
  BY ConcatProperties
<1>2. /\ a \in Seq(Q) /\ Len(a) = n + m
      /\ \A i \in 1..(n + m) : a[i] = Cells(both[i])
  <2>. HIDE DEF both
  <2>. QED
    BY <1>1, CellsOfType
<1>3. /\ CellsOf(fields) \in Seq(Q) /\ Len(CellsOf(fields)) = n
      /\ \A i \in 1..n : CellsOf(fields)[i] = Cells(fields[i])
      /\ CellsOf(more) \in Seq(Q) /\ Len(CellsOf(more)) = m
      /\ \A i \in 1..m : CellsOf(more)[i] = Cells(more[i])
  BY CellsOfType
<1>4. /\ b \in Seq(Q) /\ Len(b) = n + m
      /\ \A i \in 1..(n + m) :
            b[i] = IF i <= n THEN CellsOf(fields)[i] ELSE CellsOf(more)[i - n]
  <2>. DEFINE u == CellsOf(fields)
              v == CellsOf(more)
  <2>1. u \in Seq(Q) /\ Len(u) = n /\ v \in Seq(Q) /\ Len(v) = m
    BY <1>3
  <2>. HIDE DEF Q, u, v, n, m
  <2>2. /\ u \o v \in Seq(Q) /\ Len(u \o v) = n + m
        /\ \A i \in 1..(n + m) : (u \o v)[i] = IF i <= n THEN u[i] ELSE v[i - n]
    BY <2>1, ConcatProperties
  <2>. QED
    BY <2>2 DEF u, v
<1>5. a = b
  <2>. HIDE DEF a, b, Q, n, m, both
  <2>1. ASSUME NEW i \in 1..(n + m) PROVE a[i] = b[i]
    <3>1. CASE i <= n
      <4>1. i \in 1..n
        BY <1>1, <3>1
      <4>2. both[i] = fields[i]
        BY <1>1, <3>1
      <4>3. a[i] = Cells(both[i])
        BY <1>2
      <4>4. b[i] = CellsOf(fields)[i]
        BY <1>4, <3>1
      <4>5. CellsOf(fields)[i] = Cells(fields[i])
        BY <1>3, <4>1
      <4>. QED
        BY <4>2, <4>3, <4>4, <4>5
    <3>2. CASE ~(i <= n)
      <4>1. i - n \in 1..m
        BY <1>1, <3>2
      <4>2. both[i] = more[i - n]
        BY <1>1, <3>2
      <4>3. a[i] = Cells(both[i])
        BY <1>2
      <4>4. b[i] = CellsOf(more)[i - n]
        BY <1>4, <3>2
      <4>5. CellsOf(more)[i - n] = Cells(more[i - n])
        BY <1>3, <4>1
      <4>. QED
        BY <4>2, <4>3, <4>4, <4>5
    <3>. QED
      BY <3>1, <3>2
  <2>. QED
    BY <1>2, <1>4, <2>1, SeqEqual
<1>6. FlattenSeq(b) = FlattenSeq(CellsOf(fields)) \o FlattenSeq(CellsOf(more))
  BY <1>3, FlattenConcat
<1>. QED
  BY <1>5, <1>6 DEF Bytes, CellsOf

-----------------------------------------------------------------------------
(* Chunks: what one text becomes on the wire.                              *)

\* The pad bytes a chunk draws.
PerChunk(c) == DrawsPerChunk(c.options)

\* The padding and the mask of the i-th chunk, as VmessWire draws them.
Framing(c, i) ==
    [padding |-> IF "padding" \in c.options THEN PaddingAt(2 * (i - 1)) ELSE 0,
     mask    |-> IF "masking" \notin c.options THEN 0
                 ELSE IF "padding" \in c.options THEN 2 * i ELSE i]

\* The i-th chunk of a VMess body.
VmessChunkOf(c, i, text) ==
    <<LengthField(Len(text) + Tag + Framing(c, i).padding, Framing(c, i).mask),
      Sealed((i - 1) % CounterWrap, text)>> \o Padding(Framing(c, i).padding)

\* The i-th chunk of a Shadowsocks body, whose two parts have a nonce each.
SsChunkOf(nonce, i, text) ==
    <<Sealed(nonce + 2 * (i - 1), <<Len(text)>>), Sealed(nonce + 2 * i - 1, text)>>

\* The i-th chunk of a stream, and the stream; nonce is the first free one in Shadowsocks.
ChunkOf(c, nonce, i, text) ==
    IF c.protocol = "Vmess" THEN VmessChunkOf(c, i, text)
    ELSE IF c.protocol = "Shadowsocks" THEN SsChunkOf(nonce, i, text) ELSE <<Plain(text)>>

\* A stream of texts as its protocol puts it on the wire.
Wrapped(c, nonce, writes) ==
    IF c.protocol = "Vmess" THEN VmessWire(c, writes)
    ELSE IF c.protocol = "Shadowsocks" THEN SsWire(nonce, writes)
    ELSE [i \in DOMAIN writes |-> Plain(writes[i])]

\* A VMess session draws once for a mask and once more for padding.
LEMMA DrawsOf ==
    ASSUME NEW c, Supported(c), c.protocol = "Vmess"
    PROVE  PerChunk(c) = IF "masking" \notin c.options THEN 0
                         ELSE IF "padding" \in c.options THEN 2 ELSE 1
<1>0. "padding" \in c.options => "masking" \in c.options
  BY DEF Supported
<1>. DEFINE drawn == c.options \cap {"masking", "padding"}
<1>1. CASE "masking" \notin c.options
  <2>1. drawn = {}
    BY <1>0, <1>1
  <2>. HIDE DEF drawn
  <2>2. Cardinality(drawn) = 0
    BY <2>1, FS_EmptySet
  <2>. QED
    BY <1>1, <2>2 DEF PerChunk, DrawsPerChunk, drawn
<1>2. CASE "masking" \in c.options /\ "padding" \notin c.options
  <2>1. drawn = {"masking"}
    BY <1>2
  <2>. HIDE DEF drawn
  <2>2. Cardinality(drawn) = 1
    BY <2>1, FS_Singleton
  <2>. QED
    BY <1>2, <2>2 DEF PerChunk, DrawsPerChunk, drawn
<1>3. CASE "masking" \in c.options /\ "padding" \in c.options
  <2>1. drawn = {"masking"} \cup {"padding"} /\ "padding" \notin {"masking"}
    BY <1>3
  <2>. HIDE DEF drawn
  <2>2. IsFiniteSet({"masking"}) /\ Cardinality({"masking"}) = 1
    BY FS_Singleton
  <2>3. Cardinality(drawn) = 2
    BY <2>1, <2>2, FS_AddElement
  <2>. QED
    BY <1>3, <2>3 DEF PerChunk, DrawsPerChunk, drawn
<1>. QED
  BY <1>0, <1>1, <1>2, <1>3

\* A chunk is padded by a unit at most.
LEMMA FramingType ==
    ASSUME NEW c, NEW i \in Nat \ {0}
    PROVE  Framing(c, i).padding \in {0, 1} /\ Framing(c, i).mask \in Nat
<1>1. PaddingAt(2 * (i - 1)) \in {0, 1}
  <2>1. (2 * (i - 1)) \div 2 = i - 1
    OBVIOUS
  <2>2. (i - 1) % 2 \in {0, 1}
    OBVIOUS
  <2>. QED
    BY <2>1, <2>2 DEF PaddingAt
<1>. QED
  BY <1>1 DEF Framing

\* What both sides draw for the i-th chunk is what stands for it on the wire.
LEMMA FramingDrawn ==
    ASSUME NEW c, Supported(c), c.protocol = "Vmess", NEW i \in Nat \ {0}
    PROVE  NextFraming(c.options, PerChunk(c) * (i - 1)) = Framing(c, i)
<1>0. "padding" \in c.options => "masking" \in c.options
  BY DEF Supported
<1>1. CASE "masking" \notin c.options
  BY <1>0, <1>1 DEF NextFraming, Framing
<1>2. CASE "masking" \in c.options /\ "padding" \notin c.options
  <2>1. PerChunk(c) = 1
    BY <1>2, DrawsOf
  <2>2. PerChunk(c) * (i - 1) + 1 = i
    BY <2>1
  <2>. QED
    BY <1>2, <2>2 DEF NextFraming, Framing
<1>3. CASE "padding" \in c.options
  <2>1. PerChunk(c) = 2
    BY <1>0, <1>3, DrawsOf
  <2>2. PerChunk(c) * (i - 1) = 2 * (i - 1) /\ 2 * (i - 1) + 2 = 2 * i
    BY <2>1
  <2>. QED
    BY <1>0, <1>3, <2>2 DEF NextFraming, Framing
<1>. QED
  BY <1>0, <1>1, <1>2, <1>3

\* Padding is a field or none.
LEMMA PaddingType ==
    ASSUME NEW n \in {0, 1}
    PROVE  Padding(n) \in Seq(WireFields)
<1>1. Other("padding", n) \in WireFields
  <2>1. n \in Nat
    OBVIOUS
  <2>2. "padding" \in OtherKinds
    BY DEF OtherKinds
  <2>. QED
    BY <2>1, <2>2, FieldsOfWire
<1>. HIDE DEF Other
<1>2. <<Other("padding", n)>> \in Seq(WireFields)
  BY <1>1
<1>. QED
  BY <1>2, EmptySeq DEF Padding

\* The counter wraps within the naturals.
LEMMA NonceType ==
    ASSUME NEW i \in Nat
    PROVE  i % CounterWrap \in Nat
  BY CodecAssumption

\* Two fields are a sequence of fields.
LEMMA TwoFieldsOf ==
    ASSUME NEW a \in WireFields, NEW b \in WireFields
    PROVE  <<a, b>> \in Seq(WireFields)
  OBVIOUS

\* A text has a length, and that length is a text.
LEMMA TextLen == \A text \in Texts : Len(text) \in Nat /\ <<Len(text)>> \in Texts
  BY DEF Texts

\* A chunk is a sequence of fields.
LEMMA ChunkType ==
    ASSUME NEW c, NEW nonce \in Nat, NEW i \in Nat \ {0}, NEW text \in Texts
    PROVE  ChunkOf(c, nonce, i, text) \in Seq(WireFields)
<1>1. CASE c.protocol = "Vmess"
  <2>1. Framing(c, i).padding \in {0, 1} /\ Framing(c, i).mask \in Nat
    BY FramingType
  <2>. DEFINE a == LengthField(Len(text) + Tag + Framing(c, i).padding, Framing(c, i).mask)
              b == Sealed((i - 1) % CounterWrap, text)
              p == Padding(Framing(c, i).padding)
  <2>2. a \in WireFields
    <3>1. Len(text) + Tag + Framing(c, i).padding \in Nat
      BY <2>1, TextLen DEF Tag
    <3>. QED
      BY <2>1, <3>1, FieldsOfWire
  <2>3. b \in WireFields
    <3>1. (i - 1) % CounterWrap \in Nat
      BY NonceType
    <3>. QED
      BY <3>1, FieldsOfWire
  <2>4. p \in Seq(WireFields)
    BY <2>1, PaddingType
  <2>. HIDE DEF a, b, p
  <2>5. <<a, b>> \o p \in Seq(WireFields)
    BY <2>2, <2>3, <2>4, TwoFieldsOf, ConcatProperties
  <2>. QED
    BY <1>1, <2>5 DEF ChunkOf, VmessChunkOf, a, b, p
<1>2. CASE c.protocol = "Shadowsocks"
  <2>. DEFINE a == Sealed(nonce + 2 * (i - 1), <<Len(text)>>)
              b == Sealed(nonce + 2 * i - 1, text)
  <2>1. a \in WireFields /\ b \in WireFields
    <3>1. nonce + 2 * (i - 1) \in Nat /\ nonce + 2 * i - 1 \in Nat
      OBVIOUS
    <3>. QED
      BY <3>1, FieldsOfWire, TextLen
  <2>. HIDE DEF a, b
  <2>2. <<a, b>> \in Seq(WireFields)
    BY <2>1, TwoFieldsOf
  <2>. QED
    BY <1>2, <2>2 DEF ChunkOf, SsChunkOf, a, b
<1>3. CASE c.protocol \notin {"Vmess", "Shadowsocks"}
  <2>. DEFINE a == Plain(text)
  <2>1. a \in WireFields
    BY FieldsOfWire
  <2>. HIDE DEF a
  <2>2. <<a>> \in Seq(WireFields)
    BY <2>1
  <2>. QED
    BY <1>3, <2>2 DEF ChunkOf, a
<1>. QED
  BY <1>1, <1>2, <1>3

\* The chunks of a stream, a sequence of fields each.
ChunksOf(c, nonce, writes) == [i \in DOMAIN writes |-> ChunkOf(c, nonce, i, writes[i])]

\* Texts become chunks one by one.
LEMMA ChunksType ==
    ASSUME NEW c, NEW nonce \in Nat, NEW writes \in Seq(Texts)
    PROVE  /\ ChunksOf(c, nonce, writes) \in Seq(Seq(WireFields))
           /\ Len(ChunksOf(c, nonce, writes)) = Len(writes)
           /\ \A i \in 1..Len(writes) :
                 ChunksOf(c, nonce, writes)[i] = ChunkOf(c, nonce, i, writes[i])
<1>. DEFINE Q == Seq(WireFields)
            n == Len(writes)
<1>1. DOMAIN writes = 1..n /\ n \in Nat
  OBVIOUS
<1>2. \A i \in 1..n : ChunkOf(c, nonce, i, writes[i]) \in Q
  <2>. TAKE i \in 1..n
  <2>1. PICK text \in Texts : text = writes[i]
    BY ElementOfSeq
  <2>2. i \in Nat \ {0}
    BY <1>1
  <2>. QED
    BY <2>1, <2>2, ChunkType
<1>. HIDE DEF Q, n
<1>3. [i \in 1..n |-> ChunkOf(c, nonce, i, writes[i])] \in [1..n -> Q]
  BY <1>2
<1>4. /\ [i \in 1..n |-> ChunkOf(c, nonce, i, writes[i])] \in Seq(Q)
      /\ Len([i \in 1..n |-> ChunkOf(c, nonce, i, writes[i])]) = n
  BY <1>1, <1>3
<1>. QED
  BY <1>1, <1>4 DEF ChunksOf, Q, n

\* A text more is a chunk more.
LEMMA ChunksAppend ==
    ASSUME NEW c, NEW nonce \in Nat, NEW writes \in Seq(Texts), NEW text \in Texts
    PROVE  ChunksOf(c, nonce, Append(writes, text))
             = Append(ChunksOf(c, nonce, writes), ChunkOf(c, nonce, Len(writes) + 1, text))
<1>. DEFINE n == Len(writes)
            more == Append(writes, text)
            last == ChunkOf(c, nonce, n + 1, text)
            u == ChunksOf(c, nonce, writes)
            a == ChunksOf(c, nonce, more)
            b == Append(u, last)
            Q == Seq(WireFields)
<1>1. /\ more \in Seq(Texts) /\ Len(more) = n + 1 /\ n \in Nat
      /\ \A i \in 1..n : more[i] = writes[i]
      /\ more[n + 1] = text
  BY AppendProperties
<1>2. /\ a \in Seq(Q) /\ Len(a) = n + 1
      /\ \A i \in 1..(n + 1) : a[i] = ChunkOf(c, nonce, i, more[i])
  <2>. HIDE DEF more
  <2>. QED
    BY <1>1, ChunksType
<1>3. /\ u \in Seq(Q) /\ Len(u) = n
      /\ \A i \in 1..n : u[i] = ChunkOf(c, nonce, i, writes[i])
  BY ChunksType
<1>4. last \in Q
  <2>1. n + 1 \in Nat \ {0}
    BY <1>1
  <2>. QED
    BY <2>1, ChunkType
<1>. HIDE DEF Q, u, n, more, last
<1>5. b \in Seq(Q) /\ Len(b) = n + 1 /\ b[n + 1] = last /\ \A i \in 1..n : b[i] = u[i]
  BY <1>1, <1>3, <1>4, AppendProperties
<1>. HIDE DEF a, b
<1>6. ASSUME NEW i \in 1..(n + 1) PROVE a[i] = b[i]
  <2>1. CASE i = n + 1
    <3>1. a[i] = ChunkOf(c, nonce, n + 1, text)
      BY <1>1, <1>2, <2>1
    <3>. QED
      BY <1>5, <2>1, <3>1 DEF last
  <2>2. CASE i # n + 1
    <3>1. i \in 1..n
      BY <1>1, <2>2
    <3>2. more[i] = writes[i] /\ b[i] = u[i] /\ u[i] = ChunkOf(c, nonce, i, writes[i])
      BY <1>1, <1>3, <1>5, <3>1
    <3>3. a[i] = ChunkOf(c, nonce, i, more[i])
      BY <1>2
    <3>. QED
      BY <3>2, <3>3
  <2>. QED
    BY <2>1, <2>2
<1>7. a = b
  BY <1>2, <1>5, <1>6, SeqEqual
<1>. QED
  BY <1>7 DEF a, b, u, more, last, n

\* A wrapped stream is its chunks, one after another.
LEMMA WrappedIs ==
    ASSUME NEW c, c.protocol \in {"Vmess", "Shadowsocks"},
           NEW nonce \in Nat, NEW writes \in Seq(Texts)
    PROVE  Wrapped(c, nonce, writes) = FlattenSeq(ChunksOf(c, nonce, writes))
<1>. DEFINE n == Len(writes)
<1>0. DOMAIN writes = 1..n /\ n \in Nat
  OBVIOUS
<1>1. CASE c.protocol = "Vmess"
  <2>. DEFINE perChunk == IF "padding" \in c.options THEN 2 ELSE 1
              padding(i) == IF "padding" \in c.options THEN PaddingAt(2 * (i - 1)) ELSE 0
              mask(i) == IF "masking" \in c.options THEN perChunk * i ELSE 0
              piece(i) == <<LengthField(Len(writes[i]) + Tag + padding(i), mask(i)),
                            Sealed((i - 1) % CounterWrap, writes[i])>> \o Padding(padding(i))
  <2>1. \A i \in 1..n : piece(i) = ChunkOf(c, nonce, i, writes[i])
    <3>. TAKE i \in 1..n
    <3>1. Framing(c, i).padding = padding(i)
      BY DEF Framing
    <3>2. Framing(c, i).mask = mask(i)
      <4>1. 1 * i = i
        BY <1>0
      <4>. QED
        BY <4>1 DEF Framing
    <3>. HIDE DEF padding, mask
    <3>. QED
      BY <1>1, <3>1, <3>2 DEF ChunkOf, VmessChunkOf
  <2>2. VmessWire(c, writes) = FlattenSeq([i \in 1..n |-> piece(i)])
    BY <1>0 DEF VmessWire
  <2>. HIDE DEF piece
  <2>3. [i \in 1..n |-> piece(i)] = [i \in 1..n |-> ChunkOf(c, nonce, i, writes[i])]
    BY <2>1
  <2>. QED
    BY <1>0, <1>1, <2>2, <2>3 DEF Wrapped, ChunksOf
<1>2. CASE c.protocol = "Shadowsocks"
  <2>. DEFINE piece(i) == <<Sealed(nonce + 2 * (i - 1), <<Len(writes[i])>>),
                            Sealed(nonce + 2 * i - 1, writes[i])>>
  <2>1. \A i \in 1..n : piece(i) = ChunkOf(c, nonce, i, writes[i])
    BY <1>2 DEF ChunkOf, SsChunkOf
  <2>2. SsWire(nonce, writes) = FlattenSeq([i \in 1..n |-> piece(i)])
    BY <1>0 DEF SsWire
  <2>. HIDE DEF piece
  <2>3. [i \in 1..n |-> piece(i)] = [i \in 1..n |-> ChunkOf(c, nonce, i, writes[i])]
    BY <2>1
  <2>. QED
    BY <1>0, <1>2, <2>2, <2>3 DEF Wrapped, ChunksOf
<1>. QED
  BY <1>1, <1>2

\* Nothing written is nothing on the wire.
LEMMA WrappedEmpty ==
    ASSUME NEW c, NEW nonce \in Nat
    PROVE  Wrapped(c, nonce, <<>>) = <<>>
<1>1. CASE c.protocol \in {"Vmess", "Shadowsocks"}
  <2>1. PICK none \in Seq(Texts) : none = <<>>
    BY EmptySeq
  <2>2. ChunksOf(c, nonce, <<>>) = <<>>
    BY DEF ChunksOf
  <2>3. Wrapped(c, nonce, none) = FlattenSeq(ChunksOf(c, nonce, none))
    BY <1>1, WrappedIs
  <2>. QED
    BY <2>1, <2>2, <2>3, FlattenEmpty, Zenon
<1>2. CASE c.protocol \notin {"Vmess", "Shadowsocks"}
  BY <1>2 DEF Wrapped
<1>. QED
  BY <1>1, <1>2

\* A wrapped stream is a sequence of fields.
LEMMA WrappedType ==
    ASSUME NEW c, NEW nonce \in Nat, NEW writes \in Seq(Texts)
    PROVE  Wrapped(c, nonce, writes) \in Seq(WireFields)
<1>1. CASE c.protocol \in {"Vmess", "Shadowsocks"}
  BY <1>1, WrappedIs, ChunksType, FlattenType
<1>2. CASE c.protocol \notin {"Vmess", "Shadowsocks"}
  <2>. DEFINE n == Len(writes)
  <2>1. DOMAIN writes = 1..n /\ n \in Nat
    OBVIOUS
  <2>2. \A i \in 1..n : Plain(writes[i]) \in WireFields
    <3>. TAKE i \in 1..n
    <3>1. PICK text \in Texts : text = writes[i]
      BY ElementOfSeq
    <3>. QED
      BY <3>1, FieldsOfWire
  <2>. HIDE DEF n
  <2>3. [i \in 1..n |-> Plain(writes[i])] \in Seq(WireFields)
    BY <2>1, <2>2
  <2>. QED
    BY <1>2, <2>1, <2>3 DEF Wrapped
<1>. QED
  BY <1>1, <1>2

\* A text more is a chunk more, whatever the chunks before it.
LEMMA WrappedAppend ==
    ASSUME NEW c, NEW nonce \in Nat, NEW writes \in Seq(Texts), NEW text \in Texts
    PROVE  Wrapped(c, nonce, Append(writes, text))
             = Wrapped(c, nonce, writes) \o ChunkOf(c, nonce, Len(writes) + 1, text)
<1>0. Append(writes, text) \in Seq(Texts) /\ Len(writes) + 1 \in Nat \ {0}
  BY AppendProperties
<1>. DEFINE last == ChunkOf(c, nonce, Len(writes) + 1, text)
<1>1. last \in Seq(WireFields)
  BY <1>0, ChunkType
<1>2. CASE c.protocol \in {"Vmess", "Shadowsocks"}
  <2>1. ChunksOf(c, nonce, writes) \in Seq(Seq(WireFields))
    BY ChunksType
  <2>2. ChunksOf(c, nonce, Append(writes, text)) = Append(ChunksOf(c, nonce, writes), last)
    BY ChunksAppend
  <2>. HIDE DEF last
  <2>3. FlattenSeq(Append(ChunksOf(c, nonce, writes), last))
          = FlattenSeq(ChunksOf(c, nonce, writes)) \o last
    BY <1>1, <2>1, FlattenAppend
  <2>4. Wrapped(c, nonce, Append(writes, text)) = Wrapped(c, nonce, writes) \o last
    <3>1. Wrapped(c, nonce, writes) = FlattenSeq(ChunksOf(c, nonce, writes))
      BY <1>2, WrappedIs
    <3>2. PICK more \in Seq(Texts) : more = Append(writes, text)
      BY <1>0
    <3>3. Wrapped(c, nonce, more) = FlattenSeq(ChunksOf(c, nonce, more))
      BY <1>2, WrappedIs
    <3>. QED
      BY <2>2, <2>3, <3>1, <3>2, <3>3, Zenon
  <2>. QED
    BY <2>4 DEF last
<1>3. CASE c.protocol \notin {"Vmess", "Shadowsocks"}
  <2>. DEFINE n == Len(writes)
              more == Append(writes, text)
              u == [i \in DOMAIN writes |-> Plain(writes[i])]
              a == [i \in DOMAIN more |-> Plain(more[i])]
              b == u \o <<Plain(text)>>
  <2>1. /\ more \in Seq(Texts) /\ Len(more) = n + 1 /\ n \in Nat
        /\ \A i \in 1..n : more[i] = writes[i]
        /\ more[n + 1] = text /\ DOMAIN writes = 1..n /\ DOMAIN more = 1..(n + 1)
    BY AppendProperties
  <2>2. Wrapped(c, nonce, writes) = u /\ Wrapped(c, nonce, more) = a /\ last = <<Plain(text)>>
    BY <1>3 DEF Wrapped, ChunkOf
  <2>3. u \in Seq(WireFields) /\ a \in Seq(WireFields) /\ Plain(text) \in WireFields
    <3>. HIDE DEF u, a, more
    <3>. QED
      BY <1>0, <2>2, WrappedType, FieldsOfWire DEF more
  <2>4. Len(u) = n /\ Len(a) = n + 1
    <3>1. DOMAIN u = 1..n /\ DOMAIN a = 1..(n + 1)
      BY <2>1
    <3>. HIDE DEF u, a, more, n
    <3>. QED
      BY <2>1, <2>3, <3>1
  <2>5. \A i \in 1..n : u[i] = Plain(writes[i])
    BY <2>1
  <2>6. \A i \in 1..(n + 1) : a[i] = Plain(more[i])
    BY <2>1
  <2>7. /\ b \in Seq(WireFields) /\ Len(b) = n + 1 /\ b[n + 1] = Plain(text)
        /\ \A i \in 1..n : b[i] = u[i]
    <3>. DEFINE x == Plain(text)
    <3>. HIDE DEF x, u, n
    <3>1. u \o <<x>> = Append(u, x) /\ x \in WireFields
      BY <2>3, AppendIsConcat DEF x
    <3>. QED
      BY <2>1, <2>3, <2>4, <3>1, AppendProperties DEF x
  <2>. HIDE DEF a, b, u, more, n
  <2>8. ASSUME NEW i \in 1..(n + 1) PROVE a[i] = b[i]
    <3>1. CASE i = n + 1
      BY <2>1, <2>6, <2>7, <3>1
    <3>2. CASE i # n + 1
      <4>1. i \in 1..n
        BY <2>1, <3>2
      <4>. QED
        BY <2>1, <2>5, <2>6, <2>7, <4>1
    <3>. QED
      BY <3>1, <3>2
  <2>9. a = b
    BY <2>3, <2>4, <2>7, <2>8, SeqEqual
  <2>. HIDE DEF last
  <2>10. Wrapped(c, nonce, more) = Wrapped(c, nonce, writes) \o last
    BY <2>2, <2>9 DEF b
  <2>. QED
    BY <2>10 DEF more, last
<1>. QED
  BY <1>2, <1>3

-----------------------------------------------------------------------------
(* Streams of cells, and how much of one has arrived.                      *)

\* Associative, for cells.
LEMMA CellsAssociative ==
    \A s, t, u \in Seq(WireCells) : Associates(s, t, u)
  BY Associative

\* Cells behind cells are cells.
LEMMA CellsConcat ==
    \A s, t \in Seq(WireCells) : s \o t \in Seq(WireCells) /\ Len(s \o t) = Len(s) + Len(t)
  BY ConcatProperties

\* What is not added to is followed by nothing.
LEMMA NothingAdded ==
    \A s, t \in Seq(WireCells) : (s \o t = s => t = <<>>) /\ (s \o t = <<>> => s = <<>>)
  BY ConcatEqualIffEmpty

\* What is the same before a cut is the same behind it.
LEMMA CellsCancel ==
    \A s, t, u \in Seq(WireCells) : s \o t = s \o u => t = u
  BY ConcatSimplifications

\* The wire of a stream of texts, cell by cell.
Stream(c, nonce, writes) == Bytes(Wrapped(c, nonce, writes))

\* The i-th chunk, cell by cell.
ChunkCells(c, nonce, i, text) == Bytes(ChunkOf(c, nonce, i, text))

\* A stream is a sequence of cells.
LEMMA StreamType ==
    ASSUME NEW c, NEW nonce \in Nat, NEW writes \in Seq(Texts)
    PROVE  Stream(c, nonce, writes) \in Seq(WireCells)
  BY WrappedType, BytesType DEF Stream

\* Nothing written is no cell.
LEMMA StreamEmpty ==
    ASSUME NEW c, NEW nonce \in Nat
    PROVE  Stream(c, nonce, <<>>) = <<>>
  BY WrappedEmpty, BytesEmpty, Zenon DEF Stream

\* A chunk is a sequence of cells.
LEMMA ChunkCellsType ==
    ASSUME NEW c, NEW nonce \in Nat, NEW i \in Nat \ {0}, NEW text \in Texts
    PROVE  ChunkCells(c, nonce, i, text) \in Seq(WireCells)
  BY ChunkType, BytesType DEF ChunkCells

\* A text more is a chunk of cells more.
LEMMA StreamAppend ==
    ASSUME NEW c, NEW nonce \in Nat, NEW writes \in Seq(Texts), NEW text \in Texts
    PROVE  Stream(c, nonce, Append(writes, text))
             = Stream(c, nonce, writes) \o ChunkCells(c, nonce, Len(writes) + 1, text)
<1>1. Len(writes) + 1 \in Nat \ {0}
  OBVIOUS
<1>2. PICK k \in Nat \ {0} : k = Len(writes) + 1
  BY <1>1
<1>3. /\ ChunkOf(c, nonce, k, text) \in Seq(WireFields)
      /\ Wrapped(c, nonce, writes) \in Seq(WireFields)
  BY ChunkType, WrappedType
<1>4. Bytes(Wrapped(c, nonce, writes) \o ChunkOf(c, nonce, k, text))
        = Bytes(Wrapped(c, nonce, writes)) \o Bytes(ChunkOf(c, nonce, k, text))
  BY <1>3, BytesConcat
<1>5. Wrapped(c, nonce, Append(writes, text))
        = Wrapped(c, nonce, writes) \o ChunkOf(c, nonce, k, text)
  BY <1>2, WrappedAppend
<1>. QED
  BY <1>2, <1>4, <1>5 DEF Stream, ChunkCells

\* The stream up to its n-th chunk.
Upto(c, nonce, writes, n) == Stream(c, nonce, SubSeq(writes, 1, n))

\* The first texts.
LEMMA FirstTexts ==
    ASSUME NEW writes \in Seq(Texts), NEW n \in 0..Len(writes)
    PROVE  SubSeq(writes, 1, n) \in Seq(Texts) /\ Len(SubSeq(writes, 1, n)) = n
  OBVIOUS

\* The first chunks of a stream are cells of the first texts.
LEMMA UptoType ==
    ASSUME NEW c, NEW nonce \in Nat, NEW writes \in Seq(Texts), NEW n \in 0..Len(writes)
    PROVE  /\ SubSeq(writes, 1, n) \in Seq(Texts) /\ Len(SubSeq(writes, 1, n)) = n
           /\ Upto(c, nonce, writes, n) \in Seq(WireCells)
           /\ Len(Upto(c, nonce, writes, n)) \in Nat
<1>1. SubSeq(writes, 1, n) \in Seq(Texts) /\ Len(SubSeq(writes, 1, n)) = n
  OBVIOUS
<1>2. PICK part \in Seq(Texts) : part = SubSeq(writes, 1, n)
  BY <1>1
<1>3. Stream(c, nonce, part) \in Seq(WireCells)
  BY StreamType
<1>. QED
  BY <1>1, <1>2, <1>3 DEF Upto

\* No chunk is no cell.
LEMMA UptoNone ==
    ASSUME NEW c, NEW nonce \in Nat, NEW writes \in Seq(Texts)
    PROVE  Upto(c, nonce, writes, 0) = <<>>
<1>1. SubSeq(writes, 1, 0) = <<>>
  OBVIOUS
<1>. QED
  BY <1>1, StreamEmpty, Zenon DEF Upto

\* All chunks are the stream.
LEMMA UptoAll ==
    ASSUME NEW c, NEW nonce \in Nat, NEW writes \in Seq(Texts)
    PROVE  Upto(c, nonce, writes, Len(writes)) = Stream(c, nonce, writes)
<1>1. SubSeq(writes, 1, Len(writes)) = writes
  OBVIOUS
<1>. QED
  BY <1>1, Zenon DEF Upto

\* From one chunk to the next.
LEMMA UptoNext ==
    ASSUME NEW c, NEW nonce \in Nat, NEW writes \in Seq(Texts), NEW n \in 0..(Len(writes) - 1)
    PROVE  /\ writes[n + 1] \in Texts /\ n + 1 \in 1..Len(writes)
           /\ Upto(c, nonce, writes, n + 1)
                = Upto(c, nonce, writes, n) \o ChunkCells(c, nonce, n + 1, writes[n + 1])
<1>1. n + 1 \in 1..Len(writes) /\ n \in 0..Len(writes)
  OBVIOUS
<1>2. PICK text \in Texts : text = writes[n + 1]
  BY <1>1, ElementOfSeq
<1>3. PICK part \in Seq(Texts) : part = SubSeq(writes, 1, n) /\ Len(part) = n
  BY <1>1, FirstTexts, Zenon
<1>4. SubSeq(writes, 1, n + 1) = Append(part, text)
  BY <1>2, <1>3
<1>5. Stream(c, nonce, Append(part, text))
        = Stream(c, nonce, part) \o ChunkCells(c, nonce, n + 1, text)
  BY <1>3, StreamAppend
<1>. QED
  BY <1>1, <1>2, <1>3, <1>4, <1>5 DEF Upto

\* The stream up to its m-th chunk goes on from its n-th.
GoesOn(c, nonce, writes, n, m) ==
    \E rest \in Seq(WireCells) :
        Upto(c, nonce, writes, m) = Upto(c, nonce, writes, n) \o rest

\* A stream goes on from each of its chunks.
LEMMA UptoGoesOn ==
    ASSUME NEW c, NEW nonce \in Nat, NEW writes \in Seq(Texts), NEW n \in 0..Len(writes),
           NEW m \in 0..Len(writes), n <= m
    PROVE  GoesOn(c, nonce, writes, n, m)
<1>. USE DEF GoesOn
<1>. DEFINE Goes(k) == \E rest \in Seq(WireCells) :
                          Upto(c, nonce, writes, k) = Upto(c, nonce, writes, n) \o rest
            T == {k \in n..Len(writes) : ~Goes(k)}
<1>1. SUFFICES ASSUME T # {} PROVE FALSE
  <2>1. m \in n..Len(writes)
    OBVIOUS
  <2>2. Goes(m)
    <3>. HIDE DEF Goes
    <3>. QED
      BY <1>1, <2>1
  <2>. QED
    BY <2>2
<1>2. PICK k \in T : \A j \in T : k <= j
  <2>1. T \in SUBSET Nat
    OBVIOUS
  <2>. HIDE DEF T
  <2>. QED
    BY <1>1, <2>1, MinIsMember
<1>3. k \in n..Len(writes) /\ ~Goes(k)
  BY <1>2
<1>4. CASE k = n
  <2>1. Upto(c, nonce, writes, n) \in Seq(WireCells)
    BY UptoType
  <2>2. Upto(c, nonce, writes, k) = Upto(c, nonce, writes, n) \o <<>> /\ <<>> \in Seq(WireCells)
    BY <1>4, <2>1, ConcatEmptySeq, EmptySeq
  <2>. QED
    BY <1>3, <2>2
<1>5. CASE k # n
  <2>1. k - 1 \in n..Len(writes) /\ ~(k <= k - 1) /\ k - 1 \in 0..(Len(writes) - 1)
        /\ (k - 1) + 1 = k
    BY <1>3, <1>5
  <2>2. Goes(k - 1)
    <3>. HIDE DEF Goes
    <3>. QED
      BY <1>2, <2>1
  <2>3. PICK rest \in Seq(WireCells) :
           Upto(c, nonce, writes, k - 1) = Upto(c, nonce, writes, n) \o rest
    BY <2>2
  <2>4. /\ writes[k] \in Texts
        /\ Upto(c, nonce, writes, k)
             = Upto(c, nonce, writes, k - 1) \o ChunkCells(c, nonce, k, writes[k])
    BY <2>1, UptoNext
  <2>5. PICK chunk \in Seq(WireCells) : chunk = ChunkCells(c, nonce, k, writes[k])
    <3>1. k \in Nat \ {0}
      BY <1>3, <1>5
    <3>. QED
      BY <2>4, <3>1, ChunkCellsType
  <2>6. Upto(c, nonce, writes, n) \in Seq(WireCells)
    BY UptoType
  <2>7. rest \o chunk \in Seq(WireCells)
    BY ConcatProperties
  <2>8. PICK before \in Seq(WireCells) : before = Upto(c, nonce, writes, n)
    BY <2>6
  <2>10. (before \o rest) \o chunk = before \o (rest \o chunk)
    <3>1. Associates(before, rest, chunk)
      BY CellsAssociative
    <3>. QED
      BY <3>1 DEF Associates
  <2>. HIDE DEF T
  <2>9. Goes(k)
    BY <2>3, <2>4, <2>5, <2>7, <2>8, <2>10
  <2>. QED
    BY <1>3, <2>9
<1>. QED
  BY <1>4, <1>5

\* Two ways to cut one sequence.
LEMMA TwoCuts ==
    ASSUME NEW S, NEW s \in Seq(S), NEW rest \in Seq(S), NEW t \in Seq(S), NEW more \in Seq(S),
           s \o rest = t \o more
    PROVE  /\ \A i \in 1..Len(t) : i <= Len(s) => s[i] = t[i]
           /\ Len(t) <= Len(s) => s = t \o SubSeq(s, Len(t) + 1, Len(s))
<1>1. /\ Len(s \o rest) = Len(s) + Len(rest) /\ Len(t \o more) = Len(t) + Len(more)
      /\ \A i \in 1..Len(s) + Len(rest) :
            (s \o rest)[i] = IF i <= Len(s) THEN s[i] ELSE rest[i - Len(s)]
      /\ \A i \in 1..Len(t) + Len(more) :
            (t \o more)[i] = IF i <= Len(t) THEN t[i] ELSE more[i - Len(t)]
  BY ConcatProperties
<1>2. Len(s) \in Nat /\ Len(t) \in Nat /\ Len(rest) \in Nat /\ Len(more) \in Nat
  BY LenProperties
<1>3. ASSUME NEW i \in 1..Len(t), i <= Len(s) PROVE s[i] = t[i]
  <2>1. i \in 1..Len(t) + Len(more) /\ i \in 1..Len(s) + Len(rest) /\ i <= Len(t)
    BY <1>2, <1>3
  <2>2. (s \o rest)[i] = s[i] /\ (t \o more)[i] = t[i]
    BY <1>1, <1>3, <2>1
  <2>. QED
    BY <2>2
<1>4. ASSUME Len(t) <= Len(s) PROVE s = t \o SubSeq(s, Len(t) + 1, Len(s))
  <2>1. s = SubSeq(s, 1, Len(t)) \o SubSeq(s, Len(t) + 1, Len(s))
    <3>1. /\ 1 \in 1..Len(s) + 1 /\ Len(t) \in (1 - 1)..Len(s) /\ Len(s) \in Len(t)..Len(s)
          /\ SubSeq(s, 1, Len(s)) = s
      BY <1>2, <1>4, SubSeqFull
    <3>. QED
      BY <3>1, ConcatAdjacentSubSeq
  <2>2. SubSeq(s, 1, Len(t)) \in Seq(S) /\ Len(SubSeq(s, 1, Len(t))) = Len(t)
        /\ \A i \in 1..Len(t) : SubSeq(s, 1, Len(t))[i] = s[i]
    BY <1>2, <1>4
  <2>3. SubSeq(s, 1, Len(t)) = t
    <3>1. PICK u \in Seq(S) : u = SubSeq(s, 1, Len(t))
      BY <2>2
    <3>2. Len(u) = Len(t) /\ \A i \in 1..Len(u) : u[i] = t[i]
      BY <1>2, <1>3, <1>4, <2>2, <3>1
    <3>. QED
      BY <3>1, <3>2, SeqEqual
  <2>. QED
    BY <2>1, <2>3
<1>. QED
  BY <1>3, <1>4

\* in, which is the beginning of a stream, has its n first chunks and then pending.
Reached(c, nonce, writes, in, n, pending) ==
    /\ in = Upto(c, nonce, writes, n) \o pending
    /\ \E rest \in Seq(WireCells) : Stream(c, nonce, writes) = in \o rest

\* What follows the same cells is the same.
OneStream(b, p, r, t, m) == (b \o p) \o r = (b \o t) \o m

\* Two ways to cut one sequence of cells.
Follows(p, r, t, m) == p \o r = t \o m

\* Behind the same beginning, two cuts of a stream follow it alike.
LEMMA SameFollows ==
    ASSUME NEW b \in Seq(WireCells), NEW p \in Seq(WireCells), NEW r \in Seq(WireCells),
           NEW t \in Seq(WireCells), NEW m \in Seq(WireCells), OneStream(b, p, r, t, m)
    PROVE  Follows(p, r, t, m)
<1>1. (b \o p) \o r = b \o (p \o r)
  <2>1. Associates(b, p, r)
    BY CellsAssociative
  <2>. QED
    BY <2>1 DEF Associates
<1>2. (b \o t) \o m = b \o (t \o m)
  <2>1. Associates(b, t, m)
    BY CellsAssociative
  <2>. QED
    BY <2>1 DEF Associates
<1>3. p \o r \in Seq(WireCells) /\ t \o m \in Seq(WireCells)
  BY CellsConcat
<1>. QED
  BY <1>1, <1>2, <1>3, CellsCancel DEF OneStream, Follows

\* p, after b, begins with t or is the beginning of it.
CutAs(b, p, t) ==
    /\ \A i \in 1..Len(t) : i <= Len(p) => p[i] = t[i]
    /\ Len(t) <= Len(p) => b \o p = (b \o t) \o SubSeq(p, Len(t) + 1, Len(p))

\* Of what is pending and the next chunk, the shorter one begins the longer.
LEMMA CutPending ==
    ASSUME NEW b \in Seq(WireCells), NEW p \in Seq(WireCells), NEW r \in Seq(WireCells),
           NEW t \in Seq(WireCells), NEW m \in Seq(WireCells), OneStream(b, p, r, t, m)
    PROVE  CutAs(b, p, t)
<1>0. Follows(p, r, t, m)
  BY SameFollows
<1>1. p \o r = t \o m
  BY <1>0 DEF Follows
<1>2. /\ \A i \in 1..Len(t) : i <= Len(p) => p[i] = t[i]
      /\ Len(t) <= Len(p) => p = t \o SubSeq(p, Len(t) + 1, Len(p))
  BY <1>1, TwoCuts
<1>3. ASSUME Len(t) <= Len(p) PROVE b \o p = (b \o t) \o SubSeq(p, Len(t) + 1, Len(p))
  <2>1. SubSeq(p, Len(t) + 1, Len(p)) \in Seq(WireCells)
    OBVIOUS
  <2>2. \A tail \in Seq(WireCells) : (b \o t) \o tail = b \o (t \o tail)
    <3>1. \A tail \in Seq(WireCells) : Associates(b, t, tail)
      BY CellsAssociative
    <3>. QED
      BY <3>1 DEF Associates
  <2>. QED
    BY <1>2, <1>3, <2>1, <2>2
<1>. QED
  BY <1>2, <1>3 DEF CutAs

\* What is pending is the beginning of the next chunk, of which there is one if any is pending.
LEMMA NextChunk ==
    ASSUME NEW c, NEW nonce \in Nat, NEW writes \in Seq(Texts), NEW in, NEW n \in 0..Len(writes),
           NEW pending \in Seq(WireCells), Reached(c, nonce, writes, in, n, pending)
    PROVE  /\ n = Len(writes) => pending = <<>>
           /\ n < Len(writes) =>
                LET chunk == ChunkCells(c, nonce, n + 1, writes[n + 1])
                IN  /\ \A i \in 1..Len(chunk) : i <= Len(pending) => pending[i] = chunk[i]
                    /\ Len(chunk) <= Len(pending) =>
                         Reached(c, nonce, writes, in, n + 1,
                                 SubSeq(pending, Len(chunk) + 1, Len(pending)))
<1>1. PICK before \in Seq(WireCells) : before = Upto(c, nonce, writes, n)
  BY UptoType
<1>2. in = before \o pending
  BY <1>1 DEF Reached
<1>3. PICK rest \in Seq(WireCells) : Stream(c, nonce, writes) = (before \o pending) \o rest
  BY <1>2 DEF Reached
<1>4. CASE n = Len(writes)
  <2>1. before = (before \o pending) \o rest
    BY <1>1, <1>3, <1>4, UptoAll
  <2>2. /\ (before \o pending) \o rest = before \o (pending \o rest)
        /\ pending \o rest \in Seq(WireCells)
    <3>1. Associates(before, pending, rest)
      BY CellsAssociative
    <3>. QED
      BY <3>1, CellsConcat DEF Associates
  <2>3. pending \o rest = <<>>
    BY <2>1, <2>2, NothingAdded
  <2>4. pending = <<>>
    BY <2>3, NothingAdded
  <2>. QED
    BY <1>4, <2>4
<1>5. CASE n < Len(writes)
  <2>1. n \in 0..(Len(writes) - 1) /\ n + 1 \in 0..Len(writes) /\ n + 1 \in Nat \ {0}
        /\ Len(writes) \in 0..Len(writes) /\ n + 1 <= Len(writes)
    BY <1>5
  <2>2. PICK k \in Nat \ {0} : k = n + 1
    BY <2>1
  <2>3. writes[k] \in Texts /\ k \in 0..Len(writes) /\ k <= Len(writes)
        /\ Upto(c, nonce, writes, k) = before \o ChunkCells(c, nonce, k, writes[k])
    BY <1>1, <2>1, <2>2, UptoNext
  <2>4. PICK chunk \in Seq(WireCells) : chunk = ChunkCells(c, nonce, k, writes[k])
    BY <2>3, ChunkCellsType
  <2>5. PICK more \in Seq(WireCells) : Stream(c, nonce, writes) = Upto(c, nonce, writes, k) \o more
    <3>1. PICK m \in 0..Len(writes) : m = Len(writes)
      BY <2>1
    <3>2. k <= m
      BY <2>3, <3>1
    <3>3. PICK more \in Seq(WireCells) :
            Upto(c, nonce, writes, m) = Upto(c, nonce, writes, k) \o more
      <4>1. GoesOn(c, nonce, writes, k, m)
        BY <2>3, <3>2, UptoGoesOn
      <4>. QED
        BY <4>1 DEF GoesOn
    <3>4. Upto(c, nonce, writes, m) = Stream(c, nonce, writes)
      BY <3>1, UptoAll
    <3>. QED
      BY <3>3, <3>4
  <2>6. OneStream(before, pending, rest, chunk, more)
    BY <1>3, <2>3, <2>4, <2>5 DEF OneStream
  <2>7. /\ \A i \in 1..Len(chunk) : i <= Len(pending) => pending[i] = chunk[i]
        /\ Len(chunk) <= Len(pending) =>
             before \o pending = (before \o chunk) \o SubSeq(pending, Len(chunk) + 1, Len(pending))
    <3>1. CutAs(before, pending, chunk)
      BY <2>6, CutPending
    <3>. QED
      BY <3>1 DEF CutAs
  <2>8. ASSUME Len(chunk) <= Len(pending)
        PROVE  Reached(c, nonce, writes, in, n + 1,
                       SubSeq(pending, Len(chunk) + 1, Len(pending)))
    BY <1>2, <2>2, <2>3, <2>4, <2>7, <2>8 DEF Reached
  <2>. QED
    BY <1>5, <2>2, <2>4, <2>7, <2>8
<1>. QED
  BY <1>4, <1>5

-----------------------------------------------------------------------------
(* The cells of a chunk, a field at a time.                                *)

\* A chunk is its two fields and what follows them.
LEMMA BytesTwo ==
    ASSUME NEW a \in WireFields, NEW b \in WireFields, NEW more \in Seq(WireFields)
    PROVE  Bytes(<<a, b>> \o more) = (Cells(a) \o Cells(b)) \o Bytes(more)
<1>1. <<a, b>> \in Seq(WireFields) /\ <<a>> \in Seq(WireFields)
  OBVIOUS
<1>2. PICK one \in Seq(WireFields) : one = <<a>>
  BY <1>1
<1>3. PICK two \in Seq(WireFields) : two = <<a, b>>
  BY <1>1
<1>4. Bytes(two \o more) = Bytes(two) \o Bytes(more)
  BY BytesConcat
<1>5. Append(one, b) = two
  <2>1. Append(one, b) \in Seq(WireFields) /\ Len(Append(one, b)) = Len(one) + 1
        /\ (\A i \in 1..Len(one) : Append(one, b)[i] = one[i]) /\ Append(one, b)[Len(one) + 1] = b
    BY AppendProperties
  <2>2. Len(one) = 1 /\ one[1] = a
    BY <1>2
  <2>3. Len(two) = 2 /\ two[1] = a /\ two[2] = b
    BY <1>3
  <2>4. Len(Append(one, b)) = Len(two) /\ Append(one, b)[1] = two[1] /\ Append(one, b)[2] = two[2]
    BY <2>1, <2>2, <2>3
  <2>5. PICK s \in Seq(WireFields) : s = Append(one, b)
    BY <2>1
  <2>6. \A i \in 1..Len(s) : s[i] = two[i]
    BY <2>3, <2>4, <2>5
  <2>. QED
    BY <2>4, <2>5, <2>6, SeqEqual
<1>6. Bytes(Append(one, b)) = Bytes(one) \o Cells(b)
  BY BytesAppend
<1>7. Bytes(one) = Cells(a)
  BY <1>2, BytesOne
<1>. QED
  BY <1>3, <1>4, <1>5, <1>6, <1>7

\* A chunk that consists of two fields, and of more behind them.
MadeOf(chunk, a, b, more) ==
    /\ chunk \in Seq(WireCells)
    /\ Len(chunk) = a.width + b.width + more
    /\ \A i \in 1..a.width : chunk[i] = [field |-> a, part |-> i]
    /\ \A i \in 1..b.width : chunk[a.width + i] = [field |-> b, part |-> i]

\* Two fields and what follows them are made of the two.
LEMMA MadeOfTwo ==
    ASSUME NEW a \in WireFields, NEW b \in WireFields, NEW more \in Seq(WireCells)
    PROVE  MadeOf((Cells(a) \o Cells(b)) \o more, a, b, Len(more))
<1>1. /\ a.width \in Nat /\ b.width \in Nat
      /\ \A i \in 1..a.width : Cells(a)[i] = [field |-> a, part |-> i]
      /\ \A i \in 1..b.width : Cells(b)[i] = [field |-> b, part |-> i]
  BY CellsOfField
<1>2. PICK s \in Seq(WireCells) : s = Cells(a) /\ Len(s) = a.width
  BY CellsOfField
<1>3. PICK t \in Seq(WireCells) : t = Cells(b) /\ Len(t) = b.width
  BY CellsOfField
<1>4. PICK st \in Seq(WireCells) :
         /\ st = s \o t /\ Len(st) = a.width + b.width
         /\ \A i \in 1..a.width : st[i] = s[i]
         /\ \A i \in 1..b.width : st[a.width + i] = t[i]
  <2>1. s \o t \in Seq(WireCells) /\ Len(s \o t) = a.width + b.width
    BY <1>2, <1>3, CellsConcat
  <2>2. \A i \in 1..a.width : (s \o t)[i] = s[i]
    BY <1>1, <1>2, <1>3
  <2>3. \A i \in 1..b.width : (s \o t)[a.width + i] = t[i]
    <3>1. PICK v \in Nat, w \in Nat : v = a.width /\ w = b.width
      BY <1>1
    <3>2. \A i \in 1..w : (s \o t)[v + i] = t[i]
      <4>1. Len(s) = v /\ Len(t) = w
        BY <1>2, <1>3, <3>1
      <4>. QED
        BY <4>1
    <3>. QED
      BY <3>1, <3>2
  <2>. QED
    BY <2>1, <2>2, <2>3
<1>5. /\ st \o more \in Seq(WireCells) /\ Len(st \o more) = Len(st) + Len(more)
      /\ \A i \in 1..Len(st) : (st \o more)[i] = st[i]
  BY CellsConcat
<1>6. \A i \in 1..a.width : i \in 1..Len(st)
  BY <1>1, <1>4
<1>7. \A i \in 1..b.width : a.width + i \in 1..Len(st)
  BY <1>1, <1>4
<1>8. \A i \in 1..a.width : (st \o more)[i] = [field |-> a, part |-> i]
  BY <1>1, <1>2, <1>4, <1>5, <1>6, Zenon
<1>9. \A i \in 1..b.width : (st \o more)[a.width + i] = [field |-> b, part |-> i]
  BY <1>1, <1>3, <1>4, <1>5, <1>7, Zenon
<1>10. st \o more = (Cells(a) \o Cells(b)) \o more
  BY <1>2, <1>3, <1>4, Zenon
<1>11. st \o more \in Seq(WireCells) /\ Len(st \o more) = a.width + b.width + Len(more)
  BY <1>4, <1>5
<1>. QED
  BY <1>8, <1>9, <1>10, <1>11, Zenon DEF MadeOf

\* A chunk that arrives in part shows whole fields.
Begins(pending, chunk) == \A i \in 1..Len(chunk) : i <= Len(pending) => pending[i] = chunk[i]

\* A field stands in the pending cells, behind the first ones.
Shows(pending, from, field) == SubSeq(pending, from + 1, from + field.width) = Cells(field)

\* Cells that begin with a chunk show its first field as soon as they are as many.
LEMMA FirstField ==
    ASSUME NEW chunk, NEW a \in WireFields, NEW b \in WireFields, NEW more \in Nat,
           MadeOf(chunk, a, b, more), NEW pending \in Seq(WireCells),
           Begins(pending, chunk),
           a.width <= Len(pending)
    PROVE  Shows(pending, 0, a)
<1>1. a.width \in Nat /\ b.width \in Nat
  BY CellsOfField
<1>2. /\ SubSeq(pending, 1, a.width) \in Seq(WireCells)
      /\ Len(SubSeq(pending, 1, a.width)) = a.width
      /\ \A i \in 1..a.width : SubSeq(pending, 1, a.width)[i] = pending[i]
  BY <1>1
<1>3. \A i \in 1..a.width : i \in 1..Len(chunk) /\ i <= Len(pending)
  BY <1>1 DEF MadeOf
<1>4. \A i \in 1..a.width : SubSeq(pending, 1, a.width)[i] = Cells(a)[i]
  <2>. SUFFICES ASSUME NEW i \in 1..a.width
                PROVE  SubSeq(pending, 1, a.width)[i] = Cells(a)[i]
    OBVIOUS
  <2>1. SubSeq(pending, 1, a.width)[i] = pending[i]
    BY <1>2
  <2>2. pending[i] = chunk[i]
    BY <1>3 DEF Begins
  <2>3. chunk[i] = [field |-> a, part |-> i]
    BY DEF MadeOf
  <2>4. Cells(a)[i] = [field |-> a, part |-> i]
    BY CellsOfField
  <2>. QED
    BY <2>1, <2>2, <2>3, <2>4
<1>5. PICK s \in Seq(WireCells) : s = SubSeq(pending, 1, a.width)
  BY <1>2
<1>6. PICK t \in Seq(WireCells) : t = Cells(a)
  BY CellsOfField
<1>7. s = t
  BY <1>2, <1>4, <1>5, <1>6, CellsOfField, SeqEqual
<1>. QED
  BY <1>1, <1>5, <1>6, <1>7 DEF Shows

\* And its second field.
LEMMA SecondField ==
    ASSUME NEW chunk, NEW a \in WireFields, NEW b \in WireFields, NEW more \in Nat,
           MadeOf(chunk, a, b, more), NEW pending \in Seq(WireCells),
           Begins(pending, chunk),
           a.width + b.width <= Len(pending)
    PROVE  Shows(pending, a.width, b)
<1>1. a.width \in Nat /\ b.width \in Nat
  BY CellsOfField
<1>. DEFINE part == SubSeq(pending, a.width + 1, a.width + b.width)
<1>2. /\ part \in Seq(WireCells)
      /\ Len(part) = b.width
      /\ \A i \in 1..b.width : part[i] = pending[a.width + i]
  <2>1. PICK from \in Nat, to \in Nat : from = a.width + 1 /\ to = a.width + b.width
    BY <1>1
  <2>2. \A i \in from..to : i \in 1..Len(pending)
    BY <1>1, <2>1
  <2>3. \A i \in from..to : pending[i] \in WireCells
    BY <2>2, ElementOfSeq
  <2>4. /\ SubSeq(pending, from, to) \in Seq(WireCells)
        /\ Len(SubSeq(pending, from, to)) = IF from <= to THEN to - from + 1 ELSE 0
        /\ \A i \in 1..to - from + 1 : SubSeq(pending, from, to)[i] = pending[from + i - 1]
    BY <2>3, SubSeqProperties
  <2>5. to - from + 1 = b.width /\ (~(from <= to) => b.width = 0)
    BY <1>1, <2>1
  <2>6. \A i \in 1..b.width : from + i - 1 = a.width + i
    BY <1>1, <2>1
  <2>. QED
    BY <1>1, <2>1, <2>4, <2>5, <2>6
<1>3. \A i \in 1..b.width : a.width + i \in 1..Len(chunk) /\ a.width + i <= Len(pending)
  BY <1>1 DEF MadeOf
<1>. HIDE DEF part
<1>4. \A i \in 1..b.width : part[i] = Cells(b)[i]
  <2>. TAKE i \in 1..b.width
  <2>1. part[i] = pending[a.width + i] /\ pending[a.width + i] = chunk[a.width + i]
    BY <1>2, <1>3 DEF Begins
  <2>2. chunk[a.width + i] = [field |-> b, part |-> i]
    BY DEF MadeOf
  <2>3. Cells(b)[i] = [field |-> b, part |-> i]
    BY CellsOfField
  <2>. QED
    BY <2>1, <2>2, <2>3
<1>6. PICK t \in Seq(WireCells) : t = Cells(b)
  BY CellsOfField
<1>7. part = t
  BY <1>2, <1>4, <1>6, CellsOfField, SeqEqual
<1>. QED
  BY <1>6, <1>7 DEF part, Shows

-----------------------------------------------------------------------------
(* One turn of a decoder.                                                  *)

\* A VMess chunk is a masked length, the sealed text and padding.
LEMMA VmessChunkCells ==
    ASSUME NEW c, c.protocol = "Vmess", NEW i \in Nat \ {0}, NEW text \in Texts
    PROVE  MadeOf(ChunkCells(c, 2, i, text),
                     LengthField(Len(text) + Tag + Framing(c, i).padding, Framing(c, i).mask),
                     Sealed((i - 1) % CounterWrap, text), Framing(c, i).padding)
<1>1. Framing(c, i).padding \in {0, 1} /\ Framing(c, i).mask \in Nat
  BY FramingType
<1>2. PICK p \in {0, 1} : p = Framing(c, i).padding
  BY <1>1
<1>3. (i - 1) % CounterWrap \in Nat /\ Len(text) + Tag + p \in Nat
  <2>1. i - 1 \in Nat
    OBVIOUS
  <2>2. (i - 1) % CounterWrap \in Nat
    BY <2>1, NonceType
  <2>3. Len(text) + Tag + p \in Nat
    BY <1>2, TextLen DEF Tag
  <2>. QED
    BY <2>2, <2>3
<1>4. PICK a \in WireFields : a = LengthField(Len(text) + Tag + p, Framing(c, i).mask)
  BY <1>1, <1>3, FieldsOfWire
<1>5. PICK b \in WireFields : b = Sealed((i - 1) % CounterWrap, text)
  BY <1>3, FieldsOfWire
<1>6. PICK more \in Seq(WireFields) : more = Padding(p)
  BY PaddingType
<1>7. ChunkOf(c, 2, i, text) = <<a, b>> \o more
  BY <1>2, <1>4, <1>5, <1>6 DEF ChunkOf, VmessChunkOf
<1>8. Bytes(<<a, b>> \o more) = (Cells(a) \o Cells(b)) \o Bytes(more)
  BY BytesTwo
<1>9. PICK rest \in Seq(WireCells) : rest = Bytes(more)
  BY BytesType
<1>10. Len(rest) = p
  <2>1. CASE p = 0
    <3>1. rest = <<>>
      BY <1>6, <1>9, <2>1, BytesEmpty DEF Padding
    <3>. QED
      BY <2>1, <3>1
  <2>2. CASE p = 1
    <3>1. more = <<Other("padding", 1)>>
      BY <1>6, <2>2 DEF Padding
    <3>2. PICK f \in WireFields : f = Other("padding", 1) /\ f.width = 1
      <4>1. Other("padding", 1) \in WireFields /\ Other("padding", 1).width = 1
        BY FieldsOfWire DEF OtherKinds, Other
      <4>. QED
        BY <4>1
    <3>3. rest = Cells(f)
      BY <1>9, <3>1, <3>2, BytesOne
    <3>. QED
      BY <2>2, <3>2, <3>3, CellsOfField
  <2>. QED
    BY <2>1, <2>2
<1>11. MadeOf((Cells(a) \o Cells(b)) \o rest, a, b, Len(rest))
  BY MadeOfTwo
<1>12. ChunkCells(c, 2, i, text) = (Cells(a) \o Cells(b)) \o rest
  BY <1>7, <1>8, <1>9, Zenon DEF ChunkCells
<1>13. MadeOf(ChunkCells(c, 2, i, text), a, b, p)
  BY <1>10, <1>11, <1>12, Zenon
<1>. QED
  BY <1>2, <1>4, <1>5, <1>13, Zenon

\* A Shadowsocks chunk is a sealed length and the sealed text.
LEMMA SsChunkCells ==
    ASSUME NEW c, c.protocol = "Shadowsocks", NEW i \in Nat \ {0}, NEW text \in Texts
    PROVE  MadeOf(ChunkCells(c, 2, i, text), Sealed(2 + 2 * (i - 1), <<Len(text)>>),
                     Sealed(2 + 2 * i - 1, text), 0)
<1>1. 2 + 2 * (i - 1) \in Nat /\ 2 + 2 * i - 1 \in Nat /\ <<Len(text)>> \in Texts
  BY TextLen
<1>2. PICK a \in WireFields : a = Sealed(2 + 2 * (i - 1), <<Len(text)>>)
  BY <1>1, FieldsOfWire
<1>3. PICK b \in WireFields : b = Sealed(2 + 2 * i - 1, text)
  BY <1>1, FieldsOfWire
<1>4. PICK two \in Seq(WireFields) : two = <<a, b>>
  BY TwoFieldsOf
<1>5. PICK none \in Seq(WireFields) : none = <<>>
  BY EmptySeq
<1>6. two \o none = two
  BY <1>5, ConcatEmptySeq
<1>7. ChunkOf(c, 2, i, text) = <<a, b>> \o none
  BY <1>2, <1>3, <1>4, <1>6 DEF ChunkOf, SsChunkOf
<1>8. Bytes(<<a, b>> \o none) = (Cells(a) \o Cells(b)) \o Bytes(none)
  BY BytesTwo
<1>9. PICK rest \in Seq(WireCells) : rest = <<>> /\ Len(rest) = 0
  BY EmptySeq
<1>10. Bytes(none) = rest
  BY <1>5, <1>9, BytesEmpty
<1>11. MadeOf((Cells(a) \o Cells(b)) \o rest, a, b, Len(rest))
  BY MadeOfTwo
<1>12. ChunkCells(c, 2, i, text) = (Cells(a) \o Cells(b)) \o rest
  BY <1>7, <1>8, <1>10, Zenon DEF ChunkCells
<1>13. MadeOf(ChunkCells(c, 2, i, text), a, b, 0)
  BY <1>9, <1>11, <1>12, Zenon
<1>. QED
  BY <1>2, <1>3, <1>13, Zenon

\* What a whole field opens to.
LEMMA OpenedIs ==
    ASSUME NEW nonce \in Nat, NEW text \in Texts
    PROVE  Opened(Cells(Sealed(nonce, text)), nonce) = {text}
<1>1. PICK b \in WireFields : b = Sealed(nonce, text)
  BY FieldsOfWire
<1>2. b.width \in Nat \ {0} /\ b.kind = "sealed" /\ b.nonce = nonce /\ b.text = text
  BY <1>1, TextLen DEF Sealed, Tag
<1>3. 1 \in 1..b.width
  BY <1>2
<1>4. Cells(b)[1] = [field |-> b, part |-> 1]
  BY <1>3, CellsOfField
<1>5. Cells(b)[1].field = b
  BY <1>4
<1>. QED
  BY <1>1, <1>2, <1>5 DEF Opened

\* The mask a length was written under uncovers it, and nothing else.
LEMMA UnmaskedIs ==
    ASSUME NEW size \in Nat, NEW mask \in Nat
    PROVE  Unmasked(Cells(LengthField(size, mask)), mask) = {size}
<1>1. PICK b \in WireFields : b = LengthField(size, mask)
  BY FieldsOfWire
<1>2. b.width = 2 /\ b.kind = "length" /\ b.mask = mask /\ b.size = size
  BY <1>1 DEF LengthField
<1>3. 1 \in 1..b.width
  BY <1>2
<1>4. Cells(b)[1] = [field |-> b, part |-> 1]
  BY <1>3, CellsOfField
<1>5. Cells(b)[1].field = b
  BY <1>4
<1>. QED
  BY <1>1, <1>2, <1>5 DEF Unmasked

\* A decoder by its fields.
DecoderFields ==
    {"protocol", "options", "draws", "counter", "pending", "known", "initial",
     "finished", "failed", "out"}

\* A decoder, field by field.
DecoderIs(d, c, draws, counter, pending, known, finished, out) ==
    /\ DOMAIN d = DecoderFields
    /\ d.protocol = c.protocol /\ d.options = c.options
    /\ d.draws = draws /\ d.counter = counter /\ d.pending = pending /\ d.known = known
    /\ d.initial = <<>> /\ (d.finished <=> finished) /\ ~d.failed /\ d.out = out

\* The least of one size.
LEMMA OneSize ==
    ASSUME NEW size \in Nat
    PROVE  Min({size}) = size
<1>1. {size} \in SUBSET Nat /\ {size} # {}
  OBVIOUS
<1>2. Min({size}) \in {size}
  BY <1>1, MinIsMember
<1>. QED
  BY <1>2

\* The counter of the next chunk.
LEMMA NextNonce ==
    ASSUME NEW n \in Nat
    PROVE  ((n % CounterWrap) + 1) % CounterWrap = (n + 1) % CounterWrap
<1>1. PICK w \in Nat \ {0} : w = CounterWrap
  BY CodecAssumption
<1>2. /\ n \div w \in Nat /\ n % w \in Nat /\ n = w * (n \div w) + (n % w) /\ n % w <= w - 1
  BY <1>1
<1>3. PICK q \in Nat, r \in 0..(w - 1) : r = n % w /\ n = w * q + r
  <2>1. PICK q \in Nat : q = n \div w
    BY <1>2
  <2>2. PICK r \in 0..(w - 1) : r = n % w
    BY <1>2
  <2>3. n = w * q + r
    BY <1>2, <2>1, <2>2
  <2>. QED
    BY <2>2, <2>3
<1>4. CASE r + 1 < w
  <2>1. n + 1 = w * q + (r + 1) /\ r + 1 \in 0..(w - 1)
    BY <1>3, <1>4
  <2>2. PICK s \in 0..(w - 1) : s = r + 1
    BY <2>1
  <2>3. (w * q + s) % w = s /\ (w * 0 + s) % w = s
    OBVIOUS
  <2>. QED
    BY <1>1, <1>3, <2>1, <2>2, <2>3
<1>5. CASE r + 1 = w
  <2>1. n + 1 = w * (q + 1) + 0 /\ q + 1 \in Nat /\ 0 \in 0..(w - 1)
    BY <1>3, <1>5
  <2>2. (w * (q + 1) + 0) % w = 0 /\ w % w = 0
    BY <2>1
  <2>. QED
    BY <1>1, <1>3, <1>5, <2>1, <2>2
<1>. QED
  BY <1>3, <1>4, <1>5

\* A chunk is taken from what is pending.
LEMMA VmessTakes ==
    ASSUME NEW c, NEW draws, NEW counter, NEW pending, NEW known, NEW finished, NEW out,
           NEW text, NEW size, NEW e,
           DecoderIs(e, c, draws, counter, pending, known, finished, out),
           Opened(SubSeq(e.pending, 3, 2 + size - e.known[1].padding), e.counter) = {text}
    PROVE  DecoderIs(VmessChunk(e, size), c, draws, (counter + 1) % CounterWrap,
                     Rest(pending, 2 + size), <<>>, text = <<>>, out \o text)
<1>1. (CHOOSE t \in {text} : TRUE) = text
  OBVIOUS
<1>2. e.pending = pending /\ e.counter = counter /\ e.out = out
  BY DEF DecoderIs
<1>3. VmessChunk(e, size) =
        [e EXCEPT !.known = <<>>, !.pending = Rest(@, 2 + size),
                  !.counter = (@ + 1) % CounterWrap,
                  !.failed = FALSE, !.finished = {text} = {<<>>}, !.out = @ \o text]
  BY <1>1 DEF VmessChunk
<1>4. /\ DOMAIN e = DecoderFields /\ e.protocol = c.protocol /\ e.options = c.options
      /\ e.draws = draws /\ e.initial = <<>>
  BY DEF DecoderIs
<1>5. PICK f : f = VmessChunk(e, size)
  OBVIOUS
<1>6. /\ DOMAIN f = DecoderFields /\ f.protocol = c.protocol /\ f.options = c.options
      /\ f.draws = draws /\ f.initial = <<>>
  BY <1>3, <1>4, <1>5 DEF DecoderFields
<1>7. f.known = <<>> /\ f.pending = Rest(pending, 2 + size) /\ f.out = out \o text
  BY <1>2, <1>3, <1>4, <1>5 DEF DecoderFields
<1>8. f.counter = (counter + 1) % CounterWrap
  BY <1>2, <1>3, <1>4, <1>5 DEF DecoderFields
<1>9. f.finished = ({text} = {<<>>}) /\ f.failed = FALSE
  BY <1>3, <1>4, <1>5 DEF DecoderFields
<1>10. {text} = {<<>>} <=> text = <<>>
  BY Zenon
<1>11. (f.finished <=> text = <<>>) /\ ~f.failed
  BY <1>9, <1>10, Zenon
<1>. QED
  BY <1>5, <1>6, <1>7, <1>8, <1>11 DEF DecoderIs

\* The VMess decoder looks at its next chunk, of which it has the framing already or not.
LEMMA VmessTurn ==
    ASSUME NEW c, c.protocol = "Vmess", Supported(c), NEW n \in Nat, NEW text \in Texts,
           Len(text) <= MaxText, NEW ahead \in {0, 1}, NEW pending \in Seq(WireCells),
           NEW out, NEW chunk, chunk = ChunkCells(c, 2, n + 1, text),
           Begins(pending, chunk), 2 <= Len(pending), NEW d,
           DecoderIs(d, c, PerChunk(c) * (n + ahead), n % CounterWrap, pending,
                     IF ahead = 0 THEN <<>> ELSE <<Framing(c, n + 1)>>, FALSE, out)
    PROVE  /\ Len(pending) < Len(chunk) =>
                DecoderIs(VmessStep(d), c, PerChunk(c) * (n + 1), n % CounterWrap, pending,
                          <<Framing(c, n + 1)>>, FALSE, out)
           /\ Len(chunk) <= Len(pending) =>
                DecoderIs(VmessStep(d), c, PerChunk(c) * (n + 1), (n + 1) % CounterWrap,
                          Rest(pending, Len(chunk)), <<>>, text = <<>>, out \o text)
<1>1. PICK k \in Nat \ {0} : k = n + 1 /\ n = k - 1
  <2>1. n + 1 \in Nat \ {0} /\ n = (n + 1) - 1
    OBVIOUS
  <2>. QED
    BY <2>1
<1>2. PICK p \in {0, 1} : p = Framing(c, k).padding
  BY FramingType
<1>3. PICK mask \in Nat : mask = Framing(c, k).mask
  BY FramingType
<1>4. PICK size \in Nat : size = Len(text) + Tag + p /\ Tag + p <= size /\ size <= MaxChunk
  <2>1. Len(text) + Tag + p \in Nat /\ Tag + p <= Len(text) + Tag + p
        /\ Len(text) + Tag + p <= MaxChunk
    BY TextLen, InboundAssumption, CodecAssumption DEF Tag
  <2>. QED
    BY <2>1
<1>5. PICK a \in WireFields : a = LengthField(size, mask) /\ a.width = 2
  BY FieldsOfWire DEF LengthField
<1>6. PICK nonce \in Nat : nonce = n % CounterWrap
  BY NonceType
<1>7. PICK b \in WireFields : b = Sealed(nonce, text) /\ b.width = Len(text) + Tag
  BY FieldsOfWire DEF Sealed
<1>8. MadeOf(chunk, a, b, p)
  BY <1>1, <1>2, <1>3, <1>4, <1>5, <1>6, <1>7, VmessChunkCells
<1>9. Len(chunk) = 2 + size /\ Len(text) \in Nat /\ Len(pending) \in Nat
  <2>1. Len(chunk) = a.width + b.width + p
    BY <1>8 DEF MadeOf
  <2>. QED
    BY <1>4, <1>5, <1>7, <2>1, TextLen DEF Tag
<1>10. SubSeq(pending, 1, 2) = Cells(a)
  <2>1. Shows(pending, 0, a)
    BY <1>5, <1>8, FirstField
  <2>. QED
    BY <1>5, <2>1 DEF Shows
<1>11. Unmasked(SubSeq(pending, 1, 2), mask) = {size}
  BY <1>5, <1>10, UnmaskedIs
<1>. DEFINE framing == Framing(c, k)
            e == Drawn(d)
<1>12. DecoderIs(e, c, PerChunk(c) * k, nonce, pending, <<framing>>, FALSE, out)
  <2>1. PerChunk(c) \in Nat
    BY DrawsOf
  <2>2. CASE ahead = 0
    <3>1. d.known = <<>> /\ d.options = c.options /\ d.draws = PerChunk(c) * (k - 1)
      BY <1>1, <2>1, <2>2 DEF DecoderIs
    <3>2. NextFraming(c.options, PerChunk(c) * (k - 1)) = framing
      BY FramingDrawn
    <3>3. PerChunk(c) * (k - 1) + DrawsPerChunk(c.options) = PerChunk(c) * k
      BY <2>1 DEF PerChunk
    <3>4. Drawn(d) = [d EXCEPT !.known = <<framing>>, !.draws = PerChunk(c) * k]
      BY <3>1, <3>2, <3>3 DEF Drawn
    <3>. HIDE DEF framing
    <3>. QED
      BY <1>6, <2>2, <3>4 DEF DecoderIs, DecoderFields
  <2>3. CASE ahead = 1
    <3>1. d.known = <<framing>>
      BY <1>1, <2>3 DEF DecoderIs
    <3>2. d.known # <<>>
      BY <3>1
    <3>3. Drawn(d) = d
      BY <3>2 DEF Drawn
    <3>. QED
      BY <1>1, <1>6, <2>3, <3>1, <3>3 DEF DecoderIs
  <2>. QED
    BY <2>2, <2>3
<1>13. /\ ~d.finished /\ ~d.failed /\ d.pending = pending
  BY DEF DecoderIs
<1>14. e.pending = pending /\ e.known[1].mask = mask /\ e.known[1].padding = p /\ e.counter = nonce
  <2>. HIDE DEF e
  <2>. QED
    BY <1>2, <1>3, <1>12 DEF DecoderIs
<1>15. {s \in Unmasked(SubSeq(e.pending, 1, 2), e.known[1].mask) :
           Tag + e.known[1].padding <= s /\ s <= MaxChunk} = {size}
  <2>. HIDE DEF e
  <2>. QED
    BY <1>4, <1>11, <1>14
<1>16. VmessStep(d) = IF Len(pending) < 2 + size THEN e ELSE VmessChunk(e, size)
  <2>1. {size} # {} /\ Min({size}) = size
    BY OneSize
  <2>2. ~(Len(d.pending) < 2)
    BY <1>9, <1>13
  <2>3. VmessStep(d) =
          LET sizes == {s \in Unmasked(SubSeq(e.pending, 1, 2), e.known[1].mask) :
                          Tag + e.known[1].padding <= s /\ s <= MaxChunk}
          IN  IF sizes = {} THEN [e EXCEPT !.failed = TRUE]
              ELSE IF Len(e.pending) < 2 + Min(sizes) THEN e ELSE VmessChunk(e, Min(sizes))
    BY <1>13, <2>2 DEF VmessStep
  <2>. HIDE DEF e
  <2>. QED
    BY <1>14, <1>15, <2>1, <2>3
<1>17. ASSUME Len(chunk) <= Len(pending)
       PROVE  DecoderIs(VmessChunk(e, size), c, PerChunk(c) * k, k % CounterWrap,
                        Rest(pending, Len(chunk)), <<>>, text = <<>>, out \o text)
  <2>1. /\ a.width + b.width <= Len(pending)
        /\ a.width + b.width = 2 + size - p
    BY <1>4, <1>5, <1>7, <1>9, <1>17 DEF Tag
  <2>2. SubSeq(pending, 3, 2 + size - p) = Cells(b)
    <3>1. Shows(pending, a.width, b)
      BY <1>8, <2>1, SecondField
    <3>. QED
      BY <1>5, <2>1, <3>1 DEF Shows
  <2>3. Opened(SubSeq(pending, 3, 2 + size - p), nonce) = {text}
    BY <1>7, <2>2, OpenedIs
  <2>4. Opened(SubSeq(e.pending, 3, 2 + size - e.known[1].padding), e.counter) = {text}
    <3>. HIDE DEF e
    <3>. QED
      BY <1>14, <2>3
  <2>5. (nonce + 1) % CounterWrap = k % CounterWrap
    BY <1>1, <1>6, NextNonce
  <2>. HIDE DEF e
  <2>6. DecoderIs(VmessChunk(e, size), c, PerChunk(c) * k, (nonce + 1) % CounterWrap,
                  Rest(pending, 2 + size), <<>>, text = <<>>, out \o text)
    BY <1>12, <2>4, VmessTakes
  <2>. QED
    BY <1>9, <2>5, <2>6
<1>18. CASE Len(pending) < Len(chunk)
  <2>1. VmessStep(d) = e /\ ~(Len(chunk) <= Len(pending))
    BY <1>9, <1>16, <1>18
  <2>. HIDE DEF e
  <2>. QED
    BY <1>1, <1>6, <1>12, <2>1
<1>19. CASE Len(chunk) <= Len(pending)
  <2>1. VmessStep(d) = VmessChunk(e, size) /\ ~(Len(pending) < Len(chunk))
    BY <1>9, <1>16, <1>19
  <2>. HIDE DEF e
  <2>. QED
    BY <1>1, <1>17, <1>19, <2>1
<1>. QED
  BY <1>9, <1>18, <1>19

\* What stays of the pending cells when the first ones are taken.
LEMMA RestIs ==
    ASSUME NEW s \in Seq(WireCells), NEW a \in 0..Len(s)
    PROVE  /\ Rest(s, a) \in Seq(WireCells) /\ Len(Rest(s, a)) = Len(s) - a
           /\ \A i \in 1..Len(s) - a : Rest(s, a)[i] = s[a + i]
<1>1. PICK m \in Nat, n \in Nat : m = a + 1 /\ n = Len(s)
  OBVIOUS
<1>2. \A i \in m..n : s[i] \in WireCells
  <2>1. \A i \in m..n : i \in 1..Len(s)
    BY <1>1
  <2>. QED
    BY <2>1, ElementOfSeq
<1>3. /\ SubSeq(s, m, n) \in Seq(WireCells)
      /\ Len(SubSeq(s, m, n)) = IF m <= n THEN n - m + 1 ELSE 0
      /\ \A i \in 1..n - m + 1 : SubSeq(s, m, n)[i] = s[m + i - 1]
  BY <1>2, SubSeqProperties
<1>4. n - m + 1 = Len(s) - a /\ (~(m <= n) => Len(s) - a = 0)
      /\ \A i \in 1..Len(s) - a : m + i - 1 = a + i
  BY <1>1
<1>. QED
  BY <1>1, <1>3, <1>4 DEF Rest

\* Taking twice takes both.
LEMMA RestOfRest ==
    ASSUME NEW s \in Seq(WireCells), NEW a \in Nat, NEW b \in Nat, a + b <= Len(s)
    PROVE  Rest(Rest(s, a), b) = Rest(s, a + b)
<1>1. a \in 0..Len(s) /\ a + b \in 0..Len(s)
  OBVIOUS
<1>2. PICK t \in Seq(WireCells) :
         t = Rest(s, a) /\ Len(t) = Len(s) - a /\ \A i \in 1..Len(s) - a : t[i] = s[a + i]
  BY <1>1, RestIs
<1>3. b \in 0..Len(t)
  BY <1>1, <1>2
<1>4. PICK u \in Seq(WireCells) :
         u = Rest(t, b) /\ Len(u) = Len(t) - b /\ \A i \in 1..Len(t) - b : u[i] = t[b + i]
  BY <1>3, RestIs
<1>5. PICK v \in Seq(WireCells) :
         /\ v = Rest(s, a + b) /\ Len(v) = Len(s) - (a + b)
         /\ \A i \in 1..Len(s) - (a + b) : v[i] = s[(a + b) + i]
  BY <1>1, RestIs
<1>6. Len(u) = Len(v)
  <2>1. PICK m \in Nat : m = Len(s)
    OBVIOUS
  <2>2. Len(t) = m - a
    BY <1>2, <2>1
  <2>3. Len(u) = (m - a) - b
    BY <1>4, <2>2
  <2>4. Len(v) = m - (a + b)
    BY <1>5, <2>1
  <2>. QED
    BY <2>3, <2>4
<1>7. ASSUME NEW i \in 1..Len(u) PROVE u[i] = v[i]
  <2>1. /\ i \in 1..Len(t) - b /\ b + i \in 1..Len(s) - a /\ a + (b + i) = (a + b) + i
        /\ i \in 1..Len(s) - (a + b)
    BY <1>2, <1>4
  <2>2. u[i] = t[b + i] /\ v[i] = s[(a + b) + i]
    BY <1>4, <1>5, <2>1
  <2>3. t[b + i] = s[a + (b + i)]
    BY <1>2, <2>1
  <2>. QED
    BY <2>1, <2>2, <2>3
<1>8. u = v
  BY <1>6, <1>7, SeqEqual
<1>. QED
  BY <1>2, <1>4, <1>5, <1>8

\* The beginning of a rest.
LEMMA StartOfRest ==
    ASSUME NEW s \in Seq(WireCells), NEW a \in Nat, NEW b \in Nat \ {0}, a + b <= Len(s)
    PROVE  SubSeq(Rest(s, a), 1, b) = SubSeq(s, a + 1, a + b)
<1>1. PICK i \in 1..Len(s), j \in 1..Len(s) : i = a + 1 /\ j = Len(s)
  OBVIOUS
<1>2. 1 \in 1..j - i + 1 /\ b \in 1..j - i + 1 /\ i + 1 - 1 = a + 1 /\ i + b - 1 = a + b
  BY <1>1
<1>3. SubSeq(SubSeq(s, i, j), 1, b) = SubSeq(s, i + 1 - 1, i + b - 1)
  BY <1>2, SubSeqOfSubSeq
<1>. QED
  BY <1>1, <1>2, <1>3 DEF Rest

\* What one turn of the Shadowsocks decoder does with the piece it waits for.
SsNeed(d) == Tag + (IF d.known = <<>> THEN 1 ELSE d.known[1])

\* A Shadowsocks decoder that needs more waits.
LEMMA SsWaits ==
    ASSUME NEW d, Len(d.pending) < SsNeed(d)
    PROVE  SsStep(d) = d
  BY DEF SsStep, SsNeed

\* It takes a length it can open.
LEMMA SsTakesLength ==
    ASSUME NEW c, NEW draws, NEW counter, NEW pending, NEW out, NEW size \in Nat \ {0}, NEW d,
           DecoderIs(d, c, draws, counter, pending, <<>>, FALSE, out),
           ~(Len(pending) < 2), Opened(SubSeq(pending, 1, 2), counter) = {<<size>>}
    PROVE  DecoderIs(SsStep(d), c, draws, counter + 1, Rest(pending, 2), <<size>>, FALSE, out)
<1>1. d.pending = pending /\ d.counter = counter /\ d.out = out /\ d.known = <<>> /\ ~d.failed
  BY DEF DecoderIs
<1>2. Tag + 1 = 2
  BY DEF Tag
<1>3. (CHOOSE t \in {<<size>>} : TRUE) = <<size>>
  OBVIOUS
<1>4. {<<size>>} # {} /\ {<<size>>} # {<<0>>}
  <2>1. <<size>>[1] = size /\ <<0>>[1] = 0
    OBVIOUS
  <2>. QED
    BY <2>1
<1>5. SsStep(d) = [d EXCEPT !.pending = Rest(@, 2), !.counter = @ + 1, !.known = <<size>>]
  BY <1>1, <1>2, <1>3, <1>4 DEF SsStep
<1>. QED
  BY <1>1, <1>5 DEF DecoderIs, DecoderFields

\* It takes a text it can open.
LEMMA SsTakesText ==
    ASSUME NEW c, NEW draws, NEW counter, NEW pending, NEW out, NEW size \in Nat, NEW text, NEW d,
           DecoderIs(d, c, draws, counter, pending, <<size>>, FALSE, out),
           ~(Len(pending) < Tag + size), Opened(SubSeq(pending, 1, Tag + size), counter) = {text}
    PROVE  DecoderIs(SsStep(d), c, draws, counter + 1, Rest(pending, Tag + size), <<>>, FALSE,
                     out \o text)
<1>1. /\ d.pending = pending /\ d.counter = counter /\ d.out = out /\ d.known = <<size>>
      /\ d.known # <<>> /\ d.known[1] = size /\ ~d.failed
  BY DEF DecoderIs
<1>3. (CHOOSE t \in {text} : TRUE) = text
  OBVIOUS
<1>5. SsStep(d) = [d EXCEPT !.pending = Rest(@, Tag + size), !.counter = @ + 1, !.known = <<>>,
                            !.out = @ \o text]
  BY <1>1, <1>3 DEF SsStep
<1>. QED
  BY <1>1, <1>5 DEF DecoderIs, DecoderFields

\* A sealed text is a field as wide as the text and its tag.
LEMMA SealedField ==
    ASSUME NEW nonce \in Nat, NEW text \in Texts
    PROVE  /\ Sealed(nonce, text) \in WireFields
           /\ Sealed(nonce, text).width = Len(text) + Tag /\ Len(text) \in Nat
  BY FieldsOfWire, TextLen DEF Sealed

\* The length of the next text is read, ...
LEMMA SsTurnLength ==
    ASSUME NEW c, c.protocol = "Shadowsocks", NEW n \in Nat, NEW text \in Texts, text # <<>>,
           NEW pending \in Seq(WireCells), NEW out,
           NEW chunk, chunk = ChunkCells(c, 2, n + 1, text),
           Begins(pending, chunk), 2 <= Len(pending), NEW d,
           DecoderIs(d, c, 0, 2 + 2 * n, pending, <<>>, FALSE, out)
    PROVE  DecoderIs(SsStep(d), c, 0, (2 + 2 * n) + 1, Rest(pending, 2), <<Len(text)>>, FALSE, out)
<1>1. PICK k \in Nat \ {0} : k = n + 1 /\ n = k - 1
  <2>1. n + 1 \in Nat \ {0} /\ n = (n + 1) - 1
    OBVIOUS
  <2>. QED
    BY <2>1
<1>2. PICK size \in Nat \ {0} : size = Len(text)
  BY TextLen, EmptySeq DEF Texts
<1>3. PICK nonce \in Nat : nonce = 2 + 2 * (k - 1)
  OBVIOUS
<1>4. PICK next \in Nat : next = 2 + 2 * k - 1
  OBVIOUS
<1>5. <<size>> \in Texts /\ Len(<<size>>) = 1
  BY DEF Texts
<1>6. PICK a \in WireFields : a = Sealed(nonce, <<size>>) /\ a.width = 2
  <2>1. PICK announced \in Texts : announced = <<size>> /\ Len(announced) = 1
    BY <1>5
  <2>2. PICK a \in WireFields : a = Sealed(nonce, announced) /\ a.width = Len(announced) + Tag
    BY SealedField
  <2>. QED
    BY <2>1, <2>2 DEF Tag
<1>7. PICK b \in WireFields : b = Sealed(next, text)
  BY FieldsOfWire
<1>8. MadeOf(chunk, a, b, 0)
  BY <1>1, <1>2, <1>3, <1>4, <1>6, <1>7, SsChunkCells
<1>9. SubSeq(pending, 1, 2) = Cells(a)
  <2>1. Shows(pending, 0, a)
    BY <1>6, <1>8, FirstField
  <2>2. a.width = 2
    BY <1>6
  <2>. QED
    BY <2>1, <2>2 DEF Shows
<1>10. Opened(SubSeq(pending, 1, 2), nonce) = {<<size>>}
  BY <1>5, <1>6, <1>9, OpenedIs
<1>11. nonce = 2 + 2 * n /\ ~(Len(pending) < 2)
  BY <1>1, <1>3
<1>12. DecoderIs(SsStep(d), c, 0, nonce + 1, Rest(pending, 2), <<size>>, FALSE, out)
  BY <1>10, <1>11, SsTakesLength
<1>. QED
  BY <1>2, <1>11, <1>12

\* ... and then the text.
SsSees(d, c, n, text, full, out, chunk) ==
    /\ c.protocol = "Shadowsocks" /\ 2 <= Len(full)
    /\ chunk = ChunkCells(c, 2, n + 1, text) /\ Begins(full, chunk)
    /\ DecoderIs(d, c, 0, (2 + 2 * n) + 1, Rest(full, 2), <<Len(text)>>, FALSE, out)

\* Once it knows the length, it waits for the text or takes it.
LEMMA SsTurnText ==
    ASSUME NEW c, NEW n \in Nat, NEW text \in Texts, NEW full \in Seq(WireCells), NEW out,
           NEW chunk, NEW d, SsSees(d, c, n, text, full, out, chunk)
    PROVE  /\ Len(full) < Len(chunk) => SsStep(d) = d
           /\ Len(chunk) <= Len(full) =>
                DecoderIs(SsStep(d), c, 0, 2 + 2 * (n + 1), Rest(full, Len(chunk)), <<>>, FALSE,
                          out \o text)
<1>0. /\ c.protocol = "Shadowsocks" /\ 2 <= Len(full)
      /\ chunk = ChunkCells(c, 2, n + 1, text) /\ Begins(full, chunk)
      /\ DecoderIs(d, c, 0, (2 + 2 * n) + 1, Rest(full, 2), <<Len(text)>>, FALSE, out)
  BY DEF SsSees
<1>1. PICK k \in Nat \ {0} : k = n + 1 /\ n = k - 1
  <2>1. n + 1 \in Nat \ {0} /\ n = (n + 1) - 1
    OBVIOUS
  <2>. QED
    BY <2>1
<1>2. PICK size \in Nat : size = Len(text)
  BY TextLen
<1>3. PICK nonce \in Nat : nonce = 2 + 2 * (k - 1)
  OBVIOUS
<1>4. PICK next \in Nat : next = 2 + 2 * k - 1
  OBVIOUS
<1>5. <<size>> \in Texts /\ Len(<<size>>) = 1
  BY DEF Texts
<1>6. PICK a \in WireFields : a = Sealed(nonce, <<size>>) /\ a.width = 2
  <2>1. PICK announced \in Texts : announced = <<size>> /\ Len(announced) = 1
    BY <1>5
  <2>2. PICK a \in WireFields : a = Sealed(nonce, announced) /\ a.width = Len(announced) + Tag
    BY SealedField
  <2>. QED
    BY <2>1, <2>2 DEF Tag
<1>7. PICK b \in WireFields : b = Sealed(next, text) /\ b.width = Tag + size
  BY <1>2, SealedField DEF Tag
<1>8. MadeOf(chunk, a, b, 0)
  BY <1>0, <1>1, <1>2, <1>3, <1>4, <1>6, <1>7, SsChunkCells
<1>9. Len(chunk) = 2 + (Tag + size)
  BY <1>6, <1>7, <1>8 DEF MadeOf, Tag
<1>10. Len(Rest(full, 2)) = Len(full) - 2
  <2>1. 2 \in 0..Len(full)
    BY <1>0
  <2>. QED
    BY <2>1, RestIs
<1>11. d.pending = Rest(full, 2) /\ SsNeed(d) = Tag + size
  BY <1>0, <1>2 DEF DecoderIs, SsNeed
<1>12. ASSUME Len(full) < Len(chunk) PROVE SsStep(d) = d
  <2>1. Len(d.pending) < SsNeed(d)
    BY <1>9, <1>10, <1>11, <1>12 DEF Tag
  <2>. QED
    BY <2>1, SsWaits
<1>13. ASSUME Len(chunk) <= Len(full)
       PROVE  DecoderIs(SsStep(d), c, 0, 2 + 2 * (n + 1), Rest(full, Len(chunk)), <<>>, FALSE,
                        out \o text)
  <2>1. Tag + size \in Nat \ {0} /\ 2 + (Tag + size) <= Len(full)
    BY <1>9, <1>13 DEF Tag
  <2>2. SubSeq(Rest(full, 2), 1, Tag + size) = Cells(b)
    <3>1. Shows(full, a.width, b)
      BY <1>0, <1>6, <1>7, <1>8, <2>1, SecondField
    <3>2. PICK w \in Nat \ {0} : w = Tag + size /\ 2 + w <= Len(full)
      BY <2>1
    <3>3. SubSeq(Rest(full, 2), 1, w) = SubSeq(full, 2 + 1, 2 + w)
      <4>1. PICK two \in Nat : two = 2
        OBVIOUS
      <4>2. SubSeq(Rest(full, two), 1, w) = SubSeq(full, two + 1, two + w)
        <5>1. two + w <= Len(full)
          BY <3>2, <4>1
        <5>. QED
          BY <5>1, StartOfRest, Zenon
      <4>. QED
        BY <4>1, <4>2
    <3>. QED
      BY <1>6, <1>7, <3>1, <3>2, <3>3 DEF Shows
  <2>3. Opened(SubSeq(Rest(full, 2), 1, Tag + size), next) = {text}
    BY <1>7, <2>2, OpenedIs
  <2>4. ~(Len(Rest(full, 2)) < Tag + size)
    BY <1>10, <2>1
  <2>5. next = (2 + 2 * n) + 1 /\ next + 1 = 2 + 2 * (n + 1)
    BY <1>1, <1>4
  <2>6. DecoderIs(SsStep(d), c, 0, next + 1, Rest(Rest(full, 2), Tag + size), <<>>, FALSE,
                  out \o text)
    BY <1>0, <1>2, <2>3, <2>4, <2>5, SsTakesText
  <2>7. Rest(Rest(full, 2), Tag + size) = Rest(full, 2 + (Tag + size))
    BY <2>1, RestOfRest
  <2>. QED
    BY <1>9, <2>5, <2>6, <2>7
<1>. QED
  BY <1>2, <1>9, <1>12, <1>13

-----------------------------------------------------------------------------
(* The turns of a call of the decoder.                                     *)

\* What a client may have written: only a VMess stream has an end, which is an empty text.
Sendable(c, writes) ==
    /\ writes \in Seq(Texts)
    /\ \A i \in 1..Len(writes) : Len(writes[i]) <= MaxText
    /\ \A i \in 1..Len(writes) : writes[i] = <<>> => c.protocol = "Vmess" /\ i = Len(writes)

\* The protocols whose bodies are chunks.
Chunked(c) == c.protocol \in {"Vmess", "Shadowsocks"}

\* What is handed on after n texts.
OutAt(first, writes, n) == first \o FlattenSeq(SubSeq(writes, 1, n))

\* Associative, for texts.
LEMMA TextsAssociative ==
    \A s, t, u \in Texts : Associates(s, t, u)
  BY Associative DEF Texts

\* A text behind a text is a text.
LEMMA TextBehindText ==
    \A s, t \in Texts : s \o t \in Texts
  BY ConcatProperties DEF Texts

\* What is out after n texts, and one more.
LEMMA OutNext ==
    ASSUME NEW first \in Texts, NEW writes \in Seq(Texts), NEW n \in 0..(Len(writes) - 1)
    PROVE  /\ OutAt(first, writes, n) \in Texts
           /\ OutAt(first, writes, n) \o writes[n + 1] = OutAt(first, writes, n + 1)
<1>1. n + 1 \in 1..Len(writes) /\ n \in 0..Len(writes)
  OBVIOUS
<1>2. PICK text \in Texts : text = writes[n + 1]
  BY <1>1, ElementOfSeq
<1>3. PICK part \in Seq(Texts) : part = SubSeq(writes, 1, n) /\ Len(part) = n
  BY <1>1, FirstTexts, Zenon
<1>4. SubSeq(writes, 1, n + 1) = Append(part, text)
  BY <1>2, <1>3
<1>5. PICK flat \in Texts : flat = FlattenSeq(part)
  BY <1>3, FlattenType DEF Texts
<1>6. FlattenSeq(Append(part, text)) = flat \o text
  <2>1. part \in Seq(Seq(Nat)) /\ text \in Seq(Nat)
    BY DEF Texts
  <2>. QED
    BY <1>5, <2>1, FlattenAppend
<1>7. first \o flat \in Texts /\ (first \o flat) \o text = first \o (flat \o text)
  <2>1. Associates(first, flat, text)
    BY TextsAssociative
  <2>2. first \o flat \in Texts
    BY TextBehindText
  <2>. QED
    BY <2>1, <2>2 DEF Associates
<1>. QED
  BY <1>2, <1>3, <1>4, <1>5, <1>6, <1>7 DEF OutAt

\* A decoder that has taken the n first chunks; full is what is pending, with the length of the
\* next text if the decoder is ahead of it.
DecoderAt(d, c, writes, in, first, n, ahead, full) ==
    /\ n \in 0..Len(writes) /\ ahead \in {0, 1} /\ full \in Seq(WireCells)
    /\ Reached(c, 2, writes, in, n, full)
    /\ ahead = 1 => n < Len(writes) /\ 2 <= Len(full)
    /\ c.protocol = "Vmess" =>
         DecoderIs(d, c, PerChunk(c) * (n + ahead), n % CounterWrap, full,
                   IF ahead = 0 THEN <<>> ELSE <<Framing(c, n + 1)>>,
                   n # 0 /\ writes[n] = <<>>, OutAt(first, writes, n))
    /\ c.protocol = "Shadowsocks" /\ ahead = 0 =>
         DecoderIs(d, c, 0, 2 + 2 * n, full, <<>>, FALSE, OutAt(first, writes, n))
    /\ c.protocol = "Shadowsocks" /\ ahead = 1 =>
         DecoderIs(d, c, 0, (2 + 2 * n) + 1, Rest(full, 2), <<Len(writes[n + 1])>>, FALSE,
                   OutAt(first, writes, n))

\* The next chunk is not there.
Waits(c, writes, n, full) ==
    n < Len(writes) => Len(full) < Len(ChunkCells(c, 2, n + 1, writes[n + 1]))

\* Another turn finds nothing to take.
Settles(c, writes, n, ahead, full) ==
    Len(full) < 2 \/ ((c.protocol = "Vmess" \/ ahead = 1) /\ Waits(c, writes, n, full))

\* One turn of the loop of a decoder.
Turn(d) == IF d.protocol = "Vmess" THEN VmessStep(d) ELSE SsStep(d)

\* What an unfinished decoder has before it.
Before(c, writes, in, first, n, full, text, chunk) ==
    /\ text = writes[n + 1] /\ chunk = ChunkCells(c, 2, n + 1, text)
    /\ n \in 0..(Len(writes) - 1) /\ n \in Nat /\ n + 1 \in 0..Len(writes)
    /\ Len(text) <= MaxText /\ (c.protocol = "Shadowsocks" => text # <<>>)
    /\ ~(n # 0 /\ writes[n] = <<>>)
    /\ Begins(full, chunk)
    /\ Len(chunk) <= Len(full) => Reached(c, 2, writes, in, n + 1, Rest(full, Len(chunk)))
    /\ OutAt(first, writes, n) \o text = OutAt(first, writes, n + 1)

\* An unfinished decoder always has the next chunk before it, or its beginning.
LEMMA BeforeIt ==
    ASSUME NEW c, NEW writes \in Seq(Texts), Sendable(c, writes), NEW in, NEW first \in Texts,
           NEW n \in Nat, NEW ahead, NEW full \in Seq(WireCells), NEW d,
           DecoderAt(d, c, writes, in, first, n, ahead, full),
           n < Len(writes)
    PROVE  \E text \in Texts, chunk \in Seq(WireCells) :
              Before(c, writes, in, first, n, full, text, chunk)
<1>1. /\ writes \in Seq(Texts) /\ n \in 0..Len(writes) /\ full \in Seq(WireCells)
      /\ Reached(c, 2, writes, in, n, full)
  BY DEF DecoderAt, Sendable
<1>2. n \in 0..(Len(writes) - 1) /\ n + 1 \in 0..Len(writes) /\ n + 1 \in 1..Len(writes)
      /\ n + 1 \in Nat \ {0}
  BY <1>1
<1>3. writes[n + 1] \in Texts
  BY <1>1, <1>2, ElementOfSeq
<1>4. ChunkCells(c, 2, n + 1, writes[n + 1]) \in Seq(WireCells)
  BY <1>2, <1>3, ChunkCellsType
<1>5. Len(writes[n + 1]) <= MaxText /\ (c.protocol = "Shadowsocks" => writes[n + 1] # <<>>)
  BY <1>2 DEF Sendable
<1>6. ~(n # 0 /\ writes[n] = <<>>)
  <2>1. n # 0 => n \in 1..Len(writes) /\ n # Len(writes)
    BY <1>1
  <2>. QED
    BY <2>1 DEF Sendable
<1>7. LET chunk == ChunkCells(c, 2, n + 1, writes[n + 1])
      IN  /\ \A i \in 1..Len(chunk) : i <= Len(full) => full[i] = chunk[i]
          /\ Len(chunk) <= Len(full) =>
               Reached(c, 2, writes, in, n + 1, SubSeq(full, Len(chunk) + 1, Len(full)))
  BY <1>1, NextChunk
<1>8. OutAt(first, writes, n) \o writes[n + 1] = OutAt(first, writes, n + 1)
  BY <1>1, <1>2, OutNext
<1>9. PICK text \in Texts, chunk \in Seq(WireCells) :
         text = writes[n + 1] /\ chunk = ChunkCells(c, 2, n + 1, text)
  BY <1>3, <1>4
<1>10. n \in Nat
  BY <1>1
<1>. QED
  BY <1>2, <1>5, <1>6, <1>7, <1>8, <1>9, <1>10 DEF Before, Begins, Rest

\* A decoder that has all its chunks has nothing pending and does nothing.
LEMMA AllTaken ==
    ASSUME NEW c, Chunked(c), NEW writes \in Seq(Texts), Sendable(c, writes),
           NEW in, NEW first, NEW n \in Nat, NEW ahead, NEW full \in Seq(WireCells), NEW d,
           DecoderAt(d, c, writes, in, first, n, ahead, full), ~(n < Len(writes))
    PROVE  full = <<>> /\ n = Len(writes) /\ ahead = 0 /\ Turn(d) = d
<1>1. /\ writes \in Seq(Texts) /\ n \in 0..Len(writes) /\ full \in Seq(WireCells)
      /\ Reached(c, 2, writes, in, n, full) /\ ahead = 0
  BY DEF DecoderAt, Sendable
<1>2. n = Len(writes)
  BY <1>1
<1>3. full = <<>>
  BY <1>1, <1>2, NextChunk
<1>4. Len(<<>>) = 0 /\ Tag = 1
  BY DEF Tag
<1>5. CASE c.protocol = "Vmess"
  <2>1. d.protocol = "Vmess" /\ d.pending = <<>>
    BY <1>3, <1>5 DEF DecoderAt, DecoderIs
  <2>. QED
    BY <1>1, <1>2, <1>3, <1>4, <2>1 DEF Turn, VmessStep
<1>6. CASE c.protocol = "Shadowsocks"
  <2>1. d.protocol = "Shadowsocks" /\ d.pending = <<>> /\ d.known = <<>>
    BY <1>1, <1>3, <1>6 DEF DecoderAt, DecoderIs
  <2>2. Turn(d) = SsStep(d)
    BY <2>1 DEF Turn
  <2>3. Len(d.pending) < SsNeed(d)
    BY <1>4, <2>1 DEF SsNeed
  <2>. QED
    BY <1>1, <1>2, <1>3, <2>2, <2>3, SsWaits
<1>. QED
  BY <1>5, <1>6 DEF Chunked

\* A turn without the next chunk.
LEMMA TurnWaits ==
    ASSUME NEW c, Chunked(c), Supported(c),
           NEW writes \in Seq(Texts), Sendable(c, writes), NEW in, NEW first \in Texts,
           NEW n \in Nat, NEW ahead, NEW full \in Seq(WireCells), NEW d,
           DecoderAt(d, c, writes, in, first, n, ahead, full),
           Settles(c, writes, n, ahead, full)
    PROVE  \E next \in {0, 1} : /\ ahead = 1 => next = 1
                               /\ DecoderAt(Turn(d), c, writes, in, first, n, next, full)
<1>0. Len(full) < 2 \/ ((c.protocol = "Vmess" \/ ahead = 1) /\ Waits(c, writes, n, full))
  BY DEF Settles
<1>1. CASE ~(n < Len(writes))
  <2>1. Turn(d) = d
    BY <1>1, AllTaken
  <2>2. ahead \in {0, 1}
    BY DEF DecoderAt
  <2>. QED
    BY <2>1, <2>2
<1>2. CASE n < Len(writes)
  <2>. DEFINE out == OutAt(first, writes, n)
  <2>0. PICK text \in Texts, chunk \in Seq(WireCells) :
           Before(c, writes, in, first, n, full, text, chunk)
    BY <1>2, BeforeIt
  <2>1. /\ n \in 0..(Len(writes) - 1) /\ n \in Nat /\ Len(text) <= MaxText
        /\ ~(n # 0 /\ writes[n] = <<>>) /\ Begins(full, chunk)
        /\ (c.protocol = "Shadowsocks" => text # <<>>)
        /\ text = writes[n + 1] /\ chunk = ChunkCells(c, 2, n + 1, text)
    BY <2>0 DEF Before
  <2>2. /\ n \in 0..Len(writes) /\ ahead \in {0, 1} /\ full \in Seq(WireCells)
        /\ Reached(c, 2, writes, in, n, full) /\ (ahead = 1 => 2 <= Len(full))
        /\ Len(full) \in Nat
    BY DEF DecoderAt
  <2>3. CASE c.protocol = "Vmess"
    <3>1. /\ DecoderIs(d, c, PerChunk(c) * (n + ahead), n % CounterWrap, full,
                       IF ahead = 0 THEN <<>> ELSE <<Framing(c, n + 1)>>, FALSE, out)
          /\ Turn(d) = VmessStep(d)
      BY <2>1, <2>3 DEF DecoderAt, DecoderIs, Turn
    <3>2. CASE Len(full) < 2
      <4>1. Turn(d) = d
        BY <3>1, <3>2 DEF DecoderIs, VmessStep
      <4>. QED
        BY <2>2, <4>1
    <3>3. CASE 2 <= Len(full)
      <4>1. Len(full) < Len(chunk)
        BY <1>0, <1>2, <2>1, <2>2, <2>3, <3>3 DEF Waits
      <4>2. DecoderIs(VmessStep(d), c, PerChunk(c) * (n + 1), n % CounterWrap, full,
                      <<Framing(c, n + 1)>>, FALSE, out)
        BY <2>1, <2>2, <2>3, <3>1, <3>3, <4>1, VmessTurn
      <4>3. DecoderIs(Turn(d), c, PerChunk(c) * (n + 1), n % CounterWrap, full,
                      IF 1 = 0 THEN <<>> ELSE <<Framing(c, n + 1)>>,
                      n # 0 /\ writes[n] = <<>>, out)
        BY <2>1, <3>1, <4>2 DEF DecoderIs
      <4>4. DecoderAt(Turn(d), c, writes, in, first, n, 1, full)
        BY <1>2, <2>2, <2>3, <3>3, <4>3 DEF DecoderAt
      <4>. QED
        BY <4>4
    <3>. QED
      BY <2>2, <3>2, <3>3
  <2>4. CASE c.protocol = "Shadowsocks" /\ ahead = 0
    <3>0. Len(full) < 2
      BY <1>0, <2>4
    <3>1. DecoderIs(d, c, 0, 2 + 2 * n, full, <<>>, FALSE, out)
      BY <2>4 DEF DecoderAt
    <3>2. Turn(d) = SsStep(d) /\ Len(d.pending) < SsNeed(d)
      BY <2>4, <3>0, <3>1 DEF DecoderIs, SsNeed, Turn, Tag
    <3>3. Turn(d) = d
      BY <3>2, SsWaits
    <3>. QED
      BY <2>2, <3>3
  <2>5. CASE c.protocol = "Shadowsocks" /\ ahead = 1
    <3>1. /\ DecoderIs(d, c, 0, (2 + 2 * n) + 1, Rest(full, 2), <<Len(text)>>, FALSE, out)
          /\ 2 <= Len(full)
      BY <2>1, <2>5 DEF DecoderAt
    <3>2. Turn(d) = SsStep(d)
      BY <2>5, <3>1 DEF DecoderIs, Turn
    <3>3. Len(full) < Len(chunk)
      BY <1>0, <1>2, <2>1, <2>2, <2>5, <3>1 DEF Waits
    <3>4. SsStep(d) = d
      <4>1. SsSees(d, c, n, text, full, out, chunk)
        BY <2>1, <2>5, <3>1 DEF SsSees
      <4>. QED
        BY <2>1, <3>3, <4>1, SsTurnText
    <3>. QED
      BY <2>2, <3>2, <3>4
  <2>. QED
    BY <2>2, <2>3, <2>4, <2>5 DEF Chunked
<1>. QED
  BY <1>1, <1>2

\* A turn with the next chunk, or in Shadowsocks with its length.
LEMMA TurnTakesVmess ==
    ASSUME NEW c, c.protocol = "Vmess", Supported(c),
           NEW writes \in Seq(Texts), Sendable(c, writes), NEW in, NEW first \in Texts,
           NEW n \in Nat, NEW ahead, NEW full \in Seq(WireCells), NEW d,
           DecoderAt(d, c, writes, in, first, n, ahead, full), n < Len(writes),
           NEW text \in Texts, NEW chunk \in Seq(WireCells),
           Before(c, writes, in, first, n, full, text, chunk), Len(chunk) <= Len(full)
    PROVE  /\ DecoderAt(Turn(d), c, writes, in, first, n + 1, 0, Rest(full, Len(chunk)))
           /\ Len(Turn(d).pending) < Len(d.pending)
<1>. DEFINE out == OutAt(first, writes, n)
<1>1. /\ n \in 0..(Len(writes) - 1) /\ n + 1 \in 0..Len(writes) /\ Len(text) <= MaxText
      /\ ~(n # 0 /\ writes[n] = <<>>) /\ Begins(full, chunk)
      /\ text = writes[n + 1] /\ chunk = ChunkCells(c, 2, n + 1, text)
      /\ Reached(c, 2, writes, in, n + 1, Rest(full, Len(chunk)))
      /\ out \o text = OutAt(first, writes, n + 1)
  BY DEF Before
<1>2. 2 <= Len(chunk) /\ Len(chunk) \in Nat /\ Len(full) \in Nat
  <2>1. n + 1 \in Nat \ {0}
    OBVIOUS
  <2>2. PICK i \in Nat \ {0} : i = n + 1
    BY <2>1
  <2>3. MadeOf(chunk, LengthField(Len(text) + Tag + Framing(c, i).padding, Framing(c, i).mask),
                  Sealed((i - 1) % CounterWrap, text), Framing(c, i).padding)
    BY <1>1, <2>2, VmessChunkCells
  <2>4. LengthField(Len(text) + Tag + Framing(c, i).padding, Framing(c, i).mask).width = 2
    BY DEF LengthField
  <2>5. Sealed((i - 1) % CounterWrap, text).width = Len(text) + Tag /\ Len(text) \in Nat
    BY TextLen DEF Sealed
  <2>6. Framing(c, i).padding \in {0, 1}
    BY FramingType
  <2>. QED
    BY <2>3, <2>4, <2>5, <2>6 DEF MadeOf, Tag
<1>3. /\ Rest(full, Len(chunk)) \in Seq(WireCells)
      /\ Len(Rest(full, Len(chunk))) = Len(full) - Len(chunk)
  BY <1>2, RestIs
<1>4. /\ DecoderIs(d, c, PerChunk(c) * (n + ahead), n % CounterWrap, full,
                   IF ahead = 0 THEN <<>> ELSE <<Framing(c, n + 1)>>, FALSE, out)
      /\ Turn(d) = VmessStep(d) /\ ahead \in {0, 1}
  BY <1>1 DEF DecoderAt, DecoderIs, Turn
<1>5. DecoderIs(VmessStep(d), c, PerChunk(c) * (n + 1), (n + 1) % CounterWrap,
                Rest(full, Len(chunk)), <<>>, text = <<>>, out \o text)
  <2>1. 2 <= Len(full)
    BY <1>2
  <2>2. ahead \in {0, 1}
    BY <1>4
  <2>. HIDE DEF out
  <2>3. PICK o : o = out
    OBVIOUS
  <2>4. DecoderIs(d, c, PerChunk(c) * (n + ahead), n % CounterWrap, full,
                  IF ahead = 0 THEN <<>> ELSE <<Framing(c, n + 1)>>, FALSE, o)
    BY <1>4, <2>3, Zenon
  <2>5. Len(text) <= MaxText /\ Begins(full, chunk) /\ chunk = ChunkCells(c, 2, n + 1, text)
    BY <1>1
  <2>6. Len(chunk) <= Len(full) =>
           DecoderIs(VmessStep(d), c, PerChunk(c) * (n + 1), (n + 1) % CounterWrap,
                     Rest(full, Len(chunk)), <<>>, text = <<>>, o \o text)
    BY <2>1, <2>2, <2>4, <2>5, VmessTurn
  <2>. QED
    BY <2>3, <2>6, Zenon
<1>6. DecoderIs(Turn(d), c, PerChunk(c) * ((n + 1) + 0), (n + 1) % CounterWrap,
                Rest(full, Len(chunk)), IF 0 = 0 THEN <<>> ELSE <<Framing(c, n + 1 + 1)>>,
                n + 1 # 0 /\ writes[n + 1] = <<>>, OutAt(first, writes, n + 1))
  <2>1. (n + 1) + 0 = n + 1 /\ n + 1 # 0
    OBVIOUS
  <2>. QED
    BY <1>1, <1>4, <1>5, <2>1 DEF DecoderIs
<1>7. DecoderAt(Turn(d), c, writes, in, first, n + 1, 0, Rest(full, Len(chunk)))
  BY <1>1, <1>3, <1>6 DEF DecoderAt
<1>8. Turn(d).pending = Rest(full, Len(chunk)) /\ d.pending = full
  BY <1>4, <1>6 DEF DecoderIs
<1>. QED
  BY <1>2, <1>3, <1>7, <1>8

\* A Shadowsocks decoder before the length of a chunk.
LEMMA AtLength ==
    ASSUME NEW c, c.protocol = "Shadowsocks", NEW d, NEW writes, NEW in, NEW first,
           NEW n \in 0..Len(writes), NEW full \in Seq(WireCells),
           Reached(c, 2, writes, in, n, full),
           DecoderIs(d, c, 0, 2 + 2 * n, full, <<>>, FALSE, OutAt(first, writes, n))
    PROVE  DecoderAt(d, c, writes, in, first, n, 0, full)
<1>1. c.protocol # "Vmess" /\ 0 # 1 /\ 0 \in {0, 1}
  OBVIOUS
<1>. QED
  BY <1>1 DEF DecoderAt

\* A Shadowsocks decoder behind the length of a chunk.
LEMMA AtText ==
    ASSUME NEW c, c.protocol = "Shadowsocks", NEW d, NEW writes, NEW in, NEW first,
           NEW n \in 0..Len(writes), NEW full \in Seq(WireCells),
           Reached(c, 2, writes, in, n, full), n < Len(writes), 2 <= Len(full),
           DecoderIs(d, c, 0, (2 + 2 * n) + 1, Rest(full, 2), <<Len(writes[n + 1])>>, FALSE,
                     OutAt(first, writes, n))
    PROVE  DecoderAt(d, c, writes, in, first, n, 1, full)
<1>1. c.protocol # "Vmess" /\ 0 # 1 /\ 1 \in {0, 1}
  OBVIOUS
<1>. QED
  BY <1>1 DEF DecoderAt

\* A turn with the length of the next chunk.
LEMMA TurnTakesLength ==
    ASSUME NEW c, c.protocol = "Shadowsocks",
           NEW writes \in Seq(Texts), NEW in, NEW first \in Texts,
           NEW n \in Nat, NEW full \in Seq(WireCells), NEW d,
           DecoderAt(d, c, writes, in, first, n, 0, full), n < Len(writes),
           NEW text \in Texts, NEW chunk \in Seq(WireCells),
           Before(c, writes, in, first, n, full, text, chunk), 2 <= Len(full)
    PROVE  /\ DecoderAt(Turn(d), c, writes, in, first, n, 1, full)
           /\ Len(Turn(d).pending) < Len(d.pending)
<1>. DEFINE out == OutAt(first, writes, n)
<1>1. /\ n \in 0..Len(writes) /\ text # <<>> /\ Begins(full, chunk)
      /\ text = writes[n + 1] /\ chunk = ChunkCells(c, 2, n + 1, text)
      /\ Len(full) \in Nat
  BY DEF Before
<1>2. Reached(c, 2, writes, in, n, full) /\ DecoderIs(d, c, 0, 2 + 2 * n, full, <<>>, FALSE, out)
  BY DEF DecoderAt
<1>3. Turn(d) = SsStep(d)
  BY <1>2 DEF Turn, DecoderIs
<1>4. DecoderIs(Turn(d), c, 0, (2 + 2 * n) + 1, Rest(full, 2), <<Len(writes[n + 1])>>, FALSE, out)
  BY <1>1, <1>2, <1>3, SsTurnLength
<1>5. DecoderAt(Turn(d), c, writes, in, first, n, 1, full)
  BY <1>1, <1>2, <1>4, AtText
<1>6. Len(Rest(full, 2)) = Len(full) - 2
  <2>1. 2 \in 0..Len(full)
    BY <1>1
  <2>. QED
    BY <2>1, RestIs
<1>7. Turn(d).pending = Rest(full, 2) /\ d.pending = full
  BY <1>2, <1>4 DEF DecoderIs
<1>. QED
  BY <1>1, <1>5, <1>6, <1>7

\* A turn with the text of the next chunk.
LEMMA TurnTakesText ==
    ASSUME NEW c, c.protocol = "Shadowsocks",
           NEW writes \in Seq(Texts), NEW in, NEW first \in Texts,
           NEW n \in Nat, NEW full \in Seq(WireCells), NEW d,
           DecoderAt(d, c, writes, in, first, n, 1, full), n < Len(writes),
           NEW text \in Texts, NEW chunk \in Seq(WireCells),
           Before(c, writes, in, first, n, full, text, chunk), Len(chunk) <= Len(full)
    PROVE  /\ DecoderAt(Turn(d), c, writes, in, first, n + 1, 0, Rest(full, Len(chunk)))
           /\ Len(Turn(d).pending) < Len(d.pending)
<1>. DEFINE out == OutAt(first, writes, n)
<1>1. /\ n + 1 \in 0..Len(writes) /\ text # <<>> /\ Begins(full, chunk)
      /\ text = writes[n + 1] /\ chunk = ChunkCells(c, 2, n + 1, text)
      /\ Len(full) \in Nat /\ Reached(c, 2, writes, in, n + 1, Rest(full, Len(chunk)))
      /\ out \o text = OutAt(first, writes, n + 1)
  BY DEF Before
<1>2. /\ DecoderIs(d, c, 0, (2 + 2 * n) + 1, Rest(full, 2), <<Len(text)>>, FALSE, out)
      /\ 2 <= Len(full)
  BY <1>1 DEF DecoderAt
<1>3. Turn(d) = SsStep(d)
  BY <1>2 DEF Turn, DecoderIs
<1>4. SsSees(d, c, n, text, full, out, chunk)
  BY <1>1, <1>2 DEF SsSees
<1>5. DecoderIs(Turn(d), c, 0, 2 + 2 * (n + 1), Rest(full, Len(chunk)), <<>>, FALSE,
                OutAt(first, writes, n + 1))
  <2>1. DecoderIs(SsStep(d), c, 0, 2 + 2 * (n + 1), Rest(full, Len(chunk)), <<>>, FALSE,
                  out \o text)
    BY <1>4, SsTurnText
  <2>. QED
    BY <1>1, <1>3, <2>1
<1>6. Len(chunk) = 2 + (Tag + Len(text)) /\ Len(text) \in Nat
  <2>1. PICK i \in Nat \ {0} : i = n + 1
    OBVIOUS
  <2>2. MadeOf(chunk, Sealed(2 + 2 * (i - 1), <<Len(text)>>), Sealed(2 + 2 * i - 1, text), 0)
    BY <1>1, <2>1, SsChunkCells
  <2>3. /\ Sealed(2 + 2 * (i - 1), <<Len(text)>>).width = 2
        /\ Sealed(2 + 2 * i - 1, text).width = Len(text) + Tag /\ Len(text) \in Nat
    BY TextLen DEF Sealed, Tag
  <2>. QED
    BY <2>2, <2>3 DEF MadeOf, Tag
<1>7. /\ Rest(full, Len(chunk)) \in Seq(WireCells)
      /\ Len(Rest(full, Len(chunk))) = Len(full) - Len(chunk)
  <2>1. Len(chunk) \in 0..Len(full)
    BY <1>1, <1>6
  <2>. QED
    BY <2>1, RestIs
<1>8. DecoderAt(Turn(d), c, writes, in, first, n + 1, 0, Rest(full, Len(chunk)))
  BY <1>1, <1>5, <1>7, AtLength
<1>9. Len(Rest(full, 2)) = Len(full) - 2
  <2>1. 2 \in 0..Len(full)
    BY <1>1, <1>2
  <2>. QED
    BY <2>1, RestIs
<1>10. Turn(d).pending = Rest(full, Len(chunk)) /\ d.pending = Rest(full, 2)
  BY <1>2, <1>5 DEF DecoderIs
<1>. QED
  BY <1>1, <1>6, <1>7, <1>8, <1>9, <1>10 DEF Tag

\* A decoder at work on a stream of which it has got in, and one that waits for more of it.
Decoding(d, c, writes, in, first) ==
    \E n \in Nat, ahead \in {0, 1}, full \in Seq(WireCells) :
        DecoderAt(d, c, writes, in, first, n, ahead, full)

\* A decoder between two calls: it is at some chunk and waits for more.
Settled(d, c, writes, in, first) ==
    \E n \in Nat, ahead \in {0, 1}, full \in Seq(WireCells) :
        DecoderAt(d, c, writes, in, first, n, ahead, full) /\ Settles(c, writes, n, ahead, full)

\* A session that may be decoded: what it writes is chunks that the relay supports.
Session(c, writes, first) ==
    Chunked(c) /\ Supported(c) /\ Sendable(c, writes) /\ writes \in Seq(Texts) /\ first \in Texts

\* Once settled a decoder stays so; ...
LEMMA StaysSettled ==
    ASSUME NEW c, NEW writes, NEW first, Session(c, writes, first), NEW in, NEW d,
           Settled(d, c, writes, in, first)
    PROVE  Settled(Turn(d), c, writes, in, first)
<1>1. Chunked(c) /\ Supported(c) /\ Sendable(c, writes) /\ writes \in Seq(Texts) /\ first \in Texts
  BY DEF Session
<1>2. PICK n \in Nat, ahead \in {0, 1}, full \in Seq(WireCells) :
        DecoderAt(d, c, writes, in, first, n, ahead, full) /\ Settles(c, writes, n, ahead, full)
  BY DEF Settled
<1>3. PICK next \in {0, 1} : /\ ahead = 1 => next = 1
                             /\ DecoderAt(Turn(d), c, writes, in, first, n, next, full)
  BY <1>1, <1>2, TurnWaits
<1>4. Settles(c, writes, n, next, full)
  BY <1>2, <1>3 DEF Settles
<1>. QED
  BY <1>3, <1>4 DEF Settled

\* ... until then each turn takes something.
LEMMA TurnProgress ==
    ASSUME NEW c, NEW writes, NEW first, Session(c, writes, first), NEW in, NEW d,
           Decoding(d, c, writes, in, first), ~Settled(d, c, writes, in, first)
    PROVE  /\ Decoding(Turn(d), c, writes, in, first)
           /\ Len(Turn(d).pending) < Len(d.pending)
<1>1. Chunked(c) /\ Supported(c) /\ Sendable(c, writes) /\ writes \in Seq(Texts) /\ first \in Texts
  BY DEF Session
<1>2. PICK n \in Nat, ahead \in {0, 1}, full \in Seq(WireCells) :
        DecoderAt(d, c, writes, in, first, n, ahead, full)
  BY DEF Decoding
<1>3. ~Settles(c, writes, n, ahead, full)
  BY <1>2 DEF Settled
<1>4. n < Len(writes)
  <2>1. CASE ~(n < Len(writes))
    <3>1. full = <<>>
      BY <1>1, <1>2, <2>1, AllTaken
    <3>2. Len(full) < 2
      BY <3>1
    <3>. QED
      BY <1>3, <3>2 DEF Settles
  <2>. QED
    BY <2>1
<1>5. PICK text \in Texts, chunk \in Seq(WireCells) :
        Before(c, writes, in, first, n, full, text, chunk)
  BY <1>1, <1>2, <1>4, BeforeIt
<1>6. 2 <= Len(full) /\ ((c.protocol = "Vmess" \/ ahead = 1) => Len(chunk) <= Len(full))
  <2>1. Len(full) \in Nat /\ Len(chunk) \in Nat
    OBVIOUS
  <2>2. text = writes[n + 1] /\ chunk = ChunkCells(c, 2, n + 1, text)
    BY <1>5 DEF Before
  <2>. QED
    BY <1>3, <2>1, <2>2 DEF Settles, Waits
<1>7. CASE c.protocol = "Vmess"
  <2>1. Len(chunk) <= Len(full)
    BY <1>6, <1>7
  <2>2. /\ DecoderAt(Turn(d), c, writes, in, first, n + 1, 0, Rest(full, Len(chunk)))
        /\ Len(Turn(d).pending) < Len(d.pending)
    BY <1>1, <1>2, <1>4, <1>5, <1>7, <2>1, TurnTakesVmess
  <2>3. n + 1 \in Nat /\ 0 \in {0, 1} /\ Rest(full, Len(chunk)) \in Seq(WireCells)
    BY <2>2 DEF DecoderAt
  <2>. QED
    BY <2>2, <2>3 DEF Decoding
<1>8. CASE c.protocol = "Shadowsocks" /\ ahead = 0
  <2>1. DecoderAt(d, c, writes, in, first, n, 0, full)
    BY <1>2, <1>8
  <2>2. /\ DecoderAt(Turn(d), c, writes, in, first, n, 1, full)
        /\ Len(Turn(d).pending) < Len(d.pending)
    BY <1>1, <1>4, <1>5, <1>6, <1>8, <2>1, TurnTakesLength
  <2>3. 1 \in {0, 1}
    OBVIOUS
  <2>. QED
    BY <2>2, <2>3 DEF Decoding
<1>9. CASE c.protocol = "Shadowsocks" /\ ahead = 1
  <2>1. DecoderAt(d, c, writes, in, first, n, 1, full) /\ Len(chunk) <= Len(full)
    BY <1>2, <1>6, <1>9
  <2>2. /\ DecoderAt(Turn(d), c, writes, in, first, n + 1, 0, Rest(full, Len(chunk)))
        /\ Len(Turn(d).pending) < Len(d.pending)
    BY <1>1, <1>4, <1>5, <1>9, <2>1, TurnTakesText
  <2>3. n + 1 \in Nat /\ 0 \in {0, 1} /\ Rest(full, Len(chunk)) \in Seq(WireCells)
    BY <2>2 DEF DecoderAt
  <2>. QED
    BY <2>2, <2>3 DEF Decoding
<1>. QED
  BY <1>1, <1>7, <1>8, <1>9 DEF Chunked

-----------------------------------------------------------------------------
(* A call of the decoder.                                                  *)

\* The loop of a call as a property of a function.
TurnOf(protocol, d) == IF protocol = "Vmess" THEN VmessStep(d) ELSE SsStep(d)

\* The recursion of the loop of a decoder as a property of a function.
TurnsTo(protocol, fed, m, g) ==
    g = [n \in 0..m |-> IF n = 0 THEN fed ELSE TurnOf(protocol, g[n - 1])]

\* It has a solution of every length.
LEMMA TurnsExist ==
    ASSUME NEW protocol, NEW fed, NEW m \in Nat
    PROVE  \E g : TurnsTo(protocol, fed, m, g)
<1>. DEFINE T == {k \in Nat : ~\E g : TurnsTo(protocol, fed, k, g)}
<1>0. SUFFICES ASSUME T # {} PROVE FALSE
  OBVIOUS
<1>1. PICK k \in T : \A j \in T : k <= j
  <2>1. T \in SUBSET Nat
    OBVIOUS
  <2>. HIDE DEF T
  <2>. QED
    BY <1>0, <2>1, MinIsMember
<1>2. k \in Nat /\ ~\E g : TurnsTo(protocol, fed, k, g)
  BY <1>1
<1>3. k # 0
  <2>. DEFINE h == [n \in 0..0 |-> fed]
  <2>1. \A n \in 0..0 : h[n] = IF n = 0 THEN fed ELSE TurnOf(protocol, h[n - 1])
    OBVIOUS
  <2>2. h = [n \in 0..0 |-> h[n]]
    OBVIOUS
  <2>3. TurnsTo(protocol, fed, 0, h)
    <3>. HIDE DEF h
    <3>. QED
      BY <2>1, <2>2 DEF TurnsTo
  <2>. QED
    BY <1>2, <2>3
<1>4. PICK g : TurnsTo(protocol, fed, k - 1, g)
  <2>1. k - 1 \in Nat /\ ~(k <= k - 1)
    BY <1>2, <1>3
  <2>. QED
    BY <1>1, <2>1
<1>. DEFINE h == [n \in 0..k |-> IF n = k THEN TurnOf(protocol, g[n - 1]) ELSE g[n]]
<1>5. ASSUME NEW n \in 0..k
      PROVE  h[n] = IF n = 0 THEN fed ELSE TurnOf(protocol, h[n - 1])
  <2>1. n \in Nat /\ n <= k
    BY <1>2
  <2>2. n # 0 => n - 1 \in 0..k /\ n - 1 # k
    BY <1>2, <2>1
  <2>3. n # 0 => h[n - 1] = g[n - 1]
    BY <2>2
  <2>4. CASE n = k
    BY <1>3, <2>3, <2>4
  <2>5. CASE n # k
    <3>1. n \in 0..(k - 1)
      BY <1>2, <2>1, <2>5
    <3>2. g[n] = IF n = 0 THEN fed ELSE TurnOf(protocol, g[n - 1])
      BY <1>4, <3>1 DEF TurnsTo
    <3>3. h[n] = g[n]
      BY <2>5
    <3>. HIDE DEF h
    <3>. QED
      BY <2>3, <3>2, <3>3
  <2>. QED
    BY <2>4, <2>5
<1>6. TurnsTo(protocol, fed, k, h)
  <2>1. h = [n \in 0..k |-> h[n]]
    OBVIOUS
  <2>. HIDE DEF h
  <2>. QED
    BY <1>5, <2>1 DEF TurnsTo
<1>. QED
  BY <1>2, <1>6

\* Decode in terms of such a function.
LEMMA DecodeIs ==
    ASSUME NEW d, d.protocol \notin {"Vless", "Trojan"}, NEW cells, NEW fed, fed = Fed(d, cells),
           NEW m \in Nat, m = Len(fed.pending) + 1
    PROVE  \E g : /\ TurnsTo(d.protocol, fed, m, g)
                  /\ ~g[m].failed => Decode(d, cells) = g[m]
<1>. DEFINE after == CHOOSE g : TurnsTo(d.protocol, fed, m, g)
<1>1. TurnsTo(d.protocol, fed, m, after)
  BY TurnsExist
<1>2. ASSUME ~after[m].failed PROVE Decode(d, cells) = after[m]
  <2>1. Decode(d, cells) = IF after[m].failed THEN [after[m] EXCEPT !.out = d.out] ELSE after[m]
    BY DEF Decode, TurnsTo, TurnOf
  <2>. HIDE DEF after
  <2>. QED
    BY <1>2, <2>1
<1>. QED
  BY <1>1, <1>2

\* What every turn can tell of its decoder.
LEMMA DecodingIs ==
    ASSUME NEW c, Chunked(c), NEW writes, NEW first, NEW in, NEW d,
           Decoding(d, c, writes, in, first)
    PROVE  d.protocol = c.protocol /\ ~d.failed /\ Len(d.pending) \in Nat
<1>1. PICK n \in Nat, ahead \in {0, 1}, full \in Seq(WireCells) :
        DecoderAt(d, c, writes, in, first, n, ahead, full)
  BY DEF Decoding
<1>2. Len(full) \in Nat
  OBVIOUS
<1>3. CASE c.protocol = "Vmess"
  BY <1>1, <1>2, <1>3 DEF DecoderAt, DecoderIs
<1>4. CASE c.protocol = "Shadowsocks" /\ ahead = 0
  BY <1>1, <1>2, <1>4 DEF DecoderAt, DecoderIs
<1>5. CASE c.protocol = "Shadowsocks" /\ ahead = 1
  <2>1. d.protocol = c.protocol /\ ~d.failed /\ d.pending = Rest(full, 2) /\ 2 <= Len(full)
    BY <1>1, <1>5 DEF DecoderAt, DecoderIs
  <2>2. 2 \in 0..Len(full)
    BY <1>2, <2>1
  <2>3. Len(Rest(full, 2)) = Len(full) - 2
    BY <2>2, RestIs
  <2>. QED
    BY <1>2, <2>1, <2>3
<1>. QED
  BY <1>1, <1>3, <1>4, <1>5 DEF Chunked

\* A settled decoder is decoding.
LEMMA SettledDecodes ==
    ASSUME NEW c, NEW writes, NEW first, NEW in, NEW d, Settled(d, c, writes, in, first)
    PROVE  Decoding(d, c, writes, in, first)
  BY DEF Settled, Decoding

\* After k turns the decoder is settled or has taken k cells at least.
LEMMA TurnsSettle ==
    ASSUME NEW c, NEW writes, NEW first, Session(c, writes, first), NEW in, NEW fed,
           Decoding(fed, c, writes, in, first), NEW m \in Nat, m = Len(fed.pending) + 1,
           NEW g, TurnsTo(c.protocol, fed, m, g)
    PROVE  Settled(g[m], c, writes, in, first)
<1>. DEFINE Held(k) == /\ Decoding(g[k], c, writes, in, first)
                       /\ \/ Settled(g[k], c, writes, in, first)
                          \/ Len(g[k].pending) + k <= Len(fed.pending)
            T == {k \in 0..m : ~Held(k)}
<1>0. Chunked(c)
  BY DEF Session
<1>1. Held(0)
  <2>1. g[0] = fed
    BY DEF TurnsTo
  <2>. QED
    BY <1>0, <2>1, DecodingIs
<1>2. ASSUME NEW k \in 0..m, k # 0, Held(k - 1) PROVE Held(k)
  <2>1. k - 1 \in 0..m
    BY <1>2
  <2>2. PICK e : e = g[k - 1]
    OBVIOUS
  <2>3. g[k] = TurnOf(c.protocol, e)
    BY <1>2, <2>2 DEF TurnsTo
  <2>4. Decoding(e, c, writes, in, first)
    BY <1>2, <2>2
  <2>5. e.protocol = c.protocol /\ Len(e.pending) \in Nat
    BY <1>0, <2>4, DecodingIs
  <2>6. g[k] = Turn(e)
    BY <2>3, <2>5 DEF Turn, TurnOf
  <2>7. CASE Settled(e, c, writes, in, first)
    <3>1. Settled(Turn(e), c, writes, in, first)
      BY <2>7, StaysSettled
    <3>2. Decoding(Turn(e), c, writes, in, first)
      BY <3>1, SettledDecodes
    <3>. QED
      BY <2>6, <3>1, <3>2
  <2>8. CASE ~Settled(e, c, writes, in, first)
    <3>1. /\ Decoding(Turn(e), c, writes, in, first)
          /\ Len(Turn(e).pending) < Len(e.pending)
      BY <2>4, <2>8, TurnProgress
    <3>2. Len(e.pending) + (k - 1) <= Len(fed.pending)
      BY <1>2, <2>2, <2>8
    <3>3. Len(Turn(e).pending) \in Nat /\ Len(fed.pending) \in Nat
      BY <1>0, <3>1, DecodingIs
    <3>4. Len(Turn(e).pending) + k <= Len(fed.pending)
      BY <1>2, <2>5, <3>1, <3>2, <3>3
    <3>. QED
      BY <2>6, <3>1, <3>4
  <2>. QED
    BY <2>7, <2>8
<1>3. T = {}
  <2>. SUFFICES ASSUME T # {} PROVE FALSE
    OBVIOUS
  <2>1. PICK k \in T : \A j \in T : k <= j
    <3>1. T \in SUBSET Nat
      OBVIOUS
    <3>. HIDE DEF T
    <3>. QED
      BY <3>1, MinIsMember
  <2>2. k \in 0..m /\ ~Held(k)
    BY <2>1
  <2>3. k # 0
    BY <1>1, <2>2
  <2>4. k - 1 \in 0..m /\ ~(k <= k - 1)
    BY <2>2, <2>3
  <2>5. Held(k - 1)
    BY <2>1, <2>4
  <2>. QED
    BY <1>2, <2>2, <2>3, <2>5
<1>4. Held(m)
  <2>1. \A k \in 0..m : Held(k)
    <3>. HIDE DEF Held
    <3>. QED
      BY <1>3
  <2>2. m \in 0..m
    OBVIOUS
  <2>. HIDE DEF Held
  <2>. QED
    BY <2>1, <2>2
<1>5. Len(g[m].pending) \in Nat /\ Len(fed.pending) \in Nat
  BY <1>0, <1>4, DecodingIs
<1>6. ~(Len(g[m].pending) + m <= Len(fed.pending))
  <2>1. PICK p \in Nat : p = Len(g[m].pending)
    BY <1>5
  <2>2. PICK q \in Nat : q = Len(fed.pending)
    BY <1>5
  <2>3. m = q + 1
    BY <2>2
  <2>4. ~(p + m <= q)
    BY <2>3
  <2>. QED
    BY <2>1, <2>2, <2>4
<1>. QED
  BY <1>4, <1>6

\* A call on a stream leaves the decoder settled.
LEMMA DecodeSettles ==
    ASSUME NEW c, NEW writes, NEW first, Session(c, writes, first), NEW in, NEW d, NEW cells,
           d.protocol = c.protocol, Decoding(Fed(d, cells), c, writes, in, first)
    PROVE  Settled(Decode(d, cells), c, writes, in, first)
<1>1. Chunked(c)
  BY DEF Session
<1>2. PICK fed : fed = Fed(d, cells)
  OBVIOUS
<1>3. Len(fed.pending) \in Nat
  BY <1>1, <1>2, DecodingIs
<1>4. PICK m \in Nat : m = Len(fed.pending) + 1
  BY <1>3
<1>5. d.protocol \notin {"Vless", "Trojan"}
  BY <1>1 DEF Chunked
<1>6. PICK g : TurnsTo(d.protocol, fed, m, g) /\ (~g[m].failed => Decode(d, cells) = g[m])
  BY <1>2, <1>4, <1>5, DecodeIs
<1>7. Settled(g[m], c, writes, in, first)
  BY <1>2, <1>4, <1>6, TurnsSettle
<1>8. ~g[m].failed
  BY <1>1, <1>7, SettledDecodes, DecodingIs
<1>. QED
  BY <1>6, <1>7, <1>8

-----------------------------------------------------------------------------
(* What a decoder is fed, and a stream that grows.                         *)

\* Feeding changes what is pending, and only that.
LEMMA FedIs ==
    ASSUME NEW c, NEW d, NEW draws, NEW counter, NEW pending, NEW known, NEW finished \in BOOLEAN,
           NEW out \in Texts, NEW cells,
           DecoderIs(d, c, draws, counter, pending, known, finished, out)
    PROVE  DecoderIs(Fed(d, cells), c, draws, counter,
                     IF finished THEN pending ELSE pending \o cells, known, finished, out)
<1>1. out \o <<>> = out
  BY ConcatEmptySeq DEF Texts
<1>. QED
  BY <1>1 DEF Fed, DecoderIs, DecoderFields

\* What arrives goes behind what is pending.
LEMMA RestConcat ==
    ASSUME NEW s \in Seq(WireCells), NEW a \in 0..Len(s), NEW t \in Seq(WireCells)
    PROVE  Rest(s \o t, a) = Rest(s, a) \o t
<1>. DEFINE left == Rest(s \o t, a)
            right == Rest(s, a) \o t
<1>1. s \o t \in Seq(WireCells) /\ Len(s \o t) = Len(s) + Len(t) /\ a \in 0..Len(s \o t)
  BY CellsConcat
<1>2. /\ left \in Seq(WireCells) /\ Len(left) = Len(s \o t) - a
      /\ \A i \in 1..Len(s \o t) - a : left[i] = (s \o t)[a + i]
  BY <1>1, RestIs
<1>3. /\ Rest(s, a) \in Seq(WireCells) /\ Len(Rest(s, a)) = Len(s) - a
      /\ \A i \in 1..Len(s) - a : Rest(s, a)[i] = s[a + i]
  BY RestIs
<1>4. right \in Seq(WireCells) /\ Len(right) = Len(left)
  <2>1. PICK r \in Seq(WireCells) : r = Rest(s, a) /\ Len(r) = Len(s) - a
    BY <1>3
  <2>2. r \o t \in Seq(WireCells) /\ Len(r \o t) = Len(r) + Len(t)
    BY CellsConcat
  <2>3. Len(s) \in Nat /\ Len(t) \in Nat
    OBVIOUS
  <2>. HIDE DEF left
  <2>. QED
    BY <1>1, <1>2, <2>1, <2>2, <2>3
<1>5. ASSUME NEW i \in 1..Len(left) PROVE left[i] = right[i]
  <2>1. left[i] = (s \o t)[a + i] /\ a + i \in 1..Len(s) + Len(t)
    BY <1>1, <1>2
  <2>2. CASE a + i <= Len(s)
    <3>1. (s \o t)[a + i] = s[a + i] /\ i \in 1..Len(s) - a
      BY <2>1, <2>2
    <3>2. right[i] = Rest(s, a)[i]
      BY <1>3, <3>1
    <3>. QED
      BY <1>3, <2>1, <3>1, <3>2
  <2>3. CASE ~(a + i <= Len(s))
    <3>1. (s \o t)[a + i] = t[a + i - Len(s)]
      BY <2>1, <2>3
    <3>2. i > Len(s) - a /\ i \in 1..(Len(s) - a) + Len(t)
      BY <1>1, <1>2, <2>3
    <3>3. right[i] = t[i - (Len(s) - a)]
      BY <1>3, <3>2
    <3>4. i - (Len(s) - a) = a + i - Len(s)
      OBVIOUS
    <3>. QED
      BY <2>1, <3>1, <3>3, <3>4
  <2>. QED
    BY <2>2, <2>3
<1>. HIDE DEF left, right
<1>6. left = right
  BY <1>2, <1>4, <1>5, SeqEqual
<1>. QED
  BY <1>6 DEF left, right

\* More of the stream has arrived.
More(c, writes, in, cells) ==
    \E rest \in Seq(WireCells) : Stream(c, 2, writes) = (in \o cells) \o rest

\* More cells leave the decoder at its chunk, with more before it.
LEMMA ReachedMore ==
    ASSUME NEW c, NEW writes \in Seq(Texts), NEW in, NEW n \in 0..Len(writes),
           NEW full \in Seq(WireCells), NEW cells \in Seq(WireCells),
           Reached(c, 2, writes, in, n, full), More(c, writes, in, cells)
    PROVE  /\ full \o cells \in Seq(WireCells)
           /\ Reached(c, 2, writes, in \o cells, n, full \o cells)
           /\ n = Len(writes) => cells = <<>>
<1>1. Upto(c, 2, writes, n) \in Seq(WireCells)
  BY UptoType
<1>2. in = Upto(c, 2, writes, n) \o full
  BY DEF Reached
<1>3. full \o cells \in Seq(WireCells)
  BY CellsConcat
<1>4. in \o cells = Upto(c, 2, writes, n) \o (full \o cells)
  <2>1. Associates(Upto(c, 2, writes, n), full, cells)
    BY <1>1, CellsAssociative
  <2>. QED
    BY <1>2, <2>1, Zenon DEF Associates
<1>5. Reached(c, 2, writes, in \o cells, n, full \o cells)
  BY <1>4 DEF Reached, More
<1>6. ASSUME n = Len(writes) PROVE cells = <<>>
  <2>1. PICK more \in Seq(WireCells) : more = full \o cells
    BY <1>3
  <2>2. PICK came : came = in \o cells
    OBVIOUS
  <2>3. Reached(c, 2, writes, came, n, more)
    BY <1>5, <2>1, <2>2
  <2>4. more = <<>> /\ full = <<>>
    BY <1>6, <2>3, NextChunk
  <2>. QED
    BY <2>1, <2>4, NothingAdded
<1>. QED
  BY <1>3, <1>5, <1>6

\* What is out is a text.
LEMMA OutType ==
    ASSUME NEW first \in Texts, NEW writes \in Seq(Texts), NEW n \in 0..Len(writes)
    PROVE  OutAt(first, writes, n) \in Texts
<1>1. PICK part \in Seq(Texts) : part = SubSeq(writes, 1, n)
  BY UptoType
<1>2. PICK flat \in Texts : flat = FlattenSeq(part)
  BY FlattenType DEF Texts
<1>. QED
  BY <1>1, <1>2, TextBehindText DEF OutAt

\* A settled decoder that is fed is decoding.
LEMMA FedDecodes ==
    ASSUME NEW c, NEW writes, NEW first, Session(c, writes, first), NEW in, NEW d,
           Settled(d, c, writes, in, first), NEW cells \in Seq(WireCells),
           More(c, writes, in, cells)
    PROVE  /\ d.protocol = c.protocol
           /\ Decoding(Fed(d, cells), c, writes, in \o cells, first)
<1>1. Chunked(c) /\ Sendable(c, writes) /\ writes \in Seq(Texts) /\ first \in Texts
  BY DEF Session
<1>2. PICK n \in Nat, ahead \in {0, 1}, full \in Seq(WireCells) :
        DecoderAt(d, c, writes, in, first, n, ahead, full)
  BY DEF Settled
<1>3. /\ n \in 0..Len(writes) /\ Reached(c, 2, writes, in, n, full)
      /\ ahead = 1 => n < Len(writes) /\ 2 <= Len(full)
  BY <1>2 DEF DecoderAt
<1>. DEFINE out == OutAt(first, writes, n)
            ended == n # 0 /\ writes[n] = <<>>
<1>4. out \in Texts
  BY <1>1, <1>3, OutType
<1>5. PICK more \in Seq(WireCells) :
        /\ more = full \o cells /\ Reached(c, 2, writes, in \o cells, n, more)
        /\ n = Len(writes) => cells = <<>>
  <2>1. PICK came : came = in \o cells
    OBVIOUS
  <2>2. PICK more : more = full \o cells
    OBVIOUS
  <2>3. /\ full \o cells \in Seq(WireCells)
        /\ Reached(c, 2, writes, in \o cells, n, full \o cells)
        /\ n = Len(writes) => cells = <<>>
    BY <1>1, <1>3, ReachedMore
  <2>4. more \in Seq(WireCells) /\ Reached(c, 2, writes, came, n, more)
    BY <2>1, <2>2, <2>3
  <2>. QED
    BY <2>1, <2>2, <2>3, <2>4
<1>6. ended => cells = <<>>
  <2>1. ended => n \in 1..Len(writes)
    BY <1>3
  <2>. QED
    BY <1>1, <1>5, <2>1 DEF Sendable
<1>7. Len(full) \in Nat /\ Len(cells) \in Nat /\ Len(more) = Len(full) + Len(cells)
  BY <1>5, CellsConcat
<1>8. CASE c.protocol = "Vmess"
  <2>1. DecoderIs(d, c, PerChunk(c) * (n + ahead), n % CounterWrap, full,
                  IF ahead = 0 THEN <<>> ELSE <<Framing(c, n + 1)>>, ended, out)
    BY <1>2, <1>8 DEF DecoderAt
  <2>2. PICK finished \in BOOLEAN : finished <=> ended
    OBVIOUS
  <2>3. DecoderIs(d, c, PerChunk(c) * (n + ahead), n % CounterWrap, full,
                  IF ahead = 0 THEN <<>> ELSE <<Framing(c, n + 1)>>, finished, out)
    BY <2>1, <2>2 DEF DecoderIs
  <2>4. DecoderIs(Fed(d, cells), c, PerChunk(c) * (n + ahead), n % CounterWrap,
                  IF finished THEN full ELSE full \o cells,
                  IF ahead = 0 THEN <<>> ELSE <<Framing(c, n + 1)>>, finished, out)
    <3>. HIDE DEF out, ended
    <3>. QED
      BY <1>4, <2>3, FedIs
  <2>5. (IF finished THEN full ELSE full \o cells) = more
    <3>1. finished => more = full
      BY <1>5, <1>6, <2>2, ConcatEmptySeq
    <3>. QED
      BY <1>5, <3>1
  <2>6. DecoderIs(Fed(d, cells), c, PerChunk(c) * (n + ahead), n % CounterWrap, more,
                  IF ahead = 0 THEN <<>> ELSE <<Framing(c, n + 1)>>, ended, out)
    BY <2>2, <2>4, <2>5 DEF DecoderIs
  <2>7. DecoderAt(Fed(d, cells), c, writes, in \o cells, first, n, ahead, more)
    BY <1>3, <1>5, <1>7, <1>8, <2>6 DEF DecoderAt
  <2>8. d.protocol = c.protocol
    BY <2>1 DEF DecoderIs
  <2>. QED
    BY <2>7, <2>8 DEF Decoding
<1>9. CASE c.protocol = "Shadowsocks" /\ ahead = 0
  <2>1. DecoderIs(d, c, 0, 2 + 2 * n, full, <<>>, FALSE, out)
    BY <1>2, <1>9 DEF DecoderAt
  <2>2. DecoderIs(Fed(d, cells), c, 0, 2 + 2 * n, IF FALSE THEN full ELSE full \o cells, <<>>,
                  FALSE, out)
    <3>. HIDE DEF out
    <3>. QED
      BY <1>4, <2>1, FedIs
  <2>3. DecoderIs(Fed(d, cells), c, 0, 2 + 2 * n, more, <<>>, FALSE, out)
    BY <1>5, <2>2
  <2>4. DecoderAt(Fed(d, cells), c, writes, in \o cells, first, n, 0, more)
    BY <1>3, <1>5, <1>9, <2>3, AtLength
  <2>5. d.protocol = c.protocol
    BY <2>1 DEF DecoderIs
  <2>. QED
    BY <2>4, <2>5 DEF Decoding
<1>10. CASE c.protocol = "Shadowsocks" /\ ahead = 1
  <2>1. DecoderIs(d, c, 0, (2 + 2 * n) + 1, Rest(full, 2), <<Len(writes[n + 1])>>, FALSE, out)
    BY <1>2, <1>10 DEF DecoderAt
  <2>2. DecoderIs(Fed(d, cells), c, 0, (2 + 2 * n) + 1,
                  IF FALSE THEN Rest(full, 2) ELSE Rest(full, 2) \o cells,
                  <<Len(writes[n + 1])>>, FALSE, out)
    <3>. HIDE DEF out
    <3>. QED
      BY <1>4, <2>1, FedIs
  <2>3. Rest(full, 2) \o cells = Rest(more, 2)
    <3>1. 2 \in 0..Len(full)
      BY <1>3, <1>7, <1>10
    <3>. QED
      BY <1>5, <3>1, RestConcat
  <2>4. DecoderIs(Fed(d, cells), c, 0, (2 + 2 * n) + 1, Rest(more, 2),
                  <<Len(writes[n + 1])>>, FALSE, out)
    BY <2>2, <2>3
  <2>5. n < Len(writes) /\ 2 <= Len(more)
    BY <1>3, <1>7, <1>10
  <2>6. DecoderAt(Fed(d, cells), c, writes, in \o cells, first, n, 1, more)
    BY <1>3, <1>5, <1>10, <2>4, <2>5, AtText
  <2>7. d.protocol = c.protocol
    BY <2>1 DEF DecoderIs
  <2>. QED
    BY <2>6, <2>7 DEF Decoding
<1>. QED
  BY <1>1, <1>8, <1>9, <1>10 DEF Chunked

\* The first call is fed what came behind the header.
LEMMA NewDecodes ==
    ASSUME NEW c, NEW writes, NEW first, Session(c, writes, first), NEW in \in Seq(WireCells),
           \E rest \in Seq(WireCells) : Stream(c, 2, writes) = in \o rest
    PROVE  /\ NewDecoder(c, first).protocol = c.protocol
           /\ Decoding(Fed(NewDecoder(c, first), in), c, writes, in, first)
<1>1. Chunked(c) /\ Supported(c) /\ writes \in Seq(Texts) /\ first \in Texts
  BY DEF Session
<1>2. NewDecoder(c, first).protocol = c.protocol
  BY DEF NewDecoder
<1>3. 0 \in 0..Len(writes) /\ 0 \in {0, 1} /\ 0 \in Nat
  BY <1>1
<1>4. OutAt(first, writes, 0) = first
  <2>1. SubSeq(writes, 1, 0) = <<>>
    BY <1>1
  <2>. QED
    BY <1>1, <2>1, FlattenEmpty, ConcatEmptySeq DEF OutAt, Texts
<1>5. Reached(c, 2, writes, in, 0, in)
  <2>1. Upto(c, 2, writes, 0) = <<>>
    BY <1>1, UptoNone
  <2>2. in = <<>> \o in
    BY ConcatEmptySeq
  <2>. QED
    BY <2>1, <2>2 DEF Reached
<1>6. DecoderIs(Fed(NewDecoder(c, first), in), c, 0,
                IF c.protocol = "Shadowsocks" THEN 2 ELSE 0, in, <<>>, FALSE, first)
  <2>1. <<>> \o in = in /\ <<>> \o first = first
    BY <1>1, ConcatEmptySeq DEF Texts
  <2>. QED
    BY <2>1 DEF Fed, NewDecoder, DecoderIs, DecoderFields
<1>7. CASE c.protocol = "Vmess"
  <2>1. PerChunk(c) * (0 + 0) = 0
    <3>1. PICK draws \in {0, 1, 2} : draws = PerChunk(c)
      BY <1>1, <1>7, DrawsOf
    <3>2. draws * (0 + 0) = 0
      OBVIOUS
    <3>. QED
      BY <3>1, <3>2
  <2>2. 0 % CounterWrap = 0
    BY CodecAssumption
  <2>3. DecoderIs(Fed(NewDecoder(c, first), in), c, PerChunk(c) * (0 + 0), 0 % CounterWrap, in,
                  IF 0 = 0 THEN <<>> ELSE <<Framing(c, 0 + 1)>>, 0 # 0 /\ writes[0] = <<>>,
                  OutAt(first, writes, 0))
    BY <1>4, <1>6, <1>7, <2>1, <2>2 DEF DecoderIs
  <2>4. DecoderAt(Fed(NewDecoder(c, first), in), c, writes, in, first, 0, 0, in)
    BY <1>3, <1>5, <1>7, <2>3 DEF DecoderAt
  <2>. QED
    BY <1>2, <1>3, <2>4 DEF Decoding
<1>8. CASE c.protocol = "Shadowsocks"
  <2>1. DecoderIs(Fed(NewDecoder(c, first), in), c, 0, 2 + 2 * 0, in, <<>>, FALSE,
                  OutAt(first, writes, 0))
    <3>1. 2 + 2 * 0 = 2
      OBVIOUS
    <3>2. DecoderIs(Fed(NewDecoder(c, first), in), c, 0, 2, in, <<>>, FALSE, first)
      BY <1>6, <1>8
    <3>. QED
      BY <1>4, <3>1, <3>2
  <2>2. DecoderAt(Fed(NewDecoder(c, first), in), c, writes, in, first, 0, 0, in)
    BY <1>3, <1>5, <1>8, <2>1, AtLength
  <2>. QED
    BY <1>2, <1>3, <2>2 DEF Decoding
<1>. QED
  BY <1>1, <1>7, <1>8 DEF Chunked

\* A call takes a settled decoder to a settled one, with what came taken.
LEMMA SettledFeeds ==
    ASSUME NEW c, NEW writes, NEW first, Session(c, writes, first), NEW in, NEW d,
           Settled(d, c, writes, in, first), NEW cells \in Seq(WireCells),
           More(c, writes, in, cells)
    PROVE  Settled(Decode(d, cells), c, writes, in \o cells, first)
<1>1. d.protocol = c.protocol /\ Decoding(Fed(d, cells), c, writes, in \o cells, first)
  BY FedDecodes
<1>2. PICK came : came = in \o cells
  OBVIOUS
<1>3. Settled(Decode(d, cells), c, writes, came, first)
  BY <1>1, <1>2, DecodeSettles
<1>. QED
  BY <1>2, <1>3

\* So does the first call, from the new decoder.
LEMMA NewSettles ==
    ASSUME NEW c, NEW writes, NEW first, Session(c, writes, first), NEW in \in Seq(WireCells),
           \E rest \in Seq(WireCells) : Stream(c, 2, writes) = in \o rest
    PROVE  Settled(Decode(NewDecoder(c, first), in), c, writes, in, first)
  BY NewDecodes, DecodeSettles

\* A chunk fills two cells at least.
LEMMA ChunkFills ==
    ASSUME NEW c, Chunked(c), NEW i \in Nat \ {0}, NEW text \in Texts
    PROVE  Len(ChunkCells(c, 2, i, text)) \in Nat /\ 2 <= Len(ChunkCells(c, 2, i, text))
<1>1. CASE c.protocol = "Vmess"
  <2>1. MadeOf(ChunkCells(c, 2, i, text),
               LengthField(Len(text) + Tag + Framing(c, i).padding, Framing(c, i).mask),
               Sealed((i - 1) % CounterWrap, text), Framing(c, i).padding)
    BY <1>1, VmessChunkCells
  <2>2. LengthField(Len(text) + Tag + Framing(c, i).padding, Framing(c, i).mask).width = 2
    BY DEF LengthField
  <2>3. Sealed((i - 1) % CounterWrap, text).width = Len(text) + Tag /\ Len(text) \in Nat
    BY TextLen DEF Sealed
  <2>4. Framing(c, i).padding \in {0, 1}
    BY FramingType
  <2>. QED
    BY <2>1, <2>2, <2>3, <2>4 DEF MadeOf, Tag
<1>2. CASE c.protocol = "Shadowsocks"
  <2>1. MadeOf(ChunkCells(c, 2, i, text), Sealed(2 + 2 * (i - 1), <<Len(text)>>),
               Sealed(2 + 2 * i - 1, text), 0)
    BY <1>2, SsChunkCells
  <2>2. /\ Sealed(2 + 2 * (i - 1), <<Len(text)>>).width = 2
        /\ Sealed(2 + 2 * i - 1, text).width = Len(text) + Tag /\ Len(text) \in Nat
    BY TextLen DEF Sealed, Tag
  <2>. QED
    BY <2>1, <2>2 DEF MadeOf, Tag
<1>. QED
  BY <1>1, <1>2 DEF Chunked

\* What a settled decoder has handed on: the texts that have arrived whole.
LEMMA SettledOut ==
    ASSUME NEW c, NEW writes, NEW first, Session(c, writes, first), NEW in, NEW d,
           Settled(d, c, writes, in, first)
    PROVE  ~d.failed /\ \E n \in 0..Len(writes), full \in Seq(WireCells) :
              d.out = OutAt(first, writes, n) /\ Reached(c, 2, writes, in, n, full)
              /\ Waits(c, writes, n, full)
<1>1. Chunked(c) /\ writes \in Seq(Texts)
  BY DEF Session
<1>2. PICK n \in Nat, ahead \in {0, 1}, full \in Seq(WireCells) :
        DecoderAt(d, c, writes, in, first, n, ahead, full) /\ Settles(c, writes, n, ahead, full)
  BY DEF Settled
<1>3. n \in 0..Len(writes) /\ Reached(c, 2, writes, in, n, full)
  BY <1>2 DEF DecoderAt
<1>4. d.out = OutAt(first, writes, n)
  <2>1. CASE c.protocol = "Vmess"
    BY <1>2, <2>1 DEF DecoderAt, DecoderIs
  <2>2. CASE c.protocol = "Shadowsocks" /\ ahead = 0
    BY <1>2, <2>2 DEF DecoderAt, DecoderIs
  <2>3. CASE c.protocol = "Shadowsocks" /\ ahead = 1
    BY <1>2, <2>3 DEF DecoderAt, DecoderIs
  <2>. QED
    BY <1>1, <2>1, <2>2, <2>3 DEF Chunked
<1>5. Waits(c, writes, n, full)
  <2>1. ASSUME n < Len(writes), Len(full) < 2
        PROVE  Len(full) < Len(ChunkCells(c, 2, n + 1, writes[n + 1]))
    <3>1. n + 1 \in 1..Len(writes) /\ n + 1 \in Nat \ {0}
      BY <1>1, <1>3, <2>1
    <3>2. writes[n + 1] \in Texts
      BY <1>1, <3>1, ElementOfSeq
    <3>3. /\ Len(ChunkCells(c, 2, n + 1, writes[n + 1])) \in Nat
          /\ 2 <= Len(ChunkCells(c, 2, n + 1, writes[n + 1]))
      BY <1>1, <3>1, <3>2, ChunkFills
    <3>. QED
      BY <2>1, <3>3
  <2>. QED
    BY <1>2, <2>1 DEF Settles, Waits
<1>6. ~d.failed
  <2>1. Decoding(d, c, writes, in, first)
    BY SettledDecodes
  <2>. QED
    BY <1>1, <2>1, DecodingIs
<1>. QED
  BY <1>3, <1>4, <1>5, <1>6

\* A client that writes another text leaves a settled decoder settled.
LEMMA SettledGrows ==
    ASSUME NEW c, NEW writes, NEW first, Session(c, writes, first),
           NEW in \in Seq(WireCells), NEW d,
           Settled(d, c, writes, in, first), NEW text \in Texts
    PROVE  Settled(d, c, Append(writes, text), in, first)
<1>. DEFINE longer == Append(writes, text)
<1>1. Chunked(c) /\ writes \in Seq(Texts) /\ first \in Texts
  BY DEF Session
<1>2. PICK n \in Nat, ahead \in {0, 1}, full \in Seq(WireCells) :
        DecoderAt(d, c, writes, in, first, n, ahead, full) /\ Settles(c, writes, n, ahead, full)
  BY DEF Settled
<1>3. /\ n \in 0..Len(writes) /\ Reached(c, 2, writes, in, n, full)
      /\ ahead = 1 => n < Len(writes) /\ 2 <= Len(full)
  BY <1>2 DEF DecoderAt
<1>4. /\ longer \in Seq(Texts) /\ Len(longer) = Len(writes) + 1
      /\ \A i \in 1..Len(writes) : longer[i] = writes[i]
      /\ n \in 0..Len(longer)
  BY <1>1, <1>3
<1>5. SubSeq(longer, 1, n) = SubSeq(writes, 1, n)
  BY <1>1, <1>3, <1>4
<1>6. /\ OutAt(first, longer, n) = OutAt(first, writes, n)
      /\ Upto(c, 2, longer, n) = Upto(c, 2, writes, n)
  BY <1>5 DEF OutAt, Upto
<1>7. Reached(c, 2, longer, in, n, full)
  <2>1. PICK rest \in Seq(WireCells) : Stream(c, 2, writes) = in \o rest
    BY <1>3 DEF Reached
  <2>2. PICK chunk \in Seq(WireCells) : chunk = ChunkCells(c, 2, Len(writes) + 1, text)
    <3>1. Len(writes) + 1 \in Nat \ {0}
      BY <1>1
    <3>. QED
      BY <3>1, ChunkCellsType
  <2>3. Stream(c, 2, longer) = (in \o rest) \o chunk
    <3>1. Stream(c, 2, longer) = Stream(c, 2, writes) \o ChunkCells(c, 2, Len(writes) + 1, text)
      BY <1>1, StreamAppend
    <3>. QED
      BY <2>1, <2>2, <3>1, Zenon
  <2>4. rest \o chunk \in Seq(WireCells) /\ (in \o rest) \o chunk = in \o (rest \o chunk)
    <3>1. Associates(in, rest, chunk)
      BY CellsAssociative
    <3>. QED
      BY <3>1, CellsConcat DEF Associates
  <2>. QED
    BY <1>3, <1>6, <2>3, <2>4 DEF Reached
<1>8. n # 0 => longer[n] = writes[n]
  BY <1>3, <1>4
<1>9. n < Len(writes) => longer[n + 1] = writes[n + 1]
  BY <1>1, <1>3, <1>4
<1>10. DecoderAt(d, c, longer, in, first, n, ahead, full)
  <2>. HIDE DEF longer
  <2>1. CASE c.protocol = "Vmess"
    <3>1. DecoderIs(d, c, PerChunk(c) * (n + ahead), n % CounterWrap, full,
                    IF ahead = 0 THEN <<>> ELSE <<Framing(c, n + 1)>>,
                    n # 0 /\ writes[n] = <<>>, OutAt(first, writes, n))
      BY <1>2, <2>1 DEF DecoderAt
    <3>2. DecoderIs(d, c, PerChunk(c) * (n + ahead), n % CounterWrap, full,
                    IF ahead = 0 THEN <<>> ELSE <<Framing(c, n + 1)>>,
                    n # 0 /\ longer[n] = <<>>, OutAt(first, longer, n))
      BY <1>6, <1>8, <3>1 DEF DecoderIs
    <3>3. ahead = 1 => n < Len(longer)
      BY <1>1, <1>3, <1>4
    <3>. QED
      BY <1>3, <1>4, <1>7, <2>1, <3>2, <3>3 DEF DecoderAt
  <2>2. CASE c.protocol = "Shadowsocks" /\ ahead = 0
    <3>1. DecoderIs(d, c, 0, 2 + 2 * n, full, <<>>, FALSE, OutAt(first, longer, n))
      BY <1>2, <1>6, <2>2 DEF DecoderAt
    <3>. QED
      BY <1>4, <1>7, <2>2, <3>1, AtLength
  <2>3. CASE c.protocol = "Shadowsocks" /\ ahead = 1
    <3>1. n < Len(writes) /\ n < Len(longer)
      BY <1>1, <1>3, <1>4, <2>3
    <3>2. DecoderIs(d, c, 0, (2 + 2 * n) + 1, Rest(full, 2), <<Len(longer[n + 1])>>, FALSE,
                    OutAt(first, longer, n))
      BY <1>2, <1>6, <1>9, <2>3, <3>1 DEF DecoderAt
    <3>. QED
      BY <1>3, <1>4, <1>7, <2>3, <3>1, <3>2, AtText
  <2>. QED
    BY <1>1, <2>1, <2>2, <2>3 DEF Chunked
<1>11. Settles(c, longer, n, ahead, full)
  <2>1. CASE n < Len(writes)
    <3>1. ChunkCells(c, 2, n + 1, longer[n + 1]) = ChunkCells(c, 2, n + 1, writes[n + 1])
      BY <1>9, <2>1
    <3>. HIDE DEF longer
    <3>. QED
      BY <1>2, <2>1, <3>1 DEF Settles, Waits
  <2>2. CASE ~(n < Len(writes))
    <3>1. n = Len(writes)
      BY <1>1, <1>3, <2>2
    <3>2. full = <<>>
      BY <1>1, <1>3, <3>1, NextChunk
    <3>3. Len(full) < 2
      BY <3>2
    <3>. QED
      BY <3>3 DEF Settles
  <2>. QED
    BY <2>1, <2>2
<1>. QED
  BY <1>10, <1>11 DEF Settled

-----------------------------------------------------------------------------
(* The units a client writes, which are numbered.                          *)

\* Units are numbered one by one.
LEMMA UnitsType ==
    ASSUME NEW a \in Nat, NEW k \in Nat
    PROVE  /\ Units(a + 1, a + k) \in Texts /\ Len(Units(a + 1, a + k)) = k
           /\ \A i \in 1..k : Units(a + 1, a + k)[i] = a + i
<1>1. (a + k) - (a + 1) + 1 = k
  OBVIOUS
<1>2. Units(a + 1, a + k) = [i \in 1..k |-> (a + 1) + i - 1]
  BY <1>1 DEF Units
<1>3. \A i \in 1..k : (a + 1) + i - 1 = a + i /\ a + i \in Nat
  OBVIOUS
<1>. QED
  BY <1>2, <1>3 DEF Texts

\* The first units.
LEMMA UnitsUpTo ==
    ASSUME NEW k \in Nat
    PROVE  /\ Units(1, k) \in Texts /\ Len(Units(1, k)) = k
           /\ \A i \in 1..k : Units(1, k)[i] = i
<1>1. Units(1, k) = [i \in 1..k |-> i]
  <2>1. k - 1 + 1 = k
    OBVIOUS
  <2>2. \A i \in 1..k : 1 + i - 1 = i
    OBVIOUS
  <2>3. Units(1, k) = [i \in 1..k |-> 1 + i - 1]
    BY <2>1 DEF Units
  <2>. QED
    BY <2>2, <2>3
<1>. QED
  BY <1>1 DEF Texts

\* The units that follow are numbered on.
LEMMA UnitsConcat ==
    ASSUME NEW a \in Nat, NEW k \in Nat
    PROVE  Units(1, a) \o Units(a + 1, a + k) = Units(1, a + k)
<1>1. PICK s \in Seq(Nat) : s = Units(1, a) /\ Len(s) = a /\ \A i \in 1..a : s[i] = i
  BY UnitsUpTo DEF Texts
<1>2. PICK t \in Seq(Nat) : t = Units(a + 1, a + k) /\ Len(t) = k /\ \A i \in 1..k : t[i] = a + i
  BY UnitsType DEF Texts
<1>3. a + k \in Nat
  OBVIOUS
<1>4. PICK u \in Seq(Nat) : u = Units(1, a + k) /\ Len(u) = a + k /\ \A i \in 1..(a + k) : u[i] = i
  BY <1>3, UnitsUpTo DEF Texts
<1>5. s \o t \in Seq(Nat) /\ Len(s \o t) = a + k
  <2>1. s \o t \in Seq(Nat) /\ Len(s \o t) = Len(s) + Len(t)
    BY ConcatProperties
  <2>. QED
    BY <1>1, <1>2, <2>1
<1>6. ASSUME NEW i \in 1..(a + k) PROVE (s \o t)[i] = u[i]
  <2>1. CASE i <= a
    <3>1. i \in 1..a
      BY <2>1
    <3>2. (s \o t)[i] = s[i]
      BY <1>1, <1>2, <3>1
    <3>. QED
      BY <1>1, <1>4, <3>1, <3>2
  <2>2. CASE ~(i <= a)
    <3>1. i - a \in 1..k /\ a + (i - a) = i
      BY <2>2
    <3>2. (s \o t)[i] = t[i - a]
      BY <1>1, <1>2, <2>2
    <3>. QED
      BY <1>2, <1>4, <3>1, <3>2
  <2>. QED
    BY <2>1, <2>2
<1>7. s \o t = u
  BY <1>4, <1>5, <1>6, SeqEqual
<1>. QED
  BY <1>1, <1>2, <1>4, <1>7

\* A client's payload begins with what its header carries.
First(c) == Units(1, Initial(c))

\* The payload in a header is a text.
LEMMA FirstType ==
    ASSUME NEW c \in Clients
    PROVE  Initial(c) \in Nat /\ First(c) \in Texts
<1>1. Initial(c) \in Nat
  BY ClientType DEF Initial
<1>. QED
  BY <1>1, UnitsUpTo DEF First

\* A text more is so many units more.
LEMMA WrittenAppend ==
    ASSUME NEW c \in Clients, NEW writes \in Seq(Texts), NEW text \in Texts
    PROVE  /\ Written(c, writes) \in Nat
           /\ Written(c, Append(writes, text)) = Written(c, writes) + Len(text)
<1>1. Initial(c) \in Nat
  BY FirstType
<1>2. writes \in Seq(Seq(Nat)) /\ text \in Seq(Nat)
  BY DEF Texts
<1>3. PICK flat \in Seq(Nat) : flat = FlattenSeq(writes)
  BY <1>2, FlattenType
<1>4. FlattenSeq(Append(writes, text)) = flat \o text
  BY <1>2, <1>3, FlattenAppend
<1>5. Len(flat \o text) = Len(flat) + Len(text) /\ Len(flat) \in Nat /\ Len(text) \in Nat
  BY <1>2, ConcatProperties
<1>. QED
  BY <1>1, <1>3, <1>4, <1>5 DEF Written

\* Each text goes on where the one before it ended.
Numbered(c, writes) ==
    \A n \in 0..Len(writes) :
        /\ Written(c, SubSeq(writes, 1, n)) \in Nat
        /\ OutAt(First(c), writes, n) = Units(1, Written(c, SubSeq(writes, 1, n)))

\* A client that has written nothing has numbered nothing beside its header.
LEMMA NothingNumbered ==
    ASSUME NEW c \in Clients
    PROVE  Numbered(c, <<>>)
<1>1. Written(c, <<>>) = Initial(c)
  <2>1. Len(FlattenSeq(<<>>)) = 0
    BY FlattenEmpty
  <2>. QED
    BY <2>1, FirstType DEF Written
<1>2. OutAt(First(c), <<>>, 0) = First(c)
  <2>1. SubSeq(<<>>, 1, 0) = <<>>
    OBVIOUS
  <2>. QED
    BY <2>1, FlattenEmpty, FirstType, ConcatEmptySeq DEF OutAt, Texts
<1>3. 0..Len(<<>>) = {0} /\ SubSeq(<<>>, 1, 0) = <<>>
  OBVIOUS
<1>. QED
  BY <1>1, <1>2, <1>3, FirstType DEF Numbered, First

\* A write numbers on.
LEMMA NumberedNext ==
    ASSUME NEW c \in Clients, NEW writes \in Seq(Texts), Numbered(c, writes), NEW k \in Nat
    PROVE  Numbered(c, Append(writes, Units(Written(c, writes) + 1, Written(c, writes) + k)))
<1>1. PICK w \in Nat : w = Written(c, writes)
  BY WrittenAppend, UnitsUpTo
<1>2. PICK text \in Texts : text = Units(w + 1, w + k) /\ Len(text) = k
  BY UnitsType
<1>3. PICK longer \in Seq(Texts) :
        /\ longer = Append(writes, text) /\ Len(longer) = Len(writes) + 1
        /\ \A i \in 1..Len(writes) : longer[i] = writes[i]
        /\ longer[Len(writes) + 1] = text
  <2>1. /\ Append(writes, text) \in Seq(Texts) /\ Len(Append(writes, text)) = Len(writes) + 1
        /\ \A i \in 1..Len(writes) : Append(writes, text)[i] = writes[i]
        /\ Append(writes, text)[Len(writes) + 1] = text
    OBVIOUS
  <2>. QED
    BY <2>1, Zenon
<1>4. Written(c, longer) = w + k
  BY <1>1, <1>2, <1>3, WrittenAppend
<1>5. SubSeq(longer, 1, Len(longer)) = longer /\ SubSeq(writes, 1, Len(writes)) = writes
  OBVIOUS
<1>6. OutAt(First(c), longer, Len(longer)) = Units(1, w + k)
  <2>1. /\ Len(writes) \in 0..(Len(longer) - 1) /\ Len(writes) \in 0..Len(writes)
        /\ Len(longer) = Len(writes) + 1 /\ First(c) \in Texts
    BY <1>3, FirstType
  <2>2. OutAt(First(c), longer, Len(writes)) \o longer[Len(writes) + 1]
          = OutAt(First(c), longer, Len(writes) + 1)
    BY <2>1, OutNext
  <2>3. SubSeq(longer, 1, Len(writes)) = writes
    BY <1>3
  <2>4. OutAt(First(c), longer, Len(writes)) = OutAt(First(c), writes, Len(writes))
    BY <1>5, <2>3 DEF OutAt
  <2>5. OutAt(First(c), writes, Len(writes)) = Units(1, w)
    BY <1>1, <1>5, <2>1 DEF Numbered
  <2>6. Units(1, w) \o text = Units(1, w + k)
    BY <1>2, UnitsConcat
  <2>. QED
    BY <1>3, <2>1, <2>2, <2>4, <2>5, <2>6
<1>7. ASSUME NEW n \in 0..Len(longer)
      PROVE  /\ Written(c, SubSeq(longer, 1, n)) \in Nat
             /\ OutAt(First(c), longer, n) = Units(1, Written(c, SubSeq(longer, 1, n)))
  <2>1. CASE n = Len(longer)
    <3>1. w + k \in Nat
      OBVIOUS
    <3>2. SubSeq(longer, 1, n) = longer /\ OutAt(First(c), longer, n) = Units(1, w + k)
      BY <1>5, <1>6, <2>1
    <3>. QED
      BY <1>4, <3>1, <3>2
  <2>2. CASE n # Len(longer)
    <3>1. n \in 0..Len(writes)
      BY <1>3, <2>2
    <3>2. SubSeq(longer, 1, n) = SubSeq(writes, 1, n)
      BY <1>3, <3>1
    <3>3. OutAt(First(c), longer, n) = OutAt(First(c), writes, n)
      BY <3>2 DEF OutAt
    <3>. QED
      BY <3>1, <3>2, <3>3 DEF Numbered
  <2>. QED
    BY <2>1, <2>2
<1>8. Numbered(c, longer)
  BY <1>7 DEF Numbered
<1>. QED
  BY <1>1, <1>2, <1>3, <1>8

-----------------------------------------------------------------------------
(* The wire of a client, and what has arrived of it.                       *)

\* Two parts of a sequence that meet.
LEMMA PartsMeet ==
    ASSUME NEW S, NEW s \in Seq(S), NEW p \in Nat, NEW q \in Nat, p <= q, q <= Len(s)
    PROVE  /\ SubSeq(s, 1, p) \in Seq(S) /\ SubSeq(s, p + 1, q) \in Seq(S)
           /\ Len(SubSeq(s, 1, p)) = p /\ Len(SubSeq(s, p + 1, q)) = q - p
           /\ \A i \in 1..(q - p) : SubSeq(s, p + 1, q)[i] = s[p + i]
           /\ SubSeq(s, 1, p) \o SubSeq(s, p + 1, q) = SubSeq(s, 1, q)
<1>1. PICK k \in Nat : k = p + 1
  OBVIOUS
<1>2. /\ SubSeq(s, 1, p) \in Seq(S) /\ Len(SubSeq(s, 1, p)) = p
  <2>1. \A i \in 1..p : s[i] \in S
    OBVIOUS
  <2>2. 1 \in Int /\ p \in Int
    OBVIOUS
  <2>3. /\ SubSeq(s, 1, p) \in Seq(S) /\ Len(SubSeq(s, 1, p)) = IF 1 <= p THEN p - 1 + 1 ELSE 0
    BY <2>1, <2>2, SubSeqProperties
  <2>4. (IF 1 <= p THEN p - 1 + 1 ELSE 0) = p
    OBVIOUS
  <2>. QED
    BY <2>3, <2>4
<1>3. /\ SubSeq(s, k, q) \in Seq(S) /\ Len(SubSeq(s, k, q)) = q - p
      /\ \A i \in 1..(q - p) : SubSeq(s, k, q)[i] = s[p + i]
  <2>1. \A i \in k..q : s[i] \in S
    BY <1>1
  <2>2. k \in Int /\ q \in Int
    OBVIOUS
  <2>3. /\ SubSeq(s, k, q) \in Seq(S) /\ Len(SubSeq(s, k, q)) = IF k <= q THEN q - k + 1 ELSE 0
        /\ \A i \in 1..q - k + 1 : SubSeq(s, k, q)[i] = s[k + i - 1]
    BY <2>1, <2>2, SubSeqProperties
  <2>4. (IF k <= q THEN q - k + 1 ELSE 0) = q - p /\ q - k + 1 = q - p
    BY <1>1
  <2>5. \A i \in 1..(q - p) : k + i - 1 = p + i
    BY <1>1
  <2>. QED
    BY <2>3, <2>4, <2>5
<1>4. SubSeq(s, 1, p) \o SubSeq(s, p + 1, q) = SubSeq(s, 1, q)
  <2>1. 1 \in 1..Len(s) + 1 /\ p \in 1 - 1..Len(s) /\ q \in p..Len(s)
    OBVIOUS
  <2>. QED
    BY <2>1, ConcatAdjacentSubSeq
<1>. QED
  BY <1>1, <1>2, <1>3, <1>4

\* A part of what follows the head of a sequence.
LEMMA BehindHead ==
    ASSUME NEW S, NEW head \in Seq(S), NEW s \in Seq(S), NEW a \in Nat, NEW b \in Nat,
           Len(head) <= a, a <= b, b <= Len(head) + Len(s)
    PROVE  SubSeq(head \o s, a + 1, b) = SubSeq(s, (a - Len(head)) + 1, b - Len(head))
<1>1. PICK h \in Nat : h = Len(head)
  OBVIOUS
<1>2. CASE a < b
  <2>1. /\ a + 1 \in Len(head) + 1..Len(head) + Len(s) /\ b \in Len(head) + 1..Len(head) + Len(s)
    BY <1>2
  <2>2. SubSeq(head \o s, a + 1, b) = SubSeq(s, a + 1 - Len(head), b - Len(head))
    BY <2>1, SubSeqOfConcat2
  <2>3. a + 1 - Len(head) = (a - Len(head)) + 1
    BY <1>1
  <2>. QED
    BY <2>2, <2>3
<1>3. CASE a = b
  <2>1. SubSeq(head \o s, a + 1, b) = <<>>
    <3>1. a + 1 \in Int /\ b \in Int /\ b < a + 1
      BY <1>3
    <3>. QED
      BY <3>1, SubSeqEmpty
  <2>2. SubSeq(s, (a - Len(head)) + 1, b - Len(head)) = <<>>
    <3>1. (a - h) + 1 \in Int /\ b - h \in Int /\ b - h < (a - h) + 1
      BY <1>3
    <3>2. SubSeq(s, (a - h) + 1, b - h) = <<>>
      BY <3>1, SubSeqEmpty
    <3>. QED
      BY <1>1, <3>2
  <2>. QED
    BY <2>1, <2>2
<1>. QED
  BY <1>2, <1>3

\* The wire of a client wraps its texts from the nonce behind the header on.
LEMMA ClientWireIs ==
    ASSUME NEW c \in Clients, NEW writes
    PROVE  ClientWire(c, writes) = Wrapped(c, 2, writes)
<1>1. c.protocol \in {"Vless", "Trojan", "Vmess", "Shadowsocks"}
  BY ClientType
<1>. QED
  BY <1>1 DEF ClientWire, Wrapped

\* The wire of a client, header included, for any texts.
WireOf(c, writes) == Bytes(<<Other("header", HelloLen(c))>> \o ClientWire(c, writes))

\* The wire is a header and the stream.
LEMMA WireIs ==
    ASSUME NEW c \in Clients, NEW writes \in Seq(Texts)
    PROVE  /\ Stream(c, 2, writes) \in Seq(WireCells)
           /\ \E head \in Seq(WireCells) :
                Len(head) = HelloLen(c) /\ WireOf(c, writes) = head \o Stream(c, 2, writes)
<1>1. PICK hello \in WireFields : hello = Other("header", HelloLen(c))
  <2>1. HelloLen(c) \in Nat /\ "header" \in OtherKinds
    BY HelloType DEF OtherKinds
  <2>. QED
    BY <2>1, FieldsOfWire
<1>2. hello.width = HelloLen(c)
  BY <1>1 DEF Other
<1>3. PICK wrapped \in Seq(WireFields) : wrapped = Wrapped(c, 2, writes)
  BY WrappedType
<1>4. PICK head \in Seq(WireCells) : head = Cells(hello) /\ Len(head) = HelloLen(c)
  BY <1>2, CellsOfField
<1>5. <<hello>> \in Seq(WireFields) /\ Bytes(<<hello>>) = head
  BY <1>4, BytesOne
<1>6. Bytes(<<hello>> \o wrapped) = Bytes(<<hello>>) \o Bytes(wrapped)
  BY <1>5, BytesConcat
<1>7. WireOf(c, writes) = head \o Stream(c, 2, writes)
  BY <1>1, <1>3, <1>5, <1>6, ClientWireIs DEF WireOf, Stream
<1>. QED
  BY <1>4, <1>7, StreamType

\* What has arrived behind the header, and what arrives next.
Came(c, writes, len) == SubSeq(Stream(c, 2, writes), 1, len - HelloLen(c))

\* What arrives between two places of a wire behind its header.
Arrives(c, writes, a, b, cells) ==
    /\ cells \in Seq(WireCells) /\ Len(cells) = b - a
    /\ Came(c, writes, a) \in Seq(WireCells) /\ Len(Came(c, writes, a)) = a - HelloLen(c)
    /\ Came(c, writes, a) \o cells = Came(c, writes, b)
    /\ \A i \in 1..(b - a) : cells[i] = Stream(c, 2, writes)[(a - HelloLen(c)) + i]
    /\ a - HelloLen(c) \in Nat /\ b - HelloLen(c) \in Nat
    /\ b - HelloLen(c) <= Len(Stream(c, 2, writes))

\* A piece of the wire behind the header is the next piece of the stream.
LEMMA Comes ==
    ASSUME NEW c \in Clients, NEW writes \in Seq(Texts), NEW a \in Nat, NEW b \in Nat,
           HelloLen(c) <= a, a <= b, b <= Len(WireOf(c, writes))
    PROVE  Arrives(c, writes, a, b, SubSeq(WireOf(c, writes), a + 1, b))
<1>1. PICK s \in Seq(WireCells) : s = Stream(c, 2, writes)
  BY WireIs
<1>2. PICK head \in Seq(WireCells) : Len(head) = HelloLen(c) /\ WireOf(c, writes) = head \o s
  BY <1>1, WireIs
<1>3. PICK h \in Nat : h = HelloLen(c)
  BY HelloType
<1>4. Len(WireOf(c, writes)) = h + Len(s)
  <2>1. Len(head \o s) = Len(head) + Len(s)
    BY CellsConcat
  <2>. QED
    BY <1>2, <1>3, <2>1
<1>5. PICK p \in Nat : p = a - h
  BY <1>3
<1>6. PICK q \in Nat : q = b - h
  BY <1>3
<1>7. p <= q /\ q <= Len(s) /\ Len(s) \in Nat /\ q - p = b - a
  <2>1. PICK l \in Nat : l = Len(s)
    OBVIOUS
  <2>2. h <= a /\ b <= h + l
    BY <1>3, <1>4, <2>1
  <2>3. p <= q /\ q <= l /\ q - p = b - a
    BY <1>5, <1>6, <2>2
  <2>. QED
    BY <2>1, <2>3
<1>8. SubSeq(WireOf(c, writes), a + 1, b) = SubSeq(s, p + 1, q)
  <2>1. Len(head) <= a /\ b <= Len(head) + Len(s)
    BY <1>2, <1>3, <1>4
  <2>2. SubSeq(head \o s, a + 1, b) = SubSeq(s, (a - Len(head)) + 1, b - Len(head))
    BY <2>1, BehindHead
  <2>. QED
    BY <1>2, <1>3, <1>5, <1>6, <2>2
<1>9. /\ SubSeq(s, 1, p) \in Seq(WireCells) /\ SubSeq(s, p + 1, q) \in Seq(WireCells)
      /\ Len(SubSeq(s, 1, p)) = p /\ Len(SubSeq(s, p + 1, q)) = q - p
      /\ \A i \in 1..(q - p) : SubSeq(s, p + 1, q)[i] = s[p + i]
      /\ SubSeq(s, 1, p) \o SubSeq(s, p + 1, q) = SubSeq(s, 1, q)
  BY <1>7, PartsMeet
<1>10. Came(c, writes, a) = SubSeq(s, 1, p) /\ Came(c, writes, b) = SubSeq(s, 1, q)
  BY <1>1, <1>3, <1>5, <1>6 DEF Came
<1>11. PICK cells : cells = SubSeq(WireOf(c, writes), a + 1, b)
  OBVIOUS
<1>12. Arrives(c, writes, a, b, cells)
  BY <1>1, <1>3, <1>5, <1>6, <1>7, <1>8, <1>9, <1>10, <1>11 DEF Arrives
<1>. QED
  BY <1>11, <1>12

\* What came behind the header begins the stream.
LEMMA CameBegins ==
    ASSUME NEW c \in Clients, NEW writes \in Seq(Texts), NEW a \in Nat,
           HelloLen(c) <= a, a <= Len(WireOf(c, writes))
    PROVE  /\ Came(c, writes, a) \in Seq(WireCells) /\ Len(Came(c, writes, a)) = a - HelloLen(c)
           /\ \E rest \in Seq(WireCells) : Stream(c, 2, writes) = Came(c, writes, a) \o rest
<1>1. PICK s \in Seq(WireCells) : s = Stream(c, 2, writes)
  BY WireIs
<1>2. a <= a
  OBVIOUS
<1>0. Arrives(c, writes, a, a, SubSeq(WireOf(c, writes), a + 1, a))
  BY <1>2, Comes
<1>3. PICK p \in Nat : p = a - HelloLen(c) /\ p <= Len(s)
  BY <1>0, <1>1 DEF Arrives
<1>4. Came(c, writes, a) \in Seq(WireCells) /\ Len(Came(c, writes, a)) = a - HelloLen(c)
  BY <1>0 DEF Arrives
<1>5. PICK l \in Nat : l = Len(s) /\ l <= Len(s)
  OBVIOUS
<1>6. /\ SubSeq(s, p + 1, l) \in Seq(WireCells)
      /\ SubSeq(s, 1, p) \o SubSeq(s, p + 1, l) = SubSeq(s, 1, l)
  <2>1. p <= l /\ l <= Len(s)
    BY <1>3, <1>5
  <2>. QED
    BY <2>1, PartsMeet
<1>7. SubSeq(s, 1, Len(s)) = s
  OBVIOUS
<1>8. Came(c, writes, a) = SubSeq(s, 1, p)
  BY <1>1, <1>3 DEF Came
<1>. QED
  BY <1>1, <1>4, <1>5, <1>6, <1>7, <1>8

-----------------------------------------------------------------------------
(* Streams that are not wrapped: the i-th cell is the i-th unit.           *)

\* In a stream that is not wrapped, the i-th cell is the i-th unit.
PlainNumbered(c, writes) ==
    /\ Len(Stream(c, 2, writes)) = Written(c, writes)
    /\ \A i \in 1..Len(Stream(c, 2, writes)) :
          LET cell == Stream(c, 2, writes)[i]
          IN  cell.field.kind = "plain" /\ cell.field.text[cell.part] = i

\* It holds of nothing.
LEMMA NothingPlain ==
    ASSUME NEW c \in Clients, ~Chunked(c)
    PROVE  PlainNumbered(c, <<>>)
<1>1. Written(c, <<>>) = 0
  <2>1. Initial(c) = 0
    BY DEF Initial, Chunked
  <2>2. Len(FlattenSeq(<<>>)) = 0
    BY FlattenEmpty
  <2>. QED
    BY <2>1, <2>2 DEF Written
<1>2. Stream(c, 2, <<>>) = <<>>
  BY StreamEmpty
<1>. QED
  BY <1>1, <1>2 DEF PlainNumbered

\* And is kept by a write.
LEMMA PlainNext ==
    ASSUME NEW c \in Clients, ~Chunked(c), NEW writes \in Seq(Texts), PlainNumbered(c, writes),
           NEW k \in Nat
    PROVE  PlainNumbered(c, Append(writes, Units(Written(c, writes) + 1, Written(c, writes) + k)))
<1>1. PICK w \in Nat : w = Written(c, writes)
  BY WrittenAppend, UnitsUpTo
<1>2. PICK text \in Texts :
        text = Units(w + 1, w + k) /\ Len(text) = k /\ \A i \in 1..k : text[i] = w + i
  BY UnitsType
<1>3. PICK plain \in WireFields : plain = Plain(text)
  BY FieldsOfWire
<1>4. plain.kind = "plain" /\ plain.width = k /\ plain.text = text
  BY <1>2, <1>3 DEF Plain
<1>5. PICK chunk \in Seq(WireCells) :
        /\ chunk = Cells(plain) /\ Len(chunk) = k
        /\ \A i \in 1..k : chunk[i] = [field |-> plain, part |-> i]
  BY <1>4, CellsOfField
<1>6. PICK s \in Seq(WireCells) : s = Stream(c, 2, writes)
  BY StreamType
<1>7. Stream(c, 2, Append(writes, text)) = s \o chunk
  <2>1. ChunkOf(c, 2, Len(writes) + 1, text) = <<plain>>
    BY <1>3 DEF ChunkOf, Chunked
  <2>2. ChunkCells(c, 2, Len(writes) + 1, text) = chunk
    BY <1>5, <2>1, BytesOne DEF ChunkCells
  <2>. QED
    BY <1>6, <2>2, StreamAppend
<1>8. Len(s) = w /\ \A i \in 1..w : s[i].field.kind = "plain" /\ s[i].field.text[s[i].part] = i
  BY <1>1, <1>6 DEF PlainNumbered
<1>9. Written(c, Append(writes, text)) = w + k
  BY <1>1, <1>2, WrittenAppend
<1>10. Len(s \o chunk) = w + k
  <2>1. Len(s \o chunk) = Len(s) + Len(chunk)
    BY CellsConcat
  <2>. QED
    BY <1>5, <1>8, <2>1
<1>11. ASSUME NEW i \in 1..(w + k)
       PROVE  /\ (s \o chunk)[i].field.kind = "plain"
              /\ (s \o chunk)[i].field.text[(s \o chunk)[i].part] = i
  <2>1. CASE i <= w
    <3>1. (s \o chunk)[i] = s[i] /\ i \in 1..w
      BY <1>5, <1>8, <2>1
    <3>. QED
      BY <1>8, <3>1
  <2>2. CASE ~(i <= w)
    <3>1. PICK j \in 1..k : j = i - w /\ w + j = i
      BY <2>2
    <3>2. (s \o chunk)[i] = chunk[j]
      <4>1. \A m \in 1..Len(chunk) : (s \o chunk)[Len(s) + m] = chunk[m]
        OBVIOUS
      <4>2. j \in 1..Len(chunk) /\ Len(s) + j = i
        BY <1>5, <1>8, <3>1
      <4>. QED
        BY <4>1, <4>2
    <3>3. chunk[j].field = plain /\ chunk[j].part = j
      BY <1>5
    <3>. QED
      BY <1>2, <1>4, <3>1, <3>2, <3>3
  <2>. QED
    BY <2>1, <2>2
<1>12. PlainNumbered(c, Append(writes, text))
  BY <1>7, <1>9, <1>10, <1>11 DEF PlainNumbered
<1>. QED
  BY <1>1, <1>2, <1>12

\* A plain decoder hands on what arrives.
PlainAt(d, c, k) ==
    DOMAIN d = DecoderFields /\ d.protocol = c.protocol /\ ~d.failed /\ d.out = Units(1, k)

\* A new decoder has passed nothing on.
LEMMA PlainNew ==
    ASSUME NEW c \in Clients, ~Chunked(c)
    PROVE  PlainAt(NewDecoder(c, First(c)), c, 0)
<1>1. Units(1, 0) = <<>>
  <2>1. Units(1, 0) \in Texts /\ Len(Units(1, 0)) = 0
    BY UnitsUpTo
  <2>. QED
    BY <2>1, EmptySeq DEF Texts
<1>. QED
  BY <1>1 DEF PlainAt, NewDecoder, DecoderFields

\* A decoder that wraps nothing passes on what it is fed.
LEMMA PlainDecodes ==
    ASSUME NEW c \in Clients, ~Chunked(c), NEW k \in Nat, NEW d, PlainAt(d, c, k),
           NEW cells \in Seq(WireCells),
           \A i \in 1..Len(cells) :
              cells[i].field.kind = "plain" /\ cells[i].field.text[cells[i].part] = k + i
    PROVE  PlainAt(Decode(d, cells), c, k + Len(cells))
<1>1. c.protocol \in {"Vless", "Trojan"}
  BY ClientType DEF Chunked
<1>2. PICK l \in Nat : l = Len(cells)
  OBVIOUS
<1>3. PlainText(cells) = Units(k + 1, k + l)
  <2>1. DOMAIN cells = 1..l
    BY <1>2
  <2>2. PlainText(cells) = [i \in 1..l |-> k + i]
    BY <1>2, <2>1 DEF PlainText
  <2>3. Units(k + 1, k + l) = [i \in 1..l |-> (k + 1) + i - 1]
    <3>1. (k + l) - (k + 1) + 1 = l
      OBVIOUS
    <3>. QED
      BY <3>1 DEF Units
  <2>4. \A i \in 1..l : (k + 1) + i - 1 = k + i
    OBVIOUS
  <2>. QED
    BY <2>2, <2>3, <2>4
<1>4. d.out \o PlainText(cells) = Units(1, k + l)
  BY <1>3, UnitsConcat DEF PlainAt
<1>5. Decode(d, cells) = [d EXCEPT !.out = @ \o PlainText(cells)]
  BY <1>1 DEF PlainAt, Decode
<1>. QED
  BY <1>2, <1>4, <1>5 DEF PlainAt, DecoderFields

\* Another text changes nothing of what has arrived.
LEMMA WireGrows ==
    ASSUME NEW c \in Clients, NEW writes \in Seq(Texts), NEW text \in Texts
    PROVE  /\ Len(WireOf(c, writes)) \in Nat
           /\ Len(WireOf(c, writes)) <= Len(WireOf(c, Append(writes, text)))
           /\ \A len \in Nat : HelloLen(c) <= len /\ len <= Len(WireOf(c, writes)) =>
                Came(c, Append(writes, text), len) = Came(c, writes, len)
<1>1. PICK longer \in Seq(Texts) : longer = Append(writes, text)
  <2>1. Append(writes, text) \in Seq(Texts)
    OBVIOUS
  <2>. QED
    BY <2>1, Zenon
<1>2. PICK s \in Seq(WireCells) : s = Stream(c, 2, writes)
  BY WireIs
<1>3. PICK t \in Seq(WireCells) : t = Stream(c, 2, longer)
  BY WireIs
<1>4. PICK chunk \in Seq(WireCells) : t = s \o chunk
  <2>1. Len(writes) + 1 \in Nat \ {0}
    OBVIOUS
  <2>2. ChunkCells(c, 2, Len(writes) + 1, text) \in Seq(WireCells)
    BY <2>1, ChunkCellsType
  <2>3. Stream(c, 2, Append(writes, text))
          = Stream(c, 2, writes) \o ChunkCells(c, 2, Len(writes) + 1, text)
    BY StreamAppend
  <2>4. t = s \o ChunkCells(c, 2, Len(writes) + 1, text)
    BY <1>1, <1>2, <1>3, <2>3
  <2>. QED
    BY <2>2, <2>4
<1>5. Len(t) = Len(s) + Len(chunk) /\ Len(s) \in Nat /\ Len(chunk) \in Nat
  BY <1>4, CellsConcat
<1>6. PICK h \in Nat : h = HelloLen(c)
  BY HelloType
<1>7. Len(WireOf(c, writes)) = h + Len(s)
  <2>1. PICK head \in Seq(WireCells) : Len(head) = h /\ WireOf(c, writes) = head \o s
    BY <1>2, <1>6, WireIs
  <2>2. Len(head \o s) = Len(head) + Len(s)
    BY CellsConcat
  <2>. QED
    BY <2>1, <2>2
<1>8. Len(WireOf(c, longer)) = h + Len(t)
  <2>1. PICK head \in Seq(WireCells) : Len(head) = h /\ WireOf(c, longer) = head \o t
    BY <1>3, <1>6, WireIs
  <2>2. Len(head \o t) = Len(head) + Len(t)
    BY CellsConcat
  <2>. QED
    BY <2>1, <2>2
<1>9. ASSUME NEW len \in Nat, h <= len, len <= Len(WireOf(c, writes))
      PROVE  Came(c, longer, len) = Came(c, writes, len)
  <2>1. PICK p \in Nat : p = len - h
    BY <1>9
  <2>2. p <= Len(s)
    BY <1>5, <1>7, <1>9, <2>1
  <2>3. SubSeq(s \o chunk, 1, p) = SubSeq(s, 1, p)
    <3>1. CASE p = 0
      <4>1. 1 \in Int /\ p \in Int /\ p < 1
        BY <3>1
      <4>. QED
        BY <4>1, SubSeqEmpty
    <3>2. CASE p # 0
      <4>1. 1 \in 1..Len(s) /\ p \in 1..Len(s)
        BY <1>5, <2>2, <3>2
      <4>. QED
        BY <4>1, SubSeqOfConcat1
    <3>. QED
      BY <3>1, <3>2
  <2>. QED
    BY <1>2, <1>3, <1>4, <1>6, <2>1, <2>3 DEF Came
<1>10. h + Len(s) \in Nat /\ h + Len(s) <= h + Len(t)
  BY <1>5
<1>. QED
  BY <1>1, <1>6, <1>7, <1>8, <1>9, <1>10

-----------------------------------------------------------------------------
(* The uplink of a session.                                                *)

\* What the client may write, and how its texts follow one another.
TextsFit ==
    /\ texts \in Seq(Texts) /\ Sendable(client, texts) /\ Numbered(client, texts)
    /\ ~Chunked(client) => PlainNumbered(client, texts)

\* The decoder has taken what has arrived behind the header.
Taken ==
    /\ Supported(client) /\ HelloLen(client) <= arrived
    /\ Chunked(client) =>
         Settled(decoder, client, texts, Came(client, texts, arrived), First(client))
    /\ ~Chunked(client) => PlainAt(decoder, client, arrived - HelloLen(client))

\* The strengthening, on the way up: only sizes that fit, and of a session that relays, a
\* decoder that has taken all that came.
UpInv ==
    /\ TextsFit
    /\ arrived <= Len(WireOf(client, texts))
    /\ phase # "poisoned"
    /\ phase = "relay" => Taken

\* It holds at first.
LEMMA InitUp == Init => UpInv
<1>. SUFFICES ASSUME Init PROVE UpInv
  OBVIOUS
<1>1. client \in Clients /\ texts = <<>> /\ arrived = 0 /\ phase = "header"
  BY DEF Init
<1>2. texts \in Seq(Texts) /\ Sendable(client, texts)
  BY <1>1 DEF Sendable
<1>3. TextsFit
  BY <1>1, <1>2, NothingNumbered, NothingPlain DEF TextsFit
<1>4. Len(WireOf(client, texts)) \in Nat
  <2>1. <<>> \in Texts
    BY DEF Texts
  <2>. QED
    BY <1>1, <1>2, <2>1, WireGrows
<1>. QED
  BY <1>1, <1>3, <1>4 DEF UpInv

\* The wire of the session.
LEMMA WireHere == Wire = WireOf(client, texts)
  BY DEF Wire, WireOf

\* It depends on these variables.
LEMMA UpKept ==
    ASSUME UpInv, UNCHANGED <<client, texts, arrived, decoder, phase>>
    PROVE  UpInv'
  BY DEF UpInv, TextsFit, Taken

\* A write leaves the decoder where it is in the longer stream.
LEMMA UpWrites ==
    ASSUME HeaderInv, UpInv, NEW n \in 0..MaxText, ClientWrites(n)
    PROVE  UpInv'
<1>. DEFINE text == Units(Written(client, texts) + 1, Written(client, texts) + n)
            longer == Append(texts, text)
<1>1. /\ client \in Clients /\ arrived \in Nat
      /\ texts \in Seq(Texts) /\ Sendable(client, texts) /\ Numbered(client, texts)
      /\ ~Chunked(client) => PlainNumbered(client, texts)
      /\ arrived <= Len(WireOf(client, texts)) /\ phase # "poisoned"
      /\ n \in Nat /\ n <= MaxText
  BY InboundAssumption DEF HeaderInv, UpInv, TextsFit
<1>2. /\ ~Over /\ (n = 0 => client.protocol = "Vmess")
      /\ texts' = longer /\ UNCHANGED <<client, arrived, phase, decoder>>
  BY DEF ClientWrites
<1>3. Written(client, texts) \in Nat
  BY <1>1, WrittenAppend, UnitsUpTo
<1>4. text \in Texts /\ Len(text) = n
  BY <1>1, <1>3, UnitsType
<1>5. /\ longer \in Seq(Texts) /\ Len(longer) = Len(texts) + 1
      /\ \A i \in 1..Len(texts) : longer[i] = texts[i]
      /\ longer[Len(texts) + 1] = text
  BY <1>1, <1>4
<1>6. Sendable(client, longer)
  <2>1. \A i \in 1..Len(texts) : texts[i] # <<>>
    <3>1. texts # <<>> => texts[Len(texts)] # <<>>
      BY <1>2 DEF Over, Last
    <3>2. ASSUME NEW i \in 1..Len(texts), texts[i] = <<>> PROVE FALSE
      <4>1. i = Len(texts) /\ texts # <<>>
        BY <1>1, <3>2 DEF Sendable
      <4>. QED
        BY <3>1, <3>2, <4>1
    <3>. QED
      BY <3>2
  <2>2. ASSUME NEW i \in 1..Len(longer)
        PROVE  /\ Len(longer[i]) <= MaxText
               /\ longer[i] = <<>> => client.protocol = "Vmess" /\ i = Len(longer)
    <3>1. CASE i = Len(texts) + 1
      <4>1. longer[i] = text
        BY <1>5, <3>1
      <4>2. text = <<>> => n = 0
        BY <1>4
      <4>. HIDE DEF longer, text
      <4>. QED
        BY <1>1, <1>2, <1>4, <1>5, <3>1, <4>1, <4>2
    <3>2. CASE i # Len(texts) + 1
      <4>1. i \in 1..Len(texts) /\ longer[i] = texts[i]
        BY <1>1, <1>5, <3>2
      <4>. HIDE DEF longer
      <4>. QED
        BY <1>1, <2>1, <4>1 DEF Sendable
    <3>. QED
      BY <3>1, <3>2
  <2>. HIDE DEF longer
  <2>. QED
    BY <1>5, <2>2 DEF Sendable
<1>7. Numbered(client, longer)
  BY <1>1, NumberedNext
<1>8. ~Chunked(client) => PlainNumbered(client, longer)
  BY <1>1, PlainNext
<1>. HIDE DEF longer, text
<1>9. TextsFit'
  BY <1>2, <1>5, <1>6, <1>7, <1>8 DEF TextsFit
<1>10. /\ Len(WireOf(client, texts)) \in Nat
       /\ Len(WireOf(client, texts)) <= Len(WireOf(client, longer))
       /\ \A len \in Nat : HelloLen(client) <= len /\ len <= Len(WireOf(client, texts)) =>
            Came(client, longer, len) = Came(client, texts, len)
  BY <1>1, <1>4, WireGrows DEF longer
<1>11. arrived' <= Len(WireOf(client, texts))'
  <2>1. Len(WireOf(client, longer)) \in Nat
    <3>1. <<>> \in Texts
      BY DEF Texts
    <3>. QED
      BY <1>1, <1>5, <3>1, WireGrows
  <2>2. arrived <= Len(WireOf(client, longer))
    BY <1>1, <1>10, <2>1
  <2>. QED
    BY <1>2, <2>2
<1>12. ASSUME phase = "relay" PROVE Taken'
  <2>1. /\ Supported(client) /\ HelloLen(client) <= arrived
        /\ Chunked(client) =>
             Settled(decoder, client, texts, Came(client, texts, arrived), First(client))
        /\ ~Chunked(client) => PlainAt(decoder, client, arrived - HelloLen(client))
    BY <1>12 DEF UpInv, Taken
  <2>2. Came(client, longer, arrived) = Came(client, texts, arrived)
    BY <1>1, <1>10, <2>1
  <2>3. Came(client, texts, arrived) \in Seq(WireCells)
    BY <1>1, <2>1, CameBegins
  <2>4. ASSUME Chunked(client)
        PROVE  Settled(decoder, client, longer, Came(client, longer, arrived), First(client))
    <3>1. Session(client, texts, First(client))
      BY <1>1, <2>1, <2>4, FirstType DEF Session
    <3>2. Settled(decoder, client, longer, Came(client, texts, arrived), First(client))
      BY <1>4, <2>1, <2>3, <2>4, <3>1, SettledGrows DEF longer
    <3>. QED
      BY <2>2, <3>2
  <2>. QED
    BY <1>2, <2>1, <2>4 DEF Taken
<1>. QED
  BY <1>1, <1>2, <1>9, <1>11, <1>12 DEF UpInv

\* More of the wire arrives at a decoder that has taken what came before.
LEMMA TakesMore ==
    ASSUME NEW c \in Clients, NEW writes \in Seq(Texts), NEW a \in Nat, NEW b \in Nat,
           HelloLen(c) <= a, a <= b, b <= Len(WireOf(c, writes)), NEW d, NEW cells,
           cells = SubSeq(WireOf(c, writes), a + 1, b)
    PROVE  /\ Session(c, writes, First(c)) /\ Settled(d, c, writes, Came(c, writes, a), First(c)) =>
                Settled(Decode(d, cells), c, writes, Came(c, writes, b), First(c))
           /\ ~Chunked(c) /\ PlainNumbered(c, writes) /\ PlainAt(d, c, a - HelloLen(c)) =>
                PlainAt(Decode(d, cells), c, b - HelloLen(c))
<1>0. Arrives(c, writes, a, b, SubSeq(WireOf(c, writes), a + 1, b))
  BY Comes
<1>1. PICK in \in Seq(WireCells) : in = Came(c, writes, a)
  BY <1>0 DEF Arrives
<1>2. PICK h \in Nat : h = HelloLen(c)
  BY HelloType
<1>3. /\ cells \in Seq(WireCells) /\ Len(cells) = b - a
      /\ in \o cells = Came(c, writes, b)
      /\ \A i \in 1..(b - a) : cells[i] = Stream(c, 2, writes)[(a - h) + i]
      /\ a - h \in Nat /\ b - h \in Nat /\ b - h <= Len(Stream(c, 2, writes))
  <2>1. Arrives(c, writes, a, b, cells)
    BY <1>0
  <2>. QED
    BY <1>1, <1>2, <2>1 DEF Arrives
<1>4. \E rest \in Seq(WireCells) : Stream(c, 2, writes) = Came(c, writes, b) \o rest
  <2>1. HelloLen(c) <= b
    BY <1>2
  <2>. QED
    BY <2>1, CameBegins
<1>5. ASSUME Session(c, writes, First(c)), Settled(d, c, writes, Came(c, writes, a), First(c))
      PROVE  Settled(Decode(d, cells), c, writes, Came(c, writes, b), First(c))
  <2>1. More(c, writes, in, cells)
    BY <1>3, <1>4 DEF More
  <2>2. Settled(d, c, writes, in, First(c))
    BY <1>1, <1>5
  <2>3. Settled(Decode(d, cells), c, writes, in \o cells, First(c))
    BY <1>3, <1>5, <2>1, <2>2, SettledFeeds
  <2>. QED
    BY <1>3, <2>3
<1>6. ASSUME ~Chunked(c), PlainNumbered(c, writes), PlainAt(d, c, a - HelloLen(c))
      PROVE  PlainAt(Decode(d, cells), c, b - HelloLen(c))
  <2>1. PICK k \in Nat : k = a - h
    BY <1>3
  <2>2. k + Len(cells) = b - h
    <3>1. PICK l \in Nat : l = Len(cells) /\ l = b - a
      BY <1>3
    <3>. QED
      BY <1>2, <2>1, <3>1
  <2>3. ASSUME NEW i \in 1..Len(cells)
        PROVE  cells[i].field.kind = "plain" /\ cells[i].field.text[cells[i].part] = k + i
    <3>1. i \in 1..(b - a) /\ cells[i] = Stream(c, 2, writes)[k + i]
      BY <1>3, <2>1
    <3>2. k + i \in 1..Len(Stream(c, 2, writes))
      <4>1. Stream(c, 2, writes) \in Seq(WireCells)
        BY WireIs
      <4>2. PICK l \in Nat : l = Len(Stream(c, 2, writes))
        BY <4>1
      <4>3. k + i <= b - h /\ b - h <= l
        <5>1. i <= b - a /\ i \in Nat
          BY <3>1
        <5>2. k + i <= b - h
          BY <1>2, <2>1, <5>1
        <5>3. b - h <= l
          BY <1>3, <4>2
        <5>. QED
          BY <5>2, <5>3
      <4>4. i \in Nat /\ 1 <= i
        BY <3>1
      <4>5. 1 <= k + i /\ k + i <= l /\ k + i \in Nat
        <5>1. PICK y \in Nat : y = b - h
          BY <1>3
        <5>. QED
          BY <2>1, <4>2, <4>3, <4>4, <5>1
      <4>6. k + i \in 1..l
        BY <4>2, <4>5
      <4>. QED
        BY <4>2, <4>6, Zenon
    <3>. QED
      BY <1>6, <3>1, <3>2 DEF PlainNumbered
  <2>4. PlainAt(d, c, k)
    BY <1>2, <1>6, <2>1
  <2>5. PlainAt(Decode(d, cells), c, k + Len(cells))
    BY <1>3, <1>6, <2>3, <2>4, PlainDecodes
  <2>. QED
    BY <1>2, <2>2, <2>5
<1>. QED
  BY <1>5, <1>6

\* A piece of the stream is decoded.
LEMMA UpStreams ==
    ASSUME HeaderInv, UpInv, NEW n \in 1..(Len(Wire) - arrived), Upstream(n)
    PROVE  UpInv'
<1>1. /\ client \in Clients /\ arrived \in Nat /\ n \in Nat /\ arrived + n \in Nat
      /\ texts \in Seq(Texts) /\ Sendable(client, texts) /\ TextsFit
      /\ ~Chunked(client) => PlainNumbered(client, texts)
      /\ phase = "relay" /\ Taken
  BY DEF HeaderInv, UpInv, TextsFit, Upstream
<1>2. PICK b \in Nat : b = arrived + n /\ arrived <= b
  BY <1>1
<1>3. PICK cells : cells = SubSeq(WireOf(client, texts), arrived + 1, b)
  OBVIOUS
<1>4. /\ b <= Len(WireOf(client, texts)) /\ arrived' = b
      /\ decoder' = Decode(decoder, cells)
      /\ phase' = IF decoder'.failed THEN "poisoned" ELSE "relay"
      /\ UNCHANGED <<client, texts>>
  BY <1>2, <1>3, WireHere DEF Upstream
<1>5. /\ Supported(client) /\ HelloLen(client) <= arrived
      /\ Chunked(client) =>
           Settled(decoder, client, texts, Came(client, texts, arrived), First(client))
      /\ ~Chunked(client) => PlainAt(decoder, client, arrived - HelloLen(client))
  BY <1>1 DEF Taken
<1>6. HelloLen(client) <= b
  BY <1>1, <1>2, <1>5, HelloType
<1>7. First(client) \in Texts
  BY <1>1, FirstType
<1>8. Chunked(client) => Session(client, texts, First(client))
  BY <1>1, <1>5, <1>7 DEF Session
<1>9. /\ Chunked(client) =>
           Settled(decoder', client, texts, Came(client, texts, b), First(client))
      /\ ~Chunked(client) => PlainAt(decoder', client, b - HelloLen(client))
  BY <1>1, <1>2, <1>3, <1>4, <1>5, <1>8, TakesMore
<1>10. ~decoder'.failed
  <2>1. CASE Chunked(client)
    BY <1>8, <1>9, <2>1, SettledOut
  <2>2. CASE ~Chunked(client)
    BY <1>9, <2>2 DEF PlainAt
  <2>. QED
    BY <2>1, <2>2
<1>11. TextsFit'
  BY <1>1, <1>4 DEF TextsFit
<1>12. Taken'
  BY <1>4, <1>5, <1>6, <1>9 DEF Taken
<1>. QED
  BY <1>4, <1>10, <1>11, <1>12 DEF UpInv

\* What is served after the join is the header that the client sent.
LEMMA BeginsServed ==
    ASSUME HeaderInv, phase = "join", ~Refused(Detect(client, arrived, Fresh(client)))
    PROVE  /\ Detect(client, arrived, Fresh(client)).header = HelloLen(client)
           /\ HelloLen(client) <= arrived
<1>. DEFINE answer == Detect(client, arrived, Fresh(client))
<1>1. /\ client \in Clients /\ age \in Int /\ arrived \in Nat
  BY DEF HeaderInv
<1>2. Fresh(client) \in BOOLEAN
  BY <1>1, FreshType
<1>3. answer.verdict = "ok" =>
        /\ Sound(client) /\ HelloLen(client) <= arrived
        /\ answer = Request(client.protocol, HelloLen(client), client)
  BY <1>1, <1>2, Detected
<1>. HIDE DEF answer
<1>4. answer.verdict = "ok"
  BY DEF Refused, answer
<1>5. answer.header = HelloLen(client)
  BY <1>1, <1>3, <1>4, Requested
<1>. QED
  BY <1>3, <1>4, <1>5 DEF answer

\* The header is there, and the decoder gets what came behind it.
LEMMA UpBegins ==
    ASSUME HeaderInv, UpInv, Begin
    PROVE  UpInv'
<1>. DEFINE answer == Detect(client, arrived, Fresh(client))
            leading == SubSeq(Wire, answer.header + 1, arrived)
            first == Decode(NewDecoder(client, First(client)), leading)
<1>1. /\ client \in Clients /\ arrived \in Nat /\ arrived <= Len(WireOf(client, texts))
      /\ texts \in Seq(Texts) /\ Sendable(client, texts) /\ TextsFit
      /\ ~Chunked(client) => PlainNumbered(client, texts)
  BY DEF HeaderInv, UpInv, TextsFit
<1>2. /\ phase = "join"
      /\ phase' = CASE Refused(answer)                         -> "refused"
                    [] ~Refused(answer) /\ ~Supported(client)  -> "abandoned"
                    [] ~Refused(answer) /\ Supported(client) /\ first.failed -> "poisoned"
                    [] OTHER                                   -> "relay"
      /\ decoder' = IF phase' \in {"relay", "poisoned"} THEN first ELSE decoder
      /\ UNCHANGED <<client, texts, arrived>>
  BY DEF Begin, First
<1>3. ~Refused(answer) => answer.header = HelloLen(client) /\ HelloLen(client) <= arrived
  BY <1>2, BeginsServed
<1>. HIDE DEF answer, first
<1>4. ASSUME ~Refused(answer), Supported(client)
      PROVE  /\ ~first.failed /\ HelloLen(client) <= arrived
             /\ Chunked(client) =>
                  Settled(first, client, texts, Came(client, texts, arrived), First(client))
             /\ ~Chunked(client) => PlainAt(first, client, arrived - HelloLen(client))
  <2>1. PICK h \in Nat : h = HelloLen(client)
    BY <1>1, HelloType
  <2>2. h <= arrived /\ h <= h /\ answer.header = h
    BY <1>3, <1>4, <2>1
  <2>3. PICK cells : cells = SubSeq(WireOf(client, texts), h + 1, arrived)
    OBVIOUS
  <2>4. first = Decode(NewDecoder(client, First(client)), cells)
    BY <2>2, <2>3, WireHere DEF first
  <2>5. First(client) \in Texts
    BY <1>1, FirstType
  <2>6. /\ cells \in Seq(WireCells)
        /\ Came(client, texts, h) \o cells = Came(client, texts, arrived)
        /\ Came(client, texts, h) \in Seq(WireCells) /\ Len(Came(client, texts, h)) = h - h
    <3>1. HelloLen(client) <= h
      BY <2>1, <2>2
    <3>2. Arrives(client, texts, h, arrived, SubSeq(WireOf(client, texts), h + 1, arrived))
      BY <1>1, <2>2, <3>1, Comes
    <3>3. Arrives(client, texts, h, arrived, cells)
      BY <2>3, <3>2
    <3>. QED
      BY <2>1, <3>3 DEF Arrives
  <2>7. CASE Chunked(client)
    <3>1. Session(client, texts, First(client))
      BY <1>1, <1>4, <2>5, <2>7 DEF Session
    <3>2. cells = Came(client, texts, arrived)
      <4>0. h - h = 0
        BY <2>1
      <4>1. PICK none \in Seq(WireCells) : none = Came(client, texts, h) /\ Len(none) = 0
        BY <2>6, <4>0, Zenon
      <4>2. none = <<>>
        BY <4>1, EmptySeq
      <4>3. <<>> \o cells = cells
        BY <2>6, ConcatEmptySeq
      <4>. QED
        BY <2>6, <4>1, <4>2, <4>3
    <3>3. \E rest \in Seq(WireCells) : Stream(client, 2, texts) = cells \o rest
      BY <1>1, <2>1, <2>2, <3>2, CameBegins
    <3>4. Settled(first, client, texts, cells, First(client))
      BY <2>4, <2>6, <3>1, <3>3, NewSettles
    <3>5. ~first.failed
      BY <3>1, <3>4, SettledOut
    <3>. QED
      BY <2>1, <2>2, <2>7, <3>2, <3>4, <3>5
  <2>8. CASE ~Chunked(client)
    <3>1. PlainAt(NewDecoder(client, First(client)), client, 0)
      BY <1>1, <2>8, PlainNew
    <3>2. 0 = h - HelloLen(client)
      BY <2>1
    <3>3. PlainAt(NewDecoder(client, First(client)), client, h - HelloLen(client))
      BY <3>1, <3>2
    <3>4. PlainAt(first, client, arrived - HelloLen(client))
      BY <1>1, <2>1, <2>2, <2>3, <2>4, <2>8, <3>3, TakesMore
    <3>. QED
      BY <2>1, <2>2, <2>8, <3>4 DEF PlainAt
  <2>. QED
    BY <2>7, <2>8
<1>5. TextsFit'
  BY <1>1, <1>2 DEF TextsFit
<1>6. CASE ~Refused(answer) /\ Supported(client)
  <2>1. ~first.failed
    BY <1>4, <1>6
  <2>2. phase' = "relay"
    BY <1>2, <1>6, <2>1
  <2>3. decoder' = first
    BY <1>2, <2>2
  <2>4. Taken'
    BY <1>2, <1>4, <1>6, <2>3 DEF Taken
  <2>. QED
    BY <1>1, <1>2, <1>5, <2>2, <2>4 DEF UpInv
<1>7. CASE Refused(answer) \/ ~Supported(client)
  <2>1. phase' \in {"refused", "abandoned"}
    BY <1>2, <1>7
  <2>. QED
    BY <1>1, <1>2, <1>5, <2>1 DEF UpInv
<1>. QED
  BY <1>6, <1>7

\* A piece of the header waits.
LEMMA UpReads ==
    ASSUME HeaderInv, UpInv, NEW n \in 1..(Len(Wire) - arrived), HeaderChunk(n)
    PROVE  UpInv'
<1>1. /\ client \in Clients /\ arrived \in Nat /\ n \in Nat /\ TextsFit
      /\ texts \in Seq(Texts)
  BY DEF HeaderInv, UpInv, TextsFit
<1>2. arrived' = arrived + n /\ arrived + n <= Len(Wire) /\ UNCHANGED <<client, texts>>
  BY DEF HeaderChunk
<1>3. phase' \in {"header", "join", "refused"}
  BY DEF HeaderChunk
<1>4. arrived' <= Len(WireOf(client, texts))'
  BY <1>2, WireHere
<1>5. TextsFit'
  BY <1>1, <1>2 DEF TextsFit
<1>. QED
  BY <1>3, <1>4, <1>5 DEF UpInv

\* Every step keeps it.
LEMMA NextUp == HeaderInv /\ UpInv /\ [Next]_vars => UpInv'
<1>. SUFFICES ASSUME HeaderInv, UpInv, [Next]_vars PROVE UpInv'
  OBVIOUS
<1>1. ASSUME NEW n \in 0..MaxText, ClientWrites(n) PROVE UpInv'
  BY <1>1, UpWrites
<1>2. CASE Ticks
  BY <1>2, UpKept DEF Ticks
<1>3. ASSUME NEW n \in 1..(Len(Wire) - arrived), HeaderChunk(n) PROVE UpInv'
  BY <1>3, UpReads
<1>4. CASE Begin
  BY <1>4, UpBegins
<1>5. ASSUME NEW n \in 1..(Len(Wire) - arrived), Upstream(n) PROVE UpInv'
  BY <1>5, UpStreams
<1>6. CASE Prologue
  BY <1>6, UpKept DEF Prologue
<1>7. ASSUME NEW n \in 1..MaxSent, Answers(n) PROVE UpInv'
  BY <1>7, UpKept DEF Answers
<1>8. CASE UNCHANGED vars
  BY <1>8, UpKept DEF vars
<1>. QED
  BY <1>1, <1>2, <1>3, <1>4, <1>5, <1>6, <1>7, <1>8 DEF Next

-----------------------------------------------------------------------------
(* What has come out of a decoder is what has arrived whole.               *)

\* More chunks take no fewer cells.
LEMMA UptoGrows ==
    ASSUME NEW c, NEW nonce \in Nat, NEW writes \in Seq(Texts), NEW n \in 0..Len(writes),
           NEW m \in 0..Len(writes), n <= m
    PROVE  Len(Upto(c, nonce, writes, n)) <= Len(Upto(c, nonce, writes, m))
<1>1. PICK part \in Seq(WireCells) : part = Upto(c, nonce, writes, n)
  BY UptoType
<1>2. PICK rest \in Seq(WireCells) : Upto(c, nonce, writes, m) = Upto(c, nonce, writes, n) \o rest
  <2>1. GoesOn(c, nonce, writes, n, m)
    BY UptoGoesOn
  <2>. QED
    BY <2>1 DEF GoesOn
<1>3. Len(part \o rest) = Len(part) + Len(rest) /\ Len(part) \in Nat /\ Len(rest) \in Nat
  BY CellsConcat
<1>. QED
  BY <1>1, <1>2, <1>3

\* The chunks that have arrived are those a settled decoder has taken.
LEMMA WholeTaken ==
    ASSUME NEW c, Chunked(c), NEW writes \in Seq(Texts), NEW in \in Seq(WireCells),
           NEW n \in 0..Len(writes), NEW full \in Seq(WireCells),
           Reached(c, 2, writes, in, n, full), Waits(c, writes, n, full),
           NEW k \in 0..Len(writes)
    PROVE  Len(Upto(c, 2, writes, k)) <= Len(in) <=> k <= n
<1>1. PICK done \in Seq(WireCells) : done = Upto(c, 2, writes, n)
  BY UptoType
<1>2. Len(in) = Len(done) + Len(full) /\ Len(done) \in Nat /\ Len(full) \in Nat /\ Len(in) \in Nat
  <2>1. in = done \o full
    BY <1>1 DEF Reached
  <2>2. Len(done \o full) = Len(done) + Len(full)
    BY CellsConcat
  <2>. QED
    BY <2>1, <2>2
<1>3. PICK part \in Seq(WireCells) : part = Upto(c, 2, writes, k)
  BY UptoType
<1>4. CASE k <= n
  <2>1. Len(part) <= Len(done)
    BY <1>1, <1>3, <1>4, UptoGrows
  <2>2. Len(part) \in Nat
    OBVIOUS
  <2>3. Len(part) <= Len(in)
    BY <1>2, <2>1, <2>2
  <2>. QED
    BY <1>3, <1>4, <2>3
<1>5. CASE ~(k <= n)
  <2>1. n \in 0..(Len(writes) - 1) /\ n < Len(writes) /\ n + 1 <= k /\ n + 1 \in 0..Len(writes)
        /\ n + 1 \in Nat \ {0}
    BY <1>5
  <2>2. PICK text \in Texts : text = writes[n + 1]
    BY <2>1, UptoNext
  <2>3. PICK chunk \in Seq(WireCells) : chunk = ChunkCells(c, 2, n + 1, text)
    BY <2>1, ChunkCellsType
  <2>4. PICK next \in Seq(WireCells) : next = Upto(c, 2, writes, n + 1)
    BY <2>1, UptoType
  <2>5. next = done \o chunk
    BY <1>1, <2>1, <2>2, <2>3, <2>4, UptoNext
  <2>6. Len(done \o chunk) = Len(done) + Len(chunk) /\ Len(chunk) \in Nat
    BY CellsConcat
  <2>7. Len(full) < Len(chunk)
    BY <2>1, <2>2, <2>3 DEF Waits
  <2>8. Len(next) <= Len(part) /\ Len(part) \in Nat
    BY <1>3, <2>1, <2>4, UptoGrows
  <2>9. Len(in) < Len(part)
    BY <1>2, <2>5, <2>6, <2>7, <2>8
  <2>. QED
    BY <1>2, <1>3, <1>5, <2>8, <2>9
<1>. QED
  BY <1>4, <1>5

\* A greatest member is the one that Max names.
LEMMA MaxIs ==
    ASSUME NEW S \in SUBSET Nat, NEW n \in S, \A k \in S : k <= n
    PROVE  Max(S) = n
<1>1. Max(S) \in S /\ \A k \in S : k <= Max(S)
  BY MaxIsMember
<1>2. PICK top \in Nat : top = Max(S)
  BY <1>1
<1>3. n <= top /\ top <= n /\ n \in Nat
  BY <1>1, <1>2
<1>. QED
  BY <1>2, <1>3

\* The chunks that have arrived whole, for any texts.
WholeOf(c, writes, len) ==
    LET cells(n) == Len(Bytes(ClientWire(c, SubSeq(writes, 1, n))))
    IN  Max({n \in 0..Len(writes) : HelloLen(c) + cells(n) <= len})

\* Those of the session.
LEMMA WholeHere == Whole = WholeOf(client, texts, arrived)
  BY DEF Whole, WholeOf

\* A settled decoder is at the first chunk that has not arrived whole.
LEMMA WholeIs ==
    ASSUME NEW c \in Clients, Chunked(c), NEW writes \in Seq(Texts), NEW len \in Nat,
           HelloLen(c) <= len, NEW in \in Seq(WireCells), Len(in) = len - HelloLen(c),
           NEW n \in 0..Len(writes), NEW full \in Seq(WireCells),
           Reached(c, 2, writes, in, n, full), Waits(c, writes, n, full)
    PROVE  WholeOf(c, writes, len) = n
<1>1. PICK h \in Nat : h = HelloLen(c)
  BY HelloType
<1>2. PICK l \in Nat : l = Len(in) /\ l = len - h
  BY <1>1
<1>3. ASSUME NEW k \in 0..Len(writes)
      PROVE  HelloLen(c) + Len(Bytes(ClientWire(c, SubSeq(writes, 1, k)))) <= len <=> k <= n
  <2>1. Bytes(ClientWire(c, SubSeq(writes, 1, k))) = Upto(c, 2, writes, k)
    BY ClientWireIs DEF Upto, Stream
  <2>2. Len(Upto(c, 2, writes, k)) <= Len(in) <=> k <= n
    BY WholeTaken
  <2>3. PICK u \in Nat : u = Len(Upto(c, 2, writes, k))
    BY UptoType
  <2>4. h + u <= len <=> u <= l
    BY <1>2
  <2>. QED
    BY <1>1, <1>2, <2>1, <2>2, <2>3, <2>4
<1>. DEFINE S == {k \in 0..Len(writes) :
                    HelloLen(c) + Len(Bytes(ClientWire(c, SubSeq(writes, 1, k)))) <= len}
<1>4. S \in SUBSET Nat /\ n \in S /\ \A k \in S : k <= n
  BY <1>3
<1>5. WholeOf(c, writes, len) = Max(S)
  BY DEF WholeOf
<1>. HIDE DEF S
<1>. QED
  BY <1>4, <1>5, MaxIs

\* The uplink is intact wherever the session stands.
LEMMA UpIntact == HeaderInv /\ UpInv => UplinkIntact
<1>. SUFFICES ASSUME HeaderInv, UpInv PROVE UplinkIntact
  OBVIOUS
<1>1. /\ client \in Clients /\ arrived \in Nat /\ arrived <= Len(WireOf(client, texts))
      /\ texts \in Seq(Texts) /\ Sendable(client, texts) /\ Numbered(client, texts)
      /\ phase # "poisoned"
      /\ phase = "relay" => Taken
  BY DEF HeaderInv, UpInv, TextsFit
<1>2. ASSUME phase = "relay", Chunked(client)
      PROVE  decoder.out = Units(1, Written(client, SubSeq(texts, 1, Whole)))
  <2>1. /\ Supported(client) /\ HelloLen(client) <= arrived
        /\ Settled(decoder, client, texts, Came(client, texts, arrived), First(client))
    BY <1>1, <1>2 DEF Taken
  <2>2. Session(client, texts, First(client))
    BY <1>1, <1>2, <2>1, FirstType DEF Session
  <2>3. PICK in \in Seq(WireCells) :
          in = Came(client, texts, arrived) /\ Len(in) = arrived - HelloLen(client)
    BY <1>1, <2>1, CameBegins
  <2>4. PICK n \in 0..Len(texts), full \in Seq(WireCells) :
          /\ decoder.out = OutAt(First(client), texts, n)
          /\ Reached(client, 2, texts, in, n, full) /\ Waits(client, texts, n, full)
    BY <2>1, <2>2, <2>3, SettledOut
  <2>5. WholeOf(client, texts, arrived) = n
    BY <1>1, <1>2, <2>1, <2>3, <2>4, WholeIs
  <2>6. OutAt(First(client), texts, n) = Units(1, Written(client, SubSeq(texts, 1, n)))
    BY <1>1 DEF Numbered
  <2>. QED
    BY <2>4, <2>5, <2>6, WholeHere
<1>3. ASSUME phase = "relay", ~Chunked(client)
      PROVE  decoder.out = Units(1, arrived - HelloLen(client))
  BY <1>1, <1>3 DEF Taken, PlainAt
<1>4. client.protocol \in {"Vless", "Trojan"} <=> ~Chunked(client)
  <2>1. client.protocol \in {"Vless", "Trojan", "Vmess", "Shadowsocks"}
    BY <1>1, ClientType
  <2>. QED
    BY <2>1 DEF Chunked
<1>5. CASE phase = "relay" /\ Chunked(client)
  <2>1. client.protocol \notin {"Vless", "Trojan"}
    BY <1>4, <1>5
  <2>. QED
    BY <1>1, <1>2, <1>5, <2>1, Zenon DEF UplinkIntact
<1>6. CASE phase = "relay" /\ ~Chunked(client)
  <2>1. client.protocol \in {"Vless", "Trojan"}
    BY <1>4, <1>6
  <2>. QED
    BY <1>1, <1>3, <1>6, <2>1, Zenon DEF UplinkIntact
<1>7. CASE phase # "relay"
  BY <1>1, <1>7 DEF UplinkIntact
<1>. QED
  BY <1>5, <1>6, <1>7

-----------------------------------------------------------------------------
(* The pieces of an answer.                                                *)

\* Where the i-th piece ends.
CutAt(len, i) == IF i * MaxPlain <= len THEN i * MaxPlain ELSE len

\* Multiples of the size of a piece.
LEMMA Multiples ==
    ASSUME NEW i \in Nat \ {0}
    PROVE  /\ i * MaxPlain \in Nat /\ (i - 1) * MaxPlain \in Nat
           /\ i * MaxPlain = (i - 1) * MaxPlain + MaxPlain
<1>1. PICK m \in Nat : m = MaxPlain
  BY CodecAssumption
<1>2. PICK j \in Nat : i = j + 1
  <2>1. i - 1 \in Nat /\ i = (i - 1) + 1
    OBVIOUS
  <2>. QED
    BY <2>1
<1>3. j * m \in Nat /\ (j + 1) * m = j * m + m
  OBVIOUS
<1>4. i - 1 = j /\ (j + 1) * m \in Nat
  BY <1>2, <1>3
<1>. QED
  BY <1>1, <1>2, <1>3, <1>4

\* A text is cut into as many pieces as it takes.
LEMMA HowMany ==
    ASSUME NEW len \in Nat \ {0}
    PROVE  LET many == (len + MaxPlain - 1) \div MaxPlain
           IN  many \in Nat \ {0} /\ (many - 1) * MaxPlain < len /\ len <= many * MaxPlain
<1>1. PICK m \in Nat \ {0} : m = MaxPlain
  BY CodecAssumption
<1>2. PICK a \in Nat : a = len + m - 1 /\ m <= a
  <2>1. len + m - 1 \in Nat /\ m <= len + m - 1
    OBVIOUS
  <2>. QED
    BY <2>1
<1>3. PICK q \in Nat : q = a \div m
  OBVIOUS
<1>4. q * m <= a /\ a < q * m + m
  <2>1. a = q * m + (a % m) /\ a % m \in 0..(m - 1)
    BY <1>3
  <2>2. q * m \in Nat
    OBVIOUS
  <2>. QED
    BY <2>1, <2>2
<1>5. q # 0
  BY <1>2, <1>4
<1>6. q \in Nat \ {0}
  BY <1>5
<1>7. q * m = (q - 1) * m + m /\ (q - 1) * m \in Nat /\ q * m \in Nat
  BY <1>1, <1>6, Multiples
<1>8. (q - 1) * m < len /\ len <= q * m
  BY <1>2, <1>4, <1>7
<1>. QED
  BY <1>1, <1>2, <1>3, <1>6, <1>8

\* The pieces before the last are whole ones.
LEMMA CutsBefore ==
    ASSUME NEW many \in Nat \ {0}, NEW i \in 1..many
    PROVE  i * MaxPlain <= many * MaxPlain
<1>1. PICK m \in Nat : m = MaxPlain
  BY CodecAssumption
<1>2. PICK d \in Nat : many = i + d
  <2>1. many - i \in Nat /\ many = i + (many - i)
    OBVIOUS
  <2>. QED
    BY <2>1
<1>3. (i + d) * m = i * m + d * m /\ i * m \in Nat /\ d * m \in Nat
  OBVIOUS
<1>. QED
  BY <1>1, <1>2, <1>3

\* The smaller of two numbers.
LEMMA MinOfTwo ==
    ASSUME NEW a \in Nat, NEW b \in Nat
    PROVE  Min({a, b}) = IF a <= b THEN a ELSE b
<1>1. {a, b} \in SUBSET Nat /\ a \in {a, b} /\ b \in {a, b}
  OBVIOUS
<1>2. Min({a, b}) \in {a, b} /\ Min({a, b}) <= a /\ Min({a, b}) <= b
  BY <1>1, MinIsMember
<1>. QED
  BY <1>2

\* The pieces of an answer are of the size a chunk may have, and make up the answer.
LEMMA PiecesAre ==
    ASSUME NEW text \in Texts, text # <<>>
    PROVE  /\ Len(Pieces(text)) \in Nat \ {0} /\ CutAt(Len(text), 0) = 0
           /\ CutAt(Len(text), Len(Pieces(text))) = Len(text)
           /\ \A i \in 1..Len(Pieces(text)) :
                 /\ Pieces(text)[i] \in Texts /\ Len(Pieces(text)[i]) \in 1..MaxPlain
                 /\ SubSeq(text, 1, CutAt(Len(text), i - 1)) \o Pieces(text)[i]
                      = SubSeq(text, 1, CutAt(Len(text), i))
<1>1. PICK m \in Nat \ {0} : m = MaxPlain
  BY CodecAssumption
<1>2. PICK len \in Nat \ {0} : len = Len(text)
  BY EmptySeq DEF Texts
<1>3. PICK many \in Nat \ {0} :
        many = (len + m - 1) \div m /\ (many - 1) * m < len /\ len <= many * m
  BY <1>1, HowMany
<1>4. /\ Pieces(text) = [i \in 1..many |->
                           SubSeq(text, (i - 1) * m + 1, Min({i * m, len}))]
  BY <1>1, <1>2, <1>3 DEF Pieces
<1>5. Len(Pieces(text)) = many
  BY <1>4
<1>6. CutAt(len, 0) = 0
  <2>1. 0 * m = 0
    OBVIOUS
  <2>. QED
    BY <1>1, <2>1 DEF CutAt
<1>7. CutAt(len, many) = len
  <2>1. many * m \in Nat
    OBVIOUS
  <2>2. many * m <= len => many * m = len
    BY <1>3, <2>1
  <2>. QED
    BY <1>1, <2>2 DEF CutAt
<1>8. ASSUME NEW i \in 1..many
      PROVE  /\ Pieces(text)[i] \in Texts /\ Len(Pieces(text)[i]) \in 1..m
             /\ SubSeq(text, 1, CutAt(len, i - 1)) \o Pieces(text)[i]
                   = SubSeq(text, 1, CutAt(len, i))
  <2>1. i \in Nat \ {0} /\ i - 1 \in Nat
    OBVIOUS
  <2>2. PICK p \in Nat : p = (i - 1) * m /\ i * m = p + m
    BY <1>1, <2>1, Multiples
  <2>3. p < len
    <3>1. CASE i = many
      BY <1>3, <2>2, <3>1
    <3>2. CASE i # many
      <4>1. many - 1 \in Nat \ {0} /\ i \in 1..(many - 1)
        BY <3>2
      <4>2. i * m <= (many - 1) * m
        BY <1>1, <4>1, CutsBefore
      <4>3. PICK last \in Nat : last = (many - 1) * m
        BY <4>1
      <4>. QED
        BY <1>3, <2>2, <4>2, <4>3
    <3>. QED
      BY <3>1, <3>2
  <2>4. PICK q \in Nat : q = (IF p + m <= len THEN p + m ELSE len)
    OBVIOUS
  <2>5. p < q /\ q <= len /\ q - p <= m
    BY <2>3, <2>4
  <2>6. Min({i * m, len}) = q
    <3>1. {i * m, len} = {p + m, len}
      BY <2>2
    <3>2. Min({p + m, len}) = q
      BY <2>4, MinOfTwo
    <3>. QED
      BY <3>1, <3>2
  <2>7. Pieces(text)[i] = SubSeq(text, p + 1, q)
    BY <1>4, <2>2, <2>6
  <2>8. CutAt(len, i - 1) = p /\ CutAt(len, i) = q
    <3>1. p <= len
      BY <2>3
    <3>. QED
      BY <1>1, <2>2, <2>4, <3>1 DEF CutAt
  <2>9. /\ SubSeq(text, p + 1, q) \in Texts /\ Len(SubSeq(text, p + 1, q)) = q - p
        /\ SubSeq(text, 1, p) \o SubSeq(text, p + 1, q) = SubSeq(text, 1, q)
    <3>1. p <= q /\ q <= Len(text) /\ text \in Seq(Nat)
      BY <1>2, <2>5 DEF Texts
    <3>. QED
      BY <3>1, PartsMeet DEF Texts
  <2>10. q - p \in 1..m
    BY <2>5
  <2>. QED
    BY <2>7, <2>8, <2>9, <2>10
<1>. QED
  BY <1>1, <1>2, <1>5, <1>6, <1>7, <1>8

-----------------------------------------------------------------------------
(* What an encoder writes.                                                 *)

\* The fields of an encoder.
EncoderFields == {"protocol", "options", "draws", "counter", "owed", "sent"}

\* An encoder that has written k chunks.
EncoderIs(e, c, k, owed) ==
    /\ DOMAIN e = EncoderFields
    /\ e.protocol = c.protocol /\ e.options = c.options /\ e.owed = owed
    /\ c.protocol = "Vmess" => e.draws = PerChunk(c) * k /\ e.counter = k % CounterWrap
    /\ c.protocol = "Shadowsocks" => e.counter = 2 * k /\ (e.sent <=> k # 0)

\* Associative, for fields.
LEMMA FieldsAssociative ==
    ASSUME NEW s \in Seq(WireFields), NEW t \in Seq(WireFields), NEW u \in Seq(WireFields)
    PROVE  Associates(s, t, u)
  BY Associative

\* Fields after fields.
Behind(fields, chunk, all) == all = fields \o chunk

\* A piece of a VMess answer is the next chunk.
LEMMA VmessPieceIs ==
    ASSUME NEW c, c.protocol = "Vmess", Supported(c), NEW n \in Nat, NEW text \in Texts,
           NEW draft, NEW fields \in Seq(WireFields), draft.fields = fields,
           EncoderIs(draft.encoder, c, n, <<>>)
    PROVE  /\ EncoderIs(VmessPiece(draft, text).encoder, c, n + 1, <<>>)
           /\ Behind(fields, ChunkOf(c, 0, n + 1, text), VmessPiece(draft, text).fields)
<1>1. PICK k \in Nat \ {0} : k = n + 1 /\ n = k - 1
  <2>1. n + 1 \in Nat \ {0} /\ n = (n + 1) - 1
    OBVIOUS
  <2>. QED
    BY <2>1
<1>2. PICK e : e = draft.encoder
  OBVIOUS
<1>3. PerChunk(c) \in Nat
  BY DrawsOf
<1>4. /\ DOMAIN e = EncoderFields /\ e.protocol = c.protocol /\ e.options = c.options
      /\ e.owed = <<>> /\ e.draws = PerChunk(c) * (k - 1) /\ e.counter = (k - 1) % CounterWrap
  BY <1>1, <1>2 DEF EncoderIs
<1>5. NextFraming(e.options, e.draws) = Framing(c, k)
  BY <1>4, FramingDrawn
<1>6. PICK p \in {0, 1} : p = Framing(c, k).padding
  BY FramingType
<1>7. PICK mask \in Nat : mask = Framing(c, k).mask
  BY FramingType
<1>8. PICK nonce \in Nat : nonce = (k - 1) % CounterWrap
  BY <1>1, NonceType
<1>9. PICK size \in Nat : size = Len(text) + Tag + p
  BY TextLen DEF Tag
<1>10. PICK sealed \in WireFields : sealed = Sealed(nonce, text) /\ sealed.width = Len(text) + Tag
  BY FieldsOfWire DEF Sealed
<1>11. PICK length \in WireFields : length = LengthField(size, mask)
  BY FieldsOfWire
<1>12. PICK two \in Seq(WireFields) : two = <<length, sealed>>
  BY TwoFieldsOf
<1>13. PICK padding \in Seq(WireFields) : padding = Padding(p)
  BY PaddingType
<1>14. VmessPiece(draft, text).fields = (fields \o two) \o padding
  <2>1. VmessPiece(draft, text).fields
          = (fields \o <<LengthField(sealed.width + p, mask), sealed>>) \o Padding(p)
    BY <1>2, <1>4, <1>5, <1>6, <1>7, <1>8, <1>10 DEF VmessPiece, Draft
  <2>. QED
    BY <1>9, <1>10, <1>11, <1>12, <1>13, <2>1
<1>15. ChunkOf(c, 0, k, text) = two \o padding
  BY <1>6, <1>7, <1>8, <1>9, <1>10, <1>11, <1>12, <1>13 DEF ChunkOf, VmessChunkOf
<1>16. Behind(fields, ChunkOf(c, 0, k, text), VmessPiece(draft, text).fields)
  <2>1. (fields \o two) \o padding = fields \o (two \o padding)
    <3>1. Associates(fields, two, padding)
      BY FieldsAssociative
    <3>. QED
      BY <3>1 DEF Associates
  <2>. QED
    BY <1>14, <1>15, <2>1, Zenon DEF Behind
<1>17. EncoderIs(VmessPiece(draft, text).encoder, c, k, <<>>)
  <2>1. VmessPiece(draft, text).encoder
          = [e EXCEPT !.draws = @ + DrawsPerChunk(e.options), !.counter = (@ + 1) % CounterWrap]
    BY <1>2 DEF VmessPiece, Draft
  <2>2. e.draws + DrawsPerChunk(e.options) = PerChunk(c) * k
    <3>1. PerChunk(c) * (k - 1) + PerChunk(c) = PerChunk(c) * k
      BY <1>3
    <3>. QED
      BY <1>4, <3>1 DEF PerChunk
  <2>3. (e.counter + 1) % CounterWrap = k % CounterWrap
    BY <1>1, <1>4, NextNonce
  <2>4. VmessPiece(draft, text).encoder
          = [e EXCEPT !.draws = PerChunk(c) * k, !.counter = k % CounterWrap]
    BY <2>1, <2>2, <2>3
  <2>. QED
    BY <1>4, <2>4 DEF EncoderIs, EncoderFields
<1>. QED
  BY <1>1, <1>16, <1>17

\* What stands before the first chunk of a Shadowsocks answer.
SaltAt(n) == IF n = 0 THEN <<Other("salt", 1)>> ELSE <<>>

\* The salt is a field or none.
LEMMA SaltType ==
    ASSUME NEW n
    PROVE  SaltAt(n) \in Seq(WireFields)
<1>1. Other("salt", 1) \in WireFields
  BY FieldsOfWire DEF OtherKinds
<1>. QED
  BY <1>1 DEF SaltAt

\* A piece of a Shadowsocks answer is the next chunk, behind the salt if it is the first.
LEMMA SsPieceIs ==
    ASSUME NEW c, c.protocol = "Shadowsocks", NEW n \in Nat, NEW text \in Texts,
           NEW draft, NEW fields \in Seq(WireFields), draft.fields = fields,
           EncoderIs(draft.encoder, c, n, <<>>)
    PROVE  /\ EncoderIs(SsPiece(draft, text).encoder, c, n + 1, <<>>)
           /\ Behind(fields \o SaltAt(n), ChunkOf(c, 0, n + 1, text), SsPiece(draft, text).fields)
<1>1. PICK e : e = draft.encoder
  OBVIOUS
<1>2. /\ DOMAIN e = EncoderFields /\ e.protocol = c.protocol /\ e.options = c.options
      /\ e.owed = <<>> /\ e.counter = 2 * n
      /\ e.sent <=> n # 0
  BY <1>1 DEF EncoderIs
<1>3. (IF e.sent THEN <<>> ELSE <<Other("salt", 1)>>) = SaltAt(n)
  BY <1>2, Zenon DEF SaltAt
<1>4. SsPiece(draft, text).fields
        = (fields \o (IF e.sent THEN <<>> ELSE <<Other("salt", 1)>>))
            \o <<Sealed(e.counter, <<Len(text)>>), Sealed(e.counter + 1, text)>>
  BY <1>1 DEF SsPiece, Draft
<1>5. ChunkOf(c, 0, n + 1, text) = <<Sealed(e.counter, <<Len(text)>>), Sealed(e.counter + 1, text)>>
  <2>1. 0 + 2 * ((n + 1) - 1) = 2 * n /\ 0 + 2 * (n + 1) - 1 = 2 * n + 1
    OBVIOUS
  <2>2. ChunkOf(c, 0, n + 1, text) = <<Sealed(2 * n, <<Len(text)>>), Sealed(2 * n + 1, text)>>
    BY <2>1 DEF ChunkOf, SsChunkOf
  <2>. QED
    BY <1>2, <2>2
<1>6. Behind(fields \o SaltAt(n), ChunkOf(c, 0, n + 1, text), SsPiece(draft, text).fields)
  BY <1>3, <1>4, <1>5, Zenon DEF Behind
<1>7. EncoderIs(SsPiece(draft, text).encoder, c, n + 1, <<>>)
  <2>1. SsPiece(draft, text).encoder = [e EXCEPT !.counter = @ + 2, !.sent = TRUE]
    BY <1>1 DEF SsPiece, Draft
  <2>2. e.counter + 2 = 2 * (n + 1)
    BY <1>2
  <2>3. SsPiece(draft, text).encoder = [e EXCEPT !.counter = 2 * (n + 1), !.sent = TRUE]
    BY <2>1, <2>2
  <2>4. n + 1 # 0
    OBVIOUS
  <2>. QED
    BY <1>2, <2>3, <2>4 DEF EncoderIs, EncoderFields
<1>. QED
  BY <1>6, <1>7

-----------------------------------------------------------------------------
(* A piece more on the wire.                                               *)

\* What answers a client begin with, once it is due.
ReplyOf(c) ==
    IF c.protocol \in {"Vless", "Vmess"} THEN <<Other("reply", 2)>>
    ELSE IF c.protocol = "Shadowsocks" THEN <<Other("salt", 1)>> ELSE <<>>

\* What precedes the chunks: the reply, once it is no longer owed.
Greeting(c, owed, n) ==
    IF owed # <<>> \/ (c.protocol = "Shadowsocks" /\ n = 0) THEN <<>> ELSE ReplyOf(c)

\* The fields on the wire are these texts.
DownIs(c, owed, writes, fields) == fields = Greeting(c, owed, Len(writes)) \o Wrapped(c, 0, writes)

\* It is fields.
LEMMA GreetingType ==
    ASSUME NEW c, NEW owed, NEW n
    PROVE  ReplyOf(c) \in Seq(WireFields) /\ Greeting(c, owed, n) \in Seq(WireFields)
<1>1. PICK reply \in WireFields : reply = Other("reply", 2)
  BY FieldsOfWire DEF OtherKinds
<1>2. PICK salt \in WireFields : salt = Other("salt", 1)
  BY FieldsOfWire DEF OtherKinds
<1>3. <<reply>> \in Seq(WireFields) /\ <<salt>> \in Seq(WireFields) /\ <<>> \in Seq(WireFields)
  BY EmptySeq
<1>4. ReplyOf(c) \in Seq(WireFields)
  BY <1>1, <1>2, <1>3, Zenon DEF ReplyOf
<1>. QED
  BY <1>3, <1>4, Zenon DEF Greeting

\* Fields behind d that end as the greeting and the chunks do.
Equal(d, fields, greeting, wrapped) == d \o fields = greeting \o wrapped

\* A chunk behind equals is equal.
LEMMA GoesBehind ==
    ASSUME NEW d \in Seq(WireFields), NEW fields \in Seq(WireFields),
           NEW greeting \in Seq(WireFields),
           NEW wrapped \in Seq(WireFields), NEW chunk \in Seq(WireFields),
           Equal(d, fields, greeting, wrapped)
    PROVE  Equal(d, fields \o chunk, greeting, wrapped \o chunk)
<1>1. (d \o fields) \o chunk = d \o (fields \o chunk)
  <2>1. Associates(d, fields, chunk)
    BY FieldsAssociative
  <2>. QED
    BY <2>1 DEF Associates
<1>2. (greeting \o wrapped) \o chunk = greeting \o (wrapped \o chunk)
  <2>1. Associates(greeting, wrapped, chunk)
    BY FieldsAssociative
  <2>. QED
    BY <2>1 DEF Associates
<1>. QED
  BY <1>1, <1>2, Zenon DEF Equal

\* A draft behind what has been sent.
Drafted(c, d, writes, draft) ==
    /\ draft.fields \in Seq(WireFields) /\ EncoderIs(draft.encoder, c, Len(writes), <<>>)
    /\ DownIs(c, <<>>, writes, d \o draft.fields)

\* A turn of the loop of the encoder.
PieceOf(protocol, draft, text) ==
    IF protocol = "Vmess" THEN VmessPiece(draft, text) ELSE SsPiece(draft, text)

\* A turn drafts one text more.
LEMMA PieceSends ==
    ASSUME NEW c, Chunked(c), Supported(c), NEW writes \in Seq(Texts), NEW text \in Texts,
           NEW d \in Seq(WireFields), NEW draft, Drafted(c, d, writes, draft)
    PROVE  Drafted(c, d, Append(writes, text), PieceOf(c.protocol, draft, text))
<1>1. PICK n \in Nat : n = Len(writes)
  OBVIOUS
<1>2. PICK longer \in Seq(Texts) : longer = Append(writes, text) /\ Len(longer) = n + 1
  <2>1. Append(writes, text) \in Seq(Texts) /\ Len(Append(writes, text)) = n + 1
    BY <1>1
  <2>. QED
    BY <2>1, Zenon
<1>3. PICK wrapped \in Seq(WireFields) : wrapped = Wrapped(c, 0, writes)
  BY WrappedType
<1>4. PICK chunk \in Seq(WireFields) : chunk = ChunkOf(c, 0, n + 1, text)
  <2>1. n + 1 \in Nat \ {0}
    OBVIOUS
  <2>. QED
    BY <2>1, ChunkType
<1>5. Wrapped(c, 0, longer) = wrapped \o chunk
  <2>1. Wrapped(c, 0, Append(writes, text))
          = Wrapped(c, 0, writes) \o ChunkOf(c, 0, Len(writes) + 1, text)
    BY WrappedAppend
  <2>. QED
    BY <1>1, <1>2, <1>3, <1>4, <2>1, Zenon
<1>6. PICK fields \in Seq(WireFields) : fields = draft.fields
  BY DEF Drafted
<1>7. EncoderIs(draft.encoder, c, n, <<>>)
  BY <1>1 DEF Drafted
<1>8. PICK greeting \in Seq(WireFields) : greeting = Greeting(c, <<>>, n)
  BY GreetingType
<1>9. d \o fields = greeting \o wrapped
  BY <1>1, <1>3, <1>6, <1>8, Zenon DEF Drafted, DownIs
<1>10. PICK piece : piece = PieceOf(c.protocol, draft, text)
  OBVIOUS
<1>11. SUFFICES /\ piece.fields \in Seq(WireFields) /\ EncoderIs(piece.encoder, c, n + 1, <<>>)
                /\ d \o piece.fields = Greeting(c, <<>>, n + 1) \o (wrapped \o chunk)
  BY <1>2, <1>5, <1>10, Zenon DEF Drafted, DownIs
<1>12. fields \o chunk \in Seq(WireFields)
  BY ConcatProperties
<1>13. d \o (fields \o chunk) = greeting \o (wrapped \o chunk)
  <2>1. Equal(d, fields, greeting, wrapped)
    BY <1>9 DEF Equal
  <2>2. Equal(d, fields \o chunk, greeting, wrapped \o chunk)
    BY <2>1, GoesBehind
  <2>. QED
    BY <2>2 DEF Equal
<1>14. n + 1 # 0
  OBVIOUS
<1>15. CASE c.protocol = "Vmess"
  <2>1. EncoderIs(piece.encoder, c, n + 1, <<>>) /\ Behind(fields, chunk, piece.fields)
    BY <1>4, <1>6, <1>7, <1>10, <1>15, VmessPieceIs DEF PieceOf
  <2>2. piece.fields = fields \o chunk
    BY <2>1, Zenon DEF Behind
  <2>3. Greeting(c, <<>>, n + 1) = greeting
    BY <1>8, <1>15 DEF Greeting
  <2>. QED
    BY <1>12, <1>13, <2>1, <2>2, <2>3, Zenon
<1>16. CASE c.protocol = "Shadowsocks"
  <2>1. EncoderIs(piece.encoder, c, n + 1, <<>>) /\ Behind(fields \o SaltAt(n), chunk, piece.fields)
    BY <1>4, <1>6, <1>7, <1>10, <1>16, SsPieceIs DEF PieceOf
  <2>2. piece.fields = (fields \o SaltAt(n)) \o chunk
    BY <2>1, Zenon DEF Behind
  <2>3. CASE n # 0
    <3>1. fields \o SaltAt(n) = fields
      BY <2>3, ConcatEmptySeq, Zenon DEF SaltAt
    <3>2. Greeting(c, <<>>, n + 1) = greeting
      BY <1>8, <1>14, <2>3 DEF Greeting
    <3>. QED
      BY <1>12, <1>13, <2>1, <2>2, <3>1, <3>2, Zenon
  <2>4. CASE n = 0
    <3>1. greeting = <<>>
      BY <1>8, <1>16, <2>4 DEF Greeting
    <3>2. wrapped = <<>>
      <4>1. writes = <<>>
        BY <1>1, <2>4, EmptySeq
      <4>. QED
        BY <1>3, <4>1, WrappedEmpty, Zenon
    <3>3. d \o fields = <<>>
      BY <1>9, <3>1, <3>2, ConcatEmptySeq
    <3>4. fields = <<>> /\ d = <<>>
      <4>1. Len(d \o fields) = Len(d) + Len(fields) /\ Len(d) \in Nat /\ Len(fields) \in Nat
        BY ConcatProperties
      <4>2. Len(d \o fields) = 0
        BY <3>3
      <4>3. Len(d) = 0 /\ Len(fields) = 0
        BY <4>1, <4>2
      <4>. QED
        BY <4>3, EmptySeq
    <3>5. PICK salt \in Seq(WireFields) : salt = SaltAt(n)
      BY SaltType
    <3>6. Greeting(c, <<>>, n + 1) = salt
      <4>1. ReplyOf(c) = salt
        BY <1>16, <2>4, <3>5 DEF ReplyOf, SaltAt
      <4>. QED
        BY <1>14, <4>1 DEF Greeting
    <3>7. piece.fields = salt \o chunk
      <4>1. <<>> \o salt = salt
        BY ConcatEmptySeq
      <4>. QED
        BY <2>2, <3>4, <3>5, <4>1, Zenon
    <3>8. salt \o chunk \in Seq(WireFields) /\ <<>> \o (salt \o chunk) = salt \o chunk
          /\ <<>> \o chunk = chunk
      <4>1. salt \o chunk \in Seq(WireFields)
        BY ConcatProperties
      <4>. QED
        BY <4>1, ConcatEmptySeq
    <3>. QED
      BY <2>1, <3>2, <3>4, <3>6, <3>7, <3>8, Zenon
  <2>. QED
    BY <2>3, <2>4
<1>. QED
  BY <1>15, <1>16 DEF Chunked

-----------------------------------------------------------------------------
(* A call of the encoder.                                                  *)

\* The loop of a call as a property of a function.
PiecesTo(protocol, e, pieces, m, g) ==
    g = [n \in 0..m |-> IF n = 0 THEN Draft(e, <<>>) ELSE PieceOf(protocol, g[n - 1], pieces[n])]

\* The recursion of the encoder has a solution of every length.
LEMMA PiecesExist ==
    ASSUME NEW protocol, NEW e, NEW pieces, NEW m \in Nat
    PROVE  \E g : PiecesTo(protocol, e, pieces, m, g)
<1>. DEFINE T == {k \in Nat : ~\E g : PiecesTo(protocol, e, pieces, k, g)}
<1>0. SUFFICES ASSUME T # {} PROVE FALSE
  OBVIOUS
<1>1. PICK k \in T : \A j \in T : k <= j
  <2>1. T \in SUBSET Nat
    OBVIOUS
  <2>. HIDE DEF T
  <2>. QED
    BY <1>0, <2>1, MinIsMember
<1>2. k \in Nat /\ ~\E g : PiecesTo(protocol, e, pieces, k, g)
  BY <1>1
<1>3. k # 0
  <2>. DEFINE h == [n \in 0..0 |-> Draft(e, <<>>)]
  <2>1. \A n \in 0..0 :
          h[n] = IF n = 0 THEN Draft(e, <<>>) ELSE PieceOf(protocol, h[n - 1], pieces[n])
    OBVIOUS
  <2>2. h = [n \in 0..0 |-> h[n]]
    OBVIOUS
  <2>3. PiecesTo(protocol, e, pieces, 0, h)
    <3>. HIDE DEF h
    <3>. QED
      BY <2>1, <2>2 DEF PiecesTo
  <2>. QED
    BY <1>2, <2>3
<1>4. PICK g : PiecesTo(protocol, e, pieces, k - 1, g)
  <2>1. k - 1 \in Nat /\ ~(k <= k - 1)
    BY <1>2, <1>3
  <2>. QED
    BY <1>1, <2>1
<1>. DEFINE h == [n \in 0..k |-> IF n = k THEN PieceOf(protocol, g[n - 1], pieces[n]) ELSE g[n]]
<1>5. ASSUME NEW n \in 0..k
      PROVE  h[n] = IF n = 0 THEN Draft(e, <<>>) ELSE PieceOf(protocol, h[n - 1], pieces[n])
  <2>1. n \in Nat /\ n <= k
    BY <1>2
  <2>2. n # 0 => n - 1 \in 0..k /\ n - 1 # k
    BY <1>2, <2>1
  <2>3. n # 0 => h[n - 1] = g[n - 1]
    BY <2>2
  <2>4. CASE n = k
    BY <1>3, <2>3, <2>4
  <2>5. CASE n # k
    <3>1. n \in 0..(k - 1)
      BY <1>2, <2>1, <2>5
    <3>2. g[n] = IF n = 0 THEN Draft(e, <<>>) ELSE PieceOf(protocol, g[n - 1], pieces[n])
      BY <1>4, <3>1 DEF PiecesTo
    <3>3. h[n] = g[n]
      BY <2>5
    <3>. HIDE DEF h
    <3>. QED
      BY <2>3, <3>2, <3>3
  <2>. QED
    BY <2>4, <2>5
<1>6. PiecesTo(protocol, e, pieces, k, h)
  <2>1. h = [n \in 0..k |-> h[n]]
    OBVIOUS
  <2>. HIDE DEF h
  <2>. QED
    BY <1>5, <2>1 DEF PiecesTo
<1>. QED
  BY <1>2, <1>6

\* Encode in terms of such a function.
LEMMA EncodeIs ==
    ASSUME NEW e, e.protocol \notin {"Vless", "Trojan"}, NEW text,
           NEW pieces, pieces = Pieces(text),
           NEW m \in Nat, m = Len(pieces)
    PROVE  \E g : PiecesTo(e.protocol, e, pieces, m, g) /\ Encode(e, text) = g[m]
<1>. DEFINE after == CHOOSE g : PiecesTo(e.protocol, e, pieces, m, g)
<1>1. PiecesTo(e.protocol, e, pieces, m, after)
  BY PiecesExist
<1>2. Encode(e, text) = after[m]
  BY DEF Encode, PiecesTo, PieceOf
<1>. QED
  BY <1>1, <1>2

\* The texts of an answer, and what they carry.
AllFit(writes) == \A i \in 1..Len(writes) : Len(writes[i]) \in 1..MaxPlain

\* More texts carry a part more.
Carries(before, after, part) == FlattenSeq(after) = FlattenSeq(before) \o part

\* A text more that carries a part more.
LEMMA CarriesMore ==
    ASSUME NEW before \in Seq(Texts), NEW after \in Seq(Texts), NEW part \in Texts,
           Carries(before, after, part), AllFit(after),
           NEW text \in Texts, Len(text) \in 1..MaxPlain, NEW more, more = part \o text
    PROVE  /\ Append(after, text) \in Seq(Texts) /\ AllFit(Append(after, text))
           /\ Carries(before, Append(after, text), more)
<1>1. PICK longer \in Seq(Texts) :
        /\ longer = Append(after, text) /\ Len(longer) = Len(after) + 1
        /\ \A i \in 1..Len(after) : longer[i] = after[i]
        /\ longer[Len(after) + 1] = text
  <2>1. /\ Append(after, text) \in Seq(Texts) /\ Len(Append(after, text)) = Len(after) + 1
        /\ \A i \in 1..Len(after) : Append(after, text)[i] = after[i]
        /\ Append(after, text)[Len(after) + 1] = text
    OBVIOUS
  <2>. QED
    BY <2>1, Zenon
<1>2. AllFit(longer)
  <2>1. ASSUME NEW i \in 1..Len(longer) PROVE Len(longer[i]) \in 1..MaxPlain
    <3>1. CASE i = Len(after) + 1
      BY <1>1, <3>1
    <3>2. CASE i # Len(after) + 1
      <4>1. i \in 1..Len(after)
        BY <1>1, <3>2
      <4>. QED
        BY <1>1, <4>1 DEF AllFit
    <3>. QED
      BY <3>1, <3>2
  <2>. QED
    BY <2>1 DEF AllFit
<1>3. /\ before \in Seq(Seq(Nat)) /\ after \in Seq(Seq(Nat)) /\ part \in Seq(Nat)
      /\ text \in Seq(Nat)
  BY DEF Texts
<1>4. PICK flat \in Texts : flat = FlattenSeq(before)
  BY <1>3, FlattenType DEF Texts
<1>5. FlattenSeq(longer) = FlattenSeq(after) \o text
  BY <1>1, <1>3, FlattenAppend
<1>6. (flat \o part) \o text = flat \o (part \o text)
  <2>1. Associates(flat, part, text)
    BY TextsAssociative
  <2>. QED
    BY <2>1 DEF Associates
<1>7. FlattenSeq(longer) = flat \o more
  BY <1>4, <1>5, <1>6, Zenon DEF Carries
<1>8. Carries(before, longer, more)
  BY <1>4, <1>7, Zenon DEF Carries
<1>. QED
  BY <1>1, <1>2, <1>8

\* No text carries nothing.
LEMMA NothingCarried ==
    ASSUME NEW before \in Seq(Texts)
    PROVE  Carries(before, before, <<>>)
<1>1. before \in Seq(Seq(Nat))
  BY DEF Texts
<1>2. PICK flat \in Seq(Nat) : flat = FlattenSeq(before)
  BY <1>1, FlattenType
<1>. QED
  BY <1>2, ConcatEmptySeq DEF Carries

\* Nothing drafted yet.
LEMMA NothingDrafted ==
    ASSUME NEW c, NEW writes \in Seq(Texts), NEW d \in Seq(WireFields), NEW e,
           EncoderIs(e, c, Len(writes), <<>>), DownIs(c, <<>>, writes, d)
    PROVE  Drafted(c, d, writes, Draft(e, <<>>))
<1>0. Draft(e, <<>>).encoder = e /\ Draft(e, <<>>).fields = <<>>
  BY DEF Draft
<1>1. PICK draft : draft = Draft(e, <<>>) /\ draft.encoder = e /\ draft.fields = <<>>
  BY <1>0, Zenon
<1>2. <<>> \in Seq(WireFields) /\ d \o <<>> = d
  BY EmptySeq, ConcatEmptySeq
<1>3. Drafted(c, d, writes, draft)
  BY <1>1, <1>2, Zenon DEF Drafted
<1>. QED
  BY <1>1, <1>3

\* A call of a chunked encoder sends the text whole, in chunks of the size they may have.
LEMMA EncodeSends ==
    ASSUME NEW c, Chunked(c), Supported(c), NEW before \in Seq(Texts), AllFit(before),
           NEW text \in Texts, text # <<>>, NEW d \in Seq(WireFields), NEW e,
           EncoderIs(e, c, Len(before), <<>>), DownIs(c, <<>>, before, d)
    PROVE  \E after \in Seq(Texts) : /\ AllFit(after) /\ Carries(before, after, text)
                                     /\ Drafted(c, d, after, Encode(e, text))
<1>1. PICK pieces : pieces = Pieces(text)
  OBVIOUS
<1>2. PICK len \in Nat : len = Len(text)
  BY TextLen
<1>3. PICK m \in Nat \ {0} : m = Len(pieces)
  BY <1>1, PiecesAre
<1>4. /\ CutAt(len, 0) = 0 /\ CutAt(len, m) = len
      /\ \A i \in 1..m :
           /\ pieces[i] \in Texts /\ Len(pieces[i]) \in 1..MaxPlain
           /\ SubSeq(text, 1, CutAt(len, i - 1)) \o pieces[i] = SubSeq(text, 1, CutAt(len, i))
  BY <1>1, <1>2, <1>3, PiecesAre
<1>5. e.protocol = c.protocol /\ e.protocol \notin {"Vless", "Trojan"}
  <2>1. e.protocol = c.protocol
    BY DEF EncoderIs
  <2>. QED
    BY <2>1 DEF Chunked
<1>6. PICK g : PiecesTo(c.protocol, e, pieces, m, g) /\ Encode(e, text) = g[m]
  <2>1. \E g : PiecesTo(e.protocol, e, pieces, m, g) /\ Encode(e, text) = g[m]
    BY <1>1, <1>3, <1>5, EncodeIs
  <2>. QED
    BY <1>5, <2>1
<1>. DEFINE Cut(k) == SubSeq(text, 1, CutAt(len, k))
            Held(k) == \E after \in Seq(Texts) :
                          /\ AllFit(after) /\ Carries(before, after, Cut(k))
                          /\ Drafted(c, d, after, g[k])
            T == {k \in 0..m : ~Held(k)}
<1>7. \A k \in 0..m : Cut(k) \in Texts
  <2>. TAKE k \in 0..m
  <2>1. CutAt(len, k) <= len /\ CutAt(len, k) \in Nat
    <3>1. PICK w \in Nat : w = MaxPlain
      BY CodecAssumption
    <3>2. k * w \in Nat
      OBVIOUS
    <3>. QED
      BY <3>1, <3>2 DEF CutAt
  <2>2. PICK j \in Nat : j = CutAt(len, k) /\ j <= len
    BY <2>1
  <2>3. SubSeq(text, 1, j) \in Texts
    BY <1>2, <2>2 DEF Texts
  <2>. QED
    BY <2>2, <2>3
<1>8. Held(0)
  <2>1. g[0] = Draft(e, <<>>)
    BY <1>6 DEF PiecesTo
  <2>2. Cut(0) = <<>>
    BY <1>4
  <2>3. Drafted(c, d, before, g[0])
    BY <2>1, NothingDrafted
  <2>. QED
    BY <2>2, <2>3, NothingCarried
<1>9. ASSUME NEW k \in 0..m, k # 0, Held(k - 1) PROVE Held(k)
  <2>1. k \in 1..m /\ k - 1 \in 0..m
    BY <1>9
  <2>2. PICK after \in Seq(Texts) :
          /\ AllFit(after) /\ Carries(before, after, Cut(k - 1)) /\ Drafted(c, d, after, g[k - 1])
    BY <1>9
  <2>3. PICK piece \in Texts : piece = pieces[k] /\ Len(piece) \in 1..MaxPlain
    BY <1>4, <2>1
  <2>4. g[k] = PieceOf(c.protocol, g[k - 1], piece)
    BY <1>6, <1>9, <2>3 DEF PiecesTo
  <2>5. Drafted(c, d, Append(after, piece), g[k])
    BY <2>2, <2>4, PieceSends
  <2>6. PICK part \in Texts : part = Cut(k - 1)
    BY <1>7, <2>1
  <2>7. Cut(k) = part \o piece
    BY <1>4, <2>1, <2>3, <2>6
  <2>. HIDE DEF Cut
  <2>8. Carries(before, after, part)
    BY <2>2, <2>6
  <2>9. /\ Append(after, piece) \in Seq(Texts) /\ AllFit(Append(after, piece))
        /\ Carries(before, Append(after, piece), Cut(k))
    BY <2>2, <2>3, <2>7, <2>8, CarriesMore
  <2>10. PICK longer \in Seq(Texts) : longer = Append(after, piece)
    BY <2>9, Zenon
  <2>. QED
    BY <2>5, <2>9, <2>10, Zenon
<1>. HIDE DEF Held
<1>10. Held(m)
  <2>1. SUFFICES ASSUME T # {} PROVE FALSE
    OBVIOUS
  <2>2. PICK k \in T : \A j \in T : k <= j
    <3>1. T \in SUBSET Nat
      OBVIOUS
    <3>. HIDE DEF T
    <3>. QED
      BY <2>1, <3>1, MinIsMember
  <2>3. k \in 0..m /\ ~Held(k)
    BY <2>2
  <2>4. k # 0
    BY <1>8, <2>3
  <2>5. k - 1 \in 0..m /\ ~(k <= k - 1)
    BY <2>3, <2>4
  <2>6. Held(k - 1)
    BY <2>2, <2>5
  <2>. QED
    BY <1>9, <2>3, <2>4, <2>6
<1>11. Cut(m) = text
  <2>1. SubSeq(text, 1, len) = text
    BY <1>2 DEF Texts
  <2>. QED
    BY <1>4, <2>1
<1>. QED
  BY <1>6, <1>10, <1>11 DEF Held

\* A call of an encoder that wraps nothing sends the text as it is.
LEMMA EncodePlain ==
    ASSUME NEW c \in Clients, ~Chunked(c), NEW before \in Seq(Texts), NEW text \in Texts,
           NEW d \in Seq(WireFields), NEW e,
           EncoderIs(e, c, Len(before), <<>>), DownIs(c, <<>>, before, d)
    PROVE  Drafted(c, d, Append(before, text), Encode(e, text))
<1>1. c.protocol \in {"Vless", "Trojan"} /\ c.protocol \notin {"Vmess", "Shadowsocks"}
  BY ClientType DEF Chunked
<1>2. PICK chunk \in Seq(WireFields) : chunk = <<Plain(text)>>
  <2>1. PICK field \in WireFields : field = Plain(text)
    BY FieldsOfWire
  <2>2. <<field>> \in Seq(WireFields)
    OBVIOUS
  <2>. QED
    BY <2>1, <2>2, Zenon
<1>3. PICK draft : draft = Encode(e, text) /\ draft.encoder = e /\ draft.fields = chunk
  <2>1. e.protocol \in {"Vless", "Trojan"}
    BY <1>1 DEF EncoderIs
  <2>2. Encode(e, text) = Draft(e, chunk)
    BY <1>2, <2>1 DEF Encode
  <2>3. Draft(e, chunk).encoder = e /\ Draft(e, chunk).fields = chunk
    BY DEF Draft
  <2>. QED
    BY <2>2, <2>3, Zenon
<1>4. PICK wrapped \in Seq(WireFields) : wrapped = Wrapped(c, 0, before)
  BY WrappedType
<1>5. Wrapped(c, 0, Append(before, text)) = wrapped \o chunk
  <2>1. Wrapped(c, 0, Append(before, text))
          = Wrapped(c, 0, before) \o ChunkOf(c, 0, Len(before) + 1, text)
    BY WrappedAppend
  <2>2. ChunkOf(c, 0, Len(before) + 1, text) = chunk
    BY <1>1, <1>2 DEF ChunkOf
  <2>. QED
    BY <1>4, <2>1, <2>2, Zenon
<1>6. PICK greeting \in Seq(WireFields) : greeting = Greeting(c, <<>>, Len(before))
  BY GreetingType
<1>7. d = greeting \o wrapped
  BY <1>4, <1>6, Zenon DEF DownIs
<1>8. Greeting(c, <<>>, Len(Append(before, text))) = greeting
  BY <1>1, <1>6 DEF Greeting
<1>9. d \o chunk = greeting \o (wrapped \o chunk)
  <2>1. (greeting \o wrapped) \o chunk = greeting \o (wrapped \o chunk)
    <3>1. Associates(greeting, wrapped, chunk)
      BY FieldsAssociative
    <3>. QED
      BY <3>1 DEF Associates
  <2>. QED
    BY <1>7, <2>1, Zenon
<1>10. DownIs(c, <<>>, Append(before, text), d \o chunk)
  BY <1>5, <1>8, <1>9, Zenon DEF DownIs
<1>11. EncoderIs(e, c, Len(Append(before, text)), <<>>)
  BY <1>1 DEF EncoderIs
<1>12. Drafted(c, d, Append(before, text), draft)
  BY <1>2, <1>3, <1>10, <1>11, Zenon DEF Drafted
<1>. QED
  BY <1>3, <1>12

-----------------------------------------------------------------------------
(* The downlink of a session.                                              *)

\* The fields sent are these texts, which are what the destination sent.
SentAs(writes) ==
    /\ EncoderIs(encoder, client, Len(writes), encoder.owed)
    /\ DownIs(client, encoder.owed, writes, down)
    /\ FlattenSeq(writes) = Units(1, sent)
    /\ Chunked(client) => AllFit(writes)
    /\ encoder.owed # <<>> =>
         /\ writes = <<>> /\ encoder.owed = ReplyOf(client)
         /\ client.protocol # "Shadowsocks"

\* The strengthening, on the way down.
DownInv ==
    /\ sent \in Nat /\ down \in Seq(WireFields)
    /\ \E writes \in Seq(Texts) : SentAs(writes)

\* The draws are counted.
LEMMA DrawsType ==
    ASSUME NEW c
    PROVE  PerChunk(c) \in Nat
<1>. DEFINE drawn == c.options \cap {"masking", "padding"}
<1>1. IsFiniteSet({"masking", "padding"})
  <2>1. IsFiniteSet({"masking"})
    BY FS_Singleton
  <2>2. IsFiniteSet({"masking"} \cup {"padding"})
    BY <2>1, FS_AddElement
  <2>3. {"masking"} \cup {"padding"} = {"masking", "padding"}
    OBVIOUS
  <2>. QED
    BY <2>2, <2>3
<1>2. drawn \subseteq {"masking", "padding"}
  OBVIOUS
<1>. HIDE DEF drawn
<1>3. IsFiniteSet(drawn)
  BY <1>1, <1>2, FS_Subset
<1>4. Cardinality(drawn) \in Nat
  BY <1>3, FS_CardinalityType
<1>. QED
  BY <1>4 DEF drawn, PerChunk, DrawsPerChunk

\* It holds at first.
LEMMA InitDown == Init => DownInv
<1>. SUFFICES ASSUME Init PROVE DownInv
  OBVIOUS
<1>1. client \in Clients /\ down = <<>> /\ sent = 0 /\ encoder = NewEncoder(client)
  BY DEF Init
<1>2. client.protocol \in {"Vless", "Trojan", "Vmess", "Shadowsocks"}
  BY <1>1, ClientType
<1>3. PICK owed : owed = Owed(client.protocol)
  OBVIOUS
<1>4. PICK e : e = encoder /\ e.owed = owed
  <2>1. encoder.owed = owed
    BY <1>1, <1>3 DEF NewEncoder
  <2>. QED
    BY <2>1
<1>5. EncoderIs(e, client, 0, owed)
  <2>1. DOMAIN e = EncoderFields /\ e.protocol = client.protocol /\ e.options = client.options
    BY <1>1, <1>4 DEF NewEncoder, EncoderFields
  <2>2. e.draws = 0 /\ e.counter = 0
    BY <1>1, <1>4 DEF NewEncoder
  <2>3. ~e.sent
    BY <1>1, <1>4, Zenon DEF NewEncoder
  <2>4. client.protocol = "Vmess" => e.draws = PerChunk(client) * 0 /\ e.counter = 0 % CounterWrap
    <3>1. CASE client.protocol = "Vmess"
      <4>1. PICK w \in Nat \ {0} : w = CounterWrap
        BY CodecAssumption
      <4>2. 0 % CounterWrap = 0
        BY <4>1
      <4>3. PICK per \in Nat : per = PerChunk(client)
        BY DrawsType
      <4>4. per * 0 = 0
        OBVIOUS
      <4>. QED
        BY <2>2, <4>2, <4>3, <4>4
    <3>. QED
      BY <3>1
  <2>5. 2 * 0 = 0
    OBVIOUS
  <2>. QED
    BY <1>4, <2>1, <2>2, <2>3, <2>4, <2>5 DEF EncoderIs
<1>6. PICK none \in Seq(Texts) : none = <<>> /\ Len(none) = 0
  BY EmptySeq
<1>7. /\ Greeting(client, owed, 0) = <<>>
      /\ owed # <<>> => owed = ReplyOf(client) /\ client.protocol # "Shadowsocks"
  <2>1. CASE client.protocol \in {"Vless", "Vmess"}
    <3>1. owed = <<Other("reply", 2)>>
      BY <1>3, <2>1 DEF Owed
    <3>2. owed # <<>> /\ owed = ReplyOf(client) /\ client.protocol # "Shadowsocks"
      BY <2>1, <3>1 DEF ReplyOf
    <3>. QED
      BY <3>2, Zenon DEF Greeting
  <2>2. CASE client.protocol = "Shadowsocks"
    <3>1. owed = <<>>
      BY <1>3, <2>2 DEF Owed
    <3>. QED
      BY <2>2, <3>1, Zenon DEF Greeting
  <2>3. CASE client.protocol = "Trojan"
    <3>1. owed = <<>> /\ ReplyOf(client) = <<>>
      BY <1>3, <2>3 DEF Owed, ReplyOf
    <3>. QED
      BY <3>1, Zenon DEF Greeting
  <2>. QED
    BY <1>2, <2>1, <2>2, <2>3
<1>8. Wrapped(client, 0, none) = <<>>
  BY <1>6, WrappedEmpty, Zenon
<1>9. DownIs(client, owed, none, down)
  <2>1. <<>> \o <<>> = <<>>
    OBVIOUS
  <2>. QED
    BY <1>1, <1>6, <1>7, <1>8, <2>1, Zenon DEF DownIs
<1>10. FlattenSeq(none) = Units(1, sent)
  <2>1. Units(1, 0) = <<>>
    <3>1. Units(1, 0) \in Texts /\ Len(Units(1, 0)) = 0
      BY UnitsUpTo
    <3>. QED
      BY <3>1, EmptySeq DEF Texts
  <2>. QED
    BY <1>1, <1>6, <2>1, FlattenEmpty, Zenon
<1>11. AllFit(none)
  BY <1>6 DEF AllFit
<1>12. SentAs(none)
  BY <1>4, <1>5, <1>6, <1>7, <1>9, <1>10, <1>11 DEF SentAs
<1>13. sent \in Nat /\ down \in Seq(WireFields)
  BY <1>1, EmptySeq
<1>. QED
  BY <1>12, <1>13 DEF DownInv

\* It depends on these variables.
LEMMA DownKept ==
    ASSUME DownInv, UNCHANGED <<client, encoder, down, sent>>
    PROVE  DownInv'
<1>1. PICK writes \in Seq(Texts) : SentAs(writes)
  BY DEF DownInv
<1>2. SentAs(writes)'
  BY <1>1 DEF SentAs
<1>. QED
  BY <1>2 DEF DownInv

\* The prologue makes an encoder that owes the reply.
LEMMA DownOwes ==
    ASSUME HeaderInv, DownInv, Prologue
    PROVE  DownInv'
<1>1. /\ client \in Clients /\ encoder.owed # <<>> /\ down' = down \o encoder.owed
      /\ encoder' = AfterPrologue(encoder) /\ UNCHANGED <<client, sent>>
  BY DEF HeaderInv, Prologue
<1>2. PICK writes \in Seq(Texts) : SentAs(writes)
  BY DEF DownInv
<1>3. /\ writes = <<>> /\ Len(writes) = 0 /\ encoder.owed = ReplyOf(client)
      /\ client.protocol # "Shadowsocks"
  BY <1>1, <1>2 DEF SentAs
<1>4. PICK reply \in Seq(WireFields) : reply = ReplyOf(client) /\ reply # <<>>
  BY <1>1, <1>3, GreetingType
<1>5. Wrapped(client, 0, writes) = <<>>
  BY <1>3, WrappedEmpty, Zenon
<1>6. down = <<>>
  <2>1. Greeting(client, encoder.owed, 0) = <<>>
    BY <1>1 DEF Greeting
  <2>2. DownIs(client, encoder.owed, writes, down)
    BY <1>2 DEF SentAs
  <2>3. <<>> \o <<>> = <<>>
    OBVIOUS
  <2>. QED
    BY <1>3, <1>5, <2>1, <2>2, <2>3, Zenon DEF DownIs
<1>7. down' = reply
  <2>1. <<>> \o reply = reply
    BY ConcatEmptySeq
  <2>. QED
    BY <1>1, <1>3, <1>4, <1>6, <2>1, Zenon
<1>8. PICK e : e = encoder'
  OBVIOUS
<1>9. EncoderIs(e, client, 0, <<>>)
  <2>1. EncoderIs(encoder, client, 0, encoder.owed)
    BY <1>2, <1>3 DEF SentAs
  <2>2. e = [encoder EXCEPT !.owed = <<>>]
    BY <1>1, <1>8 DEF AfterPrologue
  <2>. QED
    BY <2>1, <2>2 DEF EncoderIs, EncoderFields
<1>10. Greeting(client, <<>>, 0) = reply
  BY <1>3, <1>4, Zenon DEF Greeting
<1>11. DownIs(client, <<>>, writes, reply)
  <2>1. reply \o <<>> = reply
    BY ConcatEmptySeq
  <2>. QED
    BY <1>3, <1>5, <1>10, <2>1, Zenon DEF DownIs
<1>12. e.owed = <<>>
  BY <1>9 DEF EncoderIs
<1>13. SentAs(writes)'
  BY <1>1, <1>2, <1>3, <1>7, <1>8, <1>9, <1>11, <1>12 DEF SentAs
<1>14. sent' \in Nat /\ down' \in Seq(WireFields)
  BY <1>1, <1>7 DEF DownInv
<1>. QED
  BY <1>13, <1>14 DEF DownInv

\* An answer sends what is owed and the answer.
LEMMA DownAnswers ==
    ASSUME HeaderInv, UpInv, DownInv, NEW n \in 1..MaxSent, Answers(n)
    PROVE  DownInv'
<1>. DEFINE text == Units(sent + 1, sent + n)
            draft == Encode(encoder, text)
<1>1. /\ client \in Clients /\ phase = "relay" /\ encoder.owed = <<>>
      /\ encoder' = draft.encoder /\ down' = down \o draft.fields /\ sent' = sent + n
      /\ client' = client
  BY DEF HeaderInv, Answers
<1>2. Supported(client)
  BY <1>1 DEF UpInv, Taken
<1>3. PICK before \in Seq(Texts) : SentAs(before)
  BY DEF DownInv
<1>4. /\ sent \in Nat /\ down \in Seq(WireFields) /\ n \in Nat /\ n # 0 /\ sent + n \in Nat
  BY InboundAssumption DEF DownInv
<1>5. text \in Texts /\ Len(text) = n
  BY <1>4, UnitsType
<1>6. text # <<>>
  BY <1>4, <1>5
<1>. HIDE DEF text, draft
<1>7. /\ EncoderIs(encoder, client, Len(before), <<>>) /\ DownIs(client, <<>>, before, down)
      /\ FlattenSeq(before) = Units(1, sent)
      /\ Chunked(client) => AllFit(before)
  BY <1>1, <1>3 DEF SentAs
<1>8. PICK after \in Seq(Texts) :
        /\ Chunked(client) => AllFit(after)
        /\ Carries(before, after, text) /\ Drafted(client, down, after, draft)
  <2>1. CASE Chunked(client)
    BY <1>2, <1>4, <1>5, <1>6, <1>7, <2>1, EncodeSends DEF draft
  <2>2. CASE ~Chunked(client)
    <3>1. Drafted(client, down, Append(before, text), draft)
      BY <1>1, <1>4, <1>5, <1>7, <2>2, EncodePlain DEF draft
    <3>2. PICK after \in Seq(Texts) : after = Append(before, text)
      <4>1. Append(before, text) \in Seq(Texts)
        BY <1>5
      <4>. QED
        BY <4>1, Zenon
    <3>3. Carries(before, after, text)
      <4>1. before \in Seq(Seq(Nat)) /\ text \in Seq(Nat)
        BY <1>5 DEF Texts
      <4>2. FlattenSeq(Append(before, text)) = FlattenSeq(before) \o text
        BY <4>1, FlattenAppend
      <4>. QED
        BY <3>2, <4>2, Zenon DEF Carries
    <3>. QED
      BY <2>2, <3>1, <3>2, <3>3
  <2>. QED
    BY <2>1, <2>2
<1>9. FlattenSeq(after) = Units(1, sent + n)
  <2>1. Units(1, sent) \o text = Units(1, sent + n)
    BY <1>4, UnitsConcat DEF text
  <2>. QED
    BY <1>7, <1>8, <2>1, Zenon DEF Carries
<1>10. /\ EncoderIs(encoder', client, Len(after), <<>>) /\ draft.fields \in Seq(WireFields)
       /\ DownIs(client, <<>>, after, down')
  BY <1>1, <1>8, Zenon DEF Drafted
<1>11. encoder'.owed = <<>>
  BY <1>10 DEF EncoderIs
<1>12. SentAs(after)'
  BY <1>1, <1>8, <1>9, <1>10, <1>11, Zenon DEF SentAs
<1>13. sent' \in Nat /\ down' \in Seq(WireFields)
  <2>1. down \o draft.fields \in Seq(WireFields)
    BY <1>4, <1>10, ConcatProperties
  <2>. QED
    BY <1>1, <1>4, <2>1
<1>. QED
  BY <1>12, <1>13 DEF DownInv

\* Every step keeps it.
LEMMA NextDown == HeaderInv /\ UpInv /\ DownInv /\ [Next]_vars => DownInv'
<1>. SUFFICES ASSUME HeaderInv, UpInv, DownInv, [Next]_vars PROVE DownInv'
  OBVIOUS
<1>1. ASSUME NEW n \in 0..MaxText, ClientWrites(n) PROVE DownInv'
  BY <1>1, DownKept DEF ClientWrites
<1>2. CASE Ticks
  BY <1>2, DownKept DEF Ticks
<1>3. ASSUME NEW n \in 1..(Len(Wire) - arrived), HeaderChunk(n) PROVE DownInv'
  BY <1>3, DownKept DEF HeaderChunk
<1>4. CASE Begin
  BY <1>4, DownKept DEF Begin
<1>5. ASSUME NEW n \in 1..(Len(Wire) - arrived), Upstream(n) PROVE DownInv'
  BY <1>5, DownKept DEF Upstream
<1>6. CASE Prologue
  BY <1>6, DownOwes
<1>7. ASSUME NEW n \in 1..MaxSent, Answers(n) PROVE DownInv'
  BY <1>7, DownAnswers
<1>8. CASE UNCHANGED vars
  BY <1>8, DownKept DEF vars
<1>. QED
  BY <1>1, <1>2, <1>3, <1>4, <1>5, <1>6, <1>7, <1>8 DEF Next

-----------------------------------------------------------------------------
(* The texts on a wire.                                                    *)

\* What a field says, and what fields say.
TextsIn(field) == IF field.kind \in {"plain", "sealed"} THEN <<field.text>> ELSE <<>>

\* The texts in fields.
TextsOf(fields) == [i \in DOMAIN fields |-> TextsIn(fields[i])]

\* Sealed and plain fields have a text, the others none.
LEMMA TextsInField ==
    /\ \A size, mask \in Nat : TextsIn(LengthField(size, mask)) = <<>>
    /\ \A nonce \in Nat, text \in Texts : TextsIn(Sealed(nonce, text)) = <<text>>
    /\ \A text \in Texts : TextsIn(Plain(text)) = <<text>>
    /\ \A kind \in OtherKinds, width \in Nat : TextsIn(Other(kind, width)) = <<>>
<1>1. \A size, mask \in Nat : TextsIn(LengthField(size, mask)) = <<>>
  BY DEF TextsIn, LengthField
<1>2. \A nonce \in Nat, text \in Texts : TextsIn(Sealed(nonce, text)) = <<text>>
  BY DEF TextsIn, Sealed
<1>3. \A text \in Texts : TextsIn(Plain(text)) = <<text>>
  BY DEF TextsIn, Plain
<1>4. \A kind \in OtherKinds, width \in Nat : TextsIn(Other(kind, width)) = <<>>
  BY DEF TextsIn, Other, OtherKinds
<1>. QED
  BY <1>1, <1>2, <1>3, <1>4

\* The texts in a field are texts.
LEMMA TextsInType ==
    ASSUME NEW field \in WireFields
    PROVE  TextsIn(field) \in Seq(Texts)
<1>1. \A text \in Texts : <<text>> \in Seq(Texts)
  OBVIOUS
<1>2. <<>> \in Seq(Texts)
  BY EmptySeq
<1>3. CASE \E size, mask \in Nat : field = LengthField(size, mask)
  BY <1>2, <1>3, TextsInField
<1>4. CASE \E nonce \in Nat, text \in Texts : field = Sealed(nonce, text)
  <2>1. PICK nonce \in Nat, text \in Texts : field = Sealed(nonce, text)
    BY <1>4
  <2>. QED
    BY <1>1, <2>1, TextsInField
<1>5. CASE \E text \in Texts : field = Plain(text)
  <2>1. PICK text \in Texts : field = Plain(text)
    BY <1>5
  <2>. QED
    BY <1>1, <2>1, TextsInField
<1>6. CASE \E kind \in OtherKinds, width \in Nat : field = Other(kind, width)
  BY <1>2, <1>6, TextsInField
<1>. QED
  BY <1>3, <1>4, <1>5, <1>6 DEF WireFields

\* Payload, by name.
LEMMA PayloadIs ==
    ASSUME NEW fields
    PROVE  Payload(fields) = FlattenSeq(TextsOf(fields))
  BY DEF Payload, TextsOf, TextsIn

\* Fields give their texts one by one.
LEMMA TextsOfType ==
    ASSUME NEW fields \in Seq(WireFields)
    PROVE  /\ TextsOf(fields) \in Seq(Seq(Texts)) /\ Len(TextsOf(fields)) = Len(fields)
           /\ \A i \in 1..Len(fields) : TextsOf(fields)[i] = TextsIn(fields[i])
<1>. DEFINE Q == Seq(Texts)
            n == Len(fields)
<1>1. DOMAIN fields = 1..n /\ n \in Nat
  OBVIOUS
<1>2. \A i \in 1..n : TextsIn(fields[i]) \in Q
  <2>. TAKE i \in 1..n
  <2>1. PICK field \in WireFields : field = fields[i]
    BY ElementOfSeq
  <2>. QED
    BY <2>1, TextsInType
<1>. HIDE DEF Q, n
<1>3. [i \in 1..n |-> TextsIn(fields[i])] \in [1..n -> Q]
  BY <1>2
<1>4. /\ [i \in 1..n |-> TextsIn(fields[i])] \in Seq(Q)
      /\ Len([i \in 1..n |-> TextsIn(fields[i])]) = n
  BY <1>1, <1>3
<1>. QED
  BY <1>1, <1>4 DEF TextsOf, Q, n

\* The payload of fields is texts.
LEMMA PayloadType ==
    ASSUME NEW fields \in Seq(WireFields)
    PROVE  Payload(fields) \in Seq(Texts)
  BY TextsOfType, FlattenType, PayloadIs

\* No fields, no payload.
LEMMA PayloadEmpty == Payload(<<>>) = <<>>
<1>1. TextsOf(<<>>) = <<>>
  BY DEF TextsOf
<1>. QED
  BY <1>1, FlattenEmpty, PayloadIs

\* The payload of a field.
LEMMA PayloadOne ==
    ASSUME NEW field \in WireFields
    PROVE  Payload(<<field>>) = TextsIn(field)
<1>1. TextsOf(<<field>>) = <<TextsIn(field)>>
  <2>1. TextsOf(<<field>>) = [i \in 1..1 |-> TextsIn(<<field>>[i])]
    BY DEF TextsOf
  <2>2. [i \in 1..1 |-> TextsIn(<<field>>[i])] = [i \in 1..1 |-> TextsIn(field)]
    OBVIOUS
  <2>3. [i \in 1..1 |-> TextsIn(field)] = <<TextsIn(field)>>
    OBVIOUS
  <2>. QED
    BY <2>1, <2>2, <2>3
<1>2. FlattenSeq(<<TextsIn(field)>>) = TextsIn(field)
  BY TextsInType, FlattenOne
<1>. QED
  BY <1>1, <1>2, PayloadIs

\* Fields side by side say what each of them says.
LEMMA PayloadConcat ==
    ASSUME NEW fields \in Seq(WireFields), NEW more \in Seq(WireFields)
    PROVE  Payload(fields \o more) = Payload(fields) \o Payload(more)
<1>. DEFINE n == Len(fields)
            m == Len(more)
            both == fields \o more
            Q == Seq(Texts)
            a == TextsOf(both)
            b == TextsOf(fields) \o TextsOf(more)
<1>1. /\ both \in Seq(WireFields) /\ Len(both) = n + m /\ n \in Nat /\ m \in Nat
      /\ \A i \in 1..(n + m) : both[i] = IF i <= n THEN fields[i] ELSE more[i - n]
  BY ConcatProperties
<1>2. /\ a \in Seq(Q) /\ Len(a) = n + m
      /\ \A i \in 1..(n + m) : a[i] = TextsIn(both[i])
  <2>. HIDE DEF both
  <2>. QED
    BY <1>1, TextsOfType
<1>3. /\ TextsOf(fields) \in Seq(Q) /\ Len(TextsOf(fields)) = n
      /\ \A i \in 1..n : TextsOf(fields)[i] = TextsIn(fields[i])
      /\ TextsOf(more) \in Seq(Q) /\ Len(TextsOf(more)) = m
      /\ \A i \in 1..m : TextsOf(more)[i] = TextsIn(more[i])
  BY TextsOfType
<1>4. /\ b \in Seq(Q) /\ Len(b) = n + m
      /\ \A i \in 1..(n + m) :
            b[i] = IF i <= n THEN TextsOf(fields)[i] ELSE TextsOf(more)[i - n]
  <2>. DEFINE u == TextsOf(fields)
              v == TextsOf(more)
  <2>1. u \in Seq(Q) /\ Len(u) = n /\ v \in Seq(Q) /\ Len(v) = m
    BY <1>3
  <2>. HIDE DEF Q, u, v, n, m
  <2>2. /\ u \o v \in Seq(Q) /\ Len(u \o v) = n + m
        /\ \A i \in 1..(n + m) : (u \o v)[i] = IF i <= n THEN u[i] ELSE v[i - n]
    BY <2>1, ConcatProperties
  <2>. QED
    BY <2>2 DEF u, v
<1>5. a = b
  <2>. HIDE DEF a, b, Q, n, m, both
  <2>1. ASSUME NEW i \in 1..(n + m) PROVE a[i] = b[i]
    <3>1. CASE i <= n
      <4>1. i \in 1..n
        BY <1>1, <3>1
      <4>2. both[i] = fields[i]
        BY <1>1, <3>1
      <4>3. a[i] = TextsIn(both[i])
        BY <1>2
      <4>4. b[i] = TextsOf(fields)[i]
        BY <1>4, <3>1
      <4>5. TextsOf(fields)[i] = TextsIn(fields[i])
        BY <1>3, <4>1
      <4>. QED
        BY <4>2, <4>3, <4>4, <4>5
    <3>2. CASE ~(i <= n)
      <4>1. i - n \in 1..m
        BY <1>1, <3>2
      <4>2. both[i] = more[i - n]
        BY <1>1, <3>2
      <4>3. a[i] = TextsIn(both[i])
        BY <1>2
      <4>4. b[i] = TextsOf(more)[i - n]
        BY <1>4, <3>2
      <4>5. TextsOf(more)[i - n] = TextsIn(more[i - n])
        BY <1>3, <4>1
      <4>. QED
        BY <4>2, <4>3, <4>4, <4>5
    <3>. QED
      BY <3>1, <3>2
  <2>. QED
    BY <1>2, <1>4, <2>1, SeqEqual
<1>6. FlattenSeq(b) = FlattenSeq(TextsOf(fields)) \o FlattenSeq(TextsOf(more))
  BY <1>3, FlattenConcat
<1>. QED
  BY <1>5, <1>6, PayloadIs

\* What a chunk says: its text, in Shadowsocks behind its length.
SaidBy(c, text) == IF c.protocol = "Shadowsocks" THEN <<<<Len(text)>>, text>> ELSE <<text>>

\* Two elements.
LEMMA TwoOnes ==
    ASSUME NEW S, NEW a \in S, NEW b \in S
    PROVE  <<a>> \o <<b>> = <<a, b>>
<1>1. PICK s \in Seq(S) : s = <<a>> /\ Len(s) = 1 /\ s[1] = a
  <2>1. <<a>> \in Seq(S) /\ Len(<<a>>) = 1 /\ <<a>>[1] = a
    OBVIOUS
  <2>. QED
    BY <2>1, Zenon
<1>2. PICK t \in Seq(S) : t = <<b>> /\ Len(t) = 1 /\ t[1] = b
  <2>1. <<b>> \in Seq(S) /\ Len(<<b>>) = 1 /\ <<b>>[1] = b
    OBVIOUS
  <2>. QED
    BY <2>1, Zenon
<1>3. PICK u \in Seq(S) : u = <<a, b>> /\ Len(u) = 2 /\ u[1] = a /\ u[2] = b
  <2>1. <<a, b>> \in Seq(S) /\ Len(<<a, b>>) = 2 /\ <<a, b>>[1] = a /\ <<a, b>>[2] = b
    OBVIOUS
  <2>. QED
    BY <2>1, Zenon
<1>4. /\ s \o t \in Seq(S) /\ Len(s \o t) = Len(s) + Len(t)
      /\ \A i \in 1..(Len(s) + Len(t)) : (s \o t)[i] = IF i <= Len(s) THEN s[i] ELSE t[i - Len(s)]
  BY ConcatProperties
<1>5. PICK st \in Seq(S) : st = s \o t /\ Len(st) = 2 /\ st[1] = a /\ st[2] = b
  <2>1. Len(s \o t) = 2 /\ (s \o t)[1] = a /\ (s \o t)[2] = b
    BY <1>1, <1>2, <1>4
  <2>. QED
    BY <1>4, <2>1, Zenon
<1>6. \A i \in 1..2 : st[i] = u[i]
  BY <1>3, <1>5
<1>7. st = u
  BY <1>3, <1>5, <1>6, SeqEqual
<1>. QED
  BY <1>1, <1>2, <1>3, <1>5, <1>7, Zenon

\* The payload of two fields.
LEMMA PayloadTwo ==
    ASSUME NEW a \in WireFields, NEW b \in WireFields
    PROVE  Payload(<<a, b>>) = TextsIn(a) \o TextsIn(b)
<1>1. PICK one \in Seq(WireFields) : one = <<a>>
  <2>1. <<a>> \in Seq(WireFields)
    OBVIOUS
  <2>. QED
    BY <2>1, Zenon
<1>2. PICK other \in Seq(WireFields) : other = <<b>>
  <2>1. <<b>> \in Seq(WireFields)
    OBVIOUS
  <2>. QED
    BY <2>1, Zenon
<1>3. <<a>> \o <<b>> = <<a, b>>
  BY TwoOnes
<1>4. Payload(one \o other) = Payload(one) \o Payload(other)
  BY PayloadConcat
<1>5. Payload(<<a>>) = TextsIn(a) /\ Payload(<<b>>) = TextsIn(b)
  BY PayloadOne
<1>. QED
  BY <1>1, <1>2, <1>3, <1>4, <1>5, Zenon

\* Padding has no payload.
LEMMA PayloadPadding ==
    ASSUME NEW p \in {0, 1}
    PROVE  Payload(Padding(p)) = <<>>
<1>1. CASE p = 0
  BY <1>1, PayloadEmpty DEF Padding
<1>2. CASE p = 1
  <2>1. PICK field \in WireFields : field = Other("padding", 1)
    BY FieldsOfWire DEF OtherKinds
  <2>2. TextsIn(field) = <<>>
    BY <2>1, TextsInField DEF OtherKinds
  <2>3. Payload(<<field>>) = <<>>
    BY <2>2, PayloadOne
  <2>4. Padding(p) = <<field>>
    BY <1>2, <2>1 DEF Padding
  <2>. QED
    BY <2>3, <2>4
<1>. QED
  BY <1>1, <1>2

\* A chunk says its text, in Shadowsocks behind the length.
LEMMA PayloadChunk ==
    ASSUME NEW c, NEW i \in Nat \ {0}, NEW text \in Texts
    PROVE  Payload(ChunkOf(c, 0, i, text)) = SaidBy(c, text)
<1>1. CASE c.protocol = "Vmess"
  <2>1. PICK p \in {0, 1} : p = Framing(c, i).padding
    BY FramingType
  <2>2. PICK mask \in Nat : mask = Framing(c, i).mask
    BY FramingType
  <2>3. PICK size \in Nat : size = Len(text) + Tag + p
    BY TextLen DEF Tag
  <2>4. PICK nonce \in Nat : nonce = (i - 1) % CounterWrap
    <3>1. i - 1 \in Nat
      OBVIOUS
    <3>. QED
      BY <3>1, NonceType
  <2>5. PICK a \in WireFields : a = LengthField(size, mask) /\ TextsIn(a) = <<>>
    BY FieldsOfWire, TextsInField
  <2>6. PICK b \in WireFields : b = Sealed(nonce, text) /\ TextsIn(b) = <<text>>
    BY FieldsOfWire, TextsInField
  <2>7. PICK two \in Seq(WireFields) : two = <<a, b>>
    BY TwoFieldsOf
  <2>8. PICK padding \in Seq(WireFields) : padding = Padding(p)
    BY PaddingType
  <2>9. ChunkOf(c, 0, i, text) = two \o padding
    BY <1>1, <2>1, <2>2, <2>3, <2>4, <2>5, <2>6, <2>7, <2>8 DEF ChunkOf, VmessChunkOf
  <2>10. Payload(two) = <<text>>
    <3>1. Payload(<<a, b>>) = TextsIn(a) \o TextsIn(b)
      BY PayloadTwo
    <3>2. <<>> \o <<text>> = <<text>>
      OBVIOUS
    <3>. QED
      BY <2>5, <2>6, <2>7, <3>1, <3>2, Zenon
  <2>11. Payload(padding) = <<>>
    BY <2>8, PayloadPadding
  <2>12. Payload(two \o padding) = Payload(two) \o Payload(padding)
    BY PayloadConcat
  <2>13. <<text>> \o <<>> = <<text>>
    OBVIOUS
  <2>14. SaidBy(c, text) = <<text>>
    BY <1>1 DEF SaidBy
  <2>. QED
    BY <2>9, <2>10, <2>11, <2>12, <2>13, <2>14, Zenon
<1>2. CASE c.protocol = "Shadowsocks"
  <2>1. 0 + 2 * (i - 1) \in Nat /\ 0 + 2 * i - 1 \in Nat /\ <<Len(text)>> \in Texts
    BY TextLen
  <2>2. PICK a \in WireFields :
          a = Sealed(0 + 2 * (i - 1), <<Len(text)>>) /\ TextsIn(a) = <<<<Len(text)>>>>
    BY <2>1, FieldsOfWire, TextsInField
  <2>3. PICK b \in WireFields : b = Sealed(0 + 2 * i - 1, text) /\ TextsIn(b) = <<text>>
    BY <2>1, FieldsOfWire, TextsInField
  <2>4. ChunkOf(c, 0, i, text) = <<a, b>>
    BY <1>2, <2>2, <2>3 DEF ChunkOf, SsChunkOf
  <2>5. Payload(<<a, b>>) = TextsIn(a) \o TextsIn(b)
    BY PayloadTwo
  <2>6. <<<<Len(text)>>>> \o <<text>> = <<<<Len(text)>>, text>>
    BY <2>1, TwoOnes
  <2>7. SaidBy(c, text) = <<<<Len(text)>>, text>>
    BY <1>2 DEF SaidBy
  <2>. QED
    BY <2>2, <2>3, <2>4, <2>5, <2>6, <2>7, Zenon
<1>3. CASE c.protocol \notin {"Vmess", "Shadowsocks"}
  <2>1. PICK a \in WireFields : a = Plain(text) /\ TextsIn(a) = <<text>>
    BY FieldsOfWire, TextsInField
  <2>2. ChunkOf(c, 0, i, text) = <<a>> /\ SaidBy(c, text) = <<text>>
    BY <1>3, <2>1 DEF ChunkOf, SaidBy
  <2>3. Payload(<<a>>) = TextsIn(a)
    BY PayloadOne
  <2>. QED
    BY <2>1, <2>2, <2>3
<1>. QED
  BY <1>1, <1>2, <1>3

\* These texts are said, in Shadowsocks every second one.
Told(c, writes, found) ==
    /\ found \in Seq(Texts)
    /\ c.protocol # "Shadowsocks" => found = writes
    /\ c.protocol = "Shadowsocks" =>
         /\ Len(found) = 2 * Len(writes)
         /\ \A i \in 1..Len(writes) : found[2 * i] = writes[i]

\* A chunk more says a text more.
LEMMA SaysMore ==
    ASSUME NEW c, NEW writes \in Seq(Texts), NEW text \in Texts, NEW found,
           Told(c, writes, found)
    PROVE  Told(c, Append(writes, text), found \o SaidBy(c, text))
<1>1. PICK n \in Nat : n = Len(writes)
  OBVIOUS
<1>2. PICK longer \in Seq(Texts) :
        /\ longer = Append(writes, text) /\ Len(longer) = n + 1
        /\ \A i \in 1..n : longer[i] = writes[i]
        /\ longer[n + 1] = text
  <2>1. /\ Append(writes, text) \in Seq(Texts) /\ Len(Append(writes, text)) = n + 1
        /\ \A i \in 1..n : Append(writes, text)[i] = writes[i]
        /\ Append(writes, text)[n + 1] = text
    BY <1>1
  <2>. QED
    BY <2>1, Zenon
<1>3. found \in Seq(Texts)
  BY DEF Told
<1>4. CASE c.protocol # "Shadowsocks"
  <2>1. found = writes /\ SaidBy(c, text) = <<text>>
    BY <1>4 DEF Told, SaidBy
  <2>2. writes \o <<text>> = Append(writes, text)
    OBVIOUS
  <2>. QED
    BY <1>2, <1>4, <2>1, <2>2 DEF Told
<1>5. CASE c.protocol = "Shadowsocks"
  <2>1. PICK both \in Seq(Texts) : both = SaidBy(c, text) /\ Len(both) = 2 /\ both[2] = text
    <3>1. PICK size \in Texts : size = <<Len(text)>>
      BY TextLen
    <3>2. <<size, text>> \in Seq(Texts) /\ Len(<<size, text>>) = 2 /\ <<size, text>>[2] = text
      OBVIOUS
    <3>3. SaidBy(c, text) = <<size, text>>
      BY <1>5, <3>1 DEF SaidBy
    <3>. QED
      BY <3>2, <3>3, Zenon
  <2>2. PICK all \in Seq(Texts) :
          /\ all = found \o both /\ Len(all) = Len(found) + 2
          /\ \A i \in 1..(Len(found) + 2) :
                all[i] = IF i <= Len(found) THEN found[i] ELSE both[i - Len(found)]
    <3>1. /\ found \o both \in Seq(Texts) /\ Len(found \o both) = Len(found) + 2
          /\ \A i \in 1..(Len(found) + 2) :
                (found \o both)[i] = IF i <= Len(found) THEN found[i] ELSE both[i - Len(found)]
      <4>1. /\ found \o both \in Seq(Texts) /\ Len(found \o both) = Len(found) + Len(both)
            /\ \A i \in 1..(Len(found) + Len(both)) :
                  (found \o both)[i] = IF i <= Len(found) THEN found[i] ELSE both[i - Len(found)]
        BY <1>3, ConcatProperties
      <4>2. Len(both) = 2
        BY <2>1
      <4>. QED
        BY <4>1, <4>2
    <3>. QED
      BY <3>1, Zenon
  <2>3. Len(found) = 2 * n /\ \A i \in 1..n : found[2 * i] = writes[i]
    BY <1>1, <1>5 DEF Told
  <2>4. ASSUME NEW i \in 1..(n + 1) PROVE all[2 * i] = longer[i]
    <3>1. CASE i <= n
      <4>1. i \in 1..n /\ 2 * i \in 1..(2 * n + 2) /\ 2 * i <= 2 * n
        BY <3>1
      <4>. QED
        BY <1>2, <2>2, <2>3, <4>1
    <3>2. CASE i = n + 1
      <4>1. 2 * i \in 1..(2 * n + 2) /\ ~(2 * i <= 2 * n) /\ 2 * i - 2 * n = 2
        BY <3>2
      <4>. QED
        BY <1>2, <2>1, <2>2, <2>3, <3>2, <4>1
    <3>. QED
      BY <3>1, <3>2
  <2>5. Len(all) = 2 * (n + 1)
    BY <2>2, <2>3
  <2>6. Told(c, longer, all)
    BY <1>2, <1>5, <2>4, <2>5 DEF Told
  <2>. QED
    BY <1>2, <2>1, <2>2, <2>6
<1>. QED
  BY <1>4, <1>5

\* A wrapped stream says its texts.
LEMMA PayloadWrapped ==
    ASSUME NEW c, NEW writes \in Seq(Texts)
    PROVE  Told(c, writes, Payload(Wrapped(c, 0, writes)))
<1>. DEFINE Part(k) == SubSeq(writes, 1, k)
            Held(k) == Told(c, Part(k), Payload(Wrapped(c, 0, Part(k))))
            T == {k \in 0..Len(writes) : ~Held(k)}
<1>1. Held(0)
  <2>1. Part(0) = <<>>
    OBVIOUS
  <2>2. PICK none : none = <<>> /\ none \in Seq(Texts) /\ Len(none) = 0
    BY EmptySeq
  <2>3. Payload(Wrapped(c, 0, none)) = none
    BY <2>2, WrappedEmpty, PayloadEmpty, Zenon
  <2>4. Told(c, none, none)
    BY <2>2 DEF Told
  <2>. QED
    BY <2>1, <2>2, <2>3, <2>4, Zenon
<1>2. ASSUME NEW k \in 0..Len(writes), k # 0, Held(k - 1) PROVE Held(k)
  <2>1. PICK part \in Seq(Texts) : part = Part(k - 1) /\ Len(part) = k - 1
    <3>1. k - 1 \in 0..Len(writes)
      BY <1>2
    <3>2. PICK j \in Nat : j = k - 1 /\ j \in 0..Len(writes)
      BY <3>1
    <3>3. SubSeq(writes, 1, j) \in Seq(Texts) /\ Len(SubSeq(writes, 1, j)) = j
      BY <3>2
    <3>. QED
      BY <3>2, <3>3
  <2>2. PICK text \in Texts : text = writes[k]
    <3>1. k \in 1..Len(writes)
      BY <1>2
    <3>. QED
      BY <3>1, ElementOfSeq
  <2>3. Part(k) = Append(part, text)
    <3>1. k \in 1..Len(writes) /\ k - 1 \in 0..Len(writes)
      BY <1>2
    <3>. QED
      BY <2>1, <2>2, <3>1, SubSeqRecursiveSecond
  <2>4. Told(c, part, Payload(Wrapped(c, 0, part)))
    BY <1>2, <2>1
  <2>. HIDE DEF Part
  <2>5. PICK wrapped \in Seq(WireFields) : wrapped = Wrapped(c, 0, part)
    BY WrappedType
  <2>6. PICK chunk \in Seq(WireFields) :
          chunk = ChunkOf(c, 0, Len(part) + 1, text) /\ Payload(chunk) = SaidBy(c, text)
    <3>1. Len(part) + 1 \in Nat \ {0}
      OBVIOUS
    <3>2. /\ ChunkOf(c, 0, Len(part) + 1, text) \in Seq(WireFields)
          /\ Payload(ChunkOf(c, 0, Len(part) + 1, text)) = SaidBy(c, text)
      BY <3>1, ChunkType, PayloadChunk
    <3>. QED
      BY <3>2, Zenon
  <2>7. Wrapped(c, 0, Append(part, text)) = wrapped \o chunk
    <3>1. Wrapped(c, 0, Append(part, text))
            = Wrapped(c, 0, part) \o ChunkOf(c, 0, Len(part) + 1, text)
      BY WrappedAppend
    <3>. QED
      BY <2>5, <2>6, <3>1, Zenon
  <2>8. Payload(wrapped \o chunk) = Payload(wrapped) \o Payload(chunk)
    BY PayloadConcat
  <2>9. Told(c, Append(part, text), Payload(wrapped) \o SaidBy(c, text))
    BY <2>4, <2>5, SaysMore
  <2>. QED
    BY <2>3, <2>6, <2>7, <2>8, <2>9, Zenon
<1>3. T = {}
  <2>1. SUFFICES ASSUME T # {} PROVE FALSE
    OBVIOUS
  <2>2. PICK k \in T : \A j \in T : k <= j
    <3>1. T \in SUBSET Nat
      OBVIOUS
    <3>. HIDE DEF T
    <3>. QED
      BY <2>1, <3>1, MinIsMember
  <2>. HIDE DEF Held
  <2>3. k \in 0..Len(writes) /\ ~Held(k)
    BY <2>2
  <2>4. k # 0
    BY <1>1, <2>3
  <2>5. k - 1 \in 0..Len(writes) /\ ~(k <= k - 1)
    BY <2>3, <2>4
  <2>6. Held(k - 1)
    BY <2>2, <2>5
  <2>. QED
    BY <1>2, <2>3, <2>4, <2>6
<1>4. Held(Len(writes))
  <2>1. Len(writes) \in 0..Len(writes)
    OBVIOUS
  <2>. HIDE DEF Held
  <2>. QED
    BY <1>3, <2>1
<1>5. Part(Len(writes)) = writes
  OBVIOUS
<1>. QED
  BY <1>4, <1>5, Zenon

\* The reply has no payload.
LEMMA PayloadGreeting ==
    ASSUME NEW c, NEW owed, NEW n
    PROVE  Payload(Greeting(c, owed, n)) = <<>>
<1>1. PICK reply \in WireFields : reply = Other("reply", 2) /\ TextsIn(reply) = <<>>
  BY FieldsOfWire, TextsInField DEF OtherKinds
<1>2. PICK salt \in WireFields : salt = Other("salt", 1) /\ TextsIn(salt) = <<>>
  BY FieldsOfWire, TextsInField DEF OtherKinds
<1>3. Payload(<<reply>>) = <<>> /\ Payload(<<salt>>) = <<>> /\ Payload(<<>>) = <<>>
  BY <1>1, <1>2, PayloadOne, PayloadEmpty
<1>4. Payload(ReplyOf(c)) = <<>>
  BY <1>1, <1>2, <1>3, Zenon DEF ReplyOf
<1>. QED
  BY <1>3, <1>4, Zenon DEF Greeting

\* What is read of an answer is what was written.
LEMMA AnswersAre ==
    ASSUME NEW writes \in Seq(Texts), NEW owed, DownIs(client, owed, writes, down)
    PROVE  AnswerTexts = writes
<1>1. PICK wrapped \in Seq(WireFields) : wrapped = Wrapped(client, 0, writes)
  BY WrappedType
<1>2. PICK greeting \in Seq(WireFields) :
        greeting = Greeting(client, owed, Len(writes)) /\ Payload(greeting) = <<>>
  BY GreetingType, PayloadGreeting
<1>3. PICK found \in Seq(Texts) : found = Payload(wrapped) /\ Told(client, writes, found)
  BY <1>1, PayloadType, PayloadWrapped
<1>4. Payload(greeting \o wrapped) = Payload(greeting) \o Payload(wrapped)
  BY PayloadConcat
<1>5. <<>> \o found = found
  BY ConcatEmptySeq
<1>6. Payload(down) = found
  BY <1>1, <1>2, <1>3, <1>4, <1>5, Zenon DEF DownIs
<1>7. CASE client.protocol # "Shadowsocks"
  <2>1. found = writes
    BY <1>3, <1>7 DEF Told
  <2>. QED
    BY <1>6, <1>7, <2>1 DEF AnswerTexts
<1>8. CASE client.protocol = "Shadowsocks"
  <2>1. PICK n \in Nat : n = Len(writes)
    OBVIOUS
  <2>2. Len(found) = 2 * n /\ \A i \in 1..n : found[2 * i] = writes[i]
    BY <1>3, <1>8, <2>1 DEF Told
  <2>3. (2 * n) \div 2 = n
    OBVIOUS
  <2>4. AnswerTexts = [i \in 1..n |-> found[2 * i]]
    BY <1>6, <1>8, <2>2, <2>3 DEF AnswerTexts
  <2>5. writes = [i \in 1..n |-> writes[i]]
    BY <2>1
  <2>6. [i \in 1..n |-> found[2 * i]] = [i \in 1..n |-> writes[i]]
    BY <2>2
  <2>. QED
    BY <2>4, <2>5, <2>6, Zenon
<1>. QED
  BY <1>7, <1>8

\* The downlink is intact wherever the session stands.
LEMMA DownIntact == HeaderInv /\ DownInv => DownlinkIntact
<1>. SUFFICES ASSUME HeaderInv, DownInv, down # <<>> PROVE DownlinkIntact
  BY DEF DownlinkIntact
<1>1. client \in Clients /\ client.protocol \in {"Vless", "Trojan", "Vmess", "Shadowsocks"}
  BY ClientType DEF HeaderInv
<1>2. PICK writes \in Seq(Texts) : SentAs(writes)
  BY DEF DownInv
<1>3. PICK owed : owed = encoder.owed
  OBVIOUS
<1>4. /\ DownIs(client, owed, writes, down) /\ FlattenSeq(writes) = Units(1, sent)
      /\ Chunked(client) => AllFit(writes)
      /\ owed # <<>> => writes = <<>>
  BY <1>2, <1>3 DEF SentAs
<1>5. AnswerTexts = writes
  BY <1>4, AnswersAre
<1>6. Greeting(client, owed, Len(writes)) = ReplyOf(client)
  <2>1. SUFFICES ASSUME Greeting(client, owed, Len(writes)) # ReplyOf(client) PROVE FALSE
    OBVIOUS
  <2>2. owed # <<>> \/ Len(writes) = 0
    BY <2>1, Zenon DEF Greeting
  <2>3. writes = <<>>
    <3>1. Len(writes) = 0 => writes = <<>>
      BY EmptySeq
    <3>. QED
      BY <1>4, <2>2, <3>1
  <2>4. Greeting(client, owed, Len(writes)) = <<>>
    BY <2>1, Zenon DEF Greeting
  <2>5. Wrapped(client, 0, writes) = <<>>
    BY <2>3, WrappedEmpty, Zenon
  <2>6. <<>> \o <<>> = <<>>
    OBVIOUS
  <2>7. down = <<>>
    BY <1>4, <2>4, <2>5, <2>6, Zenon DEF DownIs
  <2>. QED
    BY <2>7
<1>7. Reply = ReplyOf(client)
  BY <1>1 DEF Reply, ReplyOf
<1>8. (IF client.protocol = "Shadowsocks" THEN SsWire(0, writes) ELSE ClientWire(client, writes))
        = Wrapped(client, 0, writes)
  BY <1>1 DEF ClientWire, Wrapped
<1>9. down = Reply \o Wrapped(client, 0, writes)
  BY <1>4, <1>6, <1>7, Zenon DEF DownIs
<1>10. client.protocol \in {"Vmess", "Shadowsocks"} =>
          \A i \in DOMAIN writes : Len(writes[i]) \in 1..MaxPlain
  <2>1. DOMAIN writes = 1..Len(writes)
    OBVIOUS
  <2>. QED
    BY <1>4, <2>1 DEF Chunked, AllFit
<1>. QED
  BY <1>4, <1>5, <1>8, <1>9, <1>10, Zenon DEF DownlinkIntact

\* The strengthening under which a session's streams stay intact: the header as it was read,
\* the uplink and the downlink.
StreamInv == HeaderInv /\ UpInv /\ DownInv

\* It is an invariant: the header gives the uplink its request, the uplink the downlink its phase.
LEMMA StreamsHold == Spec => []StreamInv
<1>1. Init => StreamInv
  BY InitHeader, InitUp, InitDown DEF StreamInv
<1>2. StreamInv /\ [Next]_vars => StreamInv'
  BY NextHeader, NextUp, NextDown DEF StreamInv
<1>. QED
  BY <1>1, <1>2, PTL DEF Spec

\* Spec keeps StreamsIntact: however the client's stream is cut into chunks, header included, and
\* however its answers are, whatever the sizes of a piece and the wrap of the counter, the decoder
\* has handed on every whole chunk and nothing else, an honest stream never poisons its session,
\* and what was sent to the client reads to what the destination sent.
THEOREM KeepsStreamsIntact == Spec => []StreamsIntact
<1>1. StreamInv => StreamsIntact
  BY UpIntact, DownIntact DEF StreamInv, StreamsIntact
<1>. QED
  BY <1>1, StreamsHold, PTL
=============================================================================
