----------------------------- MODULE PostText_proofs ---------------------------
(***************************************************************************)
(* Proofs about PostText: the facets of a post are the hashtags of its     *)
(* text, whatever the event and however long the text may be. What the     *)
(* recursive functions of the model compute is shown by induction over      *)
(* sets of numbers, which the least-number principle gives.                 *)
(***************************************************************************)
EXTENDS PostText, SequenceTheorems, WellFoundedInduction, TLAPS

--------------------------------------------------------------------------------
(* Sets of numbers *)

LEMMA LeastOfNaturals ==
  ASSUME NEW S, S \subseteq Nat, S # {}
  PROVE  \E m \in S : \A n \in S : m <= n
<1> DEFINE R == OpToRel(<, Nat)
<1>1. IsWellFoundedOn(R, Nat)
  BY NatLessThanWellFounded
<1>2. \A i, j \in Nat : i < j => <<i, j>> \in R
  BY DEF OpToRel
<1> HIDE DEF R
<1>3. PICK m \in S : \A n \in S : ~(<<n, m>> \in R)
  BY <1>1, WFMin
<1>4. ASSUME NEW n \in S PROVE m <= n
  <2>1. m \in Nat /\ n \in Nat /\ ~(n < m)
    BY <1>2, <1>3
  <2>2. QED
    BY <2>1
<1>5. QED
  BY <1>4

LEMMA MinIsLeast ==
  ASSUME NEW S, S \subseteq Nat, S # {}
  PROVE  Min(S) \in S /\ \A n \in S : Min(S) <= n
BY LeastOfNaturals DEF Min

(* Induction, for a property given as the set of the numbers that have it.   *)
LEMMA NaturalsReached ==
  ASSUME NEW S, 0 \in S, \A n \in Nat : n \in S => n + 1 \in S
  PROVE  \A n \in Nat : n \in S
<1> SUFFICES ASSUME NEW k \in Nat, k \notin S PROVE FALSE
  OBVIOUS
<1> DEFINE T == {n \in Nat : n \notin S}
<1>1. PICK m \in T : \A n \in T : m <= n
  BY LeastOfNaturals
<1>2. m \in Nat \ {0} /\ m - 1 \in Nat
  BY <1>1
<1>3. m - 1 \in S
  BY <1>1, <1>2
<1>4. (m - 1) + 1 \in S
  BY <1>2, <1>3
<1>5. QED
  BY <1>1, <1>2, <1>4

--------------------------------------------------------------------------------
(* Bytes *)

(* The recursion of Bytes has a solution.                                    *)
LEMMA BytesRecursion ==
  ASSUME NEW chars \in Seq(Characters)
  PROVE  Bytes(chars) =
           [n \in 0..Len(chars) |->
              IF n = 0 THEN 0 ELSE Bytes(chars)[n - 1] + chars[n].bytes]
<1> DEFINE Solves(g, k) ==
             g = [n \in 0..k |-> IF n = 0 THEN 0 ELSE g[n - 1] + chars[n].bytes]
           Solvable == {k \in Nat : \E g : Solves(g, k)}
<1>1. 0 \in Solvable
  <2> DEFINE g == [n \in 0..0 |-> 0]
  <2>1. Solves(g, 0)
    OBVIOUS
  <2>2. QED
    BY <2>1
<1>2. ASSUME NEW k \in Nat, k \in Solvable PROVE k + 1 \in Solvable
  <2>1. PICK g : Solves(g, k)
    BY <1>2
  <2> DEFINE h == [n \in 0..(k + 1) |-> IF n <= k THEN g[n] ELSE g[k] + chars[n].bytes]
  <2>2. Solves(h, k + 1)
    <3> DEFINE r == [n \in 0..(k + 1) |-> IF n = 0 THEN 0 ELSE h[n - 1] + chars[n].bytes]
    <3>1. ASSUME NEW n \in 0..(k + 1) PROVE h[n] = r[n]
      <4>1. CASE n = 0
        BY <2>1, <4>1
      <4>2. CASE n # 0 /\ n <= k
        <5>1. g[n] = g[n - 1] + chars[n].bytes
          BY <2>1, <4>2
        <5>2. h[n - 1] = g[n - 1] /\ h[n] = g[n]
          BY <4>2
        <5>3. QED
          BY <4>2, <5>1, <5>2
      <4>3. CASE n = k + 1
        <5>1. h[n - 1] = g[k] /\ h[n] = g[k] + chars[n].bytes
          BY <4>3
        <5>2. QED
          BY <4>3, <5>1
      <4>4. QED
        BY <4>1, <4>2, <4>3
    <3>2. h = r
      BY <3>1
    <3>3. QED
      BY <3>2
  <2> HIDE DEF h
  <2>3. \E g2 : Solves(g2, k + 1)
    BY <2>2
  <2> HIDE DEF Solves
  <2>4. QED
    BY <2>3
<1>3. Len(chars) \in Solvable
  <2> HIDE DEF Solvable
  <2>1. QED
    BY <1>1, <1>2, NaturalsReached, LenProperties
<1>4. \E g : Solves(g, Len(chars))
  BY <1>3
<1>5. Bytes(chars) = CHOOSE g : Solves(g, Len(chars))
  BY DEF Bytes
<1>6. QED
  BY <1>4, <1>5

LEMMA BytesFacts ==
  ASSUME NEW chars \in Seq(Characters)
  PROVE  /\ Bytes(chars) \in [0..Len(chars) -> Nat]
         /\ Bytes(chars)[0] = 0
         /\ \A n \in 1..Len(chars) :
              /\ chars[n].bytes \in Nat \ {0}
              /\ Bytes(chars)[n] = Bytes(chars)[n - 1] + chars[n].bytes
<1> DEFINE B == Bytes(chars)
           Counted == {n \in Nat : n <= Len(chars) => B[n] \in Nat}
<1>1. Len(chars) \in Nat /\ \A n \in 1..Len(chars) : chars[n].bytes \in Nat \ {0}
  <2>1. Len(chars) \in Nat /\ chars \in [1..Len(chars) -> Characters]
    BY LenProperties
  <2>2. \A c \in Characters : c.bytes \in Nat \ {0}
    BY DEF Characters
  <2>3. QED
    BY <2>1, <2>2
<1>2. /\ DOMAIN B = 0..Len(chars)
      /\ B = [n \in DOMAIN B |-> B[n]]
      /\ B[0] = 0
      /\ \A n \in 1..Len(chars) : B[n] = B[n - 1] + chars[n].bytes
  <2> HIDE DEF B
  <2>1. B = [n \in 0..Len(chars) |-> IF n = 0 THEN 0 ELSE B[n - 1] + chars[n].bytes]
    BY BytesRecursion DEF B
  <2>2. QED
    BY <1>1, <2>1
<1> HIDE DEF B
<1>3. 0 \in Counted
  BY <1>2
<1>4. ASSUME NEW n \in Nat, n \in Counted PROVE n + 1 \in Counted
  <2> SUFFICES ASSUME n + 1 <= Len(chars) PROVE B[n + 1] \in Nat
    OBVIOUS
  <2>1. n + 1 \in 1..Len(chars) /\ (n + 1) - 1 = n /\ B[n] \in Nat
    BY <1>1, <1>4
  <2>2. B[n + 1] = B[n] + chars[n + 1].bytes
    BY <1>2, <2>1
  <2>3. QED
    BY <1>1, <2>1, <2>2
<1>5. \A n \in Nat : n \in Counted
  <2> HIDE DEF Counted
  <2>1. QED
    BY <1>3, <1>4, NaturalsReached
<1>6. \A n \in 0..Len(chars) : B[n] \in Nat
  BY <1>1, <1>5
<1>7. QED
  BY <1>1, <1>2, <1>6 DEF B

(* Bytes grow with the characters.                                           *)
LEMMA BytesGrow ==
  ASSUME NEW chars \in Seq(Characters),
         NEW m \in 0..Len(chars), NEW n \in 0..Len(chars), m < n
  PROVE  Bytes(chars)[m] < Bytes(chars)[n]
<1> DEFINE B == Bytes(chars)
           Above == {k \in Nat : m + k + 1 <= Len(chars) => B[m] < B[m + k + 1]}
<1>1. /\ Len(chars) \in Nat
      /\ B \in [0..Len(chars) -> Nat]
      /\ \A i \in 1..Len(chars) :
           chars[i].bytes \in Nat \ {0} /\ B[i] = B[i - 1] + chars[i].bytes
  BY BytesFacts, LenProperties
<1> HIDE DEF B
<1>2. \A i \in 0..(Len(chars) - 1) : B[i] \in Nat /\ B[i + 1] \in Nat /\ B[i] < B[i + 1]
  <2> SUFFICES ASSUME NEW i \in 0..(Len(chars) - 1)
               PROVE  B[i] \in Nat /\ B[i + 1] \in Nat /\ B[i] < B[i + 1]
    OBVIOUS
  <2>1. i \in 0..Len(chars) /\ i + 1 \in 1..Len(chars) /\ (i + 1) - 1 = i
    BY <1>1
  <2>2. B[i] \in Nat /\ B[i + 1] = B[i] + chars[i + 1].bytes /\ chars[i + 1].bytes \in Nat \ {0}
    BY <1>1, <2>1
  <2>3. QED
    BY <2>2
<1>3. 0 \in Above
  BY <1>1, <1>2
<1>4. ASSUME NEW k \in Nat, k \in Above PROVE k + 1 \in Above
  <2> SUFFICES ASSUME m + (k + 1) + 1 <= Len(chars) PROVE B[m] < B[m + (k + 1) + 1]
    OBVIOUS
  <2>1. m \in 0..Len(chars) /\ m + k + 1 \in 0..(Len(chars) - 1) /\ m + (k + 1) + 1 = (m + k + 1) + 1
    BY <1>1
  <2>2. B[m] \in Nat /\ B[m + k + 1] < B[(m + k + 1) + 1] /\ B[m] < B[m + k + 1]
        /\ B[m + k + 1] \in Nat /\ B[(m + k + 1) + 1] \in Nat
    BY <1>1, <1>2, <1>4, <2>1
  <2>3. B[m] < B[(m + k + 1) + 1]
    BY <2>2
  <2>4. QED
    BY <2>1, <2>3
<1>5. \A k \in Nat : k \in Above
  <2> HIDE DEF Above
  <2>1. QED
    BY <1>3, <1>4, NaturalsReached
<1> DEFINE k == n - m - 1
<1>6. k \in Nat /\ m + k + 1 = n /\ n <= Len(chars)
  BY <1>1
<1> HIDE DEF k
<1>7. B[m] < B[m + k + 1]
  BY <1>5, <1>6
<1>8. QED
  BY <1>6, <1>7 DEF B

(* What begins in the same way has the same bytes there.                     *)
LEMMA BytesOfPrefix ==
  ASSUME NEW chars \in Seq(Characters), NEW full \in Seq(Characters),
         Len(chars) <= Len(full), \A i \in 1..Len(chars) : chars[i] = full[i],
         NEW n \in 0..Len(chars)
  PROVE  Bytes(chars)[n] = Bytes(full)[n]
<1> DEFINE B == Bytes(chars)
           F == Bytes(full)
           Same == {k \in Nat : k <= Len(chars) => B[k] = F[k]}
<1>1. /\ Len(chars) \in Nat /\ Len(full) \in Nat
      /\ B[0] = 0 /\ F[0] = 0
      /\ \A i \in 1..Len(chars) : B[i] = B[i - 1] + chars[i].bytes
      /\ \A i \in 1..Len(full) : F[i] = F[i - 1] + full[i].bytes
  BY BytesFacts, LenProperties
<1> HIDE DEF B, F
<1>2. 0 \in Same
  BY <1>1
<1>3. ASSUME NEW k \in Nat, k \in Same PROVE k + 1 \in Same
  <2> SUFFICES ASSUME k + 1 <= Len(chars) PROVE B[k + 1] = F[k + 1]
    OBVIOUS
  <2>1. k + 1 \in 1..Len(chars) /\ k + 1 \in 1..Len(full) /\ (k + 1) - 1 = k /\ B[k] = F[k]
    BY <1>1, <1>3
  <2>2. QED
    BY <1>1, <2>1
<1>4. \A k \in Nat : k \in Same
  <2> HIDE DEF Same
  <2>1. QED
    BY <1>2, <1>3, NaturalsReached
<1>5. QED
  BY <1>1, <1>4 DEF B, F

--------------------------------------------------------------------------------
(* FlattenSeq: the sequences joined, one after the other *)

(* j[i] is what the first i sequences make together. *)
Joins(j, seqs) ==
  /\ DOMAIN j = 0..Len(seqs)
  /\ j[0] = <<>>
  /\ \A i \in 1..Len(seqs) : j[i] = j[i - 1] \o seqs[i]

(* The recursion of FlattenSeq has a solution.                               *)
LEMMA FlattenRecursion ==
  ASSUME NEW S, NEW seqs \in Seq(Seq(S)), seqs # <<>>
  PROVE  \E g : /\ DOMAIN g = 1..Len(seqs)
                /\ g[1] = seqs[1]
                /\ \A i \in 2..Len(seqs) : g[i] = g[i - 1] \o seqs[i]
                /\ FlattenSeq(seqs) = g[Len(seqs)]
<1> DEFINE Solves(g, k) ==
             g = [i \in 1..k |-> IF i = 1 THEN seqs[i] ELSE g[i - 1] \o seqs[i]]
           Solvable == {k \in Nat : \E g : Solves(g, k)}
<1>1. 0 \in Solvable
  <2> DEFINE g == [i \in 1..0 |-> <<>>]
  <2>1. Solves(g, 0)
    OBVIOUS
  <2>2. QED
    BY <2>1
<1>2. ASSUME NEW k \in Nat, k \in Solvable PROVE k + 1 \in Solvable
  <2>1. PICK g : Solves(g, k)
    BY <1>2
  <2> DEFINE last == IF k = 0 THEN seqs[1] ELSE g[k] \o seqs[k + 1]
             h == [i \in 1..(k + 1) |-> IF i <= k THEN g[i] ELSE last]
  <2>2. Solves(h, k + 1)
    <3> DEFINE r == [i \in 1..(k + 1) |-> IF i = 1 THEN seqs[i] ELSE h[i - 1] \o seqs[i]]
    <3>1. ASSUME NEW i \in 1..(k + 1) PROVE h[i] = r[i]
      <4>1. CASE i = 1
        <5>1. CASE k = 0
          BY <4>1, <5>1
        <5>2. CASE k # 0
          <6>1. i \in 1..k /\ h[i] = g[i] /\ g[i] = seqs[i]
            BY <2>1, <4>1, <5>2
          <6>2. QED
            BY <4>1, <6>1
        <5>3. QED
          BY <5>1, <5>2
      <4>2. CASE i # 1 /\ i <= k
        <5>1. i \in 1..k /\ i - 1 \in 1..k /\ i - 1 \in 1..(k + 1)
          BY <4>2
        <5>2. g[i] = g[i - 1] \o seqs[i]
          BY <2>1, <4>2, <5>1
        <5>3. h[i - 1] = g[i - 1] /\ h[i] = g[i]
          BY <5>1
        <5>4. QED
          BY <4>2, <5>2, <5>3
      <4>3. CASE i # 1 /\ i = k + 1
        <5>1. k # 0 /\ ~(i <= k) /\ i - 1 = k /\ k \in 1..(k + 1)
          BY <4>3
        <5>2. h[i - 1] = g[k]
          BY <5>1
        <5>3. h[i] = g[k] \o seqs[i]
          BY <4>3, <5>1
        <5>4. QED
          BY <4>3, <5>1, <5>2, <5>3
      <4>4. QED
        BY <4>1, <4>2, <4>3
    <3>2. h = r
      BY <3>1
    <3>3. QED
      BY <3>2
  <2> HIDE DEF h
  <2>3. \E g2 : Solves(g2, k + 1)
    BY <2>2
  <2> HIDE DEF Solves
  <2>4. QED
    BY <2>3
<1>3. Len(seqs) \in Nat \ {0}
  BY EmptySeq
<1>4. Len(seqs) \in Solvable
  <2> HIDE DEF Solvable
  <2>1. QED
    BY <1>1, <1>2, <1>3, NaturalsReached
<1>5. \E g : Solves(g, Len(seqs))
  BY <1>4
<1> DEFINE flatten == CHOOSE g : Solves(g, Len(seqs))
<1>6. FlattenSeq(seqs) = flatten[Len(seqs)]
  BY <1>3 DEF FlattenSeq
<1> HIDE DEF flatten
<1>7. Solves(flatten, Len(seqs))
  BY <1>5 DEF flatten
<1>8. /\ DOMAIN flatten = 1..Len(seqs)
      /\ flatten[1] = seqs[1]
      /\ \A i \in 2..Len(seqs) : flatten[i] = flatten[i - 1] \o seqs[i]
  <2>1. DOMAIN flatten = 1..Len(seqs)
    BY <1>7
  <2>2. 1 \in 1..Len(seqs) /\ flatten[1] = seqs[1]
    BY <1>3, <1>7
  <2>3. ASSUME NEW i \in 2..Len(seqs) PROVE flatten[i] = flatten[i - 1] \o seqs[i]
    <3>1. i \in 1..Len(seqs) /\ i # 1
      BY <1>3
    <3>2. QED
      BY <1>7, <3>1
  <2>4. QED
    BY <2>1, <2>2, <2>3
<1>9. QED
  BY <1>6, <1>8

LEMMA FlattenJoins ==
  ASSUME NEW S, NEW seqs \in Seq(Seq(S))
  PROVE  \E j \in [0..Len(seqs) -> Seq(S)] :
           Joins(j, seqs) /\ FlattenSeq(seqs) = j[Len(seqs)]
<1>1. Len(seqs) \in Nat /\ \A i \in 1..Len(seqs) : seqs[i] \in Seq(S)
  BY LenProperties, ElementOfSeq
<1>2. CASE seqs = <<>>
  <2> DEFINE j == [i \in 0..0 |-> <<>>]
  <2>1. Len(seqs) = 0 /\ FlattenSeq(seqs) = <<>>
    BY <1>2, EmptySeq DEF FlattenSeq
  <2>2. j \in [0..0 -> Seq(S)]
    BY EmptySeq
  <2>3. Joins(j, seqs) /\ FlattenSeq(seqs) = j[Len(seqs)]
    BY <2>1 DEF Joins
  <2> HIDE DEF j
  <2>4. QED
    BY <2>1, <2>2, <2>3
<1>3. CASE seqs # <<>>
  <2>1. PICK g : /\ DOMAIN g = 1..Len(seqs)
                 /\ g[1] = seqs[1]
                 /\ \A i \in 2..Len(seqs) : g[i] = g[i - 1] \o seqs[i]
                 /\ FlattenSeq(seqs) = g[Len(seqs)]
    BY <1>3, FlattenRecursion
  <2> DEFINE j == [i \in 0..Len(seqs) |-> IF i = 0 THEN <<>> ELSE g[i]]
  <2>2. Len(seqs) # 0
    BY <1>3, EmptySeq
  <2>3. ASSUME NEW i \in 1..Len(seqs) PROVE j[i] = j[i - 1] \o seqs[i]
    <3>1. CASE i = 1
      <4>1. j[i] = seqs[i] /\ j[i - 1] = <<>>
        BY <1>1, <2>1, <3>1
      <4>2. <<>> \o seqs[i] = seqs[i]
        BY <1>1, ConcatEmptySeq
      <4>3. QED
        BY <4>1, <4>2
    <3>2. CASE i # 1
      <4>1. /\ i \in 2..Len(seqs) /\ i \in 0..Len(seqs) /\ i # 0
            /\ i - 1 \in 0..Len(seqs) /\ i - 1 # 0
        BY <1>1, <3>2
      <4>2. g[i] = g[i - 1] \o seqs[i]
        BY <2>1, <4>1
      <4>3. j[i] = g[i] /\ j[i - 1] = g[i - 1]
        BY <4>1
      <4>4. QED
        BY <4>2, <4>3
    <3>3. QED
      BY <3>1, <3>2
  <2>4. Joins(j, seqs) /\ FlattenSeq(seqs) = j[Len(seqs)]
    <3>1. DOMAIN j = 0..Len(seqs) /\ j[0] = <<>> /\ j[Len(seqs)] = g[Len(seqs)]
      BY <1>1, <2>2
    <3> HIDE DEF j
    <3>2. QED
      BY <2>1, <2>3, <3>1 DEF Joins
  <2>5. DOMAIN j = 0..Len(seqs) /\ j = [i \in 0..Len(seqs) |-> j[i]]
    OBVIOUS
  <2> HIDE DEF j
  <2> DEFINE Typed == {i \in Nat : i <= Len(seqs) => j[i] \in Seq(S)}
  <2>6. 0 \in Typed
    BY <2>4, EmptySeq DEF Joins
  <2>7. ASSUME NEW i \in Nat, i \in Typed PROVE i + 1 \in Typed
    <3> SUFFICES ASSUME i + 1 <= Len(seqs) PROVE j[i + 1] \in Seq(S)
      OBVIOUS
    <3>1. i + 1 \in 1..Len(seqs) /\ (i + 1) - 1 = i /\ j[i] \in Seq(S)
      BY <1>1, <2>7
    <3>2. j[i + 1] = j[i] \o seqs[i + 1] /\ seqs[i + 1] \in Seq(S)
      BY <1>1, <2>4, <3>1 DEF Joins
    <3>3. QED
      BY <3>1, <3>2, ConcatProperties
  <2>8. \A i \in Nat : i \in Typed
    <3> HIDE DEF Typed
    <3>1. QED
      BY <2>6, <2>7, NaturalsReached
  <2>9. \A i \in 0..Len(seqs) : j[i] \in Seq(S)
    BY <1>1, <2>8
  <2>10. j \in [0..Len(seqs) -> Seq(S)]
    BY <2>5, <2>9
  <2>11. QED
    BY <2>4, <2>10
<1>4. QED
  BY <1>2, <1>3

(* What is joined does not depend on what comes after.                       *)
LEMMA JoinsAgree ==
  ASSUME NEW a, NEW b, NEW f, NEW g, Joins(f, a), Joins(g, b),
         Len(a) \in Nat, Len(b) \in Nat, Len(a) <= Len(b),
         \A i \in 1..Len(a) : a[i] = b[i]
  PROVE  f[Len(a)] = g[Len(a)]
<1> DEFINE Same == {k \in Nat : k <= Len(a) => f[k] = g[k]}
<1>1. 0 \in Same
  BY DEF Joins
<1>2. ASSUME NEW k \in Nat, k \in Same PROVE k + 1 \in Same
  <2> SUFFICES ASSUME k + 1 <= Len(a) PROVE f[k + 1] = g[k + 1]
    OBVIOUS
  <2>1. k + 1 \in 1..Len(a) /\ k + 1 \in 1..Len(b) /\ (k + 1) - 1 = k /\ f[k] = g[k]
    BY <1>2
  <2>2. f[k + 1] = f[k] \o a[k + 1] /\ g[k + 1] = g[k] \o b[k + 1]
    BY <2>1 DEF Joins
  <2>3. QED
    BY <2>1, <2>2
<1>3. \A k \in Nat : k \in Same
  <2> HIDE DEF Same
  <2>1. QED
    BY <1>1, <1>2, NaturalsReached
<1>4. QED
  BY <1>3

LEMMA FlattenType ==
  ASSUME NEW S, NEW seqs \in Seq(Seq(S))
  PROVE  FlattenSeq(seqs) \in Seq(S)
<1>1. Len(seqs) \in 0..Len(seqs)
  BY LenProperties
<1>2. QED
  BY <1>1, FlattenJoins

LEMMA FlattenEmpty == FlattenSeq(<<>>) = <<>>
BY DEF FlattenSeq

LEMMA FlattenConcat ==
  ASSUME NEW S, NEW a \in Seq(Seq(S)), NEW b \in Seq(Seq(S))
  PROVE  FlattenSeq(a \o b) = FlattenSeq(a) \o FlattenSeq(b)
<1> DEFINE c == a \o b
<1>1. /\ Len(a) \in Nat /\ Len(b) \in Nat
      /\ c \in Seq(Seq(S)) /\ Len(c) = Len(a) + Len(b)
      /\ \A i \in 1..(Len(a) + Len(b)) : c[i] = IF i <= Len(a) THEN a[i] ELSE b[i - Len(a)]
  BY LenProperties, ConcatProperties
<1> HIDE DEF c
<1>2. PICK f \in [0..Len(a) -> Seq(S)] : Joins(f, a) /\ FlattenSeq(a) = f[Len(a)]
  BY FlattenJoins
<1>3. PICK g \in [0..Len(b) -> Seq(S)] : Joins(g, b) /\ FlattenSeq(b) = g[Len(b)]
  BY FlattenJoins
<1>4. PICK h \in [0..Len(c) -> Seq(S)] : Joins(h, c) /\ FlattenSeq(c) = h[Len(c)]
  BY <1>1, FlattenJoins
<1>a. /\ \A x \in Seq(S) : x \o <<>> = x
      /\ \A x, y, z \in Seq(S) : (x \o y) \o z = x \o (y \o z)
  BY ConcatEmptySeq, ConcatAssociative, SMTT(30)
<1>5. h[Len(a)] = f[Len(a)]
  <2>1. Len(a) <= Len(c) /\ Len(a) \in 0..Len(a) /\ \A i \in 1..Len(a) : a[i] = c[i]
    BY <1>1
  <2>2. c \in Seq(Seq(S)) /\ Joins(f, a) /\ Joins(h, c)
    BY <1>1, <1>2, <1>4
  <2>3. Len(a) \in Nat /\ Len(c) \in Nat
    BY <1>1
  <2>4. ASSUME NEW u, NEW v, Joins(u, a), Joins(v, c) PROVE u[Len(a)] = v[Len(a)]
    BY <2>1, <2>3, <2>4, JoinsAgree
  <2>5. QED
    BY <2>2, <2>4
<1> DEFINE After == {k \in Nat : k <= Len(b) => h[Len(a) + k] = f[Len(a)] \o g[k]}
<1>6. 0 \in After
  <2>1. g[0] = <<>> /\ Len(a) + 0 = Len(a) /\ Len(a) \in 0..Len(a)
    BY <1>1, <1>3 DEF Joins
  <2>2. f[Len(a)] \in Seq(S)
    BY <2>1
  <2>3. f[Len(a)] \o <<>> = f[Len(a)]
    BY <1>a, <2>2
  <2>4. QED
    BY <1>5, <2>1, <2>3
<1>7. ASSUME NEW k \in Nat, k \in After PROVE k + 1 \in After
  <2> DEFINE n == Len(a) + (k + 1)
  <2>0. k + 1 \in Nat
    OBVIOUS
  <2> SUFFICES ASSUME k + 1 <= Len(b) PROVE h[n] = f[Len(a)] \o g[k + 1]
    BY <2>0, Zenon
  <2>1. /\ k + 1 \in 1..Len(b) /\ (k + 1) - 1 = k
        /\ n \in 1..Len(c) /\ n \in 1..(Len(a) + Len(b))
        /\ n - 1 = Len(a) + k /\ ~(n <= Len(a)) /\ n - Len(a) = k + 1
    BY <1>1, <1>7
  <2>a. h[Len(a) + k] = f[Len(a)] \o g[k]
    <3>1. k <= Len(b)
      BY <1>1
    <3>2. QED
      BY <1>7, <3>1
  <2> HIDE DEF n
  <2>2. c[n] = b[k + 1]
    BY <1>1, <2>1
  <2>3. h[n] = h[Len(a) + k] \o b[k + 1] /\ g[k + 1] = g[k] \o b[k + 1]
    <3>1. h[n] = h[n - 1] \o c[n]
      BY <1>4, <2>1 DEF Joins
    <3>2. g[k + 1] = g[(k + 1) - 1] \o b[k + 1]
      BY <1>3, <2>1 DEF Joins
    <3>3. QED
      BY <2>1, <2>2, <3>1, <3>2
  <2>4. f[Len(a)] \in Seq(S) /\ g[k] \in Seq(S) /\ b[k + 1] \in Seq(S)
    <3>1. Len(a) \in 0..Len(a) /\ k \in 0..Len(b)
      BY <1>1, <2>1
    <3>2. b[k + 1] \in Seq(S)
      BY <2>1, ElementOfSeq
    <3>3. QED
      BY <3>1, <3>2
  <2>5. (f[Len(a)] \o g[k]) \o b[k + 1] = f[Len(a)] \o (g[k] \o b[k + 1])
    BY <1>a, <2>4
  <2>6. QED
    BY <2>a, <2>3, <2>5
<1>8. \A k \in Nat : k \in After
  <2> HIDE DEF After
  <2>1. QED
    BY <1>6, <1>7, NaturalsReached
<1>9. h[Len(c)] = f[Len(a)] \o g[Len(b)]
  BY <1>1, <1>8, SMTT(30)
<1>10. QED
  BY <1>2, <1>3, <1>4, <1>9 DEF c

LEMMA FlattenOne ==
  ASSUME NEW S, NEW s \in Seq(S)
  PROVE  FlattenSeq(<<s>>) = s
<1>1. <<s>> \in Seq(Seq(S)) /\ Len(<<s>>) = 1 /\ <<s>>[1] = s
  OBVIOUS
<1>2. PICK j \in [0..1 -> Seq(S)] : Joins(j, <<s>>) /\ FlattenSeq(<<s>>) = j[1]
  BY <1>1, FlattenJoins
<1>3. j[1] = <<>> \o s
  <2>1. 1 \in 1..Len(<<s>>) /\ 1 - 1 = 0
    BY <1>1
  <2>2. j[1] = j[1 - 1] \o <<s>>[1] /\ j[0] = <<>>
    BY <1>2, <2>1 DEF Joins
  <2>3. QED
    BY <1>1, <2>2
<1>4. QED
  BY <1>2, <1>3, ConcatEmptySeq

(* The beginning of a sequence is joined to the beginning of the whole.      *)
LEMMA FlattenOfPrefix ==
  ASSUME NEW S, NEW seqs \in Seq(Seq(S)), NEW n \in 0..Len(seqs)
  PROVE  /\ SubSeq(seqs, 1, n) \in Seq(Seq(S))
         /\ \E rest \in Seq(S) : FlattenSeq(seqs) = FlattenSeq(SubSeq(seqs, 1, n)) \o rest
<1> DEFINE a == SubSeq(seqs, 1, n)
           b == SubSeq(seqs, n + 1, Len(seqs))
<1>1. Len(seqs) \in Nat /\ \A i \in 1..Len(seqs) : seqs[i] \in Seq(S)
  BY LenProperties, ElementOfSeq
<1>2. a \in Seq(Seq(S)) /\ b \in Seq(Seq(S))
  BY <1>1, SubSeqProperties
<1>3. a \o b = seqs
  <2>1. 1 \in 1..(Len(seqs) + 1) /\ n \in (1 - 1)..Len(seqs) /\ Len(seqs) \in n..Len(seqs)
    BY <1>1
  <2>2. a \o b = SubSeq(seqs, 1, Len(seqs))
    BY <2>1, ConcatAdjacentSubSeq
  <2>3. QED
    BY <2>2, SubSeqFull
<1> HIDE DEF a, b
<1>4. FlattenSeq(seqs) = FlattenSeq(a) \o FlattenSeq(b) /\ FlattenSeq(b) \in Seq(S)
  BY <1>2, <1>3, FlattenConcat, FlattenType
<1>5. QED
  BY <1>2, <1>4 DEF a

--------------------------------------------------------------------------------
(* Scan *)

(* Induction from the end of an interval down.                               *)
LEMMA DownwardReached ==
  ASSUME NEW n \in Nat, NEW S,
         \A k \in 1..n : (\A m \in (k + 1)..n : m \in S) => k \in S
  PROVE  \A k \in 1..n : k \in S
<1> DEFINE T == {d \in Nat : \A k \in 1..n : n - k < d => k \in S}
<1>1. 0 \in T
  OBVIOUS
<1>2. ASSUME NEW d \in Nat, d \in T PROVE d + 1 \in T
  <2> SUFFICES ASSUME NEW k \in 1..n, n - k < d + 1 PROVE k \in S
    OBVIOUS
  <2>1. \A m \in (k + 1)..n : m \in 1..n /\ n - m < d
    OBVIOUS
  <2>2. \A m \in (k + 1)..n : m \in S
    BY <1>2, <2>1
  <2>3. QED
    BY <2>2
<1>3. n + 1 \in T
  <2> HIDE DEF T
  <2>1. \A d \in Nat : d \in T
    BY <1>1, <1>2, NaturalsReached
  <2>2. QED
    BY <2>1
<1>4. \A k \in 1..n : n - k < n + 1
  OBVIOUS
<1>5. QED
  BY <1>3, <1>4

LEMMA NextIsFirst ==
  ASSUME NEW chars \in Seq(Characters), NEW kind, NEW from \in 1..(Len(chars) + 2)
  PROVE  LET next == NextOf(chars, kind, from) IN
         /\ next \in 1..(Len(chars) + 1)
         /\ next <= Len(chars) => next >= from /\ chars[next].kind = kind
         /\ next >= from \/ from = Len(chars) + 2
         /\ \A i \in from..Len(chars) : i < next => chars[i].kind # kind
<1> DEFINE places == {i \in from..Len(chars) : chars[i].kind = kind}
<1>1. Len(chars) \in Nat
  BY LenProperties
<1>2. CASE places = {}
  <2>1. NextOf(chars, kind, from) = Len(chars) + 1
    BY <1>2 DEF NextOf, FirstOr
  <2>2. \A i \in from..Len(chars) : chars[i].kind # kind
    BY <1>2
  <2>3. QED
    BY <1>1, <2>1, <2>2
<1>3. CASE places # {}
  <2>1. NextOf(chars, kind, from) = Min(places)
    BY <1>3 DEF NextOf, FirstOr
  <2>2. places \subseteq Nat
    BY <1>1
  <2>3. Min(places) \in places /\ \A i \in places : Min(places) <= i
    <3> HIDE DEF places
    <3>1. QED
      BY <1>3, <2>2, MinIsLeast
  <2> DEFINE next == NextOf(chars, kind, from)
  <2>4. next \in places /\ \A i \in places : next <= i
    BY <2>1, <2>3
  <2> HIDE DEF next
  <2>5. next \in from..Len(chars) /\ chars[next].kind = kind
    BY <2>4
  <2>6. ASSUME NEW i \in from..Len(chars), i < next PROVE chars[i].kind # kind
    BY <1>1, <2>4, <2>5, <2>6
  <2>7. next \in 1..(Len(chars) + 1) /\ next >= from
    BY <1>1, <2>5
  <2>8. QED
    BY <2>5, <2>6, <2>7 DEF next
<1>4. QED
  BY <1>2, <1>3

(* One step of the scan, given what the later positions make.                *)
ScanFrom(chars, scan, from) ==
  LET hash == NextOf(chars, "hash", from)
      stop == NextOf(chars, "space", hash + 1)
  IN IF hash > Len(chars) THEN <<>>
     ELSE IF InWord(chars, hash) \/ stop = hash + 1 THEN scan[hash + 1]
     ELSE <<Facet(chars, hash, stop)>> \o scan[stop]

(* The next "#" and the space after it.                                      *)
LEMMA HashAndStop ==
  ASSUME NEW chars \in Seq(Characters), NEW from \in 1..(Len(chars) + 1),
         NEW hash, hash = NextOf(chars, "hash", from), hash <= Len(chars),
         NEW stop, stop = NextOf(chars, "space", hash + 1)
  PROVE  /\ hash \in from..Len(chars) /\ chars[hash].kind = "hash"
         /\ \A i \in from..Len(chars) : i < hash => chars[i].kind # "hash"
         /\ stop \in (hash + 1)..(Len(chars) + 1)
         /\ stop <= Len(chars) => chars[stop].kind = "space"
         /\ \A i \in (hash + 1)..Len(chars) : i < stop => chars[i].kind # "space"
<1>1. Len(chars) \in Nat
  BY LenProperties
<1>2. from \in 1..(Len(chars) + 2)
  BY <1>1
<1>3. /\ hash \in 1..(Len(chars) + 1) /\ hash >= from /\ chars[hash].kind = "hash"
      /\ \A i \in from..Len(chars) : i < hash => chars[i].kind # "hash"
  BY <1>2, NextIsFirst
<1>4. hash + 1 \in 1..(Len(chars) + 2) /\ hash + 1 # Len(chars) + 2
  BY <1>1, <1>3
<1>5. /\ stop \in 1..(Len(chars) + 1) /\ stop >= hash + 1
      /\ stop <= Len(chars) => chars[stop].kind = "space"
      /\ \A i \in (hash + 1)..Len(chars) : i < stop => chars[i].kind # "space"
  BY <1>4, NextIsFirst
<1>6. QED
  BY <1>1, <1>3, <1>5

LEMMA ScanFromAgrees ==
  ASSUME NEW chars \in Seq(Characters), NEW from \in 1..(Len(chars) + 1),
         NEW g, NEW h, \A m \in (from + 1)..(Len(chars) + 1) : g[m] = h[m]
  PROVE  ScanFrom(chars, g, from) = ScanFrom(chars, h, from)
<1> DEFINE hash == NextOf(chars, "hash", from)
           stop == NextOf(chars, "space", hash + 1)
<1> SUFFICES ASSUME ~(hash > Len(chars))
             PROVE  g[hash + 1] = h[hash + 1] /\ g[stop] = h[stop]
  BY DEF ScanFrom
<1>1. Len(chars) \in Nat
  BY LenProperties
<1>2. hash \in 1..(Len(chars) + 1)
  <2>1. from \in 1..(Len(chars) + 2)
    BY <1>1
  <2>2. QED
    BY <2>1, NextIsFirst
<1>3. hash <= Len(chars)
  BY <1>1, <1>2
<1>4. hash \in from..Len(chars) /\ stop \in (hash + 1)..(Len(chars) + 1)
  <2> HIDE DEF hash
  <2>1. hash = NextOf(chars, "hash", from)
    BY DEF hash
  <2>2. QED
    BY <1>3, <2>1, HashAndStop
<1> HIDE DEF hash, stop
<1>5. /\ hash + 1 \in (from + 1)..(Len(chars) + 1)
      /\ stop \in (from + 1)..(Len(chars) + 1)
  BY <1>1, <1>4
<1>6. QED
  BY <1>5

(* The recursion of Scan has a solution.                                     *)
LEMMA ScanRecursion ==
  ASSUME NEW chars \in Seq(Characters)
  PROVE  Scan(chars) =
           [from \in 1..(Len(chars) + 1) |-> ScanFrom(chars, Scan(chars), from)]
<1> DEFINE n == Len(chars) + 1
           Solves(g, k) == g = [from \in k..n |-> ScanFrom(chars, g, from)]
           Solvable == {k \in 1..n : \E g : Solves(g, k)}
<1>1. n \in Nat /\ 1 \in 1..n
  BY LenProperties
<1>2. ASSUME NEW k \in 1..n, \A m \in (k + 1)..n : m \in Solvable PROVE k \in Solvable
  <2>1. \E g : k < n => Solves(g, k + 1)
    <3>1. CASE k < n
      <4>1. k + 1 \in (k + 1)..n
        BY <1>1, <3>1
      <4>2. k + 1 \in Solvable
        BY <1>2, <4>1
      <4>3. QED
        BY <4>2
    <3>2. CASE ~(k < n)
      BY <3>2
    <3>3. QED
      BY <3>1, <3>2
  <2>2. PICK g : k < n => Solves(g, k + 1)
    BY <2>1
  <2> DEFINE h == [from \in k..n |-> IF from = k THEN ScanFrom(chars, g, k) ELSE g[from]]
  <2>3. ASSUME NEW from \in k..n PROVE h[from] = ScanFrom(chars, h, from)
    <3>1. /\ from \in 1..(Len(chars) + 1)
          /\ \A m \in (from + 1)..(Len(chars) + 1) : m \in k..n /\ m # k
      BY <1>1
    <3>2. \A m \in (from + 1)..(Len(chars) + 1) : g[m] = h[m]
      BY <3>1
    <3> HIDE DEF h
    <3>3. ScanFrom(chars, g, from) = ScanFrom(chars, h, from)
      BY <3>1, <3>2, ScanFromAgrees
    <3>4. h[from] = ScanFrom(chars, g, from)
      <4>1. CASE from = k
        BY <4>1 DEF h
      <4>2. CASE from # k
        <5>1. k < n /\ from \in (k + 1)..n
          BY <1>1, <4>2
        <5>2. g[from] = ScanFrom(chars, g, from)
          BY <2>2, <5>1
        <5>3. QED
          BY <4>2, <5>2 DEF h
      <4>3. QED
        BY <4>1, <4>2
    <3>5. QED
      BY <3>3, <3>4
  <2>4. Solves(h, k)
    <3>1. h = [from \in k..n |-> h[from]]
      OBVIOUS
    <3> HIDE DEF h
    <3>2. QED
      BY <2>3, <3>1
  <2> HIDE DEF h
  <2>5. \E g2 : Solves(g2, k)
    BY <2>4
  <2> HIDE DEF Solves
  <2>6. QED
    BY <2>5
<1>3. 1 \in Solvable
  <2> HIDE DEF Solvable, n
  <2>1. \A k \in 1..n : k \in Solvable
    BY <1>1, <1>2, DownwardReached
  <2>2. QED
    BY <1>1, <2>1
<1>4. \E g : Solves(g, 1)
  BY <1>3
<1>5. Scan(chars) = CHOOSE g : Solves(g, 1)
  BY DEF Scan, ScanFrom
<1>6. QED
  BY <1>4, <1>5

(* What Scan returns: nothing after the last "#", what is after a "#" that    *)
(* is no tag's, or the facet of the tag and what is after it.                 *)
LEMMA ScanSteps ==
  ASSUME NEW chars \in Seq(Characters), NEW from \in 1..(Len(chars) + 1)
  PROVE  LET hash == NextOf(chars, "hash", from)
             stop == NextOf(chars, "space", hash + 1)
             none == InWord(chars, hash) \/ stop = hash + 1
         IN /\ ~(hash <= Len(chars)) => Scan(chars)[from] = <<>>
            /\ hash <= Len(chars) /\ none => Scan(chars)[from] = Scan(chars)[hash + 1]
            /\ hash <= Len(chars) /\ ~none =>
                 Scan(chars)[from] = <<Facet(chars, hash, stop)>> \o Scan(chars)[stop]
<1> DEFINE hash == NextOf(chars, "hash", from)
<1>1. Len(chars) \in Nat /\ from \in 1..(Len(chars) + 2)
  BY LenProperties
<1>2. hash \in Nat
  BY <1>1, NextIsFirst
<1>3. hash > Len(chars) <=> ~(hash <= Len(chars))
  <2> HIDE DEF hash
  <2>1. QED
    BY <1>1, <1>2
<1>4. Scan(chars)[from] = ScanFrom(chars, Scan(chars), from)
  <2> DEFINE s == Scan(chars)
  <2> HIDE DEF s
  <2>1. s = [m \in 1..(Len(chars) + 1) |-> ScanFrom(chars, s, m)]
    BY ScanRecursion DEF s
  <2>2. s[from] = ScanFrom(chars, s, from)
    BY <2>1
  <2>3. QED
    BY <2>2 DEF s
<1>5. QED
  BY <1>3, <1>4 DEF ScanFrom

Facets == [byteStart : Nat, byteEnd : Nat, tag : Seq(Characters)]

LEMMA FacetType ==
  ASSUME NEW chars \in Seq(Characters),
         NEW first \in 1..(Len(chars) + 1), NEW end \in 1..(Len(chars) + 1)
  PROVE  Facet(chars, first, end) \in Facets
<1>1. Len(chars) \in Nat /\ Bytes(chars) \in [0..Len(chars) -> Nat]
  BY LenProperties, BytesFacts
<1>2. first - 1 \in 0..Len(chars) /\ end - 1 \in 0..Len(chars)
  BY <1>1
<1>3. Offset(chars, first) \in Nat /\ Offset(chars, end) \in Nat
  BY <1>1, <1>2 DEF Offset
<1>4. SubSeq(chars, first + 1, end - 1) \in Seq(Characters)
  <2>1. first + 1 \in Int /\ end - 1 \in Int
    BY <1>2
  <2>2. \A i \in (first + 1)..(end - 1) : chars[i] \in Characters
    <3>1. \A i \in (first + 1)..(end - 1) : i \in 1..Len(chars)
      BY <1>1
    <3>2. QED
      BY <3>1, ElementOfSeq
  <2>3. QED
    BY <2>1, <2>2, SubSeqProperties
<1>5. QED
  BY <1>3, <1>4 DEF Facet, Facets

LEMMA ScanType ==
  ASSUME NEW chars \in Seq(Characters)
  PROVE  \A from \in 1..(Len(chars) + 1) : Scan(chars)[from] \in Seq(Facets)
<1> DEFINE n == Len(chars) + 1
           Typed == {k \in 1..n : Scan(chars)[k] \in Seq(Facets)}
<1>1. Len(chars) \in Nat /\ n \in Nat
  BY LenProperties
<1>2. ASSUME NEW k \in 1..n, \A m \in (k + 1)..n : m \in Typed PROVE k \in Typed
  <2> DEFINE hash == NextOf(chars, "hash", k)
             stop == NextOf(chars, "space", hash + 1)
             none == InWord(chars, hash) \/ stop = hash + 1
  <2>1. /\ ~(hash <= Len(chars)) => Scan(chars)[k] = <<>>
        /\ hash <= Len(chars) /\ none => Scan(chars)[k] = Scan(chars)[hash + 1]
        /\ hash <= Len(chars) /\ ~none =>
             Scan(chars)[k] = <<Facet(chars, hash, stop)>> \o Scan(chars)[stop]
    BY ScanSteps
  <2>2. hash <= Len(chars) =>
          /\ hash \in k..Len(chars) /\ stop \in (hash + 1)..(Len(chars) + 1)
    BY HashAndStop
  <2> HIDE DEF hash, stop, none
  <2>3. CASE ~(hash <= Len(chars))
    BY <2>1, <2>3, EmptySeq
  <2>4. CASE hash <= Len(chars)
    <3>1. /\ hash + 1 \in (k + 1)..n /\ stop \in (k + 1)..n
          /\ hash \in 1..(Len(chars) + 1) /\ stop \in 1..(Len(chars) + 1)
      BY <1>1, <2>2, <2>4
    <3>2. Scan(chars)[hash + 1] \in Seq(Facets) /\ Scan(chars)[stop] \in Seq(Facets)
      BY <1>2, <3>1
    <3>3. <<Facet(chars, hash, stop)>> \in Seq(Facets)
      BY <3>1, FacetType
    <3>4. <<Facet(chars, hash, stop)>> \o Scan(chars)[stop] \in Seq(Facets)
      BY <3>2, <3>3, ConcatProperties
    <3>5. Scan(chars)[k] \in Seq(Facets)
      BY <2>1, <2>4, <3>2, <3>4
    <3>6. QED
      BY <3>5
  <2>5. QED
    BY <2>3, <2>4
<1>3. \A k \in 1..n : k \in Typed
  <2> HIDE DEF Typed, n
  <2>1. QED
    BY <1>1, <1>2, DownwardReached
<1>4. QED
  BY <1>3

WordsFrom(chars, from) == {w \in Words(chars) : w[1] >= from}

(* The words after the last "#", after a "#" that begins none, and from one   *)
(* that begins one.                                                          *)
LEMMA WordsOfSteps ==
  ASSUME NEW chars \in Seq(Characters), NEW from \in 1..(Len(chars) + 1)
  PROVE  LET hash == NextOf(chars, "hash", from)
             stop == NextOf(chars, "space", hash + 1)
             none == InWord(chars, hash) \/ stop = hash + 1
         IN /\ ~(hash <= Len(chars)) => WordsFrom(chars, from) = {}
            /\ hash <= Len(chars) /\ none =>
                 WordsFrom(chars, from) = WordsFrom(chars, hash + 1)
            /\ hash <= Len(chars) /\ ~none =>
                 WordsFrom(chars, from) = {<<hash, stop - 1>>} \cup WordsFrom(chars, stop)
<1> DEFINE hash == NextOf(chars, "hash", from)
           stop == NextOf(chars, "space", hash + 1)
           none == InWord(chars, hash) \/ stop = hash + 1
<1>1. Len(chars) \in Nat /\ DOMAIN chars = 1..Len(chars)
  BY LenProperties
<1>2. hash \in 1..(Len(chars) + 1) /\ \A i \in from..Len(chars) : i < hash => chars[i].kind # "hash"
  <2>1. from \in 1..(Len(chars) + 2)
    BY <1>1
  <2>2. QED
    BY <2>1, NextIsFirst
<1>3. hash <= Len(chars) =>
        /\ hash \in from..Len(chars) /\ chars[hash].kind = "hash"
        /\ stop \in (hash + 1)..(Len(chars) + 1)
        /\ stop <= Len(chars) => chars[stop].kind = "space"
        /\ \A i \in (hash + 1)..Len(chars) : i < stop => chars[i].kind # "space"
  BY HashAndStop
<1>4. none <=> (hash > 1 /\ chars[hash - 1].kind # "space") \/ stop = hash + 1
  BY DEF InWord
<1> HIDE DEF hash, stop, none
<1>5. ASSUME NEW w \in WordsFrom(chars, from)
      PROVE  /\ w[1] \in 1..Len(chars) /\ w[2] \in 1..Len(chars)
             /\ w = <<w[1], w[2]>> /\ w[1] < w[2] /\ chars[w[1]].kind = "hash"
             /\ \A i \in w[1]..w[2] : chars[i].kind # "space"
             /\ w[1] = 1 \/ chars[w[1] - 1].kind = "space"
             /\ w[2] = Len(chars) \/ chars[w[2] + 1].kind = "space"
             /\ w[1] >= from /\ w[1] >= hash
  <2>1. w \in Words(chars) /\ w[1] >= from
    BY DEF WordsFrom
  <2>2. /\ w[1] \in 1..Len(chars) /\ w[2] \in 1..Len(chars)
        /\ w = <<w[1], w[2]>> /\ w[1] < w[2] /\ chars[w[1]].kind = "hash"
        /\ \A i \in w[1]..w[2] : chars[i].kind # "space"
        /\ w[1] = 1 \/ chars[w[1] - 1].kind = "space"
        /\ w[2] = Len(chars) \/ chars[w[2] + 1].kind = "space"
    BY <1>1, <2>1 DEF Words
  <2>3. w[1] >= hash
    BY <1>1, <1>2, <2>1, <2>2
  <2>4. QED
    BY <2>1, <2>2, <2>3
<1>6. ASSUME ~(hash <= Len(chars)) PROVE WordsFrom(chars, from) = {}
  BY <1>1, <1>2, <1>5, <1>6
<1>7. ASSUME hash <= Len(chars), NEW w \in WordsFrom(chars, from), w[1] = hash
      PROVE  ~none /\ w = <<hash, stop - 1>>
  <2>1. hash = 1 \/ chars[hash - 1].kind = "space"
    BY <1>5, <1>7
  <2>2. hash + 1 <= w[2] /\ hash + 1 \in w[1]..w[2] /\ hash \in Nat /\ w[2] \in 1..Len(chars)
    BY <1>1, <1>2, <1>5, <1>7
  <2>3. \A i \in hash..w[2] : chars[i].kind # "space"
    BY <1>5, <1>7
  <2>4. stop > w[2]
    <3>1. SUFFICES ASSUME stop <= w[2] PROVE FALSE
      BY <1>1, <1>3, <1>7, <2>2
    <3>2. stop \in hash..w[2] /\ stop <= Len(chars)
      BY <1>1, <1>3, <1>7, <2>2, <3>1
    <3>3. QED
      BY <1>3, <1>7, <2>3, <3>2
  <2>5. ~(w[2] + 1 < stop)
    <3>1. SUFFICES ASSUME w[2] + 1 < stop PROVE FALSE
      OBVIOUS
    <3>2. w[2] + 1 \in (hash + 1)..Len(chars) /\ w[2] # Len(chars)
      BY <1>1, <1>3, <1>7, <2>2, <3>1
    <3>3. chars[w[2] + 1].kind = "space"
      BY <1>5, <3>2
    <3>4. QED
      BY <1>3, <1>7, <3>1, <3>2, <3>3
  <2>6. w[2] = stop - 1 /\ stop # hash + 1
    <3>1. stop \in (hash + 1)..(Len(chars) + 1)
      BY <1>3, <1>7
    <3>2. stop \in Nat /\ w[2] \in Nat
      BY <1>1, <2>2, <3>1
    <3>3. QED
      BY <2>2, <2>4, <2>5, <3>2
  <2>7. QED
    BY <1>4, <1>5, <1>7, <2>1, <2>6
<1>8. ASSUME hash <= Len(chars), none PROVE WordsFrom(chars, from) = WordsFrom(chars, hash + 1)
  <2>1. ASSUME NEW w \in WordsFrom(chars, from) PROVE w \in WordsFrom(chars, hash + 1)
    <3>1. w[1] # hash
      BY <1>7, <1>8
    <3>2. w[1] >= hash + 1
      BY <1>2, <1>5, <3>1
    <3>3. QED
      BY <3>2 DEF WordsFrom
  <2>2. ASSUME NEW w \in WordsFrom(chars, hash + 1) PROVE w \in WordsFrom(chars, from)
    <3>1. w \in Words(chars) /\ w[1] >= hash + 1 /\ w[1] \in Nat
      BY <1>1 DEF WordsFrom, Words
    <3>2. w[1] >= from
      BY <1>3, <1>8, <3>1
    <3>3. QED
      BY <3>1, <3>2 DEF WordsFrom
  <2>3. QED
    BY <2>1, <2>2
<1>9. ASSUME hash <= Len(chars), ~none
      PROVE  WordsFrom(chars, from) = {<<hash, stop - 1>>} \cup WordsFrom(chars, stop)
  <2>1. ASSUME NEW w \in WordsFrom(chars, from), w[1] # hash PROVE w \in WordsFrom(chars, stop)
    <3>1. w[1] > hash /\ w[1] - 1 \in hash..Len(chars) /\ w[1] \in 1..Len(chars)
      BY <1>1, <1>2, <1>5, <2>1
    <3>2. chars[w[1] - 1].kind = "space"
      BY <1>1, <1>2, <1>5, <3>1
    <3>3. w[1] - 1 # hash
      BY <1>3, <1>9, <3>2
    <3>4. w[1] - 1 \in (hash + 1)..Len(chars)
      BY <1>1, <1>2, <3>1, <3>3
    <3>5. ~(w[1] - 1 < stop)
      BY <1>3, <1>9, <3>2, <3>4
    <3>6. w[1] >= stop
      BY <1>1, <1>3, <1>9, <3>1, <3>5
    <3>7. QED
      BY <3>6 DEF WordsFrom
  <2>2. ASSUME NEW w \in WordsFrom(chars, stop) PROVE w \in WordsFrom(chars, from)
    <3>1. w \in Words(chars) /\ w[1] >= stop /\ w[1] \in Nat
      BY <1>1 DEF WordsFrom, Words
    <3>2. w[1] >= from
      BY <1>3, <1>9, <3>1
    <3>3. QED
      BY <3>1, <3>2 DEF WordsFrom
  <2>3. <<hash, stop - 1>> \in WordsFrom(chars, from)
    <3> DEFINE last == stop - 1
    <3>1. /\ hash \in 1..Len(chars) /\ last \in 1..Len(chars) /\ hash < last /\ hash >= from
          /\ last + 1 = stop
      BY <1>1, <1>2, <1>3, <1>4, <1>9
    <3>2. \A i \in hash..last : chars[i].kind # "space"
      <4>1. ASSUME NEW i \in hash..last PROVE chars[i].kind # "space"
        <5>1. i = hash \/ (i \in (hash + 1)..Len(chars) /\ i < stop)
          BY <1>1, <3>1
        <5>2. QED
          BY <1>3, <1>9, <5>1
      <4>2. QED
        BY <4>1
    <3>3. hash = 1 \/ chars[hash - 1].kind = "space"
      BY <1>2, <1>4, <1>9
    <3> HIDE DEF last
    <3>4. last = Len(chars) \/ chars[last + 1].kind = "space"
      <4>1. last # Len(chars) => last + 1 <= Len(chars)
        <5>1. Len(chars) \in Nat /\ last \in 1..Len(chars)
          BY <1>1, <3>1
        <5>2. QED
          BY <5>1
      <4>2. last + 1 <= Len(chars) => chars[last + 1].kind = "space"
        BY <1>3, <1>9, <3>1
      <4>3. QED
        BY <4>1, <4>2
    <3>5. chars[hash].kind = "hash"
      BY <1>3, <1>9
    <3> DEFINE w == <<hash, last>>
    <3>6. w \in (DOMAIN chars) \X (DOMAIN chars) /\ w[1] = hash /\ w[2] = last
      BY <1>1, <3>1
    <3> HIDE DEF w
    <3>7. w \in Words(chars)
      BY <3>1, <3>2, <3>3, <3>4, <3>5, <3>6 DEF Words
    <3>8. w \in WordsFrom(chars, from)
      BY <3>1, <3>6, <3>7 DEF WordsFrom
    <3>9. QED
      BY <3>8 DEF last, w
  <2>4. QED
    BY <1>7, <1>9, <2>1, <2>2, <2>3
<1>10. QED
  BY <1>6, <1>8, <1>9 DEF hash, stop, none

WordFacets(chars, from) == {Facet(chars, w[1], w[2] + 1) : w \in WordsFrom(chars, from)}

LEMMA ToSetOfConcat ==
  ASSUME NEW S, NEW x \in S, NEW seq \in Seq(S)
  PROVE  ToSet(<<x>> \o seq) = {x} \cup ToSet(seq)
<1> DEFINE all == <<x>> \o seq
<1>1. <<x>> \in Seq(S) /\ Len(<<x>>) = 1 /\ <<x>>[1] = x
  OBVIOUS
<1>2. /\ all \in Seq(S) /\ Len(all) = 1 + Len(seq)
      /\ \A i \in 1..(1 + Len(seq)) : all[i] = IF i <= 1 THEN x ELSE seq[i - 1]
  BY <1>1, ConcatProperties
<1>3. Len(seq) \in Nat /\ DOMAIN seq = 1..Len(seq) /\ DOMAIN all = 1..(1 + Len(seq))
  BY <1>2, LenProperties
<1> HIDE DEF all
<1>4. ASSUME NEW y \in ToSet(all) PROVE y \in {x} \cup ToSet(seq)
  <2>1. PICK i \in 1..(1 + Len(seq)) : y = all[i]
    BY <1>3 DEF ToSet
  <2>2. CASE i = 1
    BY <1>2, <2>1, <2>2
  <2>3. CASE i # 1
    <3>1. i - 1 \in DOMAIN seq /\ y = seq[i - 1]
      BY <1>2, <1>3, <2>1, <2>3
    <3>2. QED
      BY <3>1 DEF ToSet
  <2>4. QED
    BY <2>2, <2>3
<1>5. x \in ToSet(all)
  <2>1. 1 \in DOMAIN all /\ all[1] = x
    BY <1>2, <1>3
  <2>2. QED
    BY <2>1 DEF ToSet
<1>6. ASSUME NEW y \in ToSet(seq) PROVE y \in ToSet(all)
  <2>1. PICK i \in 1..Len(seq) : y = seq[i]
    BY <1>3 DEF ToSet
  <2>2. i + 1 \in 1..(1 + Len(seq)) /\ ~(i + 1 <= 1) /\ (i + 1) - 1 = i
    BY <1>3
  <2>3. i + 1 \in DOMAIN all /\ all[i + 1] = y
    BY <1>2, <1>3, <2>1, <2>2
  <2>4. QED
    BY <2>3 DEF ToSet
<1>7. QED
  BY <1>4, <1>5, <1>6 DEF all

(* From anywhere, the scan finds the words that begin there or later.        *)
LEMMA ScanFindsWords ==
  ASSUME NEW chars \in Seq(Characters)
  PROVE  \A from \in 1..(Len(chars) + 1) : ToSet(Scan(chars)[from]) = WordFacets(chars, from)
<1> DEFINE n == Len(chars) + 1
           Found == {k \in 1..n : ToSet(Scan(chars)[k]) = WordFacets(chars, k)}
<1>1. Len(chars) \in Nat /\ n \in Nat
  BY LenProperties
<1>2. ASSUME NEW k \in 1..n, \A m \in (k + 1)..n : m \in Found PROVE k \in Found
  <2> DEFINE hash == NextOf(chars, "hash", k)
             stop == NextOf(chars, "space", hash + 1)
             none == InWord(chars, hash) \/ stop = hash + 1
  <2>1. /\ ~(hash <= Len(chars)) => Scan(chars)[k] = <<>>
        /\ hash <= Len(chars) /\ none => Scan(chars)[k] = Scan(chars)[hash + 1]
        /\ hash <= Len(chars) /\ ~none =>
             Scan(chars)[k] = <<Facet(chars, hash, stop)>> \o Scan(chars)[stop]
    BY ScanSteps
  <2>2. /\ ~(hash <= Len(chars)) => WordsFrom(chars, k) = {}
        /\ hash <= Len(chars) /\ none => WordsFrom(chars, k) = WordsFrom(chars, hash + 1)
        /\ hash <= Len(chars) /\ ~none =>
             WordsFrom(chars, k) = {<<hash, stop - 1>>} \cup WordsFrom(chars, stop)
    BY WordsOfSteps
  <2>3. hash <= Len(chars) =>
          /\ hash \in k..Len(chars) /\ stop \in (hash + 1)..(Len(chars) + 1)
    BY HashAndStop
  <2> HIDE DEF hash, stop, none
  <2>4. CASE ~(hash <= Len(chars))
    <3>1. ToSet(<<>>) = {}
      BY DEF ToSet
    <3>2. WordFacets(chars, k) = {}
      BY <2>2, <2>4 DEF WordFacets
    <3>3. QED
      BY <2>1, <2>4, <3>1, <3>2
  <2>5. CASE hash <= Len(chars)
    <3>1. /\ hash + 1 \in (k + 1)..n /\ stop \in (k + 1)..n
          /\ hash \in 1..n /\ stop \in 1..n /\ (stop - 1) + 1 = stop
      BY <1>1, <2>3, <2>5
    <3>2. /\ ToSet(Scan(chars)[hash + 1]) = WordFacets(chars, hash + 1)
          /\ ToSet(Scan(chars)[stop]) = WordFacets(chars, stop)
      BY <1>2, <3>1
    <3>3. CASE none
      <4>1. WordFacets(chars, k) = WordFacets(chars, hash + 1)
        BY <2>2, <2>5, <3>3 DEF WordFacets
      <4>2. QED
        BY <2>1, <2>5, <3>2, <3>3, <4>1
    <3>4. CASE ~none
      <4> DEFINE facet == Facet(chars, hash, stop)
                 after == Scan(chars)[stop]
      <4>1. facet \in Facets /\ after \in Seq(Facets)
        BY <3>1, FacetType, ScanType
      <4>2. WordFacets(chars, k) = {facet} \cup WordFacets(chars, stop)
        <5> DEFINE word == <<hash, stop - 1>>
        <5>1. word[1] = hash /\ word[2] + 1 = stop
          BY <3>1
        <5>2. WordsFrom(chars, k) = {word} \cup WordsFrom(chars, stop)
          BY <2>2, <2>5, <3>4
        <5> HIDE DEF word
        <5>3. Facet(chars, word[1], word[2] + 1) = facet
          BY <5>1
        <5>4. QED
          BY <5>2, <5>3 DEF WordFacets
      <4> HIDE DEF facet, after
      <4>3. ToSet(<<facet>> \o after) = {facet} \cup ToSet(after)
        BY <4>1, ToSetOfConcat
      <4>4. Scan(chars)[k] = <<facet>> \o after
        BY <2>1, <2>5, <3>4 DEF facet, after
      <4>5. ToSet(after) = WordFacets(chars, stop)
        BY <3>2 DEF after
      <4>6. QED
        BY <4>2, <4>3, <4>4, <4>5
    <3>5. QED
      BY <3>3, <3>4
  <2>6. QED
    BY <2>4, <2>5
<1>3. \A k \in 1..n : k \in Found
  <2> HIDE DEF Found, n
  <2>1. QED
    BY <1>1, <1>2, DownwardReached
<1>4. QED
  BY <1>3

(* Between the end of a facet and the beginning of the next there is a space. *)
LEMMA ScanApart ==
  ASSUME NEW chars \in Seq(Characters)
  PROVE  \A from \in 1..(Len(chars) + 1) : FacetsApart(Scan(chars)[from])
<1> DEFINE n == Len(chars) + 1
           Apart == {k \in 1..n : FacetsApart(Scan(chars)[k])}
<1>1. Len(chars) \in Nat /\ n \in Nat
  BY LenProperties
<1>2. ASSUME NEW k \in 1..n, \A m \in (k + 1)..n : m \in Apart PROVE k \in Apart
  <2> DEFINE hash == NextOf(chars, "hash", k)
             stop == NextOf(chars, "space", hash + 1)
             none == InWord(chars, hash) \/ stop = hash + 1
  <2>1. /\ ~(hash <= Len(chars)) => Scan(chars)[k] = <<>>
        /\ hash <= Len(chars) /\ none => Scan(chars)[k] = Scan(chars)[hash + 1]
        /\ hash <= Len(chars) /\ ~none =>
             Scan(chars)[k] = <<Facet(chars, hash, stop)>> \o Scan(chars)[stop]
    BY ScanSteps
  <2>2. hash <= Len(chars) =>
          /\ hash \in k..Len(chars) /\ stop \in (hash + 1)..(Len(chars) + 1)
          /\ stop <= Len(chars) => chars[stop].kind = "space"
    BY HashAndStop
  <2> HIDE DEF hash, stop, none
  <2>3. CASE ~(hash <= Len(chars))
    <3>1. FacetsApart(<<>>)
      BY DEF FacetsApart
    <3>2. QED
      BY <2>1, <2>3, <3>1
  <2>4. CASE hash <= Len(chars)
    <3>1. /\ hash + 1 \in (k + 1)..n /\ stop \in (k + 1)..n
          /\ hash \in 1..n /\ stop \in 1..n
      BY <1>1, <2>2, <2>4
    <3>2. FacetsApart(Scan(chars)[hash + 1]) /\ FacetsApart(Scan(chars)[stop])
      BY <1>2, <3>1
    <3>3. CASE none
      BY <2>1, <2>4, <3>2, <3>3
    <3>4. CASE ~none
      <4> DEFINE facet == Facet(chars, hash, stop)
                 after == Scan(chars)[stop]
                 all == <<facet>> \o after
      <4>1. facet \in Facets /\ after \in Seq(Facets)
        BY <3>1, FacetType, ScanType
      <4>2. ToSet(after) = WordFacets(chars, stop)
        BY <3>1, ScanFindsWords
      <4>3. facet.byteEnd = Offset(chars, stop)
        BY DEF Facet
      <4>4. ASSUME NEW f \in ToSet(after) PROVE facet.byteEnd < f.byteStart
        <5>1. PICK w \in WordsFrom(chars, stop) : f = Facet(chars, w[1], w[2] + 1)
          BY <4>2, <4>4 DEF WordFacets
        <5>2. w[1] \in 1..Len(chars) /\ w[1] >= stop /\ chars[w[1]].kind = "hash"
          BY LenProperties DEF WordsFrom, Words
        <5>3. stop < w[1] /\ stop - 1 \in 0..Len(chars) /\ w[1] - 1 \in 0..Len(chars)
              /\ stop - 1 < w[1] - 1
          BY <1>1, <2>2, <2>4, <3>1, <5>2, SMTT(30)
        <5>4. Offset(chars, stop) < Offset(chars, w[1])
          BY <5>3, BytesGrow DEF Offset
        <5>5. QED
          BY <4>3, <5>1, <5>4 DEF Facet
      <4>5. Scan(chars)[k] = all
        BY <2>1, <2>4, <3>4
      <4>6. FacetsApart(after)
        BY <3>2
      <4> HIDE DEF facet, after
      <4>7. /\ <<facet>> \in Seq(Facets) /\ Len(<<facet>>) = 1 /\ <<facet>>[1] = facet
        BY <4>1
      <4>8. /\ Len(after) \in Nat /\ DOMAIN after = 1..Len(after)
            /\ Len(all) = 1 + Len(after)
            /\ \A i \in 1..(1 + Len(after)) : all[i] = IF i <= 1 THEN facet ELSE after[i - 1]
        BY <4>1, <4>7, ConcatProperties, LenProperties
      <4> HIDE DEF all
      <4>9. ASSUME NEW i \in 1..(Len(all) - 1) PROVE all[i].byteEnd < all[i + 1].byteStart
        <5>1. i \in 1..Len(after) /\ all[i + 1] = after[i]
          BY <4>8
        <5>2. CASE i = 1
          <6>1. all[i] = facet
            BY <4>8, <5>1, <5>2
          <6>2. after[i] \in ToSet(after)
            BY <4>8, <5>1 DEF ToSet
          <6>3. QED
            BY <4>4, <5>1, <6>1, <6>2
        <5>3. CASE i # 1
          <6>1. i - 1 \in 1..(Len(after) - 1) /\ (i - 1) + 1 = i /\ all[i] = after[i - 1]
            BY <4>8, <5>1, <5>3
          <6>2. after[i - 1].byteEnd < after[(i - 1) + 1].byteStart
            BY <4>6, <6>1 DEF FacetsApart
          <6>3. QED
            BY <5>1, <6>1, <6>2
        <5>4. QED
          BY <5>2, <5>3
      <4>10. FacetsApart(all)
        BY <4>9 DEF FacetsApart
      <4>11. QED
        BY <4>5, <4>10
    <3>5. QED
      BY <3>3, <3>4
  <2>5. QED
    BY <2>3, <2>4
<1>3. \A k \in 1..n : k \in Apart
  <2> HIDE DEF Apart, n
  <2>1. QED
    BY <1>1, <1>2, DownwardReached
<1>4. QED
  BY <1>3

--------------------------------------------------------------------------------
(* The words of the text before and after the cut *)

LEMMA MinOfTwo ==
  ASSUME NEW a \in Nat, NEW b \in Nat
  PROVE  Min({a, b}) = IF a <= b THEN a ELSE b
<1>1. {a, b} \subseteq Nat /\ {a, b} # {} /\ a \in {a, b} /\ b \in {a, b}
  OBVIOUS
<1>2. Min({a, b}) \in {a, b} /\ \A n \in {a, b} : Min({a, b}) <= n
  BY <1>1, MinIsLeast
<1>3. QED
  BY <1>2

LEMMA WordFacts ==
  ASSUME NEW chars \in Seq(Characters), NEW w
  PROVE  w \in Words(chars) <=>
           /\ w = <<w[1], w[2]>>
           /\ w[1] \in 1..Len(chars) /\ w[2] \in 1..Len(chars)
           /\ w[1] < w[2] /\ chars[w[1]].kind = "hash"
           /\ \A i \in w[1]..w[2] : chars[i].kind # "space"
           /\ w[1] = 1 \/ chars[w[1] - 1].kind = "space"
           /\ w[2] = Len(chars) \/ chars[w[2] + 1].kind = "space"
<1>1. DOMAIN chars = 1..Len(chars)
  BY LenProperties
<1>2. w \in (DOMAIN chars) \X (DOMAIN chars) <=>
        /\ w = <<w[1], w[2]>>
        /\ w[1] \in 1..Len(chars) /\ w[2] \in 1..Len(chars)
  BY <1>1
<1>3. QED
  BY <1>2 DEF Words

(* A word that the cut leaves in the text comes from one of the whole text ... *)
LEMMA WordBeforeCut ==
  ASSUME NEW chars \in Seq(Characters), NEW full \in Seq(Characters),
         Len(chars) <= Len(full), \A i \in 1..Len(chars) : full[i] = chars[i],
         NEW v \in Words(chars)
  PROVE  \E w \in Words(full) :
           w[1] = v[1] /\ w[1] < Len(chars) /\ Min({w[2], Len(chars)}) = v[2]
<1>1. Len(chars) \in Nat /\ Len(full) \in Nat
  BY LenProperties
<1>2. /\ v = <<v[1], v[2]>>
      /\ v[1] \in 1..Len(chars) /\ v[2] \in 1..Len(chars)
      /\ v[1] < v[2] /\ chars[v[1]].kind = "hash"
      /\ \A i \in v[1]..v[2] : chars[i].kind # "space"
      /\ v[1] = 1 \/ chars[v[1] - 1].kind = "space"
      /\ v[2] = Len(chars) \/ chars[v[2] + 1].kind = "space"
  BY WordFacts
<1>3. /\ v[1] \in 1..Len(full) /\ v[1] < Len(chars) /\ full[v[1]].kind = "hash"
      /\ \A i \in v[1]..v[2] : full[i].kind # "space"
      /\ v[1] = 1 \/ full[v[1] - 1].kind = "space"
  <2>1. v[1] \in 1..Len(full) /\ v[1] < Len(chars) /\ full[v[1]].kind = "hash"
    BY <1>1, <1>2
  <2>2. \A i \in v[1]..v[2] : i \in 1..Len(chars)
    BY <1>1, <1>2
  <2>3. v[1] # 1 => v[1] - 1 \in 1..Len(chars)
    BY <1>1, <1>2
  <2>4. QED
    BY <1>2, <2>1, <2>2, <2>3
<1>4. CASE v[2] < Len(chars)
  <2>1. v[2] + 1 \in 1..Len(chars) /\ v[2] \in 1..Len(full) /\ v[2] # Len(chars)
    BY <1>1, <1>2, <1>4
  <2>2. full[v[2] + 1].kind = "space"
    BY <1>2, <2>1
  <2>3. v \in Words(full)
    BY <1>2, <1>3, <2>1, <2>2, WordFacts
  <2>4. Min({v[2], Len(chars)}) = v[2]
    <3>1. v[2] \in Nat /\ v[2] <= Len(chars)
      BY <1>1, <1>2, <1>4
    <3>2. QED
      BY <1>1, <3>1, MinOfTwo
  <2>5. QED
    BY <1>3, <2>3, <2>4
<1>5. CASE v[2] = Len(chars)
  <2> DEFINE from == Len(chars) + 1
             stop == NextOf(full, "space", from)
             last == stop - 1
             w == <<v[1], last>>
  <2>1. from \in 1..(Len(full) + 2) /\ from # Len(full) + 2 /\ from > Len(chars)
    BY <1>1
  <2> HIDE DEF from
  <2>2. /\ stop \in 1..(Len(full) + 1) /\ stop >= from
        /\ stop <= Len(full) => full[stop].kind = "space"
        /\ \A i \in from..Len(full) : i < stop => full[i].kind # "space"
    BY <2>1, NextIsFirst
  <2>3. /\ last \in 1..Len(full) /\ v[1] < last /\ last >= Len(chars)
        /\ last # Len(full) => last + 1 = stop /\ stop <= Len(full)
    <3> HIDE DEF stop
    <3>1. QED
      BY <1>1, <1>2, <1>5, <2>1, <2>2
  <2>4. ASSUME NEW i \in v[1]..last PROVE full[i].kind # "space"
    <3>1. i \in v[1]..v[2] \/ (i \in from..Len(full) /\ i < stop)
      <4> HIDE DEF stop
      <4>1. QED
        BY <1>1, <1>2, <1>5, <2>2, <2>3 DEF from
    <3>2. QED
      BY <1>3, <2>2, <3>1
  <2>5. last = Len(full) \/ full[last + 1].kind = "space"
    BY <2>2, <2>3
  <2> HIDE DEF last
  <2>6. w = <<w[1], w[2]>> /\ w[1] = v[1] /\ w[2] = last
    OBVIOUS
  <2> HIDE DEF w
  <2>7. w \in Words(full)
    BY <1>3, <2>3, <2>4, <2>5, <2>6, WordFacts
  <2>8. Min({last, Len(chars)}) = v[2]
    <3>1. last \in Nat /\ (last <= Len(chars) => last = Len(chars))
      BY <1>1, <2>3
    <3>2. QED
      BY <1>1, <1>5, <3>1, MinOfTwo
  <2>9. QED
    BY <1>3, <2>6, <2>7, <2>8
<1>6. v[2] < Len(chars) \/ v[2] = Len(chars)
  BY <1>1, <1>2
<1>7. QED
  BY <1>4, <1>5, <1>6

(* ... and a word of the whole text that begins before the cut, but is more    *)
(* than its "#" there, is left as far as the text goes.                       *)
LEMMA WordAfterCut ==
  ASSUME NEW chars \in Seq(Characters), NEW full \in Seq(Characters),
         Len(chars) <= Len(full), \A i \in 1..Len(chars) : full[i] = chars[i],
         NEW w \in Words(full), w[1] < Len(chars)
  PROVE  <<w[1], Min({w[2], Len(chars)})>> \in Words(chars)
<1> DEFINE last == Min({w[2], Len(chars)})
           v == <<w[1], last>>
<1>1. Len(chars) \in Nat /\ Len(full) \in Nat
  BY LenProperties
<1>2. /\ w[1] \in 1..Len(full) /\ w[2] \in 1..Len(full)
      /\ w[1] < w[2] /\ full[w[1]].kind = "hash"
      /\ \A i \in w[1]..w[2] : full[i].kind # "space"
      /\ w[1] = 1 \/ full[w[1] - 1].kind = "space"
      /\ w[2] = Len(full) \/ full[w[2] + 1].kind = "space"
  BY WordFacts
<1>3. last = IF w[2] <= Len(chars) THEN w[2] ELSE Len(chars)
  BY <1>1, <1>2, MinOfTwo, SMTT(30)
<1> HIDE DEF last
<1>4. /\ w[1] \in 1..Len(chars) /\ last \in 1..Len(chars) /\ w[1] < last /\ last <= w[2]
      /\ last # Len(chars) => last = w[2] /\ last + 1 \in 1..Len(chars) /\ w[2] # Len(full)
  BY <1>1, <1>2, <1>3
<1>5. chars[w[1]].kind = "hash"
  BY <1>2, <1>4
<1>6. ASSUME NEW i \in w[1]..last PROVE chars[i].kind # "space"
  <2>1. i \in w[1]..w[2] /\ i \in 1..Len(chars)
    BY <1>1, <1>2, <1>4
  <2>2. QED
    BY <1>2, <2>1
<1>7. w[1] = 1 \/ chars[w[1] - 1].kind = "space"
  <2>1. w[1] # 1 => w[1] - 1 \in 1..Len(chars)
    BY <1>1, <1>4
  <2>2. QED
    BY <1>2, <2>1
<1>8. last = Len(chars) \/ chars[last + 1].kind = "space"
  BY <1>2, <1>4
<1>9. v = <<v[1], v[2]>> /\ v[1] = w[1] /\ v[2] = last
  OBVIOUS
<1> HIDE DEF v
<1>10. v \in Words(chars)
  BY <1>4, <1>5, <1>6, <1>7, <1>8, <1>9, WordFacts
<1>11. QED
  BY <1>10 DEF v, last

(* The facets of what the cut left are the hashtags of the whole text.       *)
LEMMA CutFacets ==
  ASSUME NEW chars \in Seq(Characters), NEW rest \in Seq(Characters)
  PROVE  FacetsAreWords(chars \o rest, chars)
<1> DEFINE full == chars \o rest
           At(a, b) == [byteStart |-> Bytes(full)[a - 1], byteEnd |-> Bytes(full)[b],
                        tag |-> SubSeq(full, a + 1, b)]
           kept == {w \in Words(full) : w[1] < Len(chars)}
<1>1. /\ Len(chars) \in Nat /\ Len(rest) \in Nat
      /\ full \in Seq(Characters) /\ Len(full) = Len(chars) + Len(rest)
      /\ \A i \in 1..(Len(chars) + Len(rest)) :
           full[i] = IF i <= Len(chars) THEN chars[i] ELSE rest[i - Len(chars)]
  BY LenProperties, ConcatProperties
<1>2. /\ Len(chars) <= Len(full)
      /\ \A i \in 1..Len(chars) : full[i] = chars[i]
  <2> HIDE DEF full
  <2>1. QED
    BY <1>1
<1>3. ASSUME NEW a \in 1..Len(chars), NEW b \in 1..Len(chars), a < b
      PROVE  Facet(chars, a, b + 1) = At(a, b)
  <2>1. /\ a - 1 \in 0..Len(chars) /\ b \in 0..Len(chars) /\ a + 1 \in 1..Len(chars)
        /\ (b + 1) - 1 = b
    BY <1>1, <1>3
  <2>2. SubSeq(full, a + 1, b) = SubSeq(chars, a + 1, b)
    BY <2>1, SubSeqOfConcat1
  <2>3. Bytes(chars)[a - 1] = Bytes(full)[a - 1] /\ Bytes(chars)[b] = Bytes(full)[b]
    <3> HIDE DEF full
    <3>1. QED
      BY <1>1, <1>2, <2>1, BytesOfPrefix
  <2>4. QED
    BY <2>1, <2>2, <2>3 DEF Facet, Offset
<1> HIDE DEF full, At
<1>4. WordFacets(chars, 1) = {At(w[1], Min({w[2], Len(chars)})) : w \in kept}
  <2>1. ASSUME NEW v \in WordsFrom(chars, 1)
        PROVE  \E w \in kept :
                 Facet(chars, v[1], v[2] + 1) = At(w[1], Min({w[2], Len(chars)}))
    <3>1. v \in Words(chars)
      BY DEF WordsFrom
    <3>2. v[1] \in 1..Len(chars) /\ v[2] \in 1..Len(chars) /\ v[1] < v[2]
      BY <3>1, WordFacts
    <3>3. PICK w \in Words(full) :
            w[1] = v[1] /\ w[1] < Len(chars) /\ Min({w[2], Len(chars)}) = v[2]
      BY <1>1, <1>2, <3>1, WordBeforeCut
    <3>4. QED
      BY <1>3, <3>2, <3>3
  <2>2. ASSUME NEW w \in kept
        PROVE  \E v \in WordsFrom(chars, 1) :
                 Facet(chars, v[1], v[2] + 1) = At(w[1], Min({w[2], Len(chars)}))
    <3> DEFINE last == Min({w[2], Len(chars)})
               v == <<w[1], last>>
    <3>1. v \in Words(chars)
      BY <1>1, <1>2, WordAfterCut
    <3>2. v[1] = w[1] /\ v[2] = last
      OBVIOUS
    <3> HIDE DEF last, v
    <3>3. v[1] \in 1..Len(chars) /\ v[2] \in 1..Len(chars) /\ v[1] < v[2]
      BY <3>1, WordFacts
    <3>4. v \in WordsFrom(chars, 1)
      BY <3>1, <3>3 DEF WordsFrom
    <3>5. Facet(chars, v[1], v[2] + 1) = At(w[1], last)
      BY <1>3, <3>2, <3>3
    <3>6. QED
      BY <3>4, <3>5 DEF last
  <2>3. QED
    BY <2>1, <2>2 DEF WordFacets
<1>5. ToSet(HashtagFacets(chars)) = WordFacets(chars, 1)
  <2>1. 1 \in 1..(Len(chars) + 1)
    BY <1>1
  <2>2. QED
    BY <2>1, ScanFindsWords DEF HashtagFacets
<1>6. QED
  BY <1>4, <1>5 DEF FacetsAreWords, At, full

--------------------------------------------------------------------------------
(* The hashtags of the event *)

LEMMA TextFacts ==
  /\ <<>> \in Texts /\ <<Blank>> \in Texts /\ <<HashSign>> \in Texts
  /\ Blank \in Seq(Characters) /\ HashSign \in Seq(Characters)
  /\ Blank[1].kind = "space" /\ HashSign[1].kind = "hash" /\ Len(Blank) = 1 /\ Len(HashSign) = 1
  /\ FlattenSeq(<<>>) = <<>> /\ FlattenSeq(<<Blank>>) = Blank
  /\ FlattenSeq(<<HashSign>>) = HashSign
  /\ \A a \in Texts : a \o <<>> = a /\ <<>> \o a = a /\ FlattenSeq(a) \in Seq(Characters)
  /\ \A a, b \in Texts : a \o b \in Texts /\ FlattenSeq(a \o b) = FlattenSeq(a) \o FlattenSeq(b)
  /\ \A a, b, c \in Texts : (a \o b) \o c = a \o (b \o c)
<1>1. Char("space", 1) \in Characters /\ Char("hash", 1) \in Characters
  BY DEF Char, Characters
<1>2. /\ Blank \in Seq(Characters) /\ HashSign \in Seq(Characters)
      /\ Len(Blank) = 1 /\ Len(HashSign) = 1
      /\ Blank[1] = Char("space", 1) /\ HashSign[1] = Char("hash", 1)
  BY <1>1 DEF Blank, HashSign
<1>3. Blank[1].kind = "space" /\ HashSign[1].kind = "hash"
  BY <1>2 DEF Char
<1>4. <<>> \in Texts /\ <<Blank>> \in Texts /\ <<HashSign>> \in Texts
  BY <1>2, EmptySeq DEF Texts
<1>5. FlattenSeq(<<>>) = <<>> /\ FlattenSeq(<<Blank>>) = Blank
      /\ FlattenSeq(<<HashSign>>) = HashSign
  BY <1>2, FlattenEmpty, FlattenOne
<1>6. ASSUME NEW a \in Texts
      PROVE  a \o <<>> = a /\ <<>> \o a = a /\ FlattenSeq(a) \in Seq(Characters)
  BY ConcatEmptySeq, FlattenType DEF Texts
<1>7. ASSUME NEW a \in Texts, NEW b \in Texts
      PROVE  a \o b \in Texts /\ FlattenSeq(a \o b) = FlattenSeq(a) \o FlattenSeq(b)
  BY ConcatProperties, FlattenConcat DEF Texts
<1>8. ASSUME NEW a \in Texts, NEW b \in Texts, NEW c \in Texts
      PROVE  (a \o b) \o c = a \o (b \o c)
  BY ConcatAssociative, SMTT(30) DEF Texts
<1>9. QED
  BY <1>2, <1>3, <1>4, <1>5, <1>6, <1>7, <1>8

LEMMA TextConcat ==
  ASSUME NEW a \in Texts, NEW b \in Texts, NEW c \in Texts
  PROVE  (a \o b) \o c = a \o (b \o c)
BY ConcatAssociative, SMTT(30) DEF Texts

(* c is a, followed by b. *)
IsConcat(c, a, b) ==
  /\ Len(a) \in Nat /\ Len(b) \in Nat /\ Len(c) = Len(a) + Len(b)
  /\ \A i \in 1..Len(a) : c[i] = a[i]
  /\ \A i \in 1..Len(b) : c[Len(a) + i] = b[i]

LEMMA ConcatFacts ==
  ASSUME NEW S, NEW a \in Seq(S), NEW b \in Seq(S)
  PROVE  a \o b \in Seq(S) /\ IsConcat(a \o b, a, b)
<1> DEFINE c == a \o b
<1>1. Len(a) \in Nat /\ Len(b) \in Nat
  BY LenProperties
<1>2. /\ c \in Seq(S) /\ Len(c) = Len(a) + Len(b)
      /\ \A i \in 1..(Len(a) + Len(b)) : c[i] = IF i <= Len(a) THEN a[i] ELSE b[i - Len(a)]
  BY ConcatProperties
<1> HIDE DEF c
<1>3. ASSUME NEW i \in 1..Len(b) PROVE c[Len(a) + i] = b[i]
  <2> DEFINE j == Len(a) + i
  <2>1. j \in 1..(Len(a) + Len(b)) /\ ~(j <= Len(a)) /\ j - Len(a) = i
    BY <1>1
  <2> HIDE DEF j
  <2>2. c[j] = b[i]
    BY <1>2, <2>1
  <2>3. QED
    BY <2>2 DEF j
<1>4. ASSUME NEW i \in 1..Len(a) PROVE c[i] = a[i]
  <2>1. i \in 1..(Len(a) + Len(b)) /\ i <= Len(a)
    BY <1>1
  <2>2. QED
    BY <1>2, <2>1
<1>5. c \in Seq(S) /\ IsConcat(c, a, b)
  BY <1>1, <1>2, <1>3, <1>4 DEF IsConcat
<1>6. QED
  BY <1>5 DEF c

LEMMA CharsConcat ==
  \A a, b \in Seq(Characters) : a \o b \in Seq(Characters) /\ IsConcat(a \o b, a, b)
BY ConcatFacts

LEMMA TextLength ==
  \A a, b \in Texts : Len(a) \in Nat /\ Len(b) \in Nat /\ Len(a \o b) = Len(a) + Len(b)
BY ConcatFacts DEF Texts, IsConcat

(* A text that ends, or begins, with a blank, or is empty.                   *)
EndsBlank(text) == text = <<>> \/ \E t \in Texts : text = t \o <<Blank>>
BeginsBlank(text) == text = <<>> \/ \E t \in Texts : text = <<Blank>> \o t

Tagged(tags) ==
  [i \in DOMAIN tags |-> (IF i > 1 THEN <<Blank>> ELSE <<>>) \o <<HashSign>> \o tags[i]]

LEMMA TaggedType ==
  ASSUME NEW tags \in Seq(Texts)
  PROVE  /\ Tagged(tags) \in Seq(Texts) /\ Len(Tagged(tags)) = Len(tags)
         /\ \A i \in 1..Len(tags) :
              /\ tags[i] \in Texts
              /\ Tagged(tags)[i] =
                   ((IF i > 1 THEN <<Blank>> ELSE <<>>) \o <<HashSign>>) \o tags[i]
<1> DEFINE n == Len(tags)
           lead(i) == IF i > 1 THEN <<Blank>> ELSE <<>>
<1>1. n \in Nat /\ DOMAIN tags = 1..n /\ \A i \in 1..n : tags[i] \in Texts
  BY LenProperties, ElementOfSeq
<1>2. \A i \in 1..n : Tagged(tags)[i] = (lead(i) \o <<HashSign>>) \o tags[i]
  BY <1>1 DEF Tagged
<1>3. ASSUME NEW i \in 1..n PROVE Tagged(tags)[i] \in Texts
  <2>1. lead(i) \in Texts /\ <<HashSign>> \in Texts
    BY TextFacts
  <2>2. lead(i) \o <<HashSign>> \in Texts
    <3> HIDE DEF lead
    <3>1. QED
      BY <2>1, TextFacts
  <2> DEFINE l == lead(i) \o <<HashSign>>
             tag == tags[i]
  <2>3. Tagged(tags)[i] = l \o tag /\ tag \in Texts
    BY <1>1, <1>2
  <2> HIDE DEF l, tag
  <2>4. l \o tag \in Texts
    BY <2>2, <2>3, TextFacts DEF l
  <2>5. QED
    BY <2>3, <2>4
<1>4. /\ DOMAIN Tagged(tags) = 1..n
      /\ Tagged(tags) = [i \in 1..n |-> Tagged(tags)[i]]
  <2>1. DOMAIN Tagged(tags) = 1..n
    BY <1>1 DEF Tagged
  <2>2. Tagged(tags) = [i \in DOMAIN Tagged(tags) |-> Tagged(tags)[i]]
    BY DEF Tagged
  <2>3. QED
    BY <2>1, <2>2
<1>5. Tagged(tags) \in Seq(Texts) /\ Len(Tagged(tags)) = n
  <2> DEFINE s == Tagged(tags)
  <2> HIDE DEF s
  <2>1. s \in [1..n -> Texts]
    BY <1>3, <1>4 DEF s
  <2>2. s \in Seq(Texts)
    BY <1>1, <2>1, SeqDef
  <2>3. Len(s) = n
    BY <1>1, <2>1, <2>2, LenProperties
  <2>4. QED
    BY <2>2, <2>3 DEF s
<1>6. QED
  BY <1>1, <1>2, <1>5

(* The hashtags up to one of them are the beginning of all, and there is a    *)
(* blank, or nothing, before and after it.                                    *)
LEMMA HashtagsUpTo ==
  ASSUME NEW tags \in Seq(Texts), NEW i \in 1..Len(tags)
  PROVE  \E pre, post \in Texts :
           /\ Hashtags(SubSeq(tags, 1, i)) = (pre \o <<HashSign>>) \o tags[i]
           /\ Hashtags(tags) = ((pre \o <<HashSign>>) \o tags[i]) \o post
           /\ EndsBlank(pre) /\ BeginsBlank(post)
<1> DEFINE n == Len(tags)
           all == Tagged(tags)
           before == SubSeq(all, 1, i - 1)
           after == SubSeq(all, i + 1, n)
           lead == IF i > 1 THEN <<Blank>> ELSE <<>>
           pre == FlattenSeq(before) \o lead
           post == FlattenSeq(after)
           upTo == (pre \o <<HashSign>>) \o tags[i]
<1>1. /\ n \in Nat /\ all \in Seq(Texts) /\ Len(all) = n
      /\ \A j \in 1..n :
           /\ tags[j] \in Texts
           /\ all[j] = ((IF j > 1 THEN <<Blank>> ELSE <<>>) \o <<HashSign>>) \o tags[j]
  BY TaggedType, LenProperties
<1>2. Tagged(SubSeq(tags, 1, i)) = SubSeq(all, 1, i)
  <2> DEFINE t == SubSeq(tags, 1, i)
             u == SubSeq(all, 1, i)
  <2>1. /\ 1 \in Int /\ i \in Int /\ 1 <= i /\ i - 1 + 1 = i
        /\ \A j \in 1..i : j \in 1..n /\ 1 + j - 1 = j
    BY <1>1
  <2>2. /\ t \in Seq(Texts) /\ Len(t) = i /\ \A j \in 1..i : t[j] = tags[j]
    <3>1. \A j \in 1..i : tags[j] \in Texts
      BY <1>1, <2>1
    <3>2. QED
      BY <2>1, <3>1, SubSeqProperties
  <2>3. /\ u \in Seq(Texts) /\ Len(u) = i /\ \A j \in 1..i : u[j] = all[j]
    <3>1. \A j \in 1..i : all[j] \in Texts
      BY <1>1, <2>1, ElementOfSeq
    <3> HIDE DEF all
    <3>2. QED
      BY <2>1, <3>1, SubSeqProperties
  <2> HIDE DEF t, u, all
  <2>4. /\ Tagged(t) \in Seq(Texts) /\ Len(Tagged(t)) = i
        /\ \A j \in 1..i :
             Tagged(t)[j] = ((IF j > 1 THEN <<Blank>> ELSE <<>>) \o <<HashSign>>) \o t[j]
    BY <2>2, TaggedType
  <2>5. \A j \in 1..i : Tagged(t)[j] = u[j]
    BY <1>1, <2>1, <2>2, <2>3, <2>4
  <2>6. Tagged(t) = u
    BY <2>3, <2>4, <2>5, SeqEqual
  <2>7. QED
    BY <2>6 DEF t, u
<1> HIDE DEF all
<1>3. /\ Hashtags(tags) = FlattenSeq(all)
      /\ Hashtags(SubSeq(tags, 1, i)) = FlattenSeq(SubSeq(all, 1, i))
  BY <1>2 DEF Hashtags, Tagged, all
<1>4. /\ before \in Seq(Texts) /\ after \in Seq(Texts) /\ <<all[i]>> \in Seq(Texts)
      /\ SubSeq(all, 1, i) = before \o <<all[i]>>
      /\ SubSeq(all, 1, i) \in Seq(Texts)
      /\ all = SubSeq(all, 1, i) \o after
  <2>1. /\ 1 \in Int /\ i - 1 \in Int /\ i + 1 \in Int /\ n \in Int /\ i \in Int
        /\ \A j \in 1..(i - 1) : j \in 1..n
        /\ \A j \in (i + 1)..n : j \in 1..n
        /\ 1 \in 1..Len(all) /\ i \in 1..Len(all)
        /\ 1 \in 1..(Len(all) + 1) /\ i \in (1 - 1)..Len(all) /\ n \in i..Len(all)
    BY <1>1
  <2>2. \A j \in 1..n : all[j] \in Texts
    BY <1>1, ElementOfSeq
  <2>3. before \in Seq(Texts) /\ after \in Seq(Texts) /\ <<all[i]>> \in Seq(Texts)
    BY <2>1, <2>2, SubSeqProperties
  <2>4. SubSeq(all, 1, i) = before \o <<all[i]>>
    BY <1>1, <2>1, SubSeqRecursiveSecond
  <2>5. SubSeq(all, 1, i) \in Seq(Texts)
    BY <2>3, <2>4, ConcatProperties
  <2>6. all = SubSeq(all, 1, i) \o after
    BY <1>1, <2>1, ConcatAdjacentSubSeq, SubSeqFull
  <2>7. QED
    BY <2>3, <2>4, <2>5, <2>6
<1>5. lead \in Texts /\ FlattenSeq(before) \in Texts /\ post \in Texts /\ tags[i] \in Texts
  <2>1. lead \in Texts
    BY TextFacts
  <2>2. FlattenSeq(before) \in Texts /\ post \in Texts
    <3> HIDE DEF before, after
    <3>1. QED
      BY <1>4, FlattenType DEF Texts
  <2>3. QED
    BY <1>1, <2>1, <2>2
<1>6. /\ FlattenSeq(SubSeq(all, 1, i)) = FlattenSeq(before) \o all[i]
      /\ FlattenSeq(all) = FlattenSeq(SubSeq(all, 1, i)) \o post
  <2>1. all[i] \in Texts
    BY <1>1, ElementOfSeq
  <2> HIDE DEF before, after
  <2>2. FlattenSeq(before \o <<all[i]>>) = FlattenSeq(before) \o FlattenSeq(<<all[i]>>)
    BY <1>4, FlattenConcat DEF Texts
  <2>3. FlattenSeq(<<all[i]>>) = all[i]
    BY <2>1, FlattenOne DEF Texts
  <2>4. FlattenSeq(SubSeq(all, 1, i) \o after) = FlattenSeq(SubSeq(all, 1, i)) \o post
    BY <1>4, FlattenConcat DEF Texts
  <2>5. QED
    BY <1>4, <2>2, <2>3, <2>4
<1>7. pre \in Texts /\ FlattenSeq(before) \o all[i] = upTo
  <2> DEFINE b == FlattenSeq(before)
             tag == tags[i]
  <2>1. all[i] = (lead \o <<HashSign>>) \o tag
    BY <1>1
  <2> HIDE DEF lead, before, tag, b
  <2>2. b \in Texts /\ tag \in Texts /\ lead \in Texts /\ <<HashSign>> \in Texts
    BY <1>5, TextFacts DEF b, tag
  <2>3. b \o lead \in Texts /\ lead \o <<HashSign>> \in Texts
    BY <2>2, TextFacts
  <2>4. b \o ((lead \o <<HashSign>>) \o tag) = (b \o (lead \o <<HashSign>>)) \o tag
    <3> DEFINE l == lead \o <<HashSign>>
    <3>1. l \in Texts
      BY <2>3
    <3> HIDE DEF l
    <3>2. b \o (l \o tag) = (b \o l) \o tag
      BY <2>2, <3>1, TextConcat, ZenonT(30)
    <3>3. QED
      BY <3>2 DEF l
  <2>5. b \o (lead \o <<HashSign>>) = (b \o lead) \o <<HashSign>>
    BY <2>2, TextFacts
  <2>6. QED
    BY <2>1, <2>3, <2>4, <2>5 DEF b, tag
<1>8. EndsBlank(pre)
  <2>1. CASE i > 1
    BY <1>5, <2>1 DEF EndsBlank
  <2>2. CASE ~(i > 1)
    <3>1. before = <<>>
      <4>1. i = 1 /\ i - 1 < 1 /\ i - 1 \in Int /\ 1 \in Int
        BY <1>1, <2>2
      <4>2. QED
        BY <4>1, SubSeqEmpty
    <3>2. pre = <<>> \o <<>>
      BY <2>2, <3>1, FlattenEmpty
    <3>3. QED
      BY <3>2, TextFacts DEF EndsBlank
  <2>3. QED
    BY <2>1, <2>2
<1>9. BeginsBlank(post)
  <2>1. CASE i = n
    <3>1. after = <<>>
      <4>1. n < i + 1 /\ i + 1 \in Int /\ n \in Int
        BY <1>1, <2>1
      <4>2. QED
        BY <4>1, SubSeqEmpty
    <3>2. QED
      BY <3>1, FlattenEmpty DEF BeginsBlank
  <2>2. CASE i # n
    <3> DEFINE next == i + 1
               others == SubSeq(all, next + 1, n)
               tag == tags[next]
    <3>1. /\ next \in 1..Len(all) /\ n \in next..Len(all) /\ next > 1 /\ next + 1 \in Int
          /\ n \in Int /\ \A j \in (next + 1)..n : j \in 1..Len(all)
      BY <1>1, <2>2
    <3> HIDE DEF next
    <3>2. SubSeq(all, next, n) = <<all[next]>> \o others
      BY <1>1, <3>1, SubSeqRecursiveFirst
    <3>3. others \in Seq(Texts) /\ all[next] \in Texts /\ <<all[next]>> \in Seq(Texts)
      <4>1. \A j \in 1..Len(all) : all[j] \in Texts
        BY <1>1, ElementOfSeq
      <4>2. QED
        BY <3>1, <4>1, SubSeqProperties
    <3> HIDE DEF others
    <3>4. FlattenSeq(<<all[next]>> \o others) = all[next] \o FlattenSeq(others)
      <4>1. FlattenSeq(<<all[next]>> \o others) = FlattenSeq(<<all[next]>>) \o FlattenSeq(others)
        BY <3>3, FlattenConcat DEF Texts
      <4>2. QED
        BY <3>3, <4>1, FlattenOne DEF Texts
    <3>5. all[next] = (<<Blank>> \o <<HashSign>>) \o tag /\ tag \in Texts
      BY <1>1, <3>1
    <3>6. FlattenSeq(others) \in Texts
      BY <3>3, FlattenType DEF Texts
    <3> HIDE DEF tag
    <3>7. all[next] = <<Blank>> \o (<<HashSign>> \o tag) /\ <<HashSign>> \o tag \in Texts
      BY <3>5, TextFacts, ZenonT(30)
    <3>8. all[next] \o FlattenSeq(others) =
            <<Blank>> \o ((<<HashSign>> \o tag) \o FlattenSeq(others))
      <4> DEFINE x == <<Blank>>
                 y == <<HashSign>> \o tag
                 z == FlattenSeq(others)
      <4>1. x \in Texts /\ y \in Texts /\ z \in Texts /\ all[next] = x \o y
        BY <3>6, <3>7, TextFacts
      <4> HIDE DEF x, y, z
      <4>2. (x \o y) \o z = x \o (y \o z)
        BY <4>1, TextConcat
      <4>3. QED
        BY <4>1, <4>2 DEF x, y, z
    <3>9. (<<HashSign>> \o tag) \o FlattenSeq(others) \in Texts
      BY <3>6, <3>7, TextFacts
    <3>10. post = <<Blank>> \o ((<<HashSign>> \o tag) \o FlattenSeq(others))
      BY <3>2, <3>4, <3>8 DEF next
    <3>11. QED
      BY <3>9, <3>10 DEF BeginsBlank
  <2>3. QED
    BY <2>1, <2>2
<1>10. Hashtags(SubSeq(tags, 1, i)) = upTo /\ Hashtags(tags) = upTo \o post
  BY <1>3, <1>6, <1>7
<1> HIDE DEF pre, post
<1>11. QED
  BY <1>5, <1>7, <1>8, <1>9, <1>10

(* The same of the full text.                                                *)
LEMMA TextUpTo ==
  ASSUME NEW e \in VideoTexts, NEW i \in 1..Len(e.tags)
  PROVE  \E pre, post \in Texts :
           /\ FullText([e EXCEPT !.tags = SubSeq(e.tags, 1, i)]) =
                (pre \o <<HashSign>>) \o e.tags[i]
           /\ FullText(e) = ((pre \o <<HashSign>>) \o e.tags[i]) \o post
           /\ EndsBlank(pre) /\ BeginsBlank(post)
<1> DEFINE cut == [e EXCEPT !.tags = SubSeq(e.tags, 1, i)]
           tag == e.tags[i]
           t == Paragraphs(e.title, Description(e))
           lead == IF t = <<>> THEN <<>> ELSE t \o <<Blank, Blank>>
<1>1. /\ e.title \in Texts /\ e.summary \in Texts /\ e.content \in Texts
      /\ e.tags \in Seq(Texts) /\ e.tags[i] \in Texts
  BY ElementOfSeq DEF VideoTexts
<1>2. /\ cut.title = e.title /\ Description(cut) = Description(e)
      /\ cut.tags = SubSeq(e.tags, 1, i)
  BY DEF VideoTexts, Description
<1>3. FullText(cut) = Paragraphs(t, Hashtags(SubSeq(e.tags, 1, i)))
      /\ FullText(e) = Paragraphs(t, Hashtags(e.tags))
  BY <1>2 DEF FullText
<1>4. <<Blank, Blank>> = <<Blank>> \o <<Blank>>
  OBVIOUS
<1>5. t \in Texts
  <2>1. Description(e) \in Texts
    BY <1>1 DEF Description
  <2>2. <<Blank, Blank>> \in Texts
    BY <1>4, TextFacts, ZenonT(30)
  <2>3. e.title \o <<Blank, Blank>> \in Texts
    BY <1>1, <2>2, TextFacts
  <2>4. (e.title \o <<Blank, Blank>>) \o Description(e) \in Texts /\ e.title \o Description(e) \in Texts
    BY <1>1, <2>1, <2>3, TextFacts
  <2>5. QED
    BY <2>4 DEF Paragraphs
<1> HIDE DEF t
<1>6. lead \in Texts /\ EndsBlank(lead)
  <2>1. CASE t = <<>>
    BY <2>1, TextFacts DEF EndsBlank
  <2>2. CASE t # <<>>
    <3>1. t \o (<<Blank>> \o <<Blank>>) = (t \o <<Blank>>) \o <<Blank>>
      BY <1>5, TextFacts
    <3>2. t \o <<Blank>> \in Texts
      BY <1>5, TextFacts
    <3>3. lead = (t \o <<Blank>>) \o <<Blank>>
      BY <1>4, <2>2, <3>1
    <3> HIDE DEF lead
    <3>4. lead \in Texts
      BY <3>2, <3>3, TextFacts
    <3>5. QED
      BY <3>2, <3>3, <3>4 DEF EndsBlank
  <2>3. QED
    BY <2>1, <2>2
<1>7. ASSUME NEW h \in Texts, h # <<>> PROVE Paragraphs(t, h) = lead \o h
  <2>1. CASE t = <<>>
    BY <1>7, <2>1, TextFacts DEF Paragraphs
  <2>2. CASE t # <<>>
    BY <1>7, <2>2 DEF Paragraphs
  <2>3. QED
    BY <2>1, <2>2
<1>8. PICK pre \in Texts, post \in Texts :
        /\ Hashtags(SubSeq(e.tags, 1, i)) = (pre \o <<HashSign>>) \o tag
        /\ Hashtags(e.tags) = ((pre \o <<HashSign>>) \o tag) \o post
        /\ EndsBlank(pre) /\ BeginsBlank(post)
  BY <1>1, HashtagsUpTo
<1> DEFINE sign == <<HashSign>>
           h == (pre \o sign) \o tag
<1>9. sign \in Texts /\ tag \in Texts /\ Len(sign) = 1
  BY <1>1, TextFacts
<1> HIDE DEF lead, sign, tag, cut
<1>10. /\ pre \o sign \in Texts /\ h \in Texts /\ h \o post \in Texts
       /\ h # <<>> /\ h \o post # <<>>
  <2>1. pre \o sign \in Texts
    BY <1>9, TextFacts
  <2>2. h \in Texts
    BY <1>9, <2>1, TextFacts
  <2>3. Len(pre \o sign) = Len(pre) + 1 /\ Len(pre) \in Nat
    BY <1>9, TextLength
  <2>4. Len(h) = Len(pre \o sign) + Len(tag) /\ Len(tag) \in Nat
    <3> DEFINE x == pre \o sign
    <3>1. x \in Texts
      BY <2>1
    <3> HIDE DEF x
    <3>2. Len(x \o tag) = Len(x) + Len(tag) /\ Len(tag) \in Nat
      BY <1>9, <3>1, ConcatProperties, LenProperties DEF Texts
    <3>3. QED
      BY <3>2 DEF x
  <2> HIDE DEF h
  <2>5. h \o post \in Texts
    BY <2>2, TextFacts
  <2>6. Len(h \o post) = Len(h) + Len(post) /\ Len(post) \in Nat
    BY <2>2, ConcatProperties, LenProperties DEF Texts
  <2>7. Len(h) # 0 /\ Len(h \o post) # 0
    BY <2>3, <2>4, <2>6
  <2>8. Len(<<>>) = 0
    OBVIOUS
  <2>9. QED
    BY <2>1, <2>2, <2>5, <2>7, <2>8
<1>11. FullText(cut) = lead \o h /\ FullText(e) = lead \o (h \o post)
  <2>1. Hashtags(SubSeq(e.tags, 1, i)) = h /\ Hashtags(e.tags) = h \o post
    BY <1>8 DEF sign
  <2>2. FullText(cut) = Paragraphs(t, h) /\ FullText(e) = Paragraphs(t, h \o post)
    BY <1>3, <2>1 DEF cut
  <2> HIDE DEF h
  <2>3. QED
    BY <1>7, <1>10, <2>2
<1>12. lead \o h = ((lead \o pre) \o sign) \o tag
  <2>1. lead \o ((pre \o sign) \o tag) = (lead \o (pre \o sign)) \o tag
    <3> DEFINE x == pre \o sign
    <3>1. x \in Texts
      BY <1>10
    <3> HIDE DEF x
    <3>2. lead \o (x \o tag) = (lead \o x) \o tag
      BY <1>6, <1>9, <3>1, TextConcat, ZenonT(30)
    <3>3. QED
      BY <3>2 DEF x
  <2>2. lead \o (pre \o sign) = (lead \o pre) \o sign
    BY <1>6, <1>9, TextConcat, ZenonT(30)
  <2>3. QED
    BY <2>1, <2>2
<1>13. lead \o (h \o post) = (lead \o h) \o post
  <2> HIDE DEF h
  <2>1. QED
    BY <1>6, <1>10, TextConcat, ZenonT(30)
<1>14. lead \o pre \in Texts /\ EndsBlank(lead \o pre)
  <2>1. lead \o pre \in Texts
    BY <1>6, TextFacts
  <2>2. CASE pre = <<>>
    BY <1>6, <2>1, <2>2, TextFacts
  <2>3. CASE pre # <<>>
    <3>1. PICK p \in Texts : pre = p \o <<Blank>>
      BY <1>8, <2>3 DEF EndsBlank
    <3>2. lead \o pre = (lead \o p) \o <<Blank>> /\ lead \o p \in Texts
      BY <1>6, <3>1, TextFacts, ZenonT(30)
    <3>3. QED
      BY <2>1, <3>2 DEF EndsBlank
  <2>4. QED
    BY <2>2, <2>3
<1>15. /\ FullText(cut) = ((lead \o pre) \o <<HashSign>>) \o e.tags[i]
       /\ FullText(e) = (((lead \o pre) \o <<HashSign>>) \o e.tags[i]) \o post
  BY <1>11, <1>12, <1>13 DEF sign, tag
<1>16. QED
  BY <1>8, <1>14, <1>15 DEF cut

(* The cut keeps what is within the limit, and a blank, or nothing, follows.  *)
LEMMA TruncateKeeps ==
  ASSUME NEW whole \in Texts, NEW post \in Texts, BeginsBlank(post),
         whole # <<>>, Graphemes \in Nat, Len(whole) <= Graphemes
  PROVE  \E kept \in Texts : Truncate(whole \o post) = whole \o kept /\ BeginsBlank(kept)
<1> DEFINE all == whole \o post
           a == Len(whole)
           k == Min({Len(all), Graphemes})
           d == k - a
           kept == SubSeq(post, 1, d)
<1>1. a \in Nat \ {0} /\ Len(post) \in Nat /\ \A j \in 1..Len(post) : post[j] \in Seq(Characters)
  BY EmptySeq, LenProperties, ElementOfSeq DEF Texts
<1>2. all \in Seq(Seq(Characters)) /\ Len(all) = a + Len(post)
  BY ConcatProperties DEF Texts
<1> HIDE DEF all, a
<1>3. k = IF Len(all) <= Graphemes THEN Len(all) ELSE Graphemes
  BY <1>1, <1>2, MinOfTwo
<1> HIDE DEF k
<1>4. k \in a..Len(all) /\ d \in 0..Len(post)
  BY <1>1, <1>2, <1>3 DEF a
<1> HIDE DEF d
<1>5. kept \in Texts
  <2>1. 1 \in Int /\ d \in Int /\ \A j \in 1..d : j \in 1..Len(post)
    BY <1>1, <1>4
  <2>2. QED
    BY <1>1, <2>1, SubSeqProperties DEF Texts
<1>6. SubSeq(all, 1, k) = SubSeq(all, 1, a) \o SubSeq(all, a + 1, k)
  <2>1. 1 \in 1..(Len(all) + 1) /\ a \in (1 - 1)..Len(all) /\ k \in a..Len(all)
    BY <1>1, <1>2, <1>4
  <2>2. QED
    BY <1>2, <2>1, ConcatAdjacentSubSeq
<1>7. SubSeq(all, 1, a) = whole
  <2>1. 1 \in 1..Len(whole) /\ Len(whole) \in 1..Len(whole)
    BY <1>1 DEF a
  <2>2. SubSeq(whole \o post, 1, Len(whole)) = SubSeq(whole, 1, Len(whole))
    BY <2>1, SubSeqOfConcat1 DEF Texts
  <2>3. QED
    BY <2>2, SubSeqFull DEF Texts, all, a
<1>8. SubSeq(all, a + 1, k) = kept
  <2>1. CASE d = 0
    <3>1. k < a + 1 /\ d < 1 /\ a + 1 \in Int /\ k \in Int /\ d \in Int /\ 1 \in Int
      BY <1>1, <1>2, <1>4, <2>1 DEF d
    <3>2. SubSeq(all, a + 1, k) = <<>> /\ SubSeq(post, 1, d) = <<>>
      BY <3>1, SubSeqEmpty
    <3>3. QED
      BY <3>2
  <2>2. CASE d # 0
    <3> DEFINE m == a + 1
    <3>1. /\ m \in (Len(whole) + 1)..(Len(whole) + Len(post))
          /\ k \in (Len(whole) + 1)..(Len(whole) + Len(post))
          /\ m - Len(whole) = 1 /\ k - Len(whole) = d
      BY <1>1, <1>2, <1>4, <2>2 DEF a, d
    <3> HIDE DEF m
    <3>2. SubSeq(whole \o post, m, k) = SubSeq(post, m - Len(whole), k - Len(whole))
      BY <3>1, SubSeqOfConcat2 DEF Texts
    <3>3. QED
      BY <3>1, <3>2 DEF all, m
  <2>3. QED
    BY <2>1, <2>2
<1>9. BeginsBlank(kept)
  <2>1. CASE d = 0
    <3>1. d < 1 /\ d \in Int /\ 1 \in Int
      BY <2>1
    <3>2. QED
      BY <3>1, SubSeqEmpty DEF BeginsBlank
  <2>2. CASE d # 0
    <3>1. 1 \in 1..Len(post) /\ d \in 1..Len(post) /\ Len(post) # 0
      BY <1>1, <1>4, <2>2
    <3>2. post # <<>>
      BY <3>1
    <3>3. PICK p \in Texts : post = <<Blank>> \o p
      BY <3>2 DEF BeginsBlank
    <3>4. post[1] = Blank
      <4>1. <<Blank>> \in Seq(Seq(Characters)) /\ Len(<<Blank>>) = 1 /\ <<Blank>>[1] = Blank
        BY TextFacts
      <4>2. p \in Seq(Seq(Characters)) /\ Len(p) \in Nat
        BY LenProperties DEF Texts
      <4>3. 1 \in 1..(Len(<<Blank>>) + Len(p)) /\ 1 <= Len(<<Blank>>)
        BY <4>1, <4>2
      <4>4. (<<Blank>> \o p)[1] = <<Blank>>[1]
        BY <4>1, <4>2, <4>3, ConcatProperties
      <4>5. QED
        BY <3>3, <4>1, <4>4
    <3>5. SubSeq(post, 1, d) = <<post[1]>> \o SubSeq(post, 1 + 1, d)
      BY <3>1, SubSeqRecursiveFirst DEF Texts
    <3>6. SubSeq(post, 1 + 1, d) \in Texts
      <4>1. 1 + 1 \in Int /\ d \in Int /\ \A j \in (1 + 1)..d : j \in 1..Len(post)
        BY <1>1, <3>1
      <4>2. QED
        BY <1>1, <4>1, SubSeqProperties DEF Texts
    <3>7. QED
      BY <3>4, <3>5, <3>6 DEF BeginsBlank
  <2>3. QED
    BY <2>1, <2>2
<1>10. Truncate(all) = whole \o kept
  BY <1>6, <1>7, <1>8 DEF Truncate, k
<1> HIDE DEF kept
<1>11. QED
  BY <1>5, <1>9, <1>10 DEF all

LEMMA CharsWithin ==
  ASSUME NEW chars \in Seq(Characters), NEW m \in 1..Len(chars), NEW n \in m..Len(chars)
  PROVE  /\ SubSeq(chars, m, n) \in Seq(Characters)
         /\ Len(SubSeq(chars, m, n)) = n - m + 1
         /\ \A j \in 1..(n - m + 1) : SubSeq(chars, m, n)[j] = chars[m + j - 1]
<1>1. m \in Int /\ n \in Int /\ m <= n /\ \A i \in m..n : i \in 1..Len(chars)
  BY LenProperties
<1>2. \A i \in m..n : chars[i] \in Characters
  BY <1>1, ElementOfSeq
<1>3. QED
  BY <1>1, <1>2, SubSeqProperties

(* A "#" and what follows it up to a space or the end is a word, if a space   *)
(* or nothing is before it.                                                  *)
LEMMA TagIsWord ==
  ASSUME NEW p \in Seq(Characters), NEW tag \in Seq(Characters), NEW q \in Seq(Characters),
         p = <<>> \/ p[Len(p)].kind = "space",
         q = <<>> \/ q[1].kind = "space",
         tag # <<>>, \A j \in DOMAIN tag : tag[j].kind # "space"
  PROVE  LET chars == ((p \o HashSign) \o tag) \o q
         IN /\ chars \in Seq(Characters)
            /\ \E w \in Words(chars) : SubSeq(chars, w[1] + 1, w[2]) = tag
<1> DEFINE a == Len(p)
           t == Len(tag)
           z == Len(q)
           first == p \o HashSign
           upTo == first \o tag
           chars == upTo \o q
<1>1. a \in Nat /\ t \in Nat \ {0} /\ z \in Nat /\ DOMAIN tag = 1..t
  BY EmptySeq, LenProperties
<1>2. /\ first \in Seq(Characters) /\ Len(first) = a + 1
      /\ \A i \in 1..a : first[i] = p[i]
      /\ first[a + 1].kind = "hash"
  <2>1. HashSign \in Seq(Characters) /\ Len(HashSign) = 1 /\ HashSign[1].kind = "hash"
    BY TextFacts
  <2>2. first \in Seq(Characters) /\ IsConcat(first, p, HashSign)
    BY <2>1, CharsConcat
  <2> HIDE DEF first
  <2>3. QED
    BY <1>1, <2>1, <2>2 DEF IsConcat
<1> HIDE DEF first
<1>3. /\ upTo \in Seq(Characters) /\ Len(upTo) = (a + 1) + t
      /\ \A i \in 1..(a + 1) : upTo[i] = first[i]
      /\ \A i \in 1..t : upTo[(a + 1) + i] = tag[i]
  <2>1. upTo \in Seq(Characters) /\ IsConcat(upTo, first, tag)
    BY <1>2, CharsConcat
  <2> HIDE DEF upTo
  <2>2. QED
    BY <1>1, <1>2, <2>1 DEF IsConcat
<1>4. /\ chars \in Seq(Characters) /\ Len(chars) = ((a + 1) + t) + z
      /\ \A i \in 1..((a + 1) + t) : chars[i] = upTo[i]
      /\ \A i \in 1..z : chars[((a + 1) + t) + i] = q[i]
  <2> HIDE DEF upTo
  <2>1. chars \in Seq(Characters) /\ IsConcat(chars, upTo, q)
    BY <1>3, CharsConcat
  <2> HIDE DEF chars
  <2>2. QED
    BY <1>1, <1>3, <2>1 DEF IsConcat
<1> HIDE DEF upTo, chars
<1> DEFINE n1 == a + 1
           n2 == n1 + t
           w == <<n1, n2>>
<1> HIDE DEF a, t, z
<1>5. /\ n1 \in 1..Len(chars) /\ n2 \in 1..Len(chars) /\ n1 < n2
      /\ n1 \in 1..(a + 1) /\ n1 \in 1..((a + 1) + t)
  BY <1>1, <1>4
<1>6. chars[n1].kind = "hash"
  <2>1. chars[n1] = upTo[n1]
    BY <1>4, <1>5
  <2>2. upTo[n1] = first[n1]
    BY <1>3, <1>5
  <2>3. QED
    BY <1>2, <2>1, <2>2
<1>7. n1 = 1 \/ chars[n1 - 1].kind = "space"
  <2>1. CASE a = 0
    BY <2>1
  <2>2. CASE a # 0
    <3>1. n1 - 1 = a /\ a \in 1..a /\ a \in 1..(a + 1) /\ a \in 1..((a + 1) + t)
      BY <1>1, <2>2
    <3>2. chars[a] = upTo[a]
      BY <1>4, <3>1
    <3>3. upTo[a] = first[a]
      BY <1>3, <3>1
    <3>4. first[a] = p[a]
      BY <1>2, <3>1
    <3>5. p[a].kind = "space"
      <4>1. p # <<>>
        BY <2>2 DEF a
      <4>2. QED
        BY <4>1 DEF a
    <3>6. QED
      BY <3>1, <3>2, <3>3, <3>4, <3>5
  <2>3. QED
    BY <2>1, <2>2
<1>8. \A j \in 1..t : chars[n1 + j] = tag[j]
  <2>1. ASSUME NEW j \in 1..t PROVE chars[n1 + j] = tag[j]
    <3> DEFINE i == n1 + j
    <3>1. i \in 1..((a + 1) + t) /\ i = (a + 1) + j
      BY <1>1
    <3> HIDE DEF i
    <3>2. chars[i] = upTo[i]
      BY <1>4, <3>1
    <3>3. upTo[i] = tag[j]
      BY <1>3, <3>1
    <3>4. QED
      BY <3>2, <3>3 DEF i
  <2>2. QED
    BY <2>1
<1>9. n2 = Len(chars) \/ chars[n2 + 1].kind = "space"
  <2>1. CASE z = 0
    BY <1>1, <1>4, <2>1
  <2>2. CASE z # 0
    <3>1. 1 \in 1..z
      BY <1>1, <2>2
    <3>2. chars[((a + 1) + t) + 1] = q[1]
      BY <1>4, <3>1
    <3>3. q # <<>>
      BY <2>2 DEF z
    <3>4. QED
      BY <3>2, <3>3
  <2>3. QED
    BY <2>1, <2>2
<1>10. ASSUME NEW i \in n1..n2 PROVE chars[i].kind # "space"
  <2>1. CASE i = n1
    BY <1>6, <2>1
  <2>2. CASE i # n1
    <3> DEFINE j == i - n1
    <3>1. j \in 1..t /\ n1 + j = i
      BY <1>1, <1>5, <2>2
    <3> HIDE DEF j, n1
    <3>2. QED
      BY <1>1, <1>8, <3>1
  <2>3. QED
    BY <2>1, <2>2
<1> HIDE DEF n1, n2
<1>11. w = <<w[1], w[2]>> /\ w[1] = n1 /\ w[2] = n2
  OBVIOUS
<1> HIDE DEF w
<1>12. w \in Words(chars)
  BY <1>4, <1>5, <1>6, <1>7, <1>9, <1>10, <1>11, WordFacts
<1>13. SubSeq(chars, n1 + 1, n2) = tag
  <2> DEFINE s == SubSeq(chars, n1 + 1, n2)
             m == n1 + 1
  <2>1. /\ m \in Int /\ n2 \in Int /\ m <= n2 /\ n2 - m + 1 = t
        /\ \A i \in m..n2 : i \in 1..Len(chars)
        /\ \A j \in 1..t : m + j - 1 = n1 + j
    BY <1>1, <1>4, <1>5 DEF n1, n2
  <2> HIDE DEF m
  <2>2. \A i \in m..n2 : chars[i] \in Characters
    BY <1>4, <2>1, ElementOfSeq
  <2>3. /\ SubSeq(chars, m, n2) \in Seq(Characters) /\ Len(SubSeq(chars, m, n2)) = t
        /\ \A j \in 1..t : SubSeq(chars, m, n2)[j] = chars[m + j - 1]
    <3>1. m \in 1..Len(chars) /\ n2 \in m..Len(chars)
      BY <1>1, <1>4, <1>5, <2>1 DEF n1, n2, m
    <3>2. QED
      BY <1>4, <2>1, <3>1, CharsWithin
  <2>4. \A j \in 1..t : SubSeq(chars, m, n2)[j] = tag[j]
    BY <1>8, <2>1, <2>3
  <2>5. SubSeq(chars, m, n2) = tag
    BY <2>3, <2>4, SeqEqual DEF t
  <2>6. QED
    BY <2>5 DEF m
<1>14. QED
  BY <1>4, <1>11, <1>12, <1>13 DEF chars, upTo, first

LEMMA FlatBlanks ==
  ASSUME NEW text \in Texts
  PROVE  /\ FlattenSeq(text) \in Seq(Characters)
         /\ EndsBlank(text) =>
              FlattenSeq(text) = <<>> \/ FlattenSeq(text)[Len(FlattenSeq(text))].kind = "space"
         /\ BeginsBlank(text) =>
              FlattenSeq(text) = <<>> \/ FlattenSeq(text)[1].kind = "space"
<1> DEFINE f == FlattenSeq(text)
<1>1. Blank \in Seq(Characters) /\ Len(Blank) = 1 /\ Blank[1].kind = "space"
  BY TextFacts
<1>2. f \in Seq(Characters)
  BY TextFacts
<1>3. ASSUME EndsBlank(text) PROVE f = <<>> \/ f[Len(f)].kind = "space"
  <2>1. CASE text = <<>>
    BY <2>1, FlattenEmpty
  <2>2. CASE text # <<>>
    <3>1. PICK t \in Texts : text = t \o <<Blank>>
      BY <1>3, <2>2 DEF EndsBlank
    <3> DEFINE g == FlattenSeq(t)
               one == <<Blank>>
    <3>2. g \in Seq(Characters) /\ f = g \o Blank
      <4>1. one \in Texts /\ FlattenSeq(one) = Blank /\ f = FlattenSeq(t \o one)
        BY <3>1, TextFacts
      <4> HIDE DEF one
      <4>2. QED
        BY <4>1, TextFacts
    <3> HIDE DEF f, g
    <3>3. /\ Len(g) \in Nat /\ Len(f) = Len(g) + 1
          /\ \A i \in 1..(Len(g) + 1) : f[i] = IF i <= Len(g) THEN g[i] ELSE Blank[i - Len(g)]
      BY <1>1, <3>2, ConcatProperties, LenProperties, SMTT(30)
    <3>4. Len(f) \in 1..(Len(g) + 1) /\ ~(Len(f) <= Len(g)) /\ Len(f) - Len(g) = 1
      BY <3>3
    <3>5. f[Len(f)] = Blank[1]
      BY <3>3, <3>4
    <3>6. QED
      BY <1>1, <3>5
  <2>3. QED
    BY <2>1, <2>2
<1>4. ASSUME BeginsBlank(text) PROVE f = <<>> \/ f[1].kind = "space"
  <2>1. CASE text = <<>>
    BY <2>1, FlattenEmpty
  <2>2. CASE text # <<>>
    <3>1. PICK t \in Texts : text = <<Blank>> \o t
      BY <1>4, <2>2 DEF BeginsBlank
    <3> DEFINE g == FlattenSeq(t)
               one == <<Blank>>
    <3>2. g \in Seq(Characters) /\ f = Blank \o g
      <4>1. one \in Texts /\ FlattenSeq(one) = Blank /\ f = FlattenSeq(one \o t)
        BY <3>1, TextFacts
      <4> HIDE DEF one
      <4>2. QED
        BY <4>1, TextFacts
    <3> HIDE DEF f, g
    <3>3. /\ Len(g) \in Nat
          /\ \A i \in 1..(1 + Len(g)) : f[i] = IF i <= 1 THEN Blank[i] ELSE g[i - 1]
      BY <1>1, <3>2, ConcatProperties, LenProperties, SMTT(30)
    <3>4. f[1] = Blank[1]
      BY <3>3
    <3>5. QED
      BY <1>1, <3>4
  <2>3. QED
    BY <2>1, <2>2
<1>5. QED
  BY <1>2, <1>3, <1>4

(* Every hashtag that the cut left whole is found.                           *)
LEMMA WholeTagsAreFound ==
  ASSUME NEW e \in VideoTexts, Graphemes \in Nat
  PROVE  WholeTagsFound(e, HashtagFacets(FlattenSeq(Truncate(FullText(e)))))
<1> SUFFICES ASSUME NEW i \in WholeTags(e), FlattenSeq(e.tags[i]) # <<>>,
                    \A j \in DOMAIN FlattenSeq(e.tags[i]) :
                      FlattenSeq(e.tags[i])[j].kind # "space"
             PROVE  LET facets == HashtagFacets(FlattenSeq(Truncate(FullText(e))))
                    IN \E j \in DOMAIN facets : facets[j].tag = FlattenSeq(e.tags[i])
  BY DEF WholeTagsFound
<1>1. /\ e.tags \in Seq(Texts) /\ i \in 1..Len(e.tags)
      /\ Len(FullText([e EXCEPT !.tags = SubSeq(e.tags, 1, i)])) <= Graphemes
  <2>1. e.tags \in Seq(Texts)
    BY DEF VideoTexts
  <2>2. DOMAIN e.tags = 1..Len(e.tags)
    BY <2>1, LenProperties
  <2>3. QED
    BY <2>1, <2>2 DEF WholeTags
<1> DEFINE tag == e.tags[i]
<1>2. tag \in Texts
  BY <1>1, ElementOfSeq
<1>3. PICK pre \in Texts, post \in Texts :
        /\ FullText([e EXCEPT !.tags = SubSeq(e.tags, 1, i)]) = (pre \o <<HashSign>>) \o tag
        /\ FullText(e) = ((pre \o <<HashSign>>) \o tag) \o post
        /\ EndsBlank(pre) /\ BeginsBlank(post)
  BY <1>1, TextUpTo
<1> HIDE DEF tag
<1> DEFINE sign == <<HashSign>>
           first == pre \o sign
           whole == first \o tag
<1>4. sign \in Texts /\ Len(sign) = 1 /\ FlattenSeq(sign) = HashSign
  BY TextFacts
<1> HIDE DEF sign
<1>5. first \in Texts /\ FlattenSeq(first) = FlattenSeq(pre) \o HashSign /\ Len(first) # 0
  <2>1. first \in Texts /\ FlattenSeq(first) = FlattenSeq(pre) \o HashSign
    BY <1>4, TextFacts
  <2>2. Len(first) = Len(pre) + 1 /\ Len(pre) \in Nat
    BY <1>4, TextLength
  <2> HIDE DEF first
  <2>3. QED
    BY <2>1, <2>2
<1> HIDE DEF first
<1>6. whole \in Texts /\ FlattenSeq(whole) = FlattenSeq(first) \o FlattenSeq(tag) /\ whole # <<>>
  <2>1. whole \in Texts /\ FlattenSeq(whole) = FlattenSeq(first) \o FlattenSeq(tag)
    BY <1>2, <1>5, TextFacts
  <2>2. Len(whole) = Len(first) + Len(tag) /\ Len(first) \in Nat /\ Len(tag) \in Nat
    BY <1>2, <1>5, ConcatProperties, LenProperties DEF Texts
  <2>3. Len(<<>>) = 0
    OBVIOUS
  <2> HIDE DEF whole
  <2>4. QED
    BY <1>5, <2>1, <2>2, <2>3
<1> HIDE DEF whole
<1>7. Len(whole) <= Graphemes /\ FullText(e) = whole \o post
  BY <1>1, <1>3 DEF whole, first, sign
<1>8. PICK kept \in Texts : Truncate(whole \o post) = whole \o kept /\ BeginsBlank(kept)
  BY <1>3, <1>6, <1>7, TruncateKeeps
<1> DEFINE chars == FlattenSeq(Truncate(FullText(e)))
           p == FlattenSeq(pre)
           f == FlattenSeq(tag)
           q == FlattenSeq(kept)
<1>9. chars = ((p \o HashSign) \o f) \o q
  <2>1. FlattenSeq(whole \o kept) = FlattenSeq(whole) \o q
    BY <1>6, TextFacts
  <2>2. QED
    BY <1>5, <1>6, <1>7, <1>8, <2>1
<1>10. /\ p \in Seq(Characters) /\ f \in Seq(Characters) /\ q \in Seq(Characters)
       /\ p = <<>> \/ p[Len(p)].kind = "space"
       /\ q = <<>> \/ q[1].kind = "space"
  BY <1>2, <1>3, <1>8, FlatBlanks
<1>11. f # <<>> /\ \A j \in DOMAIN f : f[j].kind # "space"
  BY DEF tag
<1>12. f = FlattenSeq(e.tags[i])
  BY DEF tag
<1> HIDE DEF chars, p, f, q
<1>13. chars \in Seq(Characters) /\ \E w \in Words(chars) : SubSeq(chars, w[1] + 1, w[2]) = f
  <2> DEFINE c == ((p \o HashSign) \o f) \o q
  <2>1. c \in Seq(Characters) /\ \E w \in Words(c) : SubSeq(c, w[1] + 1, w[2]) = f
    BY <1>10, <1>11, TagIsWord
  <2> HIDE DEF c
  <2>2. chars = c
    BY <1>9 DEF c
  <2>3. QED
    BY <2>1, <2>2
<1>14. PICK w \in Words(chars) : SubSeq(chars, w[1] + 1, w[2]) = f
  BY <1>13
<1>15. Len(chars) \in Nat /\ w[1] \in 1..Len(chars) /\ w[2] \in 1..Len(chars)
  BY <1>13, WordFacts, LenProperties
<1>16. Facet(chars, w[1], w[2] + 1) \in WordFacets(chars, 1)
  BY <1>15 DEF WordFacets, WordsFrom
<1>17. 1 \in 1..(Len(chars) + 1)
  BY <1>15
<1>18. ToSet(HashtagFacets(chars)) = WordFacets(chars, 1)
  BY <1>13, <1>17, ScanFindsWords DEF HashtagFacets
<1>19. PICK j \in DOMAIN HashtagFacets(chars) :
         HashtagFacets(chars)[j] = Facet(chars, w[1], w[2] + 1)
  BY <1>16, <1>18 DEF ToSet
<1>20. Facet(chars, w[1], w[2] + 1).tag = f
  <2>1. (w[2] + 1) - 1 = w[2]
    BY <1>15
  <2>2. QED
    BY <1>14, <2>1 DEF Facet
<1>21. \E k \in DOMAIN HashtagFacets(chars) : HashtagFacets(chars)[k].tag = f
  BY <1>19, <1>20
<1>22. QED
  BY <1>12, <1>21 DEF chars

(* The facets of a video's text are its hashtags: FacetsAreHashtags, for an   *)
(* event of any texts and a limit of any size.                               *)
THEOREM FacetsOfVideo ==
  ASSUME NEW e \in VideoTexts, Graphemes \in Nat
  PROVE  LET full == FlattenSeq(FullText(e))
             chars == FlattenSeq(Truncate(FullText(e)))
         IN /\ FacetsAreWords(full, chars)
            /\ FacetsApart(HashtagFacets(chars))
            /\ WholeTagsFound(e, HashtagFacets(chars))
<1> DEFINE text == FullText(e)
           k == Min({Len(text), Graphemes})
           chars == FlattenSeq(Truncate(text))
<1>1. text \in Texts
  <2>1. /\ e.title \in Texts /\ e.summary \in Texts /\ e.content \in Texts /\ e.tags \in Seq(Texts)
    BY DEF VideoTexts
  <2>2. Description(e) \in Texts
    BY <2>1 DEF Description
  <2>3. Hashtags(e.tags) \in Texts
    <3>1. Tagged(e.tags) \in Seq(Texts)
      BY <2>1, TaggedType
    <3>2. FlattenSeq(Tagged(e.tags)) \in Texts
      BY <3>1, FlattenType DEF Texts
    <3>3. QED
      BY <3>2 DEF Hashtags, Tagged
  <2>4. ASSUME NEW a \in Texts, NEW b \in Texts PROVE Paragraphs(a, b) \in Texts
    <3>1. <<Blank, Blank>> \in Texts
      BY TextFacts DEF Texts
    <3>2. a \o <<Blank, Blank>> \in Texts /\ a \o b \in Texts
      BY <3>1, TextFacts
    <3>3. (a \o <<Blank, Blank>>) \o b \in Texts
      BY <3>2, TextFacts
    <3>4. QED
      BY <3>2, <3>3 DEF Paragraphs
  <2>5. QED
    BY <2>1, <2>2, <2>3, <2>4 DEF FullText
<1> HIDE DEF text
<1>2. k \in 0..Len(text)
  <2>1. Len(text) \in Nat
    BY <1>1, LenProperties DEF Texts
  <2>2. k = IF Len(text) <= Graphemes THEN Len(text) ELSE Graphemes
    BY <2>1, MinOfTwo
  <2>3. QED
    BY <2>1, <2>2
<1>3. /\ SubSeq(text, 1, k) \in Texts
      /\ \E rest \in Seq(Characters) :
           FlattenSeq(text) = FlattenSeq(SubSeq(text, 1, k)) \o rest
  <2> HIDE DEF k
  <2>1. QED
    BY <1>1, <1>2, FlattenOfPrefix DEF Texts
<1>4. Truncate(text) \in Texts
      /\ \E rest \in Seq(Characters) : FlattenSeq(text) = chars \o rest
  BY <1>3 DEF Truncate
<1>5. chars \in Seq(Characters)
  BY <1>4, FlattenType DEF Texts
<1>6. FacetsAreWords(FlattenSeq(text), chars)
  <2> HIDE DEF chars
  <2>1. QED
    BY <1>4, <1>5, CutFacets
<1>7. FacetsApart(HashtagFacets(chars))
  <2> HIDE DEF chars
  <2>1. 1 \in 1..(Len(chars) + 1)
    BY <1>5, LenProperties
  <2>2. QED
    BY <1>5, <2>1, ScanApart DEF HashtagFacets
<1>8. WholeTagsFound(e, HashtagFacets(chars))
  BY WholeTagsAreFound DEF text
<1>9. QED
  BY <1>6, <1>7, <1>8 DEF text

================================================================================
