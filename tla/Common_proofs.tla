---------------------------- MODULE Common_proofs ----------------------------
(***************************************************************************)
(* What the proofs about several components rest on: induction over the    *)
(* natural numbers and over finite sets, for sets where the library's      *)
(* theorems have predicates, and what follows from it about folds,         *)
(* sequences, the sum of a frame and the patterns a decoder looks for.     *)
(***************************************************************************)
EXTENDS Wire, FiniteSetsExt, FiniteSetTheorems, WellFoundedInduction, TLAPS

Lower == {pair \in Nat \X Nat : pair[1] < pair[2]}

LEMMA LowerWellFounded == IsWellFoundedOn(Lower, Nat)
  BY NatLessThanWellFounded DEF OpToRel, Lower

LEMMA SetInduction ==
    ASSUME NEW S, S \subseteq Nat, 0 \in S, \A n \in S : n + 1 \in S
    PROVE  S = Nat
<1> SUFFICES ASSUME Nat \ S # {} PROVE FALSE
    OBVIOUS
<1> DEFINE T == Nat \ S
<1>1. \E x \in T : \A y \in T : ~(<<y, x>> \in Lower)
  <2>1. T \subseteq Nat /\ T # {}
    OBVIOUS
  <2> HIDE DEF T
  <2> QED
    BY <2>1, LowerWellFounded, WFMin
<1>2. PICK x \in T : \A y \in T : <<y, x>> \notin Lower
  BY <1>1
<1>3. x \in Nat /\ x # 0
  OBVIOUS
<1>4. x - 1 \in Nat /\ x - 1 < x /\ (x - 1) + 1 = x
  BY <1>3
<1>5. <<x - 1, x>> \in Lower
  BY <1>3, <1>4 DEF Lower
<1>6. x - 1 \in S
  BY <1>2, <1>4, <1>5
<1> QED
  BY <1>4, <1>6

-----------------------------------------------------------------------------
(* Folds over a finite set: pick says which element is next, step what it does
   to the values, which stay in T. *)
FoldStep(f, base, pick, step, s) ==
    IF s = {} THEN base ELSE step[pick[s]][f[s \ {pick[s]}]]

Foldable(S, T, base, pick, step) ==
    \E f \in [SUBSET S -> T] : \A s \in SUBSET S : f[s] = FoldStep(f, base, pick, step, s)

LEMMA LessOne ==
    ASSUME NEW S, IsFiniteSet(S), NEW s \in SUBSET S, NEW x \in s
    PROVE  /\ IsFiniteSet(s) /\ IsFiniteSet(s \ {x}) /\ Cardinality(s) \in Nat
           /\ Cardinality(s \ {x}) = Cardinality(s) - 1 /\ Cardinality(s) <= Cardinality(S)
           /\ Cardinality(s \ {x}) \in Nat
<1>1. IsFiniteSet(s) /\ Cardinality(s) <= Cardinality(S)
  BY FS_Subset
<1>2. IsFiniteSet(s \ {x}) /\ Cardinality(s \ {x}) = Cardinality(s) - 1
  BY <1>1, FS_RemoveElement
<1> QED
  BY <1>1, <1>2, FS_CardinalityType

LEMMA FoldExists ==
    ASSUME NEW S, IsFiniteSet(S), NEW T, NEW base \in T,
           NEW pick, \A s \in SUBSET S : s # {} => pick[s] \in s,
           NEW step, \A x \in S : \A v \in T : step[x][v] \in T
    PROVE  Foldable(S, T, base, pick, step)
<1> DEFINE Upto(f, n) == \A s \in SUBSET S :
                            Cardinality(s) <= n => f[s] = FoldStep(f, base, pick, step, s)
           N == {n \in Nat : \E f \in [SUBSET S -> T] : Upto(f, n)}
<1>1. 0 \in N
  <2> DEFINE f == [s \in SUBSET S |-> base]
  <2>1. f \in [SUBSET S -> T]
    OBVIOUS
  <2>2. ASSUME NEW s \in SUBSET S, Cardinality(s) <= 0 PROVE s = {}
    BY <2>2, FS_Subset, FS_CardinalityType, FS_EmptySet
  <2>3. Upto(f, 0)
    BY <2>2 DEF FoldStep
  <2> QED
    BY <2>1, <2>3
<1>2. ASSUME NEW n \in N PROVE n + 1 \in N
  <2>1. PICK f \in [SUBSET S -> T] : Upto(f, n)
    OBVIOUS
  <2> DEFINE g == [s \in SUBSET S |-> IF Cardinality(s) <= n THEN f[s]
                                      ELSE FoldStep(f, base, pick, step, s)]
  <2>2. g \in [SUBSET S -> T]
    <3> SUFFICES ASSUME NEW s \in SUBSET S PROVE FoldStep(f, base, pick, step, s) \in T
        OBVIOUS
    <3> QED
      BY DEF FoldStep
  <2>3. ASSUME NEW s \in SUBSET S, Cardinality(s) <= n + 1
        PROVE  g[s] = FoldStep(g, base, pick, step, s)
    <3>1. CASE s = {}
      BY <2>1, <3>1 DEF FoldStep
    <3>2. CASE s # {}
      <4> DEFINE less == s \ {pick[s]}
      <4>1. less \in SUBSET S /\ Cardinality(less) <= n
        <5>1. /\ pick[s] \in s /\ Cardinality(less) = Cardinality(s) - 1
              /\ Cardinality(s) \in Nat /\ n \in Nat
          BY <3>2, LessOne
        <5> QED
          BY <2>3, <5>1
      <4>2. g[less] = f[less]
        BY <4>1
      <4>3. FoldStep(g, base, pick, step, s) = FoldStep(f, base, pick, step, s)
        BY <4>2 DEF FoldStep
      <4> QED
        BY <2>1, <4>3
    <3> QED
      BY <3>1, <3>2
  <2> HIDE DEF g
  <2>4. Upto(g, n + 1)
    BY <2>3
  <2> QED
    BY <2>2, <2>4
<1>3. N \subseteq Nat
  OBVIOUS
<1> HIDE DEF N
<1>4. Cardinality(S) \in N
  <2>1. N = Nat
    BY <1>1, <1>2, <1>3, SetInduction
  <2> QED
    BY <2>1, FS_CardinalityType
<1>5. PICK f \in [SUBSET S -> T] : Upto(f, Cardinality(S))
  BY <1>4 DEF N
<1>6. \A s \in SUBSET S : Cardinality(s) <= Cardinality(S)
  BY FS_Subset
<1> QED
  BY <1>5, <1>6 DEF Foldable

(* What holds of the base, and is kept by each element folded in, holds of the
   result: R relates what has been folded to the value it gives. *)
LEMMA FoldKeeps ==
    ASSUME NEW S, IsFiniteSet(S), NEW F, NEW R, <<{}, F[{}]>> \in R,
           \A s \in SUBSET S : s # {} =>
              \E x \in s : <<s \ {x}, F[s \ {x}]>> \in R => <<s, F[s]>> \in R
    PROVE  <<S, F[S]>> \in R
<1> DEFINE N == {n \in Nat : \A s \in SUBSET S : Cardinality(s) = n => <<s, F[s]>> \in R}
<1>1. 0 \in N
  <2> SUFFICES ASSUME NEW s \in SUBSET S, Cardinality(s) = 0 PROVE <<s, F[s]>> \in R
      OBVIOUS
  <2>1. s = {}
    BY FS_Subset, FS_EmptySet
  <2> QED
    BY <2>1
<1>2. ASSUME NEW n \in N PROVE n + 1 \in N
  <2> SUFFICES ASSUME NEW s \in SUBSET S, Cardinality(s) = n + 1 PROVE <<s, F[s]>> \in R
      OBVIOUS
  <2>1. s # {}
    <3>1. Cardinality({}) = 0
      BY FS_EmptySet
    <3>2. Cardinality(s) # 0
      OBVIOUS
    <3> QED
      BY <3>1, <3>2, Zenon
  <2>2. PICK x \in s : <<s \ {x}, F[s \ {x}]>> \in R => <<s, F[s]>> \in R
    BY <2>1
  <2>3. Cardinality(s \ {x}) = n /\ s \ {x} \in SUBSET S
    BY LessOne
  <2> QED
    BY <2>2, <2>3
<1>3. N \subseteq Nat
  OBVIOUS
<1> HIDE DEF N
<1>4. Cardinality(S) \in N
  <2>1. N = Nat
    BY <1>1, <1>2, <1>3, SetInduction
  <2> QED
    BY <2>1, FS_CardinalityType
<1> QED
  BY <1>4 DEF N

LEMMA FoldStays ==
    ASSUME NEW S, IsFiniteSet(S), NEW F, NEW V, F[{}] \in V,
           \A s \in SUBSET S : s # {} => \E x \in s : F[s \ {x}] \in V => F[s] \in V
    PROVE  F[S] \in V
<1> DEFINE R == (SUBSET S) \X V
<1>1. <<{}, F[{}]>> \in R
  OBVIOUS
<1>2. \A s \in SUBSET S : s # {} =>
         \E x \in s : <<s \ {x}, F[s \ {x}]>> \in R => <<s, F[s]>> \in R
  OBVIOUS
<1>3. <<S, F[S]>> \in R
  <2> HIDE DEF R
  <2> QED
    BY <1>1, <1>2, FoldKeeps
<1> QED
  BY <1>3

LEMMA SequenceDomain ==
    ASSUME NEW T, NEW seq \in Seq(T)
    PROVE  /\ DOMAIN seq = 1..Len(seq) /\ Len(seq) \in Nat
           /\ IsFiniteSet(DOMAIN seq) /\ Cardinality(DOMAIN seq) = Len(seq)
<1>1. DOMAIN seq = 1..Len(seq) /\ Len(seq) \in Nat
  OBVIOUS
<1>2. \A n \in Nat : IsFiniteSet(1..n) /\ Cardinality(1..n) = n
  BY FS_Interval
<1> QED
  BY <1>1, <1>2

-----------------------------------------------------------------------------
(* Least and greatest. *)
LEMMA MaxOf ==
    ASSUME NEW n \in Nat, NEW S, S \subseteq 1..n, S # {}
    PROVE  Max(S) \in S /\ \A x \in S : x <= Max(S)
<1> DEFINE N == {k \in Nat : \A U \in SUBSET (1..k) : U # {} => \E x \in U : \A y \in U : x >= y}
<1>1. 0 \in N
  <2>1. 1..0 = {}
    OBVIOUS
  <2>2. \A U \in SUBSET (1..0) : U = {}
    BY <2>1
  <2> QED
    BY <2>2
<1>2. ASSUME NEW k \in N PROVE k + 1 \in N
  <2> SUFFICES ASSUME NEW U \in SUBSET (1..(k + 1)), U # {} PROVE \E x \in U : \A y \in U : x >= y
      OBVIOUS
  <2>1. CASE k + 1 \in U
    BY <2>1
  <2>2. CASE k + 1 \notin U
    <3>1. U \in SUBSET (1..k)
      BY <2>2
    <3> QED
      BY <3>1
  <2> QED
    BY <2>1, <2>2
<1>3. N \subseteq Nat
  OBVIOUS
<1> HIDE DEF N
<1>4. n \in N
  BY <1>1, <1>2, <1>3, SetInduction
<1>5. \E x \in S : \A y \in S : x >= y
  BY <1>4 DEF N
<1> QED
  BY <1>5 DEF Max

LEMMA MinOf ==
    ASSUME NEW S, S \subseteq Nat, S # {}
    PROVE  Min(S) \in S /\ \A x \in S : Min(S) <= x
<1>1. \E x \in S : \A y \in S : ~(<<y, x>> \in Lower)
  BY LowerWellFounded, WFMin
<1>2. \E x \in S : \A y \in S : x <= y
  <2>1. PICK x \in S : \A y \in S : <<y, x>> \notin Lower
    BY <1>1
  <2>2. ASSUME NEW y \in S PROVE x <= y
    <3>1. x \in Nat /\ y \in Nat /\ <<y, x>> \notin Lower
      BY <2>1
    <3> QED
      BY <3>1 DEF Lower
  <2> QED
    BY <2>2
<1> QED
  BY <1>2 DEF Min

LEMMA MinOfTwo ==
    ASSUME NEW a \in Int, NEW b \in Int
    PROVE  Min({a, b}) = IF a <= b THEN a ELSE b
  BY DEF Min

LEMMA MaxOfTwo ==
    ASSUME NEW a \in Int, NEW b \in Int
    PROVE  Max({a, b}) = IF a >= b THEN a ELSE b
  BY DEF Max

-----------------------------------------------------------------------------
(* Sequences put together and taken apart. *)
JoinOf(T, a, b, c) ==
    /\ c \in Seq(T) /\ Len(c) = Len(a) + Len(b)
    /\ \A i \in 1..Len(a) : c[i] = a[i]
    /\ \A i \in 1..Len(b) : c[Len(a) + i] = b[i]
PartOf(T, s, m, n, c) ==
    /\ c \in Seq(T) /\ Len(c) = (n - m) + 1
    /\ \A i \in 1..((n - m) + 1) : c[i] = s[m + i - 1]

LEMMA JoinParts ==
    ASSUME NEW T, NEW a \in Seq(T), NEW b \in Seq(T)
    PROVE  JoinOf(T, a, b, a \o b)
<1>1. a \o b \in Seq(T) /\ Len(a \o b) = Len(a) + Len(b)
  OBVIOUS
<1>2. ASSUME NEW i \in 1..Len(a) PROVE (a \o b)[i] = a[i]
  OBVIOUS
<1>3. ASSUME NEW i \in 1..Len(b) PROVE (a \o b)[Len(a) + i] = b[i]
  OBVIOUS
<1> QED
  BY <1>1, <1>2, <1>3 DEF JoinOf

LEMMA Parted ==
    ASSUME NEW T, NEW s \in Seq(T), NEW m \in 1..(Len(s) + 1), NEW n \in (m - 1)..Len(s)
    PROVE  PartOf(T, s, m, n, SubSeq(s, m, n))
<1>1. SubSeq(s, m, n) \in Seq(T) /\ Len(SubSeq(s, m, n)) = (n - m) + 1
  OBVIOUS
<1>2. ASSUME NEW i \in 1..((n - m) + 1) PROVE SubSeq(s, m, n)[i] = s[m + i - 1]
  OBVIOUS
<1> QED
  BY <1>1, <1>2 DEF PartOf

-----------------------------------------------------------------------------
(* What the recursive sum of Frame::encode computes, for every sequence of
   bytes: f is the running sum of the first n. *)
Sums(f, bytes, n) ==
    f = [i \in 0..n |-> IF i = 0 THEN 0 ELSE AddByte(f[i - 1], bytes[i])]

LEMMA SumGrows ==
    ASSUME NEW bytes, NEW n \in Nat, NEW f, Sums(f, bytes, n)
    PROVE  \E g : Sums(g, bytes, n + 1) /\ g[n + 1] = AddByte(f[n], bytes[n + 1])
<1> DEFINE g == [i \in 0..(n + 1) |-> IF i <= n THEN f[i] ELSE AddByte(f[n], bytes[n + 1])]
<1>1. g[n + 1] = AddByte(f[n], bytes[n + 1])
  OBVIOUS
<1>2. ASSUME NEW i \in 0..(n + 1)
      PROVE  g[i] = IF i = 0 THEN 0 ELSE AddByte(g[i - 1], bytes[i])
  <2>1. CASE i = n + 1
    <3>1. i # 0 /\ i - 1 = n /\ g[n] = f[n]
      BY <2>1
    <3> QED
      BY <1>1, <2>1, <3>1
  <2>2. CASE i <= n
    <3>1. i \in 0..n /\ g[i] = f[i] /\ (i # 0 => i - 1 \in 0..(n + 1) /\ g[i - 1] = f[i - 1])
      BY <2>2
    <3>2. f[i] = IF i = 0 THEN 0 ELSE AddByte(f[i - 1], bytes[i])
      BY <3>1 DEF Sums
    <3> QED
      BY <3>1, <3>2
  <2> QED
    BY <2>1, <2>2
<1>3. Sums(g, bytes, n + 1)
  <2> DEFINE h == [i \in 0..(n + 1) |-> IF i = 0 THEN 0 ELSE AddByte(g[i - 1], bytes[i])]
  <2>1. \A i \in 0..(n + 1) : g[i] = h[i]
    BY <1>2
  <2>2. DOMAIN g = 0..(n + 1) /\ DOMAIN h = 0..(n + 1)
    OBVIOUS
  <2>3. g = h
    BY <2>1, <2>2
  <2> QED
    BY <2>3 DEF Sums
<1> QED
  BY <1>1, <1>3

LEMMA SumExists == ASSUME NEW bytes PROVE \A n \in Nat : \E f : Sums(f, bytes, n)
<1> DEFINE S == {n \in Nat : \E f : Sums(f, bytes, n)}
<1>1. 0 \in S
  <2>1. Sums([i \in 0..0 |-> 0], bytes, 0)
    BY DEF Sums
  <2> QED
    BY <2>1
<1>2. \A n \in S : n + 1 \in S
  BY SumGrows
<1>3. S \subseteq Nat
  OBVIOUS
<1> HIDE DEF S
<1>4. S = Nat
  BY <1>1, <1>2, <1>3, SetInduction
<1> QED
  BY <1>4 DEF S

LEMMA SumUnique ==
    ASSUME NEW bytes, NEW n \in Nat, NEW f, NEW g, Sums(f, bytes, n), Sums(g, bytes, n)
    PROVE  f[n] = g[n]
<1> DEFINE S == {i \in Nat : i <= n => f[i] = g[i]}
<1>1. 0 \in S
  BY DEF Sums
<1>2. ASSUME NEW i \in S PROVE i + 1 \in S
  <2> SUFFICES ASSUME i + 1 <= n PROVE f[i + 1] = g[i + 1]
      OBVIOUS
  <2>1. i \in Nat /\ f[i] = g[i] /\ i + 1 \in 0..n /\ i + 1 # 0 /\ (i + 1) - 1 = i
    OBVIOUS
  <2>2. f[i + 1] = AddByte(f[i], bytes[i + 1]) /\ g[i + 1] = AddByte(g[i], bytes[i + 1])
    BY <2>1 DEF Sums
  <2> QED
    BY <2>1, <2>2
<1>3. S \subseteq Nat
  OBVIOUS
<1> HIDE DEF S
<1>4. S = Nat
  BY <1>1, <1>2, <1>3, SetInduction
<1> QED
  BY <1>4 DEF S

LEMMA SumValue ==
    ASSUME NEW bytes, Len(bytes) \in Nat, NEW f, Sums(f, bytes, Len(bytes))
    PROVE  Checksum8(bytes) = f[Len(bytes)]
<1> DEFINE F == CHOOSE g : g = [i \in 0..Len(bytes) |->
                                 IF i = 0 THEN 0 ELSE AddByte(g[i - 1], bytes[i])]
<1>1. Checksum8(bytes) = F[Len(bytes)]
  BY DEF Checksum8
<1>2. F = [i \in 0..Len(bytes) |-> IF i = 0 THEN 0 ELSE AddByte(F[i - 1], bytes[i])]
  BY DEF Sums
<1> HIDE DEF F
<1>3. Sums(F, bytes, Len(bytes))
  BY <1>2 DEF Sums
<1> QED
  BY <1>1, <1>3, SumUnique

LEMMA SumOfNothing == Checksum8(<<>>) = 0
<1>1. PICK f : Sums(f, <<>>, 0)
  BY SumExists
<1> QED
  BY <1>1, SumValue DEF Sums

(* The sum a decoder carries byte by byte is the sum of all it has read. *)
LEMMA SumOfMore ==
    ASSUME NEW T, NEW bytes \in Seq(T), NEW b \in T
    PROVE  Checksum8(Append(bytes, b)) = AddByte(Checksum8(bytes), b)
<1> DEFINE n == Len(bytes)
           more == Append(bytes, b)
<1>1. n \in Nat /\ Len(more) = n + 1 /\ more[n + 1] = b /\ \A i \in 1..n : more[i] = bytes[i]
  OBVIOUS
<1> HIDE DEF n, more
<1>2. PICK f : Sums(f, bytes, n)
  BY <1>1, SumExists
<1>3. Sums(f, more, n)
  <2>1. \A i \in 0..n : (IF i = 0 THEN 0 ELSE AddByte(f[i - 1], bytes[i]))
                       = (IF i = 0 THEN 0 ELSE AddByte(f[i - 1], more[i]))
    BY <1>1
  <2> QED
    BY <1>2, <2>1 DEF Sums
<1>4. PICK g : Sums(g, more, n + 1) /\ g[n + 1] = AddByte(f[n], more[n + 1])
  BY <1>1, <1>3, SumGrows
<1>5. Checksum8(bytes) = f[n]
  BY <1>1, <1>2, SumValue DEF n
<1>6. Checksum8(more) = g[n + 1]
  BY <1>1, <1>4, SumValue
<1> QED
  BY <1>1, <1>4, <1>5, <1>6 DEF more

-----------------------------------------------------------------------------
(* Sequences that grow by a byte. *)
LEMMA SeqEqual ==
    ASSUME NEW T, NEW s \in Seq(T), NEW t \in Seq(T), Len(s) = Len(t),
           \A i \in 1..Len(s) : s[i] = t[i]
    PROVE  s = t
  OBVIOUS

LEMMA TupleGrows2 ==
    ASSUME NEW T, NEW a \in T, NEW b \in T
    PROVE  Append(<<a>>, b) = <<a, b>> /\ <<a, b>> \in Seq(T)
<1> DEFINE s == Append(<<a>>, b)
           t == <<a, b>>
<1>1. s \in Seq(T) /\ Len(s) = 2 /\ s[1] = a /\ s[2] = b
  OBVIOUS
<1>2. t \in Seq(T) /\ Len(t) = 2 /\ t[1] = a /\ t[2] = b
  OBVIOUS
<1> HIDE DEF s, t
<1>3. s = t
  BY <1>1, <1>2, SeqEqual
<1> QED
  BY <1>2, <1>3 DEF s, t

LEMMA TupleGrows3 ==
    ASSUME NEW T, NEW a \in T, NEW b \in T, NEW c \in T
    PROVE  Append(<<a, b>>, c) = <<a, b, c>> /\ <<a, b, c>> \in Seq(T)
<1> DEFINE s == Append(<<a, b>>, c)
           t == <<a, b, c>>
<1>1. s \in Seq(T) /\ Len(s) = 3 /\ s[1] = a /\ s[2] = b /\ s[3] = c
  OBVIOUS
<1>2. t \in Seq(T) /\ Len(t) = 3 /\ t[1] = a /\ t[2] = b /\ t[3] = c
  OBVIOUS
<1> HIDE DEF s, t
<1>3. s = t
  BY <1>1, <1>2, SeqEqual
<1> QED
  BY <1>2, <1>3 DEF s, t

LEMMA TupleGrows4 ==
    ASSUME NEW T, NEW a \in T, NEW b \in T, NEW c \in T, NEW d \in T
    PROVE  Append(<<a, b, c>>, d) = <<a, b, c, d>> /\ <<a, b, c, d>> \in Seq(T)
<1> DEFINE s == Append(<<a, b, c>>, d)
           t == <<a, b, c, d>>
<1>1. s \in Seq(T) /\ Len(s) = 4 /\ s[1] = a /\ s[2] = b /\ s[3] = c /\ s[4] = d
  OBVIOUS
<1>2. t \in Seq(T) /\ Len(t) = 4 /\ t[1] = a /\ t[2] = b /\ t[3] = c /\ t[4] = d
  OBVIOUS
<1> HIDE DEF s, t
<1>3. s = t
  BY <1>1, <1>2, SeqEqual
<1> QED
  BY <1>2, <1>3 DEF s, t

LEMMA TupleGrows5 ==
    ASSUME NEW T, NEW a \in T, NEW b \in T, NEW c \in T, NEW d \in T, NEW e \in T
    PROVE  Append(<<a, b, c, d>>, e) = <<a, b, c, d, e>> /\ <<a, b, c, d, e>> \in Seq(T)
<1> DEFINE s == Append(<<a, b, c, d>>, e)
           t == <<a, b, c, d, e>>
<1>1. s \in Seq(T) /\ Len(s) = 5 /\ s[1] = a /\ s[2] = b /\ s[3] = c /\ s[4] = d /\ s[5] = e
  OBVIOUS
<1>2. t \in Seq(T) /\ Len(t) = 5 /\ t[1] = a /\ t[2] = b /\ t[3] = c /\ t[4] = d /\ t[5] = e
  OBVIOUS
<1> HIDE DEF s, t
<1>3. s = t
  BY <1>1, <1>2, SeqEqual
<1> QED
  BY <1>2, <1>3 DEF s, t

LEMMA ConcatOne ==
    ASSUME NEW T, NEW s \in Seq(T), NEW b \in T
    PROVE  s \o <<b>> = Append(s, b) /\ <<b>> \in Seq(T)
<1>1. s \o <<b>> = Append(s, b)
  OBVIOUS
<1>2. <<b>> \in Seq(T)
  OBVIOUS
<1> QED
  BY <1>1, <1>2

LEMMA ConcatEmpty ==
    ASSUME NEW T, NEW s \in Seq(T)
    PROVE  s \o <<>> = s
  OBVIOUS

LEMMA SuffixOf ==
    ASSUME NEW T, NEW p \in Seq(T), NEW s \in Seq(T)
    PROVE  IsSuffix(s, p \o s)
<1> DEFINE t == p \o s
<1>1. /\ t \in Seq(T) /\ Len(t) = Len(p) + Len(s)
      /\ \A i \in 1..Len(s) : t[Len(p) + i] = s[i]
  OBVIOUS
<1>2. /\ Len(Reverse(s)) = Len(s) /\ Len(Reverse(t)) = Len(t)
      /\ Reverse(s) \in Seq(T) /\ Reverse(t) \in Seq(T)
  BY <1>1 DEF Reverse
<1>3. \A i \in 1..Len(s) : Reverse(s)[i] = Reverse(t)[i]
  BY <1>1 DEF Reverse
<1> HIDE DEF t
<1>4. SubSeq(Reverse(s), 1, Len(s)) = SubSeq(Reverse(t), 1, Len(s))
  BY <1>1, <1>2, <1>3
<1> QED
  BY <1>1, <1>2, <1>4 DEF IsSuffix, IsPrefix, t

-----------------------------------------------------------------------------
(* Where a sequence is cut. *)
LEMMA FromIs ==
    ASSUME NEW T, NEW s \in Seq(T), NEW i \in 1..(Len(s) + 1)
    PROVE  /\ From(s, i) \in Seq(T) /\ Len(From(s, i)) = Len(s) - i + 1
           /\ \A k \in 1..(Len(s) - i + 1) : From(s, i)[k] = s[i + k - 1]
<1>1. i \in Nat /\ Len(s) \in Nat
  OBVIOUS
<1>2. PartOf(T, s, i, Len(s), SubSeq(s, i, Len(s)))
  BY <1>1, Parted
<1> QED
  BY <1>1, <1>2 DEF From, PartOf

LEMMA FrontIs ==
    ASSUME NEW T, NEW s \in Seq(T), NEW n \in 0..Len(s)
    PROVE  /\ SubSeq(s, 1, n) \in Seq(T) /\ Len(SubSeq(s, 1, n)) = n
           /\ \A k \in 1..n : SubSeq(s, 1, n)[k] = s[k]
<1>1. PartOf(T, s, 1, n, SubSeq(s, 1, n))
  BY Parted
<1> QED
  BY <1>1 DEF PartOf

LEMMA JoinIs ==
    ASSUME NEW T, NEW x \in Seq(T), NEW y \in Seq(T)
    PROVE  /\ x \o y \in Seq(T) /\ Len(x \o y) = Len(x) + Len(y)
           /\ \A k \in 1..Len(x) : (x \o y)[k] = x[k]
           /\ \A k \in 1..Len(y) : (x \o y)[Len(x) + k] = y[k]
  BY JoinParts DEF JoinOf

LEMMA JoinAssociates ==
    ASSUME NEW T, NEW x \in Seq(T), NEW y \in Seq(T), NEW z \in Seq(T)
    PROVE  (x \o y) \o z = x \o (y \o z)
  OBVIOUS

Associated(x, y, z) == (x \o y) \o z = x \o (y \o z)
LEMMA Associates ==
    ASSUME NEW T, NEW x \in Seq(T), NEW y \in Seq(T), NEW z \in Seq(T)
    PROVE  Associated(x, y, z)
  BY JoinAssociates DEF Associated

LEMMA JoinCancels ==
    ASSUME NEW T, NEW a \in Seq(T), NEW x \in Seq(T), NEW b \in Seq(T), NEW y \in Seq(T),
           a \o x = b \o y, Len(a) = Len(b)
    PROVE  a = b /\ x = y
<1> DEFINE s == a \o x
<1>1. JoinOf(T, a, x, s)
  BY JoinParts
<1>2. JoinOf(T, b, y, s)
  BY JoinParts
<1>3. Len(a) \in Nat /\ Len(x) \in Nat /\ Len(y) \in Nat
  OBVIOUS
<1> HIDE DEF s
<1>4. \A k \in 1..Len(a) : a[k] = b[k]
  BY <1>1, <1>2 DEF JoinOf
<1>5. Len(x) = Len(y) /\ \A k \in 1..Len(x) : x[k] = y[k]
  BY <1>1, <1>2, <1>3 DEF JoinOf
<1> QED
  BY <1>4, <1>5, SeqEqual

LEMMA CutJoined ==
    ASSUME NEW T, NEW s \in Seq(T), NEW k \in 0..Len(s)
    PROVE  s = SubSeq(s, 1, k) \o From(s, k + 1)
<1> DEFINE a == SubSeq(s, 1, k)
           b == From(s, k + 1)
<1>1. a \in Seq(T) /\ Len(a) = k /\ \A i \in 1..k : a[i] = s[i]
  BY FrontIs
<1>2. k \in Nat /\ Len(s) \in Nat /\ k + 1 \in 1..(Len(s) + 1)
  OBVIOUS
<1>3. /\ b \in Seq(T) /\ Len(b) = Len(s) - (k + 1) + 1
      /\ \A i \in 1..(Len(s) - (k + 1) + 1) : b[i] = s[(k + 1) + i - 1]
  BY <1>2, FromIs
<1> HIDE DEF a, b
<1> DEFINE c == a \o b
<1>a. JoinOf(T, a, b, c)
  BY <1>1, <1>3, JoinParts
<1> HIDE DEF c
<1>4. /\ c \in Seq(T) /\ Len(c) = k + Len(b)
      /\ \A i \in 1..k : c[i] = a[i]
      /\ \A i \in 1..Len(b) : c[k + i] = b[i]
  BY <1>1, <1>a DEF JoinOf
<1>5. Len(c) = Len(s)
  BY <1>2, <1>3, <1>4
<1>6. ASSUME NEW i \in 1..Len(s) PROVE c[i] = s[i]
  <2>1. CASE i <= k
    <3>1. i \in 1..k
      BY <1>2, <2>1
    <3> QED
      BY <1>1, <1>4, <3>1
  <2>2. CASE i > k
    <3>1. i - k \in 1..Len(b) /\ k + (i - k) = i /\ (k + 1) + (i - k) - 1 = i
      BY <1>2, <1>3, <2>2
    <3>2. c[i] = b[i - k]
      BY <1>4, <3>1
    <3>3. b[i - k] = s[i]
      BY <1>3, <3>1
    <3> QED
      BY <3>2, <3>3
  <2> QED
    BY <1>2, <2>1, <2>2
<1>7. c = s
  BY <1>4, <1>5, <1>6, SeqEqual
<1> QED
  BY <1>7 DEF a, b, c

CutOf(T, s, y, k, front, back) ==
    /\ front \in Seq(T) /\ back \in Seq(T) /\ back \o y \in Seq(T) /\ Len(front) = k
    /\ s = front \o back /\ s \o y = front \o (back \o y)

LEMMA CutMore ==
    ASSUME NEW T, NEW s \in Seq(T), NEW y \in Seq(T), NEW k \in 0..Len(s)
    PROVE  CutOf(T, s, y, k, SubSeq(s, 1, k), From(s, k + 1))
<1> DEFINE a == SubSeq(s, 1, k)
           b == From(s, k + 1)
<1>1. a \in Seq(T) /\ Len(a) = k
  BY FrontIs
<1>2. b \in Seq(T)
  <2>1. k + 1 \in 1..(Len(s) + 1)
    OBVIOUS
  <2> QED
    BY <2>1, FromIs
<1>3. s = a \o b
  BY CutJoined
<1> HIDE DEF a, b
<1>4. (a \o b) \o y = a \o (b \o y)
  BY <1>1, <1>2, JoinAssociates
<1>5. b \o y \in Seq(T)
  BY <1>2, JoinIs
<1> QED
  BY <1>1, <1>2, <1>3, <1>4, <1>5 DEF a, b, CutOf

LEMMA FromJoined ==
    ASSUME NEW T, NEW x \in Seq(T), NEW y \in Seq(T), NEW i \in 1..(Len(x) + 1)
    PROVE  From(x \o y, i) = From(x, i) \o y
<1>1. i \in Nat /\ i - 1 \in 0..Len(x) /\ (i - 1) + 1 = i /\ Len(x) \in Nat /\ Len(y) \in Nat
  OBVIOUS
<1> DEFINE a == SubSeq(x, 1, i - 1)
           b == From(x, i)
           s == x \o y
<1>2. x = a \o b /\ a \in Seq(T) /\ Len(a) = i - 1
  BY <1>1, CutJoined, FrontIs
<1>3. b \in Seq(T)
  BY FromIs
<1> HIDE DEF a, b
<1>4. s \in Seq(T) /\ Len(s) = Len(x) + Len(y)
  BY JoinIs
<1>5. i - 1 \in 0..Len(s) /\ i \in 1..(Len(s) + 1)
  BY <1>1, <1>4
<1>6. s = SubSeq(s, 1, i - 1) \o From(s, i) /\ Len(SubSeq(s, 1, i - 1)) = i - 1
      /\ SubSeq(s, 1, i - 1) \in Seq(T) /\ From(s, i) \in Seq(T)
  BY <1>1, <1>4, <1>5, CutJoined, FrontIs, FromIs
<1>7. s = a \o (b \o y) /\ b \o y \in Seq(T)
  <2>1. (a \o b) \o y = a \o (b \o y)
    BY <1>2, <1>3, JoinAssociates
  <2>2. b \o y \in Seq(T)
    BY <1>3, JoinIs
  <2> QED
    BY <1>2, <2>1, <2>2
<1> DEFINE front == SubSeq(s, 1, i - 1)
           back == From(s, i)
           more == b \o y
<1> HIDE DEF a, b, s, front, back, more
<1>8. front \o back = a \o more /\ Len(front) = Len(a) /\ front \in Seq(T) /\ back \in Seq(T)
      /\ more \in Seq(T)
  BY <1>2, <1>6, <1>7 DEF front, back, more
<1>9. back = more
  BY <1>2, <1>8, JoinCancels
<1> QED
  BY <1>9 DEF b, s, back, more

LEMMA FromBeyond ==
    ASSUME NEW T, NEW x \in Seq(T), NEW y \in Seq(T), NEW j \in 1..(Len(y) + 1)
    PROVE  From(x \o y, Len(x) + j) = From(y, j)
<1> DEFINE s == x \o y
           n == Len(x) + j
<1>1. j \in Nat /\ Len(x) \in Nat /\ Len(y) \in Nat
  OBVIOUS
<1>2. /\ s \in Seq(T) /\ Len(s) = Len(x) + Len(y)
      /\ \A k \in 1..Len(y) : s[Len(x) + k] = y[k]
  BY JoinIs
<1>3. n \in 1..(Len(s) + 1)
  BY <1>1, <1>2
<1>4. /\ From(s, n) \in Seq(T) /\ Len(From(s, n)) = Len(s) - n + 1
      /\ \A k \in 1..(Len(s) - n + 1) : From(s, n)[k] = s[n + k - 1]
  BY <1>2, <1>3, FromIs
<1>5. /\ From(y, j) \in Seq(T) /\ Len(From(y, j)) = Len(y) - j + 1
      /\ \A k \in 1..(Len(y) - j + 1) : From(y, j)[k] = y[j + k - 1]
  BY FromIs
<1>6. Len(From(s, n)) = Len(From(y, j))
  BY <1>1, <1>2, <1>4, <1>5
<1>7. ASSUME NEW k \in 1..Len(From(s, n)) PROVE From(s, n)[k] = From(y, j)[k]
  <2>1. k \in Nat /\ j + k - 1 \in 1..Len(y) /\ n + k - 1 = Len(x) + (j + k - 1)
    BY <1>1, <1>2, <1>4
  <2>2. s[n + k - 1] = y[j + k - 1]
    BY <1>2, <2>1
  <2> QED
    BY <1>4, <1>5, <1>6, <2>2
<1>8. From(s, n) = From(y, j)
  BY <1>4, <1>5, <1>6, <1>7, SeqEqual
<1> QED
  BY <1>8

LEMMA FromTwice ==
    ASSUME NEW T, NEW s \in Seq(T), NEW i \in 1..(Len(s) + 1), NEW j \in 1..(Len(s) - i + 2)
    PROVE  From(From(s, i), j) = From(s, i + j - 1)
<1> DEFINE a == SubSeq(s, 1, i - 1)
           b == From(s, i)
<1>1. i \in Nat /\ j \in Nat /\ Len(s) \in Nat /\ i - 1 \in 0..Len(s) /\ (i - 1) + 1 = i
  OBVIOUS
<1>2. a \in Seq(T) /\ Len(a) = i - 1
  BY <1>1, FrontIs
<1>3. b \in Seq(T) /\ Len(b) = Len(s) - i + 1
  BY FromIs
<1>4. s = a \o b
  BY <1>1, CutJoined
<1> HIDE DEF a, b
<1>5. j \in 1..(Len(b) + 1)
  BY <1>1, <1>3
<1>6. From(a \o b, Len(a) + j) = From(b, j)
  BY <1>2, <1>3, <1>5, FromBeyond
<1>7. Len(a) + j = i + j - 1
  BY <1>1, <1>2
<1> QED
  BY <1>4, <1>6, <1>7 DEF b

LEMMA FrontJoined ==
    ASSUME NEW T, NEW x \in Seq(T), NEW y \in Seq(T), NEW n \in 0..Len(x)
    PROVE  SubSeq(x \o y, 1, n) = SubSeq(x, 1, n)
<1>1. x \o y \in Seq(T) /\ Len(x \o y) = Len(x) + Len(y) /\ Len(x) \in Nat /\ Len(y) \in Nat
  BY JoinIs
<1>2. n \in 0..Len(x \o y)
  BY <1>1
<1>3. /\ SubSeq(x \o y, 1, n) \in Seq(T) /\ Len(SubSeq(x \o y, 1, n)) = n
      /\ \A k \in 1..n : SubSeq(x \o y, 1, n)[k] = (x \o y)[k]
  BY <1>1, <1>2, FrontIs
<1>4. /\ SubSeq(x, 1, n) \in Seq(T) /\ Len(SubSeq(x, 1, n)) = n
      /\ \A k \in 1..n : SubSeq(x, 1, n)[k] = x[k]
  BY FrontIs
<1>5. \A k \in 1..n : (x \o y)[k] = x[k]
  BY JoinIs
<1> QED
  BY <1>3, <1>4, <1>5, SeqEqual

LEMMA FrontBeyond ==
    ASSUME NEW T, NEW x \in Seq(T), NEW y \in Seq(T), NEW n \in 0..Len(y)
    PROVE  SubSeq(x \o y, 1, Len(x) + n) = x \o SubSeq(y, 1, n)
<1> DEFINE a == SubSeq(y, 1, n)
           b == From(y, n + 1)
<1>1. n \in Nat /\ Len(x) \in Nat /\ Len(y) \in Nat /\ n + 1 \in 1..(Len(y) + 1)
  OBVIOUS
<1>2. a \in Seq(T) /\ Len(a) = n /\ b \in Seq(T) /\ y = a \o b
  BY <1>1, FrontIs, FromIs, CutJoined
<1> HIDE DEF a, b
<1>3. x \o y = (x \o a) \o b /\ x \o a \in Seq(T) /\ Len(x \o a) = Len(x) + n
  <2>1. (x \o a) \o b = x \o (a \o b)
    BY <1>2, JoinAssociates
  <2>2. x \o a \in Seq(T) /\ Len(x \o a) = Len(x) + Len(a)
    BY <1>2, JoinIs
  <2> QED
    BY <1>2, <2>1, <2>2
<1>4. SubSeq((x \o a) \o b, 1, Len(x) + n) = SubSeq(x \o a, 1, Len(x) + n)
  BY <1>1, <1>2, <1>3, FrontJoined
<1>5. SubSeq(x \o a, 1, Len(x) + n) = x \o a
  BY <1>1, <1>3, FrontIs, SeqEqual
<1> QED
  BY <1>3, <1>4, <1>5 DEF a

(* Two ways to put the same sequence together: the longer beginning has the
   shorter one in it. *)
LEMMA PartJoined ==
    ASSUME NEW T, NEW x \in Seq(T), NEW y \in Seq(T), NEW m \in 1..(Len(x) + 1),
           NEW n \in (m - 1)..Len(x)
    PROVE  SubSeq(x \o y, m, n) = SubSeq(x, m, n)
<1> DEFINE z == x \o y
<1>1. z \in Seq(T) /\ Len(z) = Len(x) + Len(y) /\ \A k \in 1..Len(x) : z[k] = x[k]
  BY JoinIs
<1>2. Len(x) \in Nat /\ Len(y) \in Nat
  OBVIOUS
<1> HIDE DEF z
<1>3. m \in 1..(Len(z) + 1) /\ n \in (m - 1)..Len(z)
  BY <1>1, <1>2
<1> DEFINE s == SubSeq(z, m, n)
           t == SubSeq(x, m, n)
<1>4. PartOf(T, z, m, n, s) /\ PartOf(T, x, m, n, t)
  BY <1>1, <1>3, Parted
<1> HIDE DEF s, t
<1>5. ASSUME NEW i \in 1..Len(s) PROVE s[i] = t[i]
  <2>1. i \in 1..((n - m) + 1)
    BY <1>4 DEF PartOf
  <2>2. m + i - 1 \in 1..Len(x)
    BY <1>2, <2>1
  <2>3. s[i] = z[m + i - 1] /\ t[i] = x[m + i - 1]
    BY <1>4, <2>1 DEF PartOf
  <2> QED
    BY <1>1, <2>2, <2>3
<1>6. s \in Seq(T) /\ t \in Seq(T) /\ Len(s) = Len(t)
  BY <1>4 DEF PartOf
<1>7. s = t
  BY <1>5, <1>6, SeqEqual
<1> QED
  BY <1>7 DEF s, t, z

LEMMA TailIs ==
    ASSUME NEW T, NEW s \in Seq(T), s # <<>>
    PROVE  Tail(s) = From(s, 2)
<1>1. Tail(s) \in Seq(T) /\ Len(Tail(s)) = Len(s) - 1
      /\ \A k \in 1..(Len(s) - 1) : Tail(s)[k] = s[k + 1]
  OBVIOUS
<1>2. 2 \in 1..(Len(s) + 1)
  OBVIOUS
<1> DEFINE t == From(s, 2)
<1>3. t \in Seq(T) /\ Len(t) = Len(s) - 2 + 1 /\ \A k \in 1..(Len(s) - 2 + 1) : t[k] = s[2 + k - 1]
  BY <1>2, FromIs
<1> HIDE DEF t
<1>4. ASSUME NEW k \in 1..Len(t) PROVE t[k] = Tail(s)[k]
  <2>1. k \in 1..(Len(s) - 2 + 1) /\ k \in 1..(Len(s) - 1) /\ 2 + k - 1 = k + 1
    BY <1>3
  <2> QED
    BY <1>1, <1>3, <2>1
<1>5. t = Tail(s)
  BY <1>1, <1>3, <1>4, SeqEqual
<1> QED
  BY <1>5 DEF t

LEMMA FromFirst ==
    ASSUME NEW T, NEW s \in Seq(T)
    PROVE  From(s, 1) = s
<1> DEFINE t == From(s, 1)
<1>1. 1 \in 1..(Len(s) + 1)
  OBVIOUS
<1>2. t \in Seq(T) /\ Len(t) = Len(s) /\ \A k \in 1..Len(s) : t[k] = s[k]
  BY <1>1, FromIs
<1> HIDE DEF t
<1>3. t = s
  BY <1>2, SeqEqual
<1> QED
  BY <1>3 DEF t

LEMMA JoinSplits ==
    ASSUME NEW T, NEW a \in Seq(T), NEW x \in Seq(T), NEW b \in Seq(T), NEW y \in Seq(T)
    PROVE  a \o x = b \o y /\ Len(a) <= Len(b) =>
              /\ b = a \o From(b, Len(a) + 1) /\ x = From(b, Len(a) + 1) \o y
              /\ From(b, Len(a) + 1) \in Seq(T)
<1>1. SUFFICES ASSUME a \o x = b \o y, Len(a) <= Len(b)
      PROVE  /\ b = a \o From(b, Len(a) + 1) /\ x = From(b, Len(a) + 1) \o y
             /\ From(b, Len(a) + 1) \in Seq(T)
  OBVIOUS
<1> DEFINE c == SubSeq(b, 1, Len(a))
           d == From(b, Len(a) + 1)
           e == d \o y
<1>2. Len(a) \in 0..Len(b)
  BY <1>1
<1>5. CutOf(T, b, y, Len(a), c, d)
  BY <1>2, CutMore
<1> HIDE DEF c, d
<1>3. /\ c \in Seq(T) /\ d \in Seq(T) /\ e \in Seq(T) /\ Len(c) = Len(a)
      /\ b = c \o d /\ b \o y = c \o e
  BY <1>5 DEF CutOf
<1> HIDE DEF e
<1>4. a = c /\ x = e
  BY <1>1, <1>3, JoinCancels
<1> QED
  BY <1>3, <1>4 DEF d, e

(* How a sequence ends. *)
Ends(p, s) == Len(p) <= Len(s) /\ \A k \in 1..Len(p) : s[Len(s) - Len(p) + k] = p[k]

LEMMA SuffixIs ==
    ASSUME NEW T, NEW p \in Seq(T), NEW s \in Seq(T)
    PROVE  IsSuffix(p, s) <=> Ends(p, s)
<1> DEFINE n == Len(p)
           m == Len(s)
           q == Reverse(p)
           t == Reverse(s)
<1>1. n \in Nat /\ m \in Nat
  OBVIOUS
<1>2. /\ q \in Seq(T) /\ Len(q) = n /\ \A i \in 1..n : q[i] = p[(n - i) + 1]
      /\ t \in Seq(T) /\ Len(t) = m /\ \A i \in 1..m : t[i] = s[(m - i) + 1]
  BY DEF Reverse
<1>3. IsSuffix(p, s) <=> n <= m /\ SubSeq(q, 1, n) = SubSeq(t, 1, n)
  BY <1>2 DEF IsSuffix, IsPrefix
<1> HIDE DEF q, t, n, m
<1>4. ASSUME n <= m
      PROVE  SubSeq(q, 1, n) = SubSeq(t, 1, n) <=> \A i \in 1..n : q[i] = t[i]
  <2> DEFINE a == SubSeq(q, 1, n)
             b == SubSeq(t, 1, n)
  <2>1. n \in 0..Len(q) /\ n \in 0..Len(t)
    BY <1>1, <1>2, <1>4
  <2>2. /\ a \in Seq(T) /\ Len(a) = n /\ \A i \in 1..n : a[i] = q[i]
        /\ b \in Seq(T) /\ Len(b) = n /\ \A i \in 1..n : b[i] = t[i]
    BY <1>2, <2>1, FrontIs
  <2> HIDE DEF a, b
  <2>3. (\A i \in 1..n : q[i] = t[i]) => a = b
    BY <2>2, SeqEqual
  <2>4. a = b => \A i \in 1..n : q[i] = t[i]
    BY <2>2
  <2> QED
    BY <2>3, <2>4 DEF a, b
<1>5. ASSUME n <= m
      PROVE  (\A i \in 1..n : q[i] = t[i]) <=> \A k \in 1..n : s[m - n + k] = p[k]
  <2>1. ASSUME \A i \in 1..n : q[i] = t[i], NEW k \in 1..n PROVE s[m - n + k] = p[k]
    <3>1. (n - k) + 1 \in 1..n /\ (n - k) + 1 \in 1..m
          /\ (n - ((n - k) + 1)) + 1 = k /\ (m - ((n - k) + 1)) + 1 = m - n + k
      BY <1>1, <1>5
    <3>2. q[(n - k) + 1] = p[(n - ((n - k) + 1)) + 1] /\ t[(n - k) + 1] = s[(m - ((n - k) + 1)) + 1]
      BY <1>2, <3>1
    <3>3. q[(n - k) + 1] = t[(n - k) + 1]
      BY <2>1, <3>1
    <3> QED
      BY <3>1, <3>2, <3>3
  <2>2. ASSUME \A k \in 1..n : s[m - n + k] = p[k], NEW i \in 1..n PROVE q[i] = t[i]
    <3>1. (n - i) + 1 \in 1..n /\ i \in 1..m /\ m - n + ((n - i) + 1) = (m - i) + 1
      BY <1>1, <1>5
    <3>2. q[i] = p[(n - i) + 1] /\ t[i] = s[(m - i) + 1]
      BY <1>2, <3>1
    <3>3. s[m - n + ((n - i) + 1)] = p[(n - i) + 1]
      BY <2>2, <3>1
    <3> QED
      BY <3>1, <3>2, <3>3
  <2> QED
    BY <2>1, <2>2
<1>6. Ends(p, s) <=> n <= m /\ \A k \in 1..n : s[m - n + k] = p[k]
  BY DEF Ends, n, m
<1> QED
  BY <1>3, <1>4, <1>5, <1>6

-----------------------------------------------------------------------------
(* The places of a pattern. *)
Place(s, p, i) ==
    /\ i \in Nat /\ i >= 1 /\ i + Len(p) - 1 <= Len(s)
    /\ \A k \in 1..Len(p) : s[i + k - 1] = p[k]

LEMMA FirstAtIs ==
    ASSUME NEW T, NEW s \in Seq(T), NEW p \in Seq(T), Len(p) > 0, NEW i
    PROVE  i \in FirstAt(s, p) <=> Place(s, p, i)
<1>1. Len(p) \in Nat /\ Len(s) \in Nat
  OBVIOUS
<1>2. i \in FirstAt(s, p) <=>
         /\ i \in 1..(Len(s) - Len(p) + 1)
         /\ s[i] = p[1] /\ SubSeq(s, i, i + Len(p) - 1) = p
  BY DEF FirstAt
<1>3. i \in 1..(Len(s) - Len(p) + 1) <=> i \in Nat /\ i >= 1 /\ i + Len(p) - 1 <= Len(s)
  BY <1>1
<1>4. ASSUME i \in 1..(Len(s) - Len(p) + 1)
      PROVE  /\ SubSeq(s, i, i + Len(p) - 1) = p <=> \A k \in 1..Len(p) : s[i + k - 1] = p[k]
             /\ SubSeq(s, i, i + Len(p) - 1) = p => s[i] = p[1]
  <2> DEFINE n == i + Len(p) - 1
             c == SubSeq(s, i, n)
  <2>1. i \in 1..(Len(s) + 1) /\ n \in (i - 1)..Len(s) /\ (n - i) + 1 = Len(p)
    BY <1>1, <1>4
  <2>2. PartOf(T, s, i, n, c)
    BY <2>1, Parted
  <2> HIDE DEF n, c
  <2>3. c \in Seq(T) /\ Len(c) = Len(p) /\ \A k \in 1..Len(p) : c[k] = s[i + k - 1]
    BY <2>1, <2>2 DEF PartOf
  <2>4. c = p <=> \A k \in 1..Len(p) : c[k] = p[k]
    BY <2>3, SeqEqual
  <2>5. c = p => s[i] = p[1]
    <3>1. 1 \in 1..Len(p) /\ i + 1 - 1 = i
      BY <1>1, <1>4
    <3> QED
      BY <2>3, <3>1
  <2> QED
    BY <2>3, <2>4, <2>5 DEF n, c
<1> QED
  BY <1>2, <1>3, <1>4 DEF Place

(* Behind a beginning of n bytes the places are those of the rest; before its
   end they are those of the beginning. *)
LEMMA FirstAtJoined ==
    ASSUME NEW T, NEW x \in Seq(T), NEW y \in Seq(T), NEW p \in Seq(T), Len(p) > 0
    PROVE  /\ \A i \in Nat : i + Len(p) - 1 <= Len(x) =>
                   (i \in FirstAt(x \o y, p) <=> i \in FirstAt(x, p))
           /\ \A j \in Nat : j >= 1 =>
                   (Len(x) + j \in FirstAt(x \o y, p) <=> j \in FirstAt(y, p))
<1>1. Len(x) \in Nat /\ Len(y) \in Nat /\ Len(p) \in Nat
  OBVIOUS
<1> DEFINE s == x \o y
<1>a. JoinOf(T, x, y, s)
  BY JoinParts
<1> HIDE DEF s
<1>2. /\ s \in Seq(T) /\ Len(s) = Len(x) + Len(y)
      /\ \A k \in 1..Len(x) : s[k] = x[k]
      /\ \A k \in 1..Len(y) : s[Len(x) + k] = y[k]
  BY <1>a DEF JoinOf
<1>3. ASSUME NEW i \in Nat, i + Len(p) - 1 <= Len(x)
      PROVE  i \in FirstAt(s, p) <=> i \in FirstAt(x, p)
  <2>1. ASSUME i >= 1, NEW k \in 1..Len(p) PROVE s[i + k - 1] = x[i + k - 1]
    <3>1. i + k - 1 \in 1..Len(x)
      BY <1>1, <1>3, <2>1
    <3> QED
      BY <1>2, <3>1
  <2>2. i + Len(p) - 1 <= Len(s)
    BY <1>1, <1>2, <1>3
  <2>3. (i \in FirstAt(s, p) <=> Place(s, p, i)) /\ (i \in FirstAt(x, p) <=> Place(x, p, i))
    BY <1>2, FirstAtIs
  <2> QED
    BY <1>3, <2>1, <2>2, <2>3 DEF Place
<1>4. ASSUME NEW j \in Nat, j >= 1
      PROVE  Len(x) + j \in FirstAt(s, p) <=> j \in FirstAt(y, p)
  <2>1. Len(x) + j \in Nat /\ Len(x) + j >= 1
        /\ (Len(x) + j + Len(p) - 1 <= Len(s) <=> j + Len(p) - 1 <= Len(y))
    BY <1>1, <1>2, <1>4
  <2>2. ASSUME j + Len(p) - 1 <= Len(y), NEW k \in 1..Len(p)
        PROVE  s[(Len(x) + j) + k - 1] = y[j + k - 1]
    <3>1. j + k - 1 \in 1..Len(y) /\ (Len(x) + j) + k - 1 = Len(x) + (j + k - 1)
      BY <1>1, <1>4, <2>2
    <3> QED
      BY <1>2, <3>1
  <2>3. Len(x) + j \in FirstAt(s, p) <=> Place(s, p, Len(x) + j)
    BY <1>2, FirstAtIs
  <2>4. j \in FirstAt(y, p) <=> Place(y, p, j)
    BY FirstAtIs
  <2> QED
    BY <1>4, <2>1, <2>2, <2>3, <2>4 DEF Place
<1> QED
  BY <1>3, <1>4 DEF s

LEMMA FirstAtRange ==
    ASSUME NEW T, NEW s \in Seq(T), NEW p \in Seq(T), Len(p) > 0
    PROVE  FirstAt(s, p) \subseteq Nat /\ FirstAt(s, p) \subseteq 1..Len(s)
<1>1. Len(s) \in Nat /\ Len(p) \in Nat
  OBVIOUS
<1> QED
  BY <1>1 DEF FirstAt

-----------------------------------------------------------------------------
(* The sum of a sequence is a byte, and a frame in bytes is what its header
   announces. *)
Octet == 0..255
FrameSet == [type : Octet, channel : Octet, payload : {p \in Seq(Octet) : Len(p) < 65536}]

LEMMA FrameIs ==
    ASSUME NEW t \in Octet, NEW c \in Octet, NEW p \in Seq(Octet), Len(p) < 65536
    PROVE  [type |-> t, channel |-> c, payload |-> p] \in FrameSet
  BY SMT DEF FrameSet

LEMMA ByteOf == ASSUME NEW n \in Nat PROVE n % 256 \in Octet
  BY DEF Octet

LEMMA TwoBytes ==
    ASSUME NEW n \in Nat, n < 65536
    PROVE  n \div 256 \in Octet /\ (8 + (n % 256)) + 256 * (n \div 256) = 8 + n
  BY DEF Octet

LEMMA SumRange == ASSUME NEW s \in Seq(Octet) PROVE Checksum8(s) \in Octet
<1>1. PICK f : Sums(f, s, Len(s))
  BY SumExists
<1>2. Checksum8(s) = f[Len(s)]
  BY <1>1, SumValue
<1> DEFINE S == {n \in Nat : n <= Len(s) => f[n] \in Octet}
<1>3. 0 \in S
  BY <1>1 DEF Sums, Octet
<1>4. ASSUME NEW n \in S PROVE n + 1 \in S
  <2> SUFFICES ASSUME n + 1 <= Len(s) PROVE f[n + 1] \in Octet
      OBVIOUS
  <2>0. n \in Nat /\ n <= Len(s) /\ f[n] \in Octet
    OBVIOUS
  <2> HIDE DEF S
  <2>1. n \in Nat /\ f[n] \in Octet /\ n + 1 \in 0..Len(s) /\ n + 1 # 0
        /\ (n + 1) - 1 = n /\ n + 1 \in 1..Len(s)
    BY <2>0
  <2>2. f[n + 1] = AddByte(f[n], s[n + 1])
    BY <1>1, <2>1 DEF Sums
  <2>3. s[n + 1] \in Octet
    BY <2>1
  <2>4. f[n] + s[n + 1] \in Nat
    <3>1. \A x, y \in Octet : x + y \in Nat
      BY DEF Octet
    <3> QED
      BY <2>1, <2>3, <3>1
  <2> QED
    BY <2>2, <2>4, ByteOf DEF AddByte
<1>5. S \subseteq Nat
  OBVIOUS
<1> HIDE DEF S
<1>6. Len(s) \in S
  <2>1. S = Nat
    BY <1>3, <1>4, <1>5, SetInduction
  <2> QED
    BY <2>1
<1> QED
  BY <1>2, <1>6 DEF S

(* The five bytes behind the sync pair, and the bytes of a frame one by one. *)
HeaderOf(frame) ==
    <<Version, frame.type, frame.channel, Len(frame.payload) % 256, Len(frame.payload) \div 256>>

LEMMA HeaderIs ==
    ASSUME NEW frame \in FrameSet
    PROVE  /\ HeaderOf(frame) \in Seq(Octet) /\ Len(HeaderOf(frame)) = 5
           /\ HeaderOf(frame)[1] = 1 /\ HeaderOf(frame)[2] = frame.type
           /\ HeaderOf(frame)[3] = frame.channel
           /\ HeaderOf(frame)[4] = Len(frame.payload) % 256
           /\ HeaderOf(frame)[5] = Len(frame.payload) \div 256
<1>1. /\ frame.type \in Octet /\ frame.channel \in Octet
      /\ Len(frame.payload) \in Nat /\ Len(frame.payload) < 65536
  BY DEF FrameSet
<1> DEFINE low == Len(frame.payload) % 256
           high == Len(frame.payload) \div 256
<1>2. low \in Octet /\ high \in Octet
  <2> DEFINE n == Len(frame.payload)
  <2>1. n \in Nat /\ n < 65536
    BY <1>1
  <2> HIDE DEF n
  <2>2. n % 256 \in Octet /\ n \div 256 \in Octet
    BY <2>1, ByteOf, TwoBytes
  <2> QED
    BY <2>2, Zenon DEF n
<1>3. Version \in Octet /\ Version = 1
  BY DEF Version, Octet
<1> DEFINE t == frame.type
           c == frame.channel
<1> HIDE DEF low, high, t, c
<1> DEFINE h == <<Version, t, c, low, high>>
<1>4. h \in Seq(Octet)
  <2>1. t \in Octet /\ c \in Octet
    BY <1>1 DEF t, c
  <2> QED
    BY <1>2, <1>3, <2>1, TupleGrows5
<1>5. Len(h) = 5 /\ h[1] = 1 /\ h[2] = t /\ h[3] = c /\ h[4] = low /\ h[5] = high
  BY <1>3
<1>6. HeaderOf(frame) = h
  BY DEF HeaderOf, low, high, t, c
<1> HIDE DEF h
<1> QED
  BY <1>4, <1>5, <1>6 DEF low, high, t, c

EncodedAs(frame, e) ==
    LET n == Len(frame.payload) IN
    /\ e \in Seq(Octet) /\ Len(e) = 8 + n
    /\ e[1] = 165 /\ e[2] = 90 /\ e[3] = 1 /\ e[4] = frame.type /\ e[5] = frame.channel
    /\ e[6] = n % 256 /\ e[7] = n \div 256
    /\ \A i \in 1..n : e[7 + i] = frame.payload[i]
    /\ e[8 + n] = Checksum8(SubSeq(e, 3, 7 + n))

LEMMA EncodeIs == ASSUME NEW frame \in FrameSet PROVE EncodedAs(frame, Encode(frame))
<1> DEFINE p == frame.payload
           n == Len(p)
           h == HeaderOf(frame)
           body == h \o p
           sum == Checksum8(body)
           front == Sync \o body
           e == front \o <<sum>>
<1>1. p \in Seq(Octet) /\ n \in Nat
  BY DEF FrameSet
<1>2. /\ h \in Seq(Octet) /\ Len(h) = 5 /\ h[1] = 1 /\ h[2] = frame.type /\ h[3] = frame.channel
      /\ h[4] = n % 256 /\ h[5] = n \div 256
  BY HeaderIs
<1>3. Encode(frame) = e
  BY Zenon DEF Encode, HeaderOf
<1>4. Sync \in Seq(Octet) /\ Len(Sync) = 2 /\ Sync[1] = 165 /\ Sync[2] = 90
  BY DEF Sync, Octet
<1> HIDE DEF h, p
<1>5. JoinOf(Octet, h, p, body)
  BY <1>1, <1>2, JoinParts
<1>6. body \in Seq(Octet) /\ Len(body) = 5 + n
  BY <1>2, <1>5 DEF JoinOf
<1>7. sum \in Octet
  BY <1>6, SumRange
<1> HIDE DEF body
<1>8. JoinOf(Octet, Sync, body, front)
  BY <1>4, <1>6, JoinParts
<1>9. front \in Seq(Octet) /\ Len(front) = 7 + n
  BY <1>1, <1>4, <1>6, <1>8 DEF JoinOf
<1> HIDE DEF front, sum
<1>10. <<sum>> \in Seq(Octet) /\ Len(<<sum>>) = 1 /\ <<sum>>[1] = sum
  BY <1>7
<1>11. JoinOf(Octet, front, <<sum>>, e)
  BY <1>9, <1>10, JoinParts
<1> HIDE DEF e
<1>12. e \in Seq(Octet) /\ Len(e) = 8 + n
  BY <1>1, <1>9, <1>10, <1>11 DEF JoinOf
<1>13. \A i \in 1..(7 + n) : e[i] = front[i]
  BY <1>9, <1>11 DEF JoinOf
<1>14. e[8 + n] = sum
  <2>1. (7 + n) + 1 = 8 + n
    BY <1>1
  <2> QED
    BY <1>9, <1>10, <1>11, <2>1 DEF JoinOf
<1>15. front[1] = 165 /\ front[2] = 90
  BY <1>4, <1>8 DEF JoinOf
<1>16. \A i \in 1..(5 + n) : front[2 + i] = body[i]
  BY <1>4, <1>6, <1>8 DEF JoinOf
<1>17. \A i \in 1..5 : body[i] = h[i]
  BY <1>2, <1>5 DEF JoinOf
<1>18. \A i \in 1..n : body[5 + i] = p[i]
  BY <1>2, <1>5 DEF JoinOf
<1>19. e[1] = 165 /\ e[2] = 90
  <2>1. 1 \in 1..(7 + n) /\ 2 \in 1..(7 + n)
    BY <1>1
  <2> QED
    BY <1>13, <1>15, <2>1
<1>20. ASSUME NEW i \in 1..(5 + n) PROVE e[2 + i] = body[i]
  <2>1. 2 + i \in 1..(7 + n)
    BY <1>1
  <2> QED
    BY <1>13, <1>16, <2>1
<1>21. e[3] = h[1] /\ e[4] = h[2] /\ e[5] = h[3] /\ e[6] = h[4] /\ e[7] = h[5]
  <2>1. \A i \in 1..5 : i \in 1..(5 + n) /\ e[2 + i] = h[i]
    BY <1>1, <1>17, <1>20
  <2>2. 1 \in 1..5 /\ 2 \in 1..5 /\ 3 \in 1..5 /\ 4 \in 1..5 /\ 5 \in 1..5
        /\ 2 + 1 = 3 /\ 2 + 2 = 4 /\ 2 + 3 = 5 /\ 2 + 4 = 6 /\ 2 + 5 = 7
    OBVIOUS
  <2> QED
    BY <2>1, <2>2
<1>22. ASSUME NEW i \in 1..n PROVE e[7 + i] = p[i]
  <2>1. 5 + i \in 1..(5 + n) /\ 2 + (5 + i) = 7 + i
    BY <1>1
  <2> QED
    BY <1>18, <1>20, <2>1
<1>23. SubSeq(e, 3, 7 + n) = body
  <2> DEFINE c == SubSeq(e, 3, 7 + n)
  <2>1. PartOf(Octet, e, 3, 7 + n, c)
    <3>1. 3 \in 1..(Len(e) + 1) /\ 7 + n \in (3 - 1)..Len(e)
      BY <1>1, <1>12
    <3> QED
      BY <1>12, <3>1, Parted
  <2> HIDE DEF c
  <2>2. c \in Seq(Octet) /\ Len(c) = 5 + n
    BY <1>1, <2>1 DEF PartOf
  <2>3. ASSUME NEW i \in 1..Len(c) PROVE c[i] = body[i]
    <3>1. i \in 1..((7 + n) - 3 + 1) /\ i \in 1..(5 + n) /\ 3 + i - 1 = 2 + i
      BY <1>1, <2>2
    <3>2. c[i] = e[2 + i]
      BY <2>1, <3>1 DEF PartOf
    <3> QED
      BY <1>20, <3>1, <3>2
  <2>4. c = body
    BY <1>6, <2>2, <2>3, SeqEqual
  <2> QED
    BY <2>4 DEF c
<1>24. e[8 + n] = Checksum8(SubSeq(e, 3, 7 + n))
  BY <1>14, <1>23 DEF sum
<1> QED
  BY <1>2, <1>3, <1>12, <1>19, <1>21, <1>22, <1>24 DEF EncodedAs, p

(* A frame, whatever follows it, is read back whole: its length, its sum and
   its fields. *)
ReadAs(frame, b, z) ==
    /\ b \in Seq(Octet) /\ Len(b) = FrameLength(b) + Len(z)
    /\ FrameLength(b) = 8 + Len(frame.payload)
    /\ b[1] = 165 /\ b[2] = 90 /\ b[3] = Version /\ b[4] = frame.type
    /\ b[FrameLength(b)] = Checksum8(SubSeq(b, 3, FrameLength(b) - 1))
    /\ Parsed(b) = frame /\ From(b, FrameLength(b) + 1) = z

LEMMA FrameRead ==
    ASSUME NEW frame \in FrameSet, NEW z \in Seq(Octet)
    PROVE  ReadAs(frame, Encode(frame) \o z, z)
<1> DEFINE e == Encode(frame)
           b == e \o z
           n == Len(frame.payload)
<1>1. EncodedAs(frame, e)
  BY EncodeIs
<1>2. frame.payload \in Seq(Octet) /\ n \in Nat /\ n < 65536
  BY DEF FrameSet
<1> HIDE DEF e
<1>3. e \in Seq(Octet) /\ Len(e) = 8 + n
  BY <1>1 DEF EncodedAs
<1>4. JoinOf(Octet, e, z, b)
  BY <1>3, JoinParts
<1>5. From(b, Len(e) + 1) = z
  <2>1. From(z, 1) = z
    <3>1. 1 \in 1..(Len(z) + 1)
      OBVIOUS
    <3>2. From(z, 1) \in Seq(Octet) /\ Len(From(z, 1)) = Len(z)
          /\ \A k \in 1..Len(z) : From(z, 1)[k] = z[k]
      BY <3>1, FromIs
    <3> QED
      BY <3>2, SeqEqual
  <2>2. 1 \in 1..(Len(z) + 1)
    OBVIOUS
  <2> QED
    BY <1>3, <2>1, <2>2, FromBeyond
<1>6. SubSeq(b, 3, 7 + n) = SubSeq(e, 3, 7 + n)
  <2> HIDE DEF b
  <2>1. b \in Seq(Octet) /\ Len(b) = 8 + n + Len(z) /\ \A i \in 1..(8 + n) : b[i] = e[i]
    BY <1>3, <1>4 DEF JoinOf
  <2>2. PartOf(Octet, b, 3, 7 + n, SubSeq(b, 3, 7 + n))
    <3>1. 3 \in 1..(Len(b) + 1) /\ 7 + n \in (3 - 1)..Len(b)
      BY <1>2, <2>1
    <3> QED
      BY <2>1, <3>1, Parted
  <2>3. PartOf(Octet, e, 3, 7 + n, SubSeq(e, 3, 7 + n))
    <3>1. 3 \in 1..(Len(e) + 1) /\ 7 + n \in (3 - 1)..Len(e)
      BY <1>2, <1>3
    <3> QED
      BY <1>3, <3>1, Parted
  <2> DEFINE s == SubSeq(b, 3, 7 + n)
             t == SubSeq(e, 3, 7 + n)
  <2> HIDE DEF s, t
  <2>4. /\ s \in Seq(Octet) /\ Len(s) = (7 + n) - 3 + 1 /\ t \in Seq(Octet) /\ Len(t) = (7 + n) - 3 + 1
        /\ \A i \in 1..((7 + n) - 3 + 1) : s[i] = b[3 + i - 1] /\ t[i] = e[3 + i - 1]
    BY <2>2, <2>3 DEF s, t, PartOf
  <2>5. ASSUME NEW i \in 1..Len(s) PROVE s[i] = t[i]
    <3>1. i \in 1..((7 + n) - 3 + 1) /\ 3 + i - 1 \in 1..(8 + n)
      BY <1>2, <2>4
    <3> QED
      BY <2>1, <2>4, <3>1
  <2>6. s = t
    BY <2>4, <2>5, SeqEqual
  <2> QED
    BY <2>6 DEF s, t
<1> HIDE DEF b
<1>7. b \in Seq(Octet) /\ Len(b) = 8 + n + Len(z) /\ \A i \in 1..(8 + n) : b[i] = e[i]
  BY <1>3, <1>4 DEF JoinOf
<1>8. b[1] = 165 /\ b[2] = 90 /\ b[3] = 1 /\ b[4] = frame.type /\ b[5] = frame.channel
      /\ b[6] = n % 256 /\ b[7] = n \div 256
  <2>1. 1 \in 1..(8 + n) /\ 2 \in 1..(8 + n) /\ 3 \in 1..(8 + n) /\ 4 \in 1..(8 + n)
        /\ 5 \in 1..(8 + n) /\ 6 \in 1..(8 + n) /\ 7 \in 1..(8 + n)
    BY <1>2
  <2>2. b[1] = e[1] /\ b[2] = e[2] /\ b[3] = e[3] /\ b[4] = e[4] /\ b[5] = e[5] /\ b[6] = e[6]
        /\ b[7] = e[7]
    BY <1>7, <2>1
  <2>3. /\ e[1] = 165 /\ e[2] = 90 /\ e[3] = 1 /\ e[4] = frame.type /\ e[5] = frame.channel
        /\ e[6] = n % 256 /\ e[7] = n \div 256
    BY <1>1 DEF EncodedAs
  <2> QED
    BY <2>2, <2>3
<1>9. FrameLength(b) = 8 + n
  <2>1. FrameLength(b) = (8 + (n % 256)) + 256 * (n \div 256)
    BY <1>8 DEF FrameLength
  <2> HIDE DEF n
  <2> QED
    BY <1>2, <2>1, TwoBytes
<1>10. b[8 + n] = Checksum8(SubSeq(b, 3, 7 + n))
  <2>1. 8 + n \in 1..(8 + n)
    BY <1>2
  <2> QED
    BY <1>1, <1>6, <1>7, <2>1 DEF EncodedAs
<1>11. SubSeq(b, 8, 7 + n) = frame.payload
  <2> DEFINE s == SubSeq(b, 8, 7 + n)
  <2>1. PartOf(Octet, b, 8, 7 + n, s)
    <3>1. 8 \in 1..(Len(b) + 1) /\ 7 + n \in (8 - 1)..Len(b)
      BY <1>2, <1>7
    <3> QED
      BY <1>7, <3>1, Parted
  <2> HIDE DEF s
  <2>2. s \in Seq(Octet) /\ Len(s) = n
    BY <1>2, <2>1 DEF PartOf
  <2>3. ASSUME NEW i \in 1..Len(s) PROVE s[i] = frame.payload[i]
    <3>1. i \in 1..((7 + n) - 8 + 1) /\ 8 + i - 1 = 7 + i /\ 7 + i \in 1..(8 + n) /\ i \in 1..n
      BY <1>2, <2>2
    <3>2. s[i] = b[7 + i]
      BY <2>1, <3>1 DEF PartOf
    <3>3. e[7 + i] = frame.payload[i]
      BY <1>1, <3>1 DEF EncodedAs
    <3> QED
      BY <1>7, <3>1, <3>2, <3>3
  <2>4. s = frame.payload
    BY <1>2, <2>2, <2>3, SeqEqual
  <2> QED
    BY <2>4 DEF s
<1>12. Parsed(b) = frame
  <2>1. Parsed(b) = [type |-> b[4], channel |-> b[5], payload |-> SubSeq(b, 8, 7 + n)]
    <3>1. FrameLength(b) - 1 = 7 + n
      BY <1>2, <1>9
    <3> QED
      BY <3>1 DEF Parsed
  <2>2. frame = [type |-> frame.type, channel |-> frame.channel, payload |-> frame.payload]
    BY DEF FrameSet
  <2> QED
    BY <1>8, <1>11, <2>1, <2>2
<1>13. From(b, FrameLength(b) + 1) = z
  BY <1>3, <1>5, <1>9
<1>14. Len(z) \in Nat /\ Len(b) = FrameLength(b) + Len(z) /\ FrameLength(b) - 1 = 7 + n
  BY <1>2, <1>7, <1>9
<1>15. ReadAs(frame, b, z)
  BY <1>7, <1>8, <1>9, <1>10, <1>12, <1>13, <1>14 DEF ReadAs, Version
<1> QED
  BY <1>15 DEF b, e
-----------------------------------------------------------------------------
(* A loop that ends: turn says what one turn makes of a state in L, and from a
   state in Still on nothing changes.  Every other turn reaches a Still state
   or makes the state smaller, so that size[d] + 1 turns are enough. *)
Orbit(L, turn, d, n, f) ==
    /\ f \in [0..n -> L] /\ f[0] = d
    /\ \A i \in 0..(n - 1) : f[i + 1] = turn[f[i]]

Ending(L, Still, turn, size) ==
    /\ turn \in [L -> L] /\ size \in [L -> Nat] /\ Still \subseteq L
    /\ \A e \in Still : turn[e] = e
    /\ \A e \in L : turn[e] \in Still \/ size[turn[e]] < size[e]

LEMMA OrbitGrows ==
    ASSUME NEW L, NEW turn \in [L -> L], NEW d \in L, NEW n \in Nat, NEW f, Orbit(L, turn, d, n, f)
    PROVE  \E g : Orbit(L, turn, d, n + 1, g)
<1> DEFINE g == [i \in 0..(n + 1) |-> IF i = n + 1 THEN turn[f[n]] ELSE f[i]]
<1>1. f \in [0..n -> L] /\ f[0] = d /\ \A i \in 0..(n - 1) : f[i + 1] = turn[f[i]]
  BY DEF Orbit
<1>2. ASSUME NEW i \in 0..n PROVE g[i] = f[i] /\ f[i] \in L
  BY <1>1
<1>3. g[n + 1] = turn[f[n]] /\ turn[f[n]] \in L
  BY <1>1
<1>4. g \in [0..(n + 1) -> L]
  BY <1>1, <1>3
<1>5. ASSUME NEW i \in 0..((n + 1) - 1) PROVE g[i + 1] = turn[g[i]]
  <2>1. i \in 0..n
    OBVIOUS
  <2>2. CASE i = n
    BY <1>2, <1>3, <2>2
  <2>3. CASE i # n
    <3>1. i \in 0..(n - 1) /\ i + 1 \in 0..n
      BY <2>1, <2>3
    <3> HIDE DEF g
    <3> QED
      BY <1>1, <1>2, <2>1, <3>1
  <2> QED
    BY <2>2, <2>3
<1>6. g[0] = d
  BY <1>1
<1> HIDE DEF g
<1> QED
  BY <1>4, <1>5, <1>6 DEF Orbit

LEMMA OrbitExists ==
    ASSUME NEW L, NEW turn \in [L -> L], NEW d \in L
    PROVE  \A n \in Nat : \E f : Orbit(L, turn, d, n, f)
<1> DEFINE S == {n \in Nat : \E f : Orbit(L, turn, d, n, f)}
<1>1. 0 \in S
  <2> DEFINE g == [i \in 0..0 |-> d]
  <2>1. g \in [0..0 -> L] /\ g[0] = d /\ \A i \in 0..(0 - 1) : g[i + 1] = turn[g[i]]
    OBVIOUS
  <2> QED
    BY <2>1 DEF Orbit
<1>2. ASSUME NEW n \in S PROVE n + 1 \in S
  BY OrbitGrows
<1>3. S \subseteq Nat
  OBVIOUS
<1> HIDE DEF S
<1>4. S = Nat
  BY <1>1, <1>2, <1>3, SetInduction
<1> QED
  BY <1>4 DEF S

(* What an orbit holds is determined, and the orbit of the next state is the
   rest of it. *)
LEMMA OrbitShifts ==
    ASSUME NEW L, NEW turn \in [L -> L], NEW d \in L, NEW e \in L, NEW k \in Nat,
           NEW n \in Nat, NEW f, Orbit(L, turn, d, n, f), k <= n, f[k] = e,
           NEW m \in Nat, NEW g, Orbit(L, turn, e, m, g)
    PROVE  \A i \in 0..m : k + i <= n => f[k + i] = g[i]
<1> DEFINE S == {i \in Nat : i <= m /\ k + i <= n => f[k + i] = g[i]}
<1>1. /\ \A i \in 0..(n - 1) : f[i + 1] = turn[f[i]]
      /\ g[0] = e /\ \A i \in 0..(m - 1) : g[i + 1] = turn[g[i]]
  BY DEF Orbit
<1>2. 0 \in S
  BY <1>1
<1>3. ASSUME NEW i \in S PROVE i + 1 \in S
  <2>1. SUFFICES ASSUME i + 1 <= m /\ k + (i + 1) <= n PROVE f[k + (i + 1)] = g[i + 1]
    OBVIOUS
  <2>2. i \in 0..(m - 1) /\ k + i \in 0..(n - 1) /\ k + (i + 1) = (k + i) + 1
    BY <2>1
  <2>3. f[k + i] = g[i]
    BY <2>2
  <2>4. f[(k + i) + 1] = turn[f[k + i]]
    BY <1>1, <2>2
  <2>5. g[i + 1] = turn[g[i]]
    BY <1>1, <2>2
  <2> QED
    BY <2>2, <2>3, <2>4, <2>5
<1>4. S \subseteq Nat
  OBVIOUS
<1> HIDE DEF S
<1>5. S = Nat
  BY <1>2, <1>3, <1>4, SetInduction
<1> QED
  BY <1>5 DEF S

LEMMA OrbitStays ==
    ASSUME NEW L, NEW Still, NEW turn, NEW size, Ending(L, Still, turn, size),
           NEW d \in L, NEW n \in Nat, NEW f, Orbit(L, turn, d, n, f),
           NEW k \in Nat, f[k] \in Still
    PROVE  \A i \in Nat : k <= i /\ i <= n => f[i] = f[k]
<1> DEFINE S == {i \in Nat : k <= i /\ i <= n => f[i] = f[k]}
<1>1. \A i \in 0..(n - 1) : f[i + 1] = turn[f[i]]
  BY DEF Orbit
<1>2. \A e \in Still : turn[e] = e
  BY DEF Ending
<1>3. 0 \in S
  OBVIOUS
<1>4. ASSUME NEW i \in S PROVE i + 1 \in S
  <2>1. SUFFICES ASSUME k <= i + 1, i + 1 <= n PROVE f[i + 1] = f[k]
    OBVIOUS
  <2>2. CASE k = i + 1
    BY <2>2
  <2>3. CASE k # i + 1
    <3>1. k <= i /\ i <= n /\ i \in 0..(n - 1)
      BY <2>1, <2>3
    <3>2. f[i] = f[k]
      BY <3>1
    <3> QED
      BY <1>1, <1>2, <3>1, <3>2
  <2> QED
    BY <2>2, <2>3
<1>5. S \subseteq Nat
  OBVIOUS
<1> HIDE DEF S
<1>6. S = Nat
  BY <1>3, <1>4, <1>5, SetInduction
<1> QED
  BY <1>6 DEF S

LEMMA OrbitSettles ==
    ASSUME NEW L, NEW Still, NEW turn, NEW size, Ending(L, Still, turn, size),
           NEW d \in L, NEW f, Orbit(L, turn, d, size[d] + 1, f)
    PROVE  f[size[d] + 1] \in Still
<1> DEFINE n == size[d] + 1
           S == {i \in Nat : i <= n => f[i] \in Still \/ size[f[i]] + i <= size[d]}
<1>1. /\ f \in [0..n -> L] /\ f[0] = d /\ \A i \in 0..(n - 1) : f[i + 1] = turn[f[i]]
  BY DEF Orbit
<1>2. /\ turn \in [L -> L] /\ size \in [L -> Nat] /\ Still \subseteq L
      /\ \A e \in Still : turn[e] = e
      /\ \A e \in L : turn[e] \in Still \/ size[turn[e]] < size[e]
  BY DEF Ending
<1>n. size[d] \in Nat /\ n \in Nat
  BY <1>2
<1>3. 0 \in S
  BY <1>1, <1>n
<1>4. ASSUME NEW i \in S PROVE i + 1 \in S
  <2>1. SUFFICES ASSUME i + 1 <= n
                 PROVE  f[i + 1] \in Still \/ size[f[i + 1]] + (i + 1) <= size[d]
    OBVIOUS
  <2>2. i \in Nat /\ i <= n /\ i \in 0..(n - 1) /\ i \in 0..n
    BY <1>n, <2>1
  <2>3. f[i + 1] = turn[f[i]] /\ f[i] \in L
    BY <1>1, <2>2
  <2>4. f[i] \in Still \/ size[f[i]] + i <= size[d]
    BY <2>2
  <2>5. CASE f[i] \in Still
    BY <1>2, <2>3, <2>5
  <2>6. CASE size[f[i]] + i <= size[d]
    <3> DEFINE p == size[f[i]]
               q == size[turn[f[i]]]
    <3>1. p \in Nat /\ q \in Nat /\ (turn[f[i]] \in Still \/ q < p)
      BY <1>2, <2>3
    <3>2. p + i <= size[d]
      BY <2>6
    <3> HIDE DEF p, q
    <3>3. q < p => q + (i + 1) <= size[d]
      BY <1>n, <2>2, <3>1, <3>2
    <3>4. turn[f[i]] \in Still \/ q + (i + 1) <= size[d]
      BY <3>1, <3>3
    <3> QED
      BY <2>3, <3>4 DEF q
  <2> QED
    BY <2>4, <2>5, <2>6
<1>5. S \subseteq Nat
  OBVIOUS
<1> HIDE DEF S
<1>6. S = Nat
  BY <1>3, <1>4, <1>5, SetInduction
<1>7. f[n] \in Still \/ size[f[n]] + n <= size[d]
  BY <1>n, <1>6 DEF S
<1>8. f[n] \in L
  <2> HIDE DEF n
  <2>1. n \in 0..n
    BY <1>n
  <2> QED
    BY <1>1, <2>1
<1>9. size[f[n]] \in Nat
  BY <1>2, <1>8
<1> DEFINE q == size[f[n]]
<1> HIDE DEF q
<1>10. ~(q + n <= size[d])
  BY <1>n, <1>9 DEF q
<1> QED
  BY <1>7, <1>10 DEF q

(* Where the loop ends does not depend on where it is looked at. *)
LEMMA OrbitEnds ==
    ASSUME NEW L, NEW Still, NEW turn, NEW size, Ending(L, Still, turn, size),
           NEW d \in L, NEW f, Orbit(L, turn, d, size[d] + 1, f),
           NEW g, Orbit(L, turn, turn[d], size[turn[d]] + 1, g)
    PROVE  /\ f[size[d] + 1] = g[size[turn[d]] + 1]
           /\ d \in Still => f[size[d] + 1] = d
<1> DEFINE e == turn[d]
           n == size[d] + 1
           m == size[e] + 1
<1>1. /\ turn \in [L -> L] /\ size \in [L -> Nat] /\ Still \subseteq L
      /\ \A x \in Still : turn[x] = x
      /\ \A x \in L : turn[x] \in Still \/ size[turn[x]] < size[x]
  BY DEF Ending
<1>2. e \in L /\ size[d] \in Nat /\ size[e] \in Nat /\ n \in Nat /\ m \in Nat /\ n >= 1 /\ m >= 1
  BY <1>1
<1>3. f[0] = d /\ f[0 + 1] = turn[f[0]] /\ g[0] = e
  <2>1. f[0] = d /\ \A i \in 0..(n - 1) : f[i + 1] = turn[f[i]]
    BY DEF Orbit
  <2>2. 0 \in 0..(n - 1)
    BY <1>2
  <2>3. f[0 + 1] = turn[f[0]]
    BY <2>1, <2>2
  <2>4. g[0] = e
    BY DEF Orbit
  <2> QED
    BY <2>1, <2>3, <2>4
<1>4. f[1] = e
  BY <1>3
<1>5. f[n] \in Still /\ g[m] \in Still
  <2>1. f[n] \in Still
    BY OrbitSettles
  <2> HIDE DEF e
  <2>2. g[size[e] + 1] \in Still
    BY <1>2, OrbitSettles DEF e
  <2> QED
    BY <2>1, <2>2
<1>6. Orbit(L, turn, d, n, f) /\ Orbit(L, turn, e, m, g)
  OBVIOUS
<1> HIDE DEF e, n, m
<1>7. \A i \in 0..m : 1 + i <= n => f[1 + i] = g[i]
  BY <1>1, <1>2, <1>4, <1>6, OrbitShifts
<1>8. CASE e \in Still
  <2>1. \A i \in Nat : 1 <= i /\ i <= n => f[i] = e
    BY <1>2, <1>4, <1>6, <1>8, OrbitStays
  <2>2. \A i \in Nat : 0 <= i /\ i <= m => g[i] = e
    BY <1>2, <1>3, <1>6, <1>8, OrbitStays
  <2> QED
    BY <1>2, <1>3, <1>1, <2>1, <2>2 DEF n, m, e
<1>9. CASE e \notin Still
  <2>1. size[e] < size[d]
    BY <1>1, <1>9 DEF e
  <2>2. m \in 0..m /\ 1 + m <= n
    BY <1>2, <2>1 DEF n, m
  <2>3. f[1 + m] = g[m]
    BY <1>7, <2>2
  <2>4. f[n] = f[1 + m]
    <3>1. 1 + m \in Nat /\ f[1 + m] \in Still
      BY <1>2, <1>5, <2>3
    <3>2. \A i \in Nat : 1 + m <= i /\ i <= n => f[i] = f[1 + m]
      BY <1>2, <1>6, <3>1, OrbitStays
    <3> QED
      BY <1>2, <2>2, <3>2
  <2>5. d \notin Still
    BY <1>1, <1>9 DEF e
  <2> QED
    BY <2>3, <2>4, <2>5 DEF n, m, e
<1> QED
  BY <1>8, <1>9

(* Induction over the size. *)
LEMMA SizeInduction ==
    ASSUME NEW L, NEW size \in [L -> Nat], NEW S, S \subseteq L,
           \A d \in L : (\A e \in L : size[e] < size[d] => e \in S) => d \in S
    PROVE  S = L
<1> DEFINE N == {n \in Nat : \A e \in L : size[e] < n => e \in S}
<1>1. 0 \in N
  OBVIOUS
<1>2. ASSUME NEW n \in N PROVE n + 1 \in N
  <2>1. SUFFICES ASSUME NEW e \in L, size[e] < n + 1 PROVE e \in S
    OBVIOUS
  <2>2. ASSUME NEW c \in L, size[c] < size[e] PROVE c \in S
    <3>1. size[c] < n
      <4>1. size[c] \in Nat /\ size[e] \in Nat
        OBVIOUS
      <4> QED
        BY <2>1, <2>2, <4>1
    <3> QED
      BY <3>1
  <2> QED
    BY <2>2
<1>3. N \subseteq Nat
  OBVIOUS
<1> HIDE DEF N
<1>4. N = Nat
  BY <1>1, <1>2, <1>3, SetInduction
<1>5. ASSUME NEW e \in L PROVE e \in S
  <2>1. size[e] \in Nat /\ size[e] + 1 \in Nat /\ size[e] < size[e] + 1
    OBVIOUS
  <2>2. size[e] + 1 \in N
    BY <1>4, <2>1
  <2> QED
    BY <2>1, <2>2 DEF N
<1> QED
  BY <1>5
-----------------------------------------------------------------------------
(* What the library's FlattenSeq returns: sequences of T one behind another
   are a sequence of T. *)
Flat(f, seqs, n) == f = [i \in 1..n |-> IF i = 1 THEN seqs[i] ELSE f[i - 1] \o seqs[i]]

LEMMA FlatGrows ==
    ASSUME NEW seqs, NEW n \in Nat, n >= 1, NEW f, Flat(f, seqs, n)
    PROVE  \E g : Flat(g, seqs, n + 1)
<1> DEFINE g == [i \in 1..(n + 1) |-> IF i <= n THEN f[i] ELSE f[n] \o seqs[n + 1]]
<1>1. g[n + 1] = f[n] \o seqs[n + 1]
  <2>1. n + 1 \in 1..(n + 1) /\ ~(n + 1 <= n)
    OBVIOUS
  <2> QED
    BY <2>1, Zenon
<1>2. ASSUME NEW i \in 1..(n + 1)
      PROVE  g[i] = IF i = 1 THEN seqs[i] ELSE g[i - 1] \o seqs[i]
  <2>1. CASE i = n + 1
    <3>1. i # 1 /\ i - 1 = n /\ g[n] = f[n]
      BY <2>1
    <3> QED
      BY <1>1, <2>1, <3>1
  <2>2. CASE i <= n
    <3>1. i \in 1..n /\ g[i] = f[i] /\ (i # 1 => i - 1 \in 1..(n + 1) /\ g[i - 1] = f[i - 1])
      BY <2>2
    <3>2. f[i] = IF i = 1 THEN seqs[i] ELSE f[i - 1] \o seqs[i]
      BY <3>1 DEF Flat
    <3> QED
      BY <3>1, <3>2
  <2> QED
    BY <2>1, <2>2
<1> DEFINE h == [i \in 1..(n + 1) |-> IF i = 1 THEN seqs[i] ELSE g[i - 1] \o seqs[i]]
<1>3. \A i \in 1..(n + 1) : g[i] = h[i]
  BY <1>2
<1>4. DOMAIN g = 1..(n + 1) /\ DOMAIN h = 1..(n + 1)
  OBVIOUS
<1>5. g = h
  BY <1>3, <1>4
<1> QED
  BY <1>5 DEF Flat

LEMMA FlatExists == ASSUME NEW seqs PROVE \A n \in Nat : n >= 1 => \E f : Flat(f, seqs, n)
<1> DEFINE S == {n \in Nat : n >= 1 => \E f : Flat(f, seqs, n)}
<1>1. 0 \in S
  OBVIOUS
<1>2. ASSUME NEW n \in S PROVE n + 1 \in S
  <2>1. CASE n = 0
    <3> DEFINE f == [i \in {1} |-> seqs[1]]
    <3>1. f = [i \in {1} |-> IF i = 1 THEN seqs[i] ELSE f[i - 1] \o seqs[i]]
      OBVIOUS
    <3>2. 1..1 = {1}
      OBVIOUS
    <3>3. Flat(f, seqs, 1)
      BY <3>1, <3>2 DEF Flat
    <3> QED
      BY <2>1, <3>3
  <2>2. CASE n # 0
    <3>1. n \in Nat /\ n >= 1 /\ n + 1 \in Nat
      BY <2>2
    <3>2. PICK f : Flat(f, seqs, n)
      BY <3>1
    <3>3. \E g : Flat(g, seqs, n + 1)
      BY <3>1, <3>2, FlatGrows
    <3> QED
      BY <3>1, <3>3
  <2> QED
    BY <2>1, <2>2
<1>3. S \subseteq Nat
  OBVIOUS
<1> HIDE DEF S
<1>4. S = Nat
  BY <1>1, <1>2, <1>3, SetInduction
<1> QED
  BY <1>4 DEF S

LEMMA FlattenIs ==
    ASSUME NEW seqs, Len(seqs) \in Nat, Len(seqs) >= 1
    PROVE  \E f : Flat(f, seqs, Len(seqs)) /\ FlattenSeq(seqs) = f[Len(seqs)]
<1> DEFINE F == CHOOSE g : g = [i \in 1..Len(seqs) |-> IF i = 1 THEN seqs[i] ELSE g[i - 1] \o seqs[i]]
<1>1. FlattenSeq(seqs) = F[Len(seqs)]
  BY DEF FlattenSeq
<1>2. \E g : Flat(g, seqs, Len(seqs))
  BY FlatExists
<1>3. F = [i \in 1..Len(seqs) |-> IF i = 1 THEN seqs[i] ELSE F[i - 1] \o seqs[i]]
  <2>1. \E g : g = [i \in 1..Len(seqs) |-> IF i = 1 THEN seqs[i] ELSE g[i - 1] \o seqs[i]]
    BY <1>2, Zenon DEF Flat
  <2> QED
    BY <2>1, Zenon
<1> HIDE DEF F
<1> QED
  BY <1>1, <1>3 DEF Flat

LEMMA FlatType ==
    ASSUME NEW T, NEW seqs, NEW n \in Nat, \A i \in 1..n : seqs[i] \in Seq(T), NEW f, Flat(f, seqs, n)
    PROVE  \A i \in 1..n : f[i] \in Seq(T)
<1> DEFINE S == {i \in Nat : i \in 1..n => f[i] \in Seq(T)}
<1>1. 0 \in S
  OBVIOUS
<1>2. ASSUME NEW i \in S PROVE i + 1 \in S
  <2> SUFFICES ASSUME i + 1 \in 1..n PROVE f[i + 1] \in Seq(T)
      OBVIOUS
  <2>1. f[i + 1] = IF i + 1 = 1 THEN seqs[i + 1] ELSE f[(i + 1) - 1] \o seqs[i + 1]
    BY DEF Flat
  <2>2. CASE i = 0
    BY <2>1, <2>2
  <2>3. CASE i # 0
    <3>1. i \in Nat /\ i \in 1..n /\ i + 1 # 1 /\ (i + 1) - 1 = i
      BY <2>3
    <3>2. f[i] \in Seq(T) /\ seqs[i + 1] \in Seq(T)
      BY <3>1
    <3>3. f[i] \o seqs[i + 1] \in Seq(T)
      BY <3>2
    <3> QED
      BY <2>1, <3>1, <3>3
  <2> QED
    BY <2>2, <2>3
<1>3. S \subseteq Nat
  OBVIOUS
<1> HIDE DEF S
<1>4. S = Nat
  BY <1>1, <1>2, <1>3, SetInduction
<1> QED
  BY <1>4 DEF S

LEMMA FlattenType ==
    ASSUME NEW T, NEW n \in Nat, NEW seqs, Len(seqs) = n, seqs = <<>> \/ n >= 1,
           \A i \in 1..n : seqs[i] \in Seq(T)
    PROVE  FlattenSeq(seqs) \in Seq(T)
<1>1. CASE n = 0
  BY <1>1 DEF FlattenSeq
<1>2. CASE n # 0
  <2>1. n >= 1
    BY <1>2
  <2>2. PICK f : Flat(f, seqs, n) /\ FlattenSeq(seqs) = f[n]
    BY <2>1, FlattenIs
  <2>3. \A i \in 1..n : f[i] \in Seq(T)
    BY <2>2, FlatType
  <2> QED
    BY <2>1, <2>2, <2>3
<1> QED
  BY <1>1, <1>2

(* A sequence from a pattern's place on begins with the pattern. *)
LEMMA PlaceCut ==
    ASSUME NEW T, NEW s \in Seq(T), NEW p \in Seq(T), NEW i \in Nat, Place(s, p, i)
    PROVE  From(s, i) = p \o From(s, i + Len(p))
<1> DEFINE w == From(s, i)
           n == Len(p)
           x == SubSeq(w, 1, n)
<1>1. /\ i >= 1 /\ i + n - 1 <= Len(s) /\ Len(s) \in Nat /\ n \in Nat
      /\ \A k \in 1..n : s[i + k - 1] = p[k]
  BY DEF Place
<1>2. i \in 1..(Len(s) + 1) /\ i + n \in 1..(Len(s) + 1) /\ n \in 0..(Len(s) - i + 1)
  BY <1>1
<1>3. /\ w \in Seq(T) /\ Len(w) = Len(s) - i + 1 /\ \A k \in 1..(Len(s) - i + 1) : w[k] = s[i + k - 1]
  BY <1>2, FromIs
<1>4. From(w, n + 1) = From(s, i + n)
  <2>1. n + 1 \in 1..(Len(w) + 1) /\ i + (n + 1) - 1 = i + n
    BY <1>1, <1>2, <1>3
  <2> QED
    BY <1>2, <2>1, FromTwice
<1> HIDE DEF w, n
<1>5. n \in 0..Len(w)
  BY <1>2, <1>3
<1>6. x \in Seq(T) /\ Len(x) = n /\ \A k \in 1..n : x[k] = w[k]
  BY <1>3, <1>5, FrontIs
<1>7. w = x \o From(w, n + 1)
  BY <1>3, <1>5, CutJoined
<1> HIDE DEF x
<1>8. x = p
  <2>1. ASSUME NEW k \in 1..n PROVE x[k] = p[k]
    <3>1. k \in 1..(Len(s) - i + 1)
      <4> DEFINE l == Len(s) - i + 1
      <4>1. l \in Int /\ n \in 0..l
        BY <1>1, <1>2
      <4> HIDE DEF l
      <4>2. k \in 1..l
        BY <4>1
      <4> QED
        BY <4>2 DEF l
    <3>2. w[k] = s[i + k - 1] /\ s[i + k - 1] = p[k] /\ x[k] = w[k]
      BY <1>1, <1>3, <1>6, <3>1
    <3> QED
      BY <3>2
  <2>2. Len(p) = n
    BY DEF n
  <2> QED
    BY <1>6, <2>1, <2>2, SeqEqual
<1> QED
  BY <1>4, <1>7, <1>8 DEF w, n

-----------------------------------------------------------------------------
(* What a header announces, and what of a frame more bytes behind it leave as
   it is. *)
LEMMA AnnouncedLength ==
    ASSUME NEW b \in Seq(Octet), Len(b) >= 7
    PROVE  /\ FrameLength(b) \in Nat /\ FrameLength(b) >= 8
           /\ b[3] \in Octet /\ b[4] \in Octet /\ b[5] \in Octet /\ b[6] \in Octet /\ b[7] \in Octet
           /\ FrameLength(b) < 8 + 65536
<1>1. Len(b) \in Nat /\ 3 \in 1..Len(b) /\ 4 \in 1..Len(b) /\ 5 \in 1..Len(b) /\ 6 \in 1..Len(b) /\ 7 \in 1..Len(b)
  OBVIOUS
<1>2. b[3] \in Octet /\ b[4] \in Octet /\ b[5] \in Octet /\ b[6] \in Octet /\ b[7] \in Octet
  BY <1>1
<1> DEFINE Fine(n) == n \in Nat /\ n >= 8 /\ n < 8 + 65536
<1>3. \A x, y \in Octet : Fine(8 + x + 256 * y)
  BY DEF Octet
<1> HIDE DEF Fine
<1>4. Fine(FrameLength(b))
  BY <1>2, <1>3, Zenon DEF FrameLength
<1> QED
  BY <1>2, <1>4 DEF Fine

LEMMA ParsedIs ==
    ASSUME NEW b \in Seq(Octet), Len(b) >= 7, Len(b) >= FrameLength(b)
    PROVE  Parsed(b) \in FrameSet /\ From(b, FrameLength(b) + 1) \in Seq(Octet)
           /\ Len(From(b, FrameLength(b) + 1)) = Len(b) - FrameLength(b)
<1> DEFINE n == FrameLength(b)
<1>1. n \in Nat /\ n >= 8 /\ b[4] \in Octet /\ b[5] \in Octet /\ n < 8 + 65536
  BY AnnouncedLength
<1>2. Len(b) >= n /\ Len(b) \in Nat
  OBVIOUS
<1> HIDE DEF n
<1>3. PartOf(Octet, b, 8, n - 1, SubSeq(b, 8, n - 1))
  <2>1. 8 \in 1..(Len(b) + 1) /\ n - 1 \in (8 - 1)..Len(b)
    BY <1>1, <1>2
  <2> QED
    BY <2>1, Parted
<1>4. SubSeq(b, 8, n - 1) \in Seq(Octet) /\ Len(SubSeq(b, 8, n - 1)) < 65536
  BY <1>1, <1>3 DEF PartOf
<1>5. n + 1 \in 1..(Len(b) + 1) /\ Len(b) - (n + 1) + 1 = Len(b) - n
  BY <1>1, <1>2
<1>6. From(b, n + 1) \in Seq(Octet) /\ Len(From(b, n + 1)) = Len(b) - n
  BY <1>5, FromIs
<1> QED
  BY <1>1, <1>4, <1>6 DEF Parsed, FrameSet, n

HeadSame(b, c) ==
    /\ FrameLength(c) = FrameLength(b) /\ c[3] = b[3] /\ c[4] = b[4] /\ c[5] = b[5]
    /\ FrameLength(b) \in Nat /\ FrameLength(b) >= 8

LEMMA HeadMore ==
    ASSUME NEW b \in Seq(Octet), NEW y \in Seq(Octet), Len(b) >= 7
    PROVE  HeadSame(b, b \o y)
<1> DEFINE c == b \o y
<1>1. \A k \in 1..Len(b) : c[k] = b[k]
  BY JoinIs
<1>2. 3 \in 1..Len(b) /\ 4 \in 1..Len(b) /\ 5 \in 1..Len(b) /\ 6 \in 1..Len(b) /\ 7 \in 1..Len(b)
  OBVIOUS
<1> HIDE DEF c
<1>3. c[3] = b[3] /\ c[4] = b[4] /\ c[5] = b[5] /\ c[6] = b[6] /\ c[7] = b[7]
  BY <1>1, <1>2
<1>4. FrameLength(c) = FrameLength(b)
  BY <1>3 DEF FrameLength
<1>5. FrameLength(b) \in Nat /\ FrameLength(b) >= 8
  BY AnnouncedLength
<1> QED
  BY <1>3, <1>4, <1>5 DEF HeadSame, c

(* The first of a set of numbers is determined by being in it and no larger
   than the others. *)
LEMMA FirstOf ==
    ASSUME NEW S, S \subseteq Nat, NEW m \in S, \A i \in S : m <= i
    PROVE  Min(S) = m
<1> DEFINE k == Min(S)
<1>1. k \in S /\ \A i \in S : k <= i
  BY MinOf
<1> HIDE DEF k
<1>2. k <= m /\ m <= k /\ k \in Nat /\ m \in Nat
  BY <1>1
<1>3. k = m
  BY <1>2
<1> QED
  BY <1>3 DEF k

(* Sequences put one behind another, one more at the end. *)
FlatBeyond(f, seqs, n, g, more, m) ==
    /\ n \in Nat /\ m \in Nat /\ n <= m /\ Flat(f, seqs, n) /\ Flat(g, more, m)
    /\ \A i \in 1..n : more[i] = seqs[i]

LEMMA FlatSame ==
    ASSUME NEW f, NEW seqs, NEW n, NEW g, NEW more, NEW m, FlatBeyond(f, seqs, n, g, more, m)
    PROVE  \A i \in 1..n : g[i] = f[i]
<1>0. /\ n \in Nat /\ m \in Nat /\ n <= m /\ Flat(f, seqs, n) /\ Flat(g, more, m)
      /\ \A i \in 1..n : more[i] = seqs[i]
  BY DEF FlatBeyond
<1> DEFINE S == {i \in Nat : i \in 1..n => g[i] = f[i]}
<1>1. 0 \in S
  OBVIOUS
<1>2. ASSUME NEW i \in S PROVE i + 1 \in S
  <2> SUFFICES ASSUME i + 1 \in 1..n PROVE g[i + 1] = f[i + 1]
      OBVIOUS
  <2>1. f[i + 1] = IF i + 1 = 1 THEN seqs[i + 1] ELSE f[(i + 1) - 1] \o seqs[i + 1]
    BY <1>0 DEF Flat
  <2>2. g[i + 1] = IF i + 1 = 1 THEN more[i + 1] ELSE g[(i + 1) - 1] \o more[i + 1]
    <3>1. i + 1 \in 1..m
      BY <1>0
    <3> QED
      BY <1>0, <3>1 DEF Flat
  <2>3. more[i + 1] = seqs[i + 1]
    BY <1>0
  <2>4. CASE i = 0
    BY <2>1, <2>2, <2>3, <2>4
  <2>5. CASE i # 0
    <3>1. i + 1 # 1 /\ (i + 1) - 1 = i /\ g[i] = f[i]
      BY <1>0, <2>5
    <3> QED
      BY <2>1, <2>2, <2>3, <3>1
  <2> QED
    BY <2>4, <2>5
<1>3. S \subseteq Nat
  OBVIOUS
<1> HIDE DEF S
<1>4. S = Nat
  BY <1>1, <1>2, <1>3, SetInduction
<1> QED
  BY <1>4 DEF S

LEMMA FlattenEmpty == FlattenSeq(<<>>) = <<>>
  BY DEF FlattenSeq

LEMMA FlattenAppend ==
    ASSUME NEW T, NEW seqs \in Seq(Seq(T)), NEW x \in Seq(T)
    PROVE  FlattenSeq(Append(seqs, x)) = FlattenSeq(seqs) \o x
<1> DEFINE n == Len(seqs)
           more == Append(seqs, x)
<1>1. /\ n \in Nat /\ n = Len(seqs) /\ Len(more) = n + 1 /\ more[n + 1] = x
      /\ \A i \in 1..n : more[i] = seqs[i]
  OBVIOUS
<1> HIDE DEF more, n
<1>2. PICK g : Flat(g, more, n + 1) /\ FlattenSeq(more) = g[n + 1]
  <2>1. Len(more) \in Nat /\ Len(more) >= 1
    BY <1>1
  <2>2. \E g : Flat(g, more, Len(more)) /\ FlattenSeq(more) = g[Len(more)]
    BY <2>1, FlattenIs
  <2> QED
    BY <1>1, <2>2
<1>3. g[n + 1] = IF n + 1 = 1 THEN more[n + 1] ELSE g[(n + 1) - 1] \o more[n + 1]
  <2>1. n + 1 \in 1..(n + 1)
    BY <1>1
  <2> QED
    BY <1>2, <2>1 DEF Flat
<1>4. CASE n = 0
  <2>1. seqs = <<>> /\ FlattenSeq(seqs) = <<>>
    <3> DEFINE U == Seq(T)
    <3> HIDE DEF U
    <3>0. seqs \in Seq(U) /\ Len(seqs) = 0
      BY <1>1, <1>4 DEF U
    <3>1. seqs = <<>>
      BY <3>0
    <3> QED
      BY <3>1, FlattenEmpty
  <2>2. <<>> \o x = x
    OBVIOUS
  <2> QED
    BY <1>1, <1>2, <1>3, <1>4, <2>1, <2>2 DEF more
<1>5. CASE n # 0
  <2>1. n >= 1 /\ n \in 1..n /\ n <= n + 1 /\ n + 1 \in Nat /\ n + 1 # 1 /\ (n + 1) - 1 = n
    BY <1>1, <1>5
  <2>2. PICK f : Flat(f, seqs, n) /\ FlattenSeq(seqs) = f[n]
    BY <1>1, <2>1, FlattenIs
  <2>3. g[n] = f[n]
    <3>1. Flat(g, more, n + 1)
      BY <1>2
    <3> DEFINE m == n + 1
    <3>2. m \in Nat /\ n <= m /\ Flat(g, more, m)
      BY <2>1, <3>1
    <3> HIDE DEF m
    <3>3. \A i \in 1..n : g[i] = f[i]
      <4>1. n \in Nat /\ \A i \in 1..n : more[i] = seqs[i]
        BY <1>1
      <4>2. FlatBeyond(f, seqs, n, g, more, m)
        BY <2>2, <3>2, <4>1 DEF FlatBeyond
      <4> QED
        BY <4>2, FlatSame
    <3> QED
      BY <2>1, <3>3
  <2> QED
    BY <1>1, <1>2, <1>3, <2>1, <2>2, <2>3 DEF more
<1> QED
  BY <1>4, <1>5

LEMMA Unappend ==
    ASSUME NEW T, NEW s \in Seq(T), NEW n \in Nat, Len(s) = n + 1
    PROVE  \E t \in Seq(T), x \in T : s = Append(t, x) /\ Len(t) = n
<1> DEFINE t == SubSeq(s, 1, n)
           x == s[n + 1]
<1>1. n \in 0..Len(s)
  OBVIOUS
<1>2. t \in Seq(T) /\ Len(t) = n /\ \A k \in 1..n : t[k] = s[k]
  BY <1>1, FrontIs
<1>3. x \in T
  OBVIOUS
<1> HIDE DEF t
<1>4. Append(t, x) \in Seq(T) /\ Len(Append(t, x)) = n + 1
  BY <1>2, <1>3
<1>5. \A i \in 1..(n + 1) : Append(t, x)[i] = s[i]
  BY <1>2, <1>3
<1>6. Append(t, x) = s
  BY <1>4, <1>5, SeqEqual
<1> QED
  BY <1>2, <1>3, <1>6

LEMMA JoinAppend ==
    ASSUME NEW T, NEW s \in Seq(T), NEW t \in Seq(T), NEW x \in T
    PROVE  s \o Append(t, x) = Append(s \o t, x) /\ s \o Append(t, x) \in Seq(T)
<1>1. Append(t, x) = t \o <<x>> /\ <<x>> \in Seq(T)
  BY ConcatOne
<1>2. s \o t \in Seq(T)
  OBVIOUS
<1>3. Append(s \o t, x) = (s \o t) \o <<x>>
  BY <1>2, ConcatOne
<1>4. (s \o t) \o <<x>> = s \o (t \o <<x>>)
  BY <1>1, JoinAssociates
<1> QED
  BY <1>1, <1>2, <1>3, <1>4

LEMMA Uncons ==
    ASSUME NEW T, NEW s \in Seq(T), s # <<>>
    PROVE  \E x \in T, t \in Seq(T) : s = <<x>> \o t
<1>1. Len(s) \in Nat /\ 1 \in 0..Len(s) /\ 2 \in 1..(Len(s) + 1)
  OBVIOUS
<1>2. s = SubSeq(s, 1, 1) \o From(s, 2) /\ From(s, 2) \in Seq(T)
  <2>1. s = SubSeq(s, 1, 1) \o From(s, 1 + 1)
    BY <1>1, CutJoined
  <2> QED
    BY <1>1, <2>1, FromIs
<1>3. SubSeq(s, 1, 1) = <<s[1]>> /\ s[1] \in T
  <2> DEFINE a == SubSeq(s, 1, 1)
             b == <<s[1]>>
  <2>1. s[1] \in T
    OBVIOUS
  <2>2. b \in Seq(T) /\ Len(b) = 1 /\ b[1] = s[1]
    BY <2>1
  <2>3. a \in Seq(T) /\ Len(a) = 1 /\ \A k \in 1..1 : a[k] = s[k]
    BY <1>1, FrontIs
  <2> HIDE DEF a, b
  <2>4. a = b
    BY <2>2, <2>3, SeqEqual
  <2> QED
    BY <2>1, <2>4 DEF a, b
<1> QED
  BY <1>2, <1>3
=============================================================================
